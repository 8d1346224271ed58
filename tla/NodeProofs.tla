------------------------------- MODULE NodeProofs -------------------------------
(***************************************************************************)
(* The parts of a node that share no state, for every value of their       *)
(* constants.                                                              *)
(*   Ioc     the triple buffer never tears a value, never returns an old   *)
(*           one and never loses the first publication                     *)
(*   Can     no frame lost by a back end is lost silently, a recovery is   *)
(*           counted, a closed bus stays off, no frame waits asleep        *)
(*   CanIf   the ring under AUTOSAR's CanIf gives whole frames, in order,  *)
(*           and counts its holes; what is not yet out is not called out   *)
(*   Osal    a message read from a host's cell is whole, no older than the *)
(*           call, and fresh once                                          *)
(*   Io      an output shows what it was last told, at its own carrier and *)
(*           duty, and a checked read gives its own channel's sample       *)
(*   XCore   what a core is told of the other is one value, whole, of this *)
(*           boot where a boot is shown, and never an older one            *)
(***************************************************************************)
EXTENDS MCNode, Remainders, XCoreProofs, TLAPS

-------------------------------------------------------------------------------
(***************************************************************************)
(* The triple buffer (Ioc).                                                *)
(***************************************************************************)
\* ioc_init leaves three slots of zeroes, none fresh, in the invariant.
LEMMA InitInv == Init => IocInv
  <1> USE IocAssumption DEF IocAssumption
  <1> SUFFICES ASSUME Init PROVE IocInv
    OBVIOUS
  <1>1. Flags
    BY DEF Init, Flags
  <1>2. Ranges
    BY DEF Init, Ranges, Slot, Bytes, Filled
  <1>3. ThreeSlots /\ FillGrows /\ CopyGrows /\ ReadsLatest
    BY DEF Init, ThreeSlots, FillGrows, CopyGrows, ReadsLatest
  <1>4. NewestHeld
    BY DEF Init, NewestHeld, Slot
  <1>5. FreshWhenWritten /\ FlagStays /\ SeenLags /\ EverHonest
    BY DEF Init, FreshWhenWritten, FlagStays, SeenLags, EverHonest
  <1> QED
    BY <1>1, <1>2, <1>3, <1>4, <1>5 DEF IocInv, TypeOK

\* The counters stay in the signal, the slots among the three.
LEMMA RangesKept == ASSUME Ranges, Next PROVE Ranges'
  <1> USE DEF Ranges, ReaderIdle, WriterIdle, StartCopy
  <1>1. 1 \in Bytes
    BY IocAssumption DEF IocAssumption, Bytes
  <1>2. \A i \in Bytes : i # Size => i + 1 \in Bytes
    BY IocAssumption DEF IocAssumption, Bytes
  <1>3. CASE WriteBegin \/ WriteSwap
    BY <1>1, <1>3 DEF WriteBegin, WriteSwap
  <1>4. CASE WriteByte
    <2>1. wat' \in Bytes
      BY <1>1, <1>2, <1>4 DEF WriteByte
    <2>2. written + 1 \in Nat
      OBVIOUS
    <2>3. arena' \in [Slot -> [Bytes -> Nat]]
      BY <2>2, <1>4 DEF WriteByte
    <2> QED
      BY <2>1, <2>3, <1>4 DEF WriteByte
  <1>5. CASE ReadBegin \/ LookFresh \/ ReadEnd
    BY <1>5 DEF ReadBegin, LookFresh, ReadEnd
  <1>6. CASE LookStale
    BY <1>1, <1>6 DEF LookStale
  <1>7. CASE ReadSwap
    BY <1>1, <1>7 DEF ReadSwap
  <1>8. CASE ReadByte
    <2>1. rat' \in Bytes
      BY <1>1, <1>2, <1>8 DEF ReadByte
    <2>2. out' \in [Bytes -> Nat]
      BY <1>8 DEF ReadByte
    <2> QED
      BY <2>1, <2>2, <1>8 DEF ReadByte
  <1> QED
    BY <1>3, <1>4, <1>5, <1>6, <1>7, <1>8 DEF Next, Writes, Reads

\* A signal whose every byte is that of the k-th value is the k-th value.
LEMMA AllSame == ASSUME NEW f \in [Bytes -> Nat], NEW k, \A i \in Bytes : f[i] = k
                 PROVE  f = Filled(k)
  BY DEF Filled

\* What ioc_write_bytes does to the invariant, byte by byte and at the exchange.
LEMMA WritesKeep == ASSUME IocInv, Writes PROVE IocInv'
  <1> USE IocAssumption DEF IocAssumption, Slot, Bytes, ReaderIdle, IocInv, TypeOK
  <1>1. Flags'
    <2>1. fresh' = fresh \/ fresh' = TRUE
      BY DEF Writes, WriteBegin, WriteByte, WriteSwap
    <2>2. seen' = seen
      BY DEF Writes, WriteBegin, WriteByte, WriteSwap
    <2> QED
      BY <2>1, <2>2 DEF Flags
  <1>2. Ranges'
    BY RangesKept DEF Next
  <1>3. ThreeSlots'
    BY DEF Writes, WriteBegin, WriteByte, WriteSwap, ThreeSlots
  <1>4. CASE WriteBegin
    <2> USE <1>4 DEF WriteBegin
    <2>1. NewestHeld' /\ FreshWhenWritten' /\ FlagStays' /\ CopyGrows' /\ SeenLags'
          /\ ReadsLatest' /\ EverHonest'
      BY DEF NewestHeld, FreshWhenWritten, FlagStays, CopyGrows, SeenLags, ReadsLatest,
         EverHonest
    <2>2. FillGrows'
      BY DEF FillGrows
    <2> QED
      BY <1>1, <1>2, <1>3, <2>1, <2>2
  <1>5. CASE WriteByte
    <2> USE <1>5 DEF WriteByte
    <2>1. arena'[rd] = arena[rd] /\ arena'[middle] = arena[middle]
      BY DEF Ranges, ThreeSlots
    <2>2. FreshWhenWritten' /\ FlagStays' /\ SeenLags' /\ EverHonest' /\ ReadsLatest'
      BY DEF FreshWhenWritten, FlagStays, SeenLags, EverHonest, ReadsLatest
    <2>3. NewestHeld'
      BY <2>1 DEF NewestHeld
    <2>4. CopyGrows'
      BY <2>1 DEF CopyGrows
    <2>5. wr \in 0 .. 2 /\ wat \in 1 .. Size /\ arena \in [0 .. 2 -> [1 .. Size -> Nat]]
          /\ written \in Nat
      BY DEF Ranges
    <2>6. arena'[wr] = [arena[wr] EXCEPT ![wat] = written + 1]
      BY <2>5
    <2>7. \A i \in 1 .. Size : i <= wat => arena'[wr][i] = written + 1
      <3> SUFFICES ASSUME NEW i \in 1 .. Size, i <= wat PROVE arena'[wr][i] = written + 1
        OBVIOUS
      <3>1. i < wat => arena[wr][i] = written + 1
        BY DEF FillGrows
      <3>2. i = wat \/ i < wat
        BY <2>5
      <3> QED
        BY <2>5, <2>6, <3>1, <3>2
    <2>8. FillGrows'
      <3>1. wr' = wr /\ written' = written
        OBVIOUS
      <3>2. CASE wat = Size
        <4>1. arena'[wr] \in [Bytes -> Nat]
          BY <2>5, <1>2 DEF Ranges
        <4>2. arena'[wr] = Filled(written + 1)
          <5>1. \A i \in Bytes : arena'[wr][i] = written + 1
            BY <2>5, <2>7, <3>2
          <5> QED
            BY <4>1, <5>1, AllSame
        <4>3. wpc' = "swap"
          BY <3>2
        <4> QED
          BY <3>1, <4>2, <4>3 DEF FillGrows
      <3>3. CASE wat # Size
        <4>1. wpc' = "copy" /\ wat' = wat + 1
          BY <3>3
        <4>2. \A i \in 1 .. Size : i < wat + 1 => i <= wat
          BY <2>5
        <4> QED
          BY <2>7, <3>1, <4>1, <4>2 DEF FillGrows
      <3> QED
        BY <3>2, <3>3
    <2> QED
      BY <1>1, <1>2, <1>3, <2>2, <2>3, <2>4, <2>8
  <1>6. CASE WriteSwap
    <2> USE <1>6 DEF WriteSwap
    <2>1. NewestHeld'
      BY DEF NewestHeld, FillGrows
    <2>2. FreshWhenWritten' /\ FlagStays' /\ SeenLags'
      BY DEF Ranges, FreshWhenWritten, FlagStays, SeenLags
    <2>3. FillGrows' /\ CopyGrows' /\ ReadsLatest' /\ EverHonest'
      BY DEF FillGrows, CopyGrows, ReadsLatest, EverHonest
    <2> QED
      BY <1>1, <1>2, <1>3, <2>1, <2>2, <2>3
  <1> QED
    BY <1>4, <1>5, <1>6 DEF Writes

\* What ioc_read_bytes_ever does to it: the look, the exchange, byte by byte.
LEMMA ReadsKeep == ASSUME IocInv, Reads PROVE IocInv'
  <1> USE IocAssumption DEF IocAssumption, Slot, Bytes, WriterIdle, StartCopy, IocInv, TypeOK
  <1>1. Flags'
    <2>1. fresh' = fresh \/ fresh' = FALSE
      BY DEF Reads, ReadBegin, LookFresh, LookStale, ReadSwap, ReadByte, ReadEnd
    <2>2. seen' = seen \/ seen' = (seen \/ fresh)
      BY DEF Reads, ReadBegin, LookFresh, LookStale, ReadSwap, ReadByte, ReadEnd
    <2> QED
      BY <2>1, <2>2 DEF Flags
  <1>2. Ranges'
    BY RangesKept DEF Next
  <1>3. ThreeSlots'
    BY DEF Reads, ReadBegin, LookFresh, LookStale, ReadSwap, ReadByte, ReadEnd, ThreeSlots
  <1>4. FillGrows'
    BY DEF Reads, ReadBegin, LookFresh, LookStale, ReadSwap, ReadByte, ReadEnd,
       ThreeSlots, FillGrows
  <1>5. CASE ReadBegin \/ LookFresh \/ ReadEnd
    <2>1. rpc' \in {"look", "swap", "idle"} /\ (rpc' = "swap" => fresh)
      BY <1>5 DEF ReadBegin, LookFresh, ReadEnd
    <2>2. UNCHANGED <<arena, middle, fresh, rd, seen, written>>
      BY <1>5 DEF ReadBegin, LookFresh, ReadEnd
    <2>3. NewestHeld' /\ FreshWhenWritten' /\ FlagStays' /\ SeenLags'
      BY <2>1, <2>2 DEF NewestHeld, FreshWhenWritten, FlagStays, SeenLags
    <2>4. CopyGrows' /\ ReadsLatest' /\ EverHonest'
      BY <2>1 DEF CopyGrows, ReadsLatest, EverHonest
    <2> QED
      BY <1>1, <1>2, <1>3, <1>4, <2>3, <2>4
  <1>6. CASE LookStale
    <2> USE <1>6 DEF LookStale
    <2>1. NewestHeld' /\ FreshWhenWritten' /\ FlagStays' /\ SeenLags'
      BY DEF NewestHeld, FreshWhenWritten, FlagStays, SeenLags
    <2>2. CopyGrows'
      BY DEF NewestHeld, CopyGrows, Ranges
    <2>3. ReadsLatest' /\ EverHonest'
      BY DEF ReadsLatest, EverHonest, SeenLags
    <2> QED
      BY <1>1, <1>2, <1>3, <1>4, <2>1, <2>2, <2>3
  <1>7. CASE ReadSwap
    <2> USE <1>7 DEF ReadSwap
    <2>1. fresh /\ written > 0
      BY DEF FlagStays, FreshWhenWritten
    <2>2. NewestHeld' /\ CopyGrows'
      BY <2>1 DEF NewestHeld, CopyGrows, Ranges
    <2>3. FreshWhenWritten' /\ FlagStays' /\ ReadsLatest'
      BY DEF FreshWhenWritten, FlagStays, ReadsLatest
    <2>4. SeenLags' /\ EverHonest'
      BY <2>1 DEF SeenLags, EverHonest
    <2> QED
      BY <1>1, <1>2, <1>3, <1>4, <2>2, <2>3, <2>4
  <1>8. CASE ReadByte
    <2> USE <1>8 DEF ReadByte
    <2>1. NewestHeld' /\ FreshWhenWritten' /\ FlagStays' /\ SeenLags' /\ EverHonest'
      BY DEF NewestHeld, FreshWhenWritten, FlagStays, SeenLags, EverHonest
    <2>2. arena[rd] = [i \in 1 .. Size |-> taken]
      BY DEF CopyGrows, Filled
    <2>3. rat \in 1 .. Size /\ out \in [1 .. Size -> Nat] /\ out' \in [1 .. Size -> Nat]
      BY <1>2 DEF Ranges
    <2>4. \A i \in 1 .. Size : i <= rat => out'[i] = taken
      <3> SUFFICES ASSUME NEW i \in 1 .. Size, i <= rat PROVE out'[i] = taken
        OBVIOUS
      <3>1. i < rat => out[i] = taken
        BY DEF CopyGrows
      <3>2. i = rat \/ i < rat
        BY <2>3
      <3>3. out' = [out EXCEPT ![rat] = taken]
        BY <2>2, <2>3
      <3> QED
        BY <2>3, <3>1, <3>2, <3>3
    <2>5. CopyGrows'
      <3>1. arena'[rd'] = Filled(taken') /\ taken' = taken
        BY <2>2 DEF Filled
      <3>2. rpc' = "copy" => rat' = rat + 1
        OBVIOUS
      <3>3. \A i \in 1 .. Size : i < rat + 1 => i <= rat
        BY <2>3
      <3> QED
        BY <2>4, <3>1, <3>2, <3>3 DEF CopyGrows
    <2>6. ReadsLatest'
      <3>1. rpc' = "done" => rat = Size
        OBVIOUS
      <3>2. ASSUME rat = Size PROVE out' = Filled(taken)
        <4>1. \A i \in Bytes : out'[i] = taken
          BY <2>3, <2>4, <3>2
        <4>2. out' \in [Bytes -> Nat]
          BY <2>3
        <4> QED
          BY <4>1, <4>2, AllSame
      <3>3. taken' = taken
        OBVIOUS
      <3> QED
        BY <3>1, <3>2, <3>3 DEF ReadsLatest, Filled
    <2> QED
      BY <1>1, <1>2, <1>3, <1>4, <2>1, <2>5, <2>6
  <1> QED
    BY <1>5, <1>6, <1>7, <1>8 DEF Reads

LEMMA IocStutters == IocInv /\ UNCHANGED vars => IocInv'
  BY DEF vars, IocInv, TypeOK, Flags, Ranges, ThreeSlots, NewestHeld, FreshWhenWritten,
         FillGrows, FlagStays, CopyGrows, SeenLags, ReadsLatest, EverHonest

LEMMA IocSteps == IocInv /\ [Next]_vars => IocInv'
  BY IocStutters, WritesKeep, ReadsKeep DEF Next

\* The invariant holds in every state of the triple buffer.
THEOREM IocInvariance == Spec => []IocInv
  BY InitInv, IocSteps, PTL DEF Spec

\* A read never returns a torn or an old value (ioc_read_bytes).
THEOREM NeverTorn == Spec => []ReadsLatest
  <1>1. IocInv => ReadsLatest
    BY DEF IocInv
  <1> QED
    BY <1>1, IocInvariance, PTL

\* The ever-published flag is never wrong at the end of a read (ioc_get_ever).
THEOREM EverIsHonest == Spec => []EverHonest
  <1>1. IocInv => EverHonest
    BY DEF IocInv
  <1> QED
    BY <1>1, IocInvariance, PTL

-------------------------------------------------------------------------------
(***************************************************************************)
(* The back ends (Can).                                                    *)
(***************************************************************************)
CanFrame == [told : Int, drops : Nat, remote : BOOLEAN]
CanTypes ==
    /\ cback \in {"fdcan", "sthal", "socket"}
    /\ fifo \in Seq(CanFrame)
    /\ lost \in Nat /\ tally \in Nat /\ dropped \in Nat /\ toldAt \in Int
    /\ opens \in Nat /\ recovered \in Nat /\ backs \in Nat /\ offs \in Nat /\ sem \in Nat

\* Which steps a back end has.
CanPlaces ==
    /\ cpc \in {"shut", "clear", "leave", "arm", "ie", "wait", "poll", "flag", "ack", "look",
                "take", "drained", "closing"}
    /\ cpc \in {"clear", "flag", "ack", "look"} => ~Socket
    /\ cpc = "leave" => cback = "fdcan"
    /\ ~Socket => lost \in {0, 1}
    /\ cpc = "ack" => lost = 1 /\ tally >= 1
    /\ cpc = "take" /\ ~Socket => Len(fifo) > 0

\* When the controller is off the bus.
CanStopped ==
    /\ cpc = "shut" => inInit
    /\ cpc \in {"clear", "leave"} /\ cback = "fdcan" => inInit
    /\ cpc = "shut" /\ opens > 0 /\ ~Socket => closed
    /\ cpc = "closing" /\ ~Socket => closed

\* The FIFO of a bus that opens has nothing of before.
CanFresh ==
    /\ cpc = "shut" /\ cback = "sthal" => fifo = <<>>
    /\ cpc \in {"clear", "leave"} =>
        /\ cback = "fdcan" => fifo = <<>>
        /\ toldAt = NoneLost /\ ~silent
        /\ \A i \in 1 .. Len(fifo) : fifo[i].told = NoneLost

\* A loss is in the count, or the flag is set that will put it there before the frame
\* behind it is given.
Shown(told) == told < tally
Noted(told) == lost = 1 /\ told <= tally
LossFlagged ==
    ~Socket /\ cpc \notin {"shut", "clear"} =>
        /\ ~silent
        /\ tally + (IF lost = 0 \/ cpc = "ack" THEN 0 ELSE 1) <= dropped
        /\ \A i \in 1 .. Len(fifo) :
              \/ Shown(fifo[i].told)
              \/ Noted(fifo[i].told) /\ cpc \notin {"ack", "look", "take"}
        /\ \/ Shown(toldAt)
           \/ /\ Noted(toldAt) /\ cpc # "ack"
              /\ cpc \in {"look", "take"} => Len(fifo) >= FifoDepth

\* The kernel tells its count with the frame behind the loss.
LossRides ==
    Socket /\ cpc # "shut" =>
        /\ ~silent /\ tally <= lost /\ lost = dropped
        /\ \A i \in 1 .. Len(fifo) :
              /\ fifo[i].told = NoneLost \/ (0 <= fifo[i].told /\ fifo[i].told < fifo[i].drops)
              /\ fifo[i].drops <= lost
        /\ toldAt = NoneLost \/ (0 <= toldAt /\ toldAt < lost)

\* A recovery begun and not counted is one that is still to come back or has.
RecoveryKept ==
    /\ Socket => ~busOff /\ ~recovering /\ recovered = 0 /\ backs = 0
    /\ cpc # "clear" =>
        /\ RecoveriesHonest
        /\ recovering /\ ~busOff => recovered < backs
    /\ cpc = "clear" => backs <= 1 /\ (backs = 1 => carried)
    /\ cpc \in {"clear", "leave"} /\ cback = "fdcan" => backs = 0 /\ (busOff => carried)
    /\ busOff /\ ~inInit /\ (cpc = "clear" \/ ~recovering) => carried /\ backs = 0

\* A frame in the FIFO of a thread that does not look at it has set the flag, or its
\* interrupt has put the semaphore.
WakeKept ==
    ~Socket =>
        /\ fifo # <<>> /\ cpc \in {"clear", "leave", "arm", "ie", "wait", "drained"} =>
               news \/ sem > 0
        /\ cpc \notin {"shut", "clear", "leave", "arm", "ie"} => ie

CanInv ==
    /\ CanTypes /\ CanPlaces /\ CanStopped /\ CanFresh
    /\ LossFlagged /\ LossRides /\ RecoveryKept /\ WakeKept

LEMMA Appended ==
  ASSUME NEW S, NEW s \in Seq(S), NEW e \in S
  PROVE  /\ Append(s, e) \in Seq(S) /\ Len(Append(s, e)) = Len(s) + 1
         /\ \A i \in 1 .. Len(s) : Append(s, e)[i] = s[i]
         /\ Append(s, e)[Len(s) + 1] = e
         /\ \A i \in 1 .. Len(Append(s, e)) : i = Len(s) + 1 \/ i \in 1 .. Len(s)
  OBVIOUS

LEMMA Tailed ==
  ASSUME NEW S, NEW s \in Seq(S), s # <<>>
  PROVE  /\ Head(s) = s[1] /\ 1 \in 1 .. Len(s) /\ Head(s) \in S
         /\ Tail(s) \in Seq(S) /\ Len(Tail(s)) = Len(s) - 1
         /\ \A i \in 1 .. Len(Tail(s)) : i + 1 \in 1 .. Len(s) /\ Tail(s)[i] = s[i + 1]
  OBVIOUS

LEMMA FrameTypes ==
  ASSUME CanTypes, NEW i \in 1 .. Len(fifo)
  PROVE  fifo[i].told \in Int /\ fifo[i].drops \in Nat
  <1>1. fifo[i] \in CanFrame
    BY DEF CanTypes
  <1> QED BY <1>1 DEF CanFrame

LEMMA CanStarts == CanInit => CanInv
  BY CanAssumption DEF CanInit, CanInv, CanTypes, CanPlaces, CanStopped, CanFresh, LossFlagged,
     LossRides, RecoveryKept, WakeKept, RecoveriesHonest, Socket, NoneLost, Shown, Noted,
     CanAssumption

LEMMA ArrivesKeeps ==
  ASSUME CanInv, NEW remote \in BOOLEAN, Arrives(remote) PROVE CanInv'
  <1> DEFINE f == [told |-> toldAt, drops |-> lost, remote |-> remote]
  <1>0. f \in CanFrame /\ f.told = toldAt /\ f.drops = lost /\ fifo \in Seq(CanFrame)
    BY DEF CanInv, CanTypes, CanFrame
  <1>a. Len(fifo) < FifoDepth =>
            /\ fifo' = Append(fifo, f) /\ news' = ~Socket /\ toldAt' = NoneLost /\ lost' = lost
            /\ dropped' = dropped
    BY DEF Arrives
  <1>b. ~(Len(fifo) < FifoDepth) =>
            /\ fifo' = fifo /\ lost' = (IF Socket THEN lost + 1 ELSE 1) /\ dropped' = dropped + 1
            /\ toldAt' = CountAtLoss /\ news' = news
    BY DEF Arrives
  <1> HIDE DEF f
  <1>c. /\ Append(fifo, f) \in Seq(CanFrame) /\ Len(Append(fifo, f)) = Len(fifo) + 1
        /\ \A i \in 1 .. Len(fifo) : Append(fifo, f)[i] = fifo[i]
        /\ Append(fifo, f)[Len(fifo) + 1] = f
        /\ \A i \in 1 .. Len(Append(fifo, f)) : i = Len(fifo) + 1 \/ i \in 1 .. Len(fifo)
    BY <1>0, Appended
  <1>d. /\ UNCHANGED <<cback, tally, cpc, silent, opens, sem, ie, inInit, busOff, closed,
                       recovering, recovered, carried, offs, backs>>
        /\ OnBus
    BY DEF Arrives, OnlyHw, drvVars, threadVars
  <1>e. /\ CountAtLoss \in Int /\ (cpc = "ack" => CountAtLoss = tally - 1)
        /\ (cpc = "clear" => CountAtLoss = NoneLost)
        /\ (cpc \notin {"ack", "clear"} => CountAtLoss = tally)
    BY DEF CanInv, CanTypes, CountAtLoss, NoneLost
  <1>g. Len(fifo) \in Nat
    BY <1>0
  <1>h. \A i \in 1 .. Len(fifo) : fifo[i].told \in Int /\ fifo[i].drops \in Nat
    BY FrameTypes DEF CanInv
  <1>1. CanTypes'
    <2>1. CASE Len(fifo) < FifoDepth
      <3>1. fifo' \in Seq(CanFrame)
        BY <1>a, <1>c, <2>1
      <3>2. lost' \in Nat /\ tally' \in Nat /\ dropped' \in Nat
        BY <1>a, <1>d, <2>1 DEF CanInv, CanTypes
      <3>4. toldAt' \in Int
        BY <1>a, <2>1 DEF NoneLost
      <3>3. cback' \in {"fdcan", "sthal", "socket"}
        BY <1>d DEF CanInv, CanTypes
      <3>5. opens' \in Nat /\ recovered' \in Nat /\ backs' \in Nat /\ offs' \in Nat /\ sem' \in Nat
        BY <1>d DEF CanInv, CanTypes
      <3> QED BY <3>1, <3>2, <3>3, <3>4, <3>5 DEF CanTypes
    <2>2. CASE ~(Len(fifo) < FifoDepth)
      BY <1>b, <1>d, <1>e, <1>g, <1>h, <2>2, CanAssumption DEF CanAssumption, CanInv, CanTypes,
         OnBus, NoneLost
    <2> QED BY <2>1, <2>2
  <1>2. CanPlaces'
    <2>1. CASE Len(fifo) < FifoDepth
      BY <1>0, <1>a, <1>c, <1>d, <1>g, <1>h, <2>1, CanAssumption DEF CanAssumption, CanInv,
         CanPlaces, OnBus, CanTypes, Socket
    <2>2. CASE ~(Len(fifo) < FifoDepth)
      BY <1>b, <1>d, <1>e, <1>g, <1>h, <2>2, CanAssumption DEF CanAssumption, CanInv, CanPlaces,
         OnBus, CanTypes, Socket
    <2> QED BY <2>1, <2>2
  <1>3. CanStopped'
    <2>1. CASE Len(fifo) < FifoDepth
      BY <1>0, <1>a, <1>c, <1>d, <1>g, <1>h, <2>1, CanAssumption DEF CanAssumption, CanInv,
         CanStopped, OnBus, CanTypes, CanPlaces, Socket
    <2>2. CASE ~(Len(fifo) < FifoDepth)
      BY <1>b, <1>d, <1>e, <1>g, <1>h, <2>2, CanAssumption DEF CanAssumption, CanInv, CanStopped,
         OnBus, CanTypes, CanPlaces, Socket
    <2> QED BY <2>1, <2>2
  <1>4. CanFresh'
    <2>1. CASE Len(fifo) < FifoDepth
      BY <1>0, <1>a, <1>c, <1>d, <1>g, <1>h, <2>1, CanAssumption DEF CanAssumption, CanInv,
         CanFresh, OnBus, CanTypes, CanPlaces, CanStopped, Socket, NoneLost
    <2>2. CASE ~(Len(fifo) < FifoDepth)
      BY <1>b, <1>d, <1>e, <1>g, <1>h, <2>2, CanAssumption DEF CanAssumption, CanInv, CanFresh,
         OnBus, CanTypes, CanPlaces, CanStopped, Socket, NoneLost
    <2> QED BY <2>1, <2>2
  <1>5. LossFlagged'
    <2>1. CASE Len(fifo) < FifoDepth
      <3> SUFFICES ASSUME ~Socket', cpc' \notin {"shut", "clear"}
                   PROVE  /\ ~silent'
                          /\ tally' + (IF lost' = 0 \/ cpc' = "ack" THEN 0 ELSE 1) <= dropped'
                          /\ \A i \in 1 .. Len(fifo') :
                                 fifo'[i].told < tally'
                                 \/ (lost' = 1 /\ fifo'[i].told <= tally' /\ cpc' \notin {"ack",
                                 "look", "take"})
                          /\ toldAt' < tally'
        BY DEF LossFlagged, Shown, Noted
      <3>1. ~Socket /\ cpc \notin {"shut", "clear"}
        BY <1>d DEF Socket
      <3>2. ~silent'
        BY <1>d, <3>1 DEF CanInv, LossFlagged
      <3>3. tally' + (IF lost' = 0 \/ cpc' = "ack" THEN 0 ELSE 1) <= dropped'
        BY <1>a, <1>d, <2>1, <3>1 DEF CanInv, LossFlagged
      <3>5. toldAt' < tally'
        BY <1>a, <1>d, <2>1 DEF Shown, NoneLost, CanInv, CanTypes
      <3>4. ASSUME NEW i \in 1 .. Len(fifo')
            PROVE  fifo'[i].told < tally'
                   \/ (lost' = 1 /\ fifo'[i].told <= tally' /\ cpc' \notin {"ack", "look", "take"})
        <4>1. CASE i = Len(fifo) + 1
          <5>1. fifo'[i].told = toldAt
            BY <1>0, <1>a, <1>c, <2>1, <4>1
          <5>2. ~(Len(fifo) >= FifoDepth)
            BY <1>g, <2>1, CanAssumption DEF CanAssumption
          <5>3. Shown(toldAt) \/ (Noted(toldAt) /\ cpc \notin {"ack", "look", "take"})
            BY <3>1, <5>2 DEF CanInv, LossFlagged
          <5>4. lost' = lost /\ tally' = tally /\ cpc' = cpc
            BY <1>a, <1>d, <2>1
          <5> QED BY <5>1, <5>3, <5>4 DEF Shown, Noted
        <4>2. CASE i \in 1 .. Len(fifo)
          <5>1. fifo'[i].told = fifo[i].told
            BY <1>a, <1>c, <2>1, <4>2
          <5> QED BY <1>a, <1>d, <2>1, <3>1, <4>2, <5>1 DEF CanInv, LossFlagged, Shown, Noted
        <4> QED BY <1>a, <1>c, <2>1, <4>1, <4>2
      <3> QED BY <3>2, <3>3, <3>4, <3>5
    <2>2. CASE ~(Len(fifo) < FifoDepth)
      BY <1>b, <1>d, <1>e, <1>g, <1>h, <2>2, CanAssumption DEF CanAssumption, CanInv, LossFlagged,
         OnBus, CanTypes, CanPlaces, CanStopped, CanFresh, Shown, Noted, Socket, NoneLost
    <2> QED BY <2>1, <2>2
  <1>6. LossRides'
    <2>1. CASE Len(fifo) < FifoDepth
      BY SMTT(30), <1>0, <1>a, <1>c, <1>d, <1>g, <1>h, <2>1, CanAssumption DEF CanAssumption,
        CanInv, LossRides, OnBus, CanTypes, CanPlaces, CanStopped, Socket, NoneLost
    <2>2. CASE ~(Len(fifo) < FifoDepth)
      BY <1>b, <1>d, <1>e, <1>g, <1>h, <2>2, CanAssumption DEF CanAssumption, CanInv, LossRides,
         OnBus, CanTypes, CanPlaces, CanStopped, Socket, NoneLost
    <2> QED BY <2>1, <2>2
  <1>7. RecoveryKept'
    <2>1. CASE Len(fifo) < FifoDepth
      BY <1>0, <1>a, <1>c, <1>d, <1>g, <1>h, <2>1, CanAssumption DEF CanAssumption, CanInv,
         RecoveryKept, OnBus, CanTypes, CanPlaces, CanStopped, RecoveriesHonest, Socket
    <2>2. CASE ~(Len(fifo) < FifoDepth)
      BY <1>b, <1>d, <1>e, <1>g, <1>h, <2>2, CanAssumption DEF CanAssumption, CanInv,
         RecoveryKept, OnBus, CanTypes, CanPlaces, CanStopped, RecoveriesHonest, Socket
    <2> QED BY <2>1, <2>2
  <1>8. WakeKept'
    <2>1. CASE Len(fifo) < FifoDepth
      BY <1>0, <1>a, <1>c, <1>d, <1>g, <1>h, <2>1, CanAssumption DEF CanAssumption, CanInv,
         WakeKept, OnBus, CanTypes, CanPlaces, CanStopped, CanFresh, Socket
    <2>2. CASE ~(Len(fifo) < FifoDepth)
      BY <1>b, <1>d, <1>e, <1>g, <1>h, <2>2, CanAssumption DEF CanAssumption, CanInv, WakeKept,
         OnBus, CanTypes, CanPlaces, CanStopped, CanFresh, Socket
    <2> QED BY <2>1, <2>2
  <1> QED BY <1>1, <1>2, <1>3, <1>4, <1>5, <1>6, <1>7, <1>8 DEF CanInv

LEMMA GoesOffKeeps ==
  ASSUME CanInv, GoesOff PROVE CanInv'
  <1>1. CanTypes'
    BY CanAssumption DEF CanInv, CanTypes, NoneLost, GoesOff, OnlyHw, drvVars, threadVars,
       CanAssumption
  <1>2. CanPlaces'
    BY CanAssumption DEF CanInv, CanPlaces, CanTypes, Socket, GoesOff, OnlyHw, drvVars,
       threadVars, CanAssumption
  <1>3. CanStopped'
    BY CanAssumption DEF CanInv, CanStopped, CanTypes, CanPlaces, Socket, GoesOff, OnlyHw,
       drvVars, threadVars, CanAssumption
  <1>4. CanFresh'
    BY CanAssumption DEF CanInv, CanFresh, CanTypes, CanPlaces, CanStopped, Socket, NoneLost,
       GoesOff, OnlyHw, drvVars, threadVars, CanAssumption
  <1>5. LossFlagged'
    BY CanAssumption DEF CanInv, LossFlagged, CanTypes, CanPlaces, CanStopped, CanFresh, Shown,
       Noted, Socket, NoneLost, GoesOff, OnlyHw, drvVars, threadVars, CanAssumption
  <1>6. LossRides'
    BY CanAssumption DEF CanInv, LossRides, CanTypes, CanPlaces, CanStopped, Socket, NoneLost,
       GoesOff, OnlyHw, drvVars, threadVars, CanAssumption
  <1>7. RecoveryKept'
    BY CanAssumption DEF CanInv, RecoveryKept, CanTypes, CanPlaces, CanStopped, RecoveriesHonest,
       Socket, GoesOff, OnlyHw, drvVars, threadVars, CanAssumption
  <1>8. WakeKept'
    BY CanAssumption DEF CanInv, WakeKept, CanTypes, CanPlaces, CanStopped, CanFresh, Socket,
       GoesOff, OnlyHw, drvVars, threadVars, CanAssumption
  <1> QED BY <1>1, <1>2, <1>3, <1>4, <1>5, <1>6, <1>7, <1>8 DEF CanInv

LEMMA ComesBackKeeps ==
  ASSUME CanInv, ComesBack PROVE CanInv'
  <1>1. CanTypes'
    <2>1. cback' \in {"fdcan", "sthal", "socket"} /\ fifo' \in Seq(CanFrame)
      BY DEF CanInv, CanTypes, ComesBack, OnlyHw, drvVars, threadVars, NoneLost
    <2>2. lost' \in Nat /\ tally' \in Nat /\ dropped' \in Nat /\ toldAt' \in Int
      BY DEF CanInv, CanTypes, ComesBack, OnlyHw, drvVars, threadVars, NoneLost
    <2>3. opens' \in Nat /\ recovered' \in Nat /\ backs' \in Nat /\ offs' \in Nat /\ sem' \in Nat
      BY DEF CanInv, CanTypes, ComesBack, OnlyHw, drvVars, threadVars, NoneLost
    <2> QED BY <2>1, <2>2, <2>3 DEF CanTypes
  <1>2. CanPlaces'
    BY CanAssumption DEF CanInv, CanPlaces, CanTypes, Socket, ComesBack, OnlyHw, drvVars,
       threadVars, CanAssumption
  <1>3. CanStopped'
    BY CanAssumption DEF CanInv, CanStopped, CanTypes, CanPlaces, Socket, ComesBack, OnlyHw,
       drvVars, threadVars, CanAssumption
  <1>4. CanFresh'
    BY CanAssumption DEF CanInv, CanFresh, CanTypes, CanPlaces, CanStopped, Socket, NoneLost,
       ComesBack, OnlyHw, drvVars, threadVars, CanAssumption
  <1>5. LossFlagged'
    BY CanAssumption DEF CanInv, LossFlagged, CanTypes, CanPlaces, CanStopped, CanFresh, Shown,
       Noted, Socket, NoneLost, ComesBack, OnlyHw, drvVars, threadVars, CanAssumption
  <1>6. LossRides'
    BY CanAssumption DEF CanInv, LossRides, CanTypes, CanPlaces, CanStopped, Socket, NoneLost,
       ComesBack, OnlyHw, drvVars, threadVars, CanAssumption
  <1>7. RecoveryKept'
    BY CanAssumption DEF CanInv, RecoveryKept, CanTypes, CanPlaces, CanStopped, RecoveriesHonest,
       Socket, ComesBack, OnlyHw, drvVars, threadVars, CanAssumption
  <1>8. WakeKept'
    BY CanAssumption DEF CanInv, WakeKept, CanTypes, CanPlaces, CanStopped, CanFresh, Socket,
       ComesBack, OnlyHw, drvVars, threadVars, CanAssumption
  <1> QED BY <1>1, <1>2, <1>3, <1>4, <1>5, <1>6, <1>7, <1>8 DEF CanInv

LEMMA GoesOutKeeps ==
  ASSUME CanInv, GoesOut PROVE CanInv'
  <1>1. CanTypes'
    BY CanAssumption DEF CanInv, CanTypes, NoneLost, GoesOut, OnlyHw, drvVars, threadVars,
       CanAssumption
  <1>2. CanPlaces'
    BY CanAssumption DEF CanInv, CanPlaces, CanTypes, Socket, GoesOut, OnlyHw, drvVars,
       threadVars, CanAssumption
  <1>3. CanStopped'
    BY CanAssumption DEF CanInv, CanStopped, CanTypes, CanPlaces, Socket, GoesOut, OnlyHw,
       drvVars, threadVars, CanAssumption
  <1>4. CanFresh'
    BY CanAssumption DEF CanInv, CanFresh, CanTypes, CanPlaces, CanStopped, Socket, NoneLost,
       GoesOut, OnlyHw, drvVars, threadVars, CanAssumption
  <1>5. LossFlagged'
    BY CanAssumption DEF CanInv, LossFlagged, CanTypes, CanPlaces, CanStopped, CanFresh, Shown,
       Noted, Socket, NoneLost, GoesOut, OnlyHw, drvVars, threadVars, CanAssumption
  <1>6. LossRides'
    BY CanAssumption DEF CanInv, LossRides, CanTypes, CanPlaces, CanStopped, Socket, NoneLost,
       GoesOut, OnlyHw, drvVars, threadVars, CanAssumption
  <1>7. RecoveryKept'
    BY CanAssumption DEF CanInv, RecoveryKept, CanTypes, CanPlaces, CanStopped, RecoveriesHonest,
       Socket, GoesOut, OnlyHw, drvVars, threadVars, CanAssumption
  <1>8. WakeKept'
    BY CanAssumption DEF CanInv, WakeKept, CanTypes, CanPlaces, CanStopped, CanFresh, Socket,
       GoesOut, OnlyHw, drvVars, threadVars, CanAssumption
  <1> QED BY <1>1, <1>2, <1>3, <1>4, <1>5, <1>6, <1>7, <1>8 DEF CanInv

LEMMA IsrKeeps ==
  ASSUME CanInv, Isr PROVE CanInv'
  <1>1. CanTypes'
    <2>1. cback' \in {"fdcan", "sthal", "socket"} /\ fifo' \in Seq(CanFrame)
      BY DEF CanInv, CanTypes, Isr, drvVars, histVars, NoneLost
    <2>2. lost' \in Nat /\ tally' \in Nat /\ dropped' \in Nat /\ toldAt' \in Int
      BY DEF CanInv, CanTypes, Isr, drvVars, histVars, NoneLost
    <2>3. opens' \in Nat /\ recovered' \in Nat /\ backs' \in Nat /\ offs' \in Nat /\ sem' \in Nat
      BY DEF CanInv, CanTypes, Isr, drvVars, histVars, NoneLost
    <2> QED BY <2>1, <2>2, <2>3 DEF CanTypes
  <1>2. CanPlaces'
    BY CanAssumption DEF CanInv, CanPlaces, CanTypes, Socket, Isr, drvVars, histVars, CanAssumption
  <1>3. CanStopped'
    BY CanAssumption DEF CanInv, CanStopped, CanTypes, CanPlaces, Socket, Isr, drvVars, histVars,
       CanAssumption
  <1>4. CanFresh'
    BY CanAssumption DEF CanInv, CanFresh, CanTypes, CanPlaces, CanStopped, Socket, NoneLost, Isr,
       drvVars, histVars, CanAssumption
  <1>5. LossFlagged'
    BY CanAssumption DEF CanInv, LossFlagged, CanTypes, CanPlaces, CanStopped, CanFresh, Shown,
       Noted, Socket, NoneLost, Isr, drvVars, histVars, CanAssumption
  <1>6. LossRides'
    BY CanAssumption DEF CanInv, LossRides, CanTypes, CanPlaces, CanStopped, Socket, NoneLost,
       Isr, drvVars, histVars, CanAssumption
  <1>7. RecoveryKept'
    BY CanAssumption DEF CanInv, RecoveryKept, CanTypes, CanPlaces, CanStopped, RecoveriesHonest,
       Socket, Isr, drvVars, histVars, CanAssumption
  <1>8. WakeKept'
    BY CanAssumption DEF CanInv, WakeKept, CanTypes, CanPlaces, CanStopped, CanFresh, Socket, Isr,
       drvVars, histVars, CanAssumption
  <1> QED BY <1>1, <1>2, <1>3, <1>4, <1>5, <1>6, <1>7, <1>8 DEF CanInv

LEMMA OpenInitKeeps ==
  ASSUME CanInv, OpenInit PROVE CanInv'
  <1>1. CanTypes'
    <2>1. cback' \in {"fdcan", "sthal", "socket"} /\ fifo' \in Seq(CanFrame)
      BY DEF CanInv, CanTypes, OpenInit, NewSession, drvVars, threadVars, NoneLost
    <2>2. lost' \in Nat /\ tally' \in Nat /\ dropped' \in Nat /\ toldAt' \in Int
      BY DEF CanInv, CanTypes, OpenInit, NewSession, drvVars, threadVars, NoneLost
    <2>3. opens' \in Nat /\ recovered' \in Nat /\ backs' \in Nat /\ offs' \in Nat /\ sem' \in Nat
      BY DEF CanInv, CanTypes, OpenInit, NewSession, drvVars, threadVars, NoneLost
    <2> QED BY <2>1, <2>2, <2>3 DEF CanTypes
  <1>2. CanPlaces'
    BY CanAssumption DEF CanInv, CanPlaces, CanTypes, Socket, OpenInit, NewSession, drvVars,
       threadVars, CanAssumption
  <1>3. CanStopped'
    BY CanAssumption DEF CanInv, CanStopped, CanTypes, CanPlaces, Socket, OpenInit, NewSession,
       drvVars, threadVars, CanAssumption
  <1>4. CanFresh'
    BY CanAssumption DEF CanInv, CanFresh, CanTypes, CanPlaces, CanStopped, Socket, NoneLost,
       OpenInit, NewSession, drvVars, threadVars, CanAssumption
  <1>5. LossFlagged'
    BY CanAssumption DEF CanInv, LossFlagged, CanTypes, CanPlaces, CanStopped, CanFresh, Shown,
       Noted, Socket, NoneLost, OpenInit, NewSession, drvVars, threadVars, CanAssumption
  <1>6. LossRides'
    BY CanAssumption DEF CanInv, LossRides, CanTypes, CanPlaces, CanStopped, Socket, NoneLost,
       OpenInit, NewSession, drvVars, threadVars, CanAssumption
  <1>7. RecoveryKept'
    BY CanAssumption DEF CanInv, RecoveryKept, CanTypes, CanPlaces, CanStopped, RecoveriesHonest,
       Socket, OpenInit, NewSession, drvVars, threadVars, CanAssumption
  <1>8. WakeKept'
    BY CanAssumption DEF CanInv, WakeKept, CanTypes, CanPlaces, CanStopped, CanFresh, Socket,
       OpenInit, NewSession, drvVars, threadVars, CanAssumption
  <1> QED BY <1>1, <1>2, <1>3, <1>4, <1>5, <1>6, <1>7, <1>8 DEF CanInv

LEMMA OpenStartKeeps ==
  ASSUME CanInv, OpenStart PROVE CanInv'
  <1>1. CanTypes'
    <2>1. cback' \in {"fdcan", "sthal", "socket"} /\ fifo' \in Seq(CanFrame)
      BY DEF CanInv, CanTypes, OpenStart, NewSession, drvVars, threadVars, NoneLost
    <2>2. lost' \in Nat /\ tally' \in Nat /\ dropped' \in Nat /\ toldAt' \in Int
      BY DEF CanInv, CanTypes, OpenStart, NewSession, drvVars, threadVars, NoneLost
    <2>3. opens' \in Nat /\ recovered' \in Nat /\ backs' \in Nat /\ offs' \in Nat /\ sem' \in Nat
      BY DEF CanInv, CanTypes, OpenStart, NewSession, drvVars, threadVars, NoneLost
    <2> QED BY <2>1, <2>2, <2>3 DEF CanTypes
  <1>2. CanPlaces'
    BY CanAssumption DEF CanInv, CanPlaces, CanTypes, Socket, OpenStart, NewSession, drvVars,
       threadVars, CanAssumption
  <1>3. CanStopped'
    BY CanAssumption DEF CanInv, CanStopped, CanTypes, CanPlaces, Socket, OpenStart, NewSession,
       drvVars, threadVars, CanAssumption
  <1>4. CanFresh'
    BY CanAssumption DEF CanInv, CanFresh, CanTypes, CanPlaces, CanStopped, Socket, NoneLost,
       OpenStart, NewSession, drvVars, threadVars, CanAssumption
  <1>5. LossFlagged'
    BY CanAssumption DEF CanInv, LossFlagged, CanTypes, CanPlaces, CanStopped, CanFresh, Shown,
       Noted, Socket, NoneLost, OpenStart, NewSession, drvVars, threadVars, CanAssumption
  <1>6. LossRides'
    BY CanAssumption DEF CanInv, LossRides, CanTypes, CanPlaces, CanStopped, Socket, NoneLost,
       OpenStart, NewSession, drvVars, threadVars, CanAssumption
  <1>7. RecoveryKept'
    BY CanAssumption DEF CanInv, RecoveryKept, CanTypes, CanPlaces, CanStopped, RecoveriesHonest,
       Socket, OpenStart, NewSession, drvVars, threadVars, CanAssumption
  <1>8. WakeKept'
    BY CanAssumption DEF CanInv, WakeKept, CanTypes, CanPlaces, CanStopped, CanFresh, Socket,
       OpenStart, NewSession, drvVars, threadVars, CanAssumption
  <1> QED BY <1>1, <1>2, <1>3, <1>4, <1>5, <1>6, <1>7, <1>8 DEF CanInv

LEMMA OpenSocketKeeps ==
  ASSUME CanInv, OpenSocket PROVE CanInv'
  <1>1. CanTypes'
    <2>1. cback' \in {"fdcan", "sthal", "socket"} /\ fifo' \in Seq(CanFrame)
      BY DEF CanInv, CanTypes, OpenSocket, NewSession, threadVars, NoneLost
    <2>2. lost' \in Nat /\ tally' \in Nat /\ dropped' \in Nat /\ toldAt' \in Int
      BY DEF CanInv, CanTypes, OpenSocket, NewSession, threadVars, NoneLost
    <2>3. opens' \in Nat /\ recovered' \in Nat /\ backs' \in Nat /\ offs' \in Nat /\ sem' \in Nat
      BY DEF CanInv, CanTypes, OpenSocket, NewSession, threadVars, NoneLost
    <2> QED BY <2>1, <2>2, <2>3 DEF CanTypes
  <1>2. CanPlaces'
    BY CanAssumption DEF CanInv, CanPlaces, CanTypes, Socket, OpenSocket, NewSession, threadVars,
       CanAssumption
  <1>3. CanStopped'
    BY CanAssumption DEF CanInv, CanStopped, CanTypes, CanPlaces, Socket, OpenSocket, NewSession,
       threadVars, CanAssumption
  <1>4. CanFresh'
    BY CanAssumption DEF CanInv, CanFresh, CanTypes, CanPlaces, CanStopped, Socket, NoneLost,
       OpenSocket, NewSession, threadVars, CanAssumption
  <1>5. LossFlagged'
    BY CanAssumption DEF CanInv, LossFlagged, CanTypes, CanPlaces, CanStopped, CanFresh, Shown,
       Noted, Socket, NoneLost, OpenSocket, NewSession, threadVars, CanAssumption
  <1>6. LossRides'
    BY CanAssumption DEF CanInv, LossRides, CanTypes, CanPlaces, CanStopped, Socket, NoneLost,
       OpenSocket, NewSession, threadVars, CanAssumption
  <1>7. RecoveryKept'
    BY CanAssumption DEF CanInv, RecoveryKept, CanTypes, CanPlaces, CanStopped, RecoveriesHonest,
       Socket, OpenSocket, NewSession, threadVars, CanAssumption
  <1>8. WakeKept'
    BY CanAssumption DEF CanInv, WakeKept, CanTypes, CanPlaces, CanStopped, CanFresh, Socket,
       OpenSocket, NewSession, threadVars, CanAssumption
  <1> QED BY <1>1, <1>2, <1>3, <1>4, <1>5, <1>6, <1>7, <1>8 DEF CanInv

LEMMA OpenClearKeeps ==
  ASSUME CanInv, OpenClear PROVE CanInv'
  <1>1. CanTypes'
    BY CanAssumption DEF CanInv, CanTypes, NoneLost, OpenClear, threadVars, histVars, CanAssumption
  <1>2. CanPlaces'
    BY CanAssumption DEF CanInv, CanPlaces, CanTypes, Socket, OpenClear, threadVars, histVars,
       CanAssumption
  <1>3. CanStopped'
    BY CanAssumption DEF CanInv, CanStopped, CanTypes, CanPlaces, Socket, OpenClear, threadVars,
       histVars, CanAssumption
  <1>4. CanFresh'
    BY CanAssumption DEF CanInv, CanFresh, CanTypes, CanPlaces, CanStopped, Socket, NoneLost,
       OpenClear, threadVars, histVars, CanAssumption
  <1>5. LossFlagged'
    BY CanAssumption DEF CanInv, LossFlagged, CanTypes, CanPlaces, CanStopped, CanFresh, Shown,
       Noted, Socket, NoneLost, OpenClear, threadVars, histVars, CanAssumption
  <1>6. LossRides'
    BY CanAssumption DEF CanInv, LossRides, CanTypes, CanPlaces, CanStopped, Socket, NoneLost,
       OpenClear, threadVars, histVars, CanAssumption
  <1>7. RecoveryKept'
    BY CanAssumption DEF CanInv, RecoveryKept, CanTypes, CanPlaces, CanStopped, RecoveriesHonest,
       Socket, OpenClear, threadVars, histVars, CanAssumption
  <1>8. WakeKept'
    BY CanAssumption DEF CanInv, WakeKept, CanTypes, CanPlaces, CanStopped, CanFresh, Socket,
       OpenClear, threadVars, histVars, CanAssumption
  <1> QED BY <1>1, <1>2, <1>3, <1>4, <1>5, <1>6, <1>7, <1>8 DEF CanInv

LEMMA OpenLeaveKeeps ==
  ASSUME CanInv, OpenLeave PROVE CanInv'
  <1>1. CanTypes'
    BY CanAssumption DEF CanInv, CanTypes, NoneLost, OpenLeave, drvVars, threadVars, histVars,
       CanAssumption
  <1>2. CanPlaces'
    BY CanAssumption DEF CanInv, CanPlaces, CanTypes, Socket, OpenLeave, drvVars, threadVars,
       histVars, CanAssumption
  <1>3. CanStopped'
    BY CanAssumption DEF CanInv, CanStopped, CanTypes, CanPlaces, Socket, OpenLeave, drvVars,
       threadVars, histVars, CanAssumption
  <1>4. CanFresh'
    BY CanAssumption DEF CanInv, CanFresh, CanTypes, CanPlaces, CanStopped, Socket, NoneLost,
       OpenLeave, drvVars, threadVars, histVars, CanAssumption
  <1>5. LossFlagged'
    BY CanAssumption DEF CanInv, LossFlagged, CanTypes, CanPlaces, CanStopped, CanFresh, Shown,
       Noted, Socket, NoneLost, OpenLeave, drvVars, threadVars, histVars, CanAssumption
  <1>6. LossRides'
    BY CanAssumption DEF CanInv, LossRides, CanTypes, CanPlaces, CanStopped, Socket, NoneLost,
       OpenLeave, drvVars, threadVars, histVars, CanAssumption
  <1>7. RecoveryKept'
    BY CanAssumption DEF CanInv, RecoveryKept, CanTypes, CanPlaces, CanStopped, RecoveriesHonest,
       Socket, OpenLeave, drvVars, threadVars, histVars, CanAssumption
  <1>8. WakeKept'
    BY CanAssumption DEF CanInv, WakeKept, CanTypes, CanPlaces, CanStopped, CanFresh, Socket,
       OpenLeave, drvVars, threadVars, histVars, CanAssumption
  <1> QED BY <1>1, <1>2, <1>3, <1>4, <1>5, <1>6, <1>7, <1>8 DEF CanInv

LEMMA ArmSemKeeps ==
  ASSUME CanInv, ArmSem PROVE CanInv'
  <1>1. CanTypes'
    BY CanAssumption DEF CanInv, CanTypes, NoneLost, ArmSem, hwVars, drvVars, histVars,
       CanAssumption
  <1>2. CanPlaces'
    BY CanAssumption DEF CanInv, CanPlaces, CanTypes, Socket, ArmSem, hwVars, drvVars, histVars,
       CanAssumption
  <1>3. CanStopped'
    BY CanAssumption DEF CanInv, CanStopped, CanTypes, CanPlaces, Socket, ArmSem, hwVars, drvVars,
       histVars, CanAssumption
  <1>4. CanFresh'
    BY CanAssumption DEF CanInv, CanFresh, CanTypes, CanPlaces, CanStopped, Socket, NoneLost,
       ArmSem, hwVars, drvVars, histVars, CanAssumption
  <1>5. LossFlagged'
    BY CanAssumption DEF CanInv, LossFlagged, CanTypes, CanPlaces, CanStopped, CanFresh, Shown,
       Noted, Socket, NoneLost, ArmSem, hwVars, drvVars, histVars, CanAssumption
  <1>6. LossRides'
    BY CanAssumption DEF CanInv, LossRides, CanTypes, CanPlaces, CanStopped, Socket, NoneLost,
       ArmSem, hwVars, drvVars, histVars, CanAssumption
  <1>7. RecoveryKept'
    BY CanAssumption DEF CanInv, RecoveryKept, CanTypes, CanPlaces, CanStopped, RecoveriesHonest,
       Socket, ArmSem, hwVars, drvVars, histVars, CanAssumption
  <1>8. WakeKept'
    BY CanAssumption DEF CanInv, WakeKept, CanTypes, CanPlaces, CanStopped, CanFresh, Socket,
       ArmSem, hwVars, drvVars, histVars, CanAssumption
  <1> QED BY <1>1, <1>2, <1>3, <1>4, <1>5, <1>6, <1>7, <1>8 DEF CanInv

LEMMA ArmIeKeeps ==
  ASSUME CanInv, ArmIe PROVE CanInv'
  <1>1. CanTypes'
    BY CanAssumption DEF CanInv, CanTypes, NoneLost, ArmIe, hwVars, drvVars, histVars, CanAssumption
  <1>2. CanPlaces'
    BY CanAssumption DEF CanInv, CanPlaces, CanTypes, Socket, ArmIe, hwVars, drvVars, histVars,
       CanAssumption
  <1>3. CanStopped'
    BY CanAssumption DEF CanInv, CanStopped, CanTypes, CanPlaces, Socket, ArmIe, hwVars, drvVars,
       histVars, CanAssumption
  <1>4. CanFresh'
    BY CanAssumption DEF CanInv, CanFresh, CanTypes, CanPlaces, CanStopped, Socket, NoneLost,
       ArmIe, hwVars, drvVars, histVars, CanAssumption
  <1>5. LossFlagged'
    BY CanAssumption DEF CanInv, LossFlagged, CanTypes, CanPlaces, CanStopped, CanFresh, Shown,
       Noted, Socket, NoneLost, ArmIe, hwVars, drvVars, histVars, CanAssumption
  <1>6. LossRides'
    BY CanAssumption DEF CanInv, LossRides, CanTypes, CanPlaces, CanStopped, Socket, NoneLost,
       ArmIe, hwVars, drvVars, histVars, CanAssumption
  <1>7. RecoveryKept'
    BY CanAssumption DEF CanInv, RecoveryKept, CanTypes, CanPlaces, CanStopped, RecoveriesHonest,
       Socket, ArmIe, hwVars, drvVars, histVars, CanAssumption
  <1>8. WakeKept'
    BY CanAssumption DEF CanInv, WakeKept, CanTypes, CanPlaces, CanStopped, CanFresh, Socket,
       ArmIe, hwVars, drvVars, histVars, CanAssumption
  <1> QED BY <1>1, <1>2, <1>3, <1>4, <1>5, <1>6, <1>7, <1>8 DEF CanInv

LEMMA CloseMarkKeeps ==
  ASSUME CanInv, CloseMark PROVE CanInv'
  <1>1. CanTypes'
    BY CanAssumption DEF CanInv, CanTypes, NoneLost, CloseMark, hwVars, threadVars, histVars,
       CanAssumption
  <1>2. CanPlaces'
    BY CanAssumption DEF CanInv, CanPlaces, CanTypes, Socket, CloseMark, hwVars, threadVars,
       histVars, CanAssumption
  <1>3. CanStopped'
    BY CanAssumption DEF CanInv, CanStopped, CanTypes, CanPlaces, Socket, CloseMark, hwVars,
       threadVars, histVars, CanAssumption
  <1>4. CanFresh'
    BY CanAssumption DEF CanInv, CanFresh, CanTypes, CanPlaces, CanStopped, Socket, NoneLost,
       CloseMark, hwVars, threadVars, histVars, CanAssumption
  <1>5. LossFlagged'
    BY CanAssumption DEF CanInv, LossFlagged, CanTypes, CanPlaces, CanStopped, CanFresh, Shown,
       Noted, Socket, NoneLost, CloseMark, hwVars, threadVars, histVars, CanAssumption
  <1>6. LossRides'
    BY CanAssumption DEF CanInv, LossRides, CanTypes, CanPlaces, CanStopped, Socket, NoneLost,
       CloseMark, hwVars, threadVars, histVars, CanAssumption
  <1>7. RecoveryKept'
    BY CanAssumption DEF CanInv, RecoveryKept, CanTypes, CanPlaces, CanStopped, RecoveriesHonest,
       Socket, CloseMark, hwVars, threadVars, histVars, CanAssumption
  <1>8. WakeKept'
    BY CanAssumption DEF CanInv, WakeKept, CanTypes, CanPlaces, CanStopped, CanFresh, Socket,
       CloseMark, hwVars, threadVars, histVars, CanAssumption
  <1> QED BY <1>1, <1>2, <1>3, <1>4, <1>5, <1>6, <1>7, <1>8 DEF CanInv

LEMMA CloseStopKeeps ==
  ASSUME CanInv, CloseStop PROVE CanInv'
  <1>1. CanTypes'
    BY CanAssumption DEF CanInv, CanTypes, NoneLost, CloseStop, threadVars, histVars, CanAssumption
  <1>2. CanPlaces'
    BY CanAssumption DEF CanInv, CanPlaces, CanTypes, Socket, CloseStop, threadVars, histVars,
       CanAssumption
  <1>3. CanStopped'
    BY CanAssumption DEF CanInv, CanStopped, CanTypes, CanPlaces, Socket, CloseStop, threadVars,
       histVars, CanAssumption
  <1>4. CanFresh'
    BY CanAssumption DEF CanInv, CanFresh, CanTypes, CanPlaces, CanStopped, Socket, NoneLost,
       CloseStop, threadVars, histVars, CanAssumption
  <1>5. LossFlagged'
    BY CanAssumption DEF CanInv, LossFlagged, CanTypes, CanPlaces, CanStopped, CanFresh, Shown,
       Noted, Socket, NoneLost, CloseStop, threadVars, histVars, CanAssumption
  <1>6. LossRides'
    BY CanAssumption DEF CanInv, LossRides, CanTypes, CanPlaces, CanStopped, Socket, NoneLost,
       CloseStop, threadVars, histVars, CanAssumption
  <1>7. RecoveryKept'
    BY CanAssumption DEF CanInv, RecoveryKept, CanTypes, CanPlaces, CanStopped, RecoveriesHonest,
       Socket, CloseStop, threadVars, histVars, CanAssumption
  <1>8. WakeKept'
    BY CanAssumption DEF CanInv, WakeKept, CanTypes, CanPlaces, CanStopped, CanFresh, Socket,
       CloseStop, threadVars, histVars, CanAssumption
  <1> QED BY <1>1, <1>2, <1>3, <1>4, <1>5, <1>6, <1>7, <1>8 DEF CanInv

LEMMA WakesKeeps ==
  ASSUME CanInv, Wakes PROVE CanInv'
  <1>1. CanTypes'
    BY CanAssumption DEF CanInv, CanTypes, NoneLost, Wakes, OnlyThread, KeepBus, CanAssumption
  <1>2. CanPlaces'
    BY CanAssumption DEF CanInv, CanPlaces, CanTypes, Socket, Wakes, OnlyThread, KeepBus,
       CanAssumption
  <1>3. CanStopped'
    BY CanAssumption DEF CanInv, CanStopped, CanTypes, CanPlaces, Socket, Wakes, OnlyThread,
       KeepBus, CanAssumption
  <1>4. CanFresh'
    BY CanAssumption DEF CanInv, CanFresh, CanTypes, CanPlaces, CanStopped, Socket, NoneLost,
       Wakes, OnlyThread, KeepBus, CanAssumption
  <1>5. LossFlagged'
    BY CanAssumption DEF CanInv, LossFlagged, CanTypes, CanPlaces, CanStopped, CanFresh, Shown,
       Noted, Socket, NoneLost, Wakes, OnlyThread, KeepBus, CanAssumption
  <1>6. LossRides'
    BY CanAssumption DEF CanInv, LossRides, CanTypes, CanPlaces, CanStopped, Socket, NoneLost,
       Wakes, OnlyThread, KeepBus, CanAssumption
  <1>7. RecoveryKept'
    BY CanAssumption DEF CanInv, RecoveryKept, CanTypes, CanPlaces, CanStopped, RecoveriesHonest,
       Socket, Wakes, OnlyThread, KeepBus, CanAssumption
  <1>8. WakeKept'
    BY CanAssumption DEF CanInv, WakeKept, CanTypes, CanPlaces, CanStopped, CanFresh, Socket,
       Wakes, OnlyThread, KeepBus, CanAssumption
  <1> QED BY <1>1, <1>2, <1>3, <1>4, <1>5, <1>6, <1>7, <1>8 DEF CanInv

LEMMA RecvPollKeeps ==
  ASSUME CanInv, RecvPoll PROVE CanInv'
  <1>1. CanTypes'
    <2>1. cback' \in {"fdcan", "sthal", "socket"} /\ fifo' \in Seq(CanFrame)
      BY DEF CanInv, CanTypes, RecvPoll, BusoffPoll, OnlyThread, KeepBus, NoneLost
    <2>2. lost' \in Nat /\ tally' \in Nat /\ dropped' \in Nat /\ toldAt' \in Int
      BY DEF CanInv, CanTypes, RecvPoll, BusoffPoll, OnlyThread, KeepBus, NoneLost
    <2>3. opens' \in Nat /\ recovered' \in Nat /\ backs' \in Nat /\ offs' \in Nat /\ sem' \in Nat
      BY DEF CanInv, CanTypes, RecvPoll, BusoffPoll, OnlyThread, KeepBus, NoneLost
    <2> QED BY <2>1, <2>2, <2>3 DEF CanTypes
  <1>2. CanPlaces'
    BY CanAssumption DEF CanInv, CanPlaces, CanTypes, Socket, RecvPoll, BusoffPoll, OnlyThread,
       KeepBus, CanAssumption
  <1>3. CanStopped'
    BY CanAssumption DEF CanInv, CanStopped, CanTypes, CanPlaces, Socket, RecvPoll, BusoffPoll,
       OnlyThread, KeepBus, CanAssumption
  <1>4. CanFresh'
    BY CanAssumption DEF CanInv, CanFresh, CanTypes, CanPlaces, CanStopped, Socket, NoneLost,
       RecvPoll, BusoffPoll, OnlyThread, KeepBus, CanAssumption
  <1>5. LossFlagged'
    BY CanAssumption DEF CanInv, LossFlagged, CanTypes, CanPlaces, CanStopped, CanFresh, Shown,
       Noted, Socket, NoneLost, RecvPoll, BusoffPoll, OnlyThread, KeepBus, CanAssumption
  <1>6. LossRides'
    BY CanAssumption DEF CanInv, LossRides, CanTypes, CanPlaces, CanStopped, Socket, NoneLost,
       RecvPoll, BusoffPoll, OnlyThread, KeepBus, CanAssumption
  <1>7. RecoveryKept'
    BY CanAssumption DEF CanInv, RecoveryKept, CanTypes, CanPlaces, CanStopped, RecoveriesHonest,
       Socket, RecvPoll, BusoffPoll, OnlyThread, KeepBus, CanAssumption
  <1>8. WakeKept'
    BY CanAssumption DEF CanInv, WakeKept, CanTypes, CanPlaces, CanStopped, CanFresh, Socket,
       RecvPoll, BusoffPoll, OnlyThread, KeepBus, CanAssumption
  <1> QED BY <1>1, <1>2, <1>3, <1>4, <1>5, <1>6, <1>7, <1>8 DEF CanInv

LEMMA NoteLostKeeps ==
  ASSUME CanInv, NoteLost PROVE CanInv'
  <1>1. CanTypes'
    BY CanAssumption DEF CanInv, CanTypes, NoneLost, NoteLost, OnlyThread, KeepBus, CanAssumption
  <1>2. CanPlaces'
    BY CanAssumption DEF CanInv, CanPlaces, CanTypes, Socket, NoteLost, OnlyThread, KeepBus,
       CanAssumption
  <1>3. CanStopped'
    BY CanAssumption DEF CanInv, CanStopped, CanTypes, CanPlaces, Socket, NoteLost, OnlyThread,
       KeepBus, CanAssumption
  <1>4. CanFresh'
    BY CanAssumption DEF CanInv, CanFresh, CanTypes, CanPlaces, CanStopped, Socket, NoneLost,
       NoteLost, OnlyThread, KeepBus, CanAssumption
  <1>5. LossFlagged'
    <2>0. \A i \in 1 .. Len(fifo) : fifo[i].told \in Int
      BY FrameTypes DEF CanInv
    <2>1. /\ cpc = "flag" /\ tally' = tally + lost /\ cpc' = (IF lost = 1 THEN "ack" ELSE "look")
          /\ UNCHANGED <<cback, fifo, lost, dropped, toldAt, silent>>
      BY DEF NoteLost, KeepBus, OnlyThread
    <2>2. ~Socket /\ lost \in {0, 1}
      BY <2>1 DEF CanInv, CanPlaces
    <2>3. CASE lost = 1
      BY <2>0, <2>1, <2>2, <2>3 DEF CanInv, LossFlagged, Shown, Noted, CanTypes, Socket
    <2>4. CASE lost = 0
      BY <2>0, <2>1, <2>2, <2>4 DEF CanInv, LossFlagged, Shown, Noted, CanTypes, Socket
    <2> QED BY <2>2, <2>3, <2>4
  <1>6. LossRides'
    BY CanAssumption DEF CanInv, LossRides, CanTypes, CanPlaces, CanStopped, Socket, NoneLost,
       NoteLost, OnlyThread, KeepBus, CanAssumption
  <1>7. RecoveryKept'
    BY CanAssumption DEF CanInv, RecoveryKept, CanTypes, CanPlaces, CanStopped, RecoveriesHonest,
       Socket, NoteLost, OnlyThread, KeepBus, CanAssumption
  <1>8. WakeKept'
    BY CanAssumption DEF CanInv, WakeKept, CanTypes, CanPlaces, CanStopped, CanFresh, Socket,
       NoteLost, OnlyThread, KeepBus, CanAssumption
  <1> QED BY <1>1, <1>2, <1>3, <1>4, <1>5, <1>6, <1>7, <1>8 DEF CanInv

LEMMA ClearLostKeeps ==
  ASSUME CanInv, ClearLost PROVE CanInv'
  <1>1. CanTypes'
    BY CanAssumption DEF CanInv, CanTypes, NoneLost, ClearLost, OnlyThread, KeepBus, CanAssumption
  <1>2. CanPlaces'
    BY CanAssumption DEF CanInv, CanPlaces, CanTypes, Socket, ClearLost, OnlyThread, KeepBus,
       CanAssumption
  <1>3. CanStopped'
    BY CanAssumption DEF CanInv, CanStopped, CanTypes, CanPlaces, Socket, ClearLost, OnlyThread,
       KeepBus, CanAssumption
  <1>4. CanFresh'
    BY CanAssumption DEF CanInv, CanFresh, CanTypes, CanPlaces, CanStopped, Socket, NoneLost,
       ClearLost, OnlyThread, KeepBus, CanAssumption
  <1>5. LossFlagged'
    BY CanAssumption DEF CanInv, LossFlagged, CanTypes, CanPlaces, CanStopped, CanFresh, Shown,
       Noted, Socket, NoneLost, ClearLost, OnlyThread, KeepBus, CanAssumption
  <1>6. LossRides'
    BY CanAssumption DEF CanInv, LossRides, CanTypes, CanPlaces, CanStopped, Socket, NoneLost,
       ClearLost, OnlyThread, KeepBus, CanAssumption
  <1>7. RecoveryKept'
    BY CanAssumption DEF CanInv, RecoveryKept, CanTypes, CanPlaces, CanStopped, RecoveriesHonest,
       Socket, ClearLost, OnlyThread, KeepBus, CanAssumption
  <1>8. WakeKept'
    BY CanAssumption DEF CanInv, WakeKept, CanTypes, CanPlaces, CanStopped, CanFresh, Socket,
       ClearLost, OnlyThread, KeepBus, CanAssumption
  <1> QED BY <1>1, <1>2, <1>3, <1>4, <1>5, <1>6, <1>7, <1>8 DEF CanInv

LEMMA LookKeeps ==
  ASSUME CanInv, Look PROVE CanInv'
  <1>1. CanTypes'
    BY CanAssumption DEF CanInv, CanTypes, NoneLost, Look, OnlyThread, KeepBus, CanAssumption
  <1>2. CanPlaces'
    BY CanAssumption DEF CanInv, CanPlaces, CanTypes, Socket, Look, OnlyThread, KeepBus,
       CanAssumption
  <1>3. CanStopped'
    BY CanAssumption DEF CanInv, CanStopped, CanTypes, CanPlaces, Socket, Look, OnlyThread,
       KeepBus, CanAssumption
  <1>4. CanFresh'
    BY CanAssumption DEF CanInv, CanFresh, CanTypes, CanPlaces, CanStopped, Socket, NoneLost,
       Look, OnlyThread, KeepBus, CanAssumption
  <1>5. LossFlagged'
    BY CanAssumption DEF CanInv, LossFlagged, CanTypes, CanPlaces, CanStopped, CanFresh, Shown,
       Noted, Socket, NoneLost, Look, OnlyThread, KeepBus, CanAssumption
  <1>6. LossRides'
    BY CanAssumption DEF CanInv, LossRides, CanTypes, CanPlaces, CanStopped, Socket, NoneLost,
       Look, OnlyThread, KeepBus, CanAssumption
  <1>7. RecoveryKept'
    BY CanAssumption DEF CanInv, RecoveryKept, CanTypes, CanPlaces, CanStopped, RecoveriesHonest,
       Socket, Look, OnlyThread, KeepBus, CanAssumption
  <1>8. WakeKept'
    BY CanAssumption DEF CanInv, WakeKept, CanTypes, CanPlaces, CanStopped, CanFresh, Socket,
       Look, OnlyThread, KeepBus, CanAssumption
  <1> QED BY <1>1, <1>2, <1>3, <1>4, <1>5, <1>6, <1>7, <1>8 DEF CanInv

LEMMA TakeFrameKeeps ==
  ASSUME CanInv, TakeFrame PROVE CanInv'
  <1>0. cpc = "take" /\ ~Socket /\ fifo' = Tail(fifo) /\ cpc' = "poll" /\ fifo \in Seq(CanFrame)
    BY DEF TakeFrame, Given, CanInv, CanTypes
  <1>a. /\ UNCHANGED <<cback, lost, tally, dropped, toldAt, opens, recovered, backs, offs, sem>>
        /\ silent' = (silent \/ (Head(fifo).told # NoneLost /\ tally <= Head(fifo).told))
    BY DEF TakeFrame, Given, KeepBus, OnlyThread
  <1>1. CanTypes'
    <2>1. fifo # <<>>
      BY <1>0 DEF CanInv, CanPlaces
    <2>2. /\ Head(fifo) = fifo[1] /\ 1 \in 1 .. Len(fifo) /\ Tail(fifo) \in Seq(CanFrame)
          /\ Len(Tail(fifo)) = Len(fifo) - 1
          /\ \A i \in 1 .. Len(Tail(fifo)) : i + 1 \in 1 .. Len(fifo) /\ Tail(fifo)[i] = fifo[i + 1]
      BY <1>0, <2>1, Tailed
    <2> QED BY <1>0, <1>a, <2>2 DEF CanInv, CanTypes
  <1>2. CanPlaces'
    BY CanAssumption DEF CanInv, CanPlaces, CanTypes, Socket, TakeFrame, Given, OnlyThread,
       KeepBus, CanAssumption
  <1>3. CanStopped'
    BY CanAssumption DEF CanInv, CanStopped, CanTypes, CanPlaces, Socket, TakeFrame, Given,
       OnlyThread, KeepBus, CanAssumption
  <1>4. CanFresh'
    BY CanAssumption DEF CanInv, CanFresh, CanTypes, CanPlaces, CanStopped, Socket, NoneLost,
       TakeFrame, Given, OnlyThread, KeepBus, CanAssumption
  <1>5. LossFlagged'
    <2>1. fifo # <<>>
      BY <1>0 DEF CanInv, CanPlaces
    <2>2. /\ Head(fifo) = fifo[1] /\ 1 \in 1 .. Len(fifo) /\ Tail(fifo) \in Seq(CanFrame)
          /\ Len(Tail(fifo)) = Len(fifo) - 1
          /\ \A i \in 1 .. Len(Tail(fifo)) : i + 1 \in 1 .. Len(fifo) /\ Tail(fifo)[i] = fifo[i + 1]
      BY <1>0, <2>1, Tailed
    <2>3. Shown(fifo[1].told)
      BY <1>0, <2>2 DEF CanInv, LossFlagged
    <2>0. \A i \in 1 .. Len(fifo) : fifo[i].told \in Int
      BY FrameTypes DEF CanInv
    <2>5. ~(tally <= Head(fifo).told)
      BY <2>0, <2>2, <2>3 DEF CanInv, CanTypes, Shown
    <2>6. ~silent
      BY <1>0 DEF CanInv, LossFlagged
    <2>4. ~silent'
      BY <1>a, <2>5, <2>6, Zenon
    <2> QED BY <1>0, <1>a, <2>0, <2>2, <2>4 DEF CanInv, LossFlagged, Shown, Noted, CanTypes, Socket
  <1>6. LossRides'
    BY CanAssumption DEF CanInv, LossRides, CanTypes, CanPlaces, CanStopped, Socket, NoneLost,
       TakeFrame, Given, OnlyThread, KeepBus, CanAssumption
  <1>7. RecoveryKept'
    BY CanAssumption DEF CanInv, RecoveryKept, CanTypes, CanPlaces, CanStopped, RecoveriesHonest,
       Socket, TakeFrame, Given, OnlyThread, KeepBus, CanAssumption
  <1>8. WakeKept'
    BY CanAssumption DEF CanInv, WakeKept, CanTypes, CanPlaces, CanStopped, CanFresh, Socket,
       TakeFrame, Given, OnlyThread, KeepBus, CanAssumption
  <1> QED BY <1>1, <1>2, <1>3, <1>4, <1>5, <1>6, <1>7, <1>8 DEF CanInv

LEMMA RecvMsgKeeps ==
  ASSUME CanInv, RecvMsg PROVE CanInv'
  <1>0. /\ cpc = "take" /\ Socket /\ fifo \in Seq(CanFrame)
        /\ UNCHANGED <<cback, lost, dropped, toldAt, opens, recovered, backs, offs>>
    BY DEF RecvMsg, KeepBus, OnlyThread, CanInv, CanTypes
  <1>a. fifo = <<>> => UNCHANGED <<fifo, tally, silent>> /\ cpc' = "drained" /\ sem' = sem
    BY DEF RecvMsg, Given, KeepBus, OnlyThread
  <1>b. fifo # <<>> =>
            /\ silent' = (silent \/ (Head(fifo).told # NoneLost /\ Ovfl <= Head(fifo).told))
                      /\ /\ fifo' = Tail(fifo) /\ tally' = Ovfl /\ cpc' \in {"take", "poll"}
                         /\ sem' = sem
    BY DEF RecvMsg, Given, KeepBus, OnlyThread
  <1>c. \A i \in 1 .. Len(fifo) : fifo[i].told \in Int /\ fifo[i].drops \in Nat
    BY FrameTypes DEF CanInv
  <1>d. fifo # <<>> =>
            /\ Head(fifo) = fifo[1] /\ 1 \in 1 .. Len(fifo) /\ Tail(fifo) \in Seq(CanFrame)
                      /\ Len(Tail(fifo)) = Len(fifo) - 1
                      /\ \A i \in 1 .. Len(Tail(fifo)) :
                             i + 1 \in 1 .. Len(fifo) /\ Tail(fifo)[i] = fifo[i + 1]
    BY <1>0, Tailed
  <1>1. CanTypes'
    <2>1. CASE fifo = <<>>
      BY <1>0, <1>a, <2>1 DEF CanInv, CanTypes
    <2>2. CASE fifo # <<>>
      BY <1>0, <1>b, <1>c, <1>d, <2>2 DEF CanInv, CanTypes, Ovfl
    <2> QED BY <2>1, <2>2
  <1>2. CanPlaces'
    BY CanAssumption DEF CanInv, CanPlaces, CanTypes, Socket, RecvMsg, Given, Ovfl, OnlyThread,
       KeepBus, CanAssumption
  <1>3. CanStopped'
    BY CanAssumption DEF CanInv, CanStopped, CanTypes, CanPlaces, Socket, RecvMsg, Given, Ovfl,
       OnlyThread, KeepBus, CanAssumption
  <1>4. CanFresh'
    BY CanAssumption DEF CanInv, CanFresh, CanTypes, CanPlaces, CanStopped, Socket, NoneLost,
       RecvMsg, Given, Ovfl, OnlyThread, KeepBus, CanAssumption
  <1>5. LossFlagged'
    BY CanAssumption DEF CanInv, LossFlagged, CanTypes, CanPlaces, CanStopped, CanFresh, Shown,
       Noted, Socket, NoneLost, RecvMsg, Given, Ovfl, OnlyThread, KeepBus, CanAssumption
  <1>6. LossRides'
    <2>1. CASE fifo = <<>>
      BY <1>0, <1>a, <2>1 DEF CanInv, CanTypes, LossRides, Socket
    <2>2. CASE fifo # <<>>
      <3>1. Ovfl <= lost /\ Ovfl \in Nat
        BY <1>0, <1>c, <1>d, <2>2 DEF CanInv, CanTypes, LossRides, Ovfl
      <3>3. Head(fifo).told = NoneLost \/ ~(Ovfl <= Head(fifo).told)
        BY <1>0, <1>c, <1>d, <2>2 DEF CanInv, CanTypes, LossRides, Ovfl, NoneLost
      <3>4. ~silent
        BY <1>0 DEF CanInv, LossRides
      <3>2. ~silent'
        BY <1>b, <2>2, <3>3, <3>4, Zenon
      <3> QED BY <1>0, <1>b, <1>c, <1>d, <2>2, <3>1, <3>2 DEF CanInv, CanTypes, LossRides, Socket
    <2> QED BY <2>1, <2>2
  <1>7. RecoveryKept'
    BY CanAssumption DEF CanInv, RecoveryKept, CanTypes, CanPlaces, CanStopped, RecoveriesHonest,
       Socket, RecvMsg, Given, Ovfl, OnlyThread, KeepBus, CanAssumption
  <1>8. WakeKept'
    BY CanAssumption DEF CanInv, WakeKept, CanTypes, CanPlaces, CanStopped, CanFresh, Socket,
       RecvMsg, Given, Ovfl, OnlyThread, KeepBus, CanAssumption
  <1> QED BY <1>1, <1>2, <1>3, <1>4, <1>5, <1>6, <1>7, <1>8 DEF CanInv

LEMMA CanSendKeeps ==
  ASSUME CanInv, CanSend PROVE CanInv'
  <1>1. CanTypes'
    <2>1. cback' \in {"fdcan", "sthal", "socket"} /\ fifo' \in Seq(CanFrame)
      BY DEF CanInv, CanTypes, CanSend, BusoffPoll, OnlyThread, KeepBus, NoneLost
    <2>2. lost' \in Nat /\ tally' \in Nat /\ dropped' \in Nat /\ toldAt' \in Int
      BY DEF CanInv, CanTypes, CanSend, BusoffPoll, OnlyThread, KeepBus, NoneLost
    <2>3. opens' \in Nat /\ recovered' \in Nat /\ backs' \in Nat /\ offs' \in Nat /\ sem' \in Nat
      BY DEF CanInv, CanTypes, CanSend, BusoffPoll, OnlyThread, KeepBus, NoneLost
    <2> QED BY <2>1, <2>2, <2>3 DEF CanTypes
  <1>2. CanPlaces'
    BY CanAssumption DEF CanInv, CanPlaces, CanTypes, Socket, CanSend, BusoffPoll, OnlyThread,
       KeepBus, CanAssumption
  <1>3. CanStopped'
    BY CanAssumption DEF CanInv, CanStopped, CanTypes, CanPlaces, Socket, CanSend, BusoffPoll,
       OnlyThread, KeepBus, CanAssumption
  <1>4. CanFresh'
    BY CanAssumption DEF CanInv, CanFresh, CanTypes, CanPlaces, CanStopped, Socket, NoneLost,
       CanSend, BusoffPoll, OnlyThread, KeepBus, CanAssumption
  <1>5. LossFlagged'
    BY CanAssumption DEF CanInv, LossFlagged, CanTypes, CanPlaces, CanStopped, CanFresh, Shown,
       Noted, Socket, NoneLost, CanSend, BusoffPoll, OnlyThread, KeepBus, CanAssumption
  <1>6. LossRides'
    BY CanAssumption DEF CanInv, LossRides, CanTypes, CanPlaces, CanStopped, Socket, NoneLost,
       CanSend, BusoffPoll, OnlyThread, KeepBus, CanAssumption
  <1>7. RecoveryKept'
    BY CanAssumption DEF CanInv, RecoveryKept, CanTypes, CanPlaces, CanStopped, RecoveriesHonest,
       Socket, CanSend, BusoffPoll, OnlyThread, KeepBus, CanAssumption
  <1>8. WakeKept'
    BY CanAssumption DEF CanInv, WakeKept, CanTypes, CanPlaces, CanStopped, CanFresh, Socket,
       CanSend, BusoffPoll, OnlyThread, KeepBus, CanAssumption
  <1> QED BY <1>1, <1>2, <1>3, <1>4, <1>5, <1>6, <1>7, <1>8 DEF CanInv

LEMMA AsksKeeps ==
  ASSUME CanInv, Asks PROVE CanInv'
  <1>1. CanTypes'
    <2>1. cback' \in {"fdcan", "sthal", "socket"} /\ fifo' \in Seq(CanFrame)
      BY DEF CanInv, CanTypes, Asks, BusoffPoll, OnlyThread, KeepBus, NoneLost
    <2>2. lost' \in Nat /\ tally' \in Nat /\ dropped' \in Nat /\ toldAt' \in Int
      BY DEF CanInv, CanTypes, Asks, BusoffPoll, OnlyThread, KeepBus, NoneLost
    <2>3. opens' \in Nat /\ recovered' \in Nat /\ backs' \in Nat /\ offs' \in Nat /\ sem' \in Nat
      BY DEF CanInv, CanTypes, Asks, BusoffPoll, OnlyThread, KeepBus, NoneLost
    <2> QED BY <2>1, <2>2, <2>3 DEF CanTypes
  <1>2. CanPlaces'
    BY CanAssumption DEF CanInv, CanPlaces, CanTypes, Socket, Asks, BusoffPoll, OnlyThread,
       KeepBus, CanAssumption
  <1>3. CanStopped'
    BY CanAssumption DEF CanInv, CanStopped, CanTypes, CanPlaces, Socket, Asks, BusoffPoll,
       OnlyThread, KeepBus, CanAssumption
  <1>4. CanFresh'
    BY CanAssumption DEF CanInv, CanFresh, CanTypes, CanPlaces, CanStopped, Socket, NoneLost,
       Asks, BusoffPoll, OnlyThread, KeepBus, CanAssumption
  <1>5. LossFlagged'
    BY CanAssumption DEF CanInv, LossFlagged, CanTypes, CanPlaces, CanStopped, CanFresh, Shown,
       Noted, Socket, NoneLost, Asks, BusoffPoll, OnlyThread, KeepBus, CanAssumption
  <1>6. LossRides'
    BY CanAssumption DEF CanInv, LossRides, CanTypes, CanPlaces, CanStopped, Socket, NoneLost,
       Asks, BusoffPoll, OnlyThread, KeepBus, CanAssumption
  <1>7. RecoveryKept'
    BY CanAssumption DEF CanInv, RecoveryKept, CanTypes, CanPlaces, CanStopped, RecoveriesHonest,
       Socket, Asks, BusoffPoll, OnlyThread, KeepBus, CanAssumption
  <1>8. WakeKept'
    BY CanAssumption DEF CanInv, WakeKept, CanTypes, CanPlaces, CanStopped, CanFresh, Socket,
       Asks, BusoffPoll, OnlyThread, KeepBus, CanAssumption
  <1> QED BY <1>1, <1>2, <1>3, <1>4, <1>5, <1>6, <1>7, <1>8 DEF CanInv

LEMMA PassEndsKeeps ==
  ASSUME CanInv, PassEnds PROVE CanInv'
  <1>1. CanTypes'
    BY CanAssumption DEF CanInv, CanTypes, NoneLost, PassEnds, OnlyThread, KeepBus, CanAssumption
  <1>2. CanPlaces'
    BY CanAssumption DEF CanInv, CanPlaces, CanTypes, Socket, PassEnds, OnlyThread, KeepBus,
       CanAssumption
  <1>3. CanStopped'
    BY CanAssumption DEF CanInv, CanStopped, CanTypes, CanPlaces, Socket, PassEnds, OnlyThread,
       KeepBus, CanAssumption
  <1>4. CanFresh'
    BY CanAssumption DEF CanInv, CanFresh, CanTypes, CanPlaces, CanStopped, Socket, NoneLost,
       PassEnds, OnlyThread, KeepBus, CanAssumption
  <1>5. LossFlagged'
    BY CanAssumption DEF CanInv, LossFlagged, CanTypes, CanPlaces, CanStopped, CanFresh, Shown,
       Noted, Socket, NoneLost, PassEnds, OnlyThread, KeepBus, CanAssumption
  <1>6. LossRides'
    BY CanAssumption DEF CanInv, LossRides, CanTypes, CanPlaces, CanStopped, Socket, NoneLost,
       PassEnds, OnlyThread, KeepBus, CanAssumption
  <1>7. RecoveryKept'
    BY CanAssumption DEF CanInv, RecoveryKept, CanTypes, CanPlaces, CanStopped, RecoveriesHonest,
       Socket, PassEnds, OnlyThread, KeepBus, CanAssumption
  <1>8. WakeKept'
    BY CanAssumption DEF CanInv, WakeKept, CanTypes, CanPlaces, CanStopped, CanFresh, Socket,
       PassEnds, OnlyThread, KeepBus, CanAssumption
  <1> QED BY <1>1, <1>2, <1>3, <1>4, <1>5, <1>6, <1>7, <1>8 DEF CanInv

LEMMA CanSteps == ASSUME CanInv, CanNext PROVE CanInv'
  BY ArrivesKeeps, GoesOffKeeps, ComesBackKeeps, GoesOutKeeps, IsrKeeps, OpenInitKeeps,
     OpenStartKeeps, OpenSocketKeeps,
     OpenClearKeeps, OpenLeaveKeeps, ArmSemKeeps, ArmIeKeeps, CloseMarkKeeps, CloseStopKeeps,
     WakesKeeps, RecvPollKeeps,
     NoteLostKeeps, ClearLostKeeps, LookKeeps, TakeFrameKeeps, RecvMsgKeeps, CanSendKeeps,
     AsksKeeps, PassEndsKeeps
     DEF CanNext, Bus, Opens, Closes, Drains

LEMMA CanStutters == ASSUME CanInv, UNCHANGED canVars PROVE CanInv'
  BY DEF CanInv, CanTypes, CanPlaces, CanStopped, CanFresh, LossFlagged, LossRides, RecoveryKept,
     WakeKept, RecoveriesHonest,
     Socket, Shown, Noted, canVars, hwVars, drvVars, threadVars, histVars

LEMMA CanInvIsHonest == CanInv => CanHonest
  <1> SUFFICES ASSUME CanInv PROVE CanHonest
    OBVIOUS
  <1>1. LossIsTold
    BY DEF CanInv, CanTypes, LossFlagged, LossRides, LossIsTold
  <1>2. RecoveriesHonest
    BY DEF CanInv, RecoveryKept, RecoveriesHonest
  <1>3. ClosedStaysOff
    BY DEF CanInv, CanStopped, ClosedStaysOff
  <1>4. NoFrameWaits
    BY DEF CanInv, WakeKept, NoFrameWaits
  <1> QED BY <1>1, <1>2, <1>3, <1>4 DEF CanHonest

-------------------------------------------------------------------------------
(***************************************************************************)
(* The ring under CanIf (CanIf).                                           *)
(***************************************************************************)
Slots == 0 .. RingCap - 1
Pushing == IF ppc = "idle" THEN 0 ELSE 1

CanIfTypes ==
    /\ slot \in [Slots -> [1 .. 2 -> Nat]] /\ msg \in [1 .. 2 -> Nat]
    /\ indicated \in Nat /\ before \in Nat /\ given \in Nat /\ spilled \in Nat /\ holes \in Nat
    /\ rxLost = spilled
    /\ ppc \in {"idle", "id", "data", "publish"} /\ qpc \in {"idle", "id", "data", "free"}

Counted ==
    /\ txPending \in Int /\ inFlight \in Nat /\ spc \in {"idle", "transmit", "undo"}
    /\ WireDone

\* h frames were pushed and t popped since the start; the first o of them before this session.
Held(k) == slot[k % RingCap]
Counts(h, t, o) ==
    /\ t <= h /\ h <= t + RingCap /\ o <= h
    /\ head = h % RingMod /\ tail = t % RingMod
    /\ ppc # "idle" => ph = head /\ h - t < RingCap
    /\ qpc # "idle" => qt = tail /\ t < h
Contents(h, t, o) ==
    \A k \in t .. h - 1 :
        /\ Held(k)[1] = Held(k)[2]
        /\ Held(k)[1] >= given + (k - t) + 1
        /\ Held(k)[1] + (h - 1 - k) + Pushing <= indicated
        /\ Held(k)[1] <= before <=> k < o
Ordered(h, t) ==
    \A k, l \in t .. h - 1 : k < l => Held(l)[1] >= Held(k)[1] + (l - k)
Copies(h, t) ==
    /\ ppc \in {"data", "publish"} => Held(h)[1] = indicated
    /\ ppc = "publish" => Held(h)[2] = indicated
    /\ qpc \in {"data", "free"} => msg[1] = Held(t)[1]
    /\ qpc = "free" => msg[2] = Held(t)[2]
Accounted(h, t, o) ==
    /\ indicated = before + spilled + (h - o) + Pushing
    /\ given + (h - t) + Pushing <= indicated
    /\ t > o => holes + before + (t - o) <= given
    /\ t <= o => holes = 0 /\ given <= before

Ring(h, t, o) ==
    /\ CanIfTypes /\ Counted
    /\ Counts(h, t, o) /\ Contents(h, t, o) /\ Ordered(h, t) /\ Copies(h, t) /\ Accounted(h, t, o)
CanIfInv == \E h, t, o \in Nat : Ring(h, t, o)

LEMMA RingsStart == CanIfInit => CanIfInv
  <1> SUFFICES ASSUME CanIfInit PROVE Ring(0, 0, 0)
    BY DEF CanIfInv
  <1>1. 0 % RingMod = 0 /\ 0 \in 0 .. RingMod - 1
    BY CanIfAssumption, ModSmall DEF CanIfAssumption
  <1>2. CanIfTypes
    <2>1. <<0, 0>> \in [1 .. 2 -> Nat]
      OBVIOUS
    <2> QED BY <2>1 DEF CanIfInit, CanIfTypes, Slots
  <1>3. Counted /\ Counts(0, 0, 0) /\ Accounted(0, 0, 0)
    BY <1>1, CanIfAssumption DEF CanIfInit, CanIfAssumption, Counted, Counts, Accounted, WireDone,
       Pushing
  <1>4. Contents(0, 0, 0) /\ Ordered(0, 0) /\ Copies(0, 0)
    BY DEF CanIfInit, Contents, Ordered, Copies
  <1> QED BY <1>2, <1>3, <1>4 DEF Ring

\* head - tail in the ring's width is the number of frames in it.
LEMMA ApartIs ==
  ASSUME NEW h \in Nat, NEW t \in Nat, t <= h, h <= t + RingCap
  PROVE  Apart(h % RingMod, t % RingMod) = h - t
  <1>1. h - t \in 0 .. RingMod - 1 /\ t + (h - t) = h
    BY CanIfAssumption DEF CanIfAssumption
  <1>2. ((((t + (h - t)) % RingMod)) - (t % RingMod)) % RingMod = h - t
    BY <1>1, CanIfAssumption, ModApart DEF CanIfAssumption
  <1> QED BY <1>1, <1>2 DEF Apart

\* The slot of an index is that of the count behind it.
LEMMA SlotIs ==
  ASSUME NEW h \in Nat
  PROVE  SlotAt(h % RingMod) = h % RingCap /\ h % RingCap \in Slots
  BY CanIfAssumption, ModMod, DivMod DEF CanIfAssumption, SlotAt, Slots

LEMMA SlotsDiffer ==
  ASSUME NEW k \in Nat, NEW h \in Nat, k < h, h - k < RingCap
  PROVE  k % RingCap # h % RingCap
  <1>1. h < k + RingCap
    BY CanIfAssumption DEF CanIfAssumption
  <1> QED BY <1>1, CanIfAssumption, ModDistinct DEF CanIfAssumption

LEMMA IndicationRings ==
  ASSUME NEW h \in Nat, NEW t \in Nat, NEW o \in Nat, Ring(h, t, o), Indication
  PROVE  Ring(h, t, o)'
  <1>a. Room(head, tail) <=> h - t < RingCap
    BY ApartIs DEF Ring, Counts, Room
  <1>1. CanIfTypes'
    BY SMTT(30), CanIfAssumption, <1>a DEF CanIfAssumption, Ring, CanIfTypes, Slots,
      Indication, OnlyProducer, consumerVars, senderVars
  <1>2. Counted'
    BY CanIfAssumption, <1>a DEF CanIfAssumption, Ring, CanIfTypes, Counted, WireDone, Indication,
       OnlyProducer, consumerVars, senderVars
  <1>3. Counts(h, t, o)'
    BY CanIfAssumption, <1>a DEF CanIfAssumption, Ring, CanIfTypes, Counts, Indication,
       OnlyProducer, consumerVars, senderVars
  <1>4. Contents(h, t, o)'
    <2>1. \A k \in t .. h - 1 : Held(k)[1] \in Nat
      <3>1. ASSUME NEW k \in t .. h - 1 PROVE Held(k)[1] \in Nat
        <4>1. k \in Nat
          OBVIOUS
        <4> QED BY <4>1, SlotIs DEF Held, Ring, CanIfTypes
      <3> QED BY <3>1
    <2>2. /\ /\ Pushing = 0 /\ Pushing' \in {0, 1} /\ indicated' = indicated + 1
          /\ indicated \in Nat /\ given' = given /\ before' = before
          /\ \A k : Held(k)' = Held(k)
      BY DEF Indication, OnlyProducer, consumerVars, Pushing, Held, Ring, CanIfTypes
    <2> QED BY <2>1, <2>2 DEF Ring, Contents
  <1>5. Ordered(h, t)'
    BY CanIfAssumption, <1>a DEF CanIfAssumption, Ring, CanIfTypes, Ordered, Held, Indication,
       OnlyProducer, consumerVars, senderVars
  <1>6. Copies(h, t)'
    BY CanIfAssumption, <1>a DEF CanIfAssumption, Ring, CanIfTypes, Copies, Held, Indication,
       OnlyProducer, consumerVars, senderVars
  <1>7. Accounted(h, t, o)'
    BY CanIfAssumption, <1>a DEF CanIfAssumption, Ring, CanIfTypes, Accounted, Pushing,
       Indication, OnlyProducer, consumerVars, senderVars
  <1> QED BY <1>1, <1>2, <1>3, <1>4, <1>5, <1>6, <1>7 DEF Ring
LEMMA PushCopyRings ==
  ASSUME NEW h \in Nat, NEW t \in Nat, NEW o \in Nat, Ring(h, t, o), PushCopy
  PROVE  Ring(h, t, o)'
  <1> DEFINE w == IF ppc = "id" THEN 1 ELSE 2
  <1>a. /\ ppc \in {"id", "data"} /\ slot' = [slot EXCEPT ![SlotAt(ph)][w] = indicated]
        /\ ppc' = (IF ppc = "id" THEN "data" ELSE "publish")
        /\ UNCHANGED <<head, tail, ph, indicated, rxLost, spilled, qpc, qt, msg, given, holes,
                       spc, inFlight, sends, txPending, before>>
    BY DEF PushCopy, OnlyProducer, consumerVars, senderVars
  <1>b. SlotAt(ph) = h % RingCap /\ h % RingCap \in Slots /\ w \in 1 .. 2
    BY <1>a, SlotIs DEF Ring, Counts
  <1>c. slot \in [Slots -> [1 .. 2 -> Nat]] /\ indicated \in Nat
    BY DEF Ring, CanIfTypes
  <1>d. /\ slot' \in [Slots -> [1 .. 2 -> Nat]]
        /\ \A s \in Slots : s # h % RingCap => slot'[s] = slot[s]
        /\ slot'[h % RingCap] = [slot[h % RingCap] EXCEPT ![w] = indicated]
    BY <1>a, <1>b, <1>c
  <1>e. \A k \in t .. h - 1 : k \in Nat /\ k % RingCap \in Slots /\ Held(k)' = Held(k)
    <2>1. ASSUME NEW k \in t .. h - 1 PROVE k \in Nat /\ k % RingCap \in Slots /\ Held(k)' = Held(k)
      <3>1. k \in Nat /\ k < h /\ h - k < RingCap
        BY <1>a, CanIfAssumption DEF Ring, Counts, CanIfAssumption
      <3>2. k % RingCap \in Slots /\ k % RingCap # h % RingCap
        BY <3>1, SlotIs, SlotsDiffer
      <3> QED BY <1>d, <3>1, <3>2 DEF Held
    <2> QED BY <2>1
  <1>f. /\ Held(h)'[1] = (IF ppc = "id" THEN indicated ELSE Held(h)[1])
        /\ Held(h)'[2] = (IF ppc = "data" THEN indicated ELSE Held(h)[2])
    BY <1>a, <1>b, <1>c, <1>d DEF Held
  <1> HIDE DEF w
  <1>1. CanIfTypes'
    BY <1>a, <1>d DEF Ring, CanIfTypes
  <1>2. Counted'
    BY <1>a DEF Ring, Counted, WireDone
  <1>3. Counts(h, t, o)'
    BY <1>a DEF Ring, Counts
  <1>4. Contents(h, t, o)'
    BY <1>a, <1>e DEF Ring, Contents, Pushing
  <1>5. Ordered(h, t)'
    BY <1>e DEF Ring, Ordered
  <1>6. Copies(h, t)'
    <2>1. t < h => Held(t)' = Held(t)
      BY <1>e
    <2>2. qpc # "idle" => t < h
      BY DEF Ring, Counts
    <2> QED BY <1>a, <1>f, <2>1, <2>2 DEF Ring, Copies
  <1>7. Accounted(h, t, o)'
    BY <1>a DEF Ring, Accounted, Pushing
  <1> QED BY <1>1, <1>2, <1>3, <1>4, <1>5, <1>6, <1>7 DEF Ring
LEMMA PushPublishRings ==
  ASSUME NEW h \in Nat, NEW t \in Nat, NEW o \in Nat, Ring(h, t, o), PushPublish
  PROVE  Ring(h + 1, t, o)'
  <1>a. /\ ppc = "publish" /\ head' = (ph + 1) % RingMod /\ ppc' = "idle"
        /\ UNCHANGED <<slot, tail, ph, indicated, rxLost, spilled, qpc, qt, msg, given, holes,
                       spc, inFlight, sends, txPending, before>>
    BY DEF PushPublish, OnlyProducer, consumerVars, senderVars
  <1>b. head' = (h + 1) % RingMod
    BY <1>a, CanIfAssumption, ModStep DEF Ring, Counts, CanIfAssumption
  <1>c. h \in Nat /\ t <= h /\ h - t < RingCap /\ o <= h /\ RingCap \in Nat
    BY <1>a, CanIfAssumption DEF Ring, Counts, CanIfAssumption
  <1>d. \A k : Held(k)' = Held(k)
    BY <1>a DEF Held
  <1>e. Held(h)[1] = indicated /\ Held(h)[2] = indicated
    BY <1>a DEF Ring, Copies
  <1>f. \A k \in t .. h - 1 : Held(k)[1] \in Nat
    <2>1. ASSUME NEW k \in t .. h - 1 PROVE Held(k)[1] \in Nat
      <3>1. k \in Nat
        OBVIOUS
      <3> QED BY <3>1, SlotIs DEF Held, Ring, CanIfTypes
    <2> QED BY <2>1
  <1>g. \A k \in t .. (h + 1) - 1 : k = h \/ k \in t .. h - 1
    BY <1>c
  <1>i. /\ indicated \in Nat /\ before \in Nat /\ given \in Nat /\ spilled \in Nat
    BY DEF Ring, CanIfTypes
  <1>j. indicated = before + spilled + (h - o) + 1 /\ given + (h - t) + 1 <= indicated
    BY <1>a DEF Ring, Accounted, Pushing
  <1>1. CanIfTypes'
    BY <1>a DEF Ring, CanIfTypes
  <1>2. Counted'
    BY <1>a DEF Ring, Counted, WireDone
  <1>3. Counts(h + 1, t, o)'
    BY <1>a, <1>b, <1>c DEF Ring, Counts
  <1>4. Contents(h + 1, t, o)'
    <2>1. ASSUME NEW k \in t .. (h + 1) - 1
         PROVE  /\ Held(k)[1] = Held(k)[2] /\ Held(k)[1] >= given + (k - t) + 1
                /\ /\ Held(k)[1] + ((h + 1) - 1 - k) + 0 <= indicated
                   /\ (Held(k)[1] <= before <=> k < o)
      <3>1. CASE k = h
        BY <1>c, <1>e, <1>i, <1>j, <3>1
      <3>2. CASE k \in t .. h - 1
        <4>1. /\ Held(k)[1] = Held(k)[2] /\ Held(k)[1] >= given + (k - t) + 1
              /\ Held(k)[1] + (h - 1 - k) + 1 <= indicated /\ (Held(k)[1] <= before <=> k < o)
          BY <1>a, <3>2 DEF Ring, Contents, Pushing
        <4> QED BY <1>c, <1>f, <1>i, <3>2, <4>1
      <3> QED BY <1>g, <3>1, <3>2
    <2> QED BY <1>a, <1>d, <2>1 DEF Contents, Pushing
  <1>5. Ordered(h + 1, t)'
    <2>1. ASSUME NEW k \in t .. (h + 1) - 1, NEW l \in t .. (h + 1) - 1, k < l
          PROVE  Held(l)[1] >= Held(k)[1] + (l - k)
      <3>1. k \in t .. h - 1
        BY <1>c, <2>1
      <3>2. CASE l = h
        <4>1. Held(k)[1] + (h - 1 - k) + 1 <= indicated
          BY <1>a, <3>1 DEF Ring, Contents, Pushing
        <4> QED BY <1>c, <1>e, <1>f, <1>i, <3>1, <3>2, <4>1
      <3>3. CASE l \in t .. h - 1
        BY <2>1, <3>1, <3>3 DEF Ring, Ordered
      <3> QED BY <1>g, <3>2, <3>3
    <2> QED BY <1>d, <2>1 DEF Ordered
  <1>6. Copies(h + 1, t)'
    BY <1>a, <1>d DEF Ring, Copies
  <1>7. Accounted(h + 1, t, o)'
    BY <1>a, <1>c, <1>i DEF Ring, Accounted, Pushing, CanIfTypes
  <1> QED BY <1>1, <1>2, <1>3, <1>4, <1>5, <1>6, <1>7 DEF Ring
LEMMA PopBeginRings ==
  ASSUME NEW h \in Nat, NEW t \in Nat, NEW o \in Nat, Ring(h, t, o), PopBegin
  PROVE  Ring(h, t, o)'
  <1>1. CanIfTypes'
    BY CanIfAssumption DEF CanIfAssumption, Ring, CanIfTypes, Slots, PopBegin, OnlyConsumer,
       producerVars, senderVars
  <1>2. Counted'
    BY CanIfAssumption DEF CanIfAssumption, Ring, CanIfTypes, Counted, WireDone, PopBegin,
       OnlyConsumer, producerVars, senderVars
  <1>3. Counts(h, t, o)'
    BY CanIfAssumption DEF CanIfAssumption, Ring, CanIfTypes, Counts, PopBegin, OnlyConsumer,
       producerVars, senderVars
  <1>4. Contents(h, t, o)'
    BY CanIfAssumption DEF CanIfAssumption, Ring, CanIfTypes, Contents, Held, Pushing, PopBegin,
       OnlyConsumer, producerVars, senderVars
  <1>5. Ordered(h, t)'
    BY CanIfAssumption DEF CanIfAssumption, Ring, CanIfTypes, Ordered, Held, PopBegin,
       OnlyConsumer, producerVars, senderVars
  <1>6. Copies(h, t)'
    BY CanIfAssumption DEF CanIfAssumption, Ring, CanIfTypes, Copies, Held, PopBegin,
       OnlyConsumer, producerVars, senderVars
  <1>7. Accounted(h, t, o)'
    BY CanIfAssumption DEF CanIfAssumption, Ring, CanIfTypes, Accounted, Pushing, PopBegin,
       OnlyConsumer, producerVars, senderVars
  <1> QED BY <1>1, <1>2, <1>3, <1>4, <1>5, <1>6, <1>7 DEF Ring
LEMMA PopCopyRings ==
  ASSUME NEW h \in Nat, NEW t \in Nat, NEW o \in Nat, Ring(h, t, o), PopCopy
  PROVE  Ring(h, t, o)'
  <1>1. CanIfTypes'
    <2>1. SlotAt(qt) = t % RingCap /\ t % RingCap \in Slots
      BY SlotIs DEF PopCopy, Ring, Counts
    <2> QED BY <2>1 DEF PopCopy, OnlyConsumer, producerVars, Ring, CanIfTypes
  <1>2. Counted'
    BY CanIfAssumption DEF CanIfAssumption, Ring, CanIfTypes, Counted, WireDone, PopCopy,
       OnlyConsumer, producerVars, senderVars
  <1>3. Counts(h, t, o)'
    BY CanIfAssumption DEF CanIfAssumption, Ring, CanIfTypes, Counts, PopCopy, OnlyConsumer,
       producerVars, senderVars
  <1>4. Contents(h, t, o)'
    BY CanIfAssumption DEF CanIfAssumption, Ring, CanIfTypes, Contents, Held, Pushing, PopCopy,
       OnlyConsumer, producerVars, senderVars
  <1>5. Ordered(h, t)'
    BY CanIfAssumption DEF CanIfAssumption, Ring, CanIfTypes, Ordered, Held, PopCopy,
       OnlyConsumer, producerVars, senderVars
  <1>6. Copies(h, t)'
    <2>1. SlotAt(qt) = t % RingCap
      BY SlotIs DEF PopCopy, Ring, Counts
    <2> QED BY <2>1 DEF PopCopy, OnlyConsumer, producerVars, Ring, CanIfTypes, Copies, Held
  <1>7. Accounted(h, t, o)'
    BY CanIfAssumption DEF CanIfAssumption, Ring, CanIfTypes, Accounted, Pushing, PopCopy,
       OnlyConsumer, producerVars, senderVars
  <1> QED BY <1>1, <1>2, <1>3, <1>4, <1>5, <1>6, <1>7 DEF Ring
LEMMA PopFreeRings ==
  ASSUME NEW h \in Nat, NEW t \in Nat, NEW o \in Nat, Ring(h, t, o), PopFree
  PROVE  Ring(h, t + 1, o)'
  <1>a. /\ qpc = "free" /\ tail' = (qt + 1) % RingMod /\ qpc' = "idle" /\ given' = msg[1]
        /\ holes' = (IF msg[1] > given + 1 /\ msg[1] > before + 1 THEN holes + 1 ELSE holes)
        /\ UNCHANGED <<slot, head, msg, ppc, ph, indicated, rxLost, spilled, spc, inFlight,
                       sends, txPending, before>>
    BY DEF PopFree, OnlyConsumer, producerVars, senderVars
  <1>b. tail' = (t + 1) % RingMod
    BY <1>a, CanIfAssumption, ModStep DEF Ring, Counts, CanIfAssumption
  <1>c. t < h /\ h <= t + RingCap /\ o <= h /\ RingCap \in Nat /\ t \in t .. h - 1
    BY <1>a, CanIfAssumption DEF Ring, Counts, CanIfAssumption
  <1>d. \A k : Held(k)' = Held(k)
    BY <1>a DEF Held
  <1>e. given' = Held(t)[1]
    BY <1>a DEF Ring, Copies
  <1>f. \A k \in t .. h - 1 : Held(k)[1] \in Nat
    <2>1. ASSUME NEW k \in t .. h - 1 PROVE Held(k)[1] \in Nat
      <3>1. k \in Nat
        OBVIOUS
      <3> QED BY <3>1, SlotIs DEF Held, Ring, CanIfTypes
    <2> QED BY <2>1
  <1>g. \A k \in t + 1 .. h - 1 : k \in t .. h - 1 /\ k > t
    BY <1>c
  <1>i. /\ indicated \in Nat /\ before \in Nat /\ given \in Nat /\ spilled \in Nat /\ holes \in Nat
    BY DEF Ring, CanIfTypes
  <1>j. /\ /\ given' \in Nat /\ given' >= given + 1 /\ given' + (h - 1 - t) + Pushing <= indicated
        /\ (given' <= before <=> t < o)
    BY <1>c, <1>e, <1>f, <1>i DEF Ring, Contents
  <1>1. CanIfTypes'
    BY <1>a, <1>i, <1>j DEF Ring, CanIfTypes
  <1>2. Counted'
    BY <1>a DEF Ring, Counted, WireDone
  <1>3. Counts(h, t + 1, o)'
    BY <1>a, <1>b, <1>c DEF Ring, Counts
  <1>4. Contents(h, t + 1, o)'
    <2>1. ASSUME NEW k \in t + 1 .. h - 1
         PROVE  /\ Held(k)[1] = Held(k)[2] /\ Held(k)[1] >= given' + (k - (t + 1)) + 1
                /\ /\ Held(k)[1] + (h - 1 - k) + Pushing <= indicated
                   /\ (Held(k)[1] <= before <=> k < o)
      <3>1. k \in t .. h - 1 /\ t < k
        BY <1>g
      <3>2. Held(k)[1] >= Held(t)[1] + (k - t)
        BY <1>c, <3>1 DEF Ring, Ordered
      <3>3. Held(k)[1] >= given' + (k - (t + 1)) + 1
        BY <1>e, <1>f, <1>j, <3>1, <3>2
      <3> QED BY <3>1, <3>3 DEF Ring, Contents
    <2> QED BY <1>a, <1>d, <2>1 DEF Contents, Pushing
  <1>5. Ordered(h, t + 1)'
    BY <1>d, <1>g DEF Ring, Ordered
  <1>6. Copies(h, t + 1)'
    BY <1>a, <1>d DEF Ring, Copies
  <1>7. Accounted(h, t + 1, o)'
    <2>1. Pushing' = Pushing /\ Pushing \in {0, 1}
      BY <1>a DEF Pushing
    <2>2. indicated' = before' + spilled' + (h - o) + Pushing'
      BY <1>a, <2>1 DEF Ring, Accounted
    <2>3. given' + (h - (t + 1)) + Pushing' <= indicated'
      BY <1>a, <1>c, <1>i, <1>j, <2>1
    <2>4. msg[1] = given'
      BY <1>a
    <2>5. /\ holes' = (IF given' > given + 1 /\ given' > before + 1 THEN holes + 1 ELSE holes)
          /\ before' = before
      BY <1>a, <2>4
    <2>6. CASE t < o
      BY <1>c, <1>i, <1>j, <2>2, <2>3, <2>5, <2>6 DEF Ring, Accounted
    <2>7. CASE t = o
      BY <1>c, <1>i, <1>j, <2>2, <2>3, <2>5, <2>7 DEF Ring, Accounted
    <2>8. CASE t > o
      BY <1>c, <1>i, <1>j, <2>2, <2>3, <2>5, <2>8 DEF Ring, Accounted
    <2> QED BY <2>6, <2>7, <2>8
  <1> QED BY <1>1, <1>2, <1>3, <1>4, <1>5, <1>6, <1>7 DEF Ring
LEMMA SendCountsRings ==
  ASSUME NEW h \in Nat, NEW t \in Nat, NEW o \in Nat, Ring(h, t, o), SendCounts
  PROVE  Ring(h, t, o)'
  <1>1. CanIfTypes'
    BY CanIfAssumption DEF CanIfAssumption, Ring, CanIfTypes, Slots, SendCounts, OnlySender,
       ringVars, producerVars, consumerVars
  <1>2. Counted'
    BY CanIfAssumption DEF CanIfAssumption, Ring, CanIfTypes, Counted, WireDone, SendCounts,
       OnlySender, ringVars, producerVars, consumerVars
  <1>3. Counts(h, t, o)'
    BY CanIfAssumption DEF CanIfAssumption, Ring, CanIfTypes, Counts, SendCounts, OnlySender,
       ringVars, producerVars, consumerVars
  <1>4. Contents(h, t, o)'
    BY CanIfAssumption DEF CanIfAssumption, Ring, CanIfTypes, Contents, Held, Pushing, SendCounts,
       OnlySender, ringVars, producerVars, consumerVars
  <1>5. Ordered(h, t)'
    BY CanIfAssumption DEF CanIfAssumption, Ring, CanIfTypes, Ordered, Held, SendCounts,
       OnlySender, ringVars, producerVars, consumerVars
  <1>6. Copies(h, t)'
    BY CanIfAssumption DEF CanIfAssumption, Ring, CanIfTypes, Copies, Held, SendCounts,
       OnlySender, ringVars, producerVars, consumerVars
  <1>7. Accounted(h, t, o)'
    BY CanIfAssumption DEF CanIfAssumption, Ring, CanIfTypes, Accounted, Pushing, SendCounts,
       OnlySender, ringVars, producerVars, consumerVars
  <1> QED BY <1>1, <1>2, <1>3, <1>4, <1>5, <1>6, <1>7 DEF Ring
LEMMA TransmitRings ==
  ASSUME NEW h \in Nat, NEW t \in Nat, NEW o \in Nat, Ring(h, t, o), NEW takes \in BOOLEAN,
         Transmit(takes)
  PROVE  Ring(h, t, o)'
  <1>1. CanIfTypes'
    BY CanIfAssumption DEF CanIfAssumption, Ring, CanIfTypes, Slots, Transmit, OnlySender,
       ringVars, producerVars, consumerVars
  <1>2. Counted'
    BY CanIfAssumption DEF CanIfAssumption, Ring, CanIfTypes, Counted, WireDone, Transmit,
       OnlySender, ringVars, producerVars, consumerVars
  <1>3. Counts(h, t, o)'
    BY CanIfAssumption DEF CanIfAssumption, Ring, CanIfTypes, Counts, Transmit, OnlySender,
       ringVars, producerVars, consumerVars
  <1>4. Contents(h, t, o)'
    BY CanIfAssumption DEF CanIfAssumption, Ring, CanIfTypes, Contents, Held, Pushing, Transmit,
       OnlySender, ringVars, producerVars, consumerVars
  <1>5. Ordered(h, t)'
    BY CanIfAssumption DEF CanIfAssumption, Ring, CanIfTypes, Ordered, Held, Transmit, OnlySender,
       ringVars, producerVars, consumerVars
  <1>6. Copies(h, t)'
    BY CanIfAssumption DEF CanIfAssumption, Ring, CanIfTypes, Copies, Held, Transmit, OnlySender,
       ringVars, producerVars, consumerVars
  <1>7. Accounted(h, t, o)'
    BY CanIfAssumption DEF CanIfAssumption, Ring, CanIfTypes, Accounted, Pushing, Transmit,
       OnlySender, ringVars, producerVars, consumerVars
  <1> QED BY <1>1, <1>2, <1>3, <1>4, <1>5, <1>6, <1>7 DEF Ring
LEMMA SendUndoesRings ==
  ASSUME NEW h \in Nat, NEW t \in Nat, NEW o \in Nat, Ring(h, t, o), SendUndoes
  PROVE  Ring(h, t, o)'
  <1>1. CanIfTypes'
    BY CanIfAssumption DEF CanIfAssumption, Ring, CanIfTypes, Slots, SendUndoes, OnlySender,
       ringVars, producerVars, consumerVars
  <1>2. Counted'
    BY CanIfAssumption DEF CanIfAssumption, Ring, CanIfTypes, Counted, WireDone, SendUndoes,
       OnlySender, ringVars, producerVars, consumerVars
  <1>3. Counts(h, t, o)'
    BY CanIfAssumption DEF CanIfAssumption, Ring, CanIfTypes, Counts, SendUndoes, OnlySender,
       ringVars, producerVars, consumerVars
  <1>4. Contents(h, t, o)'
    BY CanIfAssumption DEF CanIfAssumption, Ring, CanIfTypes, Contents, Held, Pushing, SendUndoes,
       OnlySender, ringVars, producerVars, consumerVars
  <1>5. Ordered(h, t)'
    BY CanIfAssumption DEF CanIfAssumption, Ring, CanIfTypes, Ordered, Held, SendUndoes,
       OnlySender, ringVars, producerVars, consumerVars
  <1>6. Copies(h, t)'
    BY CanIfAssumption DEF CanIfAssumption, Ring, CanIfTypes, Copies, Held, SendUndoes,
       OnlySender, ringVars, producerVars, consumerVars
  <1>7. Accounted(h, t, o)'
    BY CanIfAssumption DEF CanIfAssumption, Ring, CanIfTypes, Accounted, Pushing, SendUndoes,
       OnlySender, ringVars, producerVars, consumerVars
  <1> QED BY <1>1, <1>2, <1>3, <1>4, <1>5, <1>6, <1>7 DEF Ring
LEMMA TxConfirmationRings ==
  ASSUME NEW h \in Nat, NEW t \in Nat, NEW o \in Nat, Ring(h, t, o), TxConfirmation
  PROVE  Ring(h, t, o)'
  <1>1. CanIfTypes'
    BY CanIfAssumption DEF CanIfAssumption, Ring, CanIfTypes, Slots, TxConfirmation, OnlySender,
       ringVars, producerVars, consumerVars
  <1>2. Counted'
    BY CanIfAssumption DEF CanIfAssumption, Ring, CanIfTypes, Counted, WireDone, TxConfirmation,
       OnlySender, ringVars, producerVars, consumerVars
  <1>3. Counts(h, t, o)'
    BY CanIfAssumption DEF CanIfAssumption, Ring, CanIfTypes, Counts, TxConfirmation, OnlySender,
       ringVars, producerVars, consumerVars
  <1>4. Contents(h, t, o)'
    BY CanIfAssumption DEF CanIfAssumption, Ring, CanIfTypes, Contents, Held, Pushing,
       TxConfirmation, OnlySender, ringVars, producerVars, consumerVars
  <1>5. Ordered(h, t)'
    BY CanIfAssumption DEF CanIfAssumption, Ring, CanIfTypes, Ordered, Held, TxConfirmation,
       OnlySender, ringVars, producerVars, consumerVars
  <1>6. Copies(h, t)'
    BY CanIfAssumption DEF CanIfAssumption, Ring, CanIfTypes, Copies, Held, TxConfirmation,
       OnlySender, ringVars, producerVars, consumerVars
  <1>7. Accounted(h, t, o)'
    BY CanIfAssumption DEF CanIfAssumption, Ring, CanIfTypes, Accounted, Pushing, TxConfirmation,
       OnlySender, ringVars, producerVars, consumerVars
  <1> QED BY <1>1, <1>2, <1>3, <1>4, <1>5, <1>6, <1>7 DEF Ring
LEMMA CanIfOpenRings ==
  ASSUME NEW h \in Nat, NEW t \in Nat, NEW o \in Nat, Ring(h, t, o), CanIfOpen
  PROVE  Ring(h, t, h)'
  <1>1. CanIfTypes'
    BY CanIfAssumption DEF CanIfAssumption, Ring, CanIfTypes, Slots, CanIfOpen, ringVars, senderVars
  <1>2. Counted'
    BY CanIfAssumption DEF CanIfAssumption, Ring, CanIfTypes, Counted, WireDone, CanIfOpen,
       ringVars, senderVars
  <1>3. Counts(h, t, h)'
    BY CanIfAssumption DEF CanIfAssumption, Ring, CanIfTypes, Counts, CanIfOpen, ringVars,
       senderVars
  <1>4. Contents(h, t, h)'
    <2>1. \A k \in t .. h - 1 : Held(k)[1] \in Nat
      <3>1. ASSUME NEW k \in t .. h - 1 PROVE Held(k)[1] \in Nat
        <4>1. k \in Nat
          OBVIOUS
        <4> QED BY <4>1, SlotIs DEF Held, Ring, CanIfTypes
      <3> QED BY <3>1
    <2> QED BY <2>1 DEF Ring, CanIfTypes, Contents, Pushing, Held, CanIfOpen, ringVars
  <1>5. Ordered(h, t)'
    BY CanIfAssumption DEF CanIfAssumption, Ring, CanIfTypes, Ordered, Held, CanIfOpen, ringVars,
       senderVars
  <1>6. Copies(h, t)'
    BY CanIfAssumption DEF CanIfAssumption, Ring, CanIfTypes, Copies, Held, CanIfOpen, ringVars,
       senderVars
  <1>7. Accounted(h, t, h)'
    <2>1. /\ /\ Pushing = 0 /\ Pushing' = 0 /\ before' = indicated /\ indicated' = indicated
          /\ spilled' = 0 /\ holes' = 0 /\ given' = given
          /\ indicated \in Nat /\ given \in Nat
      BY DEF CanIfOpen, Pushing, Ring, CanIfTypes
    <2>2. given + (h - t) <= indicated /\ t <= h
      BY <2>1 DEF Ring, Accounted, Counts
    <2> QED BY <2>1, <2>2 DEF Accounted
  <1> QED BY <1>1, <1>2, <1>3, <1>4, <1>5, <1>6, <1>7 DEF Ring
LEMMA CanIfCloseRings ==
  ASSUME NEW h \in Nat, NEW t \in Nat, NEW o \in Nat, Ring(h, t, o), CanIfClose
  PROVE  Ring(h, t, o)'
  <1>1. CanIfTypes'
    BY CanIfAssumption DEF CanIfAssumption, Ring, CanIfTypes, Slots, CanIfClose, ringVars,
       producerVars, consumerVars
  <1>2. Counted'
    BY CanIfAssumption DEF CanIfAssumption, Ring, CanIfTypes, Counted, WireDone, CanIfClose,
       ringVars, producerVars, consumerVars
  <1>3. Counts(h, t, o)'
    BY CanIfAssumption DEF CanIfAssumption, Ring, CanIfTypes, Counts, CanIfClose, ringVars,
       producerVars, consumerVars
  <1>4. Contents(h, t, o)'
    BY CanIfAssumption DEF CanIfAssumption, Ring, CanIfTypes, Contents, Held, Pushing, CanIfClose,
       ringVars, producerVars, consumerVars
  <1>5. Ordered(h, t)'
    BY CanIfAssumption DEF CanIfAssumption, Ring, CanIfTypes, Ordered, Held, CanIfClose, ringVars,
       producerVars, consumerVars
  <1>6. Copies(h, t)'
    BY CanIfAssumption DEF CanIfAssumption, Ring, CanIfTypes, Copies, Held, CanIfClose, ringVars,
       producerVars, consumerVars
  <1>7. Accounted(h, t, o)'
    BY CanIfAssumption DEF CanIfAssumption, Ring, CanIfTypes, Accounted, Pushing, CanIfClose,
       ringVars, producerVars, consumerVars
  <1> QED BY <1>1, <1>2, <1>3, <1>4, <1>5, <1>6, <1>7 DEF Ring
LEMMA CanIfSteps == ASSUME CanIfInv, CanIfNext PROVE CanIfInv'
  <1>1. PICK h \in Nat, t \in Nat, o \in Nat : Ring(h, t, o)
    BY DEF CanIfInv
  <1>2. Ring(h, t, o)' \/ Ring(h + 1, t, o)' \/ Ring(h, t + 1, o)' \/ Ring(h, t, h)'
    BY <1>1, IndicationRings, PushCopyRings, PushPublishRings, PopBeginRings, PopCopyRings,
       PopFreeRings, SendCountsRings,
       TransmitRings, SendUndoesRings, TxConfirmationRings, CanIfOpenRings, CanIfCloseRings
       DEF CanIfNext, Callbacks, Task
  <1>3. h + 1 \in Nat /\ t + 1 \in Nat
    OBVIOUS
  <1> QED BY <1>1, <1>2, <1>3 DEF CanIfInv

LEMMA CanIfStutters == ASSUME CanIfInv, UNCHANGED canIfVars PROVE CanIfInv'
  <1>1. PICK h \in Nat, t \in Nat, o \in Nat : Ring(h, t, o)
    BY DEF CanIfInv
  <1>2. Ring(h, t, o)'
    BY <1>1 DEF Ring, CanIfTypes, Counted, WireDone, Counts, Contents, Ordered, Copies, Accounted,
       Held, Pushing, Slots,
       canIfVars, ringVars, producerVars, consumerVars, senderVars
  <1> QED BY <1>2 DEF CanIfInv

LEMMA CanIfInvIsHonest == CanIfInv => CanIfHonest
  <1> SUFFICES ASSUME NEW h \in Nat, NEW t \in Nat, NEW o \in Nat, Ring(h, t, o) PROVE CanIfHonest
    BY DEF CanIfInv
  <1>1. WireDone
    BY DEF Ring, Counted
  <1>2. qpc = "free" => msg[1] = msg[2] /\ msg[1] > given
    <2> HAVE qpc = "free"
    <2>1. t \in t .. h - 1
      BY DEF Ring, Counts
    <2>2. msg[1] = Held(t)[1] /\ msg[2] = Held(t)[2] /\ msg[1] \in Nat
      BY DEF Ring, Copies, CanIfTypes
    <2>3. Held(t)[1] = Held(t)[2] /\ Held(t)[1] >= given + (t - t) + 1
      BY <2>1 DEF Ring, Contents
    <2> QED BY <2>2, <2>3 DEF Ring, CanIfTypes
  <1>3. holes <= rxLost /\ rxLost = spilled
    <2>1. Pushing \in {0, 1}
      BY DEF Pushing
    <2> QED BY <2>1 DEF Ring, CanIfTypes, Counts, Accounted
  <1> QED BY <1>1, <1>2, <1>3 DEF CanIfHonest, RingIntact

-------------------------------------------------------------------------------
(***************************************************************************)
(* The host's cells (OsalIoc).                                             *)
(***************************************************************************)
Buffers == 0 .. 2
Places == 0 .. 2
Carries(b, k) == \A p \in Places : p <= Length(k) => obuf[b][p] = Message(k)[p]

OsalTypes ==
    /\ variant \in {"seq", "triple", "double"}
    /\ obuf \in [Buffers -> [Places -> Nat]]
    /\ oword \in Nat /\ owb \in Buffers /\ orf \in Buffers /\ dirty \in BOOLEAN /\ consumed \in BOOLEAN
    /\ opc \in {"idle", "copy"} /\ oat \in Nat /\ owrites \in Nat /\ opub \in Nat
    /\ rdAt \in {"idle", "load", "swap", "copy", "done", "none"} /\ rdPlace \in Nat
    /\ seq0 \in Nat /\ copy \in [Places -> Nat]
    /\ call = "fresh" => variant = "triple"
    /\ ofloor \in Nat /\ flips \in Nat /\ overrun \in BOOLEAN /\ hadBefore \in Nat

\* The writer has filled its own buffer so far; nobody is ahead of what it published.
Filling ==
    /\ opc = "idle" => owrites = opub
    /\ opc = "copy" => owrites = opub + 1 /\ \A p \in Places : p < oat => obuf[Target][p] = Message(owrites)[p]
    /\ ofloor <= opub
    /\ variant # "double" => hadBefore <= opub
    /\ rdAt = "none" => variant = "seq" /\ ofloor = 0 /\ hadBefore = 0 /\ copy = Message(0)

\* The seqlock: its number is even when no writer is in the buffer, and never goes back.
SeqLock ==
    variant = "seq" =>
        /\ oword = 2 * opub + (IF opc = "copy" THEN 1 ELSE 0)
        /\ opc = "idle" => Carries(0, opub)
        /\ rdAt # "swap"
        /\ rdAt = "copy" => seq0 <= oword /\ seq0 % 2 = 0
        /\ rdAt \in {"idle", "load"} /\ oword = 0 => copy = Message(0)

\* The triple buffer: three indices, and the newest message in the middle or in front.
Triple(k) ==
    variant = "triple" =>
        /\ oword \in Buffers /\ owb # oword /\ owb # orf /\ oword # orf
        /\ Carries(orf, k)
        /\ dirty => k < opub /\ Carries(oword, opub)
        /\ ~dirty => k = opub
        /\ k >= hadBefore /\ (consumed <=> k > hadBefore)
        /\ rdAt \in {"idle", "load", "swap"} => ~consumed
        /\ rdAt = "swap" => dirty /\ rdPlace = 0

\* The double buffer: the newest message in the readable one; a reader is overrun once the
\* writer begins in the buffer that it reads.
Double ==
    variant = "double" =>
        /\ oword \in 0 .. 1 /\ Carries(oword, opub) /\ rdAt # "swap"
        /\ rdAt = "copy" =>
            /\ seq0 \in 0 .. 1
            /\ \/ overrun
               \/ flips = 0 /\ seq0 = oword
               \/ flips > 0 /\ opc = "idle" /\ seq0 = 1 - oword

\* What the call reads holds still, or the call will see that it did not.
HoldsStill ==
    /\ variant = "seq" => oword = seq0
    /\ variant = "double" => ~overrun
Begun(k) ==
    rdPlace > 0 => \A p \in Places : copy[p] = IF p < rdPlace THEN Message(k)[p] ELSE 0
NotBack(k) == k >= ofloor /\ (variant # "double" => k >= hadBefore)
Reading(k) ==
    /\ rdAt = "copy" /\ HoldsStill => Carries(Source, k) /\ NotBack(k) /\ Begun(k)
    /\ rdAt = "done" /\ ~(variant = "double" /\ overrun) => copy = Message(k) /\ NotBack(k)

OsalCore == OsalTypes /\ Filling /\ SeqLock /\ Double
OsalWith(k) == k <= opub /\ Triple(k) /\ Reading(k)
OsalInv == OsalCore /\ \E k \in Nat : OsalWith(k)

LEMMA MessageIs ==
  ASSUME NEW k \in Nat
  PROVE  /\ Message(k) \in [Places -> Nat]
         /\ Length(k) \in Nat /\ Length(k) \in Places /\ Message(k)[0] = Length(k)
         /\ \A p \in Places : p > Length(k) => Message(k)[p] = 0
         /\ Length(k) = 0 <=> k = 0
         /\ k # 0 => Message(k)[1] = k
  BY DEF Message, Length, Places

\* The empty message.
LEMMA EmptyIs ==
  /\ Message(0) \in [Places -> Nat] /\ Length(0) = 0
  /\ \A p \in Places : p > 0 => Message(0)[p] = 0
  <1>1. 0 \in Nat
    OBVIOUS
  <1>2. /\ Message(0) \in [Places -> Nat] /\ Length(0) = 0
        /\ \A p \in Places : p > Length(0) => Message(0)[p] = 0
    BY <1>1, MessageIs
  <1> QED BY <1>2

\* What the caller has of a whole copy is the message.
LEMMA GotIs ==
  ASSUME NEW k \in Nat, copy = Message(k), rdAt = "none" => k = 0
  PROVE  Got = k
  BY MessageIs DEF Got

LEMMA OsalStarts == OsalInit => OsalInv
  <1> SUFFICES ASSUME OsalInit PROVE OsalInv
    OBVIOUS
  <1>1. Message(0) \in [Places -> Nat] /\ Length(0) = 0
    BY MessageIs
  <1>a. obuf \in [Buffers -> [Places -> Nat]]
    BY <1>1 DEF OsalInit, Buffers
  <1>b. oword \in Nat /\ owb \in Buffers /\ orf \in Buffers
    BY DEF OsalInit, Buffers, Indices
  <1>2. OsalTypes
    BY <1>1, <1>a, <1>b DEF OsalInit, OsalTypes
  <1>3. Filling
    BY DEF OsalInit, Filling
  <1>4. \A b \in Buffers : Carries(b, 0)
    BY DEF OsalInit, Carries, Buffers
  <1>5. SeqLock
    BY <1>4 DEF OsalInit, SeqLock, Buffers
  <1>6. Double
    BY <1>4 DEF OsalInit, Double, Buffers
  <1>7. Triple(0)
    BY <1>4 DEF OsalInit, Triple, Buffers, Indices
  <1>8. Reading(0) /\ 0 <= opub
    BY DEF OsalInit, Reading
  <1> QED BY <1>2, <1>3, <1>5, <1>6, <1>7, <1>8 DEF OsalInv, OsalCore, OsalWith

LEMMA WriteBeginsOsal == ASSUME OsalInv, WriteBegins PROVE OsalInv'
  <1> USE DEF WriteBegins, osalRdVars
  <1>1. PICK k \in Nat : OsalWith(k)
    BY DEF OsalInv
  <1> USE <1>1 DEF OsalInv, OsalCore, OsalWith
  <1>2. OsalTypes'
    BY DEF OsalTypes
  <1>3. \A b, j : Carries(b, j)' <=> Carries(b, j)
    BY DEF Carries
  <1>4. Filling'
    <2>1. \A p \in Places : ~(p < 0)
      BY DEF Places
    <2> QED BY <2>1 DEF Filling, OsalTypes
  <1>5. SeqLock'
    BY DEF SeqLock, OsalTypes
  <1>6. Double'
    BY <1>3 DEF Double, OsalTypes
  <1>7. Triple(k)' /\ k <= opub'
    BY <1>3 DEF Triple
  <1>8. HoldsStill' /\ rdAt = "copy" => HoldsStill
    BY DEF HoldsStill, OsalTypes, SeqLock
  <1>9. Reading(k)'
    BY <1>3, <1>8 DEF Reading, NotBack, Begun, Source
  <1> QED BY <1>2, <1>4, <1>5, <1>6, <1>7, <1>9

\* A place of the writer's buffer: of no other.
LEMMA WriteCopiesOsal == ASSUME OsalInv, WriteCopies PROVE OsalInv'
  <1> USE DEF WriteCopies, osalRdVars
  <1>1. PICK k \in Nat : OsalWith(k)
    BY DEF OsalInv
  <1> USE <1>1 DEF OsalInv, OsalCore, OsalWith
  <1>a. opc = "copy" /\ oat \in Nat /\ owrites \in Nat /\ opub \in Nat
    BY DEF OsalTypes
  <1>b. Target \in Buffers /\ oat \in Places
    BY <1>a, MessageIs DEF OsalTypes, Target, Double, Triple, Buffers, Places
  <1>c. Message(owrites) \in [Places -> Nat] /\ Message(owrites)[oat] \in Nat
    BY <1>a, <1>b, MessageIs
  <1>d. obuf' \in [Buffers -> [Places -> Nat]]
    BY <1>b, <1>c DEF OsalTypes
  <1>e. obuf'[Target][oat] = Message(owrites)[oat]
    BY <1>b DEF OsalTypes
  <1>f. \A p \in Places : p # oat => obuf'[Target][p] = obuf[Target][p]
    BY <1>b DEF OsalTypes
  <1>g. \A b \in Buffers : b # Target => obuf'[b] = obuf[b]
    BY <1>b DEF OsalTypes
  <1>h. Target' = Target
    BY DEF Target
  <1>2. OsalTypes'
    BY <1>d DEF OsalTypes
  <1>3. \A b \in Buffers : \A j : b # Target => (Carries(b, j)' <=> Carries(b, j))
    BY <1>g DEF Carries
  <1>4. Filling'
    <2>1. ASSUME NEW p \in Places, p < oat' PROVE obuf'[Target][p] = Message(owrites)[p]
      <3>1. CASE p = oat
        BY <3>1, <1>e
      <3>2. CASE p # oat
        <4>1. p < oat
          BY <3>2, <2>1, <1>a DEF Places
        <4> QED BY <4>1, <3>2, <1>f, <1>a DEF Filling
      <3> QED BY <3>1, <3>2
    <2> QED BY <2>1, <1>h, <1>a DEF Filling
  <1>5. SeqLock'
    BY <1>a DEF SeqLock
  <1>6. Double'
    <2>1. CASE variant = "double"
      <3>1. oword \in Buffers /\ oword # Target
        BY <2>1 DEF Double, Target, Buffers
      <3> QED BY <3>1, <1>3, <2>1 DEF Double
    <2> QED BY <2>1 DEF Double
  <1>7. Triple(k)'
    <2>1. CASE variant = "triple"
      <3>1. oword \in Buffers /\ oword # Target /\ orf \in Buffers /\ orf # Target
        BY <2>1 DEF Triple, Target, OsalTypes
      <3> QED BY <3>1, <1>3, <2>1 DEF Triple
    <2> QED BY <2>1 DEF Triple
  <1>8. rdAt = "copy" /\ HoldsStill => Source \in Buffers /\ Source # Target
    <2> SUFFICES ASSUME rdAt = "copy", HoldsStill PROVE Source \in Buffers /\ Source # Target
      OBVIOUS
    <2>1. CASE variant = "seq"
      BY <2>1, <1>a DEF HoldsStill, SeqLock
    <2>2. CASE variant = "triple"
      BY <2>2 DEF Triple, Source, Target, OsalTypes
    <2>3. CASE variant = "double"
      <3>1. oword \in 0 .. 1 /\ seq0 = oword
        BY <2>3, <1>a DEF Double, HoldsStill
      <3>2. Source = seq0 /\ Target = 1 - oword
        BY <2>3 DEF Source, Target
      <3> QED BY <3>1, <3>2 DEF Buffers
    <2> QED BY <2>1, <2>2, <2>3 DEF OsalTypes
  <1>9. Reading(k)'
    <2>1. HoldsStill' <=> HoldsStill
      BY DEF HoldsStill
    <2>2. Source' = Source
      BY DEF Source
    <2>3. rdAt = "copy" /\ HoldsStill => (Carries(Source, k))'
      <3> SUFFICES ASSUME rdAt = "copy", HoldsStill PROVE (Carries(Source, k))'
        OBVIOUS
      <3>1. Carries(Source, k)
        BY DEF Reading
      <3>2. obuf'[Source] = obuf[Source]
        BY <1>8, <1>g
      <3> QED BY <3>1, <3>2, <2>2 DEF Carries
    <2> QED BY <2>1, <2>3 DEF Reading, NotBack, Begun
  <1> QED BY <1>2, <1>4, <1>5, <1>6, <1>7, <1>9

\* The writer's buffer says its message when it is published.
LEMMA OsalFilled ==
  ASSUME OsalCore, Publishes
  PROVE  Carries(Target, owrites) /\ owrites = opub + 1 /\ opub \in Nat
  <1>1. \A p \in Places : p <= Length(owrites) => p < oat
    BY MessageIs DEF Publishes, OsalCore, OsalTypes, Places
  <1> QED BY <1>1 DEF OsalCore, Filling, Publishes, OsalTypes, Carries

LEMMA PublishSeqOsal == ASSUME OsalInv, PublishSeq PROVE OsalInv'
  <1> USE DEF PublishSeq, osalRdVars
  <1>1. PICK k \in Nat : OsalWith(k)
    BY DEF OsalInv
  <1>a. Carries(Target, owrites) /\ owrites = opub + 1 /\ opub \in Nat
    BY OsalFilled DEF OsalInv
  <1> USE <1>1, <1>a DEF OsalInv, OsalCore, OsalWith, Publishes
  <1>2. OsalTypes'
    BY DEF OsalTypes
  <1>3. \A b, j : Carries(b, j)' <=> Carries(b, j)
    BY DEF Carries
  <1>4. Filling'
    BY DEF Filling, OsalTypes
  <1>5. SeqLock'
    BY <1>3 DEF SeqLock, OsalTypes, Target
  <1>6. Double' /\ Triple(k)' /\ k <= opub'
    BY DEF Double, Triple
  <1>8. rdAt = "copy" => ~HoldsStill'
    BY DEF HoldsStill, OsalTypes, SeqLock
  <1>9. Reading(k)'
    BY <1>8 DEF Reading, NotBack
  <1> QED BY <1>2, <1>4, <1>5, <1>6, <1>9

LEMMA PublishTripleOsal == ASSUME OsalInv, PublishTriple PROVE OsalInv'
  <1> USE DEF PublishTriple, osalRdVars
  <1>1. PICK k \in Nat : OsalWith(k)
    BY DEF OsalInv
  <1>a. Carries(Target, owrites) /\ owrites = opub + 1 /\ opub \in Nat
    BY OsalFilled DEF OsalInv
  <1> USE <1>1, <1>a DEF OsalInv, OsalCore, OsalWith, Publishes
  <1>b. oword \in Buffers /\ owb \in Buffers /\ orf \in Buffers /\ Target = owb
    BY DEF Triple, OsalTypes, Target
  <1>2. OsalTypes'
    BY <1>b DEF OsalTypes, Buffers
  <1>3. \A b, j : Carries(b, j)' <=> Carries(b, j)
    BY DEF Carries
  <1>4. Filling'
    BY DEF Filling, OsalTypes
  <1>5. SeqLock' /\ Double'
    BY DEF SeqLock, Double
  <1>7. Triple(k)'
    BY <1>b, <1>3 DEF Triple, OsalTypes
  <1>8. Reading(k)'
    BY <1>3 DEF Reading, NotBack, Begun, Source, HoldsStill
  <1> QED BY <1>2, <1>4, <1>5, <1>7, <1>8

LEMMA PublishDoubleOsal == ASSUME OsalInv, PublishDouble PROVE OsalInv'
  <1> USE DEF PublishDouble, osalRdVars
  <1>1. PICK k \in Nat : OsalWith(k)
    BY DEF OsalInv
  <1>a. Carries(Target, owrites) /\ owrites = opub + 1 /\ opub \in Nat
    BY OsalFilled DEF OsalInv
  <1> USE <1>1, <1>a DEF OsalInv, OsalCore, OsalWith, Publishes
  <1>b. oword \in 0 .. 1 /\ Target = 1 - oword
    BY DEF Double, Target
  <1>2. OsalTypes'
    BY <1>b DEF OsalTypes
  <1>3. \A b, j : Carries(b, j)' <=> Carries(b, j)
    BY DEF Carries
  <1>4. Filling'
    BY DEF Filling, OsalTypes
  <1>5. SeqLock' /\ Triple(k)' /\ k <= opub'
    BY DEF SeqLock, Triple
  <1>6. Double'
    BY <1>b, <1>3 DEF Double, OsalTypes
  <1>8. Reading(k)'
    BY <1>3 DEF Reading, NotBack, Begun, Source, HoldsStill
  <1> QED BY <1>2, <1>4, <1>5, <1>6, <1>8

LEMMA ReadBeginsOsal == ASSUME OsalInv, ReadBegins PROVE OsalInv'
  <1> USE DEF ReadBegins, osalWrVars
  <1>1. PICK k \in Nat : OsalWith(k)
    BY DEF OsalInv
  <1> USE <1>1 DEF OsalInv, OsalCore, OsalWith
  <1>2. OsalTypes'
    BY DEF OsalTypes, Calls
  <1>3. \A b, j : Carries(b, j)' <=> Carries(b, j)
    BY DEF Carries
  <1>4. Filling'
    BY DEF Filling, OsalTypes, Target
  <1>5. SeqLock' /\ Double'
    BY <1>3 DEF SeqLock, Double
  <1>6. Triple(k)'
    BY <1>3 DEF Triple
  <1>8. Reading(k)'
    BY DEF Reading
  <1> QED BY <1>2, <1>4, <1>5, <1>6, <1>8

LEMMA LoadSeqOsal == ASSUME OsalInv, LoadSeq PROVE OsalInv'
  <1> USE DEF LoadSeq, Loads, osalWrVars
  <1>1. PICK k \in Nat : OsalWith(k)
    BY DEF OsalInv
  <1> USE <1>1 DEF OsalInv, OsalCore, OsalWith
  <1>a. opub \in Nat /\ hadBefore \in Nat /\ ofloor \in Nat /\ oword \in Nat /\ opc \in {"idle", "copy"}
    BY DEF OsalTypes
  <1>b. opc = "idle" /\ oword = 2 * opub
    BY <1>a DEF SeqLock
  <1>c. oword = 0 => opub = 0
    BY <1>a, <1>b
  <1>2. OsalTypes'
    BY DEF OsalTypes
  <1>3. \A b, j : Carries(b, j)' <=> Carries(b, j)
    BY DEF Carries
  <1>4. Filling'
    BY <1>a, <1>b, <1>c DEF Filling, Target, SeqLock
  <1>5. SeqLock'
    BY <1>3, <1>a, <1>b DEF SeqLock
  <1>6. Double' /\ Triple(opub)'
    BY DEF Double, Triple
  <1>7. Carries(0, opub) /\ NotBack(opub)
    BY <1>b DEF SeqLock, NotBack, Filling
  <1>8. Reading(opub)'
    BY <1>3, <1>7, <1>a DEF Reading, Begun, Source, NotBack
  <1> QED BY <1>2, <1>4, <1>5, <1>6, <1>8, <1>a

LEMMA LoadSharedOsal == ASSUME OsalInv, LoadShared PROVE OsalInv'
  <1> USE DEF LoadShared, Loads, osalWrVars
  <1>1. PICK k \in Nat : OsalWith(k)
    BY DEF OsalInv
  <1> USE <1>1 DEF OsalInv, OsalCore, OsalWith
  <1>2. OsalTypes'
    BY DEF OsalTypes
  <1>3. \A b, j : Carries(b, j)' <=> Carries(b, j)
    BY DEF Carries
  <1>4. Filling'
    BY DEF Filling, Target
  <1>5. SeqLock' /\ Double'
    BY DEF SeqLock, Double
  <1>6. Triple(k)'
    BY <1>3 DEF Triple, OsalTypes
  <1>7. ~dirty => Carries(orf, k) /\ NotBack(k)
    BY DEF Triple, NotBack, Filling
  <1>8. Reading(k)'
    BY <1>3, <1>7 DEF Reading, Begun, Source, NotBack
  <1> QED BY <1>2, <1>4, <1>5, <1>6, <1>8

LEMMA LoadActiveOsal == ASSUME OsalInv, LoadActive PROVE OsalInv'
  <1> USE DEF LoadActive, Loads, osalWrVars
  <1>1. PICK k \in Nat : OsalWith(k)
    BY DEF OsalInv
  <1> USE <1>1 DEF OsalInv, OsalCore, OsalWith
  <1>a. opub \in Nat
    BY DEF OsalTypes
  <1>2. OsalTypes'
    BY DEF OsalTypes
  <1>3. \A b, j : Carries(b, j)' <=> Carries(b, j)
    BY DEF Carries
  <1>4. Filling'
    BY DEF Filling, Target
  <1>5. SeqLock' /\ Triple(opub)'
    BY DEF SeqLock, Triple
  <1>6. Double'
    BY <1>3 DEF Double
  <1>7. Carries(oword, opub) /\ NotBack(opub)
    BY DEF Double, NotBack, Filling
  <1>8. Reading(opub)'
    BY <1>3, <1>7 DEF Reading, Begun, Source, NotBack
  <1> QED BY <1>2, <1>4, <1>5, <1>6, <1>8, <1>a

\* The front buffer is the newest from here.
LEMMA SwapsOsal == ASSUME OsalInv, Swaps PROVE OsalInv'
  <1> USE DEF Swaps, osalWrVars
  <1>1. PICK k \in Nat : OsalWith(k)
    BY DEF OsalInv
  <1> USE <1>1 DEF OsalInv, OsalCore, OsalWith
  <1>a. opub \in Nat /\ hadBefore \in Nat /\ variant = "triple"
    BY DEF OsalTypes, SeqLock, Double
  <1>b. dirty /\ ~consumed /\ k = hadBefore /\ k < opub /\ Carries(oword, opub) /\ oword \in Buffers
    BY <1>a DEF Triple
  <1>c. oword \in Nat /\ orf \in Nat /\ orf \in Buffers
    BY DEF OsalTypes, Buffers
  <1>2. OsalTypes'
    BY <1>b, <1>c DEF OsalTypes
  <1>3. \A b, j : Carries(b, j)' <=> Carries(b, j)
    BY DEF Carries
  <1>4. Filling'
    BY <1>a DEF Filling, Target
  <1>5. SeqLock' /\ Double'
    BY <1>a DEF SeqLock, Double
  <1>6. Triple(opub)'
    BY <1>3, <1>a, <1>b DEF Triple, OsalTypes
  <1>7. NotBack(opub)
    BY DEF NotBack, Filling
  <1>8. Begun(opub)'
    BY <1>a DEF Begun, Triple
  <1>9. Reading(opub)'
    BY <1>3, <1>7, <1>8, <1>a, <1>b DEF Reading, Source, NotBack
  <1> QED BY <1>2, <1>4, <1>5, <1>6, <1>9, <1>a

LEMMA ReadCopiesOsal == ASSUME OsalInv, ReadCopies PROVE OsalInv'
  <1> USE DEF ReadCopies, osalWrVars
  <1>1. PICK k \in Nat : OsalWith(k)
    BY DEF OsalInv
  <1> USE <1>1 DEF OsalInv, OsalCore, OsalWith
  <1>a. rdPlace \in Nat /\ copy \in [Places -> Nat] /\ obuf \in [Buffers -> [Places -> Nat]]
    BY DEF OsalTypes
  <1>b. Source \in Buffers
    BY DEF OsalTypes, Double, Source, Buffers
  <1>c. copy' \in [Places -> Nat]
    <2>1. CASE rdPlace = 0
      <3>1. obuf[Source][0] \in Nat
        BY <1>a, <1>b DEF Places
      <3> QED BY <2>1, <3>1, MessageIs
    <2>2. CASE rdPlace # 0
      <3>1. rdPlace \in Places => obuf[Source][rdPlace] \in Nat
        BY <1>a, <1>b
      <3> QED BY <2>2, <3>1, <1>a
    <2> QED BY <2>1, <2>2
  <1>2. OsalTypes'
    BY <1>c, <1>a DEF OsalTypes
  <1>3. \A b, j : Carries(b, j)' <=> Carries(b, j)
    BY DEF Carries
  <1>4. Filling'
    BY DEF Filling, Target
  <1>5. SeqLock' /\ Double'
    BY <1>3 DEF SeqLock, Double
  <1>6. Triple(k)'
    BY <1>3 DEF Triple
  <1>7. HoldsStill' <=> HoldsStill
    BY DEF HoldsStill
  <1>8. HoldsStill => Begun(k)'
    <2> SUFFICES ASSUME HoldsStill PROVE Begun(k)'
      OBVIOUS
    <2>1. Carries(Source, k) /\ Begun(k)
      BY DEF Reading
    <2>2. /\ Message(k) \in [Places -> Nat] /\ Message(0) \in [Places -> Nat] /\ Length(0) = 0
          /\ Length(k) \in Places /\ Message(k)[0] = Length(k)
          /\ \A p \in Places : p > 0 => Message(0)[p] = 0
      <3>1. Message(k) \in [Places -> Nat] /\ Length(k) \in Places /\ Message(k)[0] = Length(k)
        BY MessageIs
      <3> QED BY <3>1, EmptyIs
    <2>3. CASE rdPlace = 0
      <3>1. copy' = [Message(0) EXCEPT ![0] = obuf[Source][0]]
        BY <2>3
      <3>2. obuf[Source][0] = Message(k)[0]
        BY <2>1, <2>2 DEF Carries, Places
      <3>3. \A p \in Places : copy'[p] = IF p = 0 THEN Message(k)[0] ELSE 0
        BY <3>1, <3>2, <2>2 DEF Places
      <3> QED BY <3>3, <2>3 DEF Begun, Places
    <2>4. CASE rdPlace # 0
      <3>1. copy' = [copy EXCEPT ![rdPlace] = obuf[Source][rdPlace]]
        BY <2>4
      <3>2. \A p \in Places : copy[p] = IF p < rdPlace THEN Message(k)[p] ELSE 0
        BY <2>1, <2>4, <1>a DEF Begun
      <3>3. copy[0] = Length(k)
        BY <3>2, <2>2, <2>4, <1>a DEF Places
      <3>4. rdPlace \in Places /\ rdPlace <= Length(k)
        BY <3>3, <2>2, <2>4, <1>a DEF Places
      <3>5. obuf[Source][rdPlace] = Message(k)[rdPlace]
        BY <3>4, <2>1 DEF Carries
      <3>6. copy'[rdPlace] = Message(k)[rdPlace]
        BY <3>1, <3>4, <3>5, <1>a
      <3>7. \A p \in Places : p # rdPlace => copy'[p] = copy[p]
        BY <3>1, <1>a
      <3>8. \A p \in Places : copy'[p] = IF p < rdPlace + 1 THEN Message(k)[p] ELSE 0
        BY <3>2, <3>4, <3>6, <3>7 DEF Places
      <3> QED BY <3>8 DEF Begun
    <2> QED BY <2>3, <2>4
  <1>9. Source' = Source
    BY DEF Source
  <1>10. HoldsStill => (Carries(Source, k))'
    BY <1>9 DEF Reading, Carries
  <1>11. NotBack(k)' <=> NotBack(k)
    BY DEF NotBack
  <1>12. Reading(k)'
    BY <1>7, <1>8, <1>10, <1>11 DEF Reading
  <1> QED BY <1>2, <1>4, <1>5, <1>6, <1>12

LEMMA ReadEndsOsal == ASSUME OsalInv, ReadEnds PROVE OsalInv'
  <1> USE DEF ReadEnds, Copied, osalWrVars
  <1>1. PICK k \in Nat : OsalWith(k)
    BY DEF OsalInv
  <1> USE <1>1 DEF OsalInv, OsalCore, OsalWith
  <1>a. rdPlace \in Nat /\ copy \in [Places -> Nat] /\ oword \in Nat /\ seq0 \in Nat
    BY DEF OsalTypes
  <1>b. variant # "seq" => Stable
    BY DEF Stable
  <1>2. OsalTypes'
    BY DEF OsalTypes
  <1>3. \A b, j : Carries(b, j)' <=> Carries(b, j)
    BY DEF Carries
  <1>4. Filling'
    BY DEF Filling, Target
  <1>5. SeqLock'
    BY <1>3, <1>a DEF SeqLock, Stable
  <1>6. Double'
    BY <1>3, <1>b DEF Double
  <1>7. Triple(k)'
    BY <1>3, <1>b DEF Triple
  <1>8. Stable /\ ~(variant = "double" /\ overrun) => HoldsStill
    BY DEF Stable, HoldsStill
  <1>9. HoldsStill => copy = Message(k) /\ NotBack(k)
    <2> SUFFICES ASSUME HoldsStill PROVE copy = Message(k) /\ NotBack(k)
      OBVIOUS
    <2>1. Begun(k) /\ NotBack(k)
      BY DEF Reading
    <2>2. /\ Message(k) \in [Places -> Nat] /\ Length(k) \in Places /\ Message(k)[0] = Length(k)
          /\ \A p \in Places : p > Length(k) => Message(k)[p] = 0
      BY MessageIs
    <2>3. \A p \in Places : copy[p] = IF p < rdPlace THEN Message(k)[p] ELSE 0
      BY <2>1, <1>a DEF Begun
    <2>4. copy[0] = Length(k)
      BY <2>3, <2>2, <1>a DEF Places
    <2>5. \A p \in Places : copy[p] = Message(k)[p]
      BY <2>2, <2>3, <2>4, <1>a DEF Places
    <2> QED BY <2>1, <2>2, <2>5, <1>a
  <1>10. Reading(k)'
    BY <1>8, <1>9 DEF Reading, NotBack
  <1> QED BY <1>2, <1>4, <1>5, <1>6, <1>7, <1>10

LEMMA ReadReturnsOsal == ASSUME OsalInv, ReadReturns PROVE OsalInv'
  <1> USE DEF ReadReturns, osalWrVars
  <1>1. PICK k \in Nat : OsalWith(k)
    BY DEF OsalInv
  <1> USE <1>1 DEF OsalInv, OsalCore, OsalWith
  <1>a. /\ copy \in [Places -> Nat] /\ Message(0) \in [Places -> Nat] /\ opub \in Nat /\ hadBefore \in Nat
        /\ ofloor \in Nat
    BY MessageIs DEF OsalTypes
  <1>b. Got \in Nat
    BY <1>a DEF Got, Places
  <1>c. rdAt = "none" => Got = 0
    BY DEF Got
  <1>d. rdAt = "done" /\ variant # "double" => Got = k
    BY GotIs DEF Reading
  <1>2. OsalTypes'
    BY <1>a, <1>b DEF OsalTypes
  <1>3. \A b, j : Carries(b, j)' <=> Carries(b, j)
    BY DEF Carries
  <1>4. Got <= opub \/ variant = "double"
    <2>1. CASE rdAt = "none"
      BY <2>1, <1>c, <1>a
    <2>2. CASE rdAt = "done" /\ variant # "double"
      BY <2>2, <1>d
    <2> QED BY <2>1, <2>2
  <1>5. Filling'
    BY <1>4 DEF Filling, Target
  <1>6. SeqLock' /\ Double'
    BY <1>3 DEF SeqLock, Double
  <1>7. Triple(k)'
    BY <1>3, <1>d, <1>a DEF Triple, Filling
  <1>8. Reading(k)'
    BY DEF Reading
  <1> QED BY <1>2, <1>5, <1>6, <1>7, <1>8

LEMMA OsalSteps == ASSUME OsalInv, OsalNext PROVE OsalInv'
  BY WriteBeginsOsal, WriteCopiesOsal, PublishSeqOsal, PublishTripleOsal, PublishDoubleOsal, ReadBeginsOsal,
     LoadSeqOsal, LoadSharedOsal, LoadActiveOsal, SwapsOsal, ReadCopiesOsal, ReadEndsOsal, ReadReturnsOsal
  DEF OsalNext

LEMMA OsalStutters == ASSUME OsalInv, UNCHANGED osalVars PROVE OsalInv'
  <1>1. PICK k \in Nat : OsalWith(k)
    BY DEF OsalInv
  <1> USE DEF osalVars, osalWrVars, osalRdVars
  <1>2. OsalCore'
    BY DEF OsalInv, OsalCore, OsalTypes, Filling, SeqLock, Double, Carries, Target
  <1>3. OsalWith(k)'
    BY <1>1 DEF OsalWith, Triple, Reading, HoldsStill, NotBack, Begun, Source, Carries
  <1> QED BY <1>2, <1>3 DEF OsalInv

LEMMA OsalInvIsHonest == OsalInv => OsalHonest
  <1> SUFFICES ASSUME OsalInv PROVE OsalHonest
    OBVIOUS
  <1>1. PICK k \in Nat : OsalWith(k)
    BY DEF OsalInv
  <1> USE <1>1 DEF OsalInv, OsalCore, OsalWith
  <1> DEFINE Missed == variant = "double" /\ overrun
  <1>2. ASSUME rdAt = "none" PROVE copy = Message(Got) /\ Got = 0 /\ ofloor = 0 /\ hadBefore = 0 /\ variant = "seq"
    BY <1>2 DEF Got, Filling
  <1>3. ASSUME rdAt = "done", ~Missed PROVE copy = Message(k) /\ Got = k /\ NotBack(k)
    BY <1>3, GotIs DEF Reading
  <1>4. CellWhole
    BY <1>2, <1>3 DEF CellWhole, Returned
  <1>5. CellLatest
    BY <1>2, <1>3 DEF CellLatest, Returned, NotBack
  <1>6. FreshOnce
    BY <1>2, <1>3 DEF FreshOnce, Returned, Triple, OsalTypes
  <1> QED BY <1>4, <1>5, <1>6 DEF OsalHonest

-------------------------------------------------------------------------------
(***************************************************************************)
(* The IO driver (Io).                                                     *)
(***************************************************************************)
Declared(i) == ioAt # "declare" \/ i < idx
Known(i) == Declared(i) /\ Accepts(plan[i])
GpioOut(i) == plan[i].kind = "gpio" /\ plan[i].out /\ Accepts(plan[i])
PwmPoint(i) == plan[i].kind = "pwm" /\ Accepts(plan[i])
PwmOk(i) == /\ PwmPoint(i) /\ plan[i].pad \in DOMAIN TimerOf
            /\ Total(plan[i].freq) >= 2 /\ Achieves(Carrier(plan[i].freq), plan[i].freq)
PlanTim(i) == TimerOf[plan[i].pad]
Wave(i) == Carrier(plan[i].freq)
InitOf(d) == CASE d.kind = "pwm" -> Least(d.init, 1000) [] d.kind = "adc" -> 0
               [] OTHER -> Xor(d.init, d.al)

\* The point that chooses its timer's carrier, in every start of this image.
Leads(l, t) == /\ l \in Channels /\ PwmOk(l) /\ PlanTim(l)[1] = t
               /\ \A k \in Channels : k < l /\ PwmOk(k) => PlanTim(k)[1] # t

IoPlan ==
    /\ plan \in Seq(Declarable) /\ Len(plan) <= MaxPoints
    /\ \A i, j \in Channels : i # j => plan[i].pad # plan[j].pad

IoPlaces ==
    /\ ioAt \in {"declare", "level", "mux", "pwm", "af", "adc", "scan", "run", "halt", "close"}
    /\ idx \in 1 .. Len(plan) + 1
    /\ ioAt \in {"mux", "af"} \/ (ioAt = "level" /\ plan # <<>>) => idx \in Channels
    /\ ioAt = "af" => PwmOk(idx)

\* What is configured is what was declared and accepted, and a rejected output is a fault.
IoPoints ==
    /\ points = [i \in Channels |-> points[i]]
    /\ \A i \in Channels :
        IF Known(i)
        THEN /\ points[i].configured = TRUE /\ points[i].pad = plan[i].pad
             /\ points[i].kind = plan[i].kind /\ points[i].out = plan[i].out
             /\ points[i].al = plan[i].al /\ points[i].freq = plan[i].freq
             /\ points[i].init = InitOf(plan[i])
        ELSE points[i] = Unset
    /\ \A i \in Channels : Declared(i) /\ ~ Accepts(plan[i]) /\ plan[i].out => outFault

\* The scan's slots are the converter points', one each.
AdcPoint(i) == Known(i) /\ plan[i].kind = "adc"
IoSlots ==
    /\ adcN \in Nat /\ adcN <= Len(plan) /\ (ioAt = "declare" => adcN <= idx - 1)
    /\ \A i \in Channels : AdcPoint(i) => points[i].slot \in 0 .. adcN - 1
    /\ \A i, j \in Channels : AdcPoint(i) /\ AdcPoint(j) /\ points[i].slot = points[j].slot => i = j
    /\ \A r \in 0 .. adcN - 1 : \E i \in Channels : AdcPoint(i) /\ points[i].slot = r

\* A slot that was converted since the start holds its own point's sample.
Sampled(s) == tcif \/ s < rank
IoScan ==
    /\ conv \in {"off", "scanning", "stopping"}
    /\ conv = "scanning" => ioAt \in {"scan", "run", "halt"} /\ adcN > 0 /\ rank \in 0 .. adcN - 1
    /\ conv = "stopping" => ioAt = "close"
    /\ ioAt = "adc" => adcN > 0
    /\ conv = "off" /\ ioAt # "close" => ~ tcif
    /\ firstReady => tcif
    /\ dmaArr = [s \in 0 .. MaxPoints - 1 |-> dmaArr[s]]
    /\ conv = "scanning" =>
        \A i \in Channels : AdcPoint(i) /\ Sampled(points[i].slot) =>
            dmaArr[points[i].slot] = <<starts, AdcChannel[plan[i].pad]>>
    /\ fabricated = FALSE

\* A pad drives only what was accepted, and shows it.
IoPads ==
    /\ mode = [p \in Pads |-> mode[p]] /\ odr = [p \in Pads |-> odr[p]]
    /\ setTo = [i \in Channels |-> setTo[i]]
    /\ \A i \in Channels : plan[i].out /\ mode[plan[i].pad] = "out" => GpioOut(i)
    /\ \A i \in Channels : plan[i].out /\ mode[plan[i].pad] = "af" => PwmOk(i)
    /\ OutputsHold
    /\ \A i \in Channels : ioAt = "mux" /\ i = idx /\ GpioOut(i) => odr[plan[i].pad] = Xor(setTo[i], plan[i].al)

\* What was passed is driven, or a fault that will halt the node.
Muxed(i) == ioAt \in {"pwm", "af", "adc", "scan", "run", "halt"} \/ (ioAt \in {"level", "mux"} /\ i < idx)
Waved(i) == ioAt \in {"adc", "scan", "run", "halt"} \/ (ioAt \in {"pwm", "af"} /\ i < idx)
IoReach ==
    /\ \A i \in Channels : GpioOut(i) /\ Muxed(i) => mode[plan[i].pad] = "out"
    /\ \A i \in Channels : PwmPoint(i) /\ Waved(i) => pwmFault \/ mode[plan[i].pad] = "af"
    /\ ioAt \in {"adc", "scan", "run", "halt"} => (pwmFault => outFault)
    /\ ioAt = "run" => ~ outFault

\* A timer's entries have its carrier, the one its leading point wants, and a first.
Tuned(i) == \E l \in Channels : Leads(l, PlanTim(i)[1]) /\ Wave(l) = Wave(i)
Wanted(i) == ioAt \in {"pwm", "af"} /\ (i < idx \/ (ioAt = "af" /\ i = idx))
TimEntries == [tim : Timers, chan : 1 .. 2, carrier : {Wave(i) : i \in Channels}]
IoTimers ==
    /\ timSeen \in Seq(TimEntries)
    /\ carrier = [t \in Timers |-> carrier[t]] /\ ccr = [tc \in Timers \X (1 .. 2) |-> ccr[tc]]
    /\ \A k \in DOMAIN timSeen : timSeen[k].carrier = carrier[timSeen[k].tim]
    /\ \A t \in Timers : EntriesOf(t) # {} => \E k \in EntriesOf(t) : \A j \in EntriesOf(t) : k <= j
    /\ \A t \in Timers : EntriesOf(t) # {} => \E l \in Channels : Leads(l, t) /\ carrier[t] = Wave(l)
    /\ \A i \in Channels : Wanted(i) /\ PwmOk(i) => EntriesOf(PlanTim(i)[1]) # {}

\* A driven channel has its point's carrier and, when it is nobody else's, its duty.
IoDuties ==
    /\ pwmArr = [i \in Channels |-> pwmArr[i]]
    /\ \A i \in Channels : pwmArr[i] # 0 => pwmArr[i] = Wave(i)[2]
    /\ \A i \in Channels : Driven(i) => PwmOk(i) /\ carrier[PlanTim(i)[1]] = Wave(i) /\ Tuned(i)
    /\ OwnDutiesKept

IoInv == IoPlan /\ IoPlaces /\ IoPoints /\ IoSlots /\ IoScan /\ IoPads /\ IoReach /\ IoTimers /\ IoDuties

\* The points an image may declare.
LEMMA DeclarableIs ==
  ASSUME NEW d \in Declarable
  PROVE  /\ d.kind \in {"gpio", "adc", "pwm"} /\ d.out \in BOOLEAN /\ d.pad \in Pads
         /\ d.kind = "adc" => ~ d.out
         /\ d.kind = "pwm" => d.out
  <1>1. d \in GpioPoints \/ d \in AdcPoints \/ d \in PwmPoints
    BY DEF Declarable
  <1>2. {"pb0", "pa13", "pc13", "pa3", "pc0", "pb14", "pe9", "pe11", "pa8", "pb7"} \subseteq Pads
    BY DEF Pads, AdcChannel, TimerOf, Reserved
  <1>3. \A p, o, v, a : Gpio(p, o, v, a).kind = "gpio" /\ Gpio(p, o, v, a).out = o /\ Gpio(p, o, v, a).pad = p
    BY DEF Gpio
  <1>4. \A p : Adc(p).kind = "adc" /\ Adc(p).out = FALSE /\ Adc(p).pad = p
    BY DEF Adc
  <1>5. \A p, v, f : Pwm(p, v, f).kind = "pwm" /\ Pwm(p, v, f).out = TRUE /\ Pwm(p, v, f).pad = p
    BY DEF Pwm
  <1>a. CASE d \in GpioPoints
    <2>1. d = Gpio("pb0", TRUE, 1, 0) \/ d = Gpio("pb0", TRUE, 1, 1) \/ d = Gpio("pa13", TRUE, 1, 0)
            \/ d = Gpio("pc13", FALSE, 0, 1)
      BY <1>a, Zenon DEF GpioPoints
    <2>2. PICK p, o, v, a : d = Gpio(p, o, v, a) /\ p \in {"pb0", "pa13", "pc13"} /\ o \in BOOLEAN
      BY <2>1, Zenon
    <2>3. Gpio(p, o, v, a).kind = "gpio" /\ Gpio(p, o, v, a).out = o /\ Gpio(p, o, v, a).pad = p
      BY <1>3
    <2>4. d.kind = "gpio" /\ d.pad \in Pads
      BY <1>2, <2>2, <2>3
    <2>5. d.out \in BOOLEAN
      BY <2>2, <2>3, Zenon
    <2> QED BY <2>4, <2>5
  <1>b. CASE d \in AdcPoints
    <2>1. d.kind = "adc" /\ d.pad \in {"pa3", "pc0", "pb14"}
      BY <1>4, <1>b DEF AdcPoints
    <2>2. d.out = FALSE
      BY <1>4, <1>b DEF AdcPoints
    <2> QED BY <1>2, <2>1, <2>2
  <1>c. CASE d \in PwmPoints
    <2>1. d.kind = "pwm" /\ d.pad \in {"pe9", "pe11", "pa8", "pb7", "pb14"}
      BY <1>5, <1>c, SMT DEF PwmPoints
    <2>2. d.out = TRUE
      BY <1>5, <1>c, SMT DEF PwmPoints
    <2> QED BY <1>2, <2>1, <2>2
  <1> QED BY <1>1, <1>a, <1>b, <1>c

\* What the board's map of PWM pads gives.
LEMMA TimerOfIs ==
  ASSUME NEW p \in DOMAIN TimerOf
  PROVE  TimerOf[p] \in Timers \X (1 .. 2) /\ TimerOf[p][1] \in Timers /\ TimerOf[p][2] \in 1 .. 2
  BY DEF TimerOf, Timers

\* What a declaration of the image is, of each kind of point.
LEMMA PlanIs ==
  ASSUME IoPlan
  PROVE  /\ Channels = 1 .. Len(plan) /\ Len(plan) \in Nat
         /\ (plan = <<>> <=> Len(plan) = 0)
         /\ \A i \in Channels :
            /\ plan[i].kind \in {"gpio", "adc", "pwm"} /\ plan[i].out \in BOOLEAN /\ plan[i].pad \in Pads
            /\ plan[i].kind = "adc" => ~ plan[i].out
            /\ plan[i].kind = "pwm" => plan[i].out
  <1>1. Channels = 1 .. Len(plan) /\ Len(plan) \in Nat /\ (plan = <<>> <=> Len(plan) = 0)
    BY DEF IoPlan, Channels
  <1>2. \A i \in Channels : plan[i] \in Declarable
    BY DEF IoPlan, Channels
  <1> QED BY <1>1, <1>2, DeclarableIs

\* What is configured, of a kind.
LEMMA ConfiguredIs ==
  ASSUME IoPlan, IoPoints
  PROVE  /\ \A i \in Channels, k \in {"gpio", "adc", "pwm"} :
            i \in Configured(k) <=> Known(i) /\ plan[i].kind = k
         /\ \A i \in Channels : Known(i) =>
            /\ points[i].pad = plan[i].pad /\ points[i].out = plan[i].out
            /\ points[i].al = plan[i].al /\ points[i].freq = plan[i].freq
            /\ points[i].init = InitOf(plan[i])
  BY DEF IoPoints, Configured, Unset

\* After a reset every pad is analog and nothing is declared.
LEMMA IoStarts == IoInit => IoInv
  <1> SUFFICES ASSUME IoInit PROVE IoInv
    OBVIOUS
  <1>1. plan \in Seq(Declarable) /\ Len(plan) <= MaxPoints /\ DOMAIN plan = 1 .. Len(plan) /\ Len(plan) \in Nat
    <2>1. PICK m \in 0 .. MaxPoints : plan \in [1 .. m -> Declarable]
      BY DEF IoInit, PlansOf, BoundedSeq, SeqOf
    <2>2. m \in Nat /\ plan \in Seq(Declarable)
      BY <2>1, IoAssumption DEF IoAssumption
    <2> QED BY <2>1, <2>2, IoAssumption DEF IoAssumption
  <1>2. IoPlan
    BY <1>1 DEF IoPlan, IoInit, PlansOf, Channels
  <1>p. ioAt = "declare" /\ idx = 1 /\ Channels = 1 .. Len(plan)
    BY <1>1 DEF IoInit, Channels
  <1>d. \A i \in Channels : ~ Declared(i)
    BY <1>p, <1>1 DEF Declared
  <1>3. IoPlaces
    <2>1. idx \in 1 .. Len(plan) + 1
      BY <1>1, <1>p
    <2>2. ioAt \in {"declare", "level", "mux", "pwm", "af", "adc", "scan", "run", "halt", "close"}
      BY <1>p
    <2>3. ioAt # "level" /\ ioAt # "mux" /\ ioAt # "af"
      BY <1>p
    <2>4. ioAt \in {"mux", "af"} \/ (ioAt = "level" /\ plan # <<>>) => idx \in Channels
      BY <2>3
    <2> QED BY <2>1, <2>2, <2>3, <2>4 DEF IoPlaces
  <1>4. IoPoints
    BY <1>d DEF IoPoints, IoInit, Known
  <1>5. IoSlots
    BY <1>d, <1>1, <1>p DEF IoSlots, IoInit, Known, AdcPoint
  <1>6. IoScan
    BY DEF IoScan, IoInit
  <1>m. mode = [p \in Pads |-> "analog"] /\ \A i \in Channels : plan[i].pad \in Pads /\ mode[plan[i].pad] = "analog"
    BY <1>2, PlanIs DEF IoInit
  <1>7. IoPads
    BY <1>m, <1>p DEF IoPads, IoInit, OutputsHold, Live
  <1>8. IoReach
    BY <1>p DEF IoReach, Muxed, Waved
  <1>9. IoTimers
    <2>1. timSeen = <<>> /\ timSeen \in Seq(TimEntries) /\ DOMAIN timSeen = {} /\ \A t : EntriesOf(t) = {}
      BY DEF IoInit, EntriesOf
    <2> QED BY <2>1, <1>p DEF IoTimers, IoInit, Wanted
  <1>10. IoDuties
    <2>1. \A i \in Channels : ~ Driven(i)
      BY <1>m, <1>p DEF Driven
    <2> QED BY <2>1 DEF IoDuties, IoInit, OwnDutiesKept
  <1> QED BY <1>2, <1>3, <1>4, <1>5, <1>6, <1>7, <1>8, <1>9, <1>10 DEF IoInv

PadSteps == Start \/ SetLevel \/ SetMode \/ NoPoints
WaveSteps == PwmRejected \/ PwmProgrammed \/ PwmMuxed \/ NotPwm \/ PadsDone
ScanSteps == AdcSilent \/ AdcStarts \/ ScanAwaited \/ Convert \/ StreamStops
IoCalls ==
    \/ \E i \in Channels : AdcReadChecked(i)
    \/ \E i \in Channels, v \in 0 .. 1 : GpioWrite(i, v)
    \/ \E i \in Channels, v \in {0, 250} : PwmWrite(i, v)
    \/ CloseStops

\* The steps, in the groups the proofs treat alike.
LEMMA IoNextIs == IoNext <=> Declare \/ PadSteps \/ WaveSteps \/ ScanSteps \/ IoCalls \/ CloseForgets
  BY DEF IoNext, PadSteps, WaveSteps, ScanSteps, IoCalls

\* An image's declarations are what they are.
LEMMA PlanStays ==
  ASSUME IoNext
  PROVE  plan' = plan /\ Channels' = Channels
  <1>1. CASE Declare
    BY <1>1 DEF Declare, bootVars, padVars, timVars, adcVars, ioHistVars, Channels
  <1>2. CASE PadSteps
    BY <1>2 DEF PadSteps, Start, SetLevel, SetMode, NoPoints, bootVars, padVars, timVars,
       adcVars, ioHistVars, Channels
  <1>3. CASE WaveSteps
    BY <1>3 DEF WaveSteps, PwmRejected, PwmProgrammed, PwmMuxed, NotPwm, NextPwm, PadsDone,
       bootVars, padVars, timVars, adcVars, ioHistVars, Channels
  <1>4. CASE ScanSteps
    BY <1>4 DEF ScanSteps, AdcSilent, AdcStarts, ScanAwaited, Convert, StreamStops, bootVars,
       padVars, timVars, adcVars, ioHistVars, Channels
  <1>5. CASE IoCalls
    BY <1>5 DEF IoCalls, AdcReadChecked, GpioWrite, PwmWrite, CloseStops, bootVars, padVars,
       timVars, adcVars, ioHistVars, Channels
  <1>6. CASE CloseForgets
    BY <1>6 DEF CloseForgets, bootVars, padVars, timVars, adcVars, ioHistVars, Channels
  <1> QED BY <1>1, <1>2, <1>3, <1>4, <1>5, <1>6, IoNextIs

\* A PWM point is as its declaration, also where it is looked up in what was recorded.
LEMMA WaveIs ==
  ASSUME IoPlan, IoPoints, idx \in Configured("pwm"), idx \in Channels
  PROVE  /\ Known(idx) /\ PwmPoint(idx) /\ ((Maps(idx) /\ Fits(idx)) <=> PwmOk(idx))
         /\ Tim(idx) = PlanTim(idx) /\ Carrier(points[idx].freq) = Wave(idx)
         /\ points[idx].pad = plan[idx].pad /\ points[idx].init = Least(plan[idx].init, 1000)
         /\ plan[idx].out /\ plan[idx].kind = "pwm"
  <1>1. Known(idx) /\ plan[idx].kind = "pwm"
    BY ConfiguredIs
  <1>2. /\ points[idx].pad = plan[idx].pad /\ points[idx].freq = plan[idx].freq
        /\ points[idx].init = InitOf(plan[idx])
    BY <1>1, ConfiguredIs
  <1>3. InitOf(plan[idx]) = Least(plan[idx].init, 1000)
    BY <1>1 DEF InitOf
  <1>4. plan[idx].out
    BY <1>1, PlanIs
  <1> QED BY <1>1, <1>2, <1>3, <1>4 DEF Known, PwmPoint, Maps, Fits, PwmOk, Tim, PlanTim, Wave

\* Where the caller is, over every step.
LEMMA IoPlacesKept ==
  ASSUME IoInv, IoNext
  PROVE  IoPlaces'
  <1>a. Channels = 1 .. Len(plan) /\ Len(plan) \in Nat /\ (plan = <<>> <=> Len(plan) = 0)
    BY PlanIs DEF IoInv
  <1>b. IoPlaces /\ plan' = plan /\ Channels' = Channels
    BY PlanStays DEF IoInv
  <1>c. PwmProgrammed => PwmOk(idx)
    BY WaveIs DEF IoInv, PwmProgrammed, Usable, Configured
  <1>1. CASE Declare
    BY <1>a, <1>b, <1>1 DEF Declare, bootVars, padVars, timVars, adcVars, ioHistVars, IoPlaces,
       PwmOk, PwmPoint
  <1>2. CASE PadSteps
    BY <1>a, <1>b, <1>2 DEF PadSteps, Start, SetLevel, SetMode, NoPoints, bootVars, padVars,
       timVars, adcVars, ioHistVars, IoPlaces, PwmOk, PwmPoint
  <1>d. PwmOk(idx)' <=> PwmOk(idx')
    BY <1>b DEF PwmOk, PwmPoint
  <1>e. PwmOk(idx') => PwmOk(idx)'
    BY <1>d
  <1>3. CASE WaveSteps
    <2>1. CASE PwmRejected \/ PwmMuxed \/ NotPwm
      <3>1. idx' = idx + 1 /\ ioAt' = "pwm" /\ (ioAt = "af" \/ idx \in Channels)
        BY <2>1 DEF PwmRejected, PwmMuxed, NotPwm, NextPwm, Configured
      <3> QED BY <1>a, <1>b, <3>1 DEF IoPlaces
    <2>2. CASE PwmProgrammed
      <3>1. ioAt' = "af" /\ idx' = idx /\ idx \in Channels
        BY <2>2 DEF PwmProgrammed, Configured, bootVars
      <3> QED BY <1>a, <1>b, <1>c, <1>e, <2>2, <3>1 DEF IoPlaces
    <2>3. CASE PadsDone
      <3>1. ioAt' \in {"adc", "halt", "run"} /\ idx' = idx
        BY <2>3 DEF PadsDone, bootVars
      <3> QED BY <1>a, <1>b, <3>1 DEF IoPlaces
    <2> QED BY <1>3, <2>1, <2>2, <2>3 DEF WaveSteps
  <1>4. CASE ScanSteps
    <2>1. (ioAt' = ioAt \/ ioAt' \in {"scan", "halt", "run"}) /\ idx' = idx
      BY <1>4 DEF ScanSteps, AdcSilent, AdcStarts, ScanAwaited, Convert, StreamStops, Ended, bootVars
    <2> QED BY <1>a, <1>b, <1>e, <2>1 DEF IoPlaces
  <1>5. CASE IoCalls
    BY <1>a, <1>b, <1>5 DEF IoCalls, AdcReadChecked, GpioWrite, PwmWrite, CloseStops, bootVars,
       padVars, timVars, adcVars, ioHistVars, IoPlaces, PwmOk, PwmPoint
  <1>6. CASE CloseForgets
    BY <1>a, <1>b, <1>6 DEF CloseForgets, bootVars, padVars, timVars, adcVars, ioHistVars,
       IoPlaces, PwmOk, PwmPoint
  <1> QED BY <1>1, <1>2, <1>3, <1>4, <1>5, <1>6, IoNextIs

\* Only the declarations and the end of blob_io_close change what is configured.
LEMMA DeclaredStays ==
  ASSUME IoInv, PadSteps \/ WaveSteps \/ ScanSteps \/ IoCalls
  PROVE  /\ points' = points /\ (outFault => outFault') /\ adcN' = adcN
         /\ ioAt' = "declare" => ioAt = "declare" /\ idx' = idx
         /\ \A i \in Channels : (Declared(i)' <=> Declared(i)) /\ (Known(i)' <=> Known(i)) /\ (AdcPoint(i)' <=> AdcPoint(i))
  <1>a. Channels = 1 .. Len(plan) /\ Len(plan) \in Nat /\ IoPlaces
    BY PlanIs DEF IoInv
  <1>b. plan' = plan
    BY PlanStays, IoNextIs
  <1>1. points' = points /\ (outFault => outFault') /\ adcN' = adcN
    <2>1. CASE PadSteps
      BY <2>1 DEF PadSteps, Start, SetLevel, SetMode, NoPoints, adcVars
    <2>2. CASE WaveSteps
      <3>1. CASE PwmRejected \/ PwmProgrammed \/ PwmMuxed \/ NotPwm
        BY <3>1 DEF PwmRejected, PwmProgrammed, PwmMuxed, NotPwm, adcVars
      <3>2. CASE PadsDone
        BY <3>2 DEF PadsDone, adcVars
      <3> QED BY <2>2, <3>1, <3>2 DEF WaveSteps
    <2>3. CASE ScanSteps
      BY <2>3 DEF ScanSteps, AdcSilent, AdcStarts, ScanAwaited, Convert, StreamStops, bootVars
    <2>4. CASE IoCalls
      BY <2>4 DEF IoCalls, AdcReadChecked, GpioWrite, PwmWrite, CloseStops, bootVars, adcVars
    <2> QED BY <2>1, <2>2, <2>3, <2>4
  <1>2. \/ ioAt' # "declare" /\ ioAt # "declare"
        \/ ioAt' = ioAt /\ idx' = idx
        \/ ioAt' # "declare" /\ idx = Len(plan) + 1
    <2>1. CASE PadSteps
      BY <2>1 DEF PadSteps, Start, SetLevel, SetMode, NoPoints
    <2>2. CASE WaveSteps
      <3>1. CASE PwmRejected \/ PwmProgrammed \/ PwmMuxed \/ NotPwm
        BY <3>1 DEF PwmRejected, PwmProgrammed, PwmMuxed, NotPwm, NextPwm
      <3>2. CASE PadsDone
        BY <3>2 DEF PadsDone
      <3> QED BY <2>2, <3>1, <3>2 DEF WaveSteps
    <2>3. CASE ScanSteps
      BY <2>3 DEF ScanSteps, AdcSilent, AdcStarts, ScanAwaited, Convert, StreamStops, bootVars, Ended
    <2>4. CASE IoCalls
      BY <2>4 DEF IoCalls, AdcReadChecked, GpioWrite, PwmWrite, CloseStops, bootVars
    <2> QED BY <2>1, <2>2, <2>3, <2>4
  <1>3. \A i \in Channels : Declared(i)' <=> Declared(i)
    BY <1>a, <1>2 DEF Declared
  <1>4. \A i \in Channels : (Known(i)' <=> Known(i)) /\ (AdcPoint(i)' <=> AdcPoint(i))
    BY <1>b, <1>3 DEF Known, AdcPoint
  <1> QED BY <1>1, <1>2, <1>3, <1>4

\* What blob_io_cfg leaves, of the point it was given and of the others.
LEMMA DeclareIs ==
  ASSUME IoInv, Declare, NEW k \in Channels, k = idx
  PROVE  /\ ioAt = "declare" /\ ioAt' = "declare" /\ idx' = k + 1 /\ k \in Nat
         /\ \A i \in Channels : (Declared(i) <=> i < k) /\ (Declared(i)' <=> (i = k \/ Declared(i)))
         /\ \A i \in Channels : i # k => points'[i] = points[i] /\ (Known(i)' <=> Known(i))
         /\ ~ Known(k) /\ (Known(k)' <=> Accepts(plan[k]))
         /\ Accepts(plan[k]) => points' = [points EXCEPT ![k] = Stored(plan[k])] /\ outFault' = outFault
                                /\ adcN' = adcN + (IF plan[k].kind = "adc" THEN 1 ELSE 0)
         /\ ~ Accepts(plan[k]) => points' = points /\ adcN' = adcN /\ (outFault' <=> (outFault \/ plan[k].out))
  <1>a. Channels = 1 .. Len(plan) /\ Len(plan) \in Nat /\ IoPlaces /\ IoPoints
    BY PlanIs DEF IoInv
  <1>b. plan' = plan
    BY PlanStays, IoNextIs
  <1>1. ioAt = "declare" /\ ioAt' = "declare" /\ idx' = k + 1 /\ k \in Nat
    BY <1>a DEF Declare
  <1>2. /\ Accepts(plan[k]) => points' = [points EXCEPT ![k] = Stored(plan[k])] /\ outFault' = outFault
                               /\ adcN' = adcN + (IF plan[k].kind = "adc" THEN 1 ELSE 0)
        /\ ~ Accepts(plan[k]) => points' = points /\ adcN' = adcN /\ (outFault' <=> (outFault \/ plan[k].out))
    BY DEF Declare
  <1>3. \A i \in Channels : (Declared(i) <=> i < k) /\ (Declared(i)' <=> (i = k \/ Declared(i)))
    BY <1>a, <1>1 DEF Declared
  <1>5. \A i \in Channels : i # k => points'[i] = points[i]
    BY <1>2, <1>a DEF IoPoints
  <1>6. \A i \in Channels : (Known(i) <=> Declared(i) /\ Accepts(plan[i])) /\ (Known(i)' <=> Declared(i)' /\ Accepts(plan[i]))
    BY <1>b DEF Known
  <1>7. \A i \in Channels : i # k => (Known(i)' <=> Known(i))
    BY <1>3, <1>6
  <1>8. ~ Known(k) /\ (Known(k)' <=> Accepts(plan[k]))
    BY <1>1, <1>3, <1>6
  <1>9. \A i \in Channels : i # k => points'[i] = points[i] /\ (Known(i)' <=> Known(i))
    BY <1>5, <1>7
  <1> QED BY <1>1, <1>2, <1>3, <1>8, <1>9

\* What a record holds.
LEMMA StoredIs ==
  ASSUME NEW d
  PROVE  /\ Stored(d).configured = TRUE /\ Stored(d).pad = d.pad /\ Stored(d).kind = d.kind /\ Stored(d).out = d.out
         /\ Stored(d).al = d.al /\ Stored(d).freq = d.freq /\ Stored(d).init = InitOf(d)
         /\ d.kind = "adc" => Stored(d).slot = adcN
  BY DEF Stored, InitOf

\* A point stays as it was declared until close forgets them all.
LEMMA IoPointsKept ==
  ASSUME IoInv, IoNext
  PROVE  IoPoints'
  <1>a. IoPoints
    BY DEF IoInv
  <1>b. plan' = plan /\ Channels' = Channels
    BY PlanStays
  <1>1. CASE PadSteps \/ WaveSteps \/ ScanSteps \/ IoCalls
    <2>1. points' = points /\ (outFault => outFault')
      BY <1>1, DeclaredStays
    <2>2. \A i \in Channels : (Declared(i)' <=> Declared(i)) /\ (Known(i)' <=> Known(i))
      BY <1>1, DeclaredStays
    <2> QED BY <1>a, <1>b, <2>1, <2>2 DEF IoPoints, Unset
  <1>2. CASE Declare
    <2>0. PICK k \in Channels : k = idx
      BY <1>2 DEF Declare
    <2> DEFINE As(p, i) ==
                 /\ p[i].configured = TRUE /\ p[i].pad = plan[i].pad
                 /\ p[i].kind = plan[i].kind /\ p[i].out = plan[i].out
                 /\ p[i].al = plan[i].al /\ p[i].freq = plan[i].freq
                 /\ p[i].init = InitOf(plan[i])
    <2>1. points' = [i \in Channels |-> points'[i]]
      BY <1>2, <1>a, <2>0, DeclareIs DEF IoPoints
    <2>2. \A i \in Channels : IF Known(i)' THEN As(points', i) ELSE points'[i] = Unset
      <3>1. ASSUME NEW i \in Channels, i # k
            PROVE  IF Known(i)' THEN As(points', i) ELSE points'[i] = Unset
        <4>1. points'[i] = points[i] /\ (Known(i)' <=> Known(i))
          BY <1>2, <2>0, <3>1, DeclareIs
        <4> QED BY <1>a, <3>1, <4>1 DEF IoPoints
      <3>2. CASE Accepts(plan[k])
        <4>1. points'[k] = Stored(plan[k]) /\ Known(k)'
          BY <1>2, <1>a, <2>0, <3>2, DeclareIs DEF IoPoints
        <4>2. As(points', k)
          BY <4>1, StoredIs
        <4> QED BY <3>1, <4>1, <4>2
      <3>3. CASE ~ Accepts(plan[k])
        <4>1. points' = points /\ ~ Known(k) /\ ~ Known(k)'
          BY <1>2, <2>0, <3>3, DeclareIs
        <4>2. points[k] = Unset
          BY <1>a, <4>1 DEF IoPoints
        <4> QED BY <3>1, <4>1, <4>2
      <3> QED BY <3>2, <3>3
    <2>3. \A i \in Channels : Declared(i)' /\ ~ Accepts(plan[i]) /\ plan[i].out => outFault'
      <3>1. \A i \in Channels : Declared(i)' <=> (i = k \/ Declared(i))
        BY <1>2, <2>0, DeclareIs
      <3>2. outFault => outFault'
        BY <1>2, <2>0, DeclareIs
      <3>3. ~ Accepts(plan[k]) /\ plan[k].out => outFault'
        BY <1>2, <2>0, DeclareIs
      <3>4. \A i \in Channels : Declared(i) /\ ~ Accepts(plan[i]) /\ plan[i].out => outFault
        BY <1>a DEF IoPoints
      <3> QED BY <3>1, <3>2, <3>3, <3>4
    <2> QED BY <1>b, <2>1, <2>2, <2>3 DEF IoPoints, Unset
  <1>3. CASE CloseForgets
    <2>1. points' = [i \in Channels |-> Unset]
      BY <1>3 DEF CloseForgets
    <2>2. \A i \in Channels : ~ Declared(i)'
      <3>1. ioAt' = "declare" /\ idx' = 1
        BY <1>3 DEF CloseForgets
      <3>2. Channels = 1 .. Len(plan) /\ Len(plan) \in Nat
        BY PlanIs DEF IoInv
      <3> QED BY <3>1, <3>2 DEF Declared
    <2> QED BY <1>b, <2>1, <2>2 DEF IoPoints, Known, Unset
  <1> QED BY <1>1, <1>2, <1>3, IoNextIs

\* Each accepted converter point gets the next slot.
LEMMA IoSlotsKept ==
  ASSUME IoInv, IoNext
  PROVE  IoSlots'
  <1>a. IoSlots /\ IoPlaces /\ IoPoints
    BY DEF IoInv
  <1>b. plan' = plan /\ Channels' = Channels
    BY PlanStays
  <1>c. Channels = 1 .. Len(plan) /\ Len(plan) \in Nat
    BY PlanIs DEF IoInv
  <1>1. CASE PadSteps \/ WaveSteps \/ ScanSteps \/ IoCalls
    <2>1. points' = points /\ adcN' = adcN /\ (ioAt' = "declare" => ioAt = "declare" /\ idx' = idx)
      BY <1>1, DeclaredStays
    <2>2. \A i \in Channels : AdcPoint(i)' <=> AdcPoint(i)
      BY <1>1, DeclaredStays
    <2> QED BY <1>a, <1>b, <2>1, <2>2 DEF IoSlots
  <1>2. CASE Declare
    <2>0. PICK k \in Channels : k = idx
      BY <1>2 DEF Declare
    <2>1. ioAt = "declare" /\ ioAt' = "declare" /\ idx' = k + 1 /\ k \in Nat /\ adcN \in Nat /\ adcN <= k - 1
      BY <1>2, <1>a, <2>0, DeclareIs DEF IoSlots
    <2>2. \A i \in Channels : i # k => points'[i] = points[i] /\ (AdcPoint(i)' <=> AdcPoint(i))
      BY <1>2, <1>b, <2>0, DeclareIs DEF AdcPoint
    <2>3. ~ AdcPoint(k) /\ (AdcPoint(k)' <=> Accepts(plan[k]) /\ plan[k].kind = "adc")
      BY <1>2, <1>b, <2>0, DeclareIs DEF AdcPoint
    <2>4. CASE Accepts(plan[k]) /\ plan[k].kind = "adc"
      <3>1. adcN' = adcN + 1 /\ points'[k].slot = adcN /\ AdcPoint(k)'
        <4>1. adcN' = adcN + 1 /\ points' = [points EXCEPT ![k] = Stored(plan[k])]
          BY <1>2, <2>0, <2>4, DeclareIs
        <4>2. points'[k] = Stored(plan[k])
          BY <4>1, <1>a DEF IoPoints
        <4> QED BY <2>3, <2>4, <4>1, <4>2, StoredIs
      <3>2. adcN' \in Nat /\ adcN' <= Len(plan) /\ adcN' <= idx' - 1
        BY <1>c, <2>1, <3>1
      <3>3. \A i \in Channels : AdcPoint(i)' => points'[i].slot \in 0 .. adcN' - 1 /\ (i # k => points'[i].slot # adcN)
        BY <1>a, <2>1, <2>2, <3>1 DEF IoSlots
      <3>4. \A i, j \in Channels : AdcPoint(i)' /\ AdcPoint(j)' /\ points'[i].slot = points'[j].slot => i = j
        BY <1>a, <2>2, <3>1, <3>3 DEF IoSlots
      <3>5. \A r \in 0 .. adcN' - 1 : \E i \in Channels : AdcPoint(i)' /\ points'[i].slot = r
        <4>1. ASSUME NEW r \in 0 .. adcN - 1 PROVE \E i \in Channels : AdcPoint(i)' /\ points'[i].slot = r
          <5>1. PICK i \in Channels : AdcPoint(i) /\ points[i].slot = r
            BY <1>a DEF IoSlots
          <5> QED BY <2>2, <2>3, <5>1
        <4>2. \A r \in 0 .. adcN' - 1 : r = adcN \/ r \in 0 .. adcN - 1
          BY <2>1, <3>1
        <4> QED BY <3>1, <4>1, <4>2
      <3> QED BY <1>b, <2>1, <3>2, <3>3, <3>4, <3>5 DEF IoSlots
    <2>5. CASE ~ (Accepts(plan[k]) /\ plan[k].kind = "adc")
      <3>1. adcN' = adcN
        BY <1>2, <2>0, <2>5, <2>1, DeclareIs
      <3>2. \A i \in Channels : (AdcPoint(i)' <=> AdcPoint(i)) /\ (AdcPoint(i) => points'[i] = points[i])
        BY <2>2, <2>3, <2>5
      <3>3. adcN' \in Nat /\ adcN' <= Len(plan) /\ adcN' <= idx' - 1
        BY <1>c, <2>1, <3>1
      <3> QED BY <1>a, <1>b, <3>1, <3>2, <3>3 DEF IoSlots
    <2> QED BY <2>4, <2>5
  <1>3. CASE CloseForgets
    <2>1. ioAt' = "declare" /\ idx' = 1 /\ adcN' = 0
      BY <1>3 DEF CloseForgets
    <2>2. \A i \in Channels : ~ AdcPoint(i)'
      BY <1>c, <2>1 DEF Declared, Known, AdcPoint
    <2> QED BY <1>b, <1>c, <2>1, <2>2 DEF IoSlots
  <1> QED BY <1>1, <1>2, <1>3, IoNextIs

\* The converter's points are found by their slots.
LEMMA RankIs ==
  ASSUME IoInv, NEW i \in Channels, AdcPoint(i)
  PROVE  RankOf(points[i].slot) = i /\ points[i].slot \in 0 .. adcN - 1 /\ points[i].pad = plan[i].pad
         /\ points[i].slot \in 0 .. MaxPoints - 1
  <1>1. \A j : j \in Configured("adc") <=> j \in Channels /\ AdcPoint(j)
    BY ConfiguredIs DEF IoInv, AdcPoint, Configured
  <1>2. points[i].slot \in 0 .. adcN - 1 /\ points[i].pad = plan[i].pad
    BY ConfiguredIs DEF IoInv, IoSlots, AdcPoint
  <1>3. \A j \in Configured("adc") : points[j].slot = points[i].slot => j = i
    BY <1>1 DEF IoInv, IoSlots
  <1>4. adcN \in Nat /\ adcN <= MaxPoints /\ MaxPoints \in Nat
    BY PlanIs, IoAssumption DEF IoInv, IoSlots, IoPlan, IoAssumption
  <1>5. RankOf(points[i].slot) = i
    BY <1>1, <1>3 DEF RankOf
  <1> QED BY <1>2, <1>4, <1>5

\* The scan fills each slot from its own point's channel.
LEMMA IoScanKept ==
  ASSUME IoInv, IoNext
  PROVE  IoScan'
  <1>a. IoScan /\ IoSlots /\ IoPlaces /\ IoPoints
    BY DEF IoInv
  <1>b. plan' = plan /\ Channels' = Channels
    BY PlanStays
  <1> DEFINE Kept == \A i \in Channels : AdcPoint(i) /\ Sampled(points[i].slot) =>
                        dmaArr[points[i].slot] = <<starts, AdcChannel[plan[i].pad]>>
  <1>c. conv = "scanning" => Kept
    BY <1>a DEF IoScan
  <1>1. CASE PadSteps \/ Declare
    <2>1. conv = "off" /\ ~ tcif /\ ~ firstReady
      <3>1. ioAt \in {"declare", "level", "mux"}
        BY <1>1 DEF PadSteps, Start, SetLevel, SetMode, NoPoints, Declare
      <3> QED BY <1>a, <3>1 DEF IoScan
    <2>2. ioAt' \in {"declare", "level", "mux", "pwm"}
          /\ UNCHANGED <<firstReady, tcif, dmaArr, conv, fabricated>>
      BY <1>1 DEF PadSteps, Start, SetLevel, SetMode, NoPoints, Declare, adcVars, ioHistVars
    <2> QED BY <1>a, <2>1, <2>2 DEF IoScan
  <1>2. CASE WaveSteps
    <2>1. conv = "off" /\ ~ tcif /\ ~ firstReady
      <3>1. ioAt \in {"pwm", "af"}
        BY <1>2 DEF WaveSteps, PwmRejected, PwmProgrammed, PwmMuxed, NotPwm, PadsDone
      <3> QED BY <1>a, <3>1 DEF IoScan
    <2>2. (ioAt' = "adc" => adcN' > 0) /\ ioAt' # "close" /\ UNCHANGED <<firstReady, tcif, dmaArr, conv, fabricated>>
      <3>1. CASE PwmRejected \/ PwmProgrammed \/ PwmMuxed \/ NotPwm
        BY <3>1 DEF PwmRejected, PwmProgrammed, PwmMuxed, NotPwm, NextPwm, adcVars, ioHistVars
      <3>2. CASE PadsDone
        BY <3>2 DEF PadsDone, adcVars, ioHistVars
      <3> QED BY <1>2, <3>1, <3>2 DEF WaveSteps
    <2> QED BY <1>a, <2>1, <2>2 DEF IoScan
  <1>3. CASE AdcSilent
    <2>1. ioAt = "adc" /\ conv = "off"
      BY <1>3, <1>a DEF AdcSilent, IoScan
    <2>2. ioAt' \in {"halt", "run"} /\ conv' = conv /\ ~ tcif' /\ ~ firstReady' /\ UNCHANGED <<dmaArr, fabricated>>
      BY <1>3 DEF AdcSilent, Ended, ioHistVars
    <2> QED BY <1>a, <2>1, <2>2 DEF IoScan
  <1>4. CASE AdcStarts
    <2>1. ioAt = "adc" /\ adcN > 0 /\ adcN \in Nat
      BY <1>4, <1>a DEF AdcStarts, IoScan, IoSlots
    <2>2. ioAt' = "scan" /\ conv' = "scanning" /\ rank' = 0 /\ ~ tcif' /\ ~ firstReady'
          /\ UNCHANGED <<adcN, dmaArr, fabricated, points, starts>>
      BY <1>4 DEF AdcStarts, ioHistVars
    <2>3. \A i \in Channels : AdcPoint(i) => ~ Sampled(points[i].slot)'
      <3>1. \A i \in Channels : AdcPoint(i) => points[i].slot \in 0 .. adcN - 1
        BY <1>a DEF IoSlots
      <3> QED BY <2>1, <2>2, <3>1 DEF Sampled
    <2>4. \A i \in Channels : AdcPoint(i)' <=> AdcPoint(i)
      BY <1>4, DeclaredStays DEF ScanSteps
    <2> QED BY <1>a, <1>b, <2>1, <2>2, <2>3, <2>4 DEF IoScan
  <1>5. CASE ScanAwaited
    <2>1. ioAt = "scan" /\ ioAt' \in {"halt", "run"} /\ (firstReady' => tcif)
          /\ UNCHANGED <<adcN, tcif, dmaArr, rank, conv, fabricated, points, starts>>
      BY <1>5 DEF ScanAwaited, Ended, ioHistVars
    <2>2. \A i \in Channels : AdcPoint(i)' <=> AdcPoint(i)
      BY <1>5, DeclaredStays DEF ScanSteps
    <2> QED BY <1>a, <1>b, <2>1, <2>2 DEF IoScan, Sampled
  <1>6. CASE Convert
    <2>1. conv = "scanning" /\ adcN \in Nat \ {0} /\ rank \in 0 .. adcN - 1 /\ adcN <= MaxPoints /\ MaxPoints \in Nat
      BY <1>6, <1>a, PlanIs, IoAssumption DEF Convert, IoScan, IoSlots, IoInv, IoPlan, IoAssumption
    <2>2. /\ dmaArr' = [dmaArr EXCEPT ![rank] = <<starts, AdcChannel[points[RankOf(rank)].pad]>>]
          /\ rank' = (rank + 1) % adcN /\ (tcif' <=> (tcif \/ rank = adcN - 1))
          /\ UNCHANGED <<adcN, conv, ioAt, firstReady, fabricated, points, starts>>
      BY <1>6 DEF Convert, LastRank, bootVars, ioHistVars
    <2>3. rank' = IF rank + 1 = adcN THEN 0 ELSE rank + 1
      <3>1. rank % adcN = rank /\ rank \in Nat
        BY <2>1, ModSmall
      <3>2. (rank + 1) % adcN = IF (rank % adcN) + 1 = adcN THEN 0 ELSE (rank % adcN) + 1
        BY <2>1, <3>1, ModNext
      <3> QED BY <2>2, <3>1, <3>2
    <2>4. \A i \in Channels : AdcPoint(i)' <=> AdcPoint(i)
      BY <1>6, DeclaredStays DEF ScanSteps
    <2>5. ASSUME NEW i \in Channels, AdcPoint(i), Sampled(points[i].slot)'
          PROVE  dmaArr'[points[i].slot] = <<starts, AdcChannel[plan[i].pad]>>
      <3> DEFINE s == points[i].slot
      <3>1. RankOf(s) = i /\ s \in 0 .. adcN - 1 /\ points[i].pad = plan[i].pad /\ s \in 0 .. MaxPoints - 1
        BY <2>5, RankIs
      <3>2. tcif' \/ s < rank'
        BY <2>2, <2>5 DEF Sampled
      <3> HIDE DEF s
      <3>3. CASE s = rank
        <4>1. dmaArr'[s] = <<starts, AdcChannel[points[RankOf(rank)].pad]>>
          BY <1>a, <2>2, <3>1, <3>3 DEF IoScan
        <4> QED BY <3>1, <3>3, <4>1 DEF s
      <3>4. CASE s # rank
        <4>1. tcif \/ s < rank
          BY <2>1, <2>2, <2>3, <3>1, <3>2, <3>4
        <4>2. dmaArr'[s] = dmaArr[s]
          BY <1>a, <2>2, <3>1, <3>4 DEF IoScan
        <4> QED BY <1>c, <2>1, <2>5, <4>1, <4>2 DEF Sampled, s
      <3> QED BY <3>3, <3>4
    <2>6. rank' \in 0 .. adcN' - 1 /\ adcN' > 0
      BY <2>1, <2>2, <2>3
    <2>7. dmaArr' = [s \in 0 .. MaxPoints - 1 |-> dmaArr'[s]]
      BY <1>a, <2>2 DEF IoScan
    <2>8. \A i \in Channels : AdcPoint(i)' /\ Sampled(points[i].slot)' =>
             dmaArr'[points'[i].slot] = <<starts', AdcChannel[plan'[i].pad]>>
      BY <1>b, <2>2, <2>4, <2>5
    <2>9. firstReady' => tcif'
      BY <1>a, <2>2 DEF IoScan
    <2> QED BY <1>a, <1>b, <2>1, <2>2, <2>6, <2>7, <2>8, <2>9 DEF IoScan, Sampled
  <1>7. CASE StreamStops
    <2>1. ioAt = "close" /\ ioAt' = "close" /\ conv' = "off" /\ tcif' /\ UNCHANGED <<dmaArr, fabricated>>
      BY <1>7, <1>a DEF StreamStops, IoScan, bootVars, ioHistVars
    <2> QED BY <1>a, <2>1 DEF IoScan
  <1>8. CASE IoCalls
    <2>1. \A i \in Channels : AdcPoint(i)' <=> AdcPoint(i)
      BY <1>8, DeclaredStays
    <2>2. CASE \E i \in Channels : AdcReadChecked(i)
      <3>1. PICK i \in Channels : AdcReadChecked(i)
        BY <2>2
      <3>2. AdcPoint(i) /\ ioAt = "run" /\ (firstReady \/ tcif)
        BY <3>1, ConfiguredIs DEF AdcReadChecked, Ready, IoInv, AdcPoint
      <3>3. tcif /\ conv = "scanning"
        BY <1>a, <3>2 DEF IoScan
      <3>4. dmaArr[points[i].slot] = <<starts, AdcChannel[plan[i].pad]>>
        BY <1>c, <3>2, <3>3 DEF Sampled
      <3>5. fabricated' = FALSE /\ UNCHANGED <<ioAt, adcN, tcif, dmaArr, rank, conv, points, starts>>
        BY <1>a, <3>1, <3>4 DEF AdcReadChecked, IoScan, bootVars
      <3> QED BY <1>a, <1>b, <2>1, <3>2, <3>3, <3>5 DEF IoScan, Sampled
    <2>3. CASE CloseStops
      <3>1. ioAt = "run" /\ ioAt' = "close" /\ conv' = (IF conv = "scanning" THEN "stopping" ELSE conv)
            /\ UNCHANGED <<firstReady, tcif, dmaArr, fabricated>>
        BY <2>3 DEF CloseStops, ioHistVars
      <3>2. conv' \in {"off", "stopping"}
        BY <1>a, <3>1 DEF IoScan
      <3> QED BY <1>a, <3>1, <3>2 DEF IoScan
    <2>4. CASE \/ \E i \in Channels, v \in 0 .. 1 : GpioWrite(i, v)
               \/ \E i \in Channels, v \in {0, 250} : PwmWrite(i, v)
      <3>1. UNCHANGED <<ioAt, adcN, firstReady, tcif, dmaArr, rank, conv, points, starts, fabricated>>
        BY <2>4 DEF GpioWrite, PwmWrite, bootVars, adcVars
      <3> QED BY <1>a, <1>b, <2>1, <3>1 DEF IoScan, Sampled
    <2> QED BY <1>8, <2>2, <2>3, <2>4 DEF IoCalls
  <1>9. CASE CloseForgets
    <2>1. conv' = "off" /\ ioAt' = "declare" /\ ~ tcif' /\ ~ firstReady' /\ UNCHANGED <<dmaArr, fabricated>>
      BY <1>9 DEF CloseForgets, ioHistVars
    <2> QED BY <1>a, <2>1 DEF IoScan
  <1> QED BY <1>1, <1>2, <1>3, <1>4, <1>5, <1>6, <1>7, <1>8, <1>9, IoNextIs DEF ScanSteps

\* A pad's mode changes when its own point is muxed.
LEMMA ModeIs ==
  ASSUME IoInv, IoNext
  PROVE  /\ mode' = [p \in Pads |-> mode'[p]]
         /\ \A i \in Channels : plan[i].out =>
            mode'[plan[i].pad] = IF ioAt = "mux" /\ SetMode /\ i = idx /\ GpioOut(i) THEN "out"
                                 ELSE IF PwmMuxed /\ i = idx THEN "af" ELSE mode[plan[i].pad]
  <1> DEFINE Moves == /\ mode' = [p \in Pads |-> mode'[p]]
                      /\ \A i \in Channels : plan[i].out =>
                         mode'[plan[i].pad] = IF ioAt = "mux" /\ SetMode /\ i = idx /\ GpioOut(i) THEN "out"
                                              ELSE IF PwmMuxed /\ i = idx THEN "af" ELSE mode[plan[i].pad]
  <1>a. /\ mode = [p \in Pads |-> mode[p]]
        /\ \A i, j \in Channels : i # j => plan[i].pad # plan[j].pad
        /\ \A i \in Channels : plan[i].pad \in Pads
    BY PlanIs DEF IoInv, IoPads, IoPlan
  <1>1. CASE SetMode
    <2>0. PICK k \in Channels : k = idx
      BY <1>1 DEF SetMode, IoInv, IoPlaces
    <2>1. ioAt = "mux" /\ ~ PwmMuxed /\ (Known(k) <=> Accepts(plan[k]))
      BY <1>1 DEF SetMode, PwmMuxed, Known, Declared
    <2>2. \A kind \in {"gpio", "adc"} : k \in Configured(kind) <=> Accepts(plan[k]) /\ plan[k].kind = kind
      BY <2>1, ConfiguredIs DEF IoInv
    <2>3. Accepts(plan[k]) => points[k].pad = plan[k].pad /\ points[k].out = plan[k].out
      BY <2>1, ConfiguredIs DEF IoInv
    <2>4. plan[k].kind = "adc" => ~ plan[k].out
      BY PlanIs DEF IoInv
    <2>5. CASE GpioOut(k)
      <3>1. mode' = [mode EXCEPT ![plan[k].pad] = "out"]
        BY <1>1, <2>0, <2>2, <2>3, <2>5 DEF SetMode, GpioOut
      <3> QED BY <1>1, <1>a, <2>0, <2>1, <2>5, <3>1
    <2>6. CASE ~ GpioOut(k) /\ plan[k].out
      <3>1. k \notin Configured("gpio") /\ k \notin Configured("adc")
        BY <2>2, <2>4, <2>6 DEF GpioOut
      <3>2. mode' = mode
        BY <1>1, <2>0, <3>1 DEF SetMode
      <3> QED BY <1>a, <2>0, <2>1, <2>6, <3>2
    <2>7. CASE ~ plan[k].out
      <3>1. PICK m : mode' = mode \/ mode' = [mode EXCEPT ![plan[k].pad] = m]
        <4>1. CASE k \in Configured("gpio")
          <5>1. k \notin Configured("adc")
            BY <2>2, <4>1
          <5> QED BY <1>1, <2>0, <2>2, <2>3, <4>1, <5>1 DEF SetMode
        <4>2. CASE k \in Configured("adc")
          <5>1. k \notin Configured("gpio")
            BY <2>2, <4>2
          <5> QED BY <1>1, <2>0, <2>2, <2>3, <4>2, <5>1 DEF SetMode
        <4>3. CASE k \notin Configured("gpio") /\ k \notin Configured("adc")
          BY <1>1, <2>0, <4>3 DEF SetMode
        <4> QED BY <4>1, <4>2, <4>3
      <3>2. mode' = [p \in Pads |-> mode'[p]] /\ \A i \in Channels : i # k => mode'[plan[i].pad] = mode[plan[i].pad]
        BY <1>a, <3>1
      <3> QED BY <2>0, <2>1, <2>7, <3>2
    <2> QED BY <2>5, <2>6, <2>7
  <1>2. CASE PwmMuxed
    <2>0. PICK k \in Channels : k = idx
      BY <1>2 DEF PwmMuxed, IoInv, IoPlaces
    <2>1. ioAt # "mux" /\ Known(k) /\ points[k].pad = plan[k].pad
      <3>1. ioAt = "af" /\ PwmOk(k)
        BY <1>2, <2>0 DEF PwmMuxed, IoInv, IoPlaces
      <3>2. Known(k)
        BY <3>1 DEF PwmOk, PwmPoint, Known, Declared
      <3> QED BY <3>1, <3>2, ConfiguredIs DEF IoInv
    <2>2. mode' = [mode EXCEPT ![plan[k].pad] = "af"]
      BY <1>2, <2>0, <2>1 DEF PwmMuxed
    <2> QED BY <1>2, <1>a, <2>0, <2>1, <2>2
  <1>3. CASE ~ SetMode /\ ~ PwmMuxed
    <2>1. mode' = mode
      <3>1. CASE PadSteps \/ Declare \/ CloseForgets
        BY <1>3, <3>1 DEF PadSteps, Start, SetLevel, NoPoints, Declare, CloseForgets, padVars
      <3>2. CASE WaveSteps
        BY <1>3, <3>2 DEF WaveSteps, PwmRejected, PwmProgrammed, NotPwm, PadsDone, padVars
      <3>3. CASE ScanSteps
        BY <3>3 DEF ScanSteps, AdcSilent, AdcStarts, ScanAwaited, Convert, StreamStops, padVars
      <3>4. CASE IoCalls
        BY <3>4 DEF IoCalls, AdcReadChecked, GpioWrite, PwmWrite, CloseStops, padVars
      <3> QED BY <3>1, <3>2, <3>3, <3>4, IoNextIs
    <2> QED BY <1>3, <1>a, <2>1
  <1> QED BY <1>1, <1>2, <1>3

\* What an output point shows changes with what it was given.
LEMMA ShownIs ==
  ASSUME IoInv, IoNext
  PROVE  /\ odr' = [p \in Pads |-> odr'[p]] /\ setTo' = [i \in Channels |-> setTo'[i]]
         /\ \A i \in Channels : GpioOut(i) =>
            \/ odr'[plan[i].pad] = odr[plan[i].pad] /\ setTo'[i] = setTo[i] /\ ~ (SetLevel /\ i = idx)
            \/ odr'[plan[i].pad] = Xor(setTo'[i], plan[i].al)
  <1>a. /\ odr = [p \in Pads |-> odr[p]] /\ setTo = [i \in Channels |-> setTo[i]]
        /\ \A i, j \in Channels : i # j => plan[i].pad # plan[j].pad
        /\ \A i \in Channels : plan[i].pad \in Pads
    BY PlanIs DEF IoInv, IoPads, IoPlan
  <1>1. CASE SetLevel
    <2>0. PICK k \in Channels : k = idx
      BY <1>1 DEF SetLevel
    <2>1. k \in Configured("gpio") <=> Accepts(plan[k]) /\ plan[k].kind = "gpio"
      BY <1>1, ConfiguredIs DEF SetLevel, IoInv, Known, Declared
    <2>2. Accepts(plan[k]) => /\ points[k].pad = plan[k].pad /\ points[k].out = plan[k].out
                              /\ points[k].init = InitOf(plan[k])
      BY <1>1, ConfiguredIs DEF SetLevel, IoInv, Known, Declared
    <2>3. CASE GpioOut(k)
      <3>1. points[k].init = Xor(plan[k].init, plan[k].al)
        BY <2>2, <2>3 DEF GpioOut, InitOf
      <3>2. /\ odr' = [odr EXCEPT ![plan[k].pad] = Xor(plan[k].init, plan[k].al)]
            /\ setTo' = [setTo EXCEPT ![k] = plan[k].init]
        BY <1>1, <2>0, <2>1, <2>2, <2>3, <3>1 DEF SetLevel, GpioOut
      <3> QED BY <1>a, <2>0, <3>2
    <2>4. CASE ~ GpioOut(k)
      <3>1. odr' = odr /\ setTo' = setTo
        BY <1>1, <2>0, <2>1, <2>2, <2>4 DEF SetLevel, GpioOut
      <3> QED BY <1>a, <2>0, <2>4, <3>1
    <2> QED BY <2>3, <2>4
  <1>2. CASE \E i \in Channels, v \in 0 .. 1 : GpioWrite(i, v)
    <2>1. PICK k \in Channels, v \in 0 .. 1 : GpioWrite(k, v)
      BY <1>2
    <2>2. ~ SetLevel
      BY <2>1 DEF GpioWrite, SetLevel
    <2>3. points[k].pad = plan[k].pad /\ points[k].al = plan[k].al
      BY <2>1, ConfiguredIs DEF GpioWrite, IoInv
    <2>4. odr' = [odr EXCEPT ![plan[k].pad] = Xor(v, plan[k].al)] /\ setTo' = [setTo EXCEPT ![k] = v]
      BY <2>1, <2>3 DEF GpioWrite
    <2> QED BY <1>a, <2>2, <2>4
  <1>3. CASE PwmProgrammed \/ \E i \in Channels, v \in {0, 250} : PwmWrite(i, v)
    <2>0. PICK k \in Channels : k \in Configured("pwm") /\ odr' = odr /\ \E v : setTo' = [setTo EXCEPT ![k] = v]
      <3>1. CASE PwmProgrammed
        <4>1. idx \in Configured("pwm") /\ odr' = odr /\ setTo' = [setTo EXCEPT ![idx] = plan[idx].init]
          BY <3>1 DEF PwmProgrammed, padVars
        <4> QED BY <4>1 DEF Configured
      <3>2. CASE \E i \in Channels, v \in {0, 250} : PwmWrite(i, v)
        <4>1. PICK i \in Channels, v \in {0, 250} : PwmWrite(i, v)
          BY <3>2
        <4>2. i \in Configured("pwm") /\ odr' = odr /\ setTo' = [setTo EXCEPT ![i] = v]
          BY <4>1 DEF PwmWrite, padVars
        <4> QED BY <4>2
      <3> QED BY <1>3, <3>1, <3>2
    <2>1. PICK v : setTo' = [setTo EXCEPT ![k] = v]
      BY <2>0
    <2>2. plan[k].kind = "pwm"
      BY <2>0, ConfiguredIs DEF IoInv
    <2>3. ~ SetLevel
      BY <1>3 DEF PwmProgrammed, PwmWrite, SetLevel
    <2> QED BY <1>a, <2>0, <2>1, <2>2, <2>3 DEF GpioOut
  <1>4. CASE \/ Declare \/ Start \/ SetMode \/ NoPoints \/ PwmRejected \/ PwmMuxed \/ NotPwm \/ PadsDone
             \/ ScanSteps \/ (\E i \in Channels : AdcReadChecked(i)) \/ CloseStops \/ CloseForgets
    <2>1. odr' = odr /\ setTo' = setTo
      <3>1. CASE Declare \/ Start \/ SetMode \/ NoPoints
        BY <3>1 DEF Declare, Start, SetMode, NoPoints, padVars, ioHistVars
      <3>2. CASE PwmRejected \/ PwmMuxed \/ NotPwm \/ PadsDone
        BY <3>2 DEF PwmRejected, PwmMuxed, NotPwm, PadsDone, padVars, ioHistVars
      <3>3. CASE ScanSteps
        BY <3>3 DEF ScanSteps, AdcSilent, AdcStarts, ScanAwaited, Convert, StreamStops, padVars, ioHistVars
      <3>4. CASE (\E i \in Channels : AdcReadChecked(i)) \/ CloseStops \/ CloseForgets
        BY <3>4 DEF AdcReadChecked, CloseStops, CloseForgets, padVars, ioHistVars
      <3> QED BY <1>4, <3>1, <3>2, <3>3, <3>4
    <2>2. ~ (SetLevel /\ ioAt' # "mux") /\ (SetLevel => ioAt = "level" /\ ioAt' = "mux" /\ idx \in Channels)
      BY DEF SetLevel
    <2>3. ~ SetLevel
      <3>1. CASE Declare \/ Start \/ SetMode \/ NoPoints
        BY <3>1, <2>2 DEF Declare, Start, SetMode, NoPoints, Channels
      <3>2. CASE PwmRejected \/ PwmMuxed \/ NotPwm \/ PadsDone
        BY <3>2, <2>2 DEF PwmRejected, PwmMuxed, NotPwm, PadsDone
      <3>3. CASE ScanSteps
        BY <3>3, <2>2 DEF ScanSteps, AdcSilent, AdcStarts, ScanAwaited, Convert, StreamStops, bootVars
      <3>4. CASE (\E i \in Channels : AdcReadChecked(i)) \/ CloseStops \/ CloseForgets
        BY <3>4, <2>2 DEF AdcReadChecked, CloseStops, CloseForgets, bootVars
      <3> QED BY <1>4, <3>1, <3>2, <3>3, <3>4
    <2> QED BY <1>a, <2>1, <2>3
  <1> QED BY <1>1, <1>2, <1>3, <1>4, IoNextIs DEF PadSteps, WaveSteps, IoCalls

\* A pad is muxed only when its level is there, and a write keeps them together.
LEMMA IoPadsKept ==
  ASSUME IoInv, IoNext
  PROVE  IoPads'
  <1>a. IoPads /\ IoPlaces
    BY DEF IoInv
  <1>b. plan' = plan /\ Channels' = Channels
    BY PlanStays
  <1>m. /\ mode' = [p \in Pads |-> mode'[p]]
        /\ \A i \in Channels : plan[i].out =>
           \/ mode'[plan[i].pad] = mode[plan[i].pad]
           \/ ioAt = "mux" /\ i = idx /\ GpioOut(i) /\ mode'[plan[i].pad] = "out"
           \/ ioAt = "af" /\ i = idx /\ mode'[plan[i].pad] = "af"
    BY ModeIs DEF PwmMuxed
  <1>s. /\ odr' = [p \in Pads |-> odr'[p]] /\ setTo' = [i \in Channels |-> setTo'[i]]
        /\ \A i \in Channels : GpioOut(i) =>
            \/ odr'[plan[i].pad] = odr[plan[i].pad] /\ setTo'[i] = setTo[i] /\ ~ (SetLevel /\ i = idx)
            \/ odr'[plan[i].pad] = Xor(setTo'[i], plan[i].al)
    BY ShownIs
  <1>1. \A i \in Channels : (GpioOut(i)' <=> GpioOut(i)) /\ (PwmOk(i)' <=> PwmOk(i))
    BY <1>b DEF GpioOut, PwmOk, PwmPoint
  <1>2. \A i \in Channels : plan[i].out /\ mode'[plan[i].pad] = "out" => GpioOut(i)
    BY <1>a, <1>m DEF IoPads
  <1>3. \A i \in Channels : plan[i].out /\ mode'[plan[i].pad] = "af" => PwmOk(i)
    BY <1>a, <1>m DEF IoPads, IoPlaces
  <1>4. \A i \in Channels : plan[i].out /\ mode'[plan[i].pad] = "out" => odr'[plan[i].pad] = Xor(setTo'[i], plan[i].al)
    <2>1. SUFFICES ASSUME NEW i \in Channels, plan[i].out, mode'[plan[i].pad] = "out"
                   PROVE  odr'[plan[i].pad] = Xor(setTo'[i], plan[i].al)
      OBVIOUS
    <2>2. GpioOut(i)
      BY <1>2, <2>1
    <2>3. odr[plan[i].pad] = Xor(setTo[i], plan[i].al)
      BY <1>a, <1>m, <2>1, <2>2 DEF IoPads, OutputsHold, Live
    <2> QED BY <1>s, <2>2, <2>3
  <1>5. \A i \in Channels : ioAt' = "mux" /\ i = idx' /\ GpioOut(i) => odr'[plan[i].pad] = Xor(setTo'[i], plan[i].al)
    <2>1. SUFFICES ASSUME NEW i \in Channels, ioAt' = "mux", i = idx', GpioOut(i)
                   PROVE  odr'[plan[i].pad] = Xor(setTo'[i], plan[i].al)
      OBVIOUS
    <2>2. idx' = idx /\ (SetLevel \/ ioAt = "mux")
      <3>1. CASE PadSteps \/ Declare \/ CloseForgets
        BY <3>1, <2>1 DEF PadSteps, Start, SetLevel, SetMode, NoPoints, Declare, CloseForgets
      <3>2. CASE WaveSteps
        BY <3>2, <2>1 DEF WaveSteps, PwmRejected, PwmProgrammed, PwmMuxed, NotPwm, PadsDone, NextPwm
      <3>3. CASE ScanSteps
        BY <3>3, <2>1 DEF ScanSteps, AdcSilent, AdcStarts, ScanAwaited, Convert, StreamStops, Ended, bootVars
      <3>4. CASE IoCalls
        BY <3>4, <2>1 DEF IoCalls, AdcReadChecked, GpioWrite, PwmWrite, CloseStops, bootVars
      <3> QED BY <3>1, <3>2, <3>3, <3>4, IoNextIs
    <2>3. SetLevel \/ odr[plan[i].pad] = Xor(setTo[i], plan[i].al)
      BY <1>a, <2>1, <2>2 DEF IoPads
    <2> QED BY <1>s, <2>1, <2>2, <2>3
  <1> QED BY <1>b, <1>m, <1>s, <1>1, <1>2, <1>3, <1>4, <1>5 DEF IoPads, OutputsHold, Live

\* The bring-up passes every point before it ends.
LEMMA IoReachKept ==
  ASSUME IoInv, IoNext
  PROVE  IoReach'
  <1>a. IoReach /\ IoPlaces
    BY DEF IoInv
  <1>b. plan' = plan /\ Channels' = Channels
    BY PlanStays
  <1>c. Channels = 1 .. Len(plan) /\ Len(plan) \in Nat /\ (plan = <<>> <=> Len(plan) = 0)
    BY PlanIs DEF IoInv
  <1>m. \A i \in Channels : plan[i].out =>
            mode'[plan[i].pad] = IF ioAt = "mux" /\ SetMode /\ i = idx /\ GpioOut(i) THEN "out"
                                 ELSE IF PwmMuxed /\ i = idx THEN "af" ELSE mode[plan[i].pad]
    BY ModeIs
  <1>k. \A i \in Channels : plan[i].kind = "pwm" => plan[i].out
    BY PlanIs DEF IoInv
  <1>1. ASSUME NEW i \in Channels, GpioOut(i), Muxed(i)' PROVE mode'[plan[i].pad] = "out"
    <2>1. Muxed(i) \/ (SetMode /\ i = idx)
      <3>1. CASE SetMode
        BY <1>1, <1>a, <1>c, <3>1 DEF SetMode, Muxed, IoPlaces
      <3>2. CASE Start \/ SetLevel \/ NoPoints \/ Declare \/ CloseForgets
        BY <1>1, <1>a, <1>c, <3>2 DEF Start, SetLevel, NoPoints, Declare, CloseForgets, Muxed
      <3>3. CASE WaveSteps
        BY <3>3 DEF WaveSteps, PwmRejected, PwmProgrammed, PwmMuxed, NotPwm, PadsDone, Muxed
      <3>4. CASE ScanSteps
        BY <1>1, <3>4 DEF ScanSteps, AdcSilent, AdcStarts, ScanAwaited, Convert, StreamStops, bootVars, Muxed
      <3>5. CASE IoCalls
        BY <1>1, <3>5 DEF IoCalls, AdcReadChecked, GpioWrite, PwmWrite, CloseStops, bootVars, Muxed
      <3> QED BY <3>1, <3>2, <3>3, <3>4, <3>5, IoNextIs DEF PadSteps
    <2>2. plan[i].out /\ plan[i].kind = "gpio"
      BY <1>1 DEF GpioOut
    <2>3. PwmMuxed => i # idx
      BY <1>a, <2>2 DEF PwmMuxed, IoPlaces, PwmOk, PwmPoint
    <2>4. SetMode => ioAt = "mux"
      BY DEF SetMode
    <2>5. Muxed(i) => mode[plan[i].pad] = "out"
      BY <1>1, <1>a DEF IoReach
    <2> QED BY <1>1, <1>m, <2>1, <2>2, <2>3, <2>4, <2>5
  <1>2. ASSUME NEW i \in Channels, PwmPoint(i), Waved(i)' PROVE pwmFault' \/ mode'[plan[i].pad] = "af"
    <2>1. Waved(i) \/ (i = idx /\ (PwmRejected \/ PwmMuxed \/ NotPwm))
      <3>1. CASE PadSteps \/ Declare \/ CloseForgets
        BY <1>2, <1>a, <1>c, <3>1 DEF PadSteps, Start, SetLevel, SetMode, NoPoints, Declare, CloseForgets, Waved, IoPlaces
      <3>2. CASE PwmRejected \/ PwmMuxed \/ NotPwm
        <4>1. idx' = idx + 1 /\ ioAt' = "pwm" /\ ioAt \in {"pwm", "af"}
          BY <3>2 DEF PwmRejected, PwmMuxed, NotPwm, NextPwm
        <4> QED BY <1>2, <1>a, <1>c, <3>2, <4>1 DEF Waved, IoPlaces
      <3>3. CASE PwmProgrammed
        BY <1>2, <3>3 DEF PwmProgrammed, Waved
      <3>4. CASE PadsDone
        BY <1>c, <3>4 DEF PadsDone, Waved
      <3>5. CASE ScanSteps
        BY <1>2, <3>5 DEF ScanSteps, AdcSilent, AdcStarts, ScanAwaited, Convert, StreamStops, bootVars, Waved
      <3>6. CASE IoCalls
        BY <1>2, <3>6 DEF IoCalls, AdcReadChecked, GpioWrite, PwmWrite, CloseStops, bootVars, Waved
      <3> QED BY <3>1, <3>2, <3>3, <3>4, <3>5, <3>6, IoNextIs DEF WaveSteps
    <2>2. plan[i].out /\ plan[i].kind = "pwm" /\ ~ GpioOut(i)
      BY <1>2, <1>k DEF PwmPoint, GpioOut
    <2>3. pwmFault => pwmFault'
      <3>1. CASE PadSteps \/ Declare \/ CloseForgets
        BY <3>1 DEF PadSteps, Start, SetLevel, SetMode, NoPoints, Declare, CloseForgets
      <3>2. CASE WaveSteps
        BY <3>2 DEF WaveSteps, PwmRejected, PwmProgrammed, PwmMuxed, NotPwm, PadsDone
      <3>3. CASE ScanSteps
        BY <3>3 DEF ScanSteps, AdcSilent, AdcStarts, ScanAwaited, Convert, StreamStops, bootVars
      <3>4. CASE IoCalls
        BY <3>4 DEF IoCalls, AdcReadChecked, GpioWrite, PwmWrite, CloseStops, bootVars
      <3> QED BY <3>1, <3>2, <3>3, <3>4, IoNextIs
    <2>4. Waved(i) => pwmFault \/ mode[plan[i].pad] = "af"
      BY <1>2, <1>a DEF IoReach
    <2>5. ~ (NotPwm /\ i = idx)
      <3>1. NotPwm /\ i = idx => i \in Configured("pwm")
        BY <1>2, ConfiguredIs DEF NotPwm, Known, Declared, PwmPoint, IoInv
      <3> QED BY <3>1 DEF NotPwm
    <2>6. PwmRejected => pwmFault'
      BY DEF PwmRejected
    <2> QED BY <1>m, <2>1, <2>2, <2>3, <2>4, <2>5, <2>6
  <1>3. /\ ioAt' \in {"adc", "scan", "run", "halt"} => (pwmFault' => outFault')
        /\ ioAt' = "run" => ~ outFault'
    <2>1. CASE PadSteps \/ Declare \/ CloseForgets
      BY <2>1 DEF PadSteps, Start, SetLevel, SetMode, NoPoints, Declare, CloseForgets
    <2>2. CASE PwmRejected \/ PwmProgrammed \/ PwmMuxed \/ NotPwm
      BY <2>2 DEF PwmRejected, PwmProgrammed, PwmMuxed, NotPwm, NextPwm
    <2>3. CASE PadsDone
      <3>1. outFault' <=> (outFault \/ pwmFault)
        BY <2>3 DEF PadsDone
      <3>2. pwmFault' = pwmFault
        BY <2>3 DEF PadsDone
      <3>3. ioAt' = "run" => ~ outFault'
        BY <2>3 DEF PadsDone
      <3> QED BY <3>1, <3>2, <3>3
    <2>4. CASE AdcSilent \/ AdcStarts \/ ScanAwaited
      <3>1. ioAt \in {"adc", "scan"} /\ pwmFault' = pwmFault /\ outFault' = outFault
        BY <2>4 DEF AdcSilent, AdcStarts, ScanAwaited
      <3>2. ioAt' = "run" => ~ outFault
        BY <2>4 DEF AdcSilent, AdcStarts, ScanAwaited, Ended
      <3> QED BY <1>a, <3>1, <3>2 DEF IoReach
    <2>5. CASE Convert \/ StreamStops \/ IoCalls
      <3>1. pwmFault' = pwmFault /\ outFault' = outFault /\ (ioAt' = ioAt \/ ioAt' = "close")
        BY <2>5 DEF Convert, StreamStops, IoCalls, AdcReadChecked, GpioWrite, PwmWrite, CloseStops, bootVars
      <3> QED BY <1>a, <3>1 DEF IoReach
    <2> QED BY <2>1, <2>2, <2>3, <2>4, <2>5, IoNextIs DEF WaveSteps, ScanSteps
  <1>4. \A i \in Channels : (GpioOut(i)' <=> GpioOut(i)) /\ (PwmPoint(i)' <=> PwmPoint(i))
    BY <1>b DEF GpioOut, PwmPoint
  <1> QED BY <1>b, <1>1, <1>2, <1>3, <1>4 DEF IoReach

\* A PWM point that is programmed finds its timer at its carrier, or sets it.
LEMMA ProgrammedIs ==
  ASSUME IoInv, PwmProgrammed, NEW k \in Channels, k = idx
  PROVE  /\ PwmOk(k) /\ ioAt = "pwm" /\ ioAt' = "af" /\ idx' = idx /\ mode' = mode
         /\ PlanTim(k) \in Timers \X (1 .. 2) /\ PlanTim(k)[1] \in Timers /\ PlanTim(k)[2] \in 1 .. 2
         /\ timSeen' = Append(timSeen, [tim |-> PlanTim(k)[1], chan |-> PlanTim(k)[2], carrier |-> Wave(k)])
         /\ carrier' = IF EntriesOf(PlanTim(k)[1]) = {} THEN [carrier EXCEPT ![PlanTim(k)[1]] = Wave(k)] ELSE carrier
         /\ EntriesOf(PlanTim(k)[1]) # {} => carrier[PlanTim(k)[1]] = Wave(k)
         /\ EntriesOf(PlanTim(k)[1]) = {} => Leads(k, PlanTim(k)[1])
         /\ plan[k].out
  <1> DEFINE t == PlanTim(k)[1]
  <1>0. k \in Configured("pwm") /\ Usable(k) /\ IoPlan /\ IoPoints /\ IoTimers
    BY DEF PwmProgrammed, IoInv
  <1>1. /\ PwmOk(k) /\ Tim(k) = PlanTim(k) /\ Carrier(points[k].freq) = Wave(k)
        /\ points[k].init = Least(plan[k].init, 1000) /\ plan[k].out /\ ~ Refused(k)
    BY <1>0, WaveIs DEF Usable
  <1>2. ioAt = "pwm" /\ ioAt' = "af" /\ idx' = idx /\ mode' = mode
    BY DEF PwmProgrammed, padVars
  <1>3. PlanTim(k) \in Timers \X (1 .. 2) /\ t \in Timers /\ PlanTim(k)[2] \in 1 .. 2
    BY <1>1, TimerOfIs DEF PwmOk, PlanTim
  <1>4. /\ timSeen' = Append(timSeen, [tim |-> t, chan |-> PlanTim(k)[2], carrier |-> Wave(k)])
        /\ carrier' = IF EntriesOf(t) = {} THEN [carrier EXCEPT ![t] = Wave(k)] ELSE carrier
    BY <1>1 DEF PwmProgrammed
  <1>5. ASSUME EntriesOf(t) # {} PROVE carrier[t] = Wave(k)
    <2>1. PICK e \in EntriesOf(t) : \A j \in EntriesOf(t) : e <= j
      BY <1>0, <1>3, <1>5 DEF IoTimers
    <2>2. timSeen[e].carrier = Wave(k)
      BY <1>1, <2>1 DEF Refused
    <2>3. e \in DOMAIN timSeen /\ timSeen[e].tim = t
      BY <2>1 DEF EntriesOf
    <2> QED BY <1>0, <2>2, <2>3 DEF IoTimers
  <1>6. ASSUME EntriesOf(t) = {} PROVE Leads(k, t)
    <2>1. \A j \in Channels : j < k => Wanted(j)
      BY <1>2 DEF Wanted
    <2>2. \A j \in Channels : j < k /\ PwmOk(j) => PlanTim(j)[1] # t
      BY <1>0, <1>6, <2>1 DEF IoTimers
    <2> QED BY <1>1, <2>2 DEF Leads
  <1> QED BY <1>1, <1>2, <1>3, <1>4, <1>5, <1>6

\* pwm_setup's compare value is the duty that was declared.
LEMMA ProgrammedDuty ==
  ASSUME IoInv, PwmProgrammed, NEW k \in Channels, k = idx
  PROVE  /\ ccr' = [ccr EXCEPT ![PlanTim(k)] = Compare(Least(plan[k].init, 1000), Wave(k)[2])]
         /\ pwmArr' = [pwmArr EXCEPT ![k] = Wave(k)[2]]
         /\ setTo' = [setTo EXCEPT ![k] = plan[k].init]
  <1>1. k \in Configured("pwm") /\ IoPlan /\ IoPoints
    BY DEF PwmProgrammed, IoInv
  <1>2. /\ Tim(k) = PlanTim(k) /\ Carrier(points[k].freq) = Wave(k)
        /\ points[k].init = Least(plan[k].init, 1000)
    BY <1>1, WaveIs
  <1> QED BY <1>2 DEF PwmProgrammed

\* A timer is tuned once per start, by its first point, and entered with it.
LEMMA IoTimersKept ==
  ASSUME IoInv, IoNext
  PROVE  IoTimers'
  <1>a. IoTimers /\ IoPlaces
    BY DEF IoInv
  <1>b. plan' = plan /\ Channels' = Channels
    BY PlanStays
  <1>c. Channels = 1 .. Len(plan) /\ Len(plan) \in Nat /\ (plan = <<>> <=> Len(plan) = 0)
    BY PlanIs DEF IoInv
  <1>d. /\ \A i \in Channels : (PwmOk(i)' <=> PwmOk(i)) /\ PlanTim(i)' = PlanTim(i) /\ Wave(i)' = Wave(i)
        /\ \A l \in Channels, t \in Timers : Leads(l, t)' <=> Leads(l, t)
        /\ TimEntries' = TimEntries
    BY <1>b DEF PwmOk, PwmPoint, PlanTim, Wave, Leads, TimEntries
  <1>1. CASE PwmProgrammed
    <2>0. PICK k \in Channels : k = idx
      BY <1>1 DEF PwmProgrammed, Configured
    <2>p. PICK t : t = PlanTim(k)[1]
      OBVIOUS
    <2> DEFINE e == [tim |-> t, chan |-> PlanTim(k)[2], carrier |-> Wave(k)]
               n == Len(timSeen) + 1
    <2>1. /\ t \in Timers /\ PlanTim(k)[2] \in 1 .. 2 /\ PlanTim(k) \in Timers \X (1 .. 2)
          /\ timSeen' = Append(timSeen, e)
          /\ carrier' = IF EntriesOf(t) = {} THEN [carrier EXCEPT ![t] = Wave(k)] ELSE carrier
          /\ EntriesOf(t) # {} => carrier[t] = Wave(k)
          /\ EntriesOf(t) = {} => Leads(k, t)
          /\ ioAt = "pwm" /\ idx' = idx
      BY <1>1, <2>0, <2>p, ProgrammedIs
    <2>2. e \in TimEntries /\ e.tim = t /\ e.carrier = Wave(k)
      BY <2>1 DEF TimEntries
    <2> HIDE DEF e
    <2>3. timSeen \in Seq(TimEntries) /\ Len(timSeen) \in Nat /\ DOMAIN timSeen = 1 .. Len(timSeen)
      BY <1>a DEF IoTimers
    <2>4. /\ timSeen' \in Seq(TimEntries) /\ DOMAIN timSeen' = 1 .. n /\ n \in Nat
          /\ timSeen'[n] = e /\ \A q \in DOMAIN timSeen : timSeen'[q] = timSeen[q]
      BY <2>1, <2>2, <2>3, Appended
    <2>5. \A u \in Timers : EntriesOf(u)' = IF u = t THEN EntriesOf(u) \cup {n} ELSE EntriesOf(u)
      BY <2>2, <2>3, <2>4 DEF EntriesOf
    <2>6. carrier'[t] = Wave(k) /\ carrier' = [u \in Timers |-> carrier'[u]]
          /\ \A u \in Timers : u # t => carrier'[u] = carrier[u]
      BY <1>a, <2>1 DEF IoTimers
    <2>7. \A q \in DOMAIN timSeen : timSeen[q].tim \in Timers /\ timSeen[q].carrier = carrier[timSeen[q].tim]
      <3>1. \A q \in DOMAIN timSeen : timSeen[q] \in TimEntries
        BY <2>3
      <3>2. \A w \in TimEntries : w.tim \in Timers
        BY DEF TimEntries
      <3> QED BY <1>a, <3>1, <3>2 DEF IoTimers
    <2>8. \A q \in DOMAIN timSeen' : timSeen'[q].carrier = carrier'[timSeen'[q].tim]
      <3>1. ASSUME NEW q \in DOMAIN timSeen PROVE carrier'[timSeen[q].tim] = carrier[timSeen[q].tim]
        <4>1. CASE timSeen[q].tim = t
          <5>1. q \in EntriesOf(t)
            BY <4>1 DEF EntriesOf
          <5> QED BY <2>1, <5>1
        <4>2. CASE timSeen[q].tim # t
          BY <2>6, <2>7, <4>2
        <4> QED BY <4>1, <4>2
      <3>2. \A q \in DOMAIN timSeen' : q = n \/ q \in DOMAIN timSeen
        BY <2>3, <2>4
      <3> QED BY <2>2, <2>4, <2>6, <2>7, <3>1, <3>2
    <2>9. \A u \in Timers : EntriesOf(u)' # {} => \E q \in EntriesOf(u)' : \A j \in EntriesOf(u)' : q <= j
      <3>1. \A u \in Timers : EntriesOf(u) # {} => \E q \in EntriesOf(u) : \A j \in EntriesOf(u) : q <= j
        BY <1>a DEF IoTimers
      <3>2. CASE EntriesOf(t) = {}
        <4>1. EntriesOf(t)' = {n} /\ n <= n
          BY <2>1, <2>4, <2>5, <3>2
        <4> QED BY <2>5, <3>1, <4>1
      <3>3. CASE EntriesOf(t) # {}
        <4>1. PICK q \in EntriesOf(t) : \A j \in EntriesOf(t) : q <= j
          BY <2>1, <3>1, <3>3
        <4>2. q <= n
          BY <2>3, <2>4 DEF EntriesOf
        <4>3. q \in EntriesOf(t)' /\ \A j \in EntriesOf(t)' : q <= j
          BY <2>1, <2>5, <4>1, <4>2
        <4> QED BY <2>5, <3>1, <4>3
      <3> QED BY <3>2, <3>3
    <2>10. \A u \in Timers : EntriesOf(u)' # {} => \E l \in Channels : Leads(l, u) /\ carrier'[u] = Wave(l)
      <3>1. \A u \in Timers : EntriesOf(u) # {} => \E l \in Channels : Leads(l, u) /\ carrier[u] = Wave(l)
        BY <1>a DEF IoTimers
      <3> QED BY <2>1, <2>5, <2>6, <3>1
    <2>a. ASSUME NEW i \in Channels, Wanted(i)', PwmOk(i)
          PROVE  \A u \in Timers : u = PlanTim(i)[1] => EntriesOf(u)' # {}
      <3>1. i = k \/ Wanted(i)
        BY <2>0, <2>1, <1>a, <1>c, <2>a DEF Wanted, IoPlaces
      <3>2. Wanted(i) => EntriesOf(PlanTim(i)[1]) # {}
        BY <1>a, <2>a DEF IoTimers
      <3>3. \A u \in Timers : (u = t \/ EntriesOf(u) # {}) => EntriesOf(u)' # {}
        BY <2>5
      <3> QED BY <2>p, <3>1, <3>2, <3>3
    <2>b. \A i \in Channels : PwmOk(i) => PlanTim(i)[1] \in Timers
      BY TimerOfIs DEF PwmOk, PlanTim
    <2>c. \A i \in Channels : Wanted(i)' /\ PwmOk(i) => \A u \in Timers : u = PlanTim(i)[1] => EntriesOf(u)' # {}
      BY <2>a
    <2>11. \A i \in Channels : Wanted(i)' /\ PwmOk(i)' => EntriesOf(PlanTim(i)[1])' # {}
      BY <1>d, <2>b, <2>c
    <2>12. ccr' = [tc \in Timers \X (1 .. 2) |-> ccr'[tc]]
      <3> DEFINE TC == Timers \X (1 .. 2)
      <3>1. ccr = [tc \in TC |-> ccr[tc]]
        BY <1>a DEF IoTimers
      <3>2. ccr' = [ccr EXCEPT ![PlanTim(k)] = Compare(Least(plan[k].init, 1000), Wave(k)[2])]
        BY <1>1, <2>0, ProgrammedDuty
      <3> HIDE DEF TC
      <3>3. ccr' = [tc \in TC |-> ccr'[tc]]
        BY <3>1, <3>2
      <3> QED BY <3>3 DEF TC
    <2> QED BY <1>b, <1>d, <2>4, <2>6, <2>8, <2>9, <2>10, <2>11, <2>12 DEF IoTimers
  <1>2. CASE CloseForgets
    <2>1. timSeen' = <<>> /\ ioAt' = "declare" /\ carrier' = carrier /\ ccr' = ccr
      BY <1>2 DEF CloseForgets
    <2>2. timSeen' \in Seq(TimEntries) /\ DOMAIN timSeen' = {} /\ \A u \in Timers : EntriesOf(u)' = {}
      BY <2>1 DEF EntriesOf
    <2> QED BY <1>a, <1>d, <2>1, <2>2 DEF IoTimers, Wanted
  <1>3. CASE ~ PwmProgrammed /\ ~ CloseForgets
    <2>1. timSeen' = timSeen /\ carrier' = carrier /\ ccr' = [tc \in Timers \X (1 .. 2) |-> ccr'[tc]]
      <3>1. CASE PadSteps \/ Declare
        BY <1>a, <3>1 DEF IoTimers, PadSteps, Start, SetLevel, SetMode, NoPoints, Declare, timVars
      <3>2. CASE WaveSteps
        BY <1>3, <1>a, <3>2 DEF IoTimers, WaveSteps, PwmRejected, PwmMuxed, NotPwm, PadsDone, timVars
      <3>3. CASE ScanSteps
        BY <1>a, <3>3 DEF IoTimers, ScanSteps, AdcSilent, AdcStarts, ScanAwaited, Convert, StreamStops, timVars
      <3>4. CASE IoCalls
        BY <1>a, <3>4 DEF IoTimers, IoCalls, AdcReadChecked, GpioWrite, PwmWrite, CloseStops, timVars
      <3> QED BY <1>3, <3>1, <3>2, <3>3, <3>4, IoNextIs
    <2>2. \A u \in Timers : EntriesOf(u)' = EntriesOf(u)
      BY <2>1 DEF EntriesOf
    <2>3. ASSUME NEW i \in Channels, Wanted(i)', PwmOk(i) PROVE EntriesOf(PlanTim(i)[1]) # {}
      <3>1. Wanted(i) \/ (i = idx /\ (PwmRejected \/ NotPwm))
        <4>1. CASE PadSteps \/ Declare
          BY <1>a, <1>c, <2>3, <4>1 DEF IoPlaces, PadSteps, Start, SetLevel, SetMode, NoPoints, Declare, Wanted
        <4>2. CASE PwmRejected \/ PwmMuxed \/ NotPwm
          <5>1. idx' = idx + 1 /\ ioAt' = "pwm" /\ ioAt \in {"pwm", "af"} /\ (PwmMuxed <=> ioAt = "af")
            BY <4>2 DEF PwmRejected, PwmMuxed, NotPwm, NextPwm
          <5>2. i < idx \/ i = idx
            BY <1>a, <1>c, <2>3, <5>1 DEF IoPlaces, Wanted
          <5> QED BY <4>2, <5>1, <5>2 DEF Wanted
        <4>3. CASE PadsDone
          BY <2>3, <4>3 DEF PadsDone, Wanted
        <4>4. CASE ScanSteps
          BY <2>3, <4>4 DEF ScanSteps, AdcSilent, AdcStarts, ScanAwaited, Convert, StreamStops, Ended, bootVars, Wanted
        <4>5. CASE IoCalls
          BY <2>3, <4>5 DEF IoCalls, AdcReadChecked, GpioWrite, PwmWrite, CloseStops, bootVars, Wanted
        <4> QED BY <1>3, <4>1, <4>2, <4>3, <4>4, <4>5, IoNextIs DEF WaveSteps
      <3>2. ~ (NotPwm /\ i = idx)
        <4>1. NotPwm /\ i = idx => i \in Configured("pwm")
          BY <2>3, ConfiguredIs DEF NotPwm, Known, Declared, PwmOk, PwmPoint, IoInv
        <4> QED BY <4>1 DEF NotPwm
      <3>3. CASE PwmRejected /\ i = idx
        <4>1. Tim(i) = PlanTim(i) /\ (Maps(i) /\ Fits(i))
          BY <2>3, <3>3, WaveIs DEF PwmRejected, IoInv
        <4>2. Refused(i)
          BY <3>3, <4>1 DEF PwmRejected, Usable
        <4> QED BY <4>1, <4>2 DEF Refused
      <3>4. CASE Wanted(i)
        BY <1>a, <2>3, <3>4 DEF IoTimers
      <3> QED BY <3>1, <3>2, <3>3, <3>4
    <2>4. \A i \in Channels : PwmOk(i) => PlanTim(i)[1] \in Timers
      BY TimerOfIs DEF PwmOk, PlanTim
    <2>5. \A i \in Channels : Wanted(i)' /\ PwmOk(i) => \A u \in Timers : u = PlanTim(i)[1] => EntriesOf(u)' # {}
      BY <2>2, <2>3
    <2>6. \A i \in Channels : Wanted(i)' /\ PwmOk(i)' => EntriesOf(PlanTim(i)[1])' # {}
      BY <1>d, <2>4, <2>5
    <2> QED BY <1>a, <1>b, <1>d, <2>1, <2>2, <2>6 DEF IoTimers
  <1> QED BY <1>1, <1>2, <1>3

\* A channel that is driven stays driven, and another is only by its programming.
LEMMA DrivenIs ==
  ASSUME IoInv, IoNext
  PROVE  \A i \in Channels : Driven(i)' <=> (Driven(i) \/ (PwmProgrammed /\ i = idx))
  <1>a. IoPads /\ IoPlaces /\ IoScan
    BY DEF IoInv
  <1>b. plan' = plan /\ Channels' = Channels
    BY PlanStays
  <1>m. \A i \in Channels : plan[i].out =>
            mode'[plan[i].pad] = IF ioAt = "mux" /\ SetMode /\ i = idx /\ GpioOut(i) THEN "out"
                                 ELSE IF PwmMuxed /\ i = idx THEN "af" ELSE mode[plan[i].pad]
    BY ModeIs
  <1>1. SUFFICES ASSUME NEW i \in Channels, plan[i].out
                 PROVE  Driven(i)' <=> (Driven(i) \/ (PwmProgrammed /\ i = idx))
    <2>1. \A i \in Channels : ~ plan[i].out => ~ Driven(i) /\ ~ Driven(i)'
      BY <1>b DEF Driven
    <2>2. \A i \in Channels : PwmProgrammed /\ i = idx => plan[i].out
      BY ProgrammedIs
    <2> QED BY <2>1, <2>2
  <1>2. mode[plan[i].pad] = "af" => ~ GpioOut(i)
    BY <1>1, <1>a DEF IoPads, PwmOk, PwmPoint, GpioOut
  <1>3. CASE PwmProgrammed
    <2>1. ioAt = "pwm" /\ ioAt' = "af" /\ idx' = idx /\ mode' = mode
      BY <1>3 DEF PwmProgrammed, padVars
    <2> QED BY <1>1, <1>b, <1>3, <2>1 DEF Driven
  <1>4. CASE PwmMuxed
    <2>1. ioAt = "af" /\ ioAt' = "pwm" /\ ~ PwmProgrammed /\ ~ SetMode
      BY <1>4 DEF PwmMuxed, NextPwm, PwmProgrammed, SetMode
    <2>2. mode'[plan[i].pad] = IF i = idx THEN "af" ELSE mode[plan[i].pad]
      BY <1>1, <1>4, <1>m, <2>1
    <2> QED BY <1>1, <1>b, <2>1, <2>2 DEF Driven
  <1>5. CASE ~ PwmProgrammed /\ ~ PwmMuxed
    <2>1. mode'[plan[i].pad] = "af" <=> mode[plan[i].pad] = "af"
      BY <1>1, <1>2, <1>5, <1>m
    <2>2. (ioAt' = "af" <=> ioAt = "af") /\ (ioAt = "af" => idx' = idx)
      <3>1. CASE PadSteps \/ Declare \/ CloseForgets
        BY <3>1 DEF PadSteps, Start, SetLevel, SetMode, NoPoints, Declare, CloseForgets
      <3>2. CASE WaveSteps
        BY <1>5, <3>2 DEF WaveSteps, PwmRejected, NotPwm, PadsDone, NextPwm
      <3>3. CASE ScanSteps
        BY <3>3 DEF ScanSteps, AdcSilent, AdcStarts, ScanAwaited, Convert, StreamStops, Ended, bootVars
      <3>4. CASE IoCalls
        BY <3>4 DEF IoCalls, AdcReadChecked, GpioWrite, PwmWrite, CloseStops, bootVars
      <3> QED BY <3>1, <3>2, <3>3, <3>4, IoNextIs
    <2> QED BY <1>1, <1>b, <1>5, <2>1, <2>2 DEF Driven
  <1> QED BY <1>3, <1>4, <1>5

\* The leading point of a timer is one.
LEMMA OneLeads ==
  ASSUME IoPlan, NEW k \in Channels, NEW l \in Channels, NEW t, Leads(k, t), Leads(l, t)
  PROVE  k = l
  BY PlanIs DEF Leads

\* The points with a waveform keep their carriers, and what they record of it.
LEMMA WavesKept ==
  ASSUME IoInv, IoNext
  PROVE  /\ pwmArr' = [i \in Channels |-> pwmArr'[i]]
         /\ \A i \in Channels : pwmArr'[i] # 0 => pwmArr'[i] = Wave(i)[2]
         /\ \A i \in Channels : Driven(i)' => PwmOk(i) /\ carrier'[PlanTim(i)[1]] = Wave(i) /\ Tuned(i)
         /\ \A i \in Channels : Driven(i) => carrier'[PlanTim(i)[1]] = carrier[PlanTim(i)[1]]
  <1>a. IoDuties /\ IoTimers /\ IoPlan
    BY DEF IoInv
  <1>1. CASE PwmProgrammed
    <2>0. PICK k \in Channels : k = idx
      BY <1>1 DEF PwmProgrammed, Configured
    <2>p. PICK t : t = PlanTim(k)[1]
      OBVIOUS
    <2>a. pwmArr' = [pwmArr EXCEPT ![k] = Wave(k)[2]]
      BY <1>1, <2>0, ProgrammedDuty
    <2>1. /\ PwmOk(k) /\ t \in Timers
          /\ carrier' = IF EntriesOf(t) = {} THEN [carrier EXCEPT ![t] = Wave(k)] ELSE carrier
          /\ EntriesOf(t) # {} => carrier[t] = Wave(k)
          /\ EntriesOf(t) = {} => Leads(k, t)
      BY <1>1, <2>0, <2>p, ProgrammedIs
    <2>2. pwmArr' = [i \in Channels |-> pwmArr'[i]] /\ \A i \in Channels : pwmArr'[i] # 0 => pwmArr'[i] = Wave(i)[2]
      BY <1>a, <2>a DEF IoDuties
    <2>3. carrier'[t] = Wave(k) /\ \A u \in Timers : u # t => carrier'[u] = carrier[u]
      BY <1>a, <2>1 DEF IoTimers
    <2>4. Tuned(k)
      <3>1. CASE EntriesOf(t) = {}
        BY <2>1, <2>p, <3>1 DEF Tuned
      <3>2. CASE EntriesOf(t) # {}
        <4>1. PICK l \in Channels : Leads(l, t) /\ carrier[t] = Wave(l)
          BY <1>a, <2>1, <3>2 DEF IoTimers
        <4> QED BY <2>1, <2>p, <3>2, <4>1 DEF Tuned
      <3> QED BY <3>1, <3>2
    <2>5. ASSUME NEW i \in Channels, Driven(i)
          PROVE  PwmOk(i) /\ carrier'[PlanTim(i)[1]] = carrier[PlanTim(i)[1]] /\ carrier[PlanTim(i)[1]] = Wave(i) /\ Tuned(i)
      <3>1. PwmOk(i) /\ carrier[PlanTim(i)[1]] = Wave(i) /\ Tuned(i)
        BY <1>a, <2>5 DEF IoDuties
      <3>2. PlanTim(i)[1] \in Timers
        BY <3>1, TimerOfIs DEF PwmOk, PlanTim
      <3>3. CASE PlanTim(i)[1] = t /\ EntriesOf(t) = {}
        <4>1. PICK l \in Channels : Leads(l, t) /\ Wave(l) = Wave(i)
          BY <3>1, <3>3 DEF Tuned
        <4>2. l = k
          BY <1>a, <2>1, <3>3, <4>1, OneLeads
        <4> QED BY <2>3, <3>1, <3>3, <4>1, <4>2
      <3>4. CASE PlanTim(i)[1] = t /\ EntriesOf(t) # {}
        BY <2>1, <3>1, <3>4
      <3>5. CASE PlanTim(i)[1] # t
        BY <2>3, <3>1, <3>2, <3>5
      <3> QED BY <3>3, <3>4, <3>5
    <2>6. \A i \in Channels : Driven(i)' => i = k \/ Driven(i)
      BY <2>0, DrivenIs
    <2>7. ASSUME NEW i \in Channels, Driven(i)'
          PROVE  PwmOk(i) /\ carrier'[PlanTim(i)[1]] = Wave(i) /\ Tuned(i)
      <3>1. CASE i = k
        BY <2>1, <2>3, <2>4, <2>p, <3>1
      <3>2. CASE Driven(i)
        BY <2>5, <3>2
      <3> QED BY <2>6, <2>7, <3>1, <3>2
    <2>8. \A i \in Channels : Driven(i) => carrier'[PlanTim(i)[1]] = carrier[PlanTim(i)[1]]
      BY <2>5
    <2> QED BY <2>2, <2>7, <2>8
  <1>2. CASE ~ PwmProgrammed
    <2>1. carrier' = carrier
      <3>1. CASE PadSteps \/ Declare \/ CloseForgets
        BY <3>1 DEF PadSteps, Start, SetLevel, SetMode, NoPoints, Declare, CloseForgets, timVars
      <3>2. CASE WaveSteps
        BY <1>2, <3>2 DEF WaveSteps, PwmRejected, PwmMuxed, NotPwm, PadsDone, timVars
      <3>3. CASE ScanSteps
        BY <3>3 DEF ScanSteps, AdcSilent, AdcStarts, ScanAwaited, Convert, StreamStops, timVars
      <3>4. CASE IoCalls
        BY <3>4 DEF IoCalls, AdcReadChecked, GpioWrite, PwmWrite, CloseStops, timVars
      <3> QED BY <3>1, <3>2, <3>3, <3>4, IoNextIs
    <2>2. \A i \in Channels : Driven(i)' => PwmOk(i) /\ carrier'[PlanTim(i)[1]] = Wave(i) /\ Tuned(i)
      BY <1>2, <1>a, <2>1, DrivenIs DEF IoDuties
    <2>3. CASE PwmRejected
      <3>0. PICK k \in Channels : k = idx
        BY <2>3 DEF PwmRejected, Configured
      <3>1. Carrier(points[k].freq) = Wave(k)
        BY <2>3, <3>0, WaveIs DEF PwmRejected, IoInv
      <3>2. pwmArr' = [pwmArr EXCEPT ![k] = Wave(k)[2]] \/ pwmArr' = [pwmArr EXCEPT ![k] = pwmArr[k]]
        BY <2>3, <3>0, <3>1 DEF PwmRejected
      <3>3. pwmArr' = [i \in Channels |-> pwmArr'[i]] /\ \A i \in Channels : pwmArr'[i] # 0 => pwmArr'[i] = Wave(i)[2]
        BY <1>a, <3>2 DEF IoDuties
      <3> QED BY <2>1, <2>2, <3>3
    <2>4. CASE CloseForgets
      <3>1. pwmArr' = [i \in Channels |-> 0]
        BY <2>4 DEF CloseForgets
      <3> QED BY <2>1, <2>2, <3>1
    <2>5. CASE ~ PwmRejected /\ ~ CloseForgets
      <3>1. pwmArr' = pwmArr
        <4>1. CASE PadSteps \/ Declare
          BY <4>1 DEF PadSteps, Start, SetLevel, SetMode, NoPoints, Declare, timVars
        <4>2. CASE WaveSteps
          BY <1>2, <2>5, <4>2 DEF WaveSteps, PwmMuxed, NotPwm, PadsDone, timVars
        <4>3. CASE ScanSteps
          BY <4>3 DEF ScanSteps, AdcSilent, AdcStarts, ScanAwaited, Convert, StreamStops, timVars
        <4>4. CASE IoCalls
          BY <4>4 DEF IoCalls, AdcReadChecked, GpioWrite, PwmWrite, CloseStops, timVars
        <4> QED BY <2>5, <4>1, <4>2, <4>3, <4>4, IoNextIs
      <3> QED BY <1>a, <2>1, <2>2, <3>1 DEF IoDuties
    <2> QED BY <2>3, <2>4, <2>5
  <1> QED BY <1>1, <1>2

\* DutyOf, of what was declared.
LEMMA DutyIs ==
  ASSUME NEW i \in Channels
  PROVE  DutyOf(i) = Compare(Least(setTo[i], 1000), carrier[PlanTim(i)[1]][2])
  BY DEF DutyOf, PlanTim

Alone(i) == \A j \in Channels : j # i /\ Driven(j) => PlanTim(j) # PlanTim(i)
Shows(i) == ccr[PlanTim(i)] = Compare(Least(setTo[i], 1000), carrier[PlanTim(i)[1]][2])

\* OwnDutiesKept, in the terms of what was declared.
LEMMA OwnDutiesAre == OwnDutiesKept <=> \A i \in Channels : Driven(i) /\ Alone(i) => Shows(i)
  BY DutyIs DEF OwnDutiesKept, Alone, Shows, PlanTim

Commands(i, v) == /\ ccr' = [ccr EXCEPT ![PlanTim(i)] = Compare(Least(v, 1000), Wave(i)[2])]
                  /\ setTo' = [setTo EXCEPT ![i] = v]

\* What a step does to the compare registers and to what was last commanded.
LEMMA CommandedIs ==
  ASSUME IoInv, IoNext
  PROVE  \A i \in Channels : Driven(i) =>
            \/ ccr'[PlanTim(i)] = ccr[PlanTim(i)] /\ setTo'[i] = setTo[i]
            \/ ccr'[PlanTim(i)] = Compare(Least(setTo'[i], 1000), Wave(i)[2])
            \/ \E j \in Channels : j # i /\ PlanTim(j) = PlanTim(i) /\ Driven(j)'
  <1>a. IoDuties /\ IoTimers /\ IoPlan /\ IoPoints /\ IoPads
    BY DEF IoInv
  <1>b. setTo = [i \in Channels |-> setTo[i]]
    BY <1>a DEF IoPads
  <1> DEFINE TC == Timers \X (1 .. 2)
  <1>c. ccr = [tc \in TC |-> ccr[tc]]
    BY <1>a DEF IoTimers
  <1>d. \A i \in Channels : Driven(i) => PwmOk(i) /\ plan[i].kind = "pwm" /\ PlanTim(i) \in TC
    BY <1>a, TimerOfIs DEF IoDuties, PwmOk, PwmPoint, PlanTim
  <1> HIDE DEF TC
  <1>1. ASSUME NEW k \in Channels, NEW v, Driven(k)',
               Commands(k, v)
        PROVE  \A i \in Channels : Driven(i) =>
                 \/ ccr'[PlanTim(i)] = ccr[PlanTim(i)] /\ setTo'[i] = setTo[i]
                 \/ ccr'[PlanTim(i)] = Compare(Least(setTo'[i], 1000), Wave(i)[2])
                 \/ \E j \in Channels : j # i /\ PlanTim(j) = PlanTim(i) /\ Driven(j)'
    <2>1. SUFFICES ASSUME NEW i \in Channels, Driven(i)
                   PROVE  \/ ccr'[PlanTim(i)] = ccr[PlanTim(i)] /\ setTo'[i] = setTo[i]
                          \/ ccr'[PlanTim(i)] = Compare(Least(setTo'[i], 1000), Wave(i)[2])
                          \/ \E j \in Channels : j # i /\ PlanTim(j) = PlanTim(i) /\ Driven(j)'
      OBVIOUS
    <2>2. CASE i = k
      BY <1>1, <1>b, <1>c, <1>d, <2>1, <2>2 DEF Commands
    <2>3. CASE i # k /\ PlanTim(i) = PlanTim(k)
      BY <1>1, <2>3
    <2>4. CASE i # k /\ PlanTim(i) # PlanTim(k)
      BY <1>1, <1>b, <1>c, <1>d, <2>1, <2>4 DEF Commands
    <2> QED BY <2>2, <2>3, <2>4
  <1>2. CASE PwmProgrammed
    <2>0. PICK k \in Channels : k = idx
      BY <1>2 DEF PwmProgrammed, Configured
    <2>1. Driven(k)'
      BY <1>2, <2>0, DrivenIs
    <2>2. Commands(k, plan[k].init)
      BY <1>2, <2>0, ProgrammedDuty DEF Commands
    <2> QED BY <1>1, <2>1, <2>2
  <1>3. CASE \E c \in Channels, v \in {0, 250} : PwmWrite(c, v)
    <2>1. PICK k \in Channels, v \in {0, 250} : PwmWrite(k, v)
      BY <1>3
    <2>2. k \in Configured("pwm") /\ ioAt = "run" /\ pwmArr[k] # 0
      BY <2>1 DEF PwmWrite
    <2>3. PwmPoint(k) /\ plan[k].out /\ points[k].pad = plan[k].pad
      <3>1. Known(k) /\ plan[k].kind = "pwm" /\ points[k].pad = plan[k].pad
        BY <1>a, <2>2, ConfiguredIs
      <3> QED BY <1>a, <3>1, PlanIs DEF Known, PwmPoint
    <2>4. Driven(k)
      BY <2>2, <2>3 DEF IoInv, IoReach, Waved, Driven
    <2>5. Driven(k)'
      BY <2>4, DrivenIs
    <2>6. pwmArr[k] = Wave(k)[2] /\ Tim(k) = PlanTim(k)
      BY <1>a, <2>2, <2>3 DEF IoDuties, Tim, PlanTim
    <2>7. Commands(k, v)
      BY <2>1, <2>6 DEF PwmWrite, Commands
    <2> QED BY <1>1, <2>5, <2>7
  <1>4. CASE SetLevel \/ \E i \in Channels, v \in 0 .. 1 : GpioWrite(i, v)
    <2>1. PICK k \in Channels : (k \in Configured("gpio") \/ setTo' = setTo) /\ ccr' = ccr
                                /\ ((\E v : setTo' = [setTo EXCEPT ![k] = v]) \/ setTo' = setTo)
      <3>1. CASE SetLevel
        <4>1. idx \in Channels /\ ccr' = ccr
          BY <3>1 DEF SetLevel, timVars
        <4>2. \/ idx \in Configured("gpio") /\ setTo' = [setTo EXCEPT ![idx] = plan[idx].init]
              \/ setTo' = setTo
          BY <3>1 DEF SetLevel
        <4> QED BY <4>1, <4>2
      <3>2. CASE \E i \in Channels, v \in 0 .. 1 : GpioWrite(i, v)
        <4>1. PICK i \in Channels, v \in 0 .. 1 : GpioWrite(i, v)
          BY <3>2
        <4>2. i \in Configured("gpio") /\ ccr' = ccr /\ setTo' = [setTo EXCEPT ![i] = v]
          BY <4>1 DEF GpioWrite, timVars
        <4> QED BY <4>2
      <3> QED BY <1>4, <3>1, <3>2
    <2>2. \A i \in Channels : Driven(i) => k \notin Configured("gpio") \/ i # k
      BY <1>a, <1>d, ConfiguredIs
    <2>3. \A i \in Channels : Driven(i) => setTo'[i] = setTo[i]
      BY <1>b, <2>1, <2>2
    <2> QED BY <2>1, <2>3
  <1>5. CASE \/ Declare \/ Start \/ SetMode \/ NoPoints \/ PwmRejected \/ PwmMuxed \/ NotPwm \/ PadsDone
             \/ ScanSteps \/ (\E i \in Channels : AdcReadChecked(i)) \/ CloseStops \/ CloseForgets
    <2>1. ccr' = ccr /\ setTo' = setTo
      <3>1. CASE Declare \/ Start \/ SetMode \/ NoPoints
        BY <3>1 DEF Declare, Start, SetMode, NoPoints, timVars, ioHistVars
      <3>2. CASE PwmRejected \/ PwmMuxed \/ NotPwm \/ PadsDone
        BY <3>2 DEF PwmRejected, PwmMuxed, NotPwm, PadsDone, timVars, ioHistVars
      <3>3. CASE ScanSteps
        BY <3>3 DEF ScanSteps, AdcSilent, AdcStarts, ScanAwaited, Convert, StreamStops, timVars, ioHistVars
      <3>4. CASE (\E i \in Channels : AdcReadChecked(i)) \/ CloseStops \/ CloseForgets
        BY <3>4 DEF AdcReadChecked, CloseStops, CloseForgets, timVars, ioHistVars
      <3> QED BY <1>5, <3>1, <3>2, <3>3, <3>4
    <2> QED BY <2>1
  <1> QED BY <1>2, <1>3, <1>4, <1>5, IoNextIs DEF PadSteps, WaveSteps, IoCalls

\* A later point of the timer changes neither carrier nor duty of a driven one.
LEMMA IoDutiesKept ==
  ASSUME IoInv, IoNext
  PROVE  IoDuties'
  <1>a. IoDuties
    BY DEF IoInv
  <1>b. plan' = plan /\ Channels' = Channels
    BY PlanStays
  <1>1. \A i \in Channels : (PwmOk(i)' <=> PwmOk(i)) /\ PlanTim(i)' = PlanTim(i) /\ Wave(i)' = Wave(i) /\ (Tuned(i)' <=> Tuned(i))
    BY <1>b DEF PwmOk, PwmPoint, PlanTim, Wave, Tuned, Leads
  <1>2. /\ pwmArr' = [i \in Channels |-> pwmArr'[i]]
        /\ \A i \in Channels : pwmArr'[i] # 0 => pwmArr'[i] = Wave(i)[2]
        /\ \A i \in Channels : Driven(i)' => PwmOk(i) /\ carrier'[PlanTim(i)[1]] = Wave(i) /\ Tuned(i)
    BY WavesKept
  <1>3. \A i \in Channels : Alone(i)' <=> \A j \in Channels : j # i /\ Driven(j)' => PlanTim(j) # PlanTim(i)
    BY <1>1, <1>b DEF Alone
  <1>4. \A i \in Channels : Shows(i)' <=> ccr'[PlanTim(i)] = Compare(Least(setTo'[i], 1000), carrier'[PlanTim(i)[1]][2])
    BY <1>1, <1>b DEF Shows
  <1>5. ASSUME NEW i \in Channels, Driven(i)', Alone(i)' PROVE Shows(i)'
    <2>1. carrier'[PlanTim(i)[1]] = Wave(i)
      BY <1>2, <1>5
    <2>2. CASE Driven(i)
      <3>1. Alone(i)
        BY <1>3, <1>5, DrivenIs DEF Alone
      <3>2. Shows(i)
        BY <1>a, <2>2, <3>1, OwnDutiesAre DEF IoDuties
      <3>3. carrier'[PlanTim(i)[1]] = carrier[PlanTim(i)[1]]
        BY <2>2, WavesKept
      <3>4. \/ ccr'[PlanTim(i)] = ccr[PlanTim(i)] /\ setTo'[i] = setTo[i]
            \/ ccr'[PlanTim(i)] = Compare(Least(setTo'[i], 1000), Wave(i)[2])
            \/ \E j \in Channels : j # i /\ PlanTim(j) = PlanTim(i) /\ Driven(j)'
        BY <2>2, CommandedIs
      <3>5. ~ \E j \in Channels : j # i /\ PlanTim(j) = PlanTim(i) /\ Driven(j)'
        BY <1>3, <1>5
      <3> QED BY <1>4, <2>1, <3>2, <3>3, <3>4, <3>5 DEF Shows
    <2>3. CASE ~ Driven(i)
      <3>1. PwmProgrammed /\ i = idx
        BY <1>5, <2>3, DrivenIs
      <3>2. /\ ccr' = [ccr EXCEPT ![PlanTim(i)] = Compare(Least(plan[i].init, 1000), Wave(i)[2])]
            /\ setTo' = [setTo EXCEPT ![i] = plan[i].init]
        BY <3>1, ProgrammedDuty
      <3>3. setTo'[i] = plan[i].init
        BY <3>2 DEF IoInv, IoPads
      <3>4. ccr'[PlanTim(i)] = Compare(Least(plan[i].init, 1000), Wave(i)[2])
        <4> DEFINE TC == Timers \X (1 .. 2)
        <4>1. ccr = [tc \in TC |-> ccr[tc]]
          BY DEF IoInv, IoTimers
        <4>2. PlanTim(i) \in TC
          BY <1>2, <1>5, TimerOfIs DEF PwmOk, PlanTim
        <4> HIDE DEF TC
        <4> QED BY <3>2, <4>1, <4>2
      <3> QED BY <1>4, <2>1, <3>3, <3>4
    <2> QED BY <2>2, <2>3
  <1>6. OwnDutiesKept'
    <2>1. OwnDutiesKept' <=> \A i \in Channels : Driven(i)' /\ Alone(i)' => Shows(i)'
      <3>1. (OwnDutiesKept <=> \A i \in Channels : Driven(i) /\ Alone(i) => Shows(i))'
        BY OwnDutiesAre, PTL
      <3> QED BY <1>b, <3>1
    <2> QED BY <1>5, <2>1
  <1> QED BY <1>1, <1>2, <1>6, <1>b DEF IoDuties

\* Each part of the invariant is kept by every step.
LEMMA IoSteps == ASSUME IoInv, IoNext PROVE IoInv'
  <1>1. IoPlan'
    BY PlanStays DEF IoInv, IoPlan
  <1> QED BY <1>1, IoPlacesKept, IoPointsKept, IoSlotsKept, IoScanKept, IoPadsKept, IoReachKept,
             IoTimersKept, IoDutiesKept DEF IoInv

\* Nothing the driver or the converter holds changes.
LEMMA IoStutters == ASSUME IoInv, UNCHANGED ioVars PROVE IoInv'
  <1>1. /\ UNCHANGED <<plan, ioAt, idx, points, outFault, pwmFault, mode, odr, carrier, ccr, timSeen, pwmArr>>
        /\ UNCHANGED <<adcN, firstReady, tcif, dmaArr, rank, conv, starts, setTo, fabricated>>
    BY DEF ioVars, bootVars, padVars, timVars, adcVars, ioHistVars
  <1>2. Channels' = Channels /\ \A i \in Channels :
           /\ Declared(i)' <=> Declared(i)
           /\ Known(i)' <=> Known(i)
           /\ AdcPoint(i)' <=> AdcPoint(i)
    BY <1>1 DEF Channels, Declared, Known, AdcPoint
  <1>3. IoPlan' /\ IoPlaces' /\ IoPads'
    BY <1>1 DEF IoInv, IoPlan, IoPlaces, IoPads, Channels, PwmOk, PwmPoint, GpioOut, OutputsHold, Live
  <1>4. IoPoints' /\ IoSlots' /\ IoScan'
    BY <1>1, <1>2 DEF IoInv, IoPoints, IoSlots, IoScan, Sampled, Unset
  <1>5. IoReach'
    BY <1>1 DEF IoInv, IoReach, Channels, GpioOut, PwmPoint, Muxed, Waved
  <1>7. IoTimers'
    <2>1. TimEntries' = TimEntries /\ \A t \in Timers : EntriesOf(t)' = EntriesOf(t)
      BY <1>1, <1>2 DEF TimEntries, Wave, EntriesOf
    <2>2. \A i \in Channels : (PwmOk(i)' <=> PwmOk(i)) /\ PlanTim(i)' = PlanTim(i) /\ Wave(i)' = Wave(i)
                                /\ (Wanted(i)' <=> Wanted(i))
      BY <1>1 DEF PwmOk, PwmPoint, PlanTim, Wave, Wanted
    <2>3. \A l \in Channels, t \in Timers : Leads(l, t)' <=> Leads(l, t)
      BY <1>1 DEF Leads, PwmOk, PwmPoint, PlanTim, Channels
    <2>4. \A i \in Channels : Wanted(i)' /\ PwmOk(i)' => EntriesOf(PlanTim(i)[1])' # {}
      BY <1>1 DEF IoInv, IoTimers, Wanted, PwmOk, PwmPoint, PlanTim, EntriesOf
    <2> QED BY <1>1, <1>2, <2>1, <2>3, <2>4, <2>2 DEF IoInv, IoTimers
  <1>6. IoDuties'
    BY <1>1 DEF IoInv, IoDuties, OwnDutiesKept, DutyOf, Driven, PwmOk, PwmPoint, PlanTim, Wave, Tuned, Leads, Channels
  <1> QED BY <1>3, <1>4, <1>5, <1>6, <1>7 DEF IoInv

\* What the invariant says to the driver's callers.
LEMMA IoInvIsHonest == IoInv => IoHonest
  <1> SUFFICES ASSUME IoInv PROVE IoHonest
    OBVIOUS
  <1>1. OutputsHold /\ OwnDutiesKept
    BY DEF IoInv, IoPads, IoDuties
  <1>2. SamplesReal
    BY DEF IoInv, IoScan, SamplesReal
  <1>3. CarriersKept
    <2>1. SUFFICES ASSUME NEW i \in Channels, plan[i].out, mode[plan[i].pad] = "af"
                   PROVE  Achieves(carrier[TimerOf[plan[i].pad][1]], plan[i].freq)
      BY DEF CarriersKept, Live
    <2>2. PwmOk(i) /\ carrier[PlanTim(i)[1]] = Wave(i)
      BY <2>1 DEF IoInv, IoDuties, Driven
    <2> QED BY <2>2 DEF PwmOk, PlanTim, Wave
  <1>4. OutputsReached
    <2>1. SUFFICES ASSUME ioAt \in {"halt", "run"}, NEW i \in Channels
                   PROVE  /\ plan[i].kind = "gpio" /\ plan[i].out /\ Accepts(plan[i]) => i \in Live("out")
                          /\ ioAt = "run" /\ plan[i].out => i \in Live("out") \cup Live("af")
      BY DEF OutputsReached
    <2>2. GpioOut(i) => i \in Live("out")
      BY <2>1 DEF IoInv, IoReach, Muxed, GpioOut, Live
    <2>3. ASSUME ioAt = "run", plan[i].out PROVE i \in Live("out") \cup Live("af")
      <3>1. Accepts(plan[i]) /\ ~ pwmFault
        BY <2>3 DEF IoInv, IoPoints, IoReach, Declared
      <3>2. plan[i].kind = "gpio" \/ plan[i].kind = "pwm"
        BY <2>3, PlanIs DEF IoInv
      <3>3. PwmPoint(i) => mode[plan[i].pad] = "af"
        BY <2>3, <3>1 DEF IoInv, IoReach, Waved
      <3> QED BY <2>2, <2>3, <3>1, <3>2, <3>3 DEF GpioOut, PwmPoint, Live
    <2> QED BY <2>2, <2>3 DEF GpioOut
  <1> QED BY <1>1, <1>2, <1>3, <1>4 DEF IoHonest

-------------------------------------------------------------------------------
(***************************************************************************)
(* The theorems: each part on its own, and all of them side by side.    *)
(***************************************************************************)
\* No loss is silent, the recoveries are counted, a closed bus stays off and no frame
\* waits for a sleeping thread (blob_can_open, blob_can_recv, busoff_poll, comm_rx_isr).
THEOREM CanStaysHonest == CanSpec => []CanHonest
  <1>1. CanInv /\ [CanNext]_canVars => CanInv'
    BY CanSteps, CanStutters
  <1> QED BY <1>1, CanStarts, CanInvIsHonest, PTL DEF CanSpec

\* A frame popped is whole and the next one, every hole is counted, and the count of the
\* frames to send is never below those in CanIf (can_ring.h, can_canif.c), whatever the
\* ring's capacity and the width of its indices.
THEOREM CanIfStaysHonest == CanIfSpec => []CanIfHonest
  <1>1. CanIfInv /\ [CanIfNext]_canIfVars => CanIfInv'
    BY CanIfSteps, CanIfStutters
  <1> QED BY <1>1, RingsStart, CanIfInvIsHonest, PTL DEF CanIfSpec

\* A message read from a host's cell is whole, of one write, and none goes back to an
\* older one than the cell held when the call began (osal_native.c: seqlock, triple and
\* double buffer), however many messages are written.
THEOREM OsalStaysHonest == OsalSpec => []OsalHonest
  <1>1. OsalInv /\ [OsalNext]_osalVars => OsalInv'
    BY OsalSteps, OsalStutters
  <1> QED BY <1>1, OsalStarts, OsalInvIsHonest, PTL DEF OsalSpec

\* Whatever an image declares and however its boots and writes go: from the moment a pad
\* is an output it shows the level or the duty it was last told, at the carrier its point
\* declared, every accepted output is reached before the node runs or halts, and a checked
\* read gives a conversion of its own channel since this start (blob_io_init, pwm_setup,
\* blob_io_adc_read_checked; REQ-IO-003, 009, 011, 013, 017, 018, 022).
THEOREM IoStaysHonest == IoSpec => []IoHonest
  <1>1. IoInv /\ [IoNext]_ioVars => IoInv'
    BY IoSteps, IoStutters
  <1> QED BY <1>1, IoStarts, IoInvIsHonest, PTL DEF IoSpec

\* The parts share no state: what each does on its own is all it does beside the others.
LEMMA PartsStart == NodeInit => Init /\ CanInit /\ CanIfInit /\ OsalInit /\ IoInit /\ XInit
  BY DEF NodeInit

LEMMA PartsStep ==
    [NodeNext]_nodeVars =>
        [Next]_iocVars /\ [CanNext]_canVars /\ [CanIfNext]_canIfVars /\ [OsalNext]_osalVars
        /\ [IoNext]_ioVars /\ [XNext]_xVars
  <1> SUFFICES ASSUME [NodeNext]_nodeVars
               PROVE  [Next]_iocVars /\ [CanNext]_canVars /\ [CanIfNext]_canIfVars /\ [OsalNext]_osalVars
                      /\ [IoNext]_ioVars /\ [XNext]_xVars
    OBVIOUS
  <1>1. CASE UNCHANGED nodeVars
    BY <1>1 DEF nodeVars
  <1>2. CASE Only("can") /\ CanNext
    BY <1>2 DEF Only
  <1>3. CASE Only("canif") /\ CanIfNext
    BY <1>3 DEF Only
  <1>4. CASE Only("ioc") /\ Next
    BY <1>4 DEF Only
  <1>5. CASE Only("osal") /\ OsalNext
    BY <1>5 DEF Only
  <1>6. CASE Only("io") /\ IoNext
    BY <1>6 DEF Only
  <1>7. CASE Only("xcore") /\ XNext
    BY <1>7 DEF Only
  <1>8. CASE \E p \in Parts \ {"ioc", "can", "canif", "osal", "io", "xcore"} : Only(p)
    BY <1>8 DEF Only, Parts
  <1> QED BY <1>1, <1>2, <1>3, <1>4, <1>5, <1>6, <1>7, <1>8 DEF NodeNext, Parts

\* BusHonest, in the specification that is run.
THEOREM BusStaysHonest == NodeSpec => []BusHonest
  <1>1. CanInv /\ [CanNext]_canVars => CanInv'
    BY CanSteps, CanStutters
  <1>2. CanIfInv /\ [CanIfNext]_canIfVars => CanIfInv'
    BY CanIfSteps, CanIfStutters
  <1>3. CanInv /\ CanIfInv => BusHonest
    BY CanInvIsHonest, CanIfInvIsHonest DEF BusHonest
  <1> QED BY <1>1, <1>2, <1>3, PartsStart, PartsStep, CanStarts, RingsStart, PTL DEF NodeSpec

\* What the cells promise, in the specification that is run.
THEOREM CellsStayHonest == NodeSpec => [](ReadsLatest /\ EverHonest /\ OsalHonest)
  <1>1. IocInv /\ [Next]_iocVars => IocInv'
    BY IocSteps DEF iocVars
  <1>2. OsalInv /\ [OsalNext]_osalVars => OsalInv'
    BY OsalSteps, OsalStutters
  <1>3. IocInv /\ OsalInv => ReadsLatest /\ EverHonest /\ OsalHonest
    BY OsalInvIsHonest DEF IocInv
  <1> QED BY <1>1, <1>2, <1>3, PartsStart, PartsStep, InitInv, OsalStarts, PTL DEF NodeSpec

\* What the IO driver promises, in the specification that is run.
THEOREM IoStaysHonestInNode == NodeSpec => []IoHonest
  <1>1. IoInv /\ [IoNext]_ioVars => IoInv'
    BY IoSteps, IoStutters
  <1> QED BY <1>1, PartsStart, PartsStep, IoStarts, IoInvIsHonest, PTL DEF NodeSpec

\* What a core is told of the other, in the specification that is run.
THEOREM XCoreStaysHonestInNode == NodeSpec => []HeldHonest /\ NeverBack
  <1>1. XInv /\ [XNext]_xVars => XInv'
    BY XKept
  <1>2. XInv /\ [XNext]_xVars =>
          [(dir = "pair" /\ (tainted \/ tainted')) \/ rdSeq' = 0 \/ rdSeq = 0 \/ lanes'[1] >= lanes[1]]_xVars
    BY PollsForward DEF Forward
  <1> QED BY <1>1, <1>2, PartsStart, PartsStep, XStarts, HeldHonestIs, PTL DEF NodeSpec, NeverBack

=================================================================================
