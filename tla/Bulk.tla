--------------------------------- MODULE Bulk ---------------------------------
(***************************************************************************)
(* boards/common/bulk.h: the pool and its two descriptor rings, shared by  *)
(* a producer (examples/h755_m4_app/m4_glue.c, the M4) and a consumer      *)
(* (examples/h755_threadx/target_ext.c, the M7), which see one memory and  *)
(* have no atomic read-modify-write between them.                          *)
(*                                                                         *)
(* Every load and every store is a step of its own.  A store does not      *)
(* reach the memory at once: it waits in the storing core's buffer, which  *)
(* hands its stores on in ANY order (Drain).  That is what Arm allows for  *)
(* stores with no barrier between them, and XIOC_DMB is the step that      *)
(* waits until the buffer is empty (Fenced).  A core sees its own waiting  *)
(* stores (Own).  Loads are performed when their step is taken: each load  *)
(* whose order matters is followed by a DMB in the code, and one that is   *)
(* not (a cursor read by the side that owns it) can read one value only.   *)
(*                                                                         *)
(* Cursors are C's uint32_t: they count modulo CursorMod, which stands for *)
(* 2^32, and a cursor's ring slot is `cursor % nbuf` of what is left.      *)
(***************************************************************************)
EXTENDS Integers, Sequences, FiniteSets

CONSTANTS
    NBuf,         \* buffers in the pool, the capacity of each ring
    CursorMod,    \* 2^32
    NMessage,     \* payloads are numbered modulo this (m4_glue.c's seq)
    MaxOverflows, \* bound: failed loans the model counts
    MaxRestarts   \* bound: producer restarts beside a live consumer

ASSUME BulkAssumption ==
    /\ NBuf \in Nat \ {0} /\ CursorMod \in Nat /\ CursorMod > NBuf
    /\ NMessage \in Nat \ {0}
    /\ MaxOverflows \in Nat /\ MaxRestarts \in Nat

Buf == 0 .. NBuf - 1
Cursor == 0 .. CursorMod - 1
Message == 1 .. NMessage
Words == {1, 2}          \* the payload, in two pieces stored and loaded apart
Side == {"P", "C"}

(***************************************************************************)
(* The region: the header's shared cells and the arrays behind it.         *)
(***************************************************************************)
Cell(name) == <<name, 0>>
Magic == Cell("magic")
RHead == Cell("r_head")  \* written by the producer (publish)
FTail == Cell("f_tail")  \* written by the producer (loan)
RTail == Cell("r_tail")  \* written by the consumer (take)
FHead == Cell("f_head")  \* written by the consumer (release)
FreeRing(slot) == <<"free", slot>>
ReadyRing(slot) == <<"ready", slot>>
LenArr(b) == <<"len", b>>
Word(b, w) == <<IF w = 1 THEN "lo" ELSE "hi", b>>

Location ==
    {Magic, RHead, FTail, RTail, FHead}
        \cup {FreeRing(i) : i \in Buf} \cup {ReadyRing(i) : i \in Buf}
        \cup {LenArr(b) : b \in Buf} \cup {Word(b, w) : b \in Buf, w \in Words}

Slot(cursor) == cursor % NBuf
Next1(cursor) == (cursor + 1) % CursorMod
Distance(tail, head) == (head + CursorMod - tail) % CursorMod

VARIABLES
    mem,        \* what the memory holds
    pend,       \* per side, its stores that have not reached the memory
    prod,       \* the producer's program counter and locals
    lentBuf,    \* per buffer: lent to the producer and filled with this
                \* message, lent and not filled (0), or not lent (NotLent)
    fills,      \* how many payloads the producer has written, modulo NMessage
    cons,       \* the consumer's program counter and locals
    heldBuf,    \* per buffer: NotHeld, or its length and the words read of it
    overflows,  \* bulk_t.overflows
    restarts    \* producer restarts so far

vars == <<mem, pend, prod, lentBuf, fills, cons, heldBuf, overflows, restarts>>

NotLent == -1
NotHeldBuf == [len |-> -1, saw |-> [w \in Words |-> 0]]
Lent == {b \in Buf : lentBuf[b] # NotLent}
HeldNow == {b \in Buf : heldBuf[b] # NotHeldBuf}

(***************************************************************************)
(* Stores, barriers and own loads.                                         *)
(***************************************************************************)
Put(side, stores) ==
    pend' = [pend EXCEPT ![side] =
                {s \in @ : s[1] \notin {n[1] : n \in stores}} \cup stores]

Fenced(side) == pend[side] = {}

Own(side, loc) ==
    IF \E s \in pend[side] : s[1] = loc
    THEN (CHOOSE s \in pend[side] : s[1] = loc)[2]
    ELSE mem[loc]

Drain(side) ==
    \E s \in pend[side] :
        /\ mem' = [mem EXCEPT ![s[1]] = s[2]]
        /\ pend' = [pend EXCEPT ![side] = @ \ {s}]
        /\ UNCHANGED <<prod, lentBuf, fills, cons, heldBuf, overflows, restarts>>

-------------------------------------------------------------------------------
(***************************************************************************)
(* The producer: m4_glue.c's service pass, over any interleaving of loans, *)
(* fills and publications of several buffers the header allows.            *)
(***************************************************************************)
ProdAt(pc) == prod.pc = pc
ProdGo(pc) == prod' = [prod EXCEPT !.pc = pc]
ConsumerIdle == UNCHANGED <<cons, heldBuf>>

\* bulk_init: withdraw the magic ...
InitWithdraw ==
    /\ ProdAt("boot") /\ ProdGo("clear")
    /\ Put("P", {<<Magic, 0>>})
    /\ ConsumerIdle /\ UNCHANGED <<mem, lentBuf, overflows, restarts, fills>>

\* Mutant: the free ring is filled from one.
InitRingsFromOne ==
    /\ ProdAt("clear") /\ Fenced("P") /\ ProdGo("announce")
    /\ Put("P", {<<RHead, 0>>, <<RTail, 0>>, <<FTail, 0>>, <<FHead, NBuf>>}
                    \cup {<<FreeRing(i), i + 1>> : i \in Buf})
    /\ overflows' = 0
    /\ ConsumerIdle /\ UNCHANGED <<mem, lentBuf, restarts, fills>>

\* ... DMB; lay out the rings, the free one full: both sides' cursors ...
InitRings ==
    /\ ProdAt("clear") /\ Fenced("P") /\ ProdGo("announce")
    /\ Put("P", {<<RHead, 0>>, <<RTail, 0>>, <<FTail, 0>>, <<FHead, NBuf>>}
                    \cup {<<FreeRing(i), i>> : i \in Buf})
    /\ overflows' = 0
    /\ ConsumerIdle /\ UNCHANGED <<mem, lentBuf, restarts, fills>>

\* ... DMB; magic ...
InitAnnounce ==
    /\ ProdAt("announce") /\ Fenced("P") /\ ProdGo("visible")
    /\ Put("P", {<<Magic, 1>>})
    /\ ConsumerIdle /\ UNCHANGED <<mem, lentBuf, overflows, restarts, fills>>

\* ... DMB.
InitDone ==
    /\ ProdAt("visible") /\ Fenced("P") /\ ProdGo("idle")
    /\ ConsumerIdle /\ UNCHANGED <<mem, pend, lentBuf, overflows, restarts, fills>>

\* bulk_loan: the two cursors; an empty pool is counted ...
LoanFails ==
    /\ ProdAt("idle") /\ Own("P", FTail) = mem[FHead]
    /\ overflows' = IF overflows < MaxOverflows THEN overflows + 1 ELSE overflows
    /\ ConsumerIdle /\ UNCHANGED <<mem, pend, prod, lentBuf, restarts, fills>>

\* Mutant: the pool is not asked whether it is empty.
LoanUnasked ==
    /\ ProdAt("idle")
    /\ prod' = [prod EXCEPT !.pc = "entry", !.cur = Own("P", FTail)]
    /\ ConsumerIdle /\ UNCHANGED <<mem, pend, lentBuf, overflows, restarts, fills>>

LoanCursors ==
    /\ ProdAt("idle") /\ Own("P", FTail) # mem[FHead]
    /\ prod' = [prod EXCEPT !.pc = "entry", !.cur = Own("P", FTail)]
    /\ ConsumerIdle /\ UNCHANGED <<mem, pend, lentBuf, overflows, restarts, fills>>

\* ... DMB; the entry ...
LoanEntry ==
    /\ ProdAt("entry") /\ Fenced("P")
    /\ prod' = [prod EXCEPT !.pc = "advance", !.idx = mem[FreeRing(Slot(prod.cur))]]
    /\ ConsumerIdle /\ UNCHANGED <<mem, pend, lentBuf, overflows, restarts, fills>>

\* ... DMB; the tail.  The buffer is the producer's.
LoanAdvance ==
    /\ ProdAt("advance") /\ Fenced("P")
    /\ Put("P", {<<FTail, Next1(prod.cur)>>})
    /\ lentBuf' = [lentBuf EXCEPT ![prod.idx] = 0]
    /\ prod' = [pc |-> "idle", cur |-> 0, idx |-> 0]
    /\ ConsumerIdle /\ UNCHANGED <<mem, overflows, restarts, fills>>

\* The producer writes its next message into a lent buffer, in place.
Fill(b) ==
    /\ ProdAt("idle") /\ lentBuf[b] = 0
    /\ fills' = (fills + 1) % NMessage
    /\ Put("P", {<<Word(b, w), fills + 1>> : w \in Words})
    /\ lentBuf' = [lentBuf EXCEPT ![b] = fills + 1]
    /\ ConsumerIdle /\ UNCHANGED <<mem, prod, overflows, restarts>>

\* bulk_publish: the length and the ring entry ...
PublishEntry(b) ==
    /\ ProdAt("idle") /\ lentBuf[b] \in Message
    /\ Put("P", {<<LenArr(b), lentBuf[b]>>,
                 <<ReadyRing(Slot(Own("P", RHead))), b>>})
    /\ prod' = [pc |-> "publish", cur |-> Own("P", RHead), idx |-> b]
    /\ ConsumerIdle /\ UNCHANGED <<mem, lentBuf, overflows, restarts, fills>>

\* Mutant: the barrier between the entry and the head is missing.
PublishUnfenced ==
    /\ ProdAt("publish")
    /\ Put("P", {<<RHead, Next1(prod.cur)>>})
    /\ lentBuf' = [lentBuf EXCEPT ![prod.idx] = NotLent]
    /\ prod' = [pc |-> "idle", cur |-> 0, idx |-> 0]
    /\ ConsumerIdle /\ UNCHANGED <<mem, overflows, restarts, fills>>

\* ... DMB; the head.  The buffer is the consumer's.
PublishHead ==
    /\ ProdAt("publish") /\ Fenced("P")
    /\ Put("P", {<<RHead, Next1(prod.cur)>>})
    /\ lentBuf' = [lentBuf EXCEPT ![prod.idx] = NotLent]
    /\ prod' = [pc |-> "idle", cur |-> 0, idx |-> 0]
    /\ ConsumerIdle /\ UNCHANGED <<mem, overflows, restarts, fills>>

\* The producer's core restarts alone: its locals are gone, s_xfer_inited
\* (m4_glue.c:175) is 0 again, the region keeps what it holds.
Restart ==
    /\ restarts < MaxRestarts /\ restarts' = restarts + 1
    /\ prod' = [pc |-> "boot", cur |-> 0, idx |-> 0]
    /\ lentBuf' = [b \in Buf |-> NotLent]
    /\ ConsumerIdle /\ UNCHANGED <<mem, pend, overflows, fills>>

-------------------------------------------------------------------------------
(***************************************************************************)
(* The consumer: xcore_bulk_consume, one pass of which attaches, takes     *)
(* until nothing is pending and returns.                                   *)
(***************************************************************************)
ConsAt(pc) == cons.pc = pc
ProducerIdle == UNCHANGED <<prod, lentBuf, fills, overflows, restarts>>

\* bulk_valid, with its trailing DMB.
Valid ==
    /\ ConsAt("out") /\ mem[Magic] = 1 /\ Fenced("C")
    /\ cons' = [cons EXCEPT !.pc = "idle"]
    /\ ProducerIdle /\ UNCHANGED <<mem, pend, heldBuf>>

\* bulk_take: the two cursors; nothing pending ends the pass (a failed
\* take while a buffer is held changes nothing) ...
TakeNothing ==
    /\ ConsAt("idle") /\ HeldNow = {} /\ Own("C", RTail) = mem[RHead]
    /\ cons' = [cons EXCEPT !.pc = "out"]
    /\ ProducerIdle /\ UNCHANGED <<mem, pend, heldBuf>>

TakeCursors ==
    /\ ConsAt("idle") /\ Own("C", RTail) # mem[RHead]
    /\ cons' = [cons EXCEPT !.pc = "entry", !.cur = Own("C", RTail)]
    /\ ProducerIdle /\ UNCHANGED <<mem, pend, heldBuf>>

\* ... DMB; the entry ...
TakeEntry ==
    /\ ConsAt("entry") /\ Fenced("C")
    /\ cons' = [cons EXCEPT !.pc = "length", !.idx = mem[ReadyRing(Slot(cons.cur))]]
    /\ ProducerIdle /\ UNCHANGED <<mem, pend, heldBuf>>

\* ... and, through it, the length ...
TakeLength ==
    /\ ConsAt("length")
    /\ cons' = [cons EXCEPT !.pc = "advance", !.len = mem[LenArr(cons.idx)]]
    /\ ProducerIdle /\ UNCHANGED <<mem, pend, heldBuf>>

\* Mutant: the tail stays where it was.
TakeStays ==
    /\ ConsAt("advance") /\ Fenced("C")
    /\ Put("C", {<<RTail, cons.cur>>})
    /\ heldBuf' = [heldBuf EXCEPT ![cons.idx] = [NotHeldBuf EXCEPT !.len = cons.len]]
    /\ cons' = [pc |-> "idle", cur |-> 0, idx |-> 0, len |-> 0]
    /\ ProducerIdle /\ UNCHANGED mem

\* ... DMB; the tail.  The buffer is the consumer's to read.
TakeAdvance ==
    /\ ConsAt("advance") /\ Fenced("C")
    /\ Put("C", {<<RTail, Next1(cons.cur)>>})
    /\ heldBuf' = [heldBuf EXCEPT ![cons.idx] = [NotHeldBuf EXCEPT !.len = cons.len]]
    /\ cons' = [pc |-> "idle", cur |-> 0, idx |-> 0, len |-> 0]
    /\ ProducerIdle /\ UNCHANGED mem

ReadWord(b, w) ==
    /\ ConsAt("idle") /\ b \in HeldNow /\ heldBuf[b].saw[w] = 0
    /\ w = 2 => heldBuf[b].saw[1] # 0
    /\ heldBuf' = [heldBuf EXCEPT ![b].saw[w] = mem[Word(b, w)]]
    /\ ProducerIdle /\ UNCHANGED <<mem, pend, cons>>

\* bulk_release of a buffer read to its end: the ring entry ...
ReleaseEntry(b) ==
    /\ ConsAt("idle") /\ b \in HeldNow
    /\ \A w \in Words : heldBuf[b].saw[w] # 0
    /\ Put("C", {<<FreeRing(Slot(Own("C", FHead))), b>>})
    /\ cons' = [cons EXCEPT !.pc = "release", !.cur = Own("C", FHead), !.idx = b]
    /\ ProducerIdle /\ UNCHANGED <<mem, heldBuf>>

\* Mutant: the barrier between the entry and the head is missing.
ReleaseUnfenced ==
    /\ ConsAt("release")
    /\ Put("C", {<<FHead, Next1(cons.cur)>>})
    /\ heldBuf' = [heldBuf EXCEPT ![cons.idx] = NotHeldBuf]
    /\ cons' = [pc |-> "idle", cur |-> 0, idx |-> 0, len |-> 0]
    /\ ProducerIdle /\ UNCHANGED mem

\* Mutant: the entry is written and the head is not moved.
ReleaseStays ==
    /\ ConsAt("release") /\ Fenced("C")
    /\ heldBuf' = [heldBuf EXCEPT ![cons.idx] = NotHeldBuf]
    /\ cons' = [pc |-> "idle", cur |-> 0, idx |-> 0, len |-> 0]
    /\ ProducerIdle /\ UNCHANGED <<mem, pend>>

\* ... DMB; the head.  The buffer is back in the pool.
ReleaseHead ==
    /\ ConsAt("release") /\ Fenced("C")
    /\ Put("C", {<<FHead, Next1(cons.cur)>>})
    /\ heldBuf' = [heldBuf EXCEPT ![cons.idx] = NotHeldBuf]
    /\ cons' = [pc |-> "idle", cur |-> 0, idx |-> 0, len |-> 0]
    /\ ProducerIdle /\ UNCHANGED mem

-------------------------------------------------------------------------------
\* Before the first bulk_init the region holds whatever the last image left,
\* here a ready ring that looks full, under a magic no image has announced.
Init ==
    /\ mem = [l \in Location |-> IF l = RHead THEN NBuf ELSE 0]
    /\ pend = [s \in Side |-> {}]
    /\ prod = [pc |-> "boot", cur |-> 0, idx |-> 0]
    /\ lentBuf = [b \in Buf |-> NotLent] /\ fills = 0
    /\ cons = [pc |-> "out", cur |-> 0, idx |-> 0, len |-> 0]
    /\ heldBuf = [b \in Buf |-> NotHeldBuf]
    /\ overflows = 0 /\ restarts = 0

BulkInit == InitWithdraw \/ InitRings \/ InitAnnounce \/ InitDone
Loan == LoanCursors \/ LoanEntry \/ LoanAdvance
Publish == (\E b \in Buf : PublishEntry(b)) \/ PublishHead
Take == TakeCursors \/ TakeEntry \/ TakeLength \/ TakeAdvance
Read == \E b \in Buf, w \in Words : ReadWord(b, w)
Release == (\E b \in Buf : ReleaseEntry(b)) \/ ReleaseHead

Fills == \E b \in Buf : Fill(b)

Producer == BulkInit \/ Loan \/ Fills \/ Publish
Consumer == Valid \/ TakeNothing \/ Take \/ Read \/ Release

Next ==
    \/ Producer \/ LoanFails
    \/ Consumer
    \/ \E s \in Side : Drain(s)

\* Both sides are service loops that stop nowhere: the producer fills and
\* publishes what it has been lent, the consumer attaches and takes, reads and
\* releases; a core's stores reach the memory.
Spec ==
    /\ Init /\ [][Next]_vars
    /\ WF_vars(Producer) /\ WF_vars(Consumer)
    /\ \A s \in Side : WF_vars(Drain(s))

\* ... and what a producer that restarts alone makes of it.
RestartSpec == Init /\ [][Next \/ Restart]_vars

-------------------------------------------------------------------------------
(***************************************************************************)
(* Properties.                                                             *)
(***************************************************************************)
ProdPcs == {"boot", "clear", "announce", "visible", "idle",
             "entry", "advance", "publish"}
ConsPcs == {"out", "idle", "entry", "length", "advance", "release"}

\* The shape of the state.  Beyond the types: the region's entries are buffers
\* of the pool, and a core never has two stores to one cell waiting.
TypeOK ==
    /\ DOMAIN mem = Location
    /\ \A l \in {RHead, FTail, RTail, FHead} : mem[l] \in Cursor
    /\ \A i \in Buf : mem[FreeRing(i)] \in Buf /\ mem[ReadyRing(i)] \in Buf
    /\ \A s \in Side : \A p, q \in pend[s] : p[1] = q[1] => p = q
    /\ prod.pc \in ProdPcs /\ prod.cur \in Cursor /\ prod.idx \in Buf
    /\ cons.pc \in ConsPcs /\ cons.cur \in Cursor /\ cons.idx \in Buf
    /\ lentBuf \in [Buf -> Message \cup {0, NotLent}]
    /\ fills \in 0 .. NMessage - 1 /\ overflows \in 0 .. MaxOverflows /\ restarts \in 0 .. MaxRestarts

\* bulk_init has laid the rings out.
Ready == prod.pc \notin {"boot", "clear", "announce"}

\* The cursors of a ring between its tail and its head, each as its own side
\* sees it.
FreeCursors ==
    {Own("P", FTail) + i : i \in 0 .. Distance(Own("P", FTail), Own("C", FHead)) - 1}
ReadyCursors ==
    {Own("C", RTail) + i : i \in 0 .. Distance(Own("C", RTail), Own("P", RHead)) - 1}

\* What a ring slot says once every waiting store has landed.
Entry(side, loc) == Own(side, loc)

FreeSet == {Entry("C", FreeRing(Slot(c % CursorMod))) : c \in FreeCursors}
ReadySet == {Entry("P", ReadyRing(Slot(c % CursorMod))) : c \in ReadyCursors}

\* bulk.h:26-28: "with N buffers at most N descriptors are ever in flight per
\* ring, so a slot is always consumed before it can be rewritten - bounded by
\* construction".  No two descriptors in flight share a slot.
SlotsDistinct ==
    Ready =>
        /\ \A c, d \in FreeCursors : Slot(c % CursorMod) = Slot(d % CursorMod) => c = d
        /\ \A c, d \in ReadyCursors : Slot(c % CursorMod) = Slot(d % CursorMod) => c = d

\* Every buffer of the pool is in exactly one place: in the free ring, with
\* the producer, in the ready ring or with the consumer; none is lost to the
\* pool, none is in two hands (the free and the ready ring hold as many
\* entries as they hold buffers).
OneOwner ==
    Ready =>
        /\ \A b \in Buf :
              Cardinality({s \in {"free", "lent", "ready", "held"} :
                  \/ s = "free" /\ b \in FreeSet
                  \/ s = "lent" /\ b \in Lent
                  \/ s = "ready" /\ b \in ReadySet
                  \/ s = "held" /\ b \in HeldNow}) = 1
        /\ Cardinality(FreeCursors) = Cardinality(FreeSet)
        /\ Cardinality(ReadyCursors) = Cardinality(ReadySet)

\* The pool and the rings are what bulk_init made of them, whatever was stored and drained.
PoolSound == TypeOK /\ OneOwner

\* REQ-BULK-002: a loan never hands the producer a buffer the consumer still
\* owns, from the moment the consumer has taken it to its release.
HeldNotLent == Lent \cap HeldNow = {}

\* The transport is the queue of BulkQueue: in publish order, intact, by
\* reference.  A buffer is the abstract producer's until PublishHead is taken,
\* and the abstract consumer's from TakeAdvance to ReleaseHead; what a
\* published buffer says is read where the consumer will read it.
Intact(b, len) ==
    IF mem[Word(b, 1)] = len /\ mem[Word(b, 2)] = len THEN len ELSE 0

Queue ==
    [i \in 1 .. Distance(Own("C", RTail), Own("P", RHead)) |->
        LET b == mem[ReadyRing(Slot((Own("C", RTail) + i - 1) % CursorMod))]
        IN  Intact(b, mem[LenArr(b)])]

Abstract == INSTANCE BulkQueue WITH
    lent <- Cardinality(Lent),
    queue <- IF Ready THEN Queue ELSE <<>>,
    held <- [b \in Buf |->
        IF b \in HeldNow
        THEN [msg |-> Intact(b, heldBuf[b].len), saw |-> heldBuf[b].saw]
        ELSE [msg |-> 0, saw |-> [w \in Words |-> 0]]]

ImplementsQueue == Abstract!QSpec

\* An exhausted pool recovers: with both sides serving, buffers come back.
PoolEmpty == Ready /\ Own("P", FTail) = mem[FHead]
PoolRecovers == PoolEmpty ~> ~PoolEmpty

\* Everything that is published is taken, whatever the producer does next;
\* said of cursor 0, which comes round every CursorMod payloads.
WaitsAtZero == Ready /\ Own("C", RTail) = 0 /\ Own("P", RHead) # 0
OldestTaken == WaitsAtZero ~> ~WaitsAtZero
===============================================================================
