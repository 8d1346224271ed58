---------------------------------- MODULE Ioc ----------------------------------
(***************************************************************************)
(* boards/common/ioc.h: the triple buffer that carries the newest value of *)
(* a signal between two threads of one core, with the pools built on it    *)
(* (boards/common/comm_glue.c).  One thread writes, one reads, and either  *)
(* may be preempted between any two bytes.  The two hand slots over with   *)
(* one atomic exchange of `shared`.                                        *)
(*                                                                         *)
(* The k-th value written has the number k in each of its bytes, so a      *)
(* mixture of two values shows; 0 is what ioc_init leaves.                 *)
(***************************************************************************)
EXTENDS Integers

CONSTANTS
    Size,       \* bytes of the signal
    MaxWrites   \* bound: values written

ASSUME IocAssumption == Size \in Nat \ {0} /\ MaxWrites \in Nat

Slot == 0 .. 2
Bytes == 1 .. Size
Filled(k) == [i \in Bytes |-> k]

VARIABLES
    arena,    \* the three slots
    middle,   \* bits 0-1 of `shared`: the middle slot; exchanged as one with
    fresh,    \* bit 2 of `shared`: it holds a value nobody has read
    wr, rd,   \* the slot of the writer, the slot of the reader
    seen,     \* g_ioc_seen: the cell has ever been published
    wpc, wat, \* the writer's program counter and its place in the copy
    rpc, rat, \* the reader's
    out,      \* what the reader has copied out
    written,  \* values published
    taken     \* values published when the running read chose its slot

vars == <<arena, middle, fresh, wr, rd, seen, wpc, wat, rpc, rat, out, written, taken>>

\* ioc_init
Init ==
    /\ arena = [s \in Slot |-> Filled(0)]
    /\ middle = 0 /\ fresh = FALSE
    /\ wr = 1 /\ rd = 2
    /\ seen = FALSE
    /\ wpc = "idle" /\ wat = 1
    /\ rpc = "idle" /\ rat = 1 /\ out = Filled(0)
    /\ written = 0 /\ taken = 0

-------------------------------------------------------------------------------
(***************************************************************************)
(* ioc_write_bytes: fill the private slot, exchange it for the middle one. *)
(***************************************************************************)
ReaderIdle == UNCHANGED <<rd, seen, rpc, rat, out, taken>>

WriteBegin ==
    /\ wpc = "idle" /\ written < MaxWrites
    /\ wpc' = "copy" /\ wat' = 1
    /\ UNCHANGED <<arena, middle, fresh, wr, written>> /\ ReaderIdle

WriteByte ==
    /\ wpc = "copy"
    /\ arena' = [arena EXCEPT ![wr][wat] = written + 1]
    /\ IF wat = Size THEN wpc' = "swap" /\ wat' = 1
       ELSE wpc' = wpc /\ wat' = wat + 1
    /\ UNCHANGED <<middle, fresh, wr, written>> /\ ReaderIdle

\* A writer that goes on with the slot it has just published.
KeepsItsSlot ==
    /\ wpc = "swap"
    /\ middle' = wr /\ fresh' = TRUE
    /\ written' = written + 1
    /\ wpc' = "idle" /\ wat' = 1
    /\ UNCHANGED <<arena, wr>> /\ ReaderIdle

WriteSwap ==
    /\ wpc = "swap"
    /\ middle' = wr /\ fresh' = TRUE
    /\ wr' = middle
    /\ written' = written + 1
    /\ wpc' = "idle" /\ wat' = 1
    /\ UNCHANGED arena /\ ReaderIdle

-------------------------------------------------------------------------------
(***************************************************************************)
(* ioc_read_bytes_ever: look at the flag, take the middle slot when it is  *)
(* fresh, copy out.  The glue latches `ever` (ioc_get, ioc_get_ever).      *)
(***************************************************************************)
WriterIdle == UNCHANGED <<wr, wpc, wat, written>>

StartCopy == rpc' = "copy" /\ rat' = 1 /\ UNCHANGED out

ReadBegin ==
    /\ rpc = "idle"
    /\ rpc' = "look"
    /\ UNCHANGED <<arena, middle, fresh, rd, seen, rat, out, taken>> /\ WriterIdle

LookFresh ==
    /\ rpc = "look" /\ fresh
    /\ rpc' = "swap"
    /\ UNCHANGED <<arena, middle, fresh, rd, seen, rat, out, taken>> /\ WriterIdle

LookStale ==
    /\ rpc = "look" /\ ~fresh
    /\ StartCopy
    /\ taken' = written
    /\ UNCHANGED <<arena, middle, fresh, rd, seen>> /\ WriterIdle

\* A read that consumes the fresh flag and does not latch it (iocb_get's).
SwapUnlatched ==
    /\ rpc = "swap"
    /\ middle' = rd /\ fresh' = FALSE
    /\ rd' = middle
    /\ StartCopy
    /\ taken' = written
    /\ UNCHANGED <<arena, seen>> /\ WriterIdle

ReadSwap ==
    /\ rpc = "swap"
    /\ middle' = rd /\ fresh' = FALSE
    /\ rd' = middle
    /\ seen' = (seen \/ fresh)
    /\ StartCopy
    /\ taken' = written
    /\ UNCHANGED arena /\ WriterIdle

ReadByte ==
    /\ rpc = "copy"
    /\ out' = [out EXCEPT ![rat] = arena[rd][rat]]
    /\ IF rat = Size THEN rpc' = "done" /\ rat' = 1
       ELSE rpc' = rpc /\ rat' = rat + 1
    /\ UNCHANGED <<arena, middle, fresh, rd, seen, taken>> /\ WriterIdle

\* The caller has the value and may read again.
ReadEnd ==
    /\ rpc = "done"
    /\ rpc' = "idle"
    /\ UNCHANGED <<arena, middle, fresh, rd, seen, rat, out, taken>> /\ WriterIdle

Writes == WriteBegin \/ WriteByte \/ WriteSwap
Reads == ReadBegin \/ LookFresh \/ LookStale \/ ReadSwap \/ ReadByte \/ ReadEnd
Next == Writes \/ Reads

Spec == Init /\ [][Next]_vars

-------------------------------------------------------------------------------
Flags == fresh \in BOOLEAN /\ seen \in BOOLEAN
Ranges ==
    /\ arena \in [Slot -> [Bytes -> Nat]]
    /\ middle \in Slot /\ wr \in Slot /\ rd \in Slot
    /\ wpc \in {"idle", "copy", "swap"} /\ wat \in Bytes
    /\ rpc \in {"idle", "look", "swap", "copy", "done"} /\ rat \in Bytes
    /\ out \in [Bytes -> Nat]
    /\ written \in Nat /\ taken \in Nat

TypeOK == Flags /\ Ranges

\* A finished read returns, whole, the value that was the newest when the read
\* chose its slot, wherever writer and reader were preempted: no byte of an
\* older value and none of one being written (ioc.h's "never tears a value").
ReadsLatest == rpc = "done" => out = Filled(taken)

\* Once a read has copied out, the sticky flag says whether the value was ever
\* published: no publication is consumed unseen, however short, and the zero
\* ioc_init left is never reported as one (comm_glue.c's ioc_get_ever).
EverHonest == rpc \in {"copy", "done"} => (seen <=> taken > 0)

(***************************************************************************)
(* The inductive invariant.  The three slots are three.  The middle holds  *)
(* the newest value as long as it is fresh, and else the reader does; what *)
(* the writer has filled of its own is the value to come.                  *)
(***************************************************************************)
ThreeSlots == wr # rd /\ wr # middle /\ rd # middle

NewestHeld ==
    IF fresh THEN arena[middle] = Filled(written)
    ELSE arena[rd] = Filled(written)

FreshWhenWritten == fresh => written > 0

FillGrows ==
    /\ wpc = "copy" =>
          \A i \in Bytes : i < wat => arena[wr][i] = written + 1
    /\ wpc = "swap" => arena[wr] = Filled(written + 1)

\* A read that saw the flag finds it still set: only the reader clears it.
FlagStays == rpc = "swap" => fresh

CopyGrows ==
    /\ rpc \in {"copy", "done"} => arena[rd] = Filled(taken)
    /\ rpc = "copy" =>
          \A i \in Bytes : i < rat => out[i] = taken

SeenLags == (seen \/ fresh) <=> written > 0

IocInv ==
    /\ TypeOK /\ ThreeSlots /\ NewestHeld /\ FreshWhenWritten /\ FillGrows
    /\ FlagStays /\ CopyGrows /\ SeenLags /\ ReadsLatest /\ EverHonest

===============================================================================
