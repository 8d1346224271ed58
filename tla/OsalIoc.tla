-------------------------------- MODULE OsalIoc --------------------------------
(***************************************************************************)
(* The host's signal cells (osal/osal_native.c): one writer and one reader *)
(* in two processes over shared memory, in the three variants the file     *)
(* offers - a seqlock whose reader retries, a triple buffer that swaps     *)
(* indices, and a double buffer that is whole only while the reader keeps  *)
(* up.  Each copy goes place by place; place 0 of a buffer is its length.  *)
(*                                                                         *)
(* The atomics' orders are taken at their word: the steps interleave.  The  *)
(* sequence number does not wrap within the bound.                         *)
(***************************************************************************)
EXTENDS Integers

CONSTANT OMaxWrites     \* bound

VARIABLES
    variant,                \* "seq", "triple" or "double"
    obuf,                   \* the buffers: length and bytes
    oword,                  \* the atomic word: seq, shared, or active
    dirty,                  \* DB_DIRTY of shared
    owb, orf,               \* wb, rf
    opc, oat, owrites,      \* the writer's place; its message
    rdAt, rdPlace, call,    \* the reader's place; the call it is in
    seq0, consumed, copy,   \* seq0 (the double buffer: its index); the call consumed a flip; dst
    \* history
    opub,                   \* messages published
    ofloor, flips, overrun, \* published when the call began, since; the writer came round
    hadBefore               \* the message of the call before

osalVars == <<variant, obuf, oword, dirty, owb, orf, opc, oat, owrites, rdAt, rdPlace, call, seq0,
              consumed, copy, opub, ofloor, flips, overrun, hadBefore>>
osalWrVars == <<owb, opc, oat, owrites, opub>>
osalRdVars == <<orf, rdAt, rdPlace, call, seq0, consumed, copy, ofloor, hadBefore>>

\* Messages of one and of two bytes in turn.
Length(k) == IF k = 0 THEN 0 ELSE 1 + (k % 2)
Message(k) == [p \in 0 .. 2 |-> IF p = 0 THEN Length(k) ELSE IF p <= Length(k) THEN k ELSE 0]

\* A slip: a region that was only zeroed.
ZeroIndices == [shared |-> 0, wb |-> 0, rf |-> 0]

\* init_db_indices: a permutation.
Indices == [shared |-> 1, wb |-> 0, rf |-> 2]

OsalInit ==
    /\ variant \in {"seq", "triple", "double"}
    /\ obuf = [b \in 0 .. 2 |-> Message(0)]
    /\ oword = IF variant = "triple" THEN Indices.shared ELSE 0
    /\ dirty = FALSE /\ owb = Indices.wb /\ orf = Indices.rf
    /\ opc = "idle" /\ oat = 0 /\ owrites = 0
    /\ rdAt = "idle" /\ rdPlace = 0 /\ call = "read" /\ seq0 = 0 /\ consumed = FALSE /\ copy = Message(0)
    /\ opub = 0 /\ ofloor = 0 /\ flips = 0 /\ overrun = FALSE /\ hadBefore = 0

-------------------------------------------------------------------------------
\* The buffer the writer fills.
Target ==
    CASE variant = "seq" -> 0
      [] variant = "triple" -> owb
      [] variant = "double" -> 1 - oword

\* blob_ioc_write, _pub, _pub2: the seqlock is marked odd first.
WriteBegins ==
    /\ opc = "idle" /\ owrites < OMaxWrites
    /\ owrites' = owrites + 1
    /\ oword' = IF variant = "seq" THEN oword + 1 ELSE oword
    /\ opc' = "copy" /\ oat' = 0
    /\ overrun' = (overrun \/ flips > 0)
    /\ UNCHANGED <<variant, obuf, dirty, owb, opub, osalRdVars, flips>>

\* The length, then vcopy.
WriteCopies ==
    /\ opc = "copy" /\ oat <= Length(owrites)
    /\ obuf' = [obuf EXCEPT ![Target][oat] = Message(owrites)[oat]]
    /\ oat' = oat + 1
    /\ UNCHANGED <<variant, oword, dirty, owb, opc, owrites, opub, osalRdVars, flips, overrun>>

\* The message can be read from here: the even number; the exchange of the writer's
\* buffer for the middle one; the flip.
Publishes ==
    /\ opc = "copy" /\ oat > Length(owrites)
    /\ opub' = owrites /\ opc' = "idle"
    /\ flips' = flips + 1
    /\ UNCHANGED <<variant, obuf, oat, owrites, osalRdVars, overrun>>
PublishSeq ==
    /\ variant = "seq" /\ Publishes
    /\ oword' = oword + 1 /\ UNCHANGED <<dirty, owb>>
PublishTriple ==
    /\ variant = "triple" /\ Publishes
    /\ oword' = owb /\ dirty' = TRUE /\ owb' = oword
PublishDouble ==
    /\ variant = "double" /\ Publishes
    /\ oword' = Target /\ UNCHANGED <<dirty, owb>>

-------------------------------------------------------------------------------
Calls == CASE variant = "seq" -> {"read"}
           [] variant = "triple" -> {"acq", "fresh"}
           [] variant = "double" -> {"acq2"}

ReadBegins ==
    /\ rdAt = "idle"
    /\ call' \in Calls
    /\ rdAt' = "load" /\ consumed' = FALSE
    /\ ofloor' = opub
    /\ UNCHANGED <<variant, obuf, oword, dirty, osalWrVars, orf, rdPlace, seq0, copy, hadBefore, flips, overrun>>

\* The buffer the reader copies from.
Source == CASE variant = "seq" -> 0 [] variant = "triple" -> orf [] variant = "double" -> seq0

\* blob_ioc_read's first load: never written, or a writer in it, or the copy begins.
Loads(next) ==
    /\ rdAt = "load" /\ rdAt' = next
    /\ rdPlace' = 0
    /\ UNCHANGED <<variant, obuf, oword, dirty, osalWrVars, orf, call, consumed, copy, ofloor, hadBefore>>

LoadSeq ==
    /\ variant = "seq" /\ (oword = 0 \/ oword % 2 = 0)
    /\ Loads(IF oword = 0 THEN "none" ELSE "copy")
    /\ seq0' = oword /\ UNCHANGED <<flips, overrun>>

\* _acq, _acq_fresh: is a flip to be consumed.
LoadShared ==
    /\ variant = "triple" /\ Loads(IF dirty THEN "swap" ELSE "copy")
    /\ UNCHANGED <<seq0, flips, overrun>>

\* _acq2: the readable buffer.
LoadActive ==
    /\ variant = "double" /\ Loads("copy")
    /\ seq0' = oword /\ flips' = 0 /\ overrun' = FALSE

\* The exchange: the front buffer for the one published last.
Swaps ==
    /\ rdAt = "swap" /\ rdAt' = "copy"
    /\ orf' = oword /\ oword' = orf /\ dirty' = FALSE /\ consumed' = TRUE
    /\ UNCHANGED <<variant, obuf, osalWrVars, rdPlace, call, seq0, copy, ofloor, hadBefore, flips, overrun>>

\* What of the buffer the call copies: as far as the length it read.
ReadCopies ==
    /\ rdAt = "copy" /\ (rdPlace = 0 \/ rdPlace <= copy[0])
    /\ copy' = IF rdPlace = 0 THEN [Message(0) EXCEPT ![0] = obuf[Source][0]]
               ELSE [copy EXCEPT ![rdPlace] = obuf[Source][rdPlace]]
    /\ rdPlace' = rdPlace + 1
    /\ UNCHANGED <<variant, obuf, oword, dirty, osalWrVars, orf, rdAt, call, seq0, consumed, ofloor,
                   hadBefore, flips, overrun>>

\* A slip: the copy is not checked again.
Unchecked == TRUE

\* blob_ioc_read's second load.
Stable == variant = "seq" => oword = seq0

Copied == rdAt = "copy" /\ rdPlace > 0 /\ rdPlace > copy[0]

ReadEnds ==
    /\ Copied
    /\ rdAt' = IF Stable THEN "done" ELSE "load"
    /\ UNCHANGED <<variant, obuf, oword, dirty, osalWrVars, orf, rdPlace, call, seq0, consumed, copy,
                   ofloor, hadBefore, flips, overrun>>

\* What the caller has: nothing yet, or a message, which one by its bytes.
Got == IF rdAt = "none" \/ copy[0] = 0 THEN 0 ELSE copy[1]

ReadReturns ==
    /\ rdAt \in {"done", "none"} /\ rdAt' = "idle"
    /\ hadBefore' = Got
    /\ copy' = Message(0) /\ rdPlace' = 0 /\ seq0' = 0 /\ consumed' = FALSE
    /\ UNCHANGED <<variant, obuf, oword, dirty, osalWrVars, orf, call, ofloor, flips, overrun>>

OsalNext ==
    \/ WriteBegins \/ WriteCopies \/ PublishSeq \/ PublishTriple \/ PublishDouble
    \/ ReadBegins \/ LoadSeq \/ LoadShared \/ LoadActive \/ Swaps
    \/ ReadCopies \/ ReadEnds \/ ReadReturns

OsalSpec == OsalInit /\ [][OsalNext]_osalVars

-------------------------------------------------------------------------------
Returned == rdAt \in {"done", "none"}

\* What a call returns was written as one message, the double buffer's where the writer
\* did not come round to the buffer being read.
CellWhole == Returned /\ ~(variant = "double" /\ overrun) => copy = Message(Got)

\* No call returns less than what was published when it began, nor goes back.
CellLatest ==
    Returned /\ ~(variant = "double" /\ overrun) => Got >= ofloor /\ (variant # "double" => Got >= hadBefore)

\* blob_ioc_acq_fresh answers 1 for a message no call has had, and only then.
FreshOnce == Returned /\ call = "fresh" => (consumed <=> Got > hadBefore)

\* osal_native.c: a cell's readings are whole, current, and fresh once.
OsalHonest == CellWhole /\ CellLatest /\ FreshOnce

===============================================================================
