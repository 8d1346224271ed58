------------------------------- MODULE Journal -------------------------------
(***************************************************************************)
(* The persistence journal, nvm/journal.v: an append journal over a pair   *)
(* of flash sectors.  A value is one record or a chain of records under    *)
(* one sequence number; the highest complete sequence number of a block    *)
(* wins at mount.  Every call runs on one thread, so one call is open at a *)
(* time; what interleaves with it is the flash: each program and each      *)
(* erase is a step of its own, it may fail, and power may go between any   *)
(* two of them or in the middle of one.                                    *)
(***************************************************************************)
EXTENDS Integers, FiniteSets, FiniteSetsExt

CONSTANTS
    Slots,      \* records per sector: cfg.size / rec_size
    Ids,        \* block ids (neither marker_block nor id_reserved)
    Values,     \* the values a block can take
    Parts,      \* [Values -> records it takes]: 1 = plain, more = a chain
    NoValue,    \* what get() answers for an absent block
    NoId,       \* no block
    MaxBlocks,  \* rows in the RAM table (max_blocks)
    SeqCeiling, \* no append once max_seq reaches it (seq_ceiling)
    Schemas,    \* the id sets the generated boot code may prune() to
    MaxFaults,  \* bound: program and erase calls that report a failure
    MaxCuts     \* bound: power cuts

ASSUME JournalAssumption ==
    /\ Slots \in Nat \ {0}
    /\ Parts \in [Values -> Nat \ {0}]
    /\ NoValue \notin Values
    /\ NoId \notin Ids
    /\ MaxBlocks \in Nat
    /\ SeqCeiling \in Nat
    /\ \A keep \in Schemas : keep \subseteq Ids
    /\ MaxFaults \in Nat
    /\ MaxCuts \in Nat

VARIABLES
    flash,         \* [Sector -> [Slot -> cell]]: all that survives a power cut
    mounted,
    table,         \* [Ids -> Entry or Absent]: the newest value of each block
    maxSeq,        \* max_seq: the last sequence number used
    active,        \* the sector appends go to
    cursor,        \* the next slot to program in it
    pendingErase,  \* the sector awaiting its erase, -1 = none
    partnerClean,  \* the other sector is known to be erased
    tailClean,     \* tail_clean; after mount it is the mount's verdict, clean
    poolOverflow,  \* mount met more blocks than the table holds
    job,           \* the open call: [op, id, val]
    phase,         \* where the open call is
    todo,          \* blocks a copy loop has still to emit
    cur,           \* the block it is emitting
    part,          \* the part of the value being written
    moved,         \* [Ids -> [off, seq]]: compact's deferred table updates
    savedCursor,   \* compact's old_cursor
    faults, cuts,  \* how often flash failed, how often power did
    inDoubt,       \* history: the values each block may come back with
    past,          \* history: the values put() ever tried to write for it
    tail           \* history: what puts did to the flash after the newest marker

Sector == {0, 1}
Slot == 0 .. Slots - 1

Blank == [kind |-> "blank"]
Torn == [kind |-> "torn"]
Marker(q) == [kind |-> "marker", seq |-> q]
Rec(b, v, q, k) == [kind |-> "value", id |-> b, val |-> v, seq |-> q, part |-> k]

SeqRange == 0 .. SeqCeiling + 1
Markers == [kind : {"marker"}, seq : SeqRange]
Records == [kind : {"value"}, id : Ids, val : Values, seq : SeqRange, part : Nat]
Cells == {Blank, Torn} \cup Markers \cup Records

Absent == [present |-> FALSE]
Entry == [present : {TRUE}, val : Values, sector : Sector, off : Slot, seq : SeqRange]

NoJob == [op |-> "none", id |-> NoId, val |-> NoValue]
Calls == [op : {"none", "put", "mark", "compact", "erase"},
          id : Ids \cup {NoId}, val : Values \cup {NoValue}]
Moves == [Ids -> [off : 0 .. Slots, seq : SeqRange]]
WritePhases == {"append", "rehomeWrite", "copyWrite"}
MarkPhases == {"mark", "rehomeMark", "copyMark"}
Compacting == {"copy", "copyWrite", "copyMark"}
Phases == {"idle", "space", "rehome", "erase"} \cup WritePhases \cup MarkPhases
            \cup Compacting

history == <<inDoubt, past, tail>>
place == <<active, cursor, pendingErase, partnerClean>>
vars == <<flash, mounted, table, maxSeq, place, tailClean, poolOverflow, job,
          phase, todo, cur, part, moved, savedCursor, faults, cuts, history>>

-----------------------------------------------------------------------------
(* Sizes, in records. *)

Present == {b \in Ids : table[b].present}
RecordsOf(b) == Parts[table[b].val]
LiveRecords == 1 + MapThenSumSet(RecordsOf, Present)
\* Mutant: the sector about to be erased is not searched for newest copies.
NoStrays(s) == {}

StrayIds(s) == {b \in Present : table[b].sector = s}
\* Mutant: values are counted where records should be.
StrayValues(s) == Cardinality(StrayIds(s))

Strays(s) == MapThenSumSet(RecordsOf, StrayIds(s))
FreeRecords == Slots - cursor

\* put()'s check: the live set the write leaves, and on top of it the largest
\* live value once more, fit one sector.
CapacityAllows(b, v) ==
    LET others == Present \ {b}
        worst == Max({Parts[v]} \cup {RecordsOf(c) : c \in others})
        live == 1 + MapThenSumSet(RecordsOf, others)
    IN  live + Parts[v] + worst <= Slots

\* slot_for: the table has the block's row, or a free one.
HasRow(b) == b \in Present \/ Cardinality(Present) < MaxBlocks

\* Mutant: the end of the sector is not checked.
RoomUnbounded(n) == maxSeq < SeqCeiling

\* ensure_space, the part that compacts nothing.
Room(n) == maxSeq < SeqCeiling /\ cursor + n <= Slots
\* Mutant: compact does not ask whether mount dropped blocks.
CompactDegraded == LiveRecords <= Slots

CompactAdmitted == ~poolOverflow /\ LiveRecords <= Slots

-----------------------------------------------------------------------------
(* Flash.  program_slot consumes the slot whatever happens.  A reported     *)
(* failure is read back: "ok" also stands for a failure whose record turns  *)
(* out to have landed.  The other outcomes: a torn word, a word left blank, *)
(* and a record that landed but could not be read back.                     *)

Failures == {"torn", "blank", "unread"}

\* What programming record r leaves in a cell; a word programmed a second time
\* holds neither content.
AfterProgram(cell, r, out) ==
    IF out = "blank" THEN cell ELSE IF out = "torn" \/ cell # Blank THEN Torn ELSE r

Program(r, out) ==
    flash' = [flash EXCEPT ![active][cursor] = AfterProgram(@, r, out)]

\* The payload emit_entry copies: plain from the table, a chain from flash.
Source(b, k) == flash[table[b].sector][table[b].off + k]
Payload(b, k) == IF RecordsOf(b) = 1 THEN table[b].val ELSE Source(b, k).val

\* emit_entry's and read_chain's re-validation of a chain part on flash.
SourceValid(b, k) ==
    RecordsOf(b) > 1 =>
        /\ table[b].off + k \in Slot
        /\ Source(b, k).kind = "value"
        /\ Source(b, k).id = b
        /\ Source(b, k).seq = table[b].seq
        /\ Source(b, k).part = k

\* The value, and the record, the open call programs next.
Writing == IF phase = "append" THEN job.val ELSE table[cur].val
NextRecord ==
    CASE phase = "append" -> Rec(job.id, job.val, maxSeq, part)
      [] phase \in {"rehomeWrite", "copyWrite"} ->
            Rec(cur, Payload(cur, part), maxSeq, part)
      [] OTHER -> Marker(maxSeq)

\* An erase that stops half way: some words are wiped, or left unreadable.
HalfErased(s, hit, left) ==
    [i \in Slot |-> IF i \in hit THEN left ELSE flash[s][i]]

\* History: a marker on flash covers everything before it, a put's word touches
\* the tail behind it.
Witness(cell) ==
    tail' = CASE cell.kind = "marker" -> "covered"
              [] phase = "append" /\ cell.kind # "blank" /\ tail = "covered" -> "touched"
              [] OTHER -> tail

-----------------------------------------------------------------------------
(* Control shared by the calls. *)

Finish ==
    /\ phase' = "idle"
    /\ job' = NoJob
    /\ todo' = {}
    /\ cur' = NoId
    /\ part' = 0
    /\ moved' = [b \in Ids |-> [off |-> 0, seq |-> 0]]
    /\ savedCursor' = 0

\* Mutant: the revert forgets old_cursor.
GiveUpInPlace(cursorNow) ==
    /\ Finish
    /\ cursor' = cursorNow
    /\ IF phase \in Compacting
         THEN active' = 1 - active /\ pendingErase' = active /\ partnerClean' = FALSE
         ELSE UNCHANGED <<active, pendingErase, partnerClean>>

\* A failure inside compact's copy loop goes back to the old sector and leaves
\* the half-written target for its erase; nothing else is undone.
GiveUp(cursorNow) ==
    /\ Finish
    /\ IF phase \in Compacting
         THEN /\ active' = 1 - active
              /\ cursor' = savedCursor
              /\ pendingErase' = active
              /\ partnerClean' = FALSE
         ELSE /\ cursor' = cursorNow
              /\ UNCHANGED <<active, pendingErase, partnerClean>>

\* Mutant: the partner stays marked clean while it is filled.
StartCopyStale ==
    /\ phase' = "copy"
    /\ todo' = Present
    /\ active' = 1 - active
    /\ cursor' = 0
    /\ savedCursor' = cursor
    /\ UNCHANGED <<partnerClean, pendingErase, cur, part, moved>>

\* compact's copy loop starts: appends go to the partner from slot 0.
StartCopy ==
    /\ phase' = "copy"
    /\ todo' = Present
    /\ active' = 1 - active
    /\ cursor' = 0
    /\ savedCursor' = cursor
    /\ partnerClean' = FALSE
    /\ UNCHANGED <<pendingErase, cur, part, moved>>

Open(call) ==
    /\ mounted
    /\ phase = "idle"
    /\ job' = call
    /\ UNCHANGED <<flash, mounted, tailClean, poolOverflow, faults, cuts, history>>

-----------------------------------------------------------------------------
(* put and mark_clean.  A refusal that changes nothing is no step. *)

PutBegin(b, v) ==
    /\ Open([op |-> "put", id |-> b, val |-> v])
    /\ CapacityAllows(b, v)
    /\ maxSeq < SeqCeiling
    /\ phase' = "space"
    /\ UNCHANGED <<table, maxSeq, place, todo, cur, part, moved, savedCursor>>

MarkBegin ==
    /\ Open([op |-> "mark", id |-> NoId, val |-> NoValue])
    /\ maxSeq < SeqCeiling
    /\ phase' = "space"
    /\ UNCHANGED <<table, maxSeq, place, todo, cur, part, moved, savedCursor>>

Needed == IF job.op = "put" THEN Parts[job.val] ELSE 1

\* ensure_space found room: the append starts, a put's dirtying the tail.
SpaceFound ==
    /\ phase = "space"
    /\ cursor + Needed <= Slots
    /\ job.op = "put" => HasRow(job.id)
    /\ maxSeq' = maxSeq + 1
    /\ IF job.op = "put"
         THEN /\ phase' = "append"
              /\ tailClean' = FALSE
              /\ inDoubt' = [inDoubt EXCEPT ![job.id] = @ \cup {job.val}]
              /\ past' = [past EXCEPT ![job.id] = @ \cup {job.val}]
         ELSE /\ phase' = "mark"
              /\ UNCHANGED <<tailClean, inDoubt, past>>
    /\ UNCHANGED <<flash, mounted, table, place, poolOverflow, job, todo, cur, part,
                   moved, savedCursor, faults, cuts, tail>>

\* ensure_space compacts inline, only into a partner that is already erased.
SpaceCompact ==
    /\ phase = "space"
    /\ cursor + Needed > Slots
    /\ partnerClean
    /\ CompactAdmitted
    /\ StartCopy
    /\ UNCHANGED <<flash, mounted, table, maxSeq, tailClean, poolOverflow, job,
                   faults, cuts, history>>

SpaceRefused ==
    /\ phase = "space"
    /\ \/ cursor + Needed > Slots /\ ~(partnerClean /\ CompactAdmitted)
       \/ cursor + Needed <= Slots /\ job.op = "put" /\ ~HasRow(job.id)
    /\ Finish
    /\ UNCHANGED <<flash, mounted, table, maxSeq, place, tailClean, poolOverflow,
                   faults, cuts, history>>

-----------------------------------------------------------------------------
(* compact and erase_pending: clear the partner, then copy into it. *)

\* rehome_strays: fits before it starts, so its appends never compact.
StartRehome ==
    /\ StrayIds(1 - active) # {} =>
          FreeRecords >= Strays(1 - active) + (IF tailClean THEN 1 ELSE 0)
    /\ phase' = "rehome"
    /\ todo' = StrayIds(1 - active)
    /\ UNCHANGED <<table, maxSeq, place, cur, part, moved, savedCursor>>

CompactBegin ==
    /\ Open([op |-> "compact", id |-> NoId, val |-> NoValue])
    /\ CompactAdmitted
    /\ IF partnerClean
         THEN StartCopy /\ UNCHANGED <<table, maxSeq>>
         ELSE StartRehome

ErasePendingBegin ==
    /\ Open([op |-> "erase", id |-> NoId, val |-> NoValue])
    /\ pendingErase # -1
    /\ pendingErase # active
    /\ ~poolOverflow
    /\ StartRehome

\* emit_entry starts on the next block of the loop, in any order of rows.
EmitNext(b) ==
    /\ phase \in {"rehome", "copy"}
    /\ b \in todo
    /\ Room(RecordsOf(b))
    /\ phase' = IF phase = "copy" THEN "copyWrite" ELSE "rehomeWrite"
    /\ cur' = b
    /\ maxSeq' = maxSeq + 1
    /\ UNCHANGED <<flash, mounted, table, place, tailClean, poolOverflow, job, todo,
                   part, moved, savedCursor, faults, cuts, history>>

\* The loop is done and the tail was clean: the marker goes behind the copies.
EmitMarker ==
    /\ phase \in {"rehome", "copy"}
    /\ todo = {}
    /\ tailClean
    /\ Room(1)
    /\ phase' = IF phase = "copy" THEN "copyMark" ELSE "rehomeMark"
    /\ maxSeq' = maxSeq + 1
    /\ UNCHANGED <<flash, mounted, table, place, tailClean, poolOverflow, job, todo,
                   cur, part, moved, savedCursor, faults, cuts, history>>

EmitRefused ==
    /\ phase \in {"rehome", "copy"}
    /\ \/ \E b \in todo : ~Room(RecordsOf(b))
       \/ todo = {} /\ tailClean /\ ~Room(1)
    /\ GiveUp(cursor)
    /\ UNCHANGED <<flash, mounted, table, maxSeq, tailClean, poolOverflow, faults,
                   cuts, history>>

\* Mutant: the erase does not wait for the marker to be re-anchored.
RehomeDoneUnmarked ==
    /\ phase = "rehome"
    /\ todo = {}
    /\ phase' = "erase"
    /\ UNCHANGED <<flash, mounted, table, maxSeq, place, tailClean, poolOverflow, job,
                   todo, cur, part, moved, savedCursor, faults, cuts, history>>

\* The re-homed blocks are durable in the active sector: erase the other one.
RehomeDone ==
    /\ phase = "rehome"
    /\ todo = {}
    /\ ~tailClean
    /\ phase' = "erase"
    /\ UNCHANGED <<flash, mounted, table, maxSeq, place, tailClean, poolOverflow, job,
                   todo, cur, part, moved, savedCursor, faults, cuts, history>>

-----------------------------------------------------------------------------
(* One record programmed. *)

\* A part that is not the last.
PartWritten ==
    /\ phase \in WritePhases
    /\ part + 1 < Parts[Writing]
    /\ phase # "append" => SourceValid(cur, part)
    /\ Program(NextRecord, "ok")
    /\ Witness(NextRecord)
    /\ cursor' = cursor + 1
    /\ part' = part + 1
    /\ UNCHANGED <<mounted, table, maxSeq, active, pendingErase, partnerClean, tailClean,
                   poolOverflow, job, phase, todo, cur, moved, savedCursor, faults,
                   cuts, inDoubt, past>>

\* The last part of a put: the value is durable, the table takes it in and the
\* call answers true.
PutWritten ==
    /\ phase = "append"
    /\ part + 1 = Parts[job.val]
    /\ Program(NextRecord, "ok")
    /\ tail' = "acknowledged"
    /\ cursor' = cursor + 1
    /\ table' = [table EXCEPT ![job.id] =
                   [present |-> TRUE, val |-> job.val, sector |-> active,
                    off |-> cursor - part, seq |-> maxSeq]]
    /\ inDoubt' = [inDoubt EXCEPT ![job.id] = {job.val}]
    /\ Finish
    /\ UNCHANGED <<mounted, maxSeq, active, pendingErase, partnerClean, tailClean,
                   poolOverflow, faults, cuts, past>>

\* The last part of a re-homed value: its row moves at once.
RehomeWritten ==
    /\ phase = "rehomeWrite"
    /\ part + 1 = RecordsOf(cur)
    /\ SourceValid(cur, part)
    /\ Program(NextRecord, "ok")
    /\ Witness(NextRecord)
    /\ cursor' = cursor + 1
    /\ table' = [table EXCEPT ![cur].sector = active, ![cur].seq = maxSeq,
                              ![cur].off = cursor - part]
    /\ phase' = "rehome"
    /\ todo' = todo \ {cur}
    /\ cur' = NoId
    /\ part' = 0
    /\ UNCHANGED <<mounted, maxSeq, active, pendingErase, partnerClean, tailClean,
                   poolOverflow, job, moved, savedCursor, faults, cuts, inDoubt, past>>

\* The last part of a compacted value: the row's update is deferred.
CopyWritten ==
    /\ phase = "copyWrite"
    /\ part + 1 = RecordsOf(cur)
    /\ SourceValid(cur, part)
    /\ Program(NextRecord, "ok")
    /\ Witness(NextRecord)
    /\ cursor' = cursor + 1
    /\ moved' = [moved EXCEPT ![cur] = [off |-> cursor - part, seq |-> maxSeq]]
    /\ phase' = "copy"
    /\ todo' = todo \ {cur}
    /\ cur' = NoId
    /\ part' = 0
    /\ UNCHANGED <<mounted, table, maxSeq, active, pendingErase, partnerClean, tailClean,
                   poolOverflow, job, savedCursor, faults, cuts, inDoubt, past>>

MarkWritten ==
    /\ phase = "mark"
    /\ Program(NextRecord, "ok")
    /\ Witness(NextRecord)
    /\ cursor' = cursor + 1
    /\ tailClean' = TRUE
    /\ Finish
    /\ UNCHANGED <<mounted, table, maxSeq, active, pendingErase, partnerClean,
                   poolOverflow, faults, cuts, inDoubt, past>>

RehomeMarked ==
    /\ phase = "rehomeMark"
    /\ Program(NextRecord, "ok")
    /\ Witness(NextRecord)
    /\ cursor' = cursor + 1
    /\ phase' = "erase"
    /\ UNCHANGED <<mounted, table, maxSeq, active, pendingErase, partnerClean, tailClean,
                   poolOverflow, job, todo, cur, part, moved, savedCursor, faults,
                   cuts, inDoubt, past>>

\* compact's end: every row now refers to its copy, the old sector awaits its
\* erase, and the call that compacted inline goes on with its append.
Commit ==
    /\ table' = [b \in Ids |->
                   IF b \in Present
                     THEN [table[b] EXCEPT !.sector = active, !.seq = moved[b].seq,
                                           !.off = moved[b].off]
                     ELSE table[b]]
    /\ pendingErase' = 1 - active
    /\ IF job.op = "compact"
         THEN Finish
         ELSE /\ phase' = "space"
              /\ moved' = [b \in Ids |-> [off |-> 0, seq |-> 0]]
              /\ savedCursor' = 0
              /\ UNCHANGED <<job, todo, cur, part>>

CopyDone ==
    /\ phase = "copy"
    /\ todo = {}
    /\ ~tailClean
    /\ Commit
    /\ UNCHANGED <<flash, mounted, maxSeq, active, cursor, partnerClean, tailClean,
                   poolOverflow, faults, cuts, history>>

CopyMarked ==
    /\ phase = "copyMark"
    /\ Program(NextRecord, "ok")
    /\ Witness(NextRecord)
    /\ cursor' = cursor + 1
    /\ Commit
    /\ UNCHANGED <<mounted, maxSeq, active, partnerClean, tailClean, poolOverflow,
                   faults, cuts, inDoubt, past>>

\* A program that fails fails the whole call; the slot is burned.
ProgramFails(out) ==
    /\ phase \in WritePhases \cup MarkPhases
    /\ faults < MaxFaults
    /\ faults' = faults + 1
    /\ Program(NextRecord, out)
    /\ Witness(AfterProgram(flash[active][cursor], NextRecord, out))
    /\ GiveUp(cursor + 1)
    /\ UNCHANGED <<mounted, table, maxSeq, tailClean, poolOverflow, cuts, inDoubt, past>>

-----------------------------------------------------------------------------
(* The partner's erase. *)

EraseDone ==
    /\ phase = "erase"
    /\ flash' = [flash EXCEPT ![1 - active] = [i \in Slot |-> Blank]]
    /\ IF job.op = "erase"
         THEN /\ partnerClean' = TRUE
              /\ pendingErase' = -1
              /\ Finish
              /\ UNCHANGED <<active, cursor>>
         ELSE StartCopy /\ UNCHANGED <<job>>
    /\ UNCHANGED <<mounted, table, maxSeq, tailClean, poolOverflow, faults, cuts,
                   history>>

EraseFails(hit, left) ==
    /\ phase = "erase"
    /\ faults < MaxFaults
    /\ faults' = faults + 1
    /\ flash' = [flash EXCEPT ![1 - active] = HalfErased(1 - active, hit, left)]
    /\ Finish
    /\ UNCHANGED <<mounted, table, maxSeq, place, tailClean, poolOverflow, cuts, history>>

-----------------------------------------------------------------------------
(* Power goes: the RAM is lost, the flash operation under way may be half   *)
(* done, or done with nobody told.                                          *)

Halted ==
    /\ mounted' = FALSE
    /\ table' = [b \in Ids |-> Absent]
    /\ maxSeq' = 0
    /\ active' = 0
    /\ cursor' = 0
    /\ pendingErase' = -1
    /\ partnerClean' = FALSE
    /\ tailClean' = FALSE
    /\ poolOverflow' = FALSE
    /\ Finish

PowerCut ==
    /\ mounted
    /\ cuts < MaxCuts
    /\ cuts' = cuts + 1
    /\ Halted
    /\ \/ UNCHANGED <<flash, tail>>
       \/ /\ phase \in WritePhases \cup MarkPhases
          /\ \E out \in {"ok", "torn"} :
               /\ Program(NextRecord, out)
               /\ Witness(AfterProgram(flash[active][cursor], NextRecord, out))
       \/ /\ phase = "erase"
          /\ \E hit \in SUBSET Slot, left \in {Blank, Torn} :
               flash' = [flash EXCEPT ![1 - active] = HalfErased(1 - active, hit, left)]
          /\ UNCHANGED tail
    /\ UNCHANGED <<faults, inDoubt, past>>

-----------------------------------------------------------------------------
(* mount: a read-only scan of both sectors. *)

IsValid(s, i) == flash[s][i].kind \in {"value", "marker"}
NonEmpty(s) == \E i \in Slot : flash[s][i] # Blank

\* Mutant: the scan stops at the first blank slot.
NoDirt(s) == FALSE

\* Dirt beyond the first blank slot: an interrupted erase or a burned slot.
DirtyTail(s) == \E i, k \in Slot : i < k /\ flash[s][i] = Blank /\ flash[s][k] # Blank
Frontier(s) == Min({i \in Slot : flash[s][i] = Blank} \cup {Slots})

\* The last written slot of the sector does not parse.
TrailingInvalid(s) ==
    \E i \in Slot : /\ flash[s][i] = Torn
                    /\ \A k \in Slot : k > i => flash[s][k] = Blank

\* Mutant: a first part is taken for the value.
FirstPart(s, i) == flash[s][i].kind = "value" /\ flash[s][i].part = 0

\* chain_step: a value starts at slot i and all its parts follow, in order,
\* under its id and sequence number, with the payload its CRC covers.
Complete(s, i) ==
    /\ flash[s][i].kind = "value"
    /\ flash[s][i].part = 0
    /\ \A k \in 0 .. Parts[flash[s][i].val] - 1 :
         /\ i + k \in Slot
         /\ flash[s][i + k] = [flash[s][i] EXCEPT !.part = k]

\* What the scan may put in the table for block b.
Found(b) ==
    {[present |-> TRUE, val |-> flash[p[1]][p[2]].val, sector |-> p[1], off |-> p[2],
      seq |-> flash[p[1]][p[2]].seq] :
        p \in {q \in Sector \X Slot : Complete(q[1], q[2]) /\ flash[q[1]][q[2]].id = b}}
Newest(b) == CHOOSE e \in Found(b) : \A f \in Found(b) : f.seq <= e.seq

\* The rows go to the blocks whose first complete value the scan meets first.
FirstSeen(b) == Min({e.sector * Slots + e.off + Parts[e.val] : e \in Found(b)})
OnFlash == {b \in Ids : Found(b) # {}}
Kept == {b \in OnFlash :
           Cardinality({c \in OnFlash : FirstSeen(c) < FirstSeen(b)}) < MaxBlocks}

\* maxseq_in: markers, plain records and completed chains; parts of a chain
\* that never completed do not count.
MaxSeqIn(s) ==
    Max({0} \cup {flash[s][i].seq : i \in {n \in Slot : flash[s][n].kind = "marker"
                                                          \/ Complete(s, n)}})
\* Mutant: max_seq follows adopted content only.
MaxSeqAdopted == Max({MaxSeqIn(s) : s \in Sector})

MaxSeqOnFlash ==
    Max({0} \cup {flash[p[1]][p[2]].seq : p \in {q \in Sector \X Slot : IsValid(q[1], q[2])}})

\* The freshest sector, but never one with a dirty tail when the other has none.
FreshSector ==
    IF NonEmpty(1) /\ (NonEmpty(0) => MaxSeqIn(1) > MaxSeqIn(0)) THEN 1 ELSE 0
ActiveSector ==
    IF DirtyTail(FreshSector) /\ ~DirtyTail(1 - FreshSector)
      THEN 1 - FreshSector ELSE FreshSector

\* Mutant: any marker testifies.
AnyMarker == \E s \in Sector, i \in Slot : flash[s][i].kind = "marker"

\* The verdict on the last session: its newest record is a marker.
MountsClean ==
    /\ \A s \in Sector, i \in Slot : IsValid(s, i) =>
          \E t \in Sector, k \in Slot : /\ flash[t][k].kind = "marker"
                                        /\ flash[t][k].seq >= flash[s][i].seq
    /\ (NonEmpty(0) \/ NonEmpty(1)) => \E s \in Sector, i \in Slot : IsValid(s, i)
    /\ ~TrailingInvalid(ActiveSector)

Mount ==
    /\ ~mounted
    /\ mounted' = TRUE
    /\ table' = [b \in Ids |-> IF b \in Kept THEN Newest(b) ELSE Absent]
    /\ poolOverflow' = (Kept # OnFlash)
    /\ maxSeq' = MaxSeqOnFlash
    /\ active' = ActiveSector
    /\ cursor' = IF DirtyTail(ActiveSector) THEN Slots ELSE Frontier(ActiveSector)
    /\ partnerClean' = ~NonEmpty(1 - ActiveSector)
    /\ pendingErase' = IF NonEmpty(1 - ActiveSector) THEN 1 - ActiveSector ELSE -1
    /\ tailClean' = MountsClean
    /\ inDoubt' = [b \in Ids |-> CASE b \in Kept -> {Newest(b).val}
                                   [] b \in OnFlash \ Kept -> inDoubt[b]
                                   [] OTHER -> {NoValue}]
    /\ UNCHANGED <<flash, job, phase, todo, cur, part, moved, savedCursor, faults,
                   cuts, past, tail>>

\* prune: rows of blocks the schema no longer names go, and nothing protects their
\* records any longer: of those an erase leaves, the newest may be an old one.  The
\* overflow latch lifts once every block of the schema has its row.
Prune(keep) ==
    /\ mounted
    /\ phase = "idle"
    /\ table' = [b \in Ids |-> IF b \in keep THEN table[b] ELSE Absent]
    /\ poolOverflow' = (poolOverflow /\ ~(keep \subseteq Present))
    /\ inDoubt' = [b \in Ids |-> IF b \in keep THEN inDoubt[b]
                                               ELSE past[b] \cup {NoValue}]
    /\ tail' = IF tail = "acknowledged" THEN "touched" ELSE tail
    /\ UNCHANGED <<flash, mounted, maxSeq, place, tailClean, job, phase, todo, cur, part,
                   moved, savedCursor, faults, cuts, past>>

-----------------------------------------------------------------------------

Init ==
    /\ flash = [s \in Sector |-> [i \in Slot |-> Blank]]
    /\ mounted = FALSE
    /\ table = [b \in Ids |-> Absent]
    /\ maxSeq = 0
    /\ active = 0
    /\ cursor = 0
    /\ pendingErase = -1
    /\ partnerClean = FALSE
    /\ tailClean = FALSE
    /\ poolOverflow = FALSE
    /\ job = NoJob
    /\ phase = "idle"
    /\ todo = {}
    /\ cur = NoId
    /\ part = 0
    /\ moved = [b \in Ids |-> [off |-> 0, seq |-> 0]]
    /\ savedCursor = 0
    /\ faults = 0
    /\ cuts = 0
    /\ inDoubt = [b \in Ids |-> {NoValue}]
    /\ past = [b \in Ids |-> {}]
    /\ tail = "covered"

Next ==
    \/ Mount
    \/ \E keep \in Schemas : Prune(keep)
    \/ \E b \in Ids, v \in Values : PutBegin(b, v)
    \/ MarkBegin
    \/ CompactBegin
    \/ ErasePendingBegin
    \/ SpaceFound
    \/ SpaceCompact
    \/ SpaceRefused
    \/ \E b \in Ids : EmitNext(b)
    \/ EmitMarker
    \/ EmitRefused
    \/ RehomeDone
    \/ PartWritten
    \/ PutWritten
    \/ RehomeWritten
    \/ CopyWritten
    \/ MarkWritten
    \/ RehomeMarked
    \/ CopyDone
    \/ CopyMarked
    \/ \E out \in Failures : ProgramFails(out)
    \/ EraseDone
    \/ \E hit \in SUBSET Slot, left \in {Blank, Torn} : EraseFails(hit, left)
    \/ PowerCut

Spec == Init /\ [][Next]_vars

-----------------------------------------------------------------------------
(* What get() returns. *)

Served(b) ==
    IF ~mounted \/ ~table[b].present THEN NoValue
    ELSE IF RecordsOf(b) = 1 THEN table[b].val
    ELSE IF \A k \in 0 .. RecordsOf(b) - 1 : SourceValid(b, k) THEN Source(b, 0).val
    ELSE NoValue

Store == INSTANCE DurableStore
           WITH up <- mounted, degraded <- poolOverflow,
                served <- [b \in Ids |-> Served(b)]

\* nvm/journal.v implements the store its callers rely on: an acknowledged put
\* is served and survives every later power cut, failure, compaction, re-homing
\* and erase; one that was cut or refused leaves the old value or the new one.
ImplementsStore == Store!StoreSpec

TypeOK ==
    /\ flash \in [Sector -> [Slot -> Cells]]
    /\ mounted \in BOOLEAN
    /\ table \in [Ids -> Entry \cup {Absent}]
    /\ maxSeq \in SeqRange
    /\ active \in Sector
    /\ cursor \in 0 .. Slots
    /\ pendingErase \in {-1, 0, 1}
    /\ partnerClean \in BOOLEAN
    /\ tailClean \in BOOLEAN
    /\ poolOverflow \in BOOLEAN
    /\ job \in Calls
    /\ phase \in Phases
    /\ todo \subseteq Ids
    /\ cur \in Ids \cup {NoId}
    /\ part \in Nat
    /\ moved \in Moves
    /\ savedCursor \in 0 .. Slots
    /\ faults \in 0 .. MaxFaults
    /\ cuts \in 0 .. MaxCuts
    /\ inDoubt \in [Ids -> SUBSET (Values \cup {NoValue})]
    /\ past \in [Ids -> SUBSET Values]
    /\ tail \in {"covered", "touched", "acknowledged"}

-----------------------------------------------------------------------------
(* Safety. *)

\* nvm/journal.v "no flash word is ever programmed twice": whenever a call is
\* about to program, the slot under the cursor is blank, whatever burned slots,
\* reverted compactions, interrupted erases and remounts came before.
NextWordBlank ==
    phase \in WritePhases \cup MarkPhases =>
        cursor \in Slot /\ flash[active][cursor] = Blank

\* compact, erase_pending: the sector awaiting its erase is never the active
\* one; the partner counts as erased exactly when no copy loop fills it and no
\* erase is pending, and is then erased (so an inline compact programs blank
\* words and rehome_strays never compacts).
PartnerAccounted ==
    mounted =>
        /\ pendingErase = active => phase \in Compacting
        /\ partnerClean <=> phase \notin Compacting /\ pendingErase = -1
        /\ partnerClean => \A i \in Slot : flash[1 - active][i] = Blank

\* mount's "highest seq wins": no sequence number is ever used for two writes,
\* not even across a cut that tore the record that used it first.
SeqNamesOneWrite ==
    \A s, t \in Sector, i, k \in Slot :
        /\ IsValid(s, i) /\ IsValid(t, k)
        /\ flash[s][i].seq = flash[t][k].seq
        => \/ s = t /\ i = k
           \/ /\ s = t
              /\ flash[s][i].kind = "value" /\ flash[t][k].kind = "value"
              /\ flash[s][i].id = flash[t][k].id
              /\ flash[s][i].part - flash[t][k].part = i - k

\* compact and rehome_strays check the fit once, up front: no later append of
\* theirs runs out of the sector.
LoopFits ==
    (phase = "copy" \/ (phase = "rehome" /\ todo # {})) =>
        cursor + MapThenSumSet(RecordsOf, todo) + (IF tailClean THEN 1 ELSE 0) <= Slots

\* put and mount: a session is never taken for an orderly one when a put was
\* acknowledged after its last marker, whatever compactions and cuts came between.
NoFalseClean == mounted /\ tailClean => tail # "acknowledged"

\* mark_clean "Compaction/re-homing preserve a clean tail": when a compact or an
\* erase_pending completes on a clean tail, the next mount finds it clean.
CleanPreserved ==
    [][/\ \/ phase = "erase" /\ phase' = "idle" /\ partnerClean'
          \/ phase \in Compacting /\ mounted' /\ phase' \notin Compacting /\ active' = active
       /\ tailClean'
       => MountsClean']_vars

-----------------------------------------------------------------------------
(* The inductive invariant behind NextWordBlank, PartnerAccounted and       *)
(* RefsValid.                                                               *)

\* All records of a value of block b, under sequence number q, from slot o of
\* sector s on.
ValueAt(s, o, b, v, q) ==
    \A k \in 0 .. Parts[v] - 1 : o + k \in Slot /\ flash[s][o + k] = Rec(b, v, q, k)

\* get, emit_entry and read_chain follow a row into flash: it always leads to
\* the complete value it was made for, so an erase or an append never takes a
\* value away from under its row.
RefsValid ==
    \A b \in Ids : table[b].present =>
        ValueAt(table[b].sector, table[b].off, b, table[b].val, table[b].seq)

\* What each phase may assume of the open call.
CallShape ==
    /\ ~mounted => phase = "idle" /\ \A b \in Ids : ~table[b].present
    /\ job.op = "put" => job.id \in Ids /\ job.val \in Values
    /\ phase = "append" => job.op = "put"
    /\ phase \in {"space", "append", "mark"} => job.op \in {"put", "mark"}
    /\ phase \in {"rehome", "rehomeWrite", "rehomeMark", "erase"} =>
          job.op \in {"compact", "erase"} /\ ~partnerClean
    /\ phase \in Compacting => job.op \in {"put", "mark", "compact"}
    /\ phase \in {"space"} \cup Compacting /\ job.op \in {"put", "mark"} =>
          maxSeq <= SeqCeiling
    /\ todo \subseteq Present
    /\ phase \in {"rehomeWrite", "copyWrite"} => cur \in todo
    /\ phase \notin {"rehome", "rehomeWrite", "copy", "copyWrite"} => todo = {}

\* Appends have only blank slots before them, in the active sector and in the
\* sector a failing compaction goes back to.
FrontierBlank ==
    /\ mounted => \A i \in Slot : i >= cursor => flash[active][i] = Blank
    /\ phase \in Compacting =>
          \A i \in Slot : i >= savedCursor => flash[1 - active][i] = Blank

\* The value being written fits, and the parts written so far are on flash.
WriteShape ==
    /\ phase \notin WritePhases => part = 0
    /\ phase \in WritePhases =>
          /\ part < Parts[Writing]
          /\ part <= cursor
          /\ cursor + Parts[Writing] - part <= Slots
          /\ \A k \in 0 .. part - 1 :
               flash[active][cursor - part + k] =
                 Rec(IF phase = "append" THEN job.id ELSE cur, Writing, maxSeq, k)
    /\ phase \in MarkPhases => cursor < Slots

\* No row leads into a sector that is being erased or filled.
StraysSafe ==
    /\ phase \in {"rehome", "rehomeWrite"} => StrayIds(1 - active) = todo
    /\ phase \in {"rehomeMark", "erase"} => StrayIds(1 - active) = {}
    /\ phase \in Compacting => StrayIds(active) = {}

\* Where compact has copied the blocks it is done with.
CopiesValid ==
    phase \in Compacting =>
        \A b \in Present \ todo :
            ValueAt(active, moved[b].off, b, table[b].val, moved[b].seq)

JournalInv ==
    /\ TypeOK
    /\ CallShape
    /\ FrontierBlank
    /\ WriteShape
    /\ PartnerAccounted
    /\ RefsValid
    /\ StraysSafe
    /\ CopiesValid

-----------------------------------------------------------------------------
(* What the comments and documents say and the code does not do. *)

\* docs/nvm.md "the journal accepts appends at ANY moment the ECU is alive": a
\* one-record value that passes put's capacity check has a slot, or an inline
\* compaction, or a quiet-point call that will make room for it.
RehomeAdmitted ==
    IF StrayIds(1 - active) = {}
      THEN tailClean => Room(1)
      ELSE FreeRecords >= Strays(1 - active) + (IF tailClean THEN 1 ELSE 0)
NeverWedged ==
    mounted /\ phase = "idle" /\ maxSeq < SeqCeiling /\ ~poolOverflow =>
        \/ cursor < Slots
        \/ CompactAdmitted /\ (partnerClean \/ RehomeAdmitted)
        \/ pendingErase # -1 /\ RehomeAdmitted

\* mount's 'clean = "nothing happened after the marker", judged honestly': a
\* session whose put tore a word after the marker is not taken for a clean one.
CleanIsHonest == mounted /\ tailClean => tail = "covered"

=============================================================================
