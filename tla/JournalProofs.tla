---------------------------- MODULE JournalProofs ----------------------------
(***************************************************************************)
(* Proofs about Journal for every sector size, every set of blocks and     *)
(* values, every chain length and any number of faults and power cuts: no  *)
(* flash word is programmed twice, no sequence number names two writes,    *)
(* an acknowledged put is served from then on, and mount's verdict on the  *)
(* last session is right about acknowledged puts.                          *)
(***************************************************************************)
EXTENDS Journal, TLAPS, WellFoundedInduction

-----------------------------------------------------------------------------
(* Arithmetic: least and greatest elements. *)

\* A nonempty set of naturals has a least element.
LEMMA LeastNat ==
    ASSUME NEW T, T \subseteq Nat, T # {}
    PROVE  \E x \in T : \A y \in T : x <= y
  <1> DEFINE R == OpToRel(<, Nat)
  <1>1. IsWellFoundedOn(R, Nat)
    BY NatLessThanWellFounded
  <1>2. \A x, y \in Nat : y < x => <<y, x>> \in R
    BY DEF OpToRel
  <1> HIDE DEF R
  <1>3. PICK x \in T : \A y \in T : ~ (<<y, x>> \in R)
    BY <1>1, WFMin
  <1>4. \A y \in T : ~(y < x)
    BY <1>2, <1>3
  <1>5. \A y \in T : x <= y
    BY <1>4
  <1> QED BY <1>5

\* A nonempty bounded set of naturals has a greatest element.
LEMMA GreatestNat ==
    ASSUME NEW T, T \subseteq Nat, T # {}, NEW b \in Nat, \A y \in T : y <= b
    PROVE  \E x \in T : \A y \in T : y <= x
  <1> DEFINE D == {b - y : y \in T}
  <1>1. D \subseteq Nat /\ D # {}
    <2>1. \A y \in T : b - y \in Nat
      OBVIOUS
    <2>2. PICK y \in T : TRUE
      OBVIOUS
    <2>3. b - y \in D
      OBVIOUS
    <2> QED BY <2>1, <2>3
  <1>2. PICK d \in D : \A e \in D : d <= e
    <2> HIDE DEF D
    <2> QED BY <1>1, LeastNat
  <1>3. PICK x \in T : d = b - x
    BY <1>2
  <1>4. \A y \in T : b - x <= b - y
    BY <1>2, <1>3
  <1>5. \A y \in T : y <= x
    BY <1>4
  <1> QED BY <1>5

\* Max of FiniteSetsExt is what its name says on bounded sets of naturals.
LEMMA MaxIsGreatest ==
    ASSUME NEW T, T \subseteq Nat, T # {}, NEW b \in Nat, \A y \in T : y <= b
    PROVE  Max(T) \in T /\ \A y \in T : y <= Max(T)
  <1>1. \E x \in T : \A y \in T : y <= x
    BY GreatestNat
  <1>2. \E x \in T : \A y \in T : x >= y
    <2>1. PICK x \in T : \A y \in T : y <= x
      BY <1>1
    <2>2. \A y \in T : x >= y
      BY <2>1
    <2> QED BY <2>2
  <1>3. Max(T) \in T /\ \A y \in T : Max(T) >= y
    BY <1>2 DEF Max
  <1> QED BY <1>3

\* Min of FiniteSetsExt is what its name says on sets of naturals.
LEMMA MinIsLeast ==
    ASSUME NEW T, T \subseteq Nat, T # {}
    PROVE  Min(T) \in T /\ \A y \in T : Min(T) <= y
  <1>1. \E x \in T : \A y \in T : x <= y
    BY LeastNat
  <1> QED BY <1>1 DEF Min

-----------------------------------------------------------------------------
(* Cells and rows. *)

\* What a record holds, and that no record is an erased word.
LEMMA CellFacts ==
    /\ Blank \in Cells /\ Torn \in Cells /\ Torn # Blank
    /\ \A q \in SeqRange : Marker(q) \in Cells /\ Marker(q) # Blank
    /\ \A b \in Ids, v \in Values, q \in SeqRange, k \in Nat :
         Rec(b, v, q, k) \in Cells /\ Rec(b, v, q, k) # Blank
BY DEF Blank, Torn, Marker, Rec, Cells, Markers, Records

\* A cell that parses as a value is one of Rec's.
LEMMA ValueCell ==
    ASSUME NEW c \in Cells, c.kind = "value"
    PROVE  /\ c.id \in Ids /\ c.val \in Values /\ c.seq \in SeqRange /\ c.part \in Nat
           /\ c = Rec(c.id, c.val, c.seq, c.part)
BY DEF Blank, Torn, Cells, Markers, Records, Rec

\* A present row has all its fields.
LEMMA RowFacts ==
    ASSUME NEW e \in Entry \cup {Absent}, e.present
    PROVE  /\ e \in Entry
           /\ e.val \in Values /\ e.sector \in Sector /\ e.off \in Slot /\ e.seq \in SeqRange
  <1>1. e # Absent
    <2>1. Absent.present = FALSE
      BY DEF Absent
    <2> QED BY <2>1
  <1>2. e \in Entry
    BY <1>1
  <1> QED BY <1>2 DEF Entry

\* Programming any cell leaves a cell.
LEMMA ProgramType ==
    ASSUME NEW c \in Cells, NEW r \in Cells, NEW out
    PROVE  AfterProgram(c, r, out) \in Cells
BY CellFacts DEF AfterProgram

\* No row leads into an erased sector.
LEMMA NoStraysInBlank ==
    ASSUME TypeOK, RefsValid, NEW s \in Sector, \A i \in Slot : flash[s][i] = Blank
    PROVE  StrayIds(s) = {}
  <1> USE JournalAssumption
  <1> SUFFICES ASSUME NEW b \in Ids, table[b].present, table[b].sector = s
               PROVE  FALSE
    BY DEF StrayIds, Present
  <1>1. table[b].val \in Values /\ table[b].off \in Slot /\ table[b].seq \in SeqRange
    BY RowFacts DEF TypeOK
  <1>2. flash[s][table[b].off + 0] = Rec(b, table[b].val, table[b].seq, 0)
    <2>1. 0 \in 0 .. Parts[table[b].val] - 1
      BY <1>1
    <2> QED BY <2>1 DEF RefsValid, ValueAt
  <1>3. flash[s][table[b].off] = Rec(b, table[b].val, table[b].seq, 0)
    BY <1>1, <1>2 DEF Slot
  <1> QED BY <1>1, <1>3, CellFacts

\* The control state a call leaves behind is well typed.
LEMMA FinishType ==
    ASSUME Finish
    PROVE  /\ job' \in Calls /\ phase' \in Phases /\ todo' \subseteq Ids
           /\ cur' \in Ids \cup {NoId} /\ part' \in Nat /\ moved' \in Moves
           /\ savedCursor' \in 0 .. Slots
  <1> USE JournalAssumption DEF Finish
  <1>1. job' \in Calls
    BY DEF NoJob, Calls
  <1>2. phase' \in Phases
    BY DEF Phases
  <1>3. moved' \in Moves
    BY DEF Moves, SeqRange
  <1> QED BY <1>1, <1>2, <1>3

\* A call about to program has a blank slot, and the record it programs is the
\* next part of the value it writes.
LEMMA NextRecordFacts ==
    ASSUME JournalInv, phase \in WritePhases \cup MarkPhases
    PROVE  /\ NextRecord \in Cells /\ NextRecord # Blank
           /\ cursor \in Slot /\ flash[active][cursor] = Blank
           /\ phase \in WritePhases => Writing \in Values
           /\ phase = "append" => /\ job.id \in Ids /\ Writing = job.val
                                  /\ NextRecord = Rec(job.id, Writing, maxSeq, part)
           /\ phase \in WritePhases \ {"append"} =>
                /\ cur \in Present /\ Writing = table[cur].val
                /\ NextRecord = Rec(cur, Writing, maxSeq, part)
  <1> USE JournalAssumption DEF JournalInv
  <1>1. mounted
    BY DEF CallShape, WritePhases, MarkPhases
  <1>2. CASE phase \in MarkPhases
    <2>1. cursor \in Slot
      BY <1>2 DEF WriteShape, TypeOK, Slot
    <2>2. NextRecord = Marker(maxSeq)
      BY <1>2 DEF NextRecord, MarkPhases
    <2>3. phase \notin WritePhases
      BY <1>2 DEF WritePhases, MarkPhases
    <2>4. flash[active][cursor] = Blank
      BY <1>1, <2>1 DEF FrontierBlank, Slot
    <2>5. NextRecord \in Cells /\ NextRecord # Blank
      BY <2>2, CellFacts DEF TypeOK
    <2> QED BY <2>1, <2>3, <2>4, <2>5 DEF WritePhases
  <1>3. CASE phase = "append"
    <2>1. job.id \in Ids /\ job.val \in Values /\ Writing = job.val
      BY <1>3 DEF CallShape, Writing
    <2>2. NextRecord = Rec(job.id, Writing, maxSeq, part)
      BY <1>3, <2>1 DEF NextRecord
    <2>3. cursor \in Slot
      BY <1>3, <2>1 DEF WriteShape, TypeOK, Slot, WritePhases
    <2>4. flash[active][cursor] = Blank
      BY <1>1, <2>3 DEF FrontierBlank, Slot
    <2> QED BY <1>3, <2>1, <2>2, <2>3, <2>4, CellFacts DEF TypeOK
  <1>4. CASE phase \in {"rehomeWrite", "copyWrite"}
    <2>1. cur \in Present /\ Writing = table[cur].val
      BY <1>4 DEF CallShape, Writing
    <2>2. cur \in Ids /\ table[cur].val \in Values /\ table[cur].off \in Slot
      BY <2>1, RowFacts DEF Present, TypeOK
    <2>3. part \in 0 .. Parts[Writing] - 1 /\ cursor \in Slot
      BY <1>4, <2>1, <2>2 DEF WriteShape, TypeOK, Slot, WritePhases
    <2>4. Payload(cur, part) = table[cur].val
      <3>1. CASE RecordsOf(cur) = 1
        BY <3>1 DEF Payload
      <3>2. CASE RecordsOf(cur) # 1
        <4>1. Source(cur, part) = Rec(cur, table[cur].val, table[cur].seq, part)
          BY <2>1, <2>2, <2>3 DEF RefsValid, ValueAt, Source, Present
        <4> QED BY <3>2, <4>1 DEF Payload, Rec
      <3> QED BY <3>1, <3>2
    <2>5. NextRecord = Rec(cur, Writing, maxSeq, part)
      BY <1>4, <2>1, <2>4 DEF NextRecord
    <2>6. flash[active][cursor] = Blank
      BY <1>1, <2>3 DEF FrontierBlank, Slot
    <2> QED BY <1>4, <2>1, <2>2, <2>3, <2>5, <2>6, CellFacts DEF TypeOK, WritePhases
  <1> QED BY <1>2, <1>3, <1>4 DEF WritePhases

\* One program changes one blank cell, and so no value on flash.
LEMMA ProgramFacts ==
    ASSUME JournalInv, phase \in WritePhases \cup MarkPhases,
           NEW out, Program(NextRecord, out)
    PROVE  /\ flash' \in [Sector -> [Slot -> Cells]]
           /\ \A s \in Sector, i \in Slot :
                ~(s = active /\ i = cursor) => flash'[s][i] = flash[s][i]
           /\ out = "ok" => flash'[active][cursor] = NextRecord
           /\ \A s \in Sector, o \in 0 .. Slots, b \in Ids, v \in Values, q \in SeqRange :
                ValueAt(s, o, b, v, q) =>
                  \A k \in 0 .. Parts[v] - 1 :
                    o + k \in Slot /\ flash'[s][o + k] = Rec(b, v, q, k)
  <1> USE JournalAssumption
  <1>1. /\ NextRecord \in Cells /\ NextRecord # Blank
        /\ cursor \in Slot /\ flash[active][cursor] = Blank
    BY NextRecordFacts
  <1>2. flash \in [Sector -> [Slot -> Cells]] /\ active \in Sector
    BY DEF JournalInv, TypeOK
  <1>3. AfterProgram(flash[active][cursor], NextRecord, out) \in Cells
    BY <1>1, <1>2, ProgramType
  <1>4. flash' = [flash EXCEPT ![active][cursor] =
                    AfterProgram(flash[active][cursor], NextRecord, out)]
    BY <1>1, <1>2 DEF Program
  <1>5. flash' \in [Sector -> [Slot -> Cells]]
    BY <1>1, <1>2, <1>3, <1>4
  <1>6. \A s \in Sector, i \in Slot :
          ~(s = active /\ i = cursor) => flash'[s][i] = flash[s][i]
    BY <1>1, <1>2, <1>4
  <1>7. out = "ok" => flash'[active][cursor] = NextRecord
    BY <1>1, <1>2, <1>4 DEF AfterProgram
  <1>8. ASSUME NEW s \in Sector, NEW o \in 0 .. Slots, NEW b \in Ids, NEW v \in Values,
               NEW q \in SeqRange, ValueAt(s, o, b, v, q),
               NEW k \in 0 .. Parts[v] - 1
        PROVE  o + k \in Slot /\ flash'[s][o + k] = Rec(b, v, q, k)
    <2>1. o + k \in Slot /\ flash[s][o + k] = Rec(b, v, q, k)
      BY <1>8 DEF ValueAt
    <2>2. flash[s][o + k] # Blank
      BY <2>1, CellFacts
    <2> QED BY <1>1, <1>6, <2>1, <2>2
  <1> QED BY <1>5, <1>6, <1>7, <1>8

\* What one program leaves alone: the rest of the frontier, the partner, every
\* value a row or a deferred update refers to.
LEMMA ProgramKeeps ==
    ASSUME JournalInv, phase \in WritePhases \cup MarkPhases,
           NEW out, Program(NextRecord, out)
    PROVE  /\ \A i \in Slot : i >= cursor + 1 => flash'[active][i] = Blank
           /\ \A i \in Slot : flash'[1 - active][i] = flash[1 - active][i]
           /\ \A b \in Ids : table[b].present =>
                \A k \in 0 .. Parts[table[b].val] - 1 :
                  /\ table[b].off + k \in Slot
                  /\ flash'[table[b].sector][table[b].off + k] =
                       Rec(b, table[b].val, table[b].seq, k)
           /\ phase \in Compacting => \A b \in Present \ todo :
                \A k \in 0 .. Parts[table[b].val] - 1 :
                  /\ moved[b].off + k \in Slot
                  /\ flash'[active][moved[b].off + k] =
                       Rec(b, table[b].val, moved[b].seq, k)
  <1> USE JournalAssumption
  <1>1. mounted /\ cursor \in Slot /\ active \in Sector /\ 1 - active \in Sector
    BY NextRecordFacts DEF JournalInv, TypeOK, CallShape, Sector, WritePhases, MarkPhases
  <1>2. \A i \in Slot : i >= cursor + 1 => flash'[active][i] = Blank
    BY <1>1, ProgramFacts DEF JournalInv, FrontierBlank, Slot
  <1>3. \A i \in Slot : flash'[1 - active][i] = flash[1 - active][i]
    BY <1>1, ProgramFacts DEF Sector
  <1>4. ASSUME NEW b \in Ids, table[b].present
        PROVE  /\ table[b].val \in Values /\ table[b].sector \in Sector
               /\ table[b].off \in 0 .. Slots /\ table[b].seq \in SeqRange
    BY <1>4, RowFacts DEF JournalInv, TypeOK, Slot
  <1>5. \A b \in Ids : table[b].present =>
          \A k \in 0 .. Parts[table[b].val] - 1 :
            /\ table[b].off + k \in Slot
            /\ flash'[table[b].sector][table[b].off + k] =
                 Rec(b, table[b].val, table[b].seq, k)
    BY <1>4, ProgramFacts DEF JournalInv, RefsValid
  <1>6. ASSUME phase \in Compacting, NEW b \in Present \ todo
        PROVE  \A k \in 0 .. Parts[table[b].val] - 1 :
                 /\ moved[b].off + k \in Slot
                 /\ flash'[active][moved[b].off + k] = Rec(b, table[b].val, moved[b].seq, k)
    <2>1. b \in Ids /\ table[b].val \in Values
      BY <1>4 DEF Present
    <2>2. moved[b].off \in 0 .. Slots /\ moved[b].seq \in SeqRange
      BY <2>1 DEF JournalInv, TypeOK, Moves
    <2>3. ValueAt(active, moved[b].off, b, table[b].val, moved[b].seq)
      BY <1>6 DEF JournalInv, CopiesValid
    <2> QED BY <1>1, <2>1, <2>2, <2>3, ProgramFacts
  <1> QED BY <1>2, <1>3, <1>5, <1>6

\* The history of the tail stays well typed.
LEMMA WitnessType ==
    ASSUME TypeOK, NEW cell, Witness(cell)
    PROVE  tail' \in {"covered", "touched", "acknowledged"}
BY DEF TypeOK, Witness

\* When the last part lands the whole value is on flash.
LEMMA LastPart ==
    ASSUME JournalInv, phase \in WritePhases, part + 1 = Parts[Writing],
           Program(NextRecord, "ok")
    PROVE  /\ cursor - part \in Slot
           /\ \A k \in 0 .. Parts[Writing] - 1 :
                /\ (cursor - part) + k \in Slot
                /\ flash'[active][(cursor - part) + k] =
                     Rec(IF phase = "append" THEN job.id ELSE cur, Writing, maxSeq, k)
  <1> USE JournalAssumption
  <1>1. Writing \in Values /\ part \in Nat /\ cursor \in Slot /\ active \in Sector
    BY NextRecordFacts DEF JournalInv, TypeOK
  <1>2. /\ part <= cursor
        /\ \A k \in 0 .. part - 1 :
             flash[active][cursor - part + k] =
               Rec(IF phase = "append" THEN job.id ELSE cur, Writing, maxSeq, k)
    BY DEF JournalInv, WriteShape
  <1>3. cursor - part \in Slot
    BY <1>1, <1>2 DEF Slot
  <1>4. ASSUME NEW k \in 0 .. Parts[Writing] - 1
        PROVE  /\ (cursor - part) + k \in Slot
               /\ flash'[active][(cursor - part) + k] =
                    Rec(IF phase = "append" THEN job.id ELSE cur, Writing, maxSeq, k)
    <2>1. k \in 0 .. part
      BY <1>1, <1>4
    <2>2. (cursor - part) + k \in Slot
      BY <1>1, <1>2, <2>1 DEF Slot
    <2>3. CASE k = part
      <3>1. (cursor - part) + k = cursor
        BY <1>1, <2>3 DEF Slot
      <3>2. flash'[active][cursor] = NextRecord
        BY ProgramFacts
      <3>3. NextRecord = Rec(IF phase = "append" THEN job.id ELSE cur, Writing, maxSeq, part)
        BY NextRecordFacts DEF WritePhases
      <3> QED BY <2>2, <2>3, <3>1, <3>2, <3>3
    <2>4. CASE k # part
      <3>1. k \in 0 .. part - 1 /\ (cursor - part) + k # cursor
        BY <1>1, <2>1, <2>4 DEF Slot
      <3>2. flash'[active][(cursor - part) + k] = flash[active][(cursor - part) + k]
        BY <1>1, <2>2, <3>1, ProgramFacts
      <3> QED BY <1>2, <2>2, <3>1, <3>2
    <2> QED BY <2>3, <2>4
  <1> QED BY <1>3, <1>4

-----------------------------------------------------------------------------
(* Each group of actions preserves the invariant. *)

\* An idle journal on which a put, a mark_clean, a compact or an erase_pending
\* starts: only the control state changes, or the copy loop begins on a partner
\* that is erased.
LEMMA OpenSteps ==
    ASSUME JournalInv,
           \/ \E b \in Ids, v \in Values : PutBegin(b, v)
           \/ MarkBegin
           \/ CompactBegin
           \/ ErasePendingBegin
    PROVE  JournalInv'
  <1> USE JournalAssumption
  <1>1. ASSUME NEW b \in Ids, NEW v \in Values, PutBegin(b, v) PROVE JournalInv'
    <2> USE <1>1 DEF JournalInv, PutBegin, Open, place, history
    <2>1. TypeOK'
      BY DEF TypeOK, Phases, Calls
    <2>2. CallShape'
      BY DEF TypeOK, CallShape, SeqRange, Compacting, Present
    <2>3. FrontierBlank'
      BY DEF FrontierBlank, Compacting
    <2>4. WriteShape'
      BY DEF WriteShape, WritePhases, MarkPhases, Compacting
    <2>5. PartnerAccounted'
      BY DEF PartnerAccounted, Compacting
    <2>6. RefsValid'
      BY DEF RefsValid, ValueAt
    <2>7. StraysSafe'
      BY DEF StraysSafe, StrayIds, Present, Compacting
    <2>8. CopiesValid'
      BY DEF CopiesValid, ValueAt, Present, Compacting
    <2> QED BY <2>1, <2>2, <2>3, <2>4, <2>5, <2>6, <2>7, <2>8 DEF JournalInv
  <1>2. CASE MarkBegin
    <2> USE <1>2 DEF JournalInv, MarkBegin, Open, place, history
    <2>1. TypeOK'
      BY DEF TypeOK, Phases, Calls
    <2>2. CallShape'
      BY DEF TypeOK, CallShape, SeqRange, Compacting, Present
    <2>3. FrontierBlank'
      BY DEF FrontierBlank, Compacting
    <2>4. WriteShape'
      BY DEF WriteShape, WritePhases, MarkPhases, Compacting
    <2>5. PartnerAccounted'
      BY DEF PartnerAccounted, Compacting
    <2>6. RefsValid'
      BY DEF RefsValid, ValueAt
    <2>7. StraysSafe'
      BY DEF StraysSafe, StrayIds, Present, Compacting
    <2>8. CopiesValid'
      BY DEF CopiesValid, ValueAt, Present, Compacting
    <2> QED BY <2>1, <2>2, <2>3, <2>4, <2>5, <2>6, <2>7, <2>8 DEF JournalInv
  <1>3. CASE CompactBegin /\ partnerClean
    <2> USE <1>3 DEF JournalInv, Open, place, history,
                     CompactBegin, StartCopy
    <2>1. TypeOK'
      <3>1. todo' \subseteq Ids
        BY DEF Present
      <3>2. active' \in Sector
        BY DEF TypeOK, Sector
      <3>3. partnerClean' \in BOOLEAN
        OBVIOUS
      <3>4. phase' \in Phases
        BY DEF Phases, Compacting
      <3>5. cursor' \in 0 .. Slots
        OBVIOUS
      <3>6. job' \in Calls
        BY DEF Calls
      <3> QED BY <3>1, <3>2, <3>3, <3>4, <3>5, <3>6 DEF TypeOK
    <2>2. CallShape'
      BY DEF TypeOK, CallShape, SeqRange, Compacting, Present
    <2>3. FrontierBlank'
      BY DEF FrontierBlank, Compacting, PartnerAccounted, TypeOK, Sector
    <2>4. WriteShape'
      BY DEF WriteShape, WritePhases, MarkPhases, Compacting
    <2>5. PartnerAccounted'
      BY DEF PartnerAccounted, Compacting
    <2>6. RefsValid'
      BY DEF RefsValid, ValueAt
    <2>7. StraysSafe'
      <3>1. StrayIds(1 - active) = {}
        BY NoStraysInBlank DEF PartnerAccounted, TypeOK, Sector
      <3> QED BY <3>1 DEF StraysSafe, StrayIds, Present, Compacting
    <2>8. CopiesValid'
      BY DEF CopiesValid, ValueAt, Present, Compacting
    <2> QED BY <2>1, <2>2, <2>3, <2>4, <2>5, <2>6, <2>7, <2>8 DEF JournalInv
  <1>4. CASE CompactBegin /\ ~partnerClean
    <2> USE <1>4 DEF JournalInv, Open, place, history,
                     CompactBegin, StartRehome
    <2>1. TypeOK'
      BY DEF TypeOK, Phases, Calls, StrayIds, Present
    <2>2. CallShape'
      BY DEF TypeOK, CallShape, SeqRange, Compacting, Present, StrayIds
    <2>3. FrontierBlank'
      BY DEF FrontierBlank, Compacting
    <2>4. WriteShape'
      BY DEF WriteShape, WritePhases, MarkPhases, Compacting
    <2>5. PartnerAccounted'
      BY DEF PartnerAccounted, Compacting
    <2>6. RefsValid'
      BY DEF RefsValid, ValueAt
    <2>7. StraysSafe'
      BY DEF StraysSafe, StrayIds, Present, Compacting
    <2>8. CopiesValid'
      BY DEF CopiesValid, ValueAt, Present, Compacting
    <2> QED BY <2>1, <2>2, <2>3, <2>4, <2>5, <2>6, <2>7, <2>8 DEF JournalInv
  <1>5. CASE ErasePendingBegin
    <2> USE <1>5 DEF JournalInv, ErasePendingBegin, Open, place, history, StartRehome
    <2>1. TypeOK'
      BY DEF TypeOK, Phases, Calls, StrayIds, Present
    <2>2. CallShape'
      BY DEF TypeOK, CallShape, SeqRange, Compacting, Present, StrayIds,
         PartnerAccounted
    <2>3. FrontierBlank'
      BY DEF FrontierBlank, Compacting
    <2>4. WriteShape'
      BY DEF WriteShape, WritePhases, MarkPhases, Compacting
    <2>5. PartnerAccounted'
      BY DEF PartnerAccounted, Compacting
    <2>6. RefsValid'
      BY DEF RefsValid, ValueAt
    <2>7. StraysSafe'
      BY DEF StraysSafe, StrayIds, Present, Compacting
    <2>8. CopiesValid'
      BY DEF CopiesValid, ValueAt, Present, Compacting
    <2> QED BY <2>1, <2>2, <2>3, <2>4, <2>5, <2>6, <2>7, <2>8 DEF JournalInv
  <1> QED BY <1>1, <1>2, <1>3, <1>4, <1>5

\* ensure_space found room, compacts inline, or refuses.
LEMMA SpaceSteps ==
    ASSUME JournalInv,
           \/ SpaceFound
           \/ SpaceCompact
           \/ SpaceRefused
    PROVE  JournalInv'
  <1> USE JournalAssumption
  <1>1. CASE SpaceFound
    <2> USE <1>1 DEF JournalInv, SpaceFound, place, history
    <2>1. TypeOK'
      <3>1. maxSeq' \in SeqRange
        BY DEF TypeOK, CallShape, SeqRange
      <3>2. inDoubt' \in [Ids -> SUBSET (Values \cup {NoValue})]
        BY DEF TypeOK, CallShape
      <3>3. past' \in [Ids -> SUBSET Values]
        BY DEF TypeOK, CallShape
      <3>4. tailClean' \in BOOLEAN
        BY DEF TypeOK
      <3>5. phase' \in Phases
        BY DEF Phases, WritePhases, MarkPhases
      <3> QED BY <3>1, <3>2, <3>3, <3>4, <3>5 DEF TypeOK
    <2>2. CallShape'
      BY DEF TypeOK, CallShape, SeqRange, Compacting, Present
    <2>3. FrontierBlank'
      BY DEF FrontierBlank, Compacting
    <2>4. WriteShape'
      <3>1. part = 0 /\ cursor \in Nat
        BY DEF WriteShape, WritePhases, TypeOK
      <3> QED BY <3>1 DEF WriteShape, WritePhases, MarkPhases, Compacting, CallShape,
                          Writing, Needed, TypeOK
    <2>5. PartnerAccounted'
      BY DEF PartnerAccounted, Compacting
    <2>6. RefsValid'
      BY DEF RefsValid, ValueAt
    <2>7. StraysSafe'
      BY DEF StraysSafe, StrayIds, Present, Compacting
    <2>8. CopiesValid'
      BY DEF CopiesValid, ValueAt, Present, Compacting
    <2> QED BY <2>1, <2>2, <2>3, <2>4, <2>5, <2>6, <2>7, <2>8 DEF JournalInv
  <1>2. CASE SpaceCompact
    <2> USE <1>2 DEF JournalInv, SpaceCompact, place, history, StartCopy
    <2>1. TypeOK'
      <3>1. todo' \subseteq Ids
        BY DEF Present
      <3>2. active' \in Sector
        BY DEF TypeOK, Sector
      <3>3. partnerClean' \in BOOLEAN
        OBVIOUS
      <3>4. phase' \in Phases
        BY DEF Phases, Compacting
      <3>5. cursor' \in 0 .. Slots
        OBVIOUS
      <3>6. job' \in Calls
        BY DEF TypeOK
      <3> QED BY <3>1, <3>2, <3>3, <3>4, <3>5, <3>6 DEF TypeOK
    <2>2. CallShape'
      BY DEF TypeOK, CallShape, SeqRange, Compacting, Present
    <2>3. FrontierBlank'
      BY DEF FrontierBlank, Compacting, PartnerAccounted, CallShape, TypeOK, Sector
    <2>4. WriteShape'
      BY DEF WriteShape, WritePhases, MarkPhases, Compacting
    <2>5. PartnerAccounted'
      BY DEF PartnerAccounted, Compacting
    <2>6. RefsValid'
      BY DEF RefsValid, ValueAt
    <2>7. StraysSafe'
      <3>1. StrayIds(1 - active) = {}
        BY NoStraysInBlank DEF PartnerAccounted, CallShape, TypeOK, Sector
      <3> QED BY <3>1 DEF StraysSafe, StrayIds, Present, Compacting
    <2>8. CopiesValid'
      BY DEF CopiesValid, ValueAt, Present, Compacting
    <2> QED BY <2>1, <2>2, <2>3, <2>4, <2>5, <2>6, <2>7, <2>8 DEF JournalInv
  <1>3. CASE SpaceRefused
    <2> USE <1>3 DEF JournalInv, SpaceRefused, place, history, Finish
    <2>1. TypeOK'
      <3> QED BY FinishType DEF TypeOK
    <2>2. CallShape'
      BY DEF TypeOK, CallShape, SeqRange, Compacting, Present, NoJob
    <2>3. FrontierBlank'
      BY DEF FrontierBlank, Compacting
    <2>4. WriteShape'
      BY DEF WriteShape, WritePhases, MarkPhases, Compacting
    <2>5. PartnerAccounted'
      BY DEF PartnerAccounted, Compacting
    <2>6. RefsValid'
      BY DEF RefsValid, ValueAt
    <2>7. StraysSafe'
      BY DEF StraysSafe, StrayIds, Present, Compacting
    <2>8. CopiesValid'
      BY DEF CopiesValid, ValueAt, Present, Compacting
    <2> QED BY <2>1, <2>2, <2>3, <2>4, <2>5, <2>6, <2>7, <2>8 DEF JournalInv
  <1> QED BY <1>1, <1>2, <1>3

\* The copy loops of compact and rehome_strays, between two records.
LEMMA EmitSteps ==
    ASSUME JournalInv,
           \/ \E b \in Ids : EmitNext(b)
           \/ EmitMarker
           \/ EmitRefused
           \/ RehomeDone
    PROVE  JournalInv'
  <1> USE JournalAssumption
  <1>1. ASSUME NEW b \in Ids, EmitNext(b) PROVE JournalInv'
    <2> USE <1>1 DEF JournalInv, EmitNext, place, history
    <2>1. TypeOK'
      <3>1. maxSeq' \in SeqRange
        BY DEF TypeOK, Room, SeqRange
      <3>2. phase' \in Phases
        BY DEF Phases, WritePhases, MarkPhases
      <3> QED BY <3>1, <3>2 DEF TypeOK
    <2>2. CallShape'
      BY DEF TypeOK, CallShape, SeqRange, Compacting, Present, Room
    <2>3. FrontierBlank'
      BY DEF FrontierBlank, Compacting
    <2>4. WriteShape'
      <3>1. part = 0 /\ cursor \in Nat
        BY DEF WriteShape, WritePhases, TypeOK
      <3>2. table[b].val \in Values
        BY RowFacts DEF TypeOK, CallShape, Present
      <3>3. Writing' = table[b].val /\ phase' \in WritePhases /\ phase' \notin MarkPhases
        BY DEF Writing, WritePhases, MarkPhases
      <3> QED BY <3>1, <3>2, <3>3 DEF WriteShape, Room, RecordsOf
    <2>5. PartnerAccounted'
      BY DEF PartnerAccounted, Compacting
    <2>6. RefsValid'
      BY DEF RefsValid, ValueAt
    <2>7. StraysSafe'
      BY DEF StraysSafe, StrayIds, Present, Compacting
    <2>8. CopiesValid'
      BY DEF CopiesValid, ValueAt, Present, Compacting
    <2> QED BY <2>1, <2>2, <2>3, <2>4, <2>5, <2>6, <2>7, <2>8 DEF JournalInv
  <1>2. CASE EmitMarker
    <2> USE <1>2 DEF JournalInv, EmitMarker, place, history
    <2>1. TypeOK'
      <3>1. maxSeq' \in SeqRange
        BY DEF TypeOK, Room, SeqRange
      <3>2. phase' \in Phases
        BY DEF Phases, WritePhases, MarkPhases
      <3> QED BY <3>1, <3>2 DEF TypeOK
    <2>2. CallShape'
      BY DEF TypeOK, CallShape, SeqRange, Compacting, Present, Room
    <2>3. FrontierBlank'
      BY DEF FrontierBlank, Compacting
    <2>4. WriteShape'
      BY DEF WriteShape, WritePhases, MarkPhases, Compacting, Room, TypeOK
    <2>5. PartnerAccounted'
      BY DEF PartnerAccounted, Compacting
    <2>6. RefsValid'
      BY DEF RefsValid, ValueAt
    <2>7. StraysSafe'
      BY DEF StraysSafe, StrayIds, Present, Compacting
    <2>8. CopiesValid'
      BY DEF CopiesValid, ValueAt, Present, Compacting
    <2> QED BY <2>1, <2>2, <2>3, <2>4, <2>5, <2>6, <2>7, <2>8 DEF JournalInv
  <1>3. CASE EmitRefused
    <2> USE <1>3 DEF JournalInv, EmitRefused, place, history, GiveUp, Finish
    <2>1. TypeOK'
      <3>1. active' \in Sector /\ cursor' \in 0 .. Slots /\ pendingErase' \in {-1, 0, 1}
        BY DEF TypeOK, Sector
      <3>2. partnerClean' \in BOOLEAN
        BY DEF TypeOK
      <3> QED BY <3>1, <3>2, FinishType DEF TypeOK
    <2>2. CallShape'
      BY DEF TypeOK, CallShape, SeqRange, Compacting, Present, NoJob
    <2>3. FrontierBlank'
      BY DEF FrontierBlank, Compacting, CallShape, TypeOK, Sector
    <2>4. WriteShape'
      BY DEF WriteShape, WritePhases, MarkPhases, Compacting
    <2>5. PartnerAccounted'
      BY DEF PartnerAccounted, Compacting, TypeOK, Sector
    <2>6. RefsValid'
      BY DEF RefsValid, ValueAt
    <2>7. StraysSafe'
      BY DEF StraysSafe, StrayIds, Present, Compacting
    <2>8. CopiesValid'
      BY DEF CopiesValid, ValueAt, Present, Compacting
    <2> QED BY <2>1, <2>2, <2>3, <2>4, <2>5, <2>6, <2>7, <2>8 DEF JournalInv
  <1>4. CASE RehomeDone
    <2> USE <1>4 DEF JournalInv, RehomeDone, place, history
    <2>1. TypeOK'
      BY DEF TypeOK, Phases, Calls
    <2>2. CallShape'
      BY DEF TypeOK, CallShape, SeqRange, Compacting, Present
    <2>3. FrontierBlank'
      BY DEF FrontierBlank, Compacting
    <2>4. WriteShape'
      BY DEF WriteShape, WritePhases, MarkPhases, Compacting
    <2>5. PartnerAccounted'
      BY DEF PartnerAccounted, Compacting
    <2>6. RefsValid'
      BY DEF RefsValid, ValueAt
    <2>7. StraysSafe'
      BY DEF StraysSafe, StrayIds, Present, Compacting
    <2>8. CopiesValid'
      BY DEF CopiesValid, ValueAt, Present, Compacting
    <2> QED BY <2>1, <2>2, <2>3, <2>4, <2>5, <2>6, <2>7, <2>8 DEF JournalInv
  <1> QED BY <1>1, <1>2, <1>3, <1>4

\* A part that is not the last: one more part of the value is on flash.
LEMMA PartStep ==
    ASSUME JournalInv,
           PartWritten
    PROVE  JournalInv'
  <1> USE JournalAssumption
  <1> USE DEF JournalInv, PartWritten, history
  <1>1. /\ phase \in WritePhases \cup MarkPhases /\ Program(NextRecord, "ok")
        /\ mounted /\ cursor \in Slot /\ active \in Sector /\ 1 - active \in Sector
    BY NextRecordFacts DEF CallShape, TypeOK, Sector, WritePhases, MarkPhases
  <1>2. TypeOK'
    <2>1. flash' \in [Sector -> [Slot -> Cells]] /\ cursor' \in 0 .. Slots
      BY <1>1, ProgramFacts DEF Slot
    <2>2. part' \in Nat
      BY DEF TypeOK
    <2> QED BY <2>1, <2>2, WitnessType DEF TypeOK
  <1>3. CallShape'
    BY DEF TypeOK, CallShape, SeqRange, Compacting, Present
  <1>4. FrontierBlank'
    BY <1>1, ProgramKeeps DEF FrontierBlank, Compacting, Slot
  <1>5. WriteShape'
    <2>1. Writing \in Values /\ part \in Nat /\ Writing' = Writing
      BY <1>1, NextRecordFacts DEF TypeOK, Writing
    <2>2. part < Parts[Writing] /\ part <= cursor /\ cursor + Parts[Writing] - part <= Slots
      BY DEF WriteShape
    <2>3. cursor' - part' = cursor - part
      BY <1>1, <2>1 DEF Slot
    <2>4. ASSUME NEW k \in 0 .. part' - 1
          PROVE  flash'[active'][cursor' - part' + k] =
                   Rec(IF phase = "append" THEN job.id ELSE cur, Writing, maxSeq, k)
      <3>1. k \in 0 .. part /\ cursor - part + k \in Slot
        BY <1>1, <2>1, <2>2 DEF Slot
      <3>2. CASE k = part
        <4>1. cursor - part + k = cursor
          BY <1>1, <2>1, <3>2 DEF Slot
        <4> QED BY <1>1, <2>3, <3>2, <4>1, ProgramFacts, NextRecordFacts DEF WritePhases
      <3>3. CASE k # part
        <4>1. k \in 0 .. part - 1 /\ cursor - part + k # cursor
          BY <1>1, <2>1, <3>1, <3>3 DEF Slot
        <4>2. flash'[active][cursor - part + k] = flash[active][cursor - part + k]
          BY <1>1, <3>1, <4>1, ProgramFacts
        <4>3. flash[active][cursor - part + k] =
                Rec(IF phase = "append" THEN job.id ELSE cur, Writing, maxSeq, k)
          BY <4>1 DEF WriteShape
        <4> QED BY <2>3, <4>2, <4>3
      <3> QED BY <3>2, <3>3
    <2>5. phase' = phase /\ job' = job /\ cur' = cur /\ maxSeq' = maxSeq
      OBVIOUS
    <2>6. phase \notin MarkPhases
      BY DEF WritePhases, MarkPhases
    <2> QED BY <1>1, <2>1, <2>2, <2>4, <2>5, <2>6 DEF WriteShape, Slot
  <1>6. PartnerAccounted'
    BY <1>1, ProgramKeeps DEF PartnerAccounted, Compacting
  <1>7. RefsValid'
    BY <1>1, ProgramKeeps DEF RefsValid, ValueAt
  <1>8. StraysSafe'
    BY DEF StraysSafe, StrayIds, Present, Compacting
  <1>9. CopiesValid'
    BY <1>1, ProgramKeeps DEF CopiesValid, ValueAt, Present, Compacting
  <1> QED BY <1>2, <1>3, <1>4, <1>5, <1>6, <1>7, <1>8, <1>9 DEF JournalInv

\* The last part: the value is complete, and the row, or the deferred update,
\* that takes it in leads to it.
LEMMA LastPartSteps ==
    ASSUME JournalInv,
           \/ PutWritten
           \/ RehomeWritten
           \/ CopyWritten
    PROVE  JournalInv'
  <1> USE JournalAssumption
  <1>1. CASE PutWritten
    <2> USE <1>1 DEF JournalInv, PutWritten, Finish
    <2>1. /\ phase \in WritePhases \cup MarkPhases /\ Program(NextRecord, "ok")
          /\ mounted /\ cursor \in Slot /\ active \in Sector /\ 1 - active \in Sector
      BY NextRecordFacts DEF CallShape, TypeOK, Sector, WritePhases, MarkPhases
    <2>2. /\ job.id \in Ids /\ job.val \in Values /\ Writing = job.val /\ phase \in WritePhases
          /\ cursor - part \in Slot /\ maxSeq \in SeqRange
      BY <2>1, NextRecordFacts, LastPart DEF TypeOK, WritePhases
    <2>3. /\ table'[job.id] = [present |-> TRUE, val |-> job.val, sector |-> active,
                                off |-> cursor - part, seq |-> maxSeq]
           /\ \A b \in Ids \ {job.id} : table'[b] = table[b]
      BY <2>1, <2>2 DEF TypeOK
    <2>4. table' \in [Ids -> Entry \cup {Absent}]
      BY <2>1, <2>2 DEF TypeOK, Entry
    <2>5. TypeOK'
      <3>1. flash' \in [Sector -> [Slot -> Cells]] /\ cursor' \in 0 .. Slots
        BY <2>1, ProgramFacts DEF Slot
      <3>2. inDoubt' \in [Ids -> SUBSET (Values \cup {NoValue})]
        BY <2>2 DEF TypeOK
      <3>3. /\ job' \in Calls /\ phase' \in Phases /\ todo' \subseteq Ids
            /\ cur' \in Ids \cup {NoId} /\ part' \in Nat /\ moved' \in Moves
            /\ savedCursor' \in 0 .. Slots
        BY FinishType
      <3>4. /\ tail' = "acknowledged"
            /\ UNCHANGED <<mounted, maxSeq, active, pendingErase, partnerClean, tailClean,
                           poolOverflow, faults, cuts, past>>
        OBVIOUS
      <3> HIDE DEF PutWritten, Finish
      <3> QED BY <2>4, <3>1, <3>2, <3>3, <3>4 DEF TypeOK
    <2>6. CallShape'
      BY DEF TypeOK, CallShape, SeqRange, Compacting, Present, NoJob
    <2>7. FrontierBlank'
      BY <2>1, ProgramKeeps DEF FrontierBlank, Compacting, Slot
    <2>8. WriteShape'
      BY DEF WriteShape, WritePhases, MarkPhases, Compacting
    <2>9. PartnerAccounted'
      BY <2>1, ProgramKeeps DEF PartnerAccounted, Compacting
    <2>10. RefsValid'
      <3> SUFFICES ASSUME NEW b \in Ids, table'[b].present
                   PROVE  ValueAt(table[b].sector, table[b].off, b, table[b].val, table[b].seq)'
        BY DEF RefsValid
      <3>1. CASE b = job.id
        BY <2>1, <2>2, <2>3, <3>1, LastPart DEF ValueAt
      <3>2. CASE b # job.id
        BY <2>1, <2>3, <3>2, ProgramKeeps DEF ValueAt
      <3> QED BY <3>1, <3>2
    <2>11. StraysSafe'
      BY DEF StraysSafe, StrayIds, Present, Compacting
    <2>12. CopiesValid'
      BY DEF CopiesValid, ValueAt, Present, Compacting
    <2> QED BY <2>5, <2>6, <2>7, <2>8, <2>9, <2>10, <2>11, <2>12 DEF JournalInv
  <1>2. CASE RehomeWritten
    <2> USE <1>2 DEF JournalInv, RehomeWritten, history
    <2>1. /\ phase \in WritePhases \cup MarkPhases /\ Program(NextRecord, "ok")
          /\ mounted /\ cursor \in Slot /\ active \in Sector /\ 1 - active \in Sector
      BY NextRecordFacts DEF CallShape, TypeOK, Sector, WritePhases, MarkPhases
    <2>2. /\ cur \in Ids /\ table[cur] \in Entry /\ Writing = table[cur].val
          /\ phase \in WritePhases /\ cursor - part \in Slot /\ maxSeq \in SeqRange
          /\ part + 1 = Parts[Writing]
      BY <2>1, NextRecordFacts, LastPart, RowFacts
         DEF TypeOK, WritePhases, RecordsOf, Present
    <2>3. table'[cur] = [table[cur] EXCEPT !.sector = active, !.seq = maxSeq,
                                            !.off = cursor - part]
      BY <2>2 DEF TypeOK
    <2>4. /\ table'[cur] \in Entry /\ table'[cur].present /\ table'[cur].val = table[cur].val
           /\ table'[cur].sector = active /\ table'[cur].seq = maxSeq
           /\ table'[cur].off = cursor - part
      <3> HIDE DEF RehomeWritten
      <3>1. table[cur].present /\ table[cur].val \in Values
        BY <2>2 DEF Entry
      <3>2. table'[cur] = [present |-> TRUE, val |-> table[cur].val, sector |-> active,
                           off |-> cursor - part, seq |-> maxSeq]
        BY <2>2, <2>3 DEF Entry
      <3> QED BY <2>1, <2>2, <3>1, <3>2 DEF Entry
    <2>5. \A b \in Ids \ {cur} : table'[b] = table[b]
      BY <2>2 DEF TypeOK
    <2>6. TypeOK'
      <3>1. flash' \in [Sector -> [Slot -> Cells]] /\ cursor' \in 0 .. Slots
        BY <2>1, ProgramFacts DEF Slot
      <3>2. table' \in [Ids -> Entry \cup {Absent}]
        BY <2>2, <2>4, <2>5 DEF TypeOK
      <3>3. todo' \subseteq Ids /\ phase' \in Phases
        BY DEF TypeOK, Phases, Compacting
      <3> QED BY <3>1, <3>2, <3>3, WitnessType DEF TypeOK
    <2>7. CallShape'
      <3>1. Present' = Present
        BY <2>2, <2>4, <2>5 DEF Present, Entry
      <3> QED BY <2>1, <3>1 DEF TypeOK, CallShape, SeqRange, Compacting
    <2>8. FrontierBlank'
      BY <2>1, ProgramKeeps DEF FrontierBlank, Compacting, Slot
    <2>9. WriteShape'
      BY DEF WriteShape, WritePhases, MarkPhases, Compacting
    <2>10. PartnerAccounted'
      BY <2>1, ProgramKeeps DEF PartnerAccounted, Compacting
    <2>11. RefsValid'
      <3> SUFFICES ASSUME NEW b \in Ids, table'[b].present
                   PROVE  ValueAt(table[b].sector, table[b].off, b, table[b].val, table[b].seq)'
        BY DEF RefsValid
      <3>1. CASE b = cur
        <4>1. \A k \in 0 .. Parts[Writing] - 1 :
                /\ (cursor - part) + k \in Slot
                /\ flash'[active][(cursor - part) + k] = Rec(cur, Writing, maxSeq, k)
          BY <2>1, <2>2, LastPart
        <4> HIDE DEF RehomeWritten
        <4> QED BY <2>2, <2>4, <3>1, <4>1 DEF ValueAt
      <3>2. CASE b # cur
        <4>1. table'[b] = table[b]
          BY <2>5, <3>2
        <4> HIDE DEF RehomeWritten
        <4> QED BY <2>1, <4>1, ProgramKeeps DEF ValueAt
      <3> QED BY <3>1, <3>2
    <2>12. StraysSafe'
      <3>1. StrayIds(1 - active)' = StrayIds(1 - active) \ {cur}
        <4>1. active' = active /\ active # 1 - active
          BY <2>1 DEF Sector
        <4> HIDE DEF RehomeWritten
        <4> QED BY <2>2, <2>4, <2>5, <4>1 DEF StrayIds, Present
      <3> QED BY <3>1 DEF StraysSafe, Compacting
    <2>13. CopiesValid'
      BY DEF CopiesValid, ValueAt, Present, Compacting
    <2> QED BY <2>6, <2>7, <2>8, <2>9, <2>10, <2>11, <2>12, <2>13 DEF JournalInv
  <1>3. CASE CopyWritten
    <2> USE <1>3 DEF JournalInv, CopyWritten, history
    <2>1. /\ phase \in WritePhases \cup MarkPhases /\ Program(NextRecord, "ok")
          /\ mounted /\ cursor \in Slot /\ active \in Sector /\ 1 - active \in Sector
      BY NextRecordFacts DEF CallShape, TypeOK, Sector, WritePhases, MarkPhases
    <2>2. /\ cur \in Ids /\ table[cur] \in Entry /\ Writing = table[cur].val
          /\ phase \in WritePhases /\ cursor - part \in Slot /\ maxSeq \in SeqRange
          /\ part + 1 = Parts[Writing]
      BY <2>1, NextRecordFacts, LastPart, RowFacts
         DEF TypeOK, WritePhases, RecordsOf, Present
    <2>3. /\ moved' \in Moves
           /\ moved'[cur].off = cursor - part /\ moved'[cur].seq = maxSeq
           /\ \A b \in Ids \ {cur} : moved'[b] = moved[b]
      <3>1. moved \in Moves /\ maxSeq \in SeqRange /\ cursor - part \in 0 .. Slots
        BY <2>2 DEF TypeOK, Slot
      <3>2. moved' = [moved EXCEPT ![cur] = [off |-> cursor - part, seq |-> maxSeq]]
        OBVIOUS
      <3> HIDE DEF CopyWritten
      <3> QED BY <2>2, <3>1, <3>2 DEF Moves
    <2>4. TypeOK'
      <3>1. flash' \in [Sector -> [Slot -> Cells]] /\ cursor' \in 0 .. Slots
        BY <2>1, ProgramFacts DEF Slot
      <3>2. todo' \subseteq Ids /\ phase' \in Phases
        BY DEF TypeOK, Phases, Compacting
      <3>3. tail' \in {"covered", "touched", "acknowledged"}
        BY WitnessType
      <3>4. /\ cur' = NoId /\ part' = 0
            /\ UNCHANGED <<mounted, table, maxSeq, active, pendingErase, partnerClean,
                           tailClean, poolOverflow, job, savedCursor, faults, cuts,
                           inDoubt, past>>
        OBVIOUS
      <3> HIDE DEF CopyWritten
      <3> QED BY <2>3, <3>1, <3>2, <3>3, <3>4 DEF TypeOK
    <2>5. CallShape'
      BY DEF TypeOK, CallShape, SeqRange, Compacting, Present, TypeOK
    <2>6. FrontierBlank'
      BY <2>1, ProgramKeeps DEF FrontierBlank, Compacting, Slot
    <2>7. WriteShape'
      BY DEF WriteShape, WritePhases, MarkPhases, Compacting
    <2>8. PartnerAccounted'
      BY <2>1, ProgramKeeps DEF PartnerAccounted, Compacting
    <2>9. RefsValid'
      BY <2>1, ProgramKeeps DEF RefsValid, ValueAt
    <2>10. StraysSafe'
      BY DEF StraysSafe, StrayIds, Present, Compacting
    <2>11. CopiesValid'
      <3> SUFFICES ASSUME NEW b \in Present' \ todo'
                   PROVE  ValueAt(active, moved[b].off, b, table[b].val, moved[b].seq)'
        BY DEF CopiesValid
      <3>1. b \in Ids /\ b \in Present
        BY DEF Present
      <3>2. CASE b = cur
        BY <2>1, <2>2, <2>3, <3>2, LastPart DEF ValueAt
      <3>3. CASE b # cur
        BY <2>1, <2>3, <3>1, <3>3, ProgramKeeps DEF ValueAt, Compacting
      <3> QED BY <3>2, <3>3
    <2> QED BY <2>4, <2>5, <2>6, <2>7, <2>8, <2>9, <2>10, <2>11 DEF JournalInv
  <1> QED BY <1>1, <1>2, <1>3

\* A marker on flash, in mark_clean and at the end of rehome_strays.
LEMMA MarkSteps ==
    ASSUME JournalInv,
           \/ MarkWritten
           \/ RehomeMarked
    PROVE  JournalInv'
  <1> USE JournalAssumption
  <1>1. CASE MarkWritten
    <2> USE <1>1 DEF JournalInv, MarkWritten, Finish
    <2>1. /\ phase \in WritePhases \cup MarkPhases /\ Program(NextRecord, "ok")
          /\ mounted /\ cursor \in Slot /\ active \in Sector /\ 1 - active \in Sector
      BY NextRecordFacts DEF CallShape, TypeOK, Sector, WritePhases, MarkPhases
    <2>2. TypeOK'
      <3>1. flash' \in [Sector -> [Slot -> Cells]] /\ cursor' \in 0 .. Slots
        BY <2>1, ProgramFacts DEF Slot
      <3>2. tailClean' \in BOOLEAN
        OBVIOUS
      <3> QED BY <3>1, <3>2, FinishType, WitnessType DEF TypeOK
    <2>3. CallShape'
      BY DEF TypeOK, CallShape, SeqRange, Compacting, Present, NoJob
    <2>4. FrontierBlank'
      BY <2>1, ProgramKeeps DEF FrontierBlank, Compacting, Slot
    <2>5. WriteShape'
      BY DEF WriteShape, WritePhases, MarkPhases, Compacting
    <2>6. PartnerAccounted'
      BY <2>1, ProgramKeeps DEF PartnerAccounted, Compacting
    <2>7. RefsValid'
      BY <2>1, ProgramKeeps DEF RefsValid, ValueAt
    <2>8. StraysSafe'
      BY DEF StraysSafe, StrayIds, Present, Compacting
    <2>9. CopiesValid'
      BY DEF CopiesValid, ValueAt, Present, Compacting
    <2> QED BY <2>2, <2>3, <2>4, <2>5, <2>6, <2>7, <2>8, <2>9 DEF JournalInv
  <1>2. CASE RehomeMarked
    <2> USE <1>2 DEF JournalInv, RehomeMarked, history
    <2>1. /\ phase \in WritePhases \cup MarkPhases /\ Program(NextRecord, "ok")
          /\ mounted /\ cursor \in Slot /\ active \in Sector /\ 1 - active \in Sector
      BY NextRecordFacts DEF CallShape, TypeOK, Sector, WritePhases, MarkPhases
    <2>2. TypeOK'
      <3>1. flash' \in [Sector -> [Slot -> Cells]] /\ cursor' \in 0 .. Slots
        BY <2>1, ProgramFacts DEF Slot
      <3>2. phase' \in Phases
        BY DEF Phases
      <3> QED BY <3>1, <3>2, WitnessType DEF TypeOK
    <2>3. CallShape'
      BY DEF TypeOK, CallShape, SeqRange, Compacting, Present
    <2>4. FrontierBlank'
      BY <2>1, ProgramKeeps DEF FrontierBlank, Compacting, Slot
    <2>5. WriteShape'
      BY DEF WriteShape, WritePhases, MarkPhases, Compacting
    <2>6. PartnerAccounted'
      BY <2>1, ProgramKeeps DEF PartnerAccounted, Compacting
    <2>7. RefsValid'
      BY <2>1, ProgramKeeps DEF RefsValid, ValueAt
    <2>8. StraysSafe'
      BY DEF StraysSafe, StrayIds, Present, Compacting
    <2>9. CopiesValid'
      BY DEF CopiesValid, ValueAt, Present, Compacting
    <2> QED BY <2>2, <2>3, <2>4, <2>5, <2>6, <2>7, <2>8, <2>9 DEF JournalInv
  <1> QED BY <1>1, <1>2

\* compact's last step: every row takes its deferred update, and each leads to
\* the copy that is on flash.
LEMMA CommitRows ==
    ASSUME TypeOK, Commit,
           \A b \in Present : \A k \in 0 .. Parts[table[b].val] - 1 :
              /\ moved[b].off + k \in Slot
              /\ flash'[active][moved[b].off + k] = Rec(b, table[b].val, moved[b].seq, k)
    PROVE  /\ table' \in [Ids -> Entry \cup {Absent}]
           /\ Present' = Present
           /\ RefsValid'
  <1> USE JournalAssumption
  <1>1. ASSUME NEW b \in Present
        PROVE  /\ table'[b] = [present |-> TRUE, val |-> table[b].val, sector |-> active,
                               off |-> moved[b].off, seq |-> moved[b].seq]
               /\ table'[b] \in Entry
               /\ table'[b].val = table[b].val /\ table'[b].sector = active
               /\ table'[b].off = moved[b].off /\ table'[b].seq = moved[b].seq
    <2>1. /\ b \in Ids /\ table[b] \in Entry /\ table[b].val \in Values
          /\ active \in Sector /\ moved[b].off \in Nat /\ moved[b].seq \in SeqRange
      BY RowFacts DEF Present, TypeOK, Moves
    <2>2. moved[b].off \in Slot
      <3>1. 0 \in 0 .. Parts[table[b].val] - 1
        BY <2>1
      <3>2. moved[b].off + 0 \in Slot
        BY <3>1
      <3> QED BY <2>1, <3>2
    <2>3. table'[b] = [table[b] EXCEPT !.sector = active, !.seq = moved[b].seq,
                                       !.off = moved[b].off]
      BY <2>1 DEF Commit
    <2>4. table'[b] = [present |-> TRUE, val |-> table[b].val, sector |-> active,
                       off |-> moved[b].off, seq |-> moved[b].seq]
      BY <2>1, <2>3 DEF Entry
    <2> QED BY <2>1, <2>2, <2>4 DEF Entry
  <1>2. ASSUME NEW b \in Ids \ Present
        PROVE  table'[b] = table[b] /\ ~table[b].present
    BY DEF Commit, Present
  <1>3. table' \in [Ids -> Entry \cup {Absent}]
    <2>1. table' = [b \in Ids |-> table'[b]]
      BY DEF Commit
    <2>2. \A b \in Ids : table'[b] \in Entry \cup {Absent}
      BY <1>1, <1>2 DEF TypeOK
    <2> QED BY <2>1, <2>2
  <1>4. Present' = Present
    <2>1. \A b \in Present : table'[b].present
      BY <1>1 DEF Entry
    <2>2. \A b \in Ids \ Present : ~table'[b].present
      BY <1>2
    <2> QED BY <2>1, <2>2 DEF Present
  <1>5. ASSUME NEW b \in Ids, table'[b].present
        PROVE  ValueAt(table[b].sector, table[b].off, b, table[b].val, table[b].seq)'
    <2>1. b \in Present
      BY <1>2, <1>5
    <2>2. /\ table'[b].val = table[b].val /\ table'[b].sector = active
          /\ table'[b].off = moved[b].off /\ table'[b].seq = moved[b].seq
      BY <1>1, <2>1
    <2> QED BY <2>1, <2>2 DEF ValueAt
  <1> QED BY <1>3, <1>4, <1>5 DEF RefsValid

\* compact ends: the old sector awaits its erase.
LEMMA CommitSteps ==
    ASSUME JournalInv,
           \/ CopyDone
           \/ CopyMarked
    PROVE  JournalInv'
  <1> USE JournalAssumption
  <1>1. CASE CopyDone
    <2> USE <1>1 DEF JournalInv, CopyDone, history
    <2>1. mounted /\ todo = {} /\ 1 - active # active /\ 1 - active # -1 /\ part = 0
      BY DEF CallShape, TypeOK, Sector, WriteShape, WritePhases
    <2>2. /\ phase' \in {"idle", "space"} /\ todo' = {} /\ part' = 0 /\ pendingErase' = 1 - active
          /\ phase' = "space" => job' = job /\ job.op \in {"put", "mark"}
          /\ phase' = "idle" => job' = NoJob
      BY <2>1 DEF Commit, Finish, CallShape, Compacting
    <2>3. table' \in [Ids -> Entry \cup {Absent}] /\ Present' = Present /\ RefsValid'
      BY <2>1, CommitRows DEF CopiesValid, ValueAt, Compacting
    <2>4. TypeOK'
      <3>1. /\ job' \in Calls /\ phase' \in Phases /\ todo' \subseteq Ids
            /\ cur' \in Ids \cup {NoId} /\ part' \in Nat /\ moved' \in Moves
            /\ savedCursor' \in 0 .. Slots
        <4>1. CASE job.op = "compact"
          BY <4>1, FinishType DEF Commit
        <4>2. CASE job.op # "compact"
          <5>1. /\ phase' = "space" /\ savedCursor' = 0
                /\ moved' = [b \in Ids |-> [off |-> 0, seq |-> 0]]
                /\ UNCHANGED <<job, todo, cur, part>>
            BY <4>2 DEF Commit
          <5>2. moved' \in Moves
            BY <5>1 DEF Moves, SeqRange
          <5>3. phase' \in Phases
            BY <5>1 DEF Phases
          <5> QED BY <5>1, <5>2, <5>3 DEF TypeOK
        <4> QED BY <4>1, <4>2
      <3>2. pendingErase' \in {-1, 0, 1}
        BY <2>2 DEF TypeOK, Sector
      <3> QED BY <2>3, <3>1, <3>2 DEF TypeOK
    <2>5. CallShape'
      BY <2>1, <2>2, <2>3 DEF TypeOK, CallShape, NoJob, Compacting
    <2>6. FrontierBlank'
      BY <2>2 DEF FrontierBlank, Compacting
    <2>7. WriteShape'
      BY <2>2 DEF WriteShape, WritePhases, MarkPhases
    <2>8. PartnerAccounted'
      BY <2>1, <2>2 DEF PartnerAccounted, Compacting
    <2>9. RefsValid'
      BY <2>3
    <2>10. StraysSafe'
      BY <2>2 DEF StraysSafe, Compacting
    <2>11. CopiesValid'
      BY <2>2 DEF CopiesValid, Compacting
    <2> QED BY <2>4, <2>5, <2>6, <2>7, <2>8, <2>9, <2>10, <2>11 DEF JournalInv
  <1>2. CASE CopyMarked
    <2> USE <1>2 DEF JournalInv, CopyMarked, history
    <2>1. /\ phase \in WritePhases \cup MarkPhases /\ Program(NextRecord, "ok")
          /\ mounted /\ cursor \in Slot /\ active \in Sector /\ 1 - active \in Sector
      BY NextRecordFacts DEF CallShape, TypeOK, Sector, WritePhases, MarkPhases
    <2>2. mounted /\ todo = {} /\ 1 - active # active /\ 1 - active # -1 /\ part = 0
      BY DEF CallShape, TypeOK, Sector, WriteShape, WritePhases
    <2>3. /\ phase' \in {"idle", "space"} /\ todo' = {} /\ part' = 0 /\ pendingErase' = 1 - active
          /\ phase' = "space" => job' = job /\ job.op \in {"put", "mark"}
          /\ phase' = "idle" => job' = NoJob
      BY <2>2 DEF Commit, Finish, CallShape, Compacting
    <2>4. table' \in [Ids -> Entry \cup {Absent}] /\ Present' = Present /\ RefsValid'
      BY <2>1, <2>2, CommitRows, ProgramKeeps DEF Compacting
    <2>5. TypeOK'
      <3>1. flash' \in [Sector -> [Slot -> Cells]] /\ cursor' \in 0 .. Slots
        BY <2>1, ProgramFacts DEF Slot
      <3>2. /\ job' \in Calls /\ phase' \in Phases /\ todo' \subseteq Ids
            /\ cur' \in Ids \cup {NoId} /\ part' \in Nat /\ moved' \in Moves
            /\ savedCursor' \in 0 .. Slots
        <4>1. CASE job.op = "compact"
          BY <4>1, FinishType DEF Commit
        <4>2. CASE job.op # "compact"
          <5>1. /\ phase' = "space" /\ savedCursor' = 0
                /\ moved' = [b \in Ids |-> [off |-> 0, seq |-> 0]]
                /\ UNCHANGED <<job, todo, cur, part>>
            BY <4>2 DEF Commit
          <5>2. moved' \in Moves
            BY <5>1 DEF Moves, SeqRange
          <5>3. phase' \in Phases
            BY <5>1 DEF Phases
          <5> QED BY <5>1, <5>2, <5>3 DEF TypeOK
        <4> QED BY <4>1, <4>2
      <3>3. pendingErase' \in {-1, 0, 1}
        BY <2>3 DEF TypeOK, Sector
      <3> QED BY <2>4, <3>1, <3>2, <3>3, WitnessType DEF TypeOK
    <2>6. CallShape'
      BY <2>1, <2>2, <2>3, <2>4 DEF TypeOK, CallShape, NoJob, Compacting
    <2>7. FrontierBlank'
      BY <2>1, <2>3, ProgramKeeps DEF FrontierBlank, Compacting, Slot
    <2>8. WriteShape'
      BY <2>3 DEF WriteShape, WritePhases, MarkPhases
    <2>9. PartnerAccounted'
      BY <2>3, <2>2 DEF PartnerAccounted, Compacting
    <2>10. RefsValid'
      BY <2>4
    <2>11. StraysSafe'
      BY <2>3 DEF StraysSafe, Compacting
    <2>12. CopiesValid'
      BY <2>3 DEF CopiesValid, Compacting
    <2> QED BY <2>5, <2>6, <2>7, <2>8, <2>9, <2>10, <2>11, <2>12 DEF JournalInv
  <1> QED BY <1>1, <1>2

\* A program that fails gives the call up; the slot it burned is behind the
\* cursor, or in the target that awaits its erase.
LEMMA FailureSteps ==
    ASSUME JournalInv,
           \E out \in Failures : ProgramFails(out)
    PROVE  JournalInv'
  <1> USE JournalAssumption
  <1>1. ASSUME NEW out \in Failures, ProgramFails(out) PROVE JournalInv'
    <2> USE <1>1 DEF JournalInv, ProgramFails, GiveUp, Finish
    <2>1. /\ phase \in WritePhases \cup MarkPhases /\ Program(NextRecord, out)
          /\ mounted /\ cursor \in Slot /\ active \in Sector /\ 1 - active \in Sector
      BY NextRecordFacts DEF CallShape, TypeOK, Sector, WritePhases, MarkPhases
    <2>2. TypeOK'
      <3>1. flash' \in [Sector -> [Slot -> Cells]]
        BY <2>1, ProgramFacts
      <3>2. active' \in Sector /\ cursor' \in 0 .. Slots /\ pendingErase' \in {-1, 0, 1}
        BY <2>1 DEF TypeOK, Sector, Slot
      <3>3. partnerClean' \in BOOLEAN
        BY DEF TypeOK
      <3>4. faults' \in 0 .. MaxFaults
        BY DEF TypeOK
      <3> QED BY <3>1, <3>2, <3>3, <3>4, FinishType, WitnessType DEF TypeOK
    <2>3. CallShape'
      BY DEF TypeOK, CallShape, SeqRange, Compacting, Present, NoJob
    <2>4. FrontierBlank'
      BY <2>1, ProgramKeeps DEF FrontierBlank, Compacting, Slot, Sector
    <2>5. WriteShape'
      BY DEF WriteShape, WritePhases, MarkPhases, Compacting
    <2>6. PartnerAccounted'
      BY <2>1, ProgramKeeps DEF PartnerAccounted, Compacting, Sector
    <2>7. RefsValid'
      BY <2>1, ProgramKeeps DEF RefsValid, ValueAt
    <2>8. StraysSafe'
      BY DEF StraysSafe, StrayIds, Present, Compacting
    <2>9. CopiesValid'
      BY DEF CopiesValid, ValueAt, Present, Compacting
    <2> QED BY <2>2, <2>3, <2>4, <2>5, <2>6, <2>7, <2>8, <2>9 DEF JournalInv
  <1> QED BY <1>1

\* The partner's erase, complete or not: no row leads into the partner.
LEMMA EraseSteps ==
    ASSUME JournalInv,
           \/ EraseDone
           \/ \E hit \in SUBSET Slot, left \in {Blank, Torn} : EraseFails(hit, left)
    PROVE  JournalInv'
  <1> USE JournalAssumption
  <1>1. CASE EraseDone
    <2> USE <1>1 DEF JournalInv, EraseDone, history
    <2>1. /\ mounted /\ active \in Sector /\ 1 - active \in Sector /\ 1 - active # active
          /\ 1 - (1 - active) = active /\ todo = {} /\ part = 0 /\ ~partnerClean
          /\ StrayIds(1 - active) = {}
      BY DEF CallShape, TypeOK, Sector, StraysSafe, WriteShape, WritePhases
    <2>2. /\ flash' \in [Sector -> [Slot -> Cells]]
          /\ \A i \in Slot : flash'[active][i] = flash[active][i]
          /\ \A i \in Slot : flash'[1 - active][i] = Blank
      BY <2>1, CellFacts DEF TypeOK
    <2>3. \A b \in Ids : table[b].present => table[b].sector = active
      BY <2>1, RowFacts DEF StrayIds, Present, TypeOK, Sector
    <2>4. CASE job.op = "erase"
      <3> USE <2>4 DEF Finish
      <3>1. TypeOK'
        <4>1. partnerClean' \in BOOLEAN /\ pendingErase' \in {-1, 0, 1}
          BY DEF TypeOK
        <4> QED BY <2>2, <4>1, FinishType DEF TypeOK
      <3>2. CallShape'
        BY DEF TypeOK, CallShape, SeqRange, Compacting, Present, NoJob
      <3>3. FrontierBlank'
        BY <2>1, <2>2 DEF FrontierBlank, Compacting
      <3>4. WriteShape'
        BY DEF WriteShape, WritePhases, MarkPhases, Compacting
      <3>5. PartnerAccounted'
        BY <2>1, <2>2 DEF PartnerAccounted, Compacting, TypeOK, Sector
      <3>6. RefsValid'
        BY <2>2, <2>3 DEF RefsValid, ValueAt
      <3>7. StraysSafe'
        BY DEF StraysSafe, StrayIds, Present, Compacting
      <3>8. CopiesValid'
        BY DEF CopiesValid, ValueAt, Present, Compacting
      <3> QED BY <3>1, <3>2, <3>3, <3>4, <3>5, <3>6, <3>7, <3>8 DEF JournalInv
    <2>5. CASE job.op # "erase"
      <3> USE <2>5 DEF StartCopy
      <3>1. TypeOK'
        <4>1. todo' \subseteq Ids /\ active' \in Sector /\ cursor' \in 0 .. Slots
          BY <2>1 DEF Present
        <4>2. phase' \in Phases /\ partnerClean' \in BOOLEAN
          BY DEF Phases, Compacting
        <4> QED BY <2>2, <4>1, <4>2 DEF TypeOK
      <3>2. CallShape'
        BY DEF TypeOK, CallShape, SeqRange, Compacting, Present, TypeOK
      <3>3. FrontierBlank'
        BY <2>1, <2>2 DEF FrontierBlank, Compacting
      <3>4. WriteShape'
        BY <2>1 DEF WriteShape, WritePhases, MarkPhases
      <3>5. PartnerAccounted'
        BY <2>1, <2>2 DEF PartnerAccounted, Compacting
      <3>6. RefsValid'
        BY <2>2, <2>3 DEF RefsValid, ValueAt
      <3>7. StraysSafe'
        BY <2>1 DEF StraysSafe, StrayIds, Present, Compacting
      <3>8. CopiesValid'
        BY DEF CopiesValid, ValueAt, Present, Compacting
      <3> QED BY <3>1, <3>2, <3>3, <3>4, <3>5, <3>6, <3>7, <3>8 DEF JournalInv
    <2> QED BY <2>4, <2>5
  <1>2. ASSUME NEW hit \in SUBSET Slot, NEW left \in {Blank, Torn}, EraseFails(hit, left) PROVE JournalInv'
    <2> USE <1>2 DEF JournalInv, EraseFails, Finish, place, history
    <2>1. /\ mounted /\ active \in Sector /\ 1 - active \in Sector /\ 1 - active # active
          /\ 1 - (1 - active) = active /\ todo = {} /\ part = 0 /\ ~partnerClean
          /\ StrayIds(1 - active) = {}
      BY DEF CallShape, TypeOK, Sector, StraysSafe, WriteShape, WritePhases
    <2>2. /\ flash' \in [Sector -> [Slot -> Cells]]
          /\ \A i \in Slot : flash'[active][i] = flash[active][i]
      BY <2>1, CellFacts DEF TypeOK, HalfErased
    <2>3. \A b \in Ids : table[b].present => table[b].sector = active
      BY <2>1, RowFacts DEF StrayIds, Present, TypeOK, Sector
    <2>4. TypeOK'
      <3>1. faults' \in 0 .. MaxFaults
        BY DEF TypeOK
      <3> QED BY <2>2, <3>1, FinishType DEF TypeOK
    <2>5. CallShape'
      BY DEF TypeOK, CallShape, SeqRange, Compacting, Present, NoJob
    <2>6. FrontierBlank'
      BY <2>1, <2>2 DEF FrontierBlank, Compacting
    <2>7. WriteShape'
      BY DEF WriteShape, WritePhases, MarkPhases, Compacting
    <2>8. PartnerAccounted'
      BY <2>1 DEF PartnerAccounted, Compacting
    <2>9. RefsValid'
      BY <2>2, <2>3 DEF RefsValid, ValueAt
    <2>10. StraysSafe'
      BY DEF StraysSafe, StrayIds, Present, Compacting
    <2>11. CopiesValid'
      BY DEF CopiesValid, ValueAt, Present, Compacting
    <2> QED BY <2>4, <2>5, <2>6, <2>7, <2>8, <2>9, <2>10, <2>11 DEF JournalInv
  <1> QED BY <1>1, <1>2

\* Power goes, and rows go with the schema: no row is left that leads nowhere.
LEMMA PowerSteps ==
    ASSUME JournalInv,
           \/ PowerCut
           \/ \E keep \in Schemas : Prune(keep)
    PROVE  JournalInv'
  <1> USE JournalAssumption
  <1>1. CASE PowerCut
    <2> USE <1>1 DEF JournalInv, PowerCut, Halted
    <2>1. ~mounted' /\ phase' = "idle" /\ todo' = {} /\ \A b \in Ids : ~table'[b].present
      BY DEF Finish, Absent
    <2>2. TypeOK'
      <3>1. flash' \in [Sector -> [Slot -> Cells]] /\ tail' \in {"covered", "touched", "acknowledged"}
        <4>1. CASE UNCHANGED <<flash, tail>>
          BY <4>1 DEF TypeOK
        <4>2. ASSUME phase \in WritePhases \cup MarkPhases,
                     NEW out \in {"ok", "torn"}, Program(NextRecord, out),
                     Witness(AfterProgram(flash[active][cursor], NextRecord, out))
              PROVE  /\ flash' \in [Sector -> [Slot -> Cells]]
                     /\ tail' \in {"covered", "touched", "acknowledged"}
          BY <4>2, ProgramFacts, WitnessType
        <4>3. ASSUME NEW hit \in SUBSET Slot, NEW left \in {Blank, Torn},
                     flash' = [flash EXCEPT ![1 - active] = HalfErased(1 - active, hit, left)],
                     UNCHANGED tail
              PROVE  /\ flash' \in [Sector -> [Slot -> Cells]]
                     /\ tail' \in {"covered", "touched", "acknowledged"}
          <5>1. HalfErased(1 - active, hit, left) \in [Slot -> Cells]
            BY CellFacts DEF HalfErased, TypeOK, Sector
          <5> QED BY <4>3, <5>1 DEF TypeOK
        <4> QED BY <4>1, <4>2, <4>3
      <3>2. table' \in [Ids -> Entry \cup {Absent}]
        OBVIOUS
      <3>3. maxSeq' \in SeqRange /\ active' \in Sector /\ cursor' \in 0 .. Slots
        BY DEF SeqRange, Sector
      <3>4. /\ mounted' \in BOOLEAN /\ partnerClean' \in BOOLEAN /\ tailClean' \in BOOLEAN
            /\ poolOverflow' \in BOOLEAN
        OBVIOUS
      <3>5. cuts' \in 0 .. MaxCuts
        BY DEF TypeOK
      <3> QED BY <3>1, <3>2, <3>3, <3>4, <3>5, FinishType DEF TypeOK
    <2>3. CallShape'
      BY <2>1 DEF CallShape, Finish, NoJob, Compacting, Present
    <2>4. FrontierBlank'
      BY <2>1 DEF FrontierBlank, Compacting
    <2>5. WriteShape'
      BY <2>1 DEF WriteShape, WritePhases, MarkPhases, Finish
    <2>6. PartnerAccounted'
      BY <2>1 DEF PartnerAccounted
    <2>7. RefsValid'
      BY <2>1 DEF RefsValid
    <2>8. StraysSafe'
      BY <2>1 DEF StraysSafe, Compacting
    <2>9. CopiesValid'
      BY <2>1 DEF CopiesValid, Compacting
    <2> QED BY <2>2, <2>3, <2>4, <2>5, <2>6, <2>7, <2>8, <2>9 DEF JournalInv
  <1>2. ASSUME NEW keep \in Schemas, Prune(keep) PROVE JournalInv'
    <2> USE <1>2 DEF JournalInv, Prune, place
    <2>1. \A b \in Ids : table'[b].present => table'[b] = table[b]
      BY DEF Absent
    <2>2. todo = {} /\ part = 0
      BY DEF CallShape, WriteShape, WritePhases
    <2>3. TypeOK'
      <3>1. table' \in [Ids -> Entry \cup {Absent}]
        BY DEF TypeOK
      <3>2. poolOverflow' \in BOOLEAN
        BY DEF TypeOK
      <3>3. inDoubt' \in [Ids -> SUBSET (Values \cup {NoValue})]
        BY DEF TypeOK
      <3>4. tail' \in {"covered", "touched", "acknowledged"}
        BY DEF TypeOK
      <3> QED BY <3>1, <3>2, <3>3, <3>4 DEF TypeOK
    <2>4. CallShape'
      BY <2>2 DEF CallShape, Compacting, TypeOK
    <2>5. FrontierBlank'
      BY DEF FrontierBlank, Compacting
    <2>6. WriteShape'
      BY <2>2 DEF WriteShape, WritePhases, MarkPhases
    <2>7. PartnerAccounted'
      BY DEF PartnerAccounted, Compacting
    <2>8. RefsValid'
      BY <2>1 DEF RefsValid, ValueAt
    <2>9. StraysSafe'
      BY DEF StraysSafe, StrayIds, Present, Compacting
    <2>10. CopiesValid'
      BY DEF CopiesValid, ValueAt, Present, Compacting
    <2> QED BY <2>3, <2>4, <2>5, <2>6, <2>7, <2>8, <2>9, <2>10 DEF JournalInv
  <1> QED BY <1>1, <1>2

\* mount's cursor: nothing but blank slots from the frontier on, unless the scan
\* saw dirt behind it.
LEMMA FrontierFacts ==
    ASSUME TypeOK, NEW s \in Sector
    PROVE  /\ Frontier(s) \in 0 .. Slots
           /\ ~DirtyTail(s) => \A i \in Slot : i >= Frontier(s) => flash[s][i] = Blank
  <1> USE JournalAssumption
  <1> DEFINE F == {i \in Slot : flash[s][i] = Blank} \cup {Slots}
  <1>1. F \subseteq Nat /\ F # {} /\ Slots \in F
    BY DEF Slot
  <1>2. Min(F) \in F /\ \A y \in F : Min(F) <= y
    <2> HIDE DEF F
    <2> QED BY <1>1, MinIsLeast
  <1>3. Frontier(s) = Min(F)
    BY DEF Frontier
  <1>4. Min(F) \in 0 .. Slots
    <2> HIDE DEF F
    <2>1. Min(F) \in Nat /\ Min(F) <= Slots
      BY <1>1, <1>2
    <2> QED BY <2>1
  <1>5. ASSUME ~DirtyTail(s), NEW i \in Slot, i >= Frontier(s)
        PROVE  flash[s][i] = Blank
    <2>1. Min(F) \in Slot
      BY <1>3, <1>4, <1>5 DEF Slot
    <2>2. flash[s][Min(F)] = Blank
      BY <1>2, <2>1 DEF Slot
    <2>3. CASE i = Min(F)
      BY <2>2, <2>3
    <2>4. CASE i # Min(F)
      <3>1. Min(F) < i
        BY <1>3, <1>4, <1>5, <2>4 DEF Slot
      <3> QED BY <1>5, <2>1, <2>2, <3>1 DEF DirtyTail
    <2> QED BY <2>3, <2>4
  <1> QED BY <1>3, <1>4, <1>5

\* What the scan finds for a block is a complete value of it.
LEMMA FoundFacts ==
    ASSUME TypeOK, NEW b \in Ids, NEW e \in Found(b)
    PROVE  e \in Entry /\ ValueAt(e.sector, e.off, b, e.val, e.seq)
  <1> USE JournalAssumption
  <1>1. PICK s \in Sector, i \in Slot :
          /\ Complete(s, i) /\ flash[s][i].id = b
          /\ e = [present |-> TRUE, val |-> flash[s][i].val, sector |-> s, off |-> i,
                  seq |-> flash[s][i].seq]
    BY DEF Found
  <1>2. flash[s][i] \in Cells /\ flash[s][i].kind = "value" /\ flash[s][i].part = 0
    BY <1>1 DEF Complete, TypeOK
  <1>3. /\ flash[s][i].val \in Values /\ flash[s][i].seq \in SeqRange
        /\ flash[s][i] = Rec(b, flash[s][i].val, flash[s][i].seq, 0)
    BY <1>1, <1>2, ValueCell
  <1>4. e \in Entry
    BY <1>1, <1>3 DEF Entry
  <1>5. ASSUME NEW k \in 0 .. Parts[flash[s][i].val] - 1
        PROVE  i + k \in Slot /\ flash[s][i + k] = Rec(b, flash[s][i].val, flash[s][i].seq, k)
    <2>1. i + k \in Slot /\ flash[s][i + k] = [flash[s][i] EXCEPT !.part = k]
      BY <1>1 DEF Complete
    <2>2. [flash[s][i] EXCEPT !.part = k] = Rec(b, flash[s][i].val, flash[s][i].seq, k)
      BY <1>3 DEF Rec
    <2> QED BY <2>1, <2>2
  <1>6. /\ e.val = flash[s][i].val /\ e.sector = s /\ e.off = i
        /\ e.seq = flash[s][i].seq
    BY <1>1
  <1> QED BY <1>4, <1>5, <1>6 DEF ValueAt

\* The row mount makes is one of the values found, so it leads to a value.
LEMMA NewestFacts ==
    ASSUME TypeOK, NEW b \in Ids, Found(b) # {}
    PROVE  /\ Newest(b) \in Found(b) /\ \A f \in Found(b) : f.seq <= Newest(b).seq
           /\ Newest(b) \in Entry
           /\ ValueAt(Newest(b).sector, Newest(b).off, b, Newest(b).val, Newest(b).seq)
  <1> USE JournalAssumption
  <1> DEFINE Q == {e.seq : e \in Found(b)}
  <1>1. \A e \in Found(b) : e.seq \in 0 .. SeqCeiling + 1
    BY FoundFacts DEF Entry, SeqRange
  <1>2. Q \subseteq Nat /\ Q # {} /\ \A q \in Q : q <= SeqCeiling + 1
    BY <1>1
  <1>3. PICK m \in Q : \A q \in Q : q <= m
    <2> HIDE DEF Q
    <2>1. SeqCeiling + 1 \in Nat
      OBVIOUS
    <2> QED BY <1>2, <2>1, GreatestNat
  <1>4. \E e \in Found(b) : \A f \in Found(b) : f.seq <= e.seq
    BY <1>3
  <1>5. Newest(b) \in Found(b) /\ \A f \in Found(b) : f.seq <= Newest(b).seq
    BY <1>4 DEF Newest
  <1> QED BY <1>5, FoundFacts

\* max_seq after mount is a sequence number in range.
LEMMA MaxSeqFacts ==
    ASSUME TypeOK
    PROVE  MaxSeqOnFlash \in SeqRange
  <1> USE JournalAssumption
  <1> DEFINE T == {0} \cup {flash[p[1]][p[2]].seq :
                              p \in {q \in Sector \X Slot : IsValid(q[1], q[2])}}
  <1>1. \A c \in Cells : c.kind \in {"value", "marker"} => c.seq \in SeqRange
    BY DEF Cells, Blank, Torn, Markers, Records
  <1>2. T \subseteq SeqRange
    BY <1>1 DEF TypeOK, IsValid, SeqRange
  <1>3. T \subseteq Nat /\ T # {} /\ \A y \in T : y <= SeqCeiling + 1
    BY <1>2 DEF SeqRange
  <1>4. Max(T) \in T
    <2> HIDE DEF T
    <2>1. SeqCeiling + 1 \in Nat
      OBVIOUS
    <2> QED BY <1>3, <2>1, MaxIsGreatest
  <1> QED BY <1>2, <1>4 DEF MaxSeqOnFlash

\* mount establishes the invariant from whatever a power cut left on flash.
LEMMA MountStep ==
    ASSUME JournalInv, Mount
    PROVE  JournalInv'
  <1> USE JournalAssumption DEF JournalInv, Mount
  <1>1. ActiveSector \in Sector /\ 1 - ActiveSector \in Sector /\ 1 - ActiveSector # ActiveSector
    BY DEF ActiveSector, FreshSector, Sector
  <1>2. phase = "idle" /\ part = 0 /\ todo = {}
    BY DEF CallShape, WriteShape, WritePhases
  <1>3. ASSUME NEW b \in Kept
        PROVE  /\ b \in Ids /\ Newest(b) \in Entry
               /\ ValueAt(Newest(b).sector, Newest(b).off, b, Newest(b).val, Newest(b).seq)
    BY NewestFacts DEF Kept, OnFlash
  <1>4. TypeOK'
    <2>1. table' \in [Ids -> Entry \cup {Absent}]
      BY <1>3
    <2>2. maxSeq' \in SeqRange
      BY MaxSeqFacts
    <2>3. cursor' \in 0 .. Slots
      BY <1>1, FrontierFacts
    <2>4. active' \in Sector /\ pendingErase' \in {-1, 0, 1}
      BY <1>1 DEF Sector
    <2>5. mounted' \in BOOLEAN /\ poolOverflow' \in BOOLEAN /\ partnerClean' \in BOOLEAN
      OBVIOUS
    <2>6. tailClean' \in BOOLEAN
      BY DEF MountsClean
    <2>7. inDoubt' \in [Ids -> SUBSET (Values \cup {NoValue})]
      <3> SUFFICES ASSUME NEW b \in Ids
                   PROVE  (CASE b \in Kept -> {Newest(b).val}
                             [] b \in OnFlash \ Kept -> inDoubt[b]
                             [] OTHER -> {NoValue}) \in SUBSET (Values \cup {NoValue})
        OBVIOUS
      <3>1. b \in Kept => Newest(b).val \in Values
        BY <1>3 DEF Entry
      <3> QED BY <3>1 DEF TypeOK
    <2> QED BY <2>1, <2>2, <2>3, <2>4, <2>5, <2>6, <2>7 DEF TypeOK
  <1>5. CallShape'
    BY <1>2 DEF CallShape, Compacting
  <1>6. FrontierBlank'
    BY <1>1, <1>2, FrontierFacts DEF FrontierBlank, Compacting, Slot
  <1>7. WriteShape'
    BY <1>2 DEF WriteShape, WritePhases, MarkPhases
  <1>8. PartnerAccounted'
    <2>1. 1 - ActiveSector # -1
      BY <1>1 DEF Sector
    <2>2. pendingErase' # active' /\ phase' \notin Compacting
      BY <1>1, <1>2 DEF Sector, Compacting
    <2>3. partnerClean' <=> pendingErase' = -1
      BY <2>1
    <2>4. partnerClean' => \A i \in Slot : flash'[1 - active'][i] = Blank
      BY DEF NonEmpty
    <2> QED BY <2>2, <2>3, <2>4 DEF PartnerAccounted
  <1>9. RefsValid'
    <2> SUFFICES ASSUME NEW b \in Ids, table'[b].present
                 PROVE  ValueAt(table[b].sector, table[b].off, b, table[b].val, table[b].seq)'
      BY DEF RefsValid
    <2>1. b \in Kept /\ table'[b] = Newest(b)
      BY DEF Absent
    <2> QED BY <1>3, <2>1 DEF ValueAt
  <1>10. StraysSafe' /\ CopiesValid'
    BY <1>2 DEF StraysSafe, CopiesValid, Compacting
  <1> QED BY <1>4, <1>5, <1>6, <1>7, <1>8, <1>9, <1>10

-----------------------------------------------------------------------------
(* The theorems. *)

\* A fresh pair of sectors, not yet mounted, satisfies the invariant.
LEMMA InitInv == Init => JournalInv
  <1> SUFFICES ASSUME Init PROVE JournalInv
    OBVIOUS
  <1> USE JournalAssumption DEF Init
  <1>1. flash \in [Sector -> [Slot -> Cells]]
    BY CellFacts
  <1>2. job \in Calls /\ phase \in Phases /\ moved \in Moves
    BY DEF Calls, NoJob, Phases, Moves, SeqRange
  <1>3. TypeOK
    <2>1. /\ mounted \in BOOLEAN /\ partnerClean \in BOOLEAN /\ tailClean \in BOOLEAN
          /\ poolOverflow \in BOOLEAN
      OBVIOUS
    <2>2. /\ maxSeq \in SeqRange /\ active \in Sector /\ cursor \in 0 .. Slots
          /\ savedCursor \in 0 .. Slots /\ faults \in 0 .. MaxFaults /\ cuts \in 0 .. MaxCuts
      BY DEF SeqRange, Sector
    <2> QED BY <1>1, <1>2, <2>1, <2>2 DEF TypeOK
  <1>4. \A b \in Ids : ~table[b].present
    BY DEF Absent
  <1>5. CallShape
    BY <1>4 DEF CallShape, NoJob, Compacting
  <1>6. FrontierBlank /\ WriteShape /\ PartnerAccounted /\ StraysSafe /\ CopiesValid
    BY DEF FrontierBlank, WriteShape, PartnerAccounted, StraysSafe, CopiesValid,
           Compacting, WritePhases, MarkPhases
  <1>7. RefsValid
    BY <1>4 DEF RefsValid
  <1> QED BY <1>3, <1>5, <1>6, <1>7 DEF JournalInv

\* Every step of the journal, of the flash and of the power supply preserves it.
LEMMA NextInv == JournalInv /\ [Next]_vars => JournalInv'
  <1> SUFFICES ASSUME JournalInv, [Next]_vars PROVE JournalInv'
    OBVIOUS
  <1>1. CASE UNCHANGED vars
    BY <1>1 DEF vars, place, history, JournalInv, TypeOK, CallShape, FrontierBlank,
         WriteShape, PartnerAccounted, RefsValid, StraysSafe, CopiesValid, Present,
         StrayIds, ValueAt, Writing
  <1>2. CASE Mount
    BY <1>2, MountStep
  <1>3. CASE \/ PowerCut
             \/ \E keep \in Schemas : Prune(keep)
    BY <1>3, PowerSteps
  <1>4. CASE \/ \E b \in Ids, v \in Values : PutBegin(b, v)
             \/ MarkBegin
             \/ CompactBegin
             \/ ErasePendingBegin
    BY <1>4, OpenSteps
  <1>5. CASE SpaceFound \/ SpaceCompact \/ SpaceRefused
    BY <1>5, SpaceSteps
  <1>6. CASE \/ \E b \in Ids : EmitNext(b)
             \/ EmitMarker \/ EmitRefused \/ RehomeDone
    BY <1>6, EmitSteps
  <1>7. CASE PartWritten
    BY <1>7, PartStep
  <1>8. CASE PutWritten \/ RehomeWritten \/ CopyWritten
    BY <1>8, LastPartSteps
  <1>9. CASE MarkWritten \/ RehomeMarked
    BY <1>9, MarkSteps
  <1>10. CASE CopyDone \/ CopyMarked
    BY <1>10, CommitSteps
  <1>11. CASE \E out \in Failures : ProgramFails(out)
    BY <1>11, FailureSteps
  <1>12. CASE \/ EraseDone
              \/ \E hit \in SUBSET Slot, left \in {Blank, Torn} : EraseFails(hit, left)
    BY <1>12, EraseSteps
  <1> QED BY <1>1, <1>2, <1>3, <1>4, <1>5, <1>6, <1>7, <1>8, <1>9, <1>10, <1>11, <1>12
          DEF Next

\* JournalInv is an invariant of the journal.
THEOREM Invariance == Spec => []JournalInv
  <1>1. Init => JournalInv
    BY InitInv
  <1>2. JournalInv /\ [Next]_vars => JournalInv'
    BY NextInv
  <1> QED BY <1>1, <1>2, PTL DEF Spec

\* The state of the journal is always well typed: the cursor stays in its sector
\* and no sequence number passes the ceiling by more than one.
THEOREM TypeCorrect == Spec => []TypeOK
  <1>1. JournalInv => TypeOK
    BY DEF JournalInv
  <1> QED BY <1>1, Invariance, PTL

\* No flash word is ever programmed twice, whatever was cut, failed or erased
\* half way before.
THEOREM NeverProgrammedTwice == Spec => []NextWordBlank
  <1>1. JournalInv => NextWordBlank
    BY NextRecordFacts DEF NextWordBlank
  <1> QED BY <1>1, Invariance, PTL

\* The bookkeeping of the two sectors is right: the sector awaiting its erase is
\* not the active one and a partner that counts as erased is erased.
THEOREM PartnerAlwaysAccounted == Spec => []PartnerAccounted
  <1>1. JournalInv => PartnerAccounted
    BY DEF JournalInv
  <1> QED BY <1>1, Invariance, PTL

\* Every row of the table leads to a complete value on flash: no erase, append,
\* compaction or recovery takes the value away from under its row.
THEOREM RowsAlwaysLead == Spec => []RefsValid
  <1>1. JournalInv => RefsValid
    BY DEF JournalInv
  <1> QED BY <1>1, Invariance, PTL

-----------------------------------------------------------------------------
(* What the two sectors hold, for the properties about several records.    *)

\* The newest record is the open call's own: nothing on flash is newer, and in a
\* write only its own parts bear the open sequence number.
SeqInv ==
    /\ SeqNamesOneWrite
    /\ mounted => \A s \in Sector, i \in Slot : IsValid(s, i) => flash[s][i].seq <= maxSeq
    /\ phase \in WritePhases \cup MarkPhases =>
          \A s \in Sector, i \in Slot : IsValid(s, i) /\ flash[s][i].seq = maxSeq =>
              phase \in WritePhases /\ s = active /\ cursor - part <= i /\ i < cursor

\* Block b has a whole value under sequence number n; those from n on are in doubt.
Whole(b, n) == \E s \in Sector, o \in Slot, v \in Values : ValueAt(s, o, b, v, n)
DoubtedFrom(b, n) ==
    \A s \in Sector, o \in Slot, v \in Values, q \in SeqRange :
        n <= q /\ ValueAt(s, o, b, v, q) => v \in inDoubt[b]

\* A mount serves a block one of its values in doubt: the newest, which is there, or
\* whatever there is, and nothing when there is none.
Held(b) == \E n \in SeqRange : Whole(b, n) /\ DoubtedFrom(b, n)
Loose(b) == NoValue \in inDoubt[b] /\ DoubtedFrom(b, 0)

Settled(b) ==
    CASE ~mounted -> Held(b) \/ Loose(b)
      [] mounted /\ table[b].present -> DoubtedFrom(b, table[b].seq)
      [] OTHER -> Loose(b) \/ (poolOverflow /\ Held(b))

\* Only what was put is ever on flash.
Attempted ==
    \A s \in Sector, i \in Slot :
        flash[s][i].kind = "value" => flash[s][i].val \in past[flash[s][i].id]

\* The value being put is in doubt from its first word on, and the tail dirty.
Asked == phase = "append" => /\ job.val \in inDoubt[job.id] /\ job.val \in past[job.id]
                             /\ ~tailClean

\* A copy is newer than what it copies.
Newer == phase \in Compacting => \A b \in Present \ todo : table[b].seq <= moved[b].seq

\* No block is hidden while a sector is copied or erased.
NoneHidden == phase \notin {"idle", "space", "append", "mark"} => ~poolOverflow

StoreInv ==
    /\ \A b \in Ids : Settled(b)
    /\ Attempted
    /\ Asked
    /\ Newer
    /\ NoneHidden

\* Every marker is older than n.
Unmarked(n) ==
    \A s \in Sector, i \in Slot : flash[s][i].kind = "marker" => flash[s][i].seq < n

\* An acknowledged put no marker covers leaves a whole value newer than all of them.
NewerThanMarkers == \E b \in Ids, n \in SeqRange : Whole(b, n) /\ Unmarked(n)
AckInv ==
    tail = "acknowledged" =>
        IF mounted
          THEN /\ ~tailClean
               /\ \/ \E b \in Present : Unmarked(table[b].seq)
                  \/ poolOverflow /\ NewerThanMarkers
          ELSE NewerThanMarkers

\* compact's target fills without a gap; before the erase of a clean tail's partner,
\* the marker is the last record.
CleanInv ==
    /\ phase \in Compacting => \A i \in Slot : i < cursor => flash[active][i] # Blank
    /\ phase = "erase" /\ tailClean =>
          cursor > 0 /\ flash[active][cursor - 1] = Marker(maxSeq)
    /\ phase \in MarkPhases \ {"mark"} => tailClean
    /\ phase \in WritePhases \cup MarkPhases => maxSeq > 0

WholeInv == SeqInv /\ StoreInv /\ AckInv /\ CleanInv

\* Flash that lost records and gained none.
Shrinks == \A s \in Sector, i \in Slot : flash'[s][i] = flash[s][i] \/ flash'[s][i] \in {Blank, Torn}

-----------------------------------------------------------------------------
(* One sequence number, one write. *)

\* A record has a sequence number in range; neither a blank nor a torn word is one.
LEMMA RecordFacts ==
    /\ \A c \in Cells : c.kind \in {"value", "marker"} => c.seq \in SeqRange
    /\ Blank.kind = "blank" /\ Torn.kind = "torn"
    /\ \A q : Marker(q).kind = "marker" /\ Marker(q).seq = q
    /\ \A b, v, q, k : /\ Rec(b, v, q, k).kind = "value" /\ Rec(b, v, q, k).id = b
                       /\ Rec(b, v, q, k).val = v /\ Rec(b, v, q, k).seq = q
                       /\ Rec(b, v, q, k).part = k
  BY DEF Cells, Blank, Torn, Marker, Rec, Markers, Records

\* Whatever an erase does, an unchanged flash too, is such a loss.
LEMMA UnchangedShrinks == UNCHANGED flash => Shrinks
  BY DEF Shrinks

\* An erase of the inactive sector is such a loss, and leaves the active one alone.
LEMMA EraseShrinks ==
    ASSUME TypeOK, NEW f \in [Slot -> Cells],
           flash' = [flash EXCEPT ![1 - active] = f],
           \A i \in Slot : f[i] = flash[1 - active][i] \/ f[i] \in {Blank, Torn}
    PROVE  Shrinks /\ \A i \in Slot : flash'[active][i] = flash[active][i]
  BY DEF Shrinks, TypeOK, Sector

\* What a half-done, and a finished, erase leaves.
LEMMA HalfErasedIs ==
    ASSUME TypeOK, NEW hit, NEW left \in {Blank, Torn}
    PROVE  /\ HalfErased(1 - active, hit, left) \in [Slot -> Cells]
           /\ \A i \in Slot : \/ HalfErased(1 - active, hit, left)[i] = flash[1 - active][i]
                              \/ HalfErased(1 - active, hit, left)[i] \in {Blank, Torn}
  BY CellFacts DEF HalfErased, TypeOK, Sector

LEMMA AllErasedIs ==
    ASSUME TypeOK
    PROVE  /\ [i \in Slot |-> Blank] \in [Slot -> Cells]
           /\ \A i \in Slot : [j \in Slot |-> Blank][i] \in {Blank, Torn}
  BY CellFacts

\* A record that is still there was there.
LEMMA StillThere ==
    ASSUME Shrinks, NEW s \in Sector, NEW i \in Slot, flash'[s][i].kind \in {"value", "marker"}
    PROVE  flash'[s][i] = flash[s][i]
  BY RecordFacts DEF Shrinks

\* SeqInv outlives any loss while no write is open.
LEMMA SeqQuiet ==
    ASSUME SeqInv, Shrinks, phase' \notin WritePhases \cup MarkPhases,
           mounted' => mounted /\ maxSeq' = maxSeq
    PROVE  SeqInv'
  <1>1. ASSUME NEW s \in Sector, NEW i \in Slot, IsValid(s, i)'
        PROVE  flash'[s][i] = flash[s][i] /\ IsValid(s, i)
    BY <1>1, StillThere DEF IsValid
  <1>2. SeqNamesOneWrite'
    <2> SUFFICES ASSUME NEW s \in Sector, NEW t \in Sector, NEW i \in Slot, NEW k \in Slot,
                        IsValid(s, i)', IsValid(t, k)', flash'[s][i].seq = flash'[t][k].seq
                 PROVE  \/ s = t /\ i = k
                        \/ /\ s = t
                           /\ flash'[s][i].kind = "value" /\ flash'[t][k].kind = "value"
                           /\ flash'[s][i].id = flash'[t][k].id
                           /\ flash'[s][i].part - flash'[t][k].part = i - k
      BY DEF SeqNamesOneWrite
    <2> QED BY <1>1 DEF SeqInv, SeqNamesOneWrite
  <1>3. ASSUME mounted', NEW s \in Sector, NEW i \in Slot, IsValid(s, i)'
        PROVE  flash'[s][i].seq <= maxSeq'
    BY <1>1, <1>3 DEF SeqInv
  <1> QED BY <1>2, <1>3 DEF SeqInv

\* What one program puts on flash under the open call's sequence number.
LEMMA ProgrammedSeq ==
    ASSUME JournalInv, SeqInv, phase \in WritePhases \cup MarkPhases,
           NEW out, Program(NextRecord, out)
    PROVE  /\ mounted /\ cursor \in Slot /\ active \in Sector /\ maxSeq \in SeqRange
           /\ \A s \in Sector, i \in Slot : IsValid(s, i)' =>
                \/ flash'[s][i] = flash[s][i] /\ IsValid(s, i)
                \/ s = active /\ i = cursor /\ flash'[s][i] = NextRecord
           /\ NextRecord.seq = maxSeq /\ NextRecord.kind \in {"value", "marker"}
           /\ phase \in WritePhases <=> NextRecord.kind = "value"
  <1> USE DEF JournalInv
  <1>1. mounted /\ cursor \in Slot /\ active \in Sector /\ maxSeq \in SeqRange
    BY NextRecordFacts DEF CallShape, WritePhases, MarkPhases, TypeOK
  <1>2. flash'[active][cursor] \in {NextRecord, flash[active][cursor], Torn}
    BY <1>1 DEF Program, AfterProgram, TypeOK
  <1>3. flash[active][cursor] = Blank
    BY NextRecordFacts
  <1>4. ASSUME NEW s \in Sector, NEW i \in Slot, IsValid(s, i)'
        PROVE  \/ flash'[s][i] = flash[s][i] /\ IsValid(s, i)
               \/ s = active /\ i = cursor /\ flash'[s][i] = NextRecord
    <2>1. CASE s = active /\ i = cursor
      BY <1>2, <1>3, <1>4, <2>1, RecordFacts DEF IsValid
    <2>2. CASE ~(s = active /\ i = cursor)
      BY <1>4, <2>2, ProgramFacts DEF IsValid
    <2> QED BY <2>1, <2>2
  <1>5. phase \in MarkPhases => NextRecord = Marker(maxSeq)
    BY DEF NextRecord, MarkPhases
  <1>6. phase \in WritePhases => NextRecord.kind = "value" /\ NextRecord.seq = maxSeq
    BY NextRecordFacts, RecordFacts DEF WritePhases
  <1>7. phase \in WritePhases => phase \notin MarkPhases
    BY DEF WritePhases, MarkPhases
  <1> QED BY <1>1, <1>4, <1>5, <1>6, <1>7, RecordFacts

\* What a program leaves: at most the open number, and that only in the open write.
LEMMA SeqProgram ==
    ASSUME JournalInv, SeqInv, phase \in WritePhases \cup MarkPhases,
           NEW out, Program(NextRecord, out)
    PROVE  /\ SeqNamesOneWrite'
           /\ \A s \in Sector, i \in Slot : IsValid(s, i)' => flash'[s][i].seq <= maxSeq
           /\ \A s \in Sector, i \in Slot : IsValid(s, i)' /\ flash'[s][i].seq = maxSeq =>
                \/ s = active /\ i = cursor
                \/ phase \in WritePhases /\ s = active /\ cursor - part <= i /\ i < cursor
  <1> DEFINE Grown(s, i) == \/ flash'[s][i] = flash[s][i] /\ IsValid(s, i)
                            \/ s = active /\ i = cursor /\ flash'[s][i] = NextRecord
             Ours == IF phase = "append" THEN job.id ELSE cur
             Alike(c, d, i, k) == /\ c.kind = "value" /\ d.kind = "value" /\ c.id = d.id
                                  /\ c.part - d.part = i - k
  <1>1. /\ mounted /\ cursor \in Slot /\ active \in Sector /\ maxSeq \in SeqRange
        /\ \A s \in Sector, i \in Slot : IsValid(s, i)' => Grown(s, i)
        /\ NextRecord.seq = maxSeq
    BY ProgrammedSeq
  <1>2. ASSUME NEW s \in Sector, NEW i \in Slot, IsValid(s, i)'
        PROVE  flash'[s][i].seq <= maxSeq
    <2>1. Grown(s, i)
      BY <1>1, <1>2
    <2>2. CASE flash'[s][i] = flash[s][i] /\ IsValid(s, i)
      BY <1>1, <2>2 DEF SeqInv
    <2>3. CASE flash'[s][i] = NextRecord
      BY <1>1, <2>3 DEF SeqRange
    <2> QED BY <2>1, <2>2, <2>3
  <1>3. ASSUME NEW s \in Sector, NEW i \in Slot, IsValid(s, i)', flash'[s][i].seq = maxSeq
        PROVE  \/ s = active /\ i = cursor
               \/ phase \in WritePhases /\ s = active /\ cursor - part <= i /\ i < cursor
    <2>1. Grown(s, i)
      BY <1>1, <1>3
    <2> QED BY <1>3, <2>1 DEF SeqInv
  <1>4. ASSUME NEW s \in Sector, NEW i \in Slot, IsValid(s, i), flash[s][i].seq = maxSeq
        PROVE  /\ s = active /\ phase \in WritePhases
               /\ Alike(NextRecord, flash[s][i], cursor, i)
               /\ Alike(flash[s][i], NextRecord, i, cursor)
    <2>1. phase \in WritePhases /\ s = active /\ cursor - part <= i /\ i < cursor
      BY <1>4 DEF SeqInv
    <2>2. part \in Nat /\ part <= cursor
      BY <2>1 DEF JournalInv, TypeOK, WriteShape
    <2>3. PICK k \in 0 .. part - 1 : k = i - (cursor - part)
      BY <1>1, <2>1, <2>2 DEF Slot
    <2>4. flash[active][cursor - part + k] = Rec(Ours, Writing, maxSeq, k)
      BY <2>1, <2>3 DEF JournalInv, WriteShape
    <2>5. cursor - part + k = i
      BY <1>1, <2>2, <2>3 DEF Slot
    <2>6. flash[s][i] = Rec(Ours, Writing, maxSeq, k)
      BY <2>1, <2>4, <2>5
    <2>7. NextRecord = Rec(Ours, Writing, maxSeq, part)
      BY <2>1, NextRecordFacts DEF WritePhases
    <2>8. part - k = cursor - i /\ k - part = i - cursor
      BY <1>1, <2>2, <2>3 DEF Slot
    <2> QED BY <2>1, <2>6, <2>7, <2>8, RecordFacts
  <1>5. SeqNamesOneWrite'
    <2> SUFFICES ASSUME NEW s \in Sector, NEW t \in Sector, NEW i \in Slot, NEW k \in Slot,
                        IsValid(s, i)', IsValid(t, k)', flash'[s][i].seq = flash'[t][k].seq
                 PROVE  \/ s = t /\ i = k
                        \/ s = t /\ Alike(flash'[s][i], flash'[t][k], i, k)
      BY DEF SeqNamesOneWrite
    <2>1. Grown(s, i) /\ Grown(t, k)
      BY <1>1
    <2>2. CASE /\ flash'[s][i] = flash[s][i] /\ IsValid(s, i)
               /\ flash'[t][k] = flash[t][k] /\ IsValid(t, k)
      BY <2>2 DEF SeqInv, SeqNamesOneWrite
    <2>3. CASE s = active /\ i = cursor /\ t = active /\ k = cursor
      BY <2>3
    <2>4. CASE /\ flash'[s][i] = flash[s][i] /\ IsValid(s, i)
               /\ t = active /\ k = cursor /\ flash'[t][k] = NextRecord
      <3>1. flash[s][i].seq = maxSeq
        BY <1>1, <2>4
      <3> QED BY <1>4, <2>4, <3>1
    <2>5. CASE /\ s = active /\ i = cursor /\ flash'[s][i] = NextRecord
               /\ flash'[t][k] = flash[t][k] /\ IsValid(t, k)
      <3>1. flash[t][k].seq = maxSeq
        BY <1>1, <2>5
      <3> QED BY <1>4, <2>5, <3>1
    <2> QED BY <2>1, <2>2, <2>3, <2>4, <2>5
  <1> QED BY <1>2, <1>3, <1>5

\* A program that ends its call, or its block, keeps SeqInv.
LEMMA SeqProgrammed ==
    ASSUME JournalInv, SeqInv, phase \in WritePhases \cup MarkPhases,
           NEW out, Program(NextRecord, out),
           phase' \notin WritePhases \cup MarkPhases, mounted' => maxSeq' = maxSeq
    PROVE  SeqInv'
  <1>1. /\ SeqNamesOneWrite'
        /\ \A s \in Sector, i \in Slot : IsValid(s, i)' => flash'[s][i].seq <= maxSeq
    BY SeqProgram
  <1> QED BY <1>1 DEF SeqInv

\* So does a part that is not the last.
LEMMA SeqPart ==
    ASSUME JournalInv, SeqInv, PartWritten
    PROVE  SeqInv'
  <1> USE DEF PartWritten
  <1>1. /\ SeqNamesOneWrite'
        /\ \A s \in Sector, i \in Slot : IsValid(s, i)' => flash'[s][i].seq <= maxSeq
        /\ \A s \in Sector, i \in Slot : IsValid(s, i)' /\ flash'[s][i].seq = maxSeq =>
                \/ s = active /\ i = cursor
                \/ phase \in WritePhases /\ s = active /\ cursor - part <= i /\ i < cursor
    BY SeqProgram
  <1>2. part \in Nat /\ part <= cursor /\ cursor \in Nat
    BY DEF JournalInv, TypeOK, WriteShape
  <1>3. cursor' - part' = cursor - part /\ cursor - part <= cursor /\ cursor < cursor'
    BY <1>2
  <1>4. ASSUME NEW s \in Sector, NEW i \in Slot, IsValid(s, i)', flash'[s][i].seq = maxSeq'
        PROVE  phase' \in WritePhases /\ s = active' /\ cursor' - part' <= i /\ i < cursor'
    <2>1. CASE s = active /\ i = cursor
      BY <1>2, <1>3, <2>1
    <2>2. CASE s = active /\ cursor - part <= i /\ i < cursor
      BY <1>2, <1>3, <2>2 DEF Slot
    <2> QED BY <1>1, <1>4, <2>1, <2>2
  <1> QED BY <1>1, <1>4 DEF SeqInv

\* A fresh number is newer than everything on flash.
LEMMA SeqOpens ==
    ASSUME JournalInv, SeqInv, UNCHANGED <<flash, mounted>>, mounted, maxSeq' = maxSeq + 1
    PROVE  SeqInv'
  <1>1. maxSeq \in Nat
    BY DEF JournalInv, TypeOK, SeqRange
  <1>2. ASSUME NEW s \in Sector, NEW i \in Slot, IsValid(s, i)
        PROVE  flash[s][i].seq \in Nat /\ flash[s][i].seq <= maxSeq
    BY <1>2, RecordFacts DEF SeqInv, IsValid, JournalInv, TypeOK, SeqRange
  <1>3. \A s \in Sector, i \in Slot : IsValid(s, i)' = IsValid(s, i)
    BY DEF IsValid
  <1>4. SeqNamesOneWrite'
    BY <1>3 DEF SeqInv, SeqNamesOneWrite
  <1>5. ASSUME NEW s \in Sector, NEW i \in Slot, IsValid(s, i)'
        PROVE  flash'[s][i].seq <= maxSeq' /\ flash'[s][i].seq # maxSeq'
    BY <1>1, <1>2, <1>3, <1>5
  <1> QED BY <1>4, <1>5 DEF SeqInv

\* max_seq after mount is the highest on flash.
LEMMA MountedSeq ==
    ASSUME TypeOK, NEW s \in Sector, NEW i \in Slot, IsValid(s, i)
    PROVE  flash[s][i].seq <= MaxSeqOnFlash
  <1> USE JournalAssumption
  <1> DEFINE T == {0} \cup {flash[p[1]][p[2]].seq :
                              p \in {q \in Sector \X Slot : IsValid(q[1], q[2])}}
  <1>1. T \subseteq SeqRange
    BY RecordFacts DEF TypeOK, IsValid, SeqRange
  <1>2. T \subseteq Nat /\ T # {} /\ \A y \in T : y <= SeqCeiling + 1
    BY <1>1 DEF SeqRange
  <1>3. \A y \in T : y <= Max(T)
    <2> HIDE DEF T
    <2>1. SeqCeiling + 1 \in Nat
      OBVIOUS
    <2> QED BY <1>2, <2>1, MaxIsGreatest
  <1>4. flash[s][i].seq \in T
    <2>1. <<s, i>> \in {q \in Sector \X Slot : IsValid(q[1], q[2])}
      OBVIOUS
    <2>2. flash[<<s, i>>[1]][<<s, i>>[2]].seq \in T
      BY <2>1
    <2> QED BY <2>2
  <1> QED BY <1>3, <1>4 DEF MaxSeqOnFlash

\* A mount takes over the newest number it finds.
LEMMA SeqMount ==
    ASSUME JournalInv, SeqInv, Mount
    PROVE  SeqInv'
  <1> USE DEF Mount, JournalInv
  <1>1. phase' \notin WritePhases \cup MarkPhases
    BY DEF CallShape, WritePhases, MarkPhases
  <1>2. \A s \in Sector, i \in Slot : IsValid(s, i)' = IsValid(s, i)
    BY DEF IsValid
  <1>3. SeqNamesOneWrite'
    BY <1>2 DEF SeqInv, SeqNamesOneWrite
  <1>4. \A s \in Sector, i \in Slot : IsValid(s, i)' => flash'[s][i].seq <= maxSeq'
    BY <1>2, MountedSeq
  <1> QED BY <1>1, <1>3, <1>4 DEF SeqInv

\* What an erase, whole or half, does to flash.
LEMMA EraseFlash ==
    ASSUME JournalInv, phase = "erase",
           \/ flash' = [flash EXCEPT ![1 - active] = [i \in Slot |-> Blank]]
           \/ \E hit \in SUBSET Slot, left \in {Blank, Torn} :
                flash' = [flash EXCEPT ![1 - active] = HalfErased(1 - active, hit, left)]
    PROVE  Shrinks /\ \A i \in Slot : flash'[active][i] = flash[active][i]
  <1> USE DEF JournalInv
  <1>1. CASE flash' = [flash EXCEPT ![1 - active] = [i \in Slot |-> Blank]]
    BY <1>1, AllErasedIs, EraseShrinks
  <1>2. ASSUME NEW hit \in SUBSET Slot, NEW left \in {Blank, Torn},
               flash' = [flash EXCEPT ![1 - active] = HalfErased(1 - active, hit, left)]
        PROVE  Shrinks /\ \A i \in Slot : flash'[active][i] = flash[active][i]
    <2> DEFINE f == HalfErased(1 - active, hit, left)
    <2>1. /\ f \in [Slot -> Cells]
          /\ \A i \in Slot : f[i] = flash[1 - active][i] \/ f[i] \in {Blank, Torn}
      BY HalfErasedIs
    <2> HIDE DEF f
    <2>2. flash' = [flash EXCEPT ![1 - active] = f]
      BY <1>2 DEF f
    <2> QED BY <2>1, <2>2, EraseShrinks
  <1> QED BY <1>1, <1>2

\* The steps that program nothing and take no sequence number.
Quiet ==
    \/ \E b \in Ids, v \in Values : PutBegin(b, v)
    \/ MarkBegin \/ CompactBegin \/ ErasePendingBegin
    \/ SpaceCompact \/ SpaceRefused \/ EmitRefused \/ RehomeDone \/ CopyDone

\* They leave the flash and all that is told about it.
LEMMA QuietFacts ==
    ASSUME JournalInv, Quiet
    PROVE  /\ UNCHANGED <<flash, mounted, maxSeq, tailClean, poolOverflow, inDoubt, past, tail>>
           /\ mounted
           /\ phase' \notin WritePhases \cup MarkPhases
  <1> USE DEF history, WritePhases, MarkPhases, Compacting
  <1>1. mounted
    BY DEF JournalInv, CallShape, Quiet, Open, PutBegin, MarkBegin, CompactBegin, ErasePendingBegin,
           SpaceCompact, SpaceRefused, EmitRefused, RehomeDone, CopyDone
  <1>2. CASE \/ \E b \in Ids, v \in Values : PutBegin(b, v)
             \/ MarkBegin \/ CompactBegin \/ ErasePendingBegin
    BY <1>1, <1>2 DEF Open, PutBegin, MarkBegin, CompactBegin, ErasePendingBegin, StartCopy, StartRehome
  <1>3. CASE SpaceCompact \/ SpaceRefused \/ EmitRefused \/ RehomeDone \/ CopyDone
    BY <1>1, <1>3 DEF SpaceCompact, SpaceRefused, EmitRefused, RehomeDone, CopyDone,
       StartCopy, Finish, GiveUp, Commit
  <1> QED BY <1>2, <1>3 DEF Quiet

\* The steps that take the next sequence number.
Opens == SpaceFound \/ (\E b \in Ids : EmitNext(b)) \/ EmitMarker

\* They take the next sequence number and program nothing yet.
LEMMA OpensFacts ==
    ASSUME JournalInv, Opens
    PROVE  /\ UNCHANGED <<flash, mounted, table, poolOverflow, tail>>
           /\ mounted /\ maxSeq' = maxSeq + 1
  BY DEF JournalInv, CallShape, Opens, SpaceFound, EmitNext, EmitMarker, history

\* The steps that program the last record of a call, or of one of its blocks.
Lands == \/ PutWritten \/ RehomeWritten \/ CopyWritten
         \/ MarkWritten \/ RehomeMarked \/ CopyMarked

\* They program one record, and their write is over.
LEMMA LandsFacts ==
    ASSUME JournalInv, Lands
    PROVE  /\ UNCHANGED <<mounted, maxSeq, poolOverflow, past>> /\ mounted
           /\ Program(NextRecord, "ok")
           /\ phase \in WritePhases \cup MarkPhases /\ phase' \notin WritePhases \cup MarkPhases
  <1> USE DEF WritePhases, MarkPhases, JournalInv, CallShape
  <1>1. CASE PutWritten \/ MarkWritten \/ CopyMarked
    BY <1>1 DEF PutWritten, MarkWritten, CopyMarked, Finish, Commit
  <1>2. CASE RehomeWritten \/ CopyWritten \/ RehomeMarked
    BY <1>2 DEF RehomeWritten, CopyWritten, RehomeMarked
  <1> QED BY <1>1, <1>2 DEF Lands

\* A power cut leaves the RAM empty and the flash as one of three operations leaves it.
LEMMA PowerFacts ==
    ASSUME JournalInv, PowerCut
    PROVE  /\ ~mounted' /\ mounted /\ phase' = "idle" /\ \A b \in Ids : ~table'[b].present
           /\ UNCHANGED <<inDoubt, past>>
           /\ \/ UNCHANGED <<flash, tail>>
              \/ /\ phase \in WritePhases \cup MarkPhases
                 /\ \E out \in {"ok", "torn"} :
                      /\ Program(NextRecord, out)
                      /\ Witness(AfterProgram(flash[active][cursor], NextRecord, out))
              \/ /\ phase = "erase"
                 /\ Shrinks /\ (\A i \in Slot : flash'[active][i] = flash[active][i])
                 /\ UNCHANGED tail
  <1> USE DEF PowerCut
  <1>1. /\ ~mounted' /\ mounted /\ phase' = "idle" /\ \A b \in Ids : ~table'[b].present
        /\ UNCHANGED <<inDoubt, past>>
    BY DEF Halted, Finish, Absent
  <1>2. CASE UNCHANGED <<flash, tail>>
    BY <1>1, <1>2
  <1>3. CASE /\ phase \in WritePhases \cup MarkPhases
             /\ \E out \in {"ok", "torn"} :
                  /\ Program(NextRecord, out)
                  /\ Witness(AfterProgram(flash[active][cursor], NextRecord, out))
    BY <1>1, <1>3
  <1>4. CASE /\ phase = "erase"
             /\ \E hit \in SUBSET Slot, left \in {Blank, Torn} :
                  flash' = [flash EXCEPT ![1 - active] = HalfErased(1 - active, hit, left)]
             /\ UNCHANGED tail
    BY <1>1, <1>4, EraseFlash
  <1> QED BY <1>2, <1>3, <1>4

Wipes == EraseDone \/ \E hit \in SUBSET Slot, left \in {Blank, Torn} : EraseFails(hit, left)

\* They lose records of the inactive sector only.
LEMMA WipesFacts ==
    ASSUME JournalInv, Wipes
    PROVE  /\ UNCHANGED <<mounted, table, maxSeq, tailClean, poolOverflow, inDoubt, past, tail>>
           /\ mounted /\ phase = "erase" /\ phase' \notin WritePhases \cup MarkPhases
           /\ Shrinks /\ \A i \in Slot : flash'[active][i] = flash[active][i]
  <1> USE DEF JournalInv, CallShape, WritePhases, MarkPhases, history
  <1>1. CASE EraseDone
    BY <1>1, EraseFlash DEF EraseDone, StartCopy, Finish
  <1>2. ASSUME NEW hit \in SUBSET Slot, NEW left \in {Blank, Torn}, EraseFails(hit, left)
        PROVE  /\ UNCHANGED <<mounted, table, maxSeq, tailClean, poolOverflow, inDoubt, past, tail>>
               /\ mounted /\ phase = "erase" /\ phase' \notin WritePhases \cup MarkPhases
               /\ Shrinks /\ \A i \in Slot : flash'[active][i] = flash[active][i]
    BY <1>2, EraseFlash DEF EraseFails, Finish
  <1> QED BY <1>1, <1>2 DEF Wipes

\* A program that fails ends its call.
LEMMA FailsFacts ==
    ASSUME JournalInv, NEW out \in Failures, ProgramFails(out)
    PROVE  /\ UNCHANGED <<mounted, table, maxSeq, tailClean, poolOverflow, inDoubt, past>> /\ mounted
           /\ Program(NextRecord, out)
           /\ Witness(AfterProgram(flash[active][cursor], NextRecord, out))
           /\ phase \in WritePhases \cup MarkPhases /\ phase' = "idle"
  BY DEF JournalInv, CallShape, WritePhases, MarkPhases, ProgramFails, GiveUp, Finish

\* Every step is of one of these kinds.
LEMMA NextKinds ==
    Next => \/ Mount \/ PowerCut \/ Quiet \/ Opens \/ PartWritten \/ Lands \/ Wipes
            \/ \E keep \in Schemas : Prune(keep)
            \/ \E out \in Failures : ProgramFails(out)
  BY DEF Next, Quiet, Opens, Lands, Wipes

\* Every step keeps SeqInv.
LEMMA SeqStep ==
    ASSUME JournalInv, SeqInv, Next
    PROVE  SeqInv'
  <1>1. CASE Mount
    BY <1>1, SeqMount
  <1>2. CASE PowerCut
    <2>1. ~mounted' /\ phase' \notin WritePhases \cup MarkPhases
      BY <1>2, PowerFacts DEF WritePhases, MarkPhases
    <2>2. CASE UNCHANGED flash \/ Shrinks
      BY <2>1, <2>2, UnchangedShrinks, SeqQuiet
    <2>3. ASSUME phase \in WritePhases \cup MarkPhases, NEW out, Program(NextRecord, out)
          PROVE  SeqInv'
      BY <2>1, <2>3, SeqProgrammed
    <2> QED BY <1>2, <2>2, <2>3, PowerFacts
  <1>3. CASE Quiet
    BY <1>3, QuietFacts, UnchangedShrinks, SeqQuiet
  <1>4. CASE Opens
    BY <1>4, OpensFacts, SeqOpens
  <1>5. CASE PartWritten
    BY <1>5, SeqPart
  <1>6. CASE Lands
    BY <1>6, LandsFacts, SeqProgrammed
  <1>7. CASE Wipes
    BY <1>7, WipesFacts, SeqQuiet
  <1>8. ASSUME NEW keep \in Schemas, Prune(keep)
        PROVE  SeqInv'
    BY <1>8, UnchangedShrinks, SeqQuiet DEF Prune, WritePhases, MarkPhases
  <1>9. ASSUME NEW out \in Failures, ProgramFails(out)
        PROVE  SeqInv'
    <2>1. /\ Program(NextRecord, out) /\ phase \in WritePhases \cup MarkPhases
          /\ phase' = "idle" /\ maxSeq' = maxSeq
      BY <1>9, FailsFacts
    <2> QED BY <2>1, SeqProgrammed DEF WritePhases, MarkPhases
  <1> QED BY <1>1, <1>2, <1>3, <1>4, <1>5, <1>6, <1>7, <1>8, <1>9, NextKinds

LEMMA SeqStutters ==
    ASSUME SeqInv, UNCHANGED vars
    PROVE  SeqInv'
  <1>1. \A s \in Sector, i \in Slot : IsValid(s, i)' = IsValid(s, i)
    BY DEF vars, IsValid
  <1> QED BY <1>1 DEF vars, place, history, SeqInv, SeqNamesOneWrite

LEMMA SeqStarts == Init => SeqInv
  <1>1. ASSUME Init, NEW s \in Sector, NEW i \in Slot
        PROVE  ~IsValid(s, i)
    BY <1>1, RecordFacts DEF Init, IsValid
  <1> QED BY <1>1 DEF Init, SeqInv, SeqNamesOneWrite, WritePhases, MarkPhases

-----------------------------------------------------------------------------
(* What the flash may serve, and what was promised.                        *)

\* The first record of a whole value.
LEMMA FirstRecord ==
    ASSUME NEW s, NEW o \in Nat, NEW b, NEW v \in Values, NEW q, ValueAt(s, o, b, v, q)
    PROVE  o \in Slot /\ flash[s][o] = Rec(b, v, q, 0)
  <1> USE JournalAssumption
  <1>1. 0 \in 0 .. Parts[v] - 1 /\ o + 0 = o
    OBVIOUS
  <1> QED BY <1>1 DEF ValueAt

\* An erase makes no value.
LEMMA ShrunkValue ==
    ASSUME Shrinks, NEW s \in Sector, NEW o, NEW b, NEW v \in Values, NEW q, ValueAt(s, o, b, v, q)'
    PROVE  ValueAt(s, o, b, v, q)
  <1> SUFFICES ASSUME NEW k \in 0 .. Parts[v] - 1
               PROVE  o + k \in Slot /\ flash[s][o + k] = Rec(b, v, q, k)
    BY DEF ValueAt
  <1>1. o + k \in Slot /\ flash'[s][o + k] = Rec(b, v, q, k)
    BY DEF ValueAt
  <1> QED BY <1>1, StillThere, RecordFacts

\* A record says what it is.
LEMMA SameRecord ==
    ASSUME NEW b, NEW v, NEW q, NEW k, NEW c, NEW w, NEW r, NEW l, Rec(b, v, q, k) = Rec(c, w, r, l)
    PROVE  b = c /\ v = w /\ q = r /\ k = l
  <1>1. /\ Rec(b, v, q, k).id = b /\ Rec(b, v, q, k).val = v /\ Rec(b, v, q, k).seq = q
        /\ Rec(b, v, q, k).part = k
    BY RecordFacts
  <1>2. /\ Rec(c, w, r, l).id = c /\ Rec(c, w, r, l).val = w /\ Rec(c, w, r, l).seq = r
        /\ Rec(c, w, r, l).part = l
    BY RecordFacts
  <1> QED BY <1>1, <1>2

\* The block the open call writes for.
Ours == IF phase = "append" THEN job.id ELSE cur

\* The record a write programs is a part of the value it is about.
LEMMA OursWritten ==
    ASSUME JournalInv, phase \in WritePhases
    PROVE  NextRecord = Rec(Ours, Writing, maxSeq, part) /\ Ours \in Ids /\ Writing \in Values
  <1>1. CASE phase = "append"
    BY <1>1, NextRecordFacts DEF Ours
  <1>2. CASE phase # "append"
    <2>1. phase \in WritePhases \ {"append"}
      BY <1>2
    <2>2. /\ cur \in Present /\ NextRecord = Rec(cur, Writing, maxSeq, part)
          /\ Writing \in Values
      BY <2>1, NextRecordFacts
    <2> QED BY <1>2, <2>2 DEF Ours, Present
  <1> QED BY <1>1, <1>2

\* A program makes no value but the open call's.
LEMMA ProgrammedValue ==
    ASSUME JournalInv, SeqInv, phase \in WritePhases \cup MarkPhases,
           NEW out, Program(NextRecord, out),
           NEW s \in Sector, NEW o, NEW b, NEW v \in Values, NEW q, ValueAt(s, o, b, v, q)'
    PROVE  \/ ValueAt(s, o, b, v, q)
           \/ phase \in WritePhases /\ b = Ours /\ v = Writing /\ q = maxSeq
  <1>1. CASE \A k \in 0 .. Parts[v] - 1 : ~(s = active /\ o + k = cursor)
    <2> SUFFICES ASSUME NEW k \in 0 .. Parts[v] - 1
                 PROVE  o + k \in Slot /\ flash[s][o + k] = Rec(b, v, q, k)
      BY DEF ValueAt
    <2>1. o + k \in Slot /\ flash'[s][o + k] = Rec(b, v, q, k)
      BY DEF ValueAt
    <2> QED BY <1>1, <2>1, ProgramFacts
  <1>2. ASSUME NEW k \in 0 .. Parts[v] - 1, s = active, o + k = cursor
        PROVE  phase \in WritePhases /\ b = Ours /\ v = Writing /\ q = maxSeq
    <2>1. o + k \in Slot /\ flash'[s][o + k] = Rec(b, v, q, k)
      BY DEF ValueAt
    <2>2. IsValid(s, o + k)'
      BY <2>1, RecordFacts DEF IsValid
    <2>3. flash[active][cursor] = Blank
      BY NextRecordFacts
    <2>4. ~IsValid(active, cursor)
      BY <2>3, RecordFacts DEF IsValid
    <2>5. NextRecord = Rec(b, v, q, k)
      BY <1>2, <2>1, <2>2, <2>4, ProgrammedSeq
    <2>6. phase \in WritePhases
      BY <2>5, ProgrammedSeq, RecordFacts
    <2>7. NextRecord = Rec(Ours, Writing, maxSeq, part)
      BY <2>6, OursWritten
    <2>8. Rec(b, v, q, k) = Rec(Ours, Writing, maxSeq, part)
      BY <2>5, <2>7
    <2>9. b = Ours /\ v = Writing /\ q = maxSeq
      BY <2>8, SameRecord
    <2> QED BY <2>6, <2>9
  <1> QED BY <1>1, <1>2

\* and keeps every one there is.
LEMMA ProgramKeepsValue ==
    ASSUME JournalInv, phase \in WritePhases \cup MarkPhases, NEW out, Program(NextRecord, out),
           NEW s \in Sector, NEW o \in Slot, NEW b \in Ids, NEW v \in Values, NEW q \in SeqRange,
           ValueAt(s, o, b, v, q)
    PROVE  ValueAt(s, o, b, v, q)'
  <1>1. o \in 0 .. Slots
    BY JournalAssumption DEF Slot
  <1>2. \A k \in 0 .. Parts[v] - 1 : o + k \in Slot /\ flash'[s][o + k] = Rec(b, v, q, k)
    BY <1>1, ProgramFacts
  <1> QED BY <1>2 DEF ValueAt

\* A row is a whole value.
LEMMA RowWhole ==
    ASSUME JournalInv, NEW b \in Ids, table[b].present
    PROVE  /\ table[b].val \in Values /\ table[b].sector \in Sector /\ table[b].off \in Slot
           /\ table[b].seq \in SeqRange
           /\ ValueAt(table[b].sector, table[b].off, b, table[b].val, table[b].seq)
           /\ Whole(b, table[b].seq)
  <1>1. /\ table[b].val \in Values /\ table[b].sector \in Sector /\ table[b].off \in Slot
        /\ table[b].seq \in SeqRange
    BY RowFacts DEF JournalInv, TypeOK
  <1>2. ValueAt(table[b].sector, table[b].off, b, table[b].val, table[b].seq)
    BY DEF JournalInv, RefsValid
  <1> QED BY <1>1, <1>2 DEF Whole

\* A value is doubted from a later number on if from an earlier one.
LEMMA DoubtedLater ==
    ASSUME NEW b, NEW m \in Nat, NEW n \in Nat, m <= n, DoubtedFrom(b, m)
    PROVE  DoubtedFrom(b, n)
  <1> SUFFICES ASSUME NEW s \in Sector, NEW o \in Slot, NEW v \in Values, NEW q \in SeqRange,
                      n <= q /\ ValueAt(s, o, b, v, q)
               PROVE  v \in inDoubt[b]
    BY DEF DoubtedFrom
  <1>1. m <= q
    BY JournalAssumption DEF SeqRange
  <1> QED BY <1>1 DEF DoubtedFrom

\* What is served is in doubt, and was put.
LEMMA ServedDoubted ==
    ASSUME JournalInv, StoreInv, NEW b \in Ids, table[b].present
    PROVE  table[b].val \in inDoubt[b] /\ table[b].val \in past[b]
  <1>1. mounted
    BY DEF JournalInv, CallShape
  <1>2. DoubtedFrom(b, table[b].seq)
    BY <1>1 DEF StoreInv, Settled
  <1>3. /\ table[b].val \in Values /\ table[b].sector \in Sector /\ table[b].off \in Slot
        /\ table[b].seq \in SeqRange
        /\ ValueAt(table[b].sector, table[b].off, b, table[b].val, table[b].seq)
    BY RowWhole
  <1>4. table[b].seq <= table[b].seq /\ table[b].off \in Nat
    BY <1>3, JournalAssumption DEF SeqRange, Slot
  <1>5. flash[table[b].sector][table[b].off] = Rec(b, table[b].val, table[b].seq, 0)
    BY <1>3, <1>4, FirstRecord
  <1> QED BY <1>2, <1>3, <1>4, <1>5, RecordFacts DEF DoubtedFrom, StoreInv, Attempted

\* The value being written may come back, and was put.
LEMMA WritingDoubted ==
    ASSUME JournalInv, StoreInv, phase \in WritePhases
    PROVE  Writing \in inDoubt[Ours] /\ Writing \in past[Ours]
  <1>1. CASE phase = "append"
    BY <1>1, NextRecordFacts DEF StoreInv, Asked, Ours, WritePhases
  <1>2. CASE phase \in WritePhases \ {"append"}
    <2>1. cur \in Present /\ Writing = table[cur].val
      BY <1>2, NextRecordFacts
    <2> QED BY <1>2, <2>1, ServedDoubted DEF Present, Ours
  <1> QED BY <1>1, <1>2

\* Neither an erase nor a program takes a value out of doubt.
LEMMA DoubtShrunk ==
    ASSUME Shrinks, UNCHANGED inDoubt, NEW b, NEW n, DoubtedFrom(b, n)
    PROVE  DoubtedFrom(b, n)'
  BY ShrunkValue DEF DoubtedFrom

\* A program puts no value on flash that is not in doubt.
LEMMA DoubtProgrammed ==
    ASSUME JournalInv, SeqInv, StoreInv, phase \in WritePhases \cup MarkPhases,
           NEW out, Program(NextRecord, out),
           UNCHANGED inDoubt, NEW b, NEW n, DoubtedFrom(b, n)
    PROVE  DoubtedFrom(b, n)'
  <1> SUFFICES ASSUME NEW s \in Sector, NEW o \in Slot, NEW v \in Values, NEW q \in SeqRange,
                      n <= q /\ ValueAt(s, o, b, v, q)'
               PROVE  v \in inDoubt[b]
    BY DEF DoubtedFrom
  <1>1. CASE ValueAt(s, o, b, v, q)
    BY <1>1 DEF DoubtedFrom
  <1>2. CASE phase \in WritePhases /\ b = Ours /\ v = Writing /\ q = maxSeq
    BY <1>2, WritingDoubted
  <1> QED BY <1>1, <1>2, ProgrammedValue

\* A program leaves every whole value whole.
LEMMA WholeProgrammed ==
    ASSUME JournalInv, phase \in WritePhases \cup MarkPhases, NEW out, Program(NextRecord, out),
           NEW b \in Ids, NEW n \in SeqRange, Whole(b, n)
    PROVE  Whole(b, n)'
  <1>1. PICK s \in Sector, o \in Slot, v \in Values : ValueAt(s, o, b, v, n)
    BY DEF Whole
  <1>2. ValueAt(s, o, b, v, n)'
    BY <1>1, ProgramKeepsValue
  <1> QED BY <1>2 DEF Whole

\* Attempted outlives a loss, and a program.
LEMMA AttemptedShrunk ==
    ASSUME TypeOK, Attempted, Shrinks, UNCHANGED past
    PROVE  Attempted'
  BY StillThere DEF Attempted

LEMMA AttemptedProgrammed ==
    ASSUME JournalInv, SeqInv, StoreInv, phase \in WritePhases \cup MarkPhases,
           NEW out, Program(NextRecord, out), UNCHANGED past
    PROVE  Attempted'
  <1> SUFFICES ASSUME NEW s \in Sector, NEW i \in Slot, flash'[s][i].kind = "value"
               PROVE  flash'[s][i].val \in past[flash'[s][i].id]
    BY DEF Attempted
  <1>1. IsValid(s, i)'
    BY DEF IsValid
  <1>2. CASE flash'[s][i] = flash[s][i]
    BY <1>2 DEF StoreInv, Attempted
  <1>3. CASE flash'[s][i] = NextRecord
    <2>1. phase \in WritePhases
      BY <1>3, ProgrammedSeq
    <2>2. NextRecord = Rec(Ours, Writing, maxSeq, part)
      BY <2>1, OursWritten
    <2> QED BY <1>3, <2>1, <2>2, WritingDoubted, RecordFacts
  <1> QED BY <1>1, <1>2, <1>3, ProgrammedSeq

\* The parts of StoreInv that only control decides.
LEMMA NoneHiddenStep ==
    ASSUME JournalInv, NoneHidden, Next
    PROVE  NoneHidden'
  <1> USE DEF NoneHidden, WritePhases, MarkPhases, Compacting
  <1>1. CASE Mount \/ PowerCut \/ \E keep \in Schemas : Prune(keep)
    BY <1>1 DEF Mount, PowerCut, Halted, Finish, Prune, JournalInv, CallShape
  <1>2. CASE \/ \E b \in Ids, v \in Values : PutBegin(b, v)
             \/ MarkBegin \/ CompactBegin \/ ErasePendingBegin
    BY <1>2 DEF Open, PutBegin, MarkBegin, CompactBegin, ErasePendingBegin, StartCopy, StartRehome,
       CompactAdmitted
  <1>3. CASE SpaceCompact \/ SpaceRefused \/ EmitRefused \/ RehomeDone \/ CopyDone
    BY <1>3 DEF SpaceCompact, SpaceRefused, EmitRefused, RehomeDone, CopyDone,
       StartCopy, Finish, GiveUp, Commit, CompactAdmitted
  <1>4. CASE Opens
    BY <1>4 DEF Opens, SpaceFound, EmitNext, EmitMarker
  <1>5. CASE PartWritten
    BY <1>5 DEF PartWritten
  <1>6. CASE Lands
    BY <1>6 DEF Lands, PutWritten, RehomeWritten, CopyWritten, MarkWritten, RehomeMarked, CopyMarked,
       Finish, Commit
  <1>7. CASE Wipes
    BY <1>7 DEF Wipes, EraseDone, EraseFails, StartCopy, Finish
  <1>8. ASSUME NEW out \in Failures, ProgramFails(out) PROVE NoneHidden'
    BY <1>8 DEF ProgramFails, GiveUp, Finish
  <1> QED BY <1>1, <1>2, <1>3, <1>4, <1>5, <1>6, <1>7, <1>8, NextKinds DEF Quiet

\* Every step keeps Asked.
LEMMA AskedStep ==
    ASSUME JournalInv, Asked, Next
    PROVE  Asked'
  <1> USE DEF Asked, WritePhases, MarkPhases, Compacting
  <1>1. CASE Mount \/ PowerCut \/ \E keep \in Schemas : Prune(keep)
    BY <1>1 DEF Mount, PowerCut, Halted, Finish, Prune, JournalInv, CallShape
  <1>2. CASE Quiet
    BY <1>2, QuietFacts
  <1>3. CASE SpaceFound
    BY <1>3 DEF SpaceFound, JournalInv, TypeOK, CallShape
  <1>4. CASE (\E b \in Ids : EmitNext(b)) \/ EmitMarker
    BY <1>4 DEF EmitNext, EmitMarker
  <1>5. CASE PartWritten
    BY <1>5 DEF PartWritten
  <1>6. CASE Lands
    BY <1>6, LandsFacts
  <1>7. CASE Wipes
    BY <1>7, WipesFacts
  <1>8. ASSUME NEW out \in Failures, ProgramFails(out) PROVE Asked'
    BY <1>8, FailsFacts
  <1> QED BY <1>1, <1>2, <1>3, <1>4, <1>5, <1>6, <1>7, <1>8, NextKinds DEF Opens

\* A copy takes a number after every number on flash.
LEMMA RowsBehind ==
    ASSUME JournalInv, SeqInv, NEW b \in Ids, table[b].present
    PROVE  table[b].seq <= maxSeq
  <1>1. /\ table[b].val \in Values /\ table[b].sector \in Sector /\ table[b].off \in Slot
        /\ ValueAt(table[b].sector, table[b].off, b, table[b].val, table[b].seq)
    BY RowWhole
  <1>2. table[b].off \in Nat /\ mounted
    BY <1>1, JournalAssumption DEF Slot, JournalInv, CallShape
  <1>3. flash[table[b].sector][table[b].off] = Rec(b, table[b].val, table[b].seq, 0)
    BY <1>1, <1>2, FirstRecord
  <1> QED BY <1>1, <1>2, <1>3, RecordFacts DEF SeqInv, IsValid

\* Every step keeps Newer: a copy is made under a fresh number.
LEMMA NewerStep ==
    ASSUME JournalInv, SeqInv, Newer, Next
    PROVE  Newer'
  <1> USE DEF Newer, WritePhases, MarkPhases, Compacting, Present
  <1>1. CASE Mount \/ PowerCut \/ \E keep \in Schemas : Prune(keep)
    BY <1>1 DEF Mount, PowerCut, Halted, Finish, Prune, JournalInv, CallShape
  <1>2. CASE \/ \E b \in Ids, v \in Values : PutBegin(b, v)
             \/ MarkBegin \/ CompactBegin \/ ErasePendingBegin
    BY <1>2 DEF Open, PutBegin, MarkBegin, CompactBegin, ErasePendingBegin, StartCopy, StartRehome
  <1>3. CASE SpaceCompact \/ SpaceRefused \/ EmitRefused \/ RehomeDone \/ CopyDone
    BY <1>3 DEF SpaceCompact, SpaceRefused, EmitRefused, RehomeDone, CopyDone,
       StartCopy, Finish, GiveUp, Commit
  <1>4. CASE Opens
    BY <1>4 DEF Opens, SpaceFound, EmitNext, EmitMarker
  <1>5. CASE PartWritten
    BY <1>5 DEF PartWritten
  <1>6. CASE PutWritten \/ RehomeWritten \/ MarkWritten \/ RehomeMarked \/ CopyMarked
    BY <1>6 DEF PutWritten, RehomeWritten, MarkWritten, RehomeMarked, CopyMarked, Finish, Commit
  <1>7. CASE CopyWritten
    <2>1. cur \in Ids /\ moved \in [Ids -> [off : 0 .. Slots, seq : SeqRange]]
          /\ moved' = [moved EXCEPT ![cur] = [off |-> cursor - part, seq |-> maxSeq]]
          /\ phase = "copyWrite" /\ todo' = todo \ {cur} /\ table' = table
      BY <1>7 DEF CopyWritten, JournalInv, CallShape, TypeOK, Moves
    <2>2. moved'[cur].seq = maxSeq
      BY <2>1
    <2>3. \A b \in Ids \ {cur} : moved'[b] = moved[b]
      BY <2>1
    <2>4. ASSUME NEW b \in Present', b \notin todo' PROVE table'[b].seq <= moved'[b].seq
      <3>1. b \in Ids /\ b \in Present /\ table[b].present
        BY <2>1, <2>4
      <3>2. CASE b = cur
        BY <2>1, <2>2, <3>1, <3>2, RowsBehind
      <3>3. CASE b # cur
        BY <2>1, <2>3, <2>4, <3>1, <3>3
      <3> QED BY <3>2, <3>3
    <2> QED BY <2>4
  <1>8. CASE Wipes
    BY <1>8 DEF Wipes, EraseDone, EraseFails, StartCopy, Finish
  <1>9. ASSUME NEW out \in Failures, ProgramFails(out) PROVE Newer'
    BY <1>9 DEF ProgramFails, GiveUp, Finish
  <1> QED BY <1>1, <1>2, <1>3, <1>4, <1>5, <1>6, <1>7, <1>8, <1>9, NextKinds DEF Quiet, Lands

\* Every step keeps Attempted.
LEMMA AttemptedStep ==
    ASSUME JournalInv, SeqInv, StoreInv, Next
    PROVE  Attempted'
  <1> USE DEF JournalInv, StoreInv
  <1>1. CASE UNCHANGED <<flash, past>>
    BY <1>1 DEF Attempted
  <1>2. CASE PowerCut
    <2>1. CASE Shrinks
      BY <1>2, <2>1, PowerFacts, AttemptedShrunk
    <2>2. ASSUME phase \in WritePhases \cup MarkPhases, NEW out, Program(NextRecord, out)
          PROVE  Attempted'
      BY <1>2, <2>2, PowerFacts, AttemptedProgrammed
    <2> QED BY <1>2, <2>1, <2>2, PowerFacts, UnchangedShrinks
  <1>3. CASE Quiet
    BY <1>1, <1>3, QuietFacts
  <1>4. CASE SpaceFound
    <2>1. \A b \in Ids : past[b] \subseteq past'[b]
      BY <1>4 DEF SpaceFound, TypeOK, CallShape
    <2>2. ASSUME NEW s \in Sector, NEW i \in Slot, flash[s][i].kind = "value"
          PROVE  flash[s][i].id \in Ids
      BY <2>2, ValueCell DEF TypeOK
    <2> QED BY <1>4, <2>1, <2>2 DEF Attempted, SpaceFound
  <1>5. CASE (\E b \in Ids : EmitNext(b)) \/ EmitMarker
    BY <1>1, <1>5 DEF EmitNext, EmitMarker, history
  <1>6. CASE PartWritten
    <2>1. phase \in WritePhases \cup MarkPhases /\ Program(NextRecord, "ok") /\ UNCHANGED past
      BY <1>6 DEF PartWritten
    <2> QED BY <2>1, AttemptedProgrammed
  <1>7. CASE Lands
    BY <1>7, LandsFacts, AttemptedProgrammed
  <1>8. CASE Wipes
    BY <1>8, WipesFacts, AttemptedShrunk
  <1>9. ASSUME NEW out \in Failures, ProgramFails(out) PROVE Attempted'
    BY <1>9, FailsFacts, AttemptedProgrammed
  <1>10. CASE Mount \/ \E keep \in Schemas : Prune(keep)
    BY <1>1, <1>10 DEF Mount, Prune
  <1> QED BY <1>2, <1>3, <1>4, <1>5, <1>6, <1>7, <1>8, <1>9, <1>10, NextKinds DEF Opens

\* A step that leaves every row, or moves it to a newer copy, and takes nothing out of
\* doubt leaves every block settled.
LEMMA SettledKept ==
    ASSUME \A b \in Ids : Settled(b),
           mounted, mounted', poolOverflow' = poolOverflow,
           \A b \in Ids : inDoubt[b] \subseteq inDoubt'[b],
           \A b \in Ids, n \in Nat : DoubtedFrom(b, n) => DoubtedFrom(b, n)',
           poolOverflow => \A b \in Ids, n \in SeqRange : Whole(b, n) => Whole(b, n)',
           \A b \in Ids : /\ table'[b].present = table[b].present
                          /\ table[b].present => /\ table[b].seq \in Nat /\ table'[b].seq \in Nat
                                                 /\ table[b].seq <= table'[b].seq
    PROVE  \A b \in Ids : Settled(b)'
  <1> SUFFICES ASSUME NEW b \in Ids PROVE Settled(b)'
    OBVIOUS
  <1>1. CASE table[b].present
    <2>1. DoubtedFrom(b, table[b].seq)
      BY <1>1 DEF Settled
    <2>2. PICK n \in Nat : n = table'[b].seq /\ table[b].seq \in Nat /\ table[b].seq <= n
      BY <1>1
    <2>3. DoubtedFrom(b, n)
      BY <2>1, <2>2, DoubtedLater
    <2>4. DoubtedFrom(b, n)'
      BY <2>2, <2>3
    <2> QED BY <1>1, <2>2, <2>4 DEF Settled
  <1>2. CASE ~table[b].present
    <2>1. 0 \in Nat
      OBVIOUS
    <2>2. Loose(b) => Loose(b)'
      BY <2>1 DEF Loose
    <2>3. poolOverflow /\ Held(b) => Held(b)'
      BY JournalAssumption DEF Held, SeqRange
    <2>4. Loose(b) \/ (poolOverflow /\ Held(b))
      BY <1>2 DEF Settled
    <2> QED BY <1>2, <2>2, <2>3, <2>4 DEF Settled
  <1> QED BY <1>1, <1>2

\* A row's number, before and after a step.
LEMMA RowSeq ==
    ASSUME JournalInv, JournalInv', NEW b \in Ids
    PROVE  /\ table[b].present => table[b].seq \in Nat
           /\ table'[b].present => table'[b].seq \in Nat
  <1>1. table[b] \in Entry \cup {Absent} /\ table'[b] \in Entry \cup {Absent}
    BY DEF JournalInv, TypeOK
  <1> QED BY <1>1, RowFacts, JournalAssumption DEF SeqRange

\* The same, when the rows do not move.
LEMMA SettledSame ==
    ASSUME JournalInv, \A b \in Ids : Settled(b), mounted, mounted', poolOverflow' = poolOverflow,
           table' = table,
           \A b \in Ids : inDoubt[b] \subseteq inDoubt'[b],
           \A b \in Ids, n \in Nat : DoubtedFrom(b, n) => DoubtedFrom(b, n)',
           poolOverflow => \A b \in Ids, n \in SeqRange : Whole(b, n) => Whole(b, n)'
    PROVE  \A b \in Ids : Settled(b)'
  <1>1. \A b \in Ids : /\ table'[b].present = table[b].present
                       /\ table[b].present => /\ table[b].seq \in Nat /\ table'[b].seq \in Nat
                                              /\ table[b].seq <= table'[b].seq
    BY RowFacts, JournalAssumption DEF JournalInv, TypeOK, SeqRange
  <1> QED BY <1>1, SettledKept

\* A row of the compaction's commit.
LEMMA CommitNewer ==
    ASSUME JournalInv, JournalInv', Newer, Commit, phase \in Compacting, todo = {}, NEW b \in Ids
    PROVE  /\ table'[b].present = table[b].present
           /\ table[b].present => /\ table[b].seq \in Nat /\ table'[b].seq \in Nat
                                  /\ table[b].seq <= table'[b].seq
  <1>1. table'[b] = IF b \in Present
                      THEN [table[b] EXCEPT !.sector = active, !.seq = moved[b].seq, !.off = moved[b].off]
                      ELSE table[b]
    BY DEF Commit
  <1>2. CASE b \in Present
    <2>1. table[b] \in Entry
      BY <1>2, RowFacts DEF Present, JournalInv, TypeOK
    <2>2. table'[b].present = table[b].present /\ table'[b].seq = moved[b].seq
      BY <1>1, <1>2, <2>1 DEF Entry
    <2> QED BY <1>2, <2>2, RowSeq DEF Newer, Present
  <1>3. CASE b \notin Present
    BY <1>1, <1>3 DEF Present
  <1> QED BY <1>2, <1>3

\* No block is unsettled by a step that programs and erases nothing ...
LEMMA SettledQuiet ==
    ASSUME JournalInv, JournalInv', StoreInv, Quiet
    PROVE  \A b \in Ids : Settled(b)'
  <1>1. UNCHANGED <<flash, mounted, poolOverflow, inDoubt>> /\ mounted
    BY QuietFacts
  <1>2. /\ \A b \in Ids, n \in Nat : DoubtedFrom(b, n) => DoubtedFrom(b, n)'
        /\ \A b \in Ids, n \in SeqRange : Whole(b, n) => Whole(b, n)'
        /\ \A b \in Ids : inDoubt[b] \subseteq inDoubt'[b]
    BY <1>1 DEF DoubtedFrom, Whole, ValueAt
  <1>3. CASE CopyDone
    <2>1. Commit /\ phase \in Compacting /\ todo = {}
      BY <1>3 DEF CopyDone, Compacting
    <2>2. \A b \in Ids : /\ table'[b].present = table[b].present
                         /\ table[b].present => /\ table[b].seq \in Nat /\ table'[b].seq \in Nat
                                                /\ table[b].seq <= table'[b].seq
      BY <2>1, CommitNewer DEF StoreInv
    <2> QED BY <1>1, <1>2, <2>2, SettledKept DEF StoreInv
  <1>4. CASE ~CopyDone
    <2>1. table' = table
      BY <1>4 DEF Quiet, Open, PutBegin, MarkBegin, CompactBegin, ErasePendingBegin,
         SpaceCompact, SpaceRefused, EmitRefused, RehomeDone, StartCopy, StartRehome
    <2> QED BY <1>1, <1>2, <2>1, SettledSame DEF StoreInv
  <1> QED BY <1>3, <1>4

\* ... by one that takes a sequence number, whose put only widens the doubt ...
LEMMA SettledOpens ==
    ASSUME JournalInv, StoreInv, Opens
    PROVE  \A b \in Ids : Settled(b)'
  <1>1. UNCHANGED <<flash, mounted, table, poolOverflow>> /\ mounted
    BY OpensFacts
  <1>2. \A b \in Ids : inDoubt[b] \subseteq inDoubt'[b]
    BY DEF Opens, SpaceFound, EmitNext, EmitMarker, history, JournalInv, TypeOK, CallShape
  <1>3. /\ \A b \in Ids, n \in Nat : DoubtedFrom(b, n) => DoubtedFrom(b, n)'
        /\ \A b \in Ids, n \in SeqRange : Whole(b, n) => Whole(b, n)'
    BY <1>1, <1>2 DEF DoubtedFrom, Whole, ValueAt
  <1> QED BY <1>1, <1>2, <1>3, SettledSame DEF StoreInv

\* A program that settles no put.
LEMMA SettledProgrammed ==
    ASSUME JournalInv, JournalInv', SeqInv, StoreInv, phase \in WritePhases \cup MarkPhases,
           NEW out, Program(NextRecord, out), UNCHANGED <<mounted, poolOverflow, inDoubt>>, mounted,
           \A b \in Ids : /\ table'[b].present = table[b].present
                          /\ table[b].present => table[b].seq <= table'[b].seq
    PROVE  \A b \in Ids : Settled(b)'
  <1>1. /\ \A b \in Ids, n \in Nat : DoubtedFrom(b, n) => DoubtedFrom(b, n)'
        /\ \A b \in Ids, n \in SeqRange : Whole(b, n) => Whole(b, n)'
    BY DoubtProgrammed, WholeProgrammed
  <1>2. \A b \in Ids : inDoubt[b] \subseteq inDoubt'[b]
    OBVIOUS
  <1>3. \A b \in Ids : /\ table'[b].present = table[b].present
                       /\ table[b].present => /\ table[b].seq \in Nat /\ table'[b].seq \in Nat
                                              /\ table[b].seq <= table'[b].seq
    BY RowSeq
  <1> QED BY <1>1, <1>2, <1>3, SettledKept DEF StoreInv

\* The row of a re-homed block.
LEMMA RehomedNewer ==
    ASSUME JournalInv, JournalInv', SeqInv, RehomeWritten, NEW b \in Ids
    PROVE  /\ table'[b].present = table[b].present
           /\ table[b].present => table[b].seq <= table'[b].seq
  <1>1. cur \in Present /\ cur \in Ids /\ table[cur] \in Entry
    BY RowFacts DEF JournalInv, CallShape, TypeOK, RehomeWritten, Present
  <1>2. table' = [table EXCEPT ![cur].sector = active, ![cur].seq = maxSeq, ![cur].off = cursor - part]
    BY DEF RehomeWritten
  <1>3. table \in [Ids -> Entry \cup {Absent}]
    BY DEF JournalInv, TypeOK
  <1>4. CASE b = cur
    <2>1. table'[b].present = table[b].present /\ table'[b].seq = maxSeq
      BY <1>1, <1>2, <1>3, <1>4 DEF Entry
    <2>2. table[b].present
      BY <1>1, <1>4 DEF Present
    <2> QED BY <2>1, <2>2, RowsBehind
  <1>5. CASE b # cur
    <2>1. table'[b] = table[b]
      BY <1>2, <1>3, <1>5
    <2> QED BY <2>1, RowSeq
  <1> QED BY <1>4, <1>5

\* An acknowledged put has the highest number: nothing else is in doubt any longer.
LEMMA SettledPut ==
    ASSUME JournalInv, JournalInv', SeqInv, StoreInv, PutWritten
    PROVE  \A b \in Ids : Settled(b)'
  <1> USE DEF PutWritten
  <1> SUFFICES ASSUME NEW b \in Ids PROVE Settled(b)'
    OBVIOUS
  <1>1. /\ phase \in WritePhases /\ Program(NextRecord, "ok") /\ Writing = job.val
        /\ job.id \in Ids /\ job.val \in Values /\ part + 1 = Parts[Writing]
        /\ mounted /\ UNCHANGED <<mounted, maxSeq, poolOverflow>>
    BY DEF Writing, WritePhases, JournalInv, CallShape
  <1>2. /\ inDoubt' = [inDoubt EXCEPT ![job.id] = {job.val}] /\ DOMAIN inDoubt = Ids
        /\ table' = [table EXCEPT ![job.id] =
                       [present |-> TRUE, val |-> job.val, sector |-> active,
                        off |-> cursor - part, seq |-> maxSeq]]
        /\ DOMAIN table = Ids
    BY DEF JournalInv, TypeOK
  <1> HIDE DEF PutWritten
  <1>3. CASE b = job.id
    <2>1. mounted' /\ table'[b].present /\ table'[b].seq = maxSeq /\ inDoubt'[b] = {job.val}
      BY <1>1, <1>2, <1>3
    <2>2. ASSUME NEW s \in Sector, NEW o \in Slot, NEW v \in Values, NEW q \in SeqRange,
                 maxSeq <= q, ValueAt(s, o, b, v, q)'
          PROVE  v = job.val
      <3>1. 0 \in 0 .. Parts[v] - 1 /\ o + 0 = o
        BY JournalAssumption DEF Slot
      <3>2. flash'[s][o] = Rec(b, v, q, 0)
        BY <2>2, <3>1 DEF ValueAt
      <3>3. IsValid(s, o)' /\ flash'[s][o].seq = q
        BY <3>2, RecordFacts DEF IsValid
      <3>4. q <= maxSeq
        BY <1>1, <3>3, SeqProgram
      <3>5. q = maxSeq
        BY <2>2, <3>4, JournalAssumption DEF JournalInv, TypeOK, SeqRange
      <3>6. s = active /\ (o = cursor \/ (cursor - part <= o /\ o < cursor))
        BY <1>1, <3>3, <3>5, SeqProgram
      <3>7. part \in Nat /\ cursor \in Nat /\ o \in Nat
        BY JournalAssumption DEF JournalInv, TypeOK, Slot
      <3>8. PICK k \in 0 .. Parts[Writing] - 1 : (cursor - part) + k = o
        <4>1. o - (cursor - part) \in 0 .. part /\ part = Parts[Writing] - 1
              /\ (cursor - part) + (o - (cursor - part)) = o
          BY <1>1, <3>6, <3>7, JournalAssumption
        <4> QED BY <4>1
      <3>9. flash'[active][(cursor - part) + k] =
              Rec(IF phase = "append" THEN job.id ELSE cur, Writing, maxSeq, k)
        BY <1>1, LastPart
      <3>10. flash'[s][o].val = Writing /\ flash'[s][o].val = v
        BY <3>2, <3>6, <3>8, <3>9, RecordFacts
      <3> QED BY <1>1, <3>10
    <2>3. DoubtedFrom(b, maxSeq)'
      BY <1>1, <2>1, <2>2 DEF DoubtedFrom
    <2> QED BY <1>1, <2>1, <2>3 DEF Settled
  <1>4. CASE b # job.id
    <2>1. inDoubt'[b] = inDoubt[b] /\ table'[b] = table[b]
      BY <1>2, <1>4
    <2>2. ASSUME NEW n, DoubtedFrom(b, n) PROVE DoubtedFrom(b, n)'
      <3> SUFFICES ASSUME NEW s \in Sector, NEW o \in Slot, NEW v \in Values, NEW q \in SeqRange,
                          n <= q /\ ValueAt(s, o, b, v, q)'
                   PROVE  v \in inDoubt[b]
        BY <2>1 DEF DoubtedFrom
      <3>1. ValueAt(s, o, b, v, q) \/ b = Ours
        BY <1>1, ProgrammedValue
      <3>2. b # Ours
        BY <1>4 DEF Ours, PutWritten
      <3> QED BY <2>2, <3>1, <3>2 DEF DoubtedFrom
    <2>3. \A n \in SeqRange : Whole(b, n) => Whole(b, n)'
      BY <1>1, WholeProgrammed
    <2>4. Loose(b) => Loose(b)'
      BY <2>1, <2>2 DEF Loose
    <2>5. Held(b) => Held(b)'
      BY <2>2, <2>3 DEF Held
    <2>6. Settled(b)
      BY DEF StoreInv
    <2>7. CASE table[b].present
      <3>1. DoubtedFrom(b, table[b].seq)
        BY <1>1, <2>6, <2>7 DEF Settled
      <3>2. PICK n : n = table[b].seq
        OBVIOUS
      <3>3. DoubtedFrom(b, n)'
        BY <2>2, <3>1, <3>2
      <3> QED BY <1>1, <2>1, <2>7, <3>2, <3>3 DEF Settled
    <2>8. CASE ~table[b].present
      BY <1>1, <2>1, <2>4, <2>5, <2>6, <2>8 DEF Settled
    <2> QED BY <2>7, <2>8
  <1> QED BY <1>3, <1>4

\* ... by a prune, which leaves a dropped block every value it ever had ...
LEMMA SettledPrune ==
    ASSUME JournalInv, StoreInv, NEW keep \in Schemas, Prune(keep)
    PROVE  \A b \in Ids : Settled(b)'
  <1> USE DEF Prune
  <1> SUFFICES ASSUME NEW b \in Ids PROVE Settled(b)'
    OBVIOUS
  <1>1. UNCHANGED flash /\ mounted /\ mounted'
    OBVIOUS
  <1>2. CASE b \in keep
    <2>1. table'[b] = table[b] /\ inDoubt'[b] = inDoubt[b]
      BY <1>2
    <2>2. \A n : DoubtedFrom(b, n) => DoubtedFrom(b, n)'
      BY <1>1, <2>1 DEF DoubtedFrom, ValueAt
    <2>3. Held(b) => Held(b)'
      BY <1>1, <2>2 DEF Held, Whole, ValueAt
    <2>4. Loose(b) => Loose(b)'
      BY <2>1, <2>2 DEF Loose
    <2>5. Settled(b)
      BY DEF StoreInv
    <2>6. CASE table[b].present
      <3>1. PICK n : n = table[b].seq
        OBVIOUS
      <3>2. DoubtedFrom(b, n)'
        BY <1>1, <2>2, <2>5, <2>6, <3>1 DEF Settled
      <3> QED BY <1>1, <2>1, <2>6, <3>1, <3>2 DEF Settled
    <2>7. CASE ~table[b].present
      <3>1. poolOverflow => poolOverflow'
        BY <1>2, <2>7 DEF Present
      <3> QED BY <1>1, <2>1, <2>3, <2>4, <2>5, <2>7, <3>1 DEF Settled
    <2> QED BY <2>6, <2>7
  <1>3. CASE b \notin keep
    <2>1. ~table'[b].present /\ inDoubt'[b] = past[b] \cup {NoValue}
      BY <1>3 DEF Absent
    <2>2. ASSUME NEW s \in Sector, NEW o \in Slot, NEW v \in Values, NEW q \in SeqRange,
                 ValueAt(s, o, b, v, q)
          PROVE  v \in past[b]
      <3>1. o \in Nat
        BY JournalAssumption DEF Slot
      <3>2. flash[s][o] = Rec(b, v, q, 0)
        BY <2>2, <3>1, FirstRecord
      <3> QED BY <3>2, RecordFacts DEF StoreInv, Attempted
    <2>3. DoubtedFrom(b, 0)'
      BY <1>1, <2>1, <2>2 DEF DoubtedFrom, ValueAt
    <2> QED BY <1>1, <2>1, <2>3 DEF Settled, Loose
  <1> QED BY <1>2, <1>3

\* What is served or hidden survives a loss of power.
LEMMA SettledPower ==
    ASSUME JournalInv, SeqInv, StoreInv, PowerCut
    PROVE  \A b \in Ids : Settled(b)'
  <1> SUFFICES ASSUME NEW b \in Ids PROVE Settled(b)'
    OBVIOUS
  <1>1. ~mounted' /\ mounted /\ UNCHANGED inDoubt
    BY PowerFacts
  <1>2. \A n : DoubtedFrom(b, n) => DoubtedFrom(b, n)'
    <2>1. CASE Shrinks
      BY <1>1, <2>1, DoubtShrunk
    <2>2. ASSUME phase \in WritePhases \cup MarkPhases, NEW out, Program(NextRecord, out)
          PROVE  \A n : DoubtedFrom(b, n) => DoubtedFrom(b, n)'
      BY <1>1, <2>2, DoubtProgrammed
    <2> QED BY <2>1, <2>2, PowerFacts, UnchangedShrinks
  <1>3. CASE Loose(b)
    BY <1>1, <1>2, <1>3 DEF Settled, Loose
  <1>4. CASE ~Loose(b)
    <2>1. PICK n \in SeqRange : Whole(b, n) /\ DoubtedFrom(b, n) /\ (~table[b].present => poolOverflow)
                                /\ (table[b].present => n = table[b].seq)
      <3>1. CASE table[b].present
        BY <1>1, <3>1, RowWhole DEF StoreInv, Settled
      <3>2. CASE ~table[b].present
        BY <1>1, <1>4, <3>2 DEF StoreInv, Settled, Held
      <3> QED BY <3>1, <3>2
    <2>2. Whole(b, n)'
      <3>1. CASE UNCHANGED flash
        BY <2>1, <3>1 DEF Whole, ValueAt
      <3>2. ASSUME phase \in WritePhases \cup MarkPhases, NEW out, Program(NextRecord, out)
            PROVE  Whole(b, n)'
        BY <2>1, <3>2, WholeProgrammed
      <3>3. CASE phase = "erase" /\ \A i \in Slot : flash'[active][i] = flash[active][i]
        <4>1. table[b].present
          BY <2>1, <3>3 DEF StoreInv, NoneHidden
        <4>2. /\ table[b].val \in Values /\ table[b].sector \in Sector /\ table[b].off \in Slot
              /\ ValueAt(table[b].sector, table[b].off, b, table[b].val, n)
          BY <2>1, <4>1, RowWhole
        <4>3. table[b].sector = active
          BY <3>3, <4>1, <4>2 DEF JournalInv, StraysSafe, StrayIds, Present, TypeOK, Sector
        <4>4. PICK s \in Sector, o \in Slot, v \in Values : ValueAt(s, o, b, v, n) /\ s = active
          BY <4>2, <4>3
        <4>5. ValueAt(s, o, b, v, n)'
          BY <3>3, <4>4 DEF ValueAt
        <4> QED BY <4>5 DEF Whole
      <3> QED BY <3>1, <3>2, <3>3, PowerFacts
    <2> QED BY <1>1, <1>2, <2>1, <2>2 DEF Settled, Held
  <1> QED BY <1>3, <1>4

\* A whole value is found by the scan.
LEMMA WholeFound ==
    ASSUME TypeOK, NEW s \in Sector, NEW o \in Slot, NEW b \in Ids, NEW v \in Values, NEW q \in SeqRange,
           ValueAt(s, o, b, v, q)
    PROVE  [present |-> TRUE, val |-> v, sector |-> s, off |-> o, seq |-> q] \in Found(b)
  <1>1. o \in Nat
    BY JournalAssumption DEF Slot
  <1>2. flash[s][o] = Rec(b, v, q, 0)
    BY <1>1, FirstRecord
  <1>3. /\ flash[s][o].kind = "value" /\ flash[s][o].part = 0 /\ flash[s][o].val = v
        /\ flash[s][o].seq = q /\ flash[s][o].id = b
    BY <1>2, RecordFacts
  <1>4. ASSUME NEW k \in 0 .. Parts[v] - 1
        PROVE  o + k \in Slot /\ flash[s][o + k] = [flash[s][o] EXCEPT !.part = k]
    <2>1. [Rec(b, v, q, 0) EXCEPT !.part = k] = Rec(b, v, q, k)
      BY DEF Rec
    <2> QED BY <1>2, <2>1 DEF ValueAt
  <1>5. Complete(s, o)
    BY <1>3, <1>4 DEF Complete
  <1>6. PICK p \in Sector \X Slot : p[1] = s /\ p[2] = o
    <2>1. <<s, o>> \in Sector \X Slot /\ <<s, o>>[1] = s /\ <<s, o>>[2] = o
      OBVIOUS
    <2> QED BY <2>1
  <1>7. p \in {r \in Sector \X Slot : Complete(r[1], r[2]) /\ flash[r[1]][r[2]].id = b}
    BY <1>3, <1>5, <1>6
  <1>8. [present |-> TRUE, val |-> flash[p[1]][p[2]].val, sector |-> p[1], off |-> p[2],
         seq |-> flash[p[1]][p[2]].seq] \in Found(b)
    BY <1>7 DEF Found
  <1> QED BY <1>3, <1>6, <1>8

\* What the scan takes for a block is what is in doubt, and the only value so new.
LEMMA NewestDoubted ==
    ASSUME JournalInv, SeqInv, NEW b \in OnFlash
    PROVE  /\ b \in Ids /\ Newest(b).seq \in SeqRange /\ Newest(b).val \in Values
           /\ Whole(b, Newest(b).seq)
           /\ Held(b) \/ Loose(b) => Newest(b).val \in inDoubt[b]
           /\ \A s \in Sector, o \in Slot, v \in Values, q \in SeqRange :
                ValueAt(s, o, b, v, q) => q <= Newest(b).seq
                                          /\ (q = Newest(b).seq => v = Newest(b).val)
  <1> USE DEF JournalInv
  <1> DEFINE e == Newest(b)
  <1>1. b \in Ids /\ Found(b) # {}
    BY DEF OnFlash
  <1>2. /\ e \in Found(b) /\ \A f \in Found(b) : f.seq <= e.seq
        /\ e \in Entry /\ ValueAt(e.sector, e.off, b, e.val, e.seq)
    BY <1>1, NewestFacts
  <1> HIDE DEF e
  <1>3. e.sector \in Sector /\ e.off \in Slot /\ e.val \in Values /\ e.seq \in SeqRange /\ e.off \in Nat
    BY <1>2, JournalAssumption DEF Entry, Slot
  <1>4. Whole(b, e.seq)
    BY <1>2, <1>3 DEF Whole
  <1>5. ASSUME NEW s \in Sector, NEW o \in Slot, NEW v \in Values, NEW q \in SeqRange,
               ValueAt(s, o, b, v, q)
        PROVE  q <= e.seq /\ (q = e.seq => v = e.val)
    <2>1. q <= e.seq
      <3>1. PICK f \in Found(b) : f.seq = q
        BY <1>1, <1>5, WholeFound
      <3> QED BY <1>2, <3>1
    <2>2. ASSUME q = e.seq PROVE v = e.val
      <3>1. o \in Nat
        BY JournalAssumption DEF Slot
      <3>2. flash[s][o] = Rec(b, v, q, 0)
        BY <1>5, <3>1, FirstRecord
      <3>3. flash[e.sector][e.off] = Rec(b, e.val, e.seq, 0)
        BY <1>2, <1>3, FirstRecord
      <3>4. /\ IsValid(s, o) /\ IsValid(e.sector, e.off)
            /\ flash[s][o].seq = flash[e.sector][e.off].seq
            /\ flash[s][o].part = 0 /\ flash[e.sector][e.off].part = 0
        BY <2>2, <3>2, <3>3, RecordFacts DEF IsValid
      <3>5. s = e.sector /\ (o = e.off \/ 0 - 0 = o - e.off)
        BY <1>3, <3>4 DEF SeqInv, SeqNamesOneWrite
      <3>6. o = e.off
        BY <1>3, <3>1, <3>5
      <3>7. Rec(b, v, q, 0) = Rec(b, e.val, e.seq, 0)
        BY <3>2, <3>3, <3>5, <3>6
      <3> QED BY <3>7, SameRecord
    <2> QED BY <2>1, <2>2
  <1>6. ASSUME Held(b) PROVE e.val \in inDoubt[b]
    <2>1. PICK n \in SeqRange : Whole(b, n) /\ DoubtedFrom(b, n)
      BY <1>6 DEF Held
    <2>2. PICK s \in Sector, o \in Slot, v \in Values : ValueAt(s, o, b, v, n)
      BY <2>1 DEF Whole
    <2>3. n <= e.seq
      BY <1>5, <2>2
    <2> QED BY <1>2, <1>3, <2>1, <2>3 DEF DoubtedFrom
  <1>7. ASSUME Loose(b) PROVE e.val \in inDoubt[b]
    <2>1. 0 <= e.seq
      BY <1>3, JournalAssumption DEF SeqRange
    <2> QED BY <1>2, <1>3, <1>7, <2>1 DEF DoubtedFrom, Loose
  <1> QED BY <1>1, <1>3, <1>4, <1>5, <1>6, <1>7 DEF e

\* A block the scan does not find has no whole value.
LEMMA NothingFound ==
    ASSUME TypeOK, NEW b \in Ids, b \notin OnFlash
    PROVE  \A s \in Sector, o \in Slot, v \in Values, q \in SeqRange : ~ValueAt(s, o, b, v, q)
  BY WholeFound DEF OnFlash

\* A mount settles each block on what it found.
LEMMA SettledMount ==
    ASSUME JournalInv, SeqInv, StoreInv, Mount
    PROVE  \A b \in Ids : Settled(b)'
  <1> USE DEF Mount
  <1> SUFFICES ASSUME NEW b \in Ids PROVE Settled(b)'
    OBVIOUS
  <1>1. mounted' /\ ~mounted /\ UNCHANGED flash
    OBVIOUS
  <1>2. Held(b) \/ Loose(b)
    BY <1>1 DEF StoreInv, Settled
  <1>3. CASE b \in Kept
    <2>1. b \in OnFlash
      BY <1>3 DEF Kept
    <2>2. table'[b] = Newest(b) /\ inDoubt'[b] = {Newest(b).val}
      BY <1>3
    <2>3. Newest(b) \in Entry
      BY <2>1, NewestFacts DEF OnFlash, JournalInv
    <2>4. PICK n : n = Newest(b).seq
      OBVIOUS
    <2>5. DoubtedFrom(b, n)'
      <3> SUFFICES ASSUME NEW s \in Sector, NEW o \in Slot, NEW v \in Values, NEW q \in SeqRange,
                          n <= q, ValueAt(s, o, b, v, q)'
                   PROVE  v \in inDoubt'[b]
        BY DEF DoubtedFrom
      <3>1. ValueAt(s, o, b, v, q)
        BY <1>1 DEF ValueAt
      <3>2. q <= n /\ (q = n => v = Newest(b).val) /\ n \in SeqRange
        BY <2>1, <2>4, <3>1, NewestDoubted
      <3>3. q = n
        BY <3>2, JournalAssumption DEF SeqRange
      <3> QED BY <2>2, <3>2, <3>3
    <2>6. table'[b].present /\ table'[b].seq = n
      BY <2>2, <2>3, <2>4 DEF Entry
    <2> QED BY <1>1, <2>5, <2>6 DEF Settled
  <1>4. CASE b \in OnFlash \ Kept
    <2>1. ~table'[b].present /\ inDoubt'[b] = inDoubt[b] /\ poolOverflow'
      BY <1>4 DEF Absent
    <2>2. \A n : DoubtedFrom(b, n) => DoubtedFrom(b, n)'
      BY <1>1, <2>1 DEF DoubtedFrom, ValueAt
    <2>3. PICK n \in SeqRange : Whole(b, n) /\ DoubtedFrom(b, n)
      <3>1. CASE Held(b)
        BY <3>1 DEF Held
      <3>2. CASE Loose(b)
        <4>1. PICK n \in SeqRange : n = Newest(b).seq /\ Whole(b, n)
          BY <1>4, NewestDoubted
        <4>2. n \in Nat /\ 0 <= n /\ 0 \in Nat
          BY JournalAssumption DEF SeqRange
        <4>3. DoubtedFrom(b, n)
          BY <3>2, <4>2, DoubtedLater DEF Loose
        <4> QED BY <4>1, <4>3
      <3> QED BY <1>2, <3>1, <3>2
    <2>4. Whole(b, n)'
      BY <1>1, <2>3 DEF Whole, ValueAt
    <2>5. Held(b)'
      BY <2>2, <2>3, <2>4 DEF Held
    <2> QED BY <1>1, <2>1, <2>5 DEF Settled
  <1>5. CASE b \notin OnFlash
    <2>1. ~table'[b].present /\ inDoubt'[b] = {NoValue}
      BY <1>5 DEF Absent, Kept
    <2>2. \A s \in Sector, o \in Slot, v \in Values, q \in SeqRange : ~ValueAt(s, o, b, v, q)
      BY <1>5, NothingFound DEF JournalInv
    <2>3. DoubtedFrom(b, 0)'
      BY <1>1, <2>2 DEF DoubtedFrom, ValueAt
    <2> QED BY <1>1, <2>1, <2>3 DEF Settled, Loose
  <1> QED BY <1>3, <1>4, <1>5

\* ... or by one that programs the last record of a value.
LEMMA SettledLands ==
    ASSUME JournalInv, JournalInv', SeqInv, StoreInv, Lands
    PROVE  \A b \in Ids : Settled(b)'
  <1>1. /\ UNCHANGED <<mounted, poolOverflow>> /\ mounted /\ phase \in WritePhases \cup MarkPhases
        /\ Program(NextRecord, "ok")
    BY LandsFacts
  <1>2. CASE PutWritten
    BY <1>2, SettledPut
  <1>3. CASE RehomeWritten
    <2>1. UNCHANGED inDoubt
      BY <1>3 DEF RehomeWritten
    <2> QED BY <1>1, <1>3, <2>1, RehomedNewer, SettledProgrammed
  <1>4. CASE CopyWritten \/ MarkWritten \/ RehomeMarked
    <2>1. UNCHANGED <<inDoubt, table>>
      BY <1>4 DEF CopyWritten, MarkWritten, RehomeMarked
    <2>2. \A b \in Ids : /\ table'[b].present = table[b].present
                         /\ table[b].present => table[b].seq <= table'[b].seq
      BY <2>1, RowSeq
    <2> QED BY <1>1, <2>1, <2>2, SettledProgrammed
  <1>5. CASE CopyMarked
    <2>1. UNCHANGED inDoubt /\ Commit /\ phase \in Compacting /\ todo = {}
      BY <1>5 DEF CopyMarked, Compacting, JournalInv, CallShape
    <2>2. \A b \in Ids : /\ table'[b].present = table[b].present
                         /\ table[b].present => table[b].seq <= table'[b].seq
      BY <2>1, CommitNewer DEF StoreInv
    <2> QED BY <1>1, <2>1, <2>2, SettledProgrammed
  <1> QED BY <1>2, <1>3, <1>4, <1>5 DEF Lands

\* Every step leaves every block settled.
LEMMA SettledStep ==
    ASSUME JournalInv, JournalInv', SeqInv, StoreInv, Next
    PROVE  \A b \in Ids : Settled(b)'
  <1>1. CASE Mount
    BY <1>1, SettledMount
  <1>2. CASE PowerCut
    BY <1>2, SettledPower
  <1>3. CASE Quiet
    BY <1>3, SettledQuiet
  <1>4. CASE Opens
    BY <1>4, SettledOpens
  <1>5. CASE Lands
    BY <1>5, SettledLands
  <1>6. CASE PartWritten
    <2>1. /\ UNCHANGED <<mounted, poolOverflow, inDoubt, table>> /\ mounted
          /\ phase \in WritePhases \cup MarkPhases /\ Program(NextRecord, "ok")
      BY <1>6 DEF PartWritten, JournalInv, CallShape, WritePhases
    <2>2. \A b \in Ids : /\ table'[b].present = table[b].present
                         /\ table[b].present => table[b].seq <= table'[b].seq
      BY <2>1, RowSeq
    <2> QED BY <2>1, <2>2, SettledProgrammed
  <1>7. CASE Wipes
    <2>1. /\ UNCHANGED <<mounted, table, poolOverflow, inDoubt>> /\ mounted /\ Shrinks /\ phase = "erase"
      BY <1>7, WipesFacts
    <2>2. ~poolOverflow
      BY <2>1 DEF StoreInv, NoneHidden
    <2>3. \A b \in Ids, n \in Nat : DoubtedFrom(b, n) => DoubtedFrom(b, n)'
      BY <2>1, DoubtShrunk
    <2>4. \A b \in Ids : inDoubt[b] \subseteq inDoubt'[b]
      BY <2>1
    <2> QED BY <2>1, <2>2, <2>3, <2>4, SettledSame DEF StoreInv
  <1>8. ASSUME NEW keep \in Schemas, Prune(keep) PROVE \A b \in Ids : Settled(b)'
    BY <1>8, SettledPrune
  <1>9. ASSUME NEW out \in Failures, ProgramFails(out) PROVE \A b \in Ids : Settled(b)'
    <2>1. /\ UNCHANGED <<mounted, poolOverflow, inDoubt, table>> /\ mounted
          /\ phase \in WritePhases \cup MarkPhases /\ Program(NextRecord, out)
      BY <1>9, FailsFacts
    <2>2. \A b \in Ids : /\ table'[b].present = table[b].present
                         /\ table[b].present => table[b].seq <= table'[b].seq
      BY <2>1, RowSeq
    <2> QED BY <2>1, <2>2, SettledProgrammed
  <1> QED BY <1>1, <1>2, <1>3, <1>4, <1>5, <1>6, <1>7, <1>8, <1>9, NextKinds

\* Every step keeps StoreInv.
LEMMA StoreStep ==
    ASSUME JournalInv, JournalInv', SeqInv, StoreInv, Next
    PROVE  StoreInv'
  <1>1. \A b \in Ids : Settled(b)'
    BY SettledStep
  <1>2. Attempted' /\ Asked' /\ Newer' /\ NoneHidden'
    BY AttemptedStep, AskedStep, NewerStep, NoneHiddenStep DEF StoreInv
  <1> QED BY <1>1, <1>2 DEF StoreInv

LEMMA StoreStutters ==
    ASSUME StoreInv, UNCHANGED vars
    PROVE  StoreInv'
  BY DEF vars, place, history, StoreInv, Settled, Held, Loose, DoubtedFrom, Whole, ValueAt,
         Attempted, Asked, Newer, NoneHidden, Present

LEMMA StoreStarts == Init => StoreInv
  <1> SUFFICES ASSUME Init PROVE StoreInv
    OBVIOUS
  <1>1. TypeOK
    BY InitInv DEF JournalInv
  <1>2. ASSUME NEW b \in Ids PROVE Settled(b)
    <2>1. \A s \in Sector, o \in Slot, v \in Values, q \in SeqRange : ~ValueAt(s, o, b, v, q)
      <3> SUFFICES ASSUME NEW s \in Sector, NEW o \in Slot, NEW v \in Values, NEW q \in SeqRange,
                          ValueAt(s, o, b, v, q)
                   PROVE  FALSE
        OBVIOUS
      <3>1. o \in Nat
        BY JournalAssumption DEF Slot
      <3>2. flash[s][o] = Rec(b, v, q, 0)
        BY <3>1, FirstRecord
      <3> QED BY <3>2, RecordFacts DEF Init
    <2> QED BY <2>1 DEF Init, Settled, Loose, DoubtedFrom
  <1>3. Attempted
    BY RecordFacts DEF Attempted, Init
  <1> QED BY <1>2, <1>3 DEF Init, StoreInv, Asked, Newer, NoneHidden, Compacting

-----------------------------------------------------------------------------
(* The store.                                                              *)

\* What a get() answers is what the row says.
Row(b) == IF table[b].present THEN table[b].val ELSE NoValue
Serving == [b \in Ids |-> Served(b)]
Rows == [b \in Ids |-> Row(b)]

\* A row is always served: its records are there, so a chain is read through.
LEMMA ServedIsRow ==
    ASSUME JournalInv, NEW b \in Ids
    PROVE  Served(b) = Row(b)
  <1> USE JournalAssumption
  <1>1. ~mounted => ~table[b].present
    BY DEF JournalInv, CallShape
  <1>2. CASE ~table[b].present
    BY <1>2 DEF Served, Row
  <1>3. CASE table[b].present
    <2>1. mounted
      BY <1>1, <1>3
    <2>2. /\ table[b].val \in Values /\ table[b].sector \in Sector /\ table[b].off \in Slot
          /\ ValueAt(table[b].sector, table[b].off, b, table[b].val, table[b].seq)
          /\ table[b].off \in Nat
      BY <1>3, RowWhole DEF Slot
    <2>3. RecordsOf(b) = Parts[table[b].val] /\ RecordsOf(b) \in Nat \ {0}
      BY <2>2 DEF RecordsOf
    <2>4. ASSUME NEW k \in 0 .. RecordsOf(b) - 1
          PROVE  SourceValid(b, k) /\ Source(b, k).val = table[b].val
      <3>1. table[b].off + k \in Slot /\ Source(b, k) = Rec(b, table[b].val, table[b].seq, k)
        BY <2>2, <2>3 DEF ValueAt, Source
      <3> QED BY <3>1, RecordFacts DEF SourceValid
    <2>5. 0 \in 0 .. RecordsOf(b) - 1
      BY <2>3
    <2>6. CASE RecordsOf(b) = 1
      BY <1>3, <2>1, <2>6 DEF Served, Row
    <2>7. CASE RecordsOf(b) # 1
      <3>1. Served(b) = Source(b, 0).val
        BY <1>3, <2>1, <2>4, <2>7 DEF Served
      <3> QED BY <1>3, <2>4, <2>5, <3>1 DEF Row
    <2> QED BY <2>6, <2>7
  <1> QED BY <1>2, <1>3

LEMMA ServingIsRows == JournalInv => Serving = Rows
  BY ServedIsRow DEF Serving, Rows

\* The same before and after a step.
LEMMA ServingBefore == JournalInv /\ JournalInv' => Serving = Rows /\ Serving' = Rows'
  <1>1. JournalInv' => (Serving = Rows)'
    BY ServingIsRows, PTL
  <1> QED BY <1>1, ServingIsRows

\* A step that changes no row's value, nothing that was put and nothing in doubt is none of the
\* store's.
LEMMA StoreRests ==
    ASSUME JournalInv, JournalInv', UNCHANGED <<mounted, poolOverflow, inDoubt, past>>,
           \A b \in Ids : Row(b)' = Row(b)
    PROVE  UNCHANGED Store!storeVars
  <1>1. Rows' = Rows
    BY DEF Rows
  <1>2. Serving' = Serving
    BY <1>1, ServingBefore
  <1> QED BY <1>2 DEF Store!storeVars, Serving

\* Steps that leave what a row serves: those that touch no row, a commit, a re-homing.
LEMMA RowSame ==
    ASSUME NEW b \in Ids, table'[b].present = table[b].present,
           table[b].present => table'[b].val = table[b].val
    PROVE  Row(b)' = Row(b)
  BY DEF Row

LEMMA CommitSame ==
    ASSUME JournalInv, Commit, NEW b \in Ids
    PROVE  Row(b)' = Row(b)
  <1>1. table'[b] = IF b \in Present
                      THEN [table[b] EXCEPT !.sector = active, !.seq = moved[b].seq, !.off = moved[b].off]
                      ELSE table[b]
    BY DEF Commit
  <1>2. b \in Present => table[b] \in Entry
    BY RowFacts DEF Present, JournalInv, TypeOK
  <1>3. table'[b].present = table[b].present /\ table'[b].val = table[b].val
    BY <1>1, <1>2 DEF Entry
  <1> QED BY <1>3, RowSame

LEMMA RehomeSame ==
    ASSUME JournalInv, RehomeWritten, NEW b \in Ids
    PROVE  Row(b)' = Row(b)
  <1>1. cur \in Ids /\ table[cur] \in Entry
    BY RowFacts DEF JournalInv, CallShape, TypeOK, RehomeWritten, Present
  <1>2. table' = [table EXCEPT ![cur].sector = active, ![cur].seq = maxSeq, ![cur].off = cursor - part]
    BY DEF RehomeWritten
  <1>3. table \in [Ids -> Entry \cup {Absent}]
    BY DEF JournalInv, TypeOK
  <1>4. table'[b].present = table[b].present /\ table'[b].val = table[b].val
    <2>1. CASE b = cur
      BY <1>1, <1>2, <1>3, <2>1 DEF Entry
    <2>2. CASE b # cur
      BY <1>2, <1>3, <2>2
    <2> QED BY <2>1, <2>2
  <1> QED BY <1>4, RowSame

\* The steps of the store: a put starts, ...
LEMMA AttemptIs ==
    ASSUME JournalInv, JournalInv', SpaceFound, job.op = "put"
    PROVE  job.id \in Ids /\ job.val \in Values /\ Store!Attempt(job.id, job.val)
  <1>1. /\ job.id \in Ids /\ job.val \in Values /\ mounted
        /\ UNCHANGED <<mounted, poolOverflow, table>>
        /\ inDoubt' = [inDoubt EXCEPT ![job.id] = @ \cup {job.val}]
        /\ past' = [past EXCEPT ![job.id] = @ \cup {job.val}]
    BY DEF SpaceFound, JournalInv, CallShape
  <1>2. Serving' = Serving
    <2>1. Rows' = Rows
      BY <1>1 DEF Rows, Row
    <2> QED BY <2>1, ServingBefore
  <1> QED BY <1>1, <1>2 DEF Store!Attempt, Serving

\* ... it is acknowledged, ...
LEMMA AcknowledgeIs ==
    ASSUME JournalInv, JournalInv', StoreInv, PutWritten
    PROVE  job.id \in Ids /\ job.val \in Values /\ Store!Acknowledge(job.id, job.val)
  <1>1. /\ job.id \in Ids /\ job.val \in Values /\ mounted
        /\ UNCHANGED <<mounted, poolOverflow, past>>
        /\ inDoubt' = [inDoubt EXCEPT ![job.id] = {job.val}]
        /\ table' = [table EXCEPT ![job.id] =
                       [present |-> TRUE, val |-> job.val, sector |-> active,
                        off |-> cursor - part, seq |-> maxSeq]]
        /\ DOMAIN table = Ids
    BY DEF PutWritten, JournalInv, CallShape, TypeOK
  <1>2. job.val \in inDoubt[job.id]
    BY DEF StoreInv, Asked, PutWritten
  <1>3. Serving' = [Serving EXCEPT ![job.id] = job.val]
    <2>1. Rows' = [Rows EXCEPT ![job.id] = job.val]
      <3>1. \A b \in Ids : Row(b)' = IF b = job.id THEN job.val ELSE Row(b)
        BY <1>1 DEF Row
      <3> QED BY <3>1 DEF Rows
    <2> QED BY <2>1, ServingBefore
  <1> QED BY <1>1, <1>2, <1>3 DEF Store!Acknowledge, Serving

\* ... power goes, ...
LEMMA PowerLossIs ==
    ASSUME JournalInv, JournalInv', PowerCut
    PROVE  Store!PowerLoss
  <1>1. ~mounted' /\ mounted' = FALSE /\ poolOverflow' = FALSE /\ UNCHANGED <<inDoubt, past>>
        /\ \A b \in Ids : ~table'[b].present
    BY PowerFacts DEF PowerCut, Halted
  <1>2. Serving' = [b \in Ids |-> NoValue]
    <2>1. Rows' = [b \in Ids |-> NoValue]
      BY <1>1 DEF Rows, Row
    <2> QED BY <2>1, ServingBefore
  <1> QED BY <1>1, <1>2 DEF Store!PowerLoss, Serving

\* ... a prune forgets blocks, ...
LEMMA ForgetIs ==
    ASSUME JournalInv, JournalInv', NEW keep \in Schemas, Prune(keep)
    PROVE  \E ids \in SUBSET Ids : Store!Forget(ids)
  <1> USE DEF Prune
  <1>1. PICK ids \in SUBSET Ids : \A b \in Ids : b \in ids <=> b \notin keep
    <2>1. Ids \ keep \in SUBSET Ids
      OBVIOUS
    <2> QED BY <2>1
  <1>2. Serving' = [b \in Ids |-> IF b \in ids THEN NoValue ELSE Serving[b]]
    <2>1. \A b \in Ids : Row(b)' = IF b \in ids THEN NoValue ELSE Row(b)
      BY <1>1 DEF Row, Absent
    <2>2. Rows' = [b \in Ids |-> IF b \in ids THEN NoValue ELSE Rows[b]]
      BY <2>1 DEF Rows
    <2> QED BY <2>2, ServingBefore
  <1>3. inDoubt' = [b \in Ids |-> IF b \in ids THEN past[b] \cup {NoValue} ELSE inDoubt[b]]
    BY <1>1
  <1>4. mounted /\ (poolOverflow' => poolOverflow) /\ UNCHANGED <<mounted, past>>
    OBVIOUS
  <1>5. Store!Forget(ids)
    BY <1>2, <1>3, <1>4 DEF Store!Forget, Serving
  <1> QED BY <1>5

\* ... a mount recovers the others.
LEMMA RecoverIs ==
    ASSUME JournalInv, JournalInv', SeqInv, StoreInv, Mount
    PROVE  Store!Recover
  <1> USE DEF Mount
  <1>1. ~mounted /\ mounted' = TRUE /\ UNCHANGED past /\ DOMAIN inDoubt' = Ids
    OBVIOUS
  <1>2. PICK hidden \in SUBSET Ids : hidden = OnFlash \ Kept
    <2>1. OnFlash \ Kept \in SUBSET Ids
      BY DEF OnFlash
    <2> QED BY <2>1
  <1>3. hidden # {} => poolOverflow'
    BY <1>2
  <1>4. ASSUME NEW b \in Ids
        PROVE  /\ b \in hidden => Row(b)' = NoValue /\ inDoubt'[b] = inDoubt[b]
               /\ b \notin hidden => Row(b)' \in inDoubt[b] /\ inDoubt'[b] = {Row(b)'}
               /\ Row(b)' \in Values \cup {NoValue}
    <2>1. Held(b) \/ Loose(b)
      BY DEF StoreInv, Settled
    <2>2. CASE b \in Kept
      <3>1. b \in OnFlash /\ b \notin hidden
        BY <1>2, <2>2 DEF Kept
      <3>2. Newest(b) \in Entry
        BY <3>1, NewestFacts DEF OnFlash, JournalInv
      <3>3. Row(b)' = Newest(b).val /\ inDoubt'[b] = {Newest(b).val}
        BY <2>2, <3>2 DEF Row, Entry
      <3>4. Newest(b).val \in inDoubt[b] /\ Newest(b).val \in Values
        BY <2>1, <3>1, NewestDoubted
      <3> QED BY <3>1, <3>3, <3>4
    <2>3. CASE b \in OnFlash \ Kept
      BY <1>2, <2>3 DEF Row, Absent
    <2>4. CASE b \notin OnFlash
      <3>1. Row(b)' = NoValue /\ inDoubt'[b] = {NoValue} /\ b \notin hidden
        BY <1>2, <2>4 DEF Row, Absent, Kept
      <3>2. ~Held(b)
        BY <2>4, NothingFound DEF Held, Whole, JournalInv
      <3> QED BY <2>1, <3>1, <3>2 DEF Loose
    <2> QED BY <2>2, <2>3, <2>4
  <1>5. Serving' = Rows'
    BY ServingBefore
  <1>6. \A b \in Ids : Rows'[b] = Row(b)'
    BY DEF Rows
  <1>7. /\ \A b \in hidden : Serving'[b] = NoValue /\ inDoubt'[b] = inDoubt[b]
        /\ \A b \in Ids \ hidden : Serving'[b] \in inDoubt[b] /\ inDoubt'[b] = {Serving'[b]}
    BY <1>4, <1>5, <1>6
  <1>8. Serving' \in [Ids -> Values \cup {NoValue}]
    <2>1. Rows' \in [Ids -> Values \cup {NoValue}]
      BY <1>4 DEF Rows
    <2> QED BY <1>5, <2>1
  <1> QED BY <1>1, <1>3, <1>7, <1>8 DEF Store!Recover, Serving

\* Every step of the journal is one of the store, or a stutter.
LEMMA StoreSteps ==
    ASSUME JournalInv, JournalInv', SeqInv, StoreInv, Next
    PROVE  Store!StoreNext \/ UNCHANGED Store!storeVars
  <1>1. CASE Mount
    BY <1>1, RecoverIs DEF Store!StoreNext
  <1>2. CASE PowerCut
    BY <1>2, PowerLossIs DEF Store!StoreNext
  <1>3. ASSUME NEW keep \in Schemas, Prune(keep) PROVE Store!StoreNext
    BY <1>3, ForgetIs DEF Store!StoreNext
  <1>4. CASE Quiet
    <2>1. UNCHANGED <<mounted, poolOverflow, inDoubt, past>>
      BY <1>4, QuietFacts
    <2>2. CASE CopyDone
      BY <2>1, <2>2, CommitSame, StoreRests DEF CopyDone
    <2>3. CASE ~CopyDone
      <3>1. table' = table
        BY <1>4, <2>3 DEF Quiet, Open, PutBegin, MarkBegin, CompactBegin, ErasePendingBegin,
           SpaceCompact, SpaceRefused, EmitRefused, RehomeDone, StartCopy, StartRehome
      <3>2. \A b \in Ids : Row(b)' = Row(b)
        BY <3>1 DEF Row
      <3> QED BY <2>1, <3>2, StoreRests
    <2> QED BY <2>2, <2>3
  <1>5. CASE SpaceFound /\ job.op = "put"
    BY <1>5, AttemptIs DEF Store!StoreNext
  <1>6. CASE \/ SpaceFound /\ job.op # "put"
             \/ \E b \in Ids : EmitNext(b)
             \/ EmitMarker
             \/ PartWritten \/ CopyWritten \/ MarkWritten \/ RehomeMarked
    <2>1. UNCHANGED <<mounted, poolOverflow, inDoubt, past, table>>
      BY <1>6 DEF SpaceFound, EmitNext, EmitMarker, PartWritten, CopyWritten, MarkWritten, RehomeMarked,
         history
    <2>2. \A b \in Ids : Row(b)' = Row(b)
      BY <2>1 DEF Row
    <2> QED BY <2>1, <2>2, StoreRests
  <1>7. CASE PutWritten
    BY <1>7, AcknowledgeIs DEF Store!StoreNext
  <1>8. CASE RehomeWritten
    <2>1. UNCHANGED <<mounted, poolOverflow, inDoubt, past>>
      BY <1>8 DEF RehomeWritten
    <2> QED BY <1>8, <2>1, RehomeSame, StoreRests
  <1>9. CASE CopyMarked
    <2>1. UNCHANGED <<mounted, poolOverflow, inDoubt, past>> /\ Commit
      BY <1>9 DEF CopyMarked
    <2> QED BY <2>1, CommitSame, StoreRests
  <1>10. CASE Wipes \/ \E out \in Failures : ProgramFails(out)
    <2>1. UNCHANGED <<mounted, poolOverflow, inDoubt, past, table>>
      BY <1>10, WipesFacts, FailsFacts
    <2>2. \A b \in Ids : Row(b)' = Row(b)
      BY <2>1 DEF Row
    <2> QED BY <2>1, <2>2, StoreRests
  <1> QED BY <1>1, <1>2, <1>3, <1>4, <1>5, <1>6, <1>7, <1>8, <1>9, <1>10, NextKinds DEF Opens, Lands

\* The store starts with nothing.
LEMMA StoreInitIs == Init => Store!StoreInit
  <1> SUFFICES ASSUME Init PROVE Store!StoreInit
    OBVIOUS
  <1>1. Serving = Rows
    BY InitInv, ServingIsRows
  <1>2. Rows = [b \in Ids |-> NoValue]
    BY DEF Rows, Row, Init, Absent
  <1> QED BY <1>1, <1>2 DEF Store!StoreInit, Init, Serving

-----------------------------------------------------------------------------
(* No false clean.                                                         *)

\* A later number is newer than every marker too; so is the same after a loss.
LEMMA UnmarkedLater ==
    ASSUME TypeOK, NEW m \in Nat, NEW n \in Nat, m <= n, Unmarked(m)
    PROVE  Unmarked(n)
  <1> SUFFICES ASSUME NEW s \in Sector, NEW i \in Slot, flash[s][i].kind = "marker"
               PROVE  flash[s][i].seq < n
    BY DEF Unmarked
  <1>1. flash[s][i].seq < m
    BY DEF Unmarked
  <1>2. flash[s][i].seq \in Nat
    BY RecordFacts, JournalAssumption DEF TypeOK, SeqRange
  <1> QED BY <1>1, <1>2

LEMMA UnmarkedShrunk ==
    ASSUME Shrinks, NEW n, Unmarked(n)
    PROVE  Unmarked(n)'
  BY StillThere DEF Unmarked

\* The witness of a program that leaves the put uncovered: no marker landed.
LEMMA UncoveredFacts ==
    ASSUME JournalInv, SeqInv, phase \in WritePhases \cup MarkPhases, NEW out, Program(NextRecord, out),
           Witness(AfterProgram(flash[active][cursor], NextRecord, out)), tail' = "acknowledged"
    PROVE  tail = "acknowledged" /\ \A n : Unmarked(n) => Unmarked(n)'
  <1> DEFINE c == AfterProgram(flash[active][cursor], NextRecord, out)
  <1>1. c.kind # "marker" /\ tail = "acknowledged"
    BY DEF Witness
  <1>2. cursor \in Slot /\ active \in Sector /\ flash \in [Sector -> [Slot -> Cells]]
    BY ProgrammedSeq DEF JournalInv, TypeOK
  <1>3. flash'[active][cursor] = c
    BY <1>2 DEF Program
  <1>4. \A s \in Sector, i \in Slot : ~(s = active /\ i = cursor) => flash'[s][i] = flash[s][i]
    BY ProgramFacts
  <1> HIDE DEF c
  <1>5. \A n : Unmarked(n) => Unmarked(n)'
    BY <1>1, <1>3, <1>4 DEF Unmarked
  <1> QED BY <1>1, <1>5

\* A program that reports what it did.
LEMMA OkWitness ==
    ASSUME JournalInv, phase \in WritePhases \cup MarkPhases, Witness(NextRecord)
    PROVE  Witness(AfterProgram(flash[active][cursor], NextRecord, "ok"))
  <1>1. AfterProgram(flash[active][cursor], NextRecord, "ok") = NextRecord
    BY NextRecordFacts DEF AfterProgram
  <1> QED BY <1>1

\* AckInv is kept while no marker lands, no row gets older and what is hidden stays.
LEMMA AckKept ==
    ASSUME JournalInv, JournalInv', AckInv, tail' = "acknowledged" => tail = "acknowledged",
           mounted, mounted', poolOverflow' = poolOverflow, tailClean' => tailClean,
           tail' = "acknowledged" => \A n : Unmarked(n) => Unmarked(n)',
           poolOverflow => \A b \in Ids, n \in SeqRange : Whole(b, n) => Whole(b, n)',
           \A b \in Ids : /\ table'[b].present = table[b].present
                          /\ table[b].present => table[b].seq <= table'[b].seq
    PROVE  AckInv'
  <1> SUFFICES ASSUME tail' = "acknowledged"
               PROVE  /\ ~tailClean'
                      /\ \/ \E b \in Present' : Unmarked(table[b].seq)'
                         \/ poolOverflow' /\ NewerThanMarkers'
    BY DEF AckInv
  <1>1. ~tailClean
    BY DEF AckInv
  <1>2. ASSUME NEW b \in Present, Unmarked(table[b].seq)
        PROVE  \E c \in Present' : Unmarked(table[c].seq)'
    <2>1. b \in Ids /\ table[b].present /\ table'[b].present
      BY DEF Present
    <2>2. PICK m : m = table'[b].seq
      OBVIOUS
    <2>3. m \in Nat /\ table[b].seq \in Nat /\ table[b].seq <= m
      BY <2>1, <2>2, RowSeq
    <2>4. Unmarked(m)'
      BY <1>2, <2>3, UnmarkedLater DEF JournalInv
    <2>5. b \in Present' /\ Unmarked(table[b].seq)'
      BY <2>1, <2>2, <2>4 DEF Present
    <2> QED BY <2>5
  <1>3. ASSUME poolOverflow, NewerThanMarkers PROVE NewerThanMarkers'
    BY <1>3 DEF NewerThanMarkers
  <1> QED BY <1>1, <1>2, <1>3 DEF AckInv

\* What is served, or hidden, outlives a power cut.
LEMMA WholeSurvives ==
    ASSUME JournalInv, StoreInv, PowerCut, NEW b \in Ids, NEW n \in SeqRange, Whole(b, n),
           poolOverflow \/ (table[b].present /\ n = table[b].seq)
    PROVE  Whole(b, n)'
  <1>1. CASE UNCHANGED flash
    BY <1>1 DEF Whole, ValueAt
  <1>2. ASSUME phase \in WritePhases \cup MarkPhases, NEW out, Program(NextRecord, out)
        PROVE  Whole(b, n)'
    BY <1>2, WholeProgrammed
  <1>3. CASE phase = "erase" /\ \A i \in Slot : flash'[active][i] = flash[active][i]
    <2>1. table[b].present /\ n = table[b].seq
      BY <1>3 DEF StoreInv, NoneHidden
    <2>2. /\ table[b].val \in Values /\ table[b].sector \in Sector /\ table[b].off \in Slot
          /\ ValueAt(table[b].sector, table[b].off, b, table[b].val, n)
      BY <2>1, RowWhole
    <2>3. table[b].sector = active
      BY <1>3, <2>1, <2>2 DEF JournalInv, StraysSafe, StrayIds, Present, TypeOK, Sector
    <2>4. PICK s \in Sector, o \in Slot, v \in Values : ValueAt(s, o, b, v, n) /\ s = active
      BY <2>2, <2>3
    <2>5. ValueAt(s, o, b, v, n)'
      BY <1>3, <2>4 DEF ValueAt
    <2> QED BY <2>5 DEF Whole
  <1> QED BY <1>1, <1>2, <1>3, PowerFacts

\* A power cut takes the table and leaves the value.
LEMMA AckPower ==
    ASSUME JournalInv, SeqInv, StoreInv, AckInv, PowerCut
    PROVE  AckInv'
  <1>1. mounted /\ ~mounted'
    BY PowerFacts
  <1> SUFFICES ASSUME tail' = "acknowledged" PROVE NewerThanMarkers'
    BY <1>1 DEF AckInv
  <1>2. tail = "acknowledged" /\ \A n : Unmarked(n) => Unmarked(n)'
    <2>1. CASE tail' = tail /\ Shrinks
      BY <2>1, UnmarkedShrunk
    <2>2. ASSUME phase \in WritePhases \cup MarkPhases, NEW out, Program(NextRecord, out),
                 Witness(AfterProgram(flash[active][cursor], NextRecord, out))
          PROVE  tail = "acknowledged" /\ \A n : Unmarked(n) => Unmarked(n)'
      BY <2>2, UncoveredFacts
    <2> QED BY <2>1, <2>2, PowerFacts, UnchangedShrinks
  <1>3. PICK b \in Ids, n \in SeqRange : /\ Whole(b, n) /\ Unmarked(n)
                                         /\ poolOverflow \/ (table[b].present /\ n = table[b].seq)
    <2>1. CASE \E b \in Present : Unmarked(table[b].seq)
      BY <2>1, RowWhole DEF Present
    <2>2. CASE poolOverflow /\ NewerThanMarkers
      BY <2>2 DEF NewerThanMarkers
    <2> QED BY <1>1, <1>2, <2>1, <2>2 DEF AckInv
  <1>4. Whole(b, n)' /\ Unmarked(n)'
    BY <1>2, <1>3, WholeSurvives
  <1> QED BY <1>4 DEF NewerThanMarkers

\* A mount serves the value, or hides it, and does not find the tail clean.
LEMMA AckMount ==
    ASSUME JournalInv, JournalInv', SeqInv, AckInv, Mount
    PROVE  AckInv'
  <1> USE DEF Mount
  <1> SUFFICES ASSUME tail' = "acknowledged"
               PROVE  /\ ~tailClean'
                      /\ \/ \E b \in Present' : Unmarked(table[b].seq)'
                         \/ poolOverflow' /\ NewerThanMarkers'
    BY DEF AckInv
  <1>1. tail = "acknowledged" /\ ~mounted /\ UNCHANGED flash
    OBVIOUS
  <1>2. PICK b \in Ids, n \in SeqRange : Whole(b, n) /\ Unmarked(n)
    BY <1>1 DEF AckInv, NewerThanMarkers
  <1>3. PICK s \in Sector, o \in Slot, v \in Values : ValueAt(s, o, b, v, n)
    BY <1>2 DEF Whole
  <1>4. o \in Nat /\ n \in Nat
    BY JournalAssumption DEF Slot, SeqRange
  <1>5. flash[s][o] = Rec(b, v, n, 0)
    BY <1>3, <1>4, FirstRecord
  <1>6. IsValid(s, o) /\ flash[s][o].seq = n
    BY <1>5, RecordFacts DEF IsValid
  <1>7. ~MountsClean
    <2>1. ASSUME NEW t \in Sector, NEW k \in Slot, flash[t][k].kind = "marker", flash[t][k].seq >= n
          PROVE  FALSE
      <3>1. flash[t][k].seq < n
        BY <1>2, <2>1 DEF Unmarked
      <3>2. flash[t][k].seq \in Nat
        BY <2>1, RecordFacts, JournalAssumption DEF JournalInv, TypeOK, SeqRange
      <3> QED BY <1>4, <2>1, <3>1, <3>2
    <2> QED BY <1>6, <2>1 DEF MountsClean
  <1>8. b \in OnFlash
    BY <1>2, NothingFound DEF Whole, JournalInv
  <1>9. CASE b \in Kept
    <2>1. Newest(b) \in Entry /\ table'[b] = Newest(b)
      BY <1>8, <1>9, NewestFacts DEF OnFlash, JournalInv
    <2>2. PICK m \in Nat : m = table'[b].seq /\ n <= m
      <3>1. n <= Newest(b).seq /\ Newest(b).seq \in Nat
        BY <1>3, <1>8, NewestDoubted, JournalAssumption DEF SeqRange
      <3> QED BY <2>1, <3>1
    <2>3. Unmarked(m)
      BY <1>2, <1>4, <2>2, UnmarkedLater DEF JournalInv
    <2>4. Unmarked(m)'
      BY <1>1, <2>3 DEF Unmarked
    <2>5. b \in Present'
      BY <2>1 DEF Present, Entry
    <2> QED BY <1>7, <2>2, <2>4, <2>5
  <1>10. CASE b \notin Kept
    <2>1. poolOverflow'
      BY <1>8, <1>10
    <2>2. NewerThanMarkers'
      <3>1. Whole(b, n)' /\ Unmarked(n)'
        BY <1>1, <1>2 DEF Whole, ValueAt, Unmarked
      <3> QED BY <3>1 DEF NewerThanMarkers
    <2> QED BY <1>7, <2>1, <2>2
  <1> QED BY <1>9, <1>10

\* An acknowledged put is newer than every marker.
LEMMA AckPut ==
    ASSUME JournalInv, JournalInv', SeqInv, StoreInv, PutWritten
    PROVE  AckInv'
  <1> USE DEF PutWritten
  <1>1. /\ phase \in WritePhases /\ Program(NextRecord, "ok") /\ job.id \in Ids
        /\ mounted' /\ ~tailClean' /\ UNCHANGED maxSeq
    BY DEF WritePhases, JournalInv, CallShape, StoreInv, Asked
  <1>2. table'[job.id].present /\ table'[job.id].seq = maxSeq
    BY <1>1 DEF JournalInv, TypeOK
  <1>3. /\ cursor \in Slot /\ active \in Sector /\ NextRecord.seq = maxSeq /\ NextRecord.kind = "value"
        /\ flash'[active][cursor] = NextRecord /\ maxSeq \in Nat
    BY <1>1, ProgrammedSeq, ProgramFacts, JournalAssumption DEF SeqRange
  <1> HIDE DEF PutWritten
  <1>4. PICK a \in Sector, c \in Slot : flash'[a][c].seq = maxSeq /\ flash'[a][c].kind = "value"
    BY <1>3
  <1>5. ASSUME NEW s \in Sector, NEW i \in Slot, flash'[s][i].kind = "marker"
        PROVE  flash'[s][i].seq < maxSeq
    <2>1. IsValid(s, i)' /\ IsValid(a, c)'
      BY <1>4, <1>5 DEF IsValid
    <2>2. flash'[s][i].seq <= maxSeq
      BY <1>1, <2>1, SeqProgram
    <2>3. flash'[s][i].seq \in Nat
      BY <1>5, RecordFacts, JournalAssumption DEF JournalInv, TypeOK, SeqRange
    <2>4. flash'[s][i].seq # maxSeq
      <3>1. SeqNamesOneWrite'
        BY <1>1, SeqProgram
      <3>2. flash'[s][i].kind # "value" /\ flash'[a][c].kind # "marker"
        BY <1>4, <1>5
      <3>3. ~(s = a /\ i = c)
        BY <1>4, <3>2
      <3> QED BY <1>4, <2>1, <3>1, <3>2, <3>3 DEF SeqNamesOneWrite
    <2> QED BY <1>3, <2>2, <2>3, <2>4
  <1>6. PICK b \in Ids : b = job.id
    BY <1>1
  <1>7. b \in Present'
    BY <1>2, <1>6 DEF Present
  <1>8. PICK m : m = table'[b].seq
    OBVIOUS
  <1>9. m = maxSeq
    BY <1>2, <1>6, <1>8
  <1>10. Unmarked(m)'
    BY <1>5, <1>9 DEF Unmarked
  <1>11. Unmarked(table[b].seq)'
    BY <1>8, <1>10
  <1> QED BY <1>1, <1>7, <1>11 DEF AckInv

\* Every step keeps AckInv.
LEMMA AckStep ==
    ASSUME JournalInv, JournalInv', SeqInv, StoreInv, AckInv, Next
    PROVE  AckInv'
  <1>1. ASSUME table' = table
        PROVE  \A b \in Ids : /\ table'[b].present = table[b].present
                              /\ table[b].present => table[b].seq <= table'[b].seq
    BY <1>1, RowSeq
  <1>2. ASSUME UNCHANGED flash
        PROVE  /\ \A n : Unmarked(n) => Unmarked(n)'
               /\ \A b \in Ids, n \in SeqRange : Whole(b, n) => Whole(b, n)'
    BY <1>2 DEF Unmarked, Whole, ValueAt
  <1>3. CASE Mount
    BY <1>3, AckMount
  <1>4. CASE PowerCut
    BY <1>4, AckPower
  <1>5. CASE Quiet
    <2>1. UNCHANGED <<flash, mounted, poolOverflow, tail, tailClean>> /\ mounted
      BY <1>5, QuietFacts
    <2>2. CASE CopyDone
      <3>1. \A b \in Ids : /\ table'[b].present = table[b].present
                           /\ table[b].present => table[b].seq <= table'[b].seq
        BY <2>2, CommitNewer DEF CopyDone, Compacting, StoreInv
      <3> QED BY <1>2, <2>1, <3>1, AckKept
    <2>3. CASE ~CopyDone
      <3>1. table' = table
        BY <1>5, <2>3 DEF Quiet, Open, PutBegin, MarkBegin, CompactBegin, ErasePendingBegin,
           SpaceCompact, SpaceRefused, EmitRefused, RehomeDone, StartCopy, StartRehome
      <3> QED BY <1>1, <1>2, <2>1, <3>1, AckKept
    <2> QED BY <2>2, <2>3
  <1>6. CASE Opens
    <2>1. UNCHANGED <<flash, mounted, table, poolOverflow, tail>> /\ mounted
      BY <1>6, OpensFacts
    <2>2. tailClean' => tailClean
      BY <1>6 DEF Opens, SpaceFound, EmitNext, EmitMarker
    <2> QED BY <1>1, <1>2, <2>1, <2>2, AckKept
  <1>7. ASSUME phase \in WritePhases \cup MarkPhases, NEW out, Program(NextRecord, out), mounted,
               Witness(AfterProgram(flash[active][cursor], NextRecord, out)),
               UNCHANGED <<mounted, poolOverflow, tailClean>>,
               \A b \in Ids : /\ table'[b].present = table[b].present
                              /\ table[b].present => table[b].seq <= table'[b].seq
        PROVE  AckInv'
    <2>1. tail' = "acknowledged" => tail = "acknowledged" /\ \A n : Unmarked(n) => Unmarked(n)'
      BY <1>7, UncoveredFacts
    <2>2. \A b \in Ids, n \in SeqRange : Whole(b, n) => Whole(b, n)'
      BY <1>7, WholeProgrammed
    <2> QED BY <1>7, <2>1, <2>2, AckKept
  <1>8. CASE PartWritten \/ RehomeWritten \/ CopyWritten
    <2>1. /\ phase \in WritePhases \cup MarkPhases /\ Program(NextRecord, "ok") /\ Witness(NextRecord)
          /\ UNCHANGED <<mounted, poolOverflow, tailClean>> /\ mounted
      BY <1>8 DEF PartWritten, RehomeWritten, CopyWritten, WritePhases, JournalInv, CallShape
    <2>2. \A b \in Ids : /\ table'[b].present = table[b].present
                         /\ table[b].present => table[b].seq <= table'[b].seq
      <3>1. CASE RehomeWritten
        BY <3>1, RehomedNewer
      <3>2. CASE PartWritten \/ CopyWritten
        BY <1>1, <3>2 DEF PartWritten, CopyWritten
      <3> QED BY <1>8, <3>1, <3>2
    <2> QED BY <1>7, <2>1, <2>2, OkWitness
  <1>9. CASE PutWritten
    BY <1>9, AckPut
  <1>10. CASE MarkWritten \/ RehomeMarked \/ CopyMarked
    <2>1. Witness(NextRecord) /\ NextRecord = Marker(maxSeq)
      BY <1>10 DEF MarkWritten, RehomeMarked, CopyMarked, NextRecord
    <2>2. phase # "append" /\ NextRecord.kind = "marker"
      BY <1>10, <2>1, RecordFacts DEF MarkWritten, RehomeMarked, CopyMarked
    <2>3. tail' = "covered"
      BY <2>1, <2>2 DEF Witness
    <2> QED BY <2>3 DEF AckInv
  <1>11. CASE Wipes
    <2>1. /\ UNCHANGED <<mounted, table, poolOverflow, tail, tailClean>> /\ mounted /\ Shrinks
          /\ phase = "erase"
      BY <1>11, WipesFacts
    <2>2. ~poolOverflow /\ \A n : Unmarked(n) => Unmarked(n)'
      BY <2>1, UnmarkedShrunk DEF StoreInv, NoneHidden
    <2> QED BY <1>1, <2>1, <2>2, AckKept
  <1>12. ASSUME NEW keep \in Schemas, Prune(keep) PROVE AckInv'
    BY <1>12 DEF Prune, AckInv
  <1>13. ASSUME NEW out \in Failures, ProgramFails(out) PROVE AckInv'
    BY <1>1, <1>7, <1>13, FailsFacts
  <1> QED BY <1>3, <1>4, <1>5, <1>6, <1>8, <1>9, <1>10, <1>11, <1>12, <1>13, NextKinds DEF Lands

LEMMA AckStutters ==
    ASSUME AckInv, UNCHANGED vars
    PROVE  AckInv'
  BY DEF vars, history, AckInv, NewerThanMarkers, Unmarked, Whole, ValueAt, Present

LEMMA AckStarts == Init => AckInv
  BY DEF Init, AckInv

-----------------------------------------------------------------------------
(* A clean tail is kept.                                                   *)

\* Every step keeps CleanInv.
LEMMA CleanStep ==
    ASSUME JournalInv, SeqInv, CleanInv, Next
    PROVE  CleanInv'
  <1> USE DEF CleanInv, WritePhases, MarkPhases, Compacting
  <1>1. CASE Mount \/ PowerCut \/ \E keep \in Schemas : Prune(keep)
    <2>1. phase' = "idle"
      BY <1>1, PowerFacts DEF Mount, Prune, JournalInv, CallShape
    <2> QED BY <2>1
  <1>2. CASE Quiet
    <2>1. CASE RehomeDone
      BY <2>1 DEF RehomeDone
    <2>2. CASE ~RehomeDone
      <3>1. /\ phase' \in {"idle", "space", "rehome", "copy"}
            /\ phase' = "copy" => cursor' = 0
        BY <1>2, <2>2 DEF Quiet, Open, PutBegin, MarkBegin, CompactBegin, ErasePendingBegin, SpaceCompact,
             SpaceRefused, EmitRefused, CopyDone, StartCopy, StartRehome, GiveUp, Finish, Commit
      <3>2. \A i \in Slot : ~(i < 0)
        BY DEF Slot
      <3> QED BY <3>1, <3>2
    <2> QED BY <2>1, <2>2
  <1>3. CASE Opens
    <2>1. /\ UNCHANGED <<flash, active, cursor>> /\ maxSeq' = maxSeq + 1 /\ maxSeq \in Nat
          /\ phase' \in {"append", "mark", "copyWrite", "rehomeWrite", "copyMark", "rehomeMark"}
          /\ phase' \in Compacting => phase = "copy"
          /\ phase' \in {"copyMark", "rehomeMark"} => tailClean'
      BY <1>3, OpensFacts, JournalAssumption
         DEF Opens, SpaceFound, EmitNext, EmitMarker, place, JournalInv, TypeOK, SeqRange
    <2> QED BY <2>1
  <1>4. ASSUME phase \in WritePhases \cup MarkPhases, Program(NextRecord, "ok"), cursor' = cursor + 1,
               active' = active, phase \in Compacting
        PROVE  \A i \in Slot : i < cursor' => flash'[active'][i] # Blank
    <2> SUFFICES ASSUME NEW i \in Slot, i < cursor + 1 PROVE flash'[active][i] # Blank
      BY <1>4
    <2>1. active \in Sector /\ cursor \in Slot
      BY <1>4, ProgrammedSeq
    <2>2. CASE i = cursor
      BY <1>4, <2>1, <2>2, ProgramFacts, NextRecordFacts
    <2>3. CASE i # cursor
      <3>1. i < cursor
        BY <2>1, <2>3 DEF Slot
      <3>2. flash'[active][i] = flash[active][i]
        BY <1>4, <2>1, <2>3, ProgramFacts
      <3> QED BY <1>4, <3>1, <3>2
    <2> QED BY <2>2, <2>3
  <1>5. CASE PartWritten
    <2>1. phase \in WritePhases /\ UNCHANGED <<phase, maxSeq, active>> /\ cursor' = cursor + 1
          /\ Program(NextRecord, "ok")
      BY <1>5 DEF PartWritten
    <2> QED BY <1>4, <2>1
  <1>6. CASE Lands
    <2>1. CASE CopyWritten
      <3>1. phase = "copyWrite" /\ phase' = "copy" /\ UNCHANGED active /\ cursor' = cursor + 1
            /\ Program(NextRecord, "ok")
        BY <2>1 DEF CopyWritten
      <3> QED BY <1>4, <3>1
    <2>2. CASE RehomeMarked
      <3>1. /\ phase = "rehomeMark" /\ phase' = "erase" /\ UNCHANGED <<active, maxSeq>>
            /\ cursor' = cursor + 1 /\ NextRecord = Marker(maxSeq)
            /\ cursor \in Nat
        BY <2>2 DEF RehomeMarked, NextRecord, JournalInv, TypeOK
      <3>2. flash'[active][cursor] = Marker(maxSeq)
        BY <1>6, <3>1, LandsFacts, ProgramFacts
      <3>3. cursor' > 0 /\ cursor' - 1 = cursor
        BY <3>1
      <3> QED BY <3>1, <3>2, <3>3
    <2>3. CASE PutWritten \/ RehomeWritten \/ MarkWritten \/ CopyMarked
      <3>1. phase' \in {"idle", "rehome", "space"}
        BY <2>3 DEF PutWritten, RehomeWritten, MarkWritten, CopyMarked, Finish, Commit
      <3> QED BY <3>1
    <2> QED BY <1>6, <2>1, <2>2, <2>3 DEF Lands
  <1>7. CASE Wipes
    <2>1. phase' = "idle" \/ (phase' = "copy" /\ cursor' = 0)
      BY <1>7 DEF Wipes, EraseDone, EraseFails, StartCopy, Finish
    <2>2. \A i \in Slot : ~(i < 0)
      BY DEF Slot
    <2> QED BY <2>1, <2>2
  <1>8. ASSUME NEW out \in Failures, ProgramFails(out) PROVE CleanInv'
    <2>1. phase' = "idle"
      BY <1>8, FailsFacts
    <2> QED BY <2>1
  <1> QED BY <1>1, <1>2, <1>3, <1>5, <1>6, <1>7, <1>8, NextKinds

LEMMA CleanStutters ==
    ASSUME CleanInv, UNCHANGED vars
    PROVE  CleanInv'
  BY DEF vars, place, CleanInv

LEMMA CleanStarts == Init => CleanInv
  BY DEF Init, CleanInv, Compacting, MarkPhases, WritePhases

\* What maxseq_in returns: no marker of the sector is newer, and it is some record's.
LEMMA MaxSeqInFacts ==
    ASSUME TypeOK, NEW s \in Sector
    PROVE  /\ MaxSeqIn(s) \in Nat
           /\ MaxSeqIn(s) = 0 \/ \E i \in Slot : IsValid(s, i) /\ flash[s][i].seq = MaxSeqIn(s)
           /\ \A i \in Slot : flash[s][i].kind = "marker" => flash[s][i].seq <= MaxSeqIn(s)
  <1> DEFINE M == {n \in Slot : flash[s][n].kind = "marker" \/ Complete(s, n)}
             T == {0} \cup {flash[s][i].seq : i \in M}
  <1>1. \A i \in M : IsValid(s, i)
    BY DEF IsValid, Complete
  <1>2. \A i \in M : flash[s][i].seq \in 0 .. SeqCeiling + 1
    BY <1>1, RecordFacts DEF TypeOK, IsValid, SeqRange
  <1>3. T \subseteq Nat /\ T # {} /\ SeqCeiling + 1 \in Nat /\ \A y \in T : y <= SeqCeiling + 1
    BY <1>2, JournalAssumption
  <1>4. Max(T) \in T /\ \A y \in T : y <= Max(T)
    <2> HIDE DEF T
    <2> QED BY <1>3, MaxIsGreatest
  <1>5. MaxSeqIn(s) = Max(T)
    BY DEF MaxSeqIn
  <1>6. \A i \in Slot : flash[s][i].kind = "marker" => flash[s][i].seq \in T
    OBVIOUS
  <1>7. Max(T) = 0 \/ \E i \in M : flash[s][i].seq = Max(T)
    BY <1>4
  <1>8. \A i \in M : i \in Slot
    OBVIOUS
  <1> HIDE DEF M, T
  <1> QED BY <1>1, <1>3, <1>4, <1>5, <1>6, <1>7, <1>8

\* The newest record is a marker, the last of its sector, and the other sector is blank or
\* older than a sector without gaps.
CleanlyEnded ==
    /\ mounted
    /\ \E a \in Sector, c \in Slot :
         /\ flash[a][c] = Marker(maxSeq)
         /\ \A i \in Slot : i > c => flash[a][i] = Blank
         /\ \/ \A i \in Slot : flash[1 - a][i] = Blank
            \/ maxSeq > 0 /\ \A i \in Slot : i < c => flash[a][i] # Blank

\* A mount then answers clean: the marker is the newest record, and in the sector it picks.
LEMMA CleanMounts == JournalInv /\ SeqInv /\ CleanlyEnded => MountsClean
  <1> SUFFICES ASSUME JournalInv, SeqInv, CleanlyEnded PROVE MountsClean
    OBVIOUS
  <1>1. PICK a \in Sector, c \in Slot :
          /\ flash[a][c] = Marker(maxSeq)
          /\ \A i \in Slot : i > c => flash[a][i] = Blank
          /\ \/ \A i \in Slot : flash[1 - a][i] = Blank
             \/ maxSeq > 0 /\ \A i \in Slot : i < c => flash[a][i] # Blank
    BY DEF CleanlyEnded
  <1>2. TypeOK /\ mounted /\ maxSeq \in Nat /\ c \in Nat /\ \A i \in Slot : i \in Nat
    BY JournalAssumption DEF JournalInv, CleanlyEnded, TypeOK, SeqRange, Slot
  <1>3. flash[a][c].kind = "marker" /\ flash[a][c].seq = maxSeq /\ flash[a][c] # Blank /\ flash[a][c] # Torn
    BY <1>1, RecordFacts
  <1>4. IsValid(a, c) /\ NonEmpty(a)
    BY <1>3 DEF IsValid, NonEmpty
  <1>5. \A s \in Sector, i \in Slot : IsValid(s, i) => flash[s][i].seq <= maxSeq
    BY <1>2 DEF SeqInv
  <1>6. ~TrailingInvalid(a)
    <2> SUFFICES ASSUME NEW i \in Slot, flash[a][i] = Torn, \A k \in Slot : k > i => flash[a][k] = Blank
                 PROVE  FALSE
      BY DEF TrailingInvalid
    <2>1. ~(c > i)
      BY <1>3
    <2>2. i # c
      BY <1>3
    <2>3. i > c
      BY <1>2, <2>1, <2>2
    <2> QED BY <1>1, <2>3, RecordFacts
  <1>7. CASE \A i \in Slot : flash[1 - a][i] = Blank
    <2>1. ~TrailingInvalid(1 - a)
      BY <1>7, RecordFacts DEF TrailingInvalid
    <2>2. ActiveSector \in {a, 1 - a}
      BY DEF ActiveSector, FreshSector, Sector
    <2>3. ~TrailingInvalid(ActiveSector)
      BY <1>6, <2>1, <2>2
    <2> QED BY <1>3, <1>4, <1>5, <2>3 DEF MountsClean
  <1>8. CASE maxSeq > 0 /\ \A i \in Slot : i < c => flash[a][i] # Blank
    <2>1. ~DirtyTail(a)
      <3> SUFFICES ASSUME NEW i \in Slot, NEW k \in Slot, i < k, flash[a][i] = Blank, flash[a][k] # Blank
                   PROVE  FALSE
        BY DEF DirtyTail
      <3>1. ~(i < c) /\ i # c
        BY <1>3, <1>8
      <3>2. k > c
        BY <1>2, <3>1
      <3> QED BY <1>1, <3>2
    <2>2. MaxSeqIn(a) \in Nat /\ maxSeq <= MaxSeqIn(a)
      BY <1>2, <1>3, MaxSeqInFacts
    <2>3. 1 - a \in Sector /\ a # 1 - a
      BY DEF Sector
    <2>4. MaxSeqIn(1 - a) \in Nat /\ MaxSeqIn(1 - a) < maxSeq
      <3>1. MaxSeqIn(1 - a) \in Nat
        BY <1>2, <2>3, MaxSeqInFacts
      <3>2. CASE MaxSeqIn(1 - a) = 0
        BY <1>8, <3>2
      <3>3. ASSUME NEW i \in Slot, IsValid(1 - a, i), flash[1 - a][i].seq = MaxSeqIn(1 - a)
            PROVE  MaxSeqIn(1 - a) < maxSeq
        <4>1. MaxSeqIn(1 - a) <= maxSeq
          BY <1>5, <2>3, <3>3
        <4>2. MaxSeqIn(1 - a) # maxSeq
          BY <1>3, <1>4, <2>3, <3>3 DEF SeqInv, SeqNamesOneWrite
        <4> QED BY <1>2, <3>1, <4>1, <4>2
      <3> QED BY <1>2, <2>3, <3>1, <3>2, <3>3, MaxSeqInFacts
    <2>5. MaxSeqIn(1 - a) < MaxSeqIn(a)
      BY <1>2, <2>2, <2>4
    <2>6. FreshSector = a
      <3>1. CASE a = 1
        BY <1>4, <2>5, <3>1 DEF FreshSector
      <3>2. CASE a = 0
        <4>1. ~(MaxSeqIn(1) > MaxSeqIn(0))
          BY <2>2, <2>4, <2>5, <3>2
        <4> QED BY <1>4, <3>2, <4>1 DEF FreshSector
      <3> QED BY <3>1, <3>2 DEF Sector
    <2>7. ActiveSector = a
      BY <2>1, <2>6 DEF ActiveSector
    <2> QED BY <1>3, <1>4, <1>5, <1>6, <2>7 DEF MountsClean
  <1> QED BY <1>1, <1>7, <1>8

\* An erase_pending, and a compact, on a clean tail end so.
LEMMA CleanErase ==
    ASSUME JournalInv, CleanInv, EraseDone, phase' = "idle", tailClean'
    PROVE  CleanlyEnded'
  <1>1. /\ phase = "erase" /\ tailClean /\ mounted /\ UNCHANGED <<mounted, maxSeq>>
        /\ flash' = [flash EXCEPT ![1 - active] = [i \in Slot |-> Blank]]
    BY DEF EraseDone, StartCopy, JournalInv, CallShape
  <1>2. PICK a \in Sector : a = active
    BY DEF JournalInv, TypeOK
  <1>3. cursor \in 0 .. Slots /\ cursor > 0 /\ flash[a][cursor - 1] = Marker(maxSeq)
    BY <1>1, <1>2 DEF CleanInv, JournalInv, TypeOK
  <1>4. PICK c \in Slot : c = cursor - 1
    BY <1>3, JournalAssumption DEF Slot
  <1>5. 1 - a \in Sector /\ 1 - a # a /\ flash \in [Sector -> [Slot -> Cells]]
    BY <1>2 DEF Sector, JournalInv, TypeOK
  <1>6. flash'[a] = flash[a] /\ \A i \in Slot : flash'[1 - a][i] = Blank
    BY <1>1, <1>2, <1>5
  <1>7. \A i \in Slot : i > c => flash'[a][i] = Blank
    <2>1. \A i \in Slot : i > c => i >= cursor
      BY <1>3, <1>4 DEF Slot
    <2> QED BY <1>1, <1>2, <1>6, <2>1 DEF JournalInv, FrontierBlank
  <1>8. flash'[a][c] = Marker(maxSeq)'
    BY <1>1, <1>3, <1>4, <1>6 DEF Marker
  <1> QED BY <1>1, <1>6, <1>7, <1>8 DEF CleanlyEnded

LEMMA CleanCopy ==
    ASSUME JournalInv, CleanInv, CopyMarked
    PROVE  CleanlyEnded'
  <1>1. /\ phase = "copyMark" /\ UNCHANGED <<mounted, maxSeq>> /\ Program(NextRecord, "ok")
        /\ NextRecord = Marker(maxSeq) /\ mounted
    BY DEF CopyMarked, NextRecord, JournalInv, CallShape
  <1>2. phase \in MarkPhases /\ phase \in Compacting
    BY <1>1 DEF MarkPhases, Compacting
  <1>3. PICK a \in Sector, c \in Slot : a = active /\ c = cursor
    BY <1>2, NextRecordFacts DEF JournalInv, TypeOK
  <1>4. flash'[a][c] = Marker(maxSeq)'
    BY <1>1, <1>2, <1>3, ProgramFacts DEF Marker
  <1>5. \A i \in Slot : i > c => flash'[a][i] = Blank
    <2>1. \A i \in Slot : i > c => i >= cursor + 1
      BY <1>3 DEF Slot
    <2> QED BY <1>1, <1>2, <1>3, <2>1, ProgramKeeps
  <1>6. \A i \in Slot : i < c => flash'[a][i] # Blank
    <2>1. \A i \in Slot : i < c => flash[a][i] # Blank
      BY <1>2, <1>3 DEF CleanInv
    <2>2. \A i \in Slot : i < c => flash'[a][i] = flash[a][i]
      <3>1. \A i \in Slot : i < c => i # cursor
        BY <1>3 DEF Slot
      <3> QED BY <1>1, <1>2, <1>3, <3>1, ProgramFacts
    <2> QED BY <2>1, <2>2
  <1>7. maxSeq' > 0
    BY <1>1, <1>2 DEF CleanInv
  <1> QED BY <1>1, <1>4, <1>5, <1>6, <1>7 DEF CleanlyEnded

\* The step CleanPreserved speaks of.
Completes ==
    /\ \/ phase = "erase" /\ phase' = "idle" /\ partnerClean'
       \/ phase \in Compacting /\ mounted' /\ phase' \notin Compacting /\ active' = active
    /\ tailClean'

\* Those are the only two ways to complete.
LEMMA CompletesCleanly ==
    ASSUME JournalInv, JournalInv', SeqInv', CleanInv, Next, Completes
    PROVE  MountsClean'
  <1> USE DEF Compacting
  <1>1. \/ EraseDone /\ phase' = "idle"
        \/ CopyMarked
    <2>1. active \in Sector /\ 1 - active # active
      BY DEF JournalInv, TypeOK, Sector
    <2>2. CASE phase = "erase" /\ phase' = "idle" /\ partnerClean'
      <3>1. ~partnerClean
        BY <2>2 DEF JournalInv, CallShape
      <3>2. Wipes \/ PowerCut
        BY <2>2 DEF Next, Wipes, Mount, Prune, PutBegin, MarkBegin, CompactBegin, ErasePendingBegin, Open,
             SpaceFound, SpaceCompact, SpaceRefused, EmitNext, EmitMarker, EmitRefused, RehomeDone,
             PartWritten, PutWritten, RehomeWritten, CopyWritten, MarkWritten, RehomeMarked, CopyDone,
             CopyMarked, ProgramFails, WritePhases, MarkPhases, JournalInv, CallShape
      <3>3. ~PowerCut
        BY <2>2 DEF PowerCut, Halted
      <3>4. EraseDone
        BY <2>2, <3>1, <3>2, <3>3 DEF Wipes, EraseFails, place
      <3> QED BY <2>2, <3>4
    <2>3. CASE phase \in Compacting /\ mounted' /\ phase' \notin Compacting /\ active' = active
      <3>1. ~PowerCut
        BY <2>3, PowerFacts
      <3>2. ~Mount /\ ~Wipes /\ ~\E keep \in Schemas : Prune(keep)
        BY <2>3 DEF Wipes, Mount, Prune, EraseDone, EraseFails, JournalInv, CallShape
      <3>3. ~Opens /\ ~PartWritten
        BY <2>3 DEF Opens, SpaceFound, EmitNext, EmitMarker, PartWritten
      <3>4. ~\E out \in Failures : ProgramFails(out)
        BY <2>1, <2>3 DEF ProgramFails, GiveUp
      <3>5. ~Quiet
        BY <2>1, <2>3 DEF Completes, Quiet, PutBegin, MarkBegin, CompactBegin, ErasePendingBegin, Open,
             SpaceCompact, SpaceRefused, EmitRefused, RehomeDone, CopyDone, GiveUp
      <3>6. Lands
        BY <3>1, <3>2, <3>3, <3>4, <3>5, NextKinds
      <3>7. CopyMarked
        BY <2>3, <3>6 DEF Lands, PutWritten, RehomeWritten, CopyWritten, MarkWritten, RehomeMarked
      <3> QED BY <3>7
    <2> QED BY <2>2, <2>3 DEF Completes
  <1>2. CleanlyEnded'
    BY <1>1, CleanErase, CleanCopy DEF Completes
  <1>3. JournalInv' /\ SeqInv' /\ CleanlyEnded' => MountsClean'
    BY CleanMounts, PTL
  <1> QED BY <1>2, <1>3

-----------------------------------------------------------------------------
(* What the two sectors hold, always.                                      *)

\* Every step keeps both invariants.
LEMMA WholeStep ==
    ASSUME JournalInv, WholeInv, [Next]_vars
    PROVE  JournalInv' /\ WholeInv'
  <1>1. JournalInv'
    BY NextInv
  <1>2. CASE Next
    <2>1. SeqInv' /\ StoreInv'
      BY <1>1, <1>2, SeqStep, StoreStep DEF WholeInv
    <2>2. AckInv' /\ CleanInv'
      BY <1>1, <1>2, AckStep, CleanStep DEF WholeInv
    <2> QED BY <1>1, <2>1, <2>2 DEF WholeInv
  <1>3. CASE UNCHANGED vars
    <2>1. SeqInv' /\ StoreInv' /\ AckInv' /\ CleanInv'
      BY <1>3, SeqStutters, StoreStutters, AckStutters, CleanStutters DEF WholeInv
    <2> QED BY <1>1, <2>1 DEF WholeInv
  <1> QED BY <1>2, <1>3

\* WholeInv is an invariant of the journal.
THEOREM WholeInvariance == Spec => [](JournalInv /\ WholeInv)
  <1>1. Init => JournalInv /\ WholeInv
    BY InitInv, SeqStarts, StoreStarts, AckStarts, CleanStarts DEF WholeInv
  <1>2. JournalInv /\ WholeInv /\ [Next]_vars => (JournalInv /\ WholeInv)'
    BY WholeStep
  <1> QED BY <1>1, <1>2, PTL DEF Spec

\* mount's "highest seq wins": no sequence number is ever used for two writes, not even across
\* a cut that tore the record that used it first.
THEOREM OneWritePerNumber == Spec => []SeqNamesOneWrite
  <1>1. WholeInv => SeqNamesOneWrite
    BY DEF WholeInv, SeqInv
  <1> QED BY <1>1, WholeInvariance, PTL

\* put, mount and compact implement the durable store: an acknowledged put is served and survives
\* every later power cut, failure, compaction, re-homing and erase.
THEOREM StoreIsImplemented == Spec => ImplementsStore
  <1>1. Init => Store!StoreInit
    BY StoreInitIs
  <1>2. JournalInv /\ WholeInv /\ JournalInv' /\ [Next]_vars => [Store!StoreNext]_(Store!storeVars)
    <2> SUFFICES ASSUME JournalInv, WholeInv, JournalInv', [Next]_vars
                 PROVE  Store!StoreNext \/ UNCHANGED Store!storeVars
      OBVIOUS
    <2>1. CASE Next
      BY <2>1, StoreSteps DEF WholeInv
    <2>2. CASE UNCHANGED vars
      <3>1. \A b \in Ids : Row(b)' = Row(b)
        BY <2>2 DEF vars, Row
      <3>2. UNCHANGED <<mounted, poolOverflow, inDoubt, past>>
        BY <2>2 DEF vars, history
      <3> QED BY <3>1, <3>2, StoreRests
    <2> QED BY <2>1, <2>2
  <1> QED BY <1>1, <1>2, WholeInvariance, PTL DEF Spec, ImplementsStore, Store!StoreSpec

\* mount never takes a session for an orderly one when a put was acknowledged after its last
\* marker, whatever compactions and cuts came between.
THEOREM NeverFalselyClean == Spec => []NoFalseClean
  <1>1. WholeInv => NoFalseClean
    BY DEF WholeInv, AckInv, NoFalseClean
  <1> QED BY <1>1, WholeInvariance, PTL

\* compact and erase_pending keep a clean tail clean: when one completes on it, the next mount
\* finds the session an orderly one.
THEOREM CleanTailKept == Spec => CleanPreserved
  <1>1. JournalInv /\ WholeInv /\ (JournalInv /\ WholeInv)' /\ [Next]_vars =>
          [Completes => MountsClean']_vars
    BY CompletesCleanly DEF WholeInv
  <1>2. Completes <=> /\ \/ phase = "erase" /\ phase' = "idle" /\ partnerClean'
                         \/ phase \in Compacting /\ mounted' /\ phase' \notin Compacting /\ active' = active
                      /\ tailClean'
    BY DEF Completes
  <1>3. Spec => [][Completes => MountsClean']_vars
    BY <1>1, WholeInvariance, PTL DEF Spec
  <1> QED BY <1>2, <1>3, PTL DEF CleanPreserved

=============================================================================
