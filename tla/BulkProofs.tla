------------------------------- MODULE BulkProofs -------------------------------
(***************************************************************************)
(* The pool of boards/common/bulk.h on a memory that takes each core's     *)
(* stores in any order: every buffer is in exactly one place, and what the *)
(* two users see is the queue of BulkQueue.  Both for a pool of any size   *)
(* that divides the cursors' range, as every size that is configured       *)
(* divides 2^32.                                                           *)
(***************************************************************************)
EXTENDS Bulk, Remainders, FiniteSetTheorems, TLAPS

\* The pool's size divides the cursors' range: without it two descriptors share a slot.
Divides == CursorMod % NBuf = 0

-------------------------------------------------------------------------------
(***************************************************************************)
(* The inductive invariant.                                                *)
(***************************************************************************)
CursorCells == {RHead, FTail, RTail, FHead}

\* What a cell of the region may hold.
Fits(l, x) ==
    /\ l \in CursorCells => x \in Cursor
    /\ l[1] \in {"free", "ready"} => x \in Buf
    /\ l[1] = "len" => x \in Nat

StoresFit ==
    /\ DOMAIN mem = Location /\ DOMAIN pend = Side
    /\ \A l \in Location : Fits(l, mem[l])
    /\ \A side \in Side : \A s \in pend[side] : s[1] \in Location /\ Fits(s[1], s[2])
    /\ \A side \in Side : \A s, r \in pend[side] : s[1] = r[1] => s = r

LocalsFit ==
    /\ DOMAIN prod = {"pc", "cur", "idx"} /\ DOMAIN cons = {"pc", "cur", "idx", "len"}
    /\ prod.pc \in ProdPcs /\ prod.cur \in Cursor /\ prod.idx \in Buf
    /\ cons.pc \in ConsPcs /\ cons.cur \in Cursor /\ cons.idx \in Buf /\ cons.len \in Nat
    /\ lentBuf \in [Buf -> Message \cup {0, NotLent}]
    /\ DOMAIN heldBuf = Buf
    /\ \A b \in Buf : heldBuf[b] = NotHeldBuf \/ (DOMAIN heldBuf[b] = {"len", "saw"} /\ heldBuf[b].len \in Nat)
    /\ fills \in 0 .. NMessage - 1 /\ overflows \in 0 .. MaxOverflows /\ restarts \in 0 .. MaxRestarts

\* Until the rings are announced the consumer stays out, and what bulk_init has stored is on
\* its way.
Layout ==
    {<<RHead, 0>>, <<RTail, 0>>, <<FTail, 0>>, <<FHead, NBuf>>} \cup {<<FreeRing(i), i>> : i \in Buf}
Booting ==
    ~Ready =>
        /\ prod.pc = "boot" => pend["P"] = {}
        /\ prod.pc = "clear" => pend["P"] \subseteq {<<Magic, 0>>}
        /\ prod.pc = "announce" =>
            /\ pend["P"] \subseteq Layout
            /\ \A s \in Layout : s \in pend["P"] \/ mem[s[1]] = s[2]
        /\ pend["C"] = {} /\ cons.pc = "out" /\ mem[Magic] = 0
        /\ Lent = {} /\ HeldNow = {}

\* ft buffers were ever loaned, fh of the fv released ones show; rt were taken, rh published
\* and rv of those show.
FreeAt(k) == mem[FreeRing(k % NBuf)]
ReadyAt(k) == mem[ReadyRing(k % NBuf)]

Turns(ft, fv, fh, rt, rv, rh) ==
    /\ ft <= fv /\ fv <= fh /\ fh <= ft + NBuf
    /\ rt <= rv /\ rv <= rh /\ rh <= rt + NBuf
    /\ Own("P", FTail) = ft % CursorMod
    /\ Own("C", FHead) = fh % CursorMod /\ mem[FHead] = fv % CursorMod
    /\ Own("C", RTail) = rt % CursorMod
    /\ Own("P", RHead) = rh % CursorMod /\ mem[RHead] = rv % CursorMod

\* What waits in a core's buffer is that core's to store, and in a ring it is the entry
\* the core is about to show.
Waiting(fh, rh) ==
    /\ \A s \in pend["P"] :
        /\ s[1][1] \in {"magic", "r_head", "f_tail", "ready", "len", "lo", "hi"}
        /\ s[1][1] = "ready" => prod.pc = "publish" /\ s[1] = ReadyRing(rh % NBuf) /\ s[2] = prod.idx
    /\ \A s \in pend["C"] :
        /\ s[1][1] \in {"r_tail", "f_head", "free"}
        /\ s[1][1] = "free" => cons.pc = "release" /\ s[1] = FreeRing(fh % NBuf) /\ s[2] = cons.idx

\* The calls that are not over.
Loaning(ft, fv) ==
    /\ prod.pc \in {"entry", "advance"} => prod.cur = ft % CursorMod /\ ft < fv
    /\ prod.pc = "advance" => prod.idx = FreeAt(ft)
Publishing(rt, rh) ==
    prod.pc = "publish" =>
        /\ prod.cur = rh % CursorMod /\ rh < rt + NBuf
        /\ prod.idx \in Lent
        /\ (\E s \in pend["P"] : s[1] = ReadyRing(rh % NBuf)) \/ ReadyAt(rh) = prod.idx
Taking(rt, rv) ==
    /\ cons.pc \in {"entry", "length", "advance"} => cons.cur = rt % CursorMod /\ rt < rv
    /\ cons.pc \in {"length", "advance"} => cons.idx = ReadyAt(rt)
Releasing(ft, fh) ==
    cons.pc = "release" =>
        /\ cons.cur = fh % CursorMod /\ fh < ft + NBuf
        /\ cons.idx \in HeldNow
        /\ (\E s \in pend["C"] : s[1] = FreeRing(fh % NBuf)) \/ FreeAt(fh) = cons.idx

\* Every buffer is somewhere, and nowhere twice.
Somewhere(ft, fh, rt, rh) ==
    \A b \in Buf :
        \/ \E k \in ft .. fh - 1 : FreeAt(k) = b
        \/ b \in Lent
        \/ \E k \in rt .. rh - 1 : ReadyAt(k) = b
        \/ b \in HeldNow
NotTwice(ft, fh, rt, rh) ==
    /\ \A k \in ft .. fh - 1 : FreeAt(k) \notin Lent /\ FreeAt(k) \notin HeldNow
    /\ \A k \in rt .. rh - 1 : ReadyAt(k) \notin Lent /\ ReadyAt(k) \notin HeldNow
    /\ \A k \in ft .. fh - 1, j \in rt .. rh - 1 : FreeAt(k) # ReadyAt(j)
    /\ \A k, j \in ft .. fh - 1 : FreeAt(k) = FreeAt(j) => k = j
    /\ \A k, j \in rt .. rh - 1 : ReadyAt(k) = ReadyAt(j) => k = j
    /\ Lent \cap HeldNow = {}

Pool(ft, fv, fh, rt, rv, rh) ==
    /\ Turns(ft, fv, fh, rt, rv, rh) /\ Waiting(fh, rh)
    /\ Loaning(ft, fv) /\ Publishing(rt, rh) /\ Taking(rt, rv) /\ Releasing(ft, fh)
    /\ Somewhere(ft, fh, rt, rh) /\ NotTwice(ft, fh, rt, rh)

BulkInv ==
    /\ StoresFit /\ LocalsFit /\ Booting
    /\ Ready => \E ft, fv, fh, rt, rv, rh \in Nat : Pool(ft, fv, fh, rt, rv, rh)

-------------------------------------------------------------------------------
(***************************************************************************)
(* Cells, slots and what a core sees of its own stores.                    *)
(***************************************************************************)
\* The cells of the region have names.
LEMMA Cells ==
  /\ Magic[1] = "magic" /\ RHead[1] = "r_head" /\ FTail[1] = "f_tail"
  /\ RTail[1] = "r_tail" /\ FHead[1] = "f_head"
  /\ {Magic, RHead, FTail, RTail, FHead} \subseteq Location
  /\ \A i \in Buf :
        /\ FreeRing(i) \in Location /\ FreeRing(i)[1] = "free" /\ FreeRing(i)[2] = i
        /\ ReadyRing(i) \in Location /\ ReadyRing(i)[1] = "ready" /\ ReadyRing(i)[2] = i
        /\ LenArr(i) \in Location /\ LenArr(i)[1] = "len"
        /\ \A w \in Words : Word(i, w) \in Location /\ Word(i, w)[1] \in {"lo", "hi"}
  BY DEF Magic, RHead, FTail, RTail, FHead, Cell, FreeRing, ReadyRing, LenArr, Word, Location

LEMMA CellIs ==
  ASSUME NEW l \in Location
  PROVE  /\ l[1] = "magic" <=> l = Magic
         /\ l[1] = "r_head" <=> l = RHead
         /\ l[1] = "f_tail" <=> l = FTail
         /\ l[1] = "r_tail" <=> l = RTail
         /\ l[1] = "f_head" <=> l = FHead
         /\ l[1] \in {"magic", "r_head", "f_tail", "r_tail", "f_head", "free", "ready", "len", "lo", "hi"}
  BY DEF Magic, RHead, FTail, RTail, FHead, Cell, FreeRing, ReadyRing, LenArr, Word, Location

LEMMA PoolSize ==
  /\ NBuf \in Nat \ {0} /\ CursorMod \in Nat \ {0} /\ CursorMod > NBuf
  /\ Divides => CursorMod % NBuf = 0
  BY BulkAssumption DEF BulkAssumption, Divides

\* The slot of a cursor is that of the count behind it.
LEMMA Slots ==
  ASSUME Divides, NEW k \in Nat
  PROVE  Slot(k % CursorMod) = k % NBuf /\ k % NBuf \in Buf /\ k % CursorMod \in Cursor
         /\ Next1(k % CursorMod) = (k + 1) % CursorMod
  <1>1. NBuf \in Nat \ {0} /\ CursorMod \in Nat \ {0} /\ CursorMod % NBuf = 0
    BY PoolSize
  <1>2. (k % CursorMod) % NBuf = k % NBuf
    BY <1>1, ModMod
  <1>3. k % NBuf \in Buf /\ k % CursorMod \in Cursor
    BY <1>1, DivMod DEF Buf, Cursor
  <1>4. ((k % CursorMod) + 1) % CursorMod = (k + 1) % CursorMod
    BY <1>1, ModStep
  <1> QED BY <1>2, <1>3, <1>4 DEF Slot, Next1

LEMMA SlotsDiffer ==
  ASSUME NEW k \in Nat, NEW j \in Nat, k < j, j < k + NBuf PROVE k % NBuf # j % NBuf
  BY PoolSize, ModDistinct

\* Two cursors that are no more than the pool apart are the same only if nothing is between.
LEMMA CursorsDiffer ==
  ASSUME NEW k \in Nat, NEW j \in Nat, k < j, j <= k + NBuf PROVE k % CursorMod # j % CursorMod
  <1>1. j < k + CursorMod
    BY PoolSize
  <1> QED BY <1>1, PoolSize, ModDistinct

\* What a core sees of a cell: the store that waits, or the memory.
LEMMA OwnIs ==
  ASSUME StoresFit, NEW side \in Side, NEW l
  PROVE  /\ \A s \in pend[side] : s[1] = l => Own(side, l) = s[2]
         /\ (\A s \in pend[side] : s[1] # l) => Own(side, l) = mem[l]
  <1>1. ASSUME NEW s \in pend[side], s[1] = l PROVE Own(side, l) = s[2]
    <2> DEFINE c == CHOOSE r \in pend[side] : r[1] = l
    <2>1. c \in pend[side] /\ c[1] = l
      BY <1>1
    <2>2. c = s
      BY <1>1, <2>1 DEF StoresFit
    <2> QED BY <1>1, <2>2 DEF Own
  <1>2. ASSUME \A s \in pend[side] : s[1] # l PROVE Own(side, l) = mem[l]
    BY <1>2 DEF Own
  <1> QED BY <1>1, <1>2

LEMMA OwnKept ==
  ASSUME StoresFit, StoresFit', NEW side \in Side, NEW l, pend'[side] = pend[side], mem'[l] = mem[l]
  PROVE  Own(side, l)' = Own(side, l)
  <1>1. CASE \E s \in pend[side] : s[1] = l
    <2>1. PICK s \in pend[side] : s[1] = l
      BY <1>1
    <2>2. Own(side, l) = s[2]
      BY <2>1, OwnIs
    <2>3. s \in pend'[side] /\ \A r, q \in pend'[side] : r[1] = q[1] => r = q
      BY DEF StoresFit
    <2>4. Own(side, l)' = s[2]
      <3> DEFINE c == CHOOSE r \in pend'[side] : r[1] = l
      <3>1. c \in pend'[side] /\ c[1] = l
        BY <2>1, <2>3
      <3>2. c = s
        BY <2>1, <2>3, <3>1
      <3> QED BY <2>1, <2>3, <3>2 DEF Own
    <2> QED BY <2>2, <2>4
  <1>2. CASE \A s \in pend[side] : s[1] # l
    <2>1. Own(side, l) = mem[l]
      BY <1>2, OwnIs
    <2>2. Own(side, l)' = mem'[l]
      BY <1>2 DEF Own
    <2> QED BY <2>1, <2>2
  <1> QED BY <1>1, <1>2

\* Stores put into a core's buffer, each to a cell of its own.
LEMMA PutFits ==
  ASSUME StoresFit, NEW side \in Side, NEW stores, Put(side, stores), UNCHANGED mem,
         \A n \in stores : n[1] \in Location /\ Fits(n[1], n[2]),
         \A n, m \in stores : n[1] = m[1] => n = m
  PROVE  /\ StoresFit'
         /\ \A r \in Side : r # side => pend'[r] = pend[r]
         /\ pend'[side] = {s \in pend[side] : s[1] \notin {n[1] : n \in stores}} \cup stores
  <1>1. /\ DOMAIN pend' = Side
        /\ pend'[side] = {s \in pend[side] : s[1] \notin {n[1] : n \in stores}} \cup stores
        /\ \A r \in Side : r # side => pend'[r] = pend[r]
    BY DEF Put, StoresFit
  <1>2. \A r \in Side : \A s \in pend'[r] : s[1] \in Location /\ Fits(s[1], s[2])
    <2> SUFFICES ASSUME NEW r \in Side, NEW s \in pend'[r] PROVE s[1] \in Location /\ Fits(s[1], s[2])
      OBVIOUS
    <2>1. s \in pend[r] \/ s \in stores
      BY <1>1
    <2> QED BY <2>1 DEF StoresFit
  <1>3. \A r \in Side : \A s, q \in pend'[r] : s[1] = q[1] => s = q
    <2> SUFFICES ASSUME NEW r \in Side, NEW s \in pend'[r], NEW q \in pend'[r], s[1] = q[1] PROVE s = q
      OBVIOUS
    <2>1. CASE r # side
      BY <1>1, <2>1 DEF StoresFit
    <2>2. CASE r = side /\ s \in stores
      BY <1>1, <2>2
    <2>3. CASE r = side /\ s \notin stores
      BY <1>1, <2>3 DEF StoresFit
    <2> QED BY <2>1, <2>2, <2>3
  <1> QED BY <1>1, <1>2, <1>3 DEF StoresFit, Fits, CursorCells, Cursor

LEMMA OwnPut ==
  ASSUME StoresFit, StoresFit', NEW side \in Side, NEW stores, Put(side, stores), UNCHANGED mem
  PROVE  /\ \A n \in stores : Own(side, n[1])' = n[2]
         /\ \A l : (\A n \in stores : n[1] # l) => Own(side, l)' = Own(side, l)
  <1>1. pend'[side] = {s \in pend[side] : s[1] \notin {n[1] : n \in stores}} \cup stores
    BY DEF Put, StoresFit
  <1>2. ASSUME NEW s \in pend'[side] PROVE Own(side, s[1])' = s[2]
    <2> DEFINE c == CHOOSE r \in pend'[side] : r[1] = s[1]
    <2>1. c \in pend'[side] /\ c[1] = s[1]
      BY <1>2
    <2>2. c = s
      BY <2>1, <1>2 DEF StoresFit
    <2> QED BY <1>2, <2>2 DEF Own
  <1>3. ASSUME NEW l, \A n \in stores : n[1] # l PROVE Own(side, l)' = Own(side, l)
    <2>1. CASE \E s \in pend[side] : s[1] = l
      <3>1. PICK s \in pend[side] : s[1] = l
        BY <2>1
      <3>2. s \in pend'[side]
        BY <1>1, <1>3, <3>1
      <3> QED BY <1>2, <3>1, <3>2, OwnIs
    <2>2. CASE \A s \in pend[side] : s[1] # l
      <3>1. \A s \in pend'[side] : s[1] # l
        BY <1>1, <1>3, <2>2
      <3>2. Own(side, l)' = mem'[l]
        BY <3>1 DEF Own
      <3> QED BY <3>2, <2>2, OwnIs
    <2> QED BY <2>1, <2>2
  <1> QED BY <1>1, <1>2, <1>3

\* A waiting store that lands changes one cell, and not what its core sees.
Lands(side, s) ==
    /\ mem' = [mem EXCEPT ![s[1]] = s[2]]
    /\ pend' = [pend EXCEPT ![side] = @ \ {s}]

LEMMA LandsFits ==
  ASSUME StoresFit, NEW side \in Side, NEW s \in pend[side], Lands(side, s)
  PROVE  /\ StoresFit'
         /\ pend'[side] = pend[side] \ {s} /\ \A r \in Side : r # side => pend'[r] = pend[r]
         /\ s[1] \in Location /\ mem'[s[1]] = s[2]
         /\ \A l \in Location : l # s[1] => mem'[l] = mem[l]
  <1>1. /\ DOMAIN pend' = Side /\ DOMAIN mem' = Location
        /\ pend'[side] = pend[side] \ {s} /\ \A r \in Side : r # side => pend'[r] = pend[r]
        /\ s[1] \in Location /\ mem'[s[1]] = s[2]
        /\ \A l \in Location : l # s[1] => mem'[l] = mem[l]
    BY DEF Lands, StoresFit
  <1>2. \A l \in Location : Fits(l, mem'[l])
    BY <1>1 DEF StoresFit
  <1>3. \A r \in Side : \A q \in pend'[r] : q \in pend[r]
    BY <1>1
  <1> QED BY <1>1, <1>2, <1>3 DEF StoresFit, Fits, CursorCells, Cursor

LEMMA OwnLands ==
  ASSUME StoresFit, NEW side \in Side, NEW s \in pend[side], Lands(side, s), NEW l \in Location
  PROVE  /\ Own(side, l)' = Own(side, l)
         /\ \A r \in Side : l # s[1] => Own(r, l)' = Own(r, l)
         /\ l = s[1] => mem'[l] = Own(side, l)
  <1>1. /\ StoresFit'
        /\ pend'[side] = pend[side] \ {s} /\ \A r \in Side : r # side => pend'[r] = pend[r]
        /\ s[1] \in Location /\ mem'[s[1]] = s[2]
        /\ \A k \in Location : k # s[1] => mem'[k] = mem[k]
    BY LandsFits
  <1>2. CASE l = s[1]
    <2>1. \A q \in pend'[side] : q[1] # l
      BY <1>1, <1>2 DEF StoresFit
    <2>2. Own(side, l)' = mem'[l]
      BY <2>1 DEF Own
    <2>3. Own(side, l) = s[2]
      BY <1>2, OwnIs
    <2> QED BY <1>1, <1>2, <2>2, <2>3
  <1>3. CASE l # s[1]
    <2>1. mem'[l] = mem[l]
      BY <1>1, <1>3
    <2>2. \A r \in Side : r # side => Own(r, l)' = Own(r, l)
      BY <1>1, <2>1, OwnKept
    <2>3. Own(side, l)' = Own(side, l)
      <3>1. CASE \E q \in pend[side] : q[1] = l
        <4>1. PICK q \in pend[side] : q[1] = l
          BY <3>1
        <4>2. q \in pend'[side]
          BY <1>1, <1>3, <4>1
        <4> DEFINE c == CHOOSE r \in pend'[side] : r[1] = l
        <4>3. c \in pend'[side] /\ c[1] = l
          BY <4>1, <4>2
        <4>4. c = q
          BY <1>1, <4>1, <4>2, <4>3 DEF StoresFit
        <4>5. Own(side, l)' = q[2]
          BY <4>1, <4>2, <4>4 DEF Own
        <4> QED BY <4>1, <4>5, OwnIs
      <3>2. CASE \A q \in pend[side] : q[1] # l
        <4>1. \A q \in pend'[side] : q[1] # l
          BY <1>1, <3>2
        <4>2. Own(side, l)' = mem'[l]
          BY <4>1 DEF Own
        <4> QED BY <2>1, <3>2, <4>2, OwnIs
      <3> QED BY <3>1, <3>2
    <2> QED BY <1>3, <2>2, <2>3
  <1> QED BY <1>2, <1>3


-------------------------------------------------------------------------------
(***************************************************************************)
(* What the cells and the locals may hold, kept by every action.           *)
(***************************************************************************)
\* A core reads from a cell what may be in it.
LEMMA OwnFits ==
  ASSUME StoresFit, NEW side \in Side, NEW l \in Location PROVE Fits(l, Own(side, l))
  <1>1. CASE \E s \in pend[side] : s[1] = l
    <2>1. PICK s \in pend[side] : s[1] = l
      BY <1>1
    <2>2. Own(side, l) = s[2]
      BY <2>1, OwnIs
    <2> QED BY <2>1, <2>2 DEF StoresFit
  <1>2. CASE \A s \in pend[side] : s[1] # l
    <2>1. Own(side, l) = mem[l]
      BY <1>2, OwnIs
    <2> QED BY <2>1 DEF StoresFit
  <1> QED BY <1>1, <1>2

LEMMA OwnCursor ==
  ASSUME StoresFit, NEW side \in Side, NEW l \in CursorCells
  PROVE  Own(side, l) \in Cursor /\ mem[l] \in Cursor /\ l \in Location
  <1>1. l \in Location
    BY Cells DEF CursorCells
  <1>2. Fits(l, Own(side, l)) /\ Fits(l, mem[l])
    BY <1>1, OwnFits DEF StoresFit
  <1> QED BY <1>1, <1>2 DEF Fits

LEMMA Numbers ==
  /\ 0 \in Cursor /\ NBuf \in Cursor /\ 0 \in Buf
  /\ \A c \in Cursor : Next1(c) \in Cursor /\ Slot(c) \in Buf
  <1>1. NBuf \in Nat \ {0} /\ CursorMod \in Nat \ {0} /\ CursorMod > NBuf
    BY PoolSize
  <1>2. ASSUME NEW c \in Cursor PROVE Next1(c) \in Cursor /\ Slot(c) \in Buf
    <2>1. c \in Nat /\ c + 1 \in Nat
      BY <1>2, <1>1 DEF Cursor
    <2>2. (c + 1) % CursorMod \in 0 .. CursorMod - 1 /\ c % NBuf \in 0 .. NBuf - 1
      BY <1>1, <2>1, DivMod
    <2> QED BY <2>2 DEF Next1, Slot, Cursor, Buf
  <1>3. 0 \in Cursor /\ NBuf \in Cursor /\ 0 \in Buf
    BY <1>1 DEF Cursor, Buf
  <1> QED BY <1>2, <1>3

\* One store to a cursor's cell.
LEMMA PutCursor ==
  ASSUME StoresFit, NEW side \in Side, NEW l \in CursorCells, NEW c \in Cursor,
         Put(side, {<<l, c>>}), UNCHANGED mem
  PROVE  /\ StoresFit'
         /\ \A r \in Side : r # side => pend'[r] = pend[r]
         /\ \A s \in pend'[side] : s = <<l, c>> \/ s \in pend[side]
         /\ Own(side, l)' = c
         /\ \A k : k # l => Own(side, k)' = Own(side, k)
  <1>1. \A n \in {<<l, c>>} : n[1] \in Location /\ Fits(n[1], n[2])
    BY Cells DEF CursorCells, Fits
  <1>2. \A n, m \in {<<l, c>>} : n[1] = m[1] => n = m
    OBVIOUS
  <1>3. /\ StoresFit'
        /\ \A r \in Side : r # side => pend'[r] = pend[r]
        /\ pend'[side] = {s \in pend[side] : s[1] \notin {n[1] : n \in {<<l, c>>}}} \cup {<<l, c>>}
    BY <1>1, <1>2, PutFits
  <1>4. /\ \A n \in {<<l, c>>} : Own(side, n[1])' = n[2]
        /\ \A k : (\A n \in {<<l, c>>} : n[1] # k) => Own(side, k)' = Own(side, k)
    BY <1>3, OwnPut
  <1> QED BY <1>3, <1>4

LEMMA RingStoresFit ==
  LET stores == {<<RHead, 0>>, <<RTail, 0>>, <<FTail, 0>>, <<FHead, NBuf>>}
                    \cup {<<FreeRing(i), i>> : i \in Buf}
  IN  /\ \A n \in stores : n[1] \in Location /\ Fits(n[1], n[2]) /\ n[1] # Magic
      /\ \A n, m \in stores : n[1] = m[1] => n = m
  <1> DEFINE four == {<<RHead, 0>>, <<RTail, 0>>, <<FTail, 0>>, <<FHead, NBuf>>}
             ring == {<<FreeRing(i), i>> : i \in Buf}
  <1>1. \A n \in four : n[1] \in Location /\ Fits(n[1], n[2]) /\ n[1] # Magic /\ n[1][1] # "free"
    BY Cells, Numbers DEF Fits
  <1>2. \A n \in ring : n[1] \in Location /\ Fits(n[1], n[2]) /\ n[1] # Magic /\ n[1][1] = "free" /\ n[1][2] = n[2]
    BY Cells DEF Fits, CursorCells
  <1>3. \A n, m \in four : n[1] = m[1] => n = m
    BY Cells
  <1>4. \A n, m \in ring : n[1] = m[1] => n = m
    BY <1>2
  <1> QED BY <1>1, <1>2, <1>3, <1>4

LEMMA FillStoresFit ==
  ASSUME NEW b \in Buf, NEW x
  PROVE  LET stores == {<<Word(b, w), x>> : w \in Words}
         IN  /\ \A n \in stores : n[1] \in Location /\ Fits(n[1], n[2]) /\ n[1][1] \in {"lo", "hi"}
             /\ \A n, m \in stores : n[1] = m[1] => n = m
  BY Cells DEF Fits, CursorCells, Words

LEMMA PublishStoresFit ==
  ASSUME NEW b \in Buf, NEW i \in Buf, NEW x \in Nat
  PROVE  LET stores == {<<LenArr(b), x>>, <<ReadyRing(i), b>>}
         IN  /\ \A n \in stores : n[1] \in Location /\ Fits(n[1], n[2]) /\ n[1][1] \in {"len", "ready"}
             /\ \A n, m \in stores : n[1] = m[1] => n = m
  BY Cells DEF Fits, CursorCells

LEMMA ReleaseStoresFit ==
  ASSUME NEW b \in Buf, NEW i \in Buf
  PROVE  LET stores == {<<FreeRing(i), b>>}
         IN  /\ \A n \in stores : n[1] \in Location /\ Fits(n[1], n[2]) /\ n[1][1] = "free"
             /\ \A n, m \in stores : n[1] = m[1] => n = m
  BY Cells DEF Fits, CursorCells

LEMMA MagicStoreFits ==
  ASSUME NEW x
  PROVE  LET stores == {<<Magic, x>>}
         IN  /\ \A n \in stores : n[1] \in Location /\ Fits(n[1], n[2]) /\ n[1] = Magic
             /\ \A n, m \in stores : n[1] = m[1] => n = m
  BY Cells DEF Fits, CursorCells

LEMMA StoresSame ==
  ASSUME StoresFit, UNCHANGED <<mem, pend>> PROVE StoresFit'
  BY DEF StoresFit, Fits, CursorCells, Cursor, Buf

LEMMA StoresKept ==
  ASSUME StoresFit, LocalsFit, Next PROVE StoresFit'
  <1> DEFINE Quiet == InitDone \/ LoanFails \/ LoanCursors \/ LoanEntry \/ Valid \/ TakeNothing
                        \/ TakeCursors \/ TakeEntry \/ TakeLength \/ Read
  <1>0. "P" \in Side /\ "C" \in Side
    BY DEF Side
  <1>1. CASE Quiet
    <2>1. UNCHANGED <<mem, pend>>
      BY <1>1 DEF InitDone, LoanFails, LoanCursors, LoanEntry, Valid, TakeNothing, TakeCursors,
                  TakeEntry, TakeLength, Read, ReadWord
    <2> QED BY <2>1, StoresSame
  <1>2. CASE InitWithdraw \/ InitAnnounce
    <2>1. PICK x : Put("P", {<<Magic, x>>}) /\ UNCHANGED mem
      BY <1>2 DEF InitWithdraw, InitAnnounce
    <2> QED BY <1>0, <2>1, MagicStoreFits, PutFits
  <1>3. CASE InitRings
    <2> DEFINE stores == {<<RHead, 0>>, <<RTail, 0>>, <<FTail, 0>>, <<FHead, NBuf>>}
                            \cup {<<FreeRing(i), i>> : i \in Buf}
    <2>1. Put("P", stores) /\ UNCHANGED mem
      BY <1>3 DEF InitRings
    <2>2. /\ \A n \in stores : n[1] \in Location /\ Fits(n[1], n[2])
          /\ \A n, m \in stores : n[1] = m[1] => n = m
      BY RingStoresFit
    <2> HIDE DEF stores
    <2> QED BY <1>0, <2>1, <2>2, PutFits
  <1>4. CASE LoanAdvance
    <2>1. Put("P", {<<FTail, Next1(prod.cur)>>}) /\ UNCHANGED mem
      BY <1>4 DEF LoanAdvance
    <2>2. FTail \in CursorCells /\ Next1(prod.cur) \in Cursor
      BY Numbers DEF LocalsFit, CursorCells
    <2> QED BY <1>0, <2>1, <2>2, PutCursor
  <1>5. CASE PublishHead
    <2>1. Put("P", {<<RHead, Next1(prod.cur)>>}) /\ UNCHANGED mem
      BY <1>5 DEF PublishHead
    <2>2. RHead \in CursorCells /\ Next1(prod.cur) \in Cursor
      BY Numbers DEF LocalsFit, CursorCells
    <2> QED BY <1>0, <2>1, <2>2, PutCursor
  <1>6. CASE TakeAdvance
    <2>1. Put("C", {<<RTail, Next1(cons.cur)>>}) /\ UNCHANGED mem
      BY <1>6 DEF TakeAdvance
    <2>2. RTail \in CursorCells /\ Next1(cons.cur) \in Cursor
      BY Numbers DEF LocalsFit, CursorCells
    <2> QED BY <1>0, <2>1, <2>2, PutCursor
  <1>7. CASE ReleaseHead
    <2>1. Put("C", {<<FHead, Next1(cons.cur)>>}) /\ UNCHANGED mem
      BY <1>7 DEF ReleaseHead
    <2>2. FHead \in CursorCells /\ Next1(cons.cur) \in Cursor
      BY Numbers DEF LocalsFit, CursorCells
    <2> QED BY <1>0, <2>1, <2>2, PutCursor
  <1>8. CASE Fills
    <2>1. PICK b \in Buf : Fill(b)
      BY <1>8 DEF Fills
    <2> DEFINE stores == {<<Word(b, w), fills + 1>> : w \in Words}
    <2>2. Put("P", stores) /\ UNCHANGED mem
      BY <2>1 DEF Fill
    <2>3. /\ \A n \in stores : n[1] \in Location /\ Fits(n[1], n[2])
          /\ \A n, m \in stores : n[1] = m[1] => n = m
      BY FillStoresFit
    <2> HIDE DEF stores
    <2> QED BY <1>0, <2>2, <2>3, PutFits
  <1>9. CASE \E b \in Buf : PublishEntry(b)
    <2>1. PICK b \in Buf : PublishEntry(b)
      BY <1>9
    <2> DEFINE i == Slot(Own("P", RHead))
               stores == {<<LenArr(b), lentBuf[b]>>, <<ReadyRing(i), b>>}
    <2>2. Put("P", stores) /\ UNCHANGED mem /\ lentBuf[b] \in Message
      BY <2>1 DEF PublishEntry
    <2>3. i \in Buf
      <3>1. RHead \in CursorCells
        BY DEF CursorCells
      <3> QED BY <1>0, <3>1, OwnCursor, Numbers
    <2>4. lentBuf[b] \in Nat
      BY <2>2 DEF Message
    <2> HIDE DEF i
    <2>5. /\ \A n \in stores : n[1] \in Location /\ Fits(n[1], n[2])
          /\ \A n, m \in stores : n[1] = m[1] => n = m
      BY <2>3, <2>4, PublishStoresFit
    <2> HIDE DEF stores
    <2> QED BY <1>0, <2>2, <2>5, PutFits
  <1>10. CASE \E b \in Buf : ReleaseEntry(b)
    <2>1. PICK b \in Buf : ReleaseEntry(b)
      BY <1>10
    <2> DEFINE i == Slot(Own("C", FHead))
               stores == {<<FreeRing(i), b>>}
    <2>2. Put("C", stores) /\ UNCHANGED mem
      BY <2>1 DEF ReleaseEntry
    <2>3. i \in Buf
      <3>1. FHead \in CursorCells
        BY DEF CursorCells
      <3> QED BY <1>0, <3>1, OwnCursor, Numbers
    <2> HIDE DEF i
    <2>5. /\ \A n \in stores : n[1] \in Location /\ Fits(n[1], n[2])
          /\ \A n, m \in stores : n[1] = m[1] => n = m
      BY <2>3, ReleaseStoresFit
    <2> HIDE DEF stores
    <2> QED BY <1>0, <2>2, <2>5, PutFits
  <1>11. CASE \E side \in Side : Drain(side)
    <2>1. PICK side \in Side : Drain(side)
      BY <1>11
    <2>2. PICK s \in pend[side] : Lands(side, s)
      BY <2>1 DEF Drain, Lands
    <2> QED BY <2>2, LandsFits
  <1> QED BY <1>1, <1>2, <1>3, <1>4, <1>5, <1>6, <1>7, <1>8, <1>9, <1>10, <1>11
          DEF Next, Producer, Consumer, BulkInit, Loan, Publish, Take, Release

\* The entries and lengths a core reads.
LEMMA Reads ==
  ASSUME StoresFit, NEW c \in Cursor, NEW b \in Buf
  PROVE  /\ mem[FreeRing(Slot(c))] \in Buf /\ mem[ReadyRing(Slot(c))] \in Buf
         /\ mem[LenArr(b)] \in Nat
  <1>1. Slot(c) \in Buf
    BY Numbers
  <1>2. \A i \in Buf : mem[FreeRing(i)] \in Buf /\ mem[ReadyRing(i)] \in Buf /\ mem[LenArr(i)] \in Nat
    BY Cells DEF StoresFit, Fits
  <1> QED BY <1>1, <1>2

LEMMA NotHeldIs == NotHeldBuf.len = -1 /\ DOMAIN NotHeldBuf = {"len", "saw"}
  BY DEF NotHeldBuf

LEMMA LocalsKept ==
  ASSUME StoresFit, LocalsFit, Next PROVE LocalsFit'
  <1> USE DEF ProdAt, ConsAt, ProdGo, ConsumerIdle, ProducerIdle
  <1>0. "P" \in Side /\ "C" \in Side
    BY DEF Side
  <1>a. MaxOverflows \in Nat /\ MaxRestarts \in Nat /\ NMessage \in Nat \ {0}
    BY BulkAssumption DEF BulkAssumption
  <1>b. ASSUME NEW l \in CursorCells, NEW side \in Side PROVE Own(side, l) \in Cursor
    BY OwnCursor
  <1>c. RHead \in CursorCells /\ FTail \in CursorCells /\ RTail \in CursorCells /\ FHead \in CursorCells
    BY DEF CursorCells
  <1>d. ASSUME prod' = prod PROVE DOMAIN prod' = {"pc", "cur", "idx"} /\ prod'.pc \in ProdPcs
          /\ prod'.cur \in Cursor /\ prod'.idx \in Buf
    BY <1>d DEF LocalsFit
  <1>1. CASE InitWithdraw \/ InitAnnounce \/ InitDone
    BY <1>1 DEF InitWithdraw, InitAnnounce, InitDone, LocalsFit, ProdPcs, ConsPcs, Cursor, Buf, Message
  <1>2. CASE InitRings
    <2>1. overflows' = 0 /\ 0 \in 0 .. MaxOverflows
      BY <1>2, <1>a DEF InitRings
    <2> QED BY <1>2, <2>1 DEF InitRings, LocalsFit, ProdPcs, ConsPcs, Cursor, Buf, Message
  <1>3. CASE LoanFails
    <2>1. overflows' \in 0 .. MaxOverflows
      BY <1>3, <1>a DEF LoanFails, LocalsFit
    <2> QED BY <1>3, <2>1 DEF LoanFails, LocalsFit, ProdPcs, ConsPcs, Cursor, Buf, Message
  <1>4. CASE LoanCursors
    <2>1. Own("P", FTail) \in Cursor
      BY <1>0, <1>b, <1>c
    <2> QED BY <1>4, <2>1 DEF LoanCursors, LocalsFit, ProdPcs, ConsPcs, Cursor, Buf, Message
  <1>5. CASE LoanEntry
    <2>1. mem[FreeRing(Slot(prod.cur))] \in Buf
      BY Reads, Numbers DEF LocalsFit
    <2> QED BY <1>5, <2>1 DEF LoanEntry, LocalsFit, ProdPcs, ConsPcs, Cursor, Buf, Message
  <1>6. CASE LoanAdvance \/ PublishHead
    <2>1. lentBuf' \in [Buf -> Message \cup {0, NotLent}]
      BY <1>6 DEF LoanAdvance, PublishHead, LocalsFit
    <2>2. prod' = [pc |-> "idle", cur |-> 0, idx |-> 0]
      BY <1>6 DEF LoanAdvance, PublishHead
    <2> QED BY <1>6, <2>1, <2>2, Numbers DEF LoanAdvance, PublishHead, LocalsFit, ProdPcs, ConsPcs
  <1>7. CASE Fills
    <2>1. PICK b \in Buf : Fill(b)
      BY <1>7 DEF Fills
    <2>2. fills + 1 \in Message /\ fills' \in 0 .. NMessage - 1
      <3>1. fills \in Nat /\ fills + 1 \in Nat /\ fills + 1 \in 1 .. NMessage
        BY <1>a DEF LocalsFit
      <3>2. (fills + 1) % NMessage \in 0 .. NMessage - 1
        BY <1>a, <3>1, DivMod
      <3> QED BY <2>1, <3>1, <3>2 DEF Fill, Message
    <2>3. lentBuf' \in [Buf -> Message \cup {0, NotLent}]
      BY <2>1, <2>2 DEF Fill, LocalsFit
    <2> QED BY <2>1, <2>2, <2>3 DEF Fill, LocalsFit
  <1>8. CASE \E b \in Buf : PublishEntry(b)
    <2>1. PICK b \in Buf : PublishEntry(b)
      BY <1>8
    <2>2. Own("P", RHead) \in Cursor
      BY <1>0, <1>b, <1>c
    <2> QED BY <2>1, <2>2 DEF PublishEntry, LocalsFit, ProdPcs
  <1>9. CASE Valid \/ TakeNothing
    BY <1>9 DEF Valid, TakeNothing, LocalsFit, ConsPcs
  <1>10. CASE TakeCursors
    <2>1. Own("C", RTail) \in Cursor
      BY <1>0, <1>b, <1>c
    <2> QED BY <1>10, <2>1 DEF TakeCursors, LocalsFit, ConsPcs
  <1>11. CASE TakeEntry
    <2>1. mem[ReadyRing(Slot(cons.cur))] \in Buf
      BY Reads, Numbers DEF LocalsFit
    <2> QED BY <1>11, <2>1 DEF TakeEntry, LocalsFit, ConsPcs
  <1>12. CASE TakeLength
    <2>1. mem[LenArr(cons.idx)] \in Nat
      BY Reads, Numbers DEF LocalsFit
    <2> QED BY <1>12, <2>1 DEF TakeLength, LocalsFit, ConsPcs
  <1>13. CASE TakeAdvance
    <2>1. DOMAIN heldBuf' = Buf
      BY <1>13 DEF TakeAdvance, LocalsFit
    <2>2. \A b \in Buf : heldBuf'[b] = NotHeldBuf \/ (DOMAIN heldBuf'[b] = {"len", "saw"} /\ heldBuf'[b].len \in Nat)
      <3>1. DOMAIN [NotHeldBuf EXCEPT !.len = cons.len] = {"len", "saw"} /\ [NotHeldBuf EXCEPT !.len = cons.len].len \in Nat
        BY NotHeldIs DEF LocalsFit
      <3> QED BY <1>13, <3>1 DEF TakeAdvance, LocalsFit
    <2>3. cons' = [pc |-> "idle", cur |-> 0, idx |-> 0, len |-> 0]
      BY <1>13 DEF TakeAdvance
    <2> QED BY <1>13, <2>1, <2>2, <2>3, Numbers DEF TakeAdvance, LocalsFit, ConsPcs
  <1>14. CASE Read
    <2>1. PICK b \in Buf, w \in Words : ReadWord(b, w)
      BY <1>14 DEF Read
    <2>2. DOMAIN heldBuf' = Buf /\ heldBuf'[b] = [heldBuf[b] EXCEPT !.saw[w] = mem[Word(b, w)]]
          /\ \A x \in Buf : x # b => heldBuf'[x] = heldBuf[x]
      BY <2>1 DEF ReadWord, LocalsFit
    <2>3. DOMAIN heldBuf[b] = {"len", "saw"} /\ heldBuf[b].len \in Nat
      BY <2>1 DEF ReadWord, LocalsFit, HeldNow
    <2>4. DOMAIN heldBuf'[b] = {"len", "saw"} /\ heldBuf'[b].len \in Nat
      BY <2>2, <2>3
    <2> QED BY <2>1, <2>2, <2>4 DEF ReadWord, LocalsFit
  <1>15. CASE \E b \in Buf : ReleaseEntry(b)
    <2>1. PICK b \in Buf : ReleaseEntry(b)
      BY <1>15
    <2>2. Own("C", FHead) \in Cursor
      BY <1>0, <1>b, <1>c
    <2> QED BY <2>1, <2>2 DEF ReleaseEntry, LocalsFit, ConsPcs
  <1>16. CASE ReleaseHead
    <2>1. DOMAIN heldBuf' = Buf
      BY <1>16 DEF ReleaseHead, LocalsFit
    <2>2. \A b \in Buf : heldBuf'[b] = NotHeldBuf \/ (DOMAIN heldBuf'[b] = {"len", "saw"} /\ heldBuf'[b].len \in Nat)
      BY <1>16 DEF ReleaseHead, LocalsFit
    <2>3. cons' = [pc |-> "idle", cur |-> 0, idx |-> 0, len |-> 0]
      BY <1>16 DEF ReleaseHead
    <2> QED BY <1>16, <2>1, <2>2, <2>3, Numbers DEF ReleaseHead, LocalsFit, ConsPcs
  <1>17. CASE \E side \in Side : Drain(side)
    BY <1>17 DEF Drain, LocalsFit
  <1> QED BY <1>1, <1>2, <1>3, <1>4, <1>5, <1>6, <1>7, <1>8, <1>9, <1>10, <1>11, <1>12, <1>13, <1>14, <1>15, <1>16, <1>17
          DEF Next, Producer, Consumer, BulkInit, Loan, Publish, Take, Release

-------------------------------------------------------------------------------
(***************************************************************************)
(* bulk_init, beside a consumer that has not attached.                     *)
(***************************************************************************)
\* The rings are laid out: the free ring is full.
LEMMA LaidOut ==
  ASSUME StoresFit, StoresFit', \A s \in Layout : mem'[s[1]] = s[2], pend'["P"] = {<<Magic, 1>>}, pend'["C"] = {},
         prod'.pc = "visible", cons'.pc = "out", Lent' = {}, HeldNow' = {}
  PROVE  Pool(0, NBuf, NBuf, 0, 0, 0)'
  <1>0. "P" \in Side /\ "C" \in Side /\ Magic # RHead /\ Magic # FTail
    BY Cells DEF Side
  <1>a. NBuf \in Nat \ {0} /\ CursorMod \in Nat \ {0} /\ CursorMod > NBuf
    BY PoolSize
  <1>1. mem'[RHead] = 0 /\ mem'[RTail] = 0 /\ mem'[FTail] = 0 /\ mem'[FHead] = NBuf
    <2>1. <<RHead, 0>> \in Layout /\ <<RTail, 0>> \in Layout /\ <<FTail, 0>> \in Layout /\ <<FHead, NBuf>> \in Layout
      BY DEF Layout
    <2> QED BY <2>1
  <1>2. \A i \in Buf : mem'[FreeRing(i)] = i
    <2>1. \A i \in Buf : <<FreeRing(i), i>> \in Layout
      BY DEF Layout
    <2> QED BY <2>1
  <1>3. \A k \in 0 .. NBuf - 1 : k \in Buf /\ k % NBuf = k
    BY <1>a, ModSmall DEF Buf
  <1>4. \A k \in 0 .. NBuf - 1 : FreeAt(k)' = k
    BY <1>2, <1>3 DEF FreeAt
  <1>5. 0 % CursorMod = 0 /\ NBuf % CursorMod = NBuf
    <2>1. 0 \in 0 .. CursorMod - 1 /\ NBuf \in 0 .. CursorMod - 1
      BY <1>a
    <2> QED BY <1>a, <2>1, ModSmall
  <1>6. Own("P", FTail)' = 0 /\ Own("P", RHead)' = 0
    BY <1>0, <1>1 DEF Own
  <1>7. Own("C", FHead)' = NBuf /\ Own("C", RTail)' = 0
    BY <1>1 DEF Own
  <1>8. Turns(0, NBuf, NBuf, 0, 0, 0)'
    BY <1>a, <1>1, <1>5, <1>6, <1>7 DEF Turns
  <1>9. Waiting(NBuf, 0)'
    BY Cells DEF Waiting
  <1>10. Loaning(0, NBuf)' /\ Publishing(0, 0)' /\ Taking(0, 0)' /\ Releasing(0, NBuf)'
    BY DEF Loaning, Publishing, Taking, Releasing
  <1>11. Somewhere(0, NBuf, 0, 0)'
    <2>1. \A b \in Buf : b \in 0 .. NBuf - 1 /\ FreeAt(b)' = b
      BY <1>4 DEF Buf
    <2> QED BY <2>1 DEF Somewhere
  <1>12. NotTwice(0, NBuf, 0, 0)'
    <2>1. 0 .. 0 - 1 = {}
      OBVIOUS
    <2> QED BY <2>1, <1>4 DEF NotTwice
  <1> QED BY <1>8, <1>9, <1>10, <1>11, <1>12 DEF Pool

LEMMA BootKept ==
  ASSUME StoresFit, LocalsFit, Booting, ~Ready, Next, StoresFit'
  PROVE  /\ Booting'
         /\ Ready' => /\ Pool(0, NBuf, NBuf, 0, 0, 0)' /\ Lent' = {} /\ HeldNow' = {}
                      /\ pend'["P"] = {<<Magic, 1>>} /\ prod'.pc = "visible" /\ cons'.pc = "out"
  <1> USE DEF ProdAt, ConsAt, ProdGo, ConsumerIdle
  <1>0. "P" \in Side /\ "C" \in Side /\ DOMAIN pend = Side /\ DOMAIN prod = {"pc", "cur", "idx"} /\ DOMAIN cons = {"pc", "cur", "idx", "len"}
    BY DEF Side, StoresFit, LocalsFit
  <1>1. /\ prod.pc \in {"boot", "clear", "announce"} /\ pend["C"] = {} /\ cons.pc = "out" /\ mem[Magic] = 0
        /\ Lent = {} /\ HeldNow = {}
    BY DEF Ready, Booting
  <1>2. InitWithdraw \/ InitRings \/ InitAnnounce \/ Drain("P")
    <2>1. ~InitDone /\ ~Loan /\ ~Fills /\ ~Publish /\ ~LoanFails
      BY <1>1 DEF InitDone, Loan, LoanCursors, LoanEntry, LoanAdvance, Fills, Fill, Publish, PublishEntry, PublishHead, LoanFails
    <2>2. ~Consumer
      BY <1>1 DEF Consumer, Valid, TakeNothing, Take, TakeCursors, TakeEntry, TakeLength, TakeAdvance, Read, ReadWord,
                  Release, ReleaseEntry, ReleaseHead
    <2>3. ~Drain("C")
      BY <1>1 DEF Drain
    <2> QED BY <2>1, <2>2, <2>3 DEF Next, Producer, BulkInit, Side
  <1>3. ASSUME NEW stores, Put("P", stores), pend["P"] = {} PROVE pend'["P"] = stores /\ pend'["C"] = {}
    BY <1>0, <1>1, <1>3 DEF Put
  <1>4. ASSUME UNCHANGED <<lentBuf, cons, heldBuf>> PROVE Lent' = {} /\ HeldNow' = {} /\ cons'.pc = "out"
    BY <1>1, <1>4 DEF Lent, HeldNow
  <1>5. CASE InitWithdraw
    <2>1. prod.pc = "boot" /\ pend["P"] = {}
      BY <1>1, <1>5 DEF InitWithdraw, Booting
    <2>2. pend'["P"] = {<<Magic, 0>>} /\ pend'["C"] = {} /\ mem' = mem
      BY <1>3, <1>5, <2>1 DEF InitWithdraw
    <2>3. prod'.pc = "clear" /\ Lent' = {} /\ HeldNow' = {} /\ cons'.pc = "out"
      BY <1>0, <1>4, <1>5 DEF InitWithdraw
    <2> QED BY <1>1, <2>2, <2>3 DEF Booting, Ready
  <1>6. CASE InitRings
    <2>1. prod.pc = "clear" /\ pend["P"] = {}
      BY <1>1, <1>6 DEF InitRings, Fenced
    <2>2. pend'["P"] = Layout /\ pend'["C"] = {} /\ mem' = mem
      BY <1>3, <1>6, <2>1 DEF InitRings, Layout
    <2>3. prod'.pc = "announce" /\ Lent' = {} /\ HeldNow' = {} /\ cons'.pc = "out"
      BY <1>0, <1>4, <1>6 DEF InitRings
    <2>4. Layout' = Layout
      BY DEF Layout
    <2> QED BY <1>1, <2>2, <2>3, <2>4 DEF Booting, Ready
  <1>7. CASE InitAnnounce
    <2>1. prod.pc = "announce" /\ pend["P"] = {}
      BY <1>1, <1>7 DEF InitAnnounce, Fenced
    <2>2. pend'["P"] = {<<Magic, 1>>} /\ pend'["C"] = {} /\ mem' = mem
      BY <1>3, <1>7, <2>1 DEF InitAnnounce
    <2>3. prod'.pc = "visible" /\ Lent' = {} /\ HeldNow' = {} /\ cons'.pc = "out"
      BY <1>0, <1>4, <1>7 DEF InitAnnounce
    <2>4. ~Ready
      BY <1>1 DEF Ready
    <2>5. \A s \in Layout : mem'[s[1]] = s[2]
      BY <2>1, <2>2, <2>4 DEF Booting
    <2>6. Pool(0, NBuf, NBuf, 0, 0, 0)'
      BY <2>2, <2>3, <2>5, LaidOut
    <2> QED BY <2>2, <2>3, <2>6 DEF Booting, Ready
  <1>8. CASE Drain("P")
    <2>1. PICK s \in pend["P"] : Lands("P", s)
      BY <1>8 DEF Drain, Lands
    <2>2. UNCHANGED <<prod, lentBuf, cons, heldBuf>>
      BY <1>8 DEF Drain
    <2>3. /\ pend'["P"] = pend["P"] \ {s} /\ pend'["C"] = {}
          /\ s[1] \in Location /\ mem'[s[1]] = s[2]
          /\ \A l \in Location : l # s[1] => mem'[l] = mem[l]
      BY <1>0, <1>1, <2>1, LandsFits DEF Side
    <2>4. Lent' = {} /\ HeldNow' = {} /\ cons'.pc = "out" /\ prod'.pc = prod.pc /\ Magic \in Location
      BY <1>4, <2>2, Cells
    <2>5. CASE prod.pc = "clear"
      <3>1. pend["P"] \subseteq {<<Magic, 0>>}
        BY <2>5 DEF Booting, Ready
      <3>2. s = <<Magic, 0>>
        BY <3>1
      <3>3. mem'[Magic] = 0
        BY <2>3, <3>2
      <3>4. pend'["P"] \subseteq {<<Magic, 0>>}
        BY <2>3, <3>1
      <3> QED BY <2>3, <2>4, <2>5, <3>3, <3>4 DEF Booting, Ready
    <2>6. CASE prod.pc = "announce"
      <3>1. pend["P"] \subseteq Layout /\ \A r \in Layout : r \in pend["P"] \/ mem[r[1]] = r[2]
        BY <2>6 DEF Booting, Ready
      <3>2. /\ \A n \in Layout : n[1] \in Location /\ n[1] # Magic
            /\ \A n, m \in Layout : n[1] = m[1] => n = m
        BY RingStoresFit DEF Layout
      <3>3. s \in Layout
        BY <3>1
      <3>4. \A r \in Layout : r \in pend'["P"] \/ mem'[r[1]] = r[2]
        <4> SUFFICES ASSUME NEW r \in Layout, r \notin pend'["P"] PROVE mem'[r[1]] = r[2]
          OBVIOUS
        <4>1. CASE r = s
          BY <2>3, <4>1
        <4>2. CASE r # s
          BY <2>3, <3>1, <3>2, <3>3, <4>2
        <4> QED BY <4>1, <4>2
      <3>5. mem'[Magic] = 0
        BY <1>1, <2>3, <2>4, <3>2, <3>3
      <3>6. pend'["P"] \subseteq Layout /\ Layout' = Layout
        BY <2>3, <3>1 DEF Layout
      <3> QED BY <2>3, <2>4, <2>6, <3>4, <3>5, <3>6 DEF Booting, Ready
    <2>7. CASE prod.pc = "boot"
      <3>1. pend["P"] = {}
        BY <2>7 DEF Booting, Ready
      <3> QED BY <3>1
    <2> QED BY <1>1, <2>5, <2>6, <2>7
  <1> QED BY <1>2, <1>5, <1>6, <1>7, <1>8

-------------------------------------------------------------------------------
(***************************************************************************)
(* The pool, by action: the counts behind the cursors move when a cursor's *)
(* store is put into its core's buffer and when it lands.                  *)
(***************************************************************************)
LEMMA TurnsSame ==
  ASSUME NEW ft, NEW fv, NEW fh, NEW rt, NEW rv, NEW rh, Turns(ft, fv, fh, rt, rv, rh), UNCHANGED <<mem, pend>>
  PROVE  Turns(ft, fv, fh, rt, rv, rh)'
  BY DEF Turns, Own

LEMMA WaitingSame ==
  ASSUME NEW fh, NEW rh, Waiting(fh, rh), UNCHANGED pend,
         prod.pc = "publish" => prod'.pc = "publish" /\ prod'.idx = prod.idx,
         cons.pc = "release" => cons'.pc = "release" /\ cons'.idx = cons.idx
  PROVE  Waiting(fh, rh)'
  <1>1. \A s \in pend'["P"] : s \in pend["P"]
    OBVIOUS
  <1>2. \A s \in pend'["C"] : s \in pend["C"]
    OBVIOUS
  <1> QED BY <1>1, <1>2 DEF Waiting, ReadyRing, FreeRing

\* Where the buffers are is in the rings' entries and in what the cores hold.
LEMMA PlacesSame ==
  ASSUME NEW ft \in Nat, NEW fh \in Nat, NEW rt \in Nat, NEW rh \in Nat, Somewhere(ft, fh, rt, rh), NotTwice(ft, fh, rt, rh),
         \A k \in ft .. fh - 1 : FreeAt(k)' = FreeAt(k), \A k \in rt .. rh - 1 : ReadyAt(k)' = ReadyAt(k),
         Lent' = Lent, HeldNow' = HeldNow
  PROVE  Somewhere(ft, fh, rt, rh)' /\ NotTwice(ft, fh, rt, rh)'
  BY DEF Somewhere, NotTwice

\* Nothing is stored and nothing lands: a core has moved on in its call.
LEMMA QuietKeeps ==
  ASSUME NEW ft \in Nat, NEW fv \in Nat, NEW fh \in Nat, NEW rt \in Nat, NEW rv \in Nat, NEW rh \in Nat,
         Pool(ft, fv, fh, rt, rv, rh), UNCHANGED <<mem, pend>>, Lent' = Lent, HeldNow' = HeldNow,
         prod.pc = "publish" => prod' = prod, cons.pc = "release" => cons' = cons,
         Loaning(ft, fv)', prod'.pc = "publish" => prod' = prod, Taking(rt, rv)', cons'.pc = "release" => cons' = cons
  PROVE  Pool(ft, fv, fh, rt, rv, rh)'
  <1>1. Turns(ft, fv, fh, rt, rv, rh)'
    BY TurnsSame DEF Pool
  <1>2. Waiting(fh, rh)'
    BY WaitingSame DEF Pool
  <1>3. FreeAt(fh)' = FreeAt(fh) /\ ReadyAt(rh)' = ReadyAt(rh)
    BY DEF FreeAt, ReadyAt
  <1>4. Publishing(rt, rh)' /\ Releasing(ft, fh)'
    BY <1>3 DEF Pool, Publishing, Releasing
  <1>5. \A k : FreeAt(k)' = FreeAt(k) /\ ReadyAt(k)' = ReadyAt(k)
    BY DEF FreeAt, ReadyAt
  <1>6. Somewhere(ft, fh, rt, rh)' /\ NotTwice(ft, fh, rt, rh)'
    BY <1>5, PlacesSame DEF Pool
  <1> QED BY <1>1, <1>2, <1>4, <1>6 DEF Pool

LEMMA QuietProducer ==
  ASSUME Divides, StoresFit, LocalsFit,
         NEW ft \in Nat, NEW fv \in Nat, NEW fh \in Nat, NEW rt \in Nat, NEW rv \in Nat, NEW rh \in Nat,
         Pool(ft, fv, fh, rt, rv, rh), InitDone \/ LoanFails \/ LoanCursors \/ LoanEntry
  PROVE  Pool(ft, fv, fh, rt, rv, rh)'
  <1> USE DEF ProdAt, ProdGo, ConsumerIdle
  <1>0. DOMAIN prod = {"pc", "cur", "idx"}
    BY DEF LocalsFit
  <1>1. UNCHANGED <<mem, pend, lentBuf, cons, heldBuf>>
    BY DEF InitDone, LoanFails, LoanCursors, LoanEntry
  <1>2. Lent' = Lent /\ HeldNow' = HeldNow /\ Taking(rt, rv)' /\ \A k : FreeAt(k)' = FreeAt(k)
    BY <1>1 DEF Lent, HeldNow, Pool, Taking, ReadyAt, FreeAt
  <1>3. CASE InitDone
    <2>1. prod.pc = "visible" /\ prod'.pc = "idle"
      BY <1>0, <1>3 DEF InitDone
    <2>2. Loaning(ft, fv)'
      BY <2>1 DEF Loaning
    <2> QED BY <1>1, <1>2, <2>1, <2>2, QuietKeeps
  <1>4. CASE LoanFails
    <2>1. prod' = prod
      BY <1>4 DEF LoanFails
    <2>2. Loaning(ft, fv)'
      BY <1>2, <2>1 DEF Loaning, Pool
    <2> QED BY <1>1, <1>2, <2>1, <2>2, QuietKeeps
  <1>5. CASE LoanCursors
    <2>1. prod.pc = "idle" /\ prod'.pc = "entry" /\ prod'.cur = Own("P", FTail) /\ Own("P", FTail) # mem[FHead]
      BY <1>0, <1>5 DEF LoanCursors
    <2>2. prod'.cur = ft % CursorMod /\ ft # fv /\ ft <= fv
      BY <2>1 DEF Pool, Turns
    <2>3. ft < fv
      BY <2>2
    <2>4. Loaning(ft, fv)'
      BY <2>1, <2>2, <2>3 DEF Loaning
    <2> QED BY <1>1, <1>2, <2>1, <2>4, QuietKeeps
  <1>6. CASE LoanEntry
    <2>1. prod.pc = "entry" /\ prod'.pc = "advance" /\ prod'.cur = prod.cur
          /\ prod'.idx = mem[FreeRing(Slot(prod.cur))]
      BY <1>0, <1>6 DEF LoanEntry
    <2>2. prod.cur = ft % CursorMod /\ ft < fv
      BY <2>1 DEF Pool, Loaning
    <2>3. prod'.idx = FreeAt(ft)
      BY <2>1, <2>2, Slots DEF FreeAt
    <2>4. Loaning(ft, fv)'
      BY <1>2, <2>1, <2>2, <2>3 DEF Loaning
    <2> QED BY <1>1, <1>2, <2>1, <2>4, QuietKeeps
  <1> QED BY <1>3, <1>4, <1>5, <1>6

LEMMA QuietConsumer ==
  ASSUME Divides, StoresFit, LocalsFit, LocalsFit',
         NEW ft \in Nat, NEW fv \in Nat, NEW fh \in Nat, NEW rt \in Nat, NEW rv \in Nat, NEW rh \in Nat,
         Pool(ft, fv, fh, rt, rv, rh), Valid \/ TakeNothing \/ TakeCursors \/ TakeEntry \/ TakeLength \/ Read
  PROVE  Pool(ft, fv, fh, rt, rv, rh)'
  <1> USE DEF ConsAt, ProducerIdle
  <1>0. DOMAIN cons = {"pc", "cur", "idx", "len"}
    BY DEF LocalsFit
  <1>1. UNCHANGED <<mem, pend, lentBuf, prod>>
    BY DEF Valid, TakeNothing, TakeCursors, TakeEntry, TakeLength, Read, ReadWord
  <1>2. Lent' = Lent /\ Loaning(ft, fv)' /\ \A k : ReadyAt(k)' = ReadyAt(k)
    BY <1>1 DEF Lent, Pool, Loaning, ReadyAt, FreeAt
  <1>a. ASSUME UNCHANGED heldBuf PROVE HeldNow' = HeldNow
    BY <1>a DEF HeldNow
  <1>3. CASE Valid \/ TakeNothing
    <2>1. cons.pc \in {"out", "idle"} /\ cons'.pc \in {"idle", "out"} /\ UNCHANGED heldBuf
      BY <1>0, <1>3 DEF Valid, TakeNothing
    <2>2. Taking(rt, rv)'
      BY <2>1 DEF Taking
    <2> QED BY <1>1, <1>2, <1>a, <2>1, <2>2, QuietKeeps
  <1>5. CASE TakeCursors
    <2>1. cons.pc = "idle" /\ cons'.pc = "entry" /\ cons'.cur = Own("C", RTail) /\ Own("C", RTail) # mem[RHead] /\ UNCHANGED heldBuf
      BY <1>0, <1>5 DEF TakeCursors
    <2>2. cons'.cur = rt % CursorMod /\ rt # rv /\ rt <= rv
      BY <2>1 DEF Pool, Turns
    <2>3. rt < rv
      BY <2>2
    <2>4. Taking(rt, rv)'
      BY <2>1, <2>2, <2>3 DEF Taking
    <2> QED BY <1>1, <1>2, <1>a, <2>1, <2>4, QuietKeeps
  <1>6. CASE TakeEntry
    <2>1. cons.pc = "entry" /\ cons'.pc = "length" /\ cons'.cur = cons.cur
          /\ cons'.idx = mem[ReadyRing(Slot(cons.cur))] /\ UNCHANGED heldBuf
      BY <1>0, <1>6 DEF TakeEntry
    <2>2. cons.cur = rt % CursorMod /\ rt < rv
      BY <2>1 DEF Pool, Taking
    <2>3. cons'.idx = ReadyAt(rt)
      BY <2>1, <2>2, Slots DEF ReadyAt
    <2>4. Taking(rt, rv)'
      BY <1>2, <2>1, <2>2, <2>3 DEF Taking
    <2> QED BY <1>1, <1>2, <1>a, <2>1, <2>4, QuietKeeps
  <1>7. CASE TakeLength
    <2>1. cons.pc = "length" /\ cons'.pc = "advance" /\ cons'.cur = cons.cur /\ cons'.idx = cons.idx /\ UNCHANGED heldBuf
      BY <1>0, <1>7 DEF TakeLength
    <2>4. Taking(rt, rv)'
      BY <1>2, <2>1 DEF Taking, Pool
    <2> QED BY <1>1, <1>2, <1>a, <2>1, <2>4, QuietKeeps
  <1>8. CASE Read
    <2>1. PICK b \in Buf, w \in Words : ReadWord(b, w)
      BY <1>8 DEF Read
    <2>2. cons' = cons /\ cons.pc = "idle" /\ b \in HeldNow /\ \A x \in Buf : x # b => heldBuf'[x] = heldBuf[x]
      BY <2>1 DEF ReadWord, LocalsFit
    <2>3. heldBuf'[b] # NotHeldBuf
      <3>1. DOMAIN heldBuf[b] = {"len", "saw"} /\ heldBuf[b].len \in Nat
        BY <2>2 DEF LocalsFit, HeldNow
      <3>2. heldBuf'[b] = [heldBuf[b] EXCEPT !.saw[w] = mem[Word(b, w)]]
        BY <2>1 DEF ReadWord, LocalsFit
      <3>3. heldBuf'[b].len \in Nat
        BY <3>1, <3>2
      <3> QED BY <3>3, NotHeldIs
    <2>4. HeldNow' = HeldNow
      BY <2>2, <2>3 DEF HeldNow
    <2>5. Taking(rt, rv)'
      BY <2>2 DEF Taking
    <2> QED BY <1>1, <1>2, <2>2, <2>4, <2>5, QuietKeeps
  <1> QED BY <1>3, <1>5, <1>6, <1>7, <1>8

\* A buffer that is in no entry of a ring leaves room for it there.
LEMMA RoomFor ==
  ASSUME NEW t \in Nat, NEW h \in Nat, NEW f \in [t .. h - 1 -> Buf], NEW b \in Buf,
         \A k \in t .. h - 1 : f[k] # b, \A k, j \in t .. h - 1 : f[k] = f[j] => k = j
  PROVE  h < t + NBuf
  <1>1. NBuf \in Nat \ {0}
    BY PoolSize
  <1>2. SUFFICES ASSUME ~(h < t + NBuf) PROVE FALSE
    OBVIOUS
  <1>3. IsFiniteSet(t .. h - 1) /\ Cardinality(t .. h - 1) = h - t
    <2>1. t \in Int /\ h - 1 \in Int /\ ~(t > h - 1) /\ (h - 1) - t + 1 = h - t
      BY <1>1, <1>2
    <2> QED BY <2>1, FS_Interval
  <1>4. IsFiniteSet(Buf) /\ Cardinality(Buf) = NBuf
    <2>1. 0 \in Int /\ NBuf - 1 \in Int /\ ~(0 > NBuf - 1) /\ (NBuf - 1) - 0 + 1 = NBuf
      BY <1>1
    <2> QED BY <2>1, FS_Interval DEF Buf
  <1>5. IsFiniteSet(Buf \ {b}) /\ Cardinality(Buf \ {b}) = NBuf - 1
    BY <1>4, FS_RemoveElement
  <1>6. NBuf - 1 < h - t
    BY <1>1, <1>2
  <1>7. f \in [t .. h - 1 -> Buf \ {b}]
    OBVIOUS
  <1> DEFINE S == t .. h - 1
             T == Buf \ {b}
  <1>8. IsFiniteSet(S) /\ IsFiniteSet(T) /\ Cardinality(T) < Cardinality(S) /\ f \in [S -> T]
    BY <1>3, <1>5, <1>6, <1>7
  <1>9. \A k, j \in S : f[k] = f[j] => k = j
    OBVIOUS
  <1> HIDE DEF S, T
  <1>10. \E x, y \in S : x # y /\ f[x] = f[y]
    BY <1>8, FS_PigeonHole
  <1> QED BY <1>9, <1>10

\* Every entry of a ring names a buffer.
LEMMA EntriesAre ==
  ASSUME StoresFit, NEW k \in Nat PROVE FreeAt(k) \in Buf /\ ReadyAt(k) \in Buf
  <1>1. k % NBuf \in Buf
    BY PoolSize, DivMod DEF Buf
  <1>2. \A i \in Buf : mem[FreeRing(i)] \in Buf /\ mem[ReadyRing(i)] \in Buf
    BY Cells DEF StoresFit, Fits
  <1> QED BY <1>1, <1>2 DEF FreeAt, ReadyAt

LEMMA ReadyRoom ==
  ASSUME StoresFit, NEW rt \in Nat, NEW rh \in Nat, NEW b \in Lent, NEW ft, NEW fh, NotTwice(ft, fh, rt, rh)
  PROVE  rh < rt + NBuf
  <1> DEFINE f == [k \in rt .. rh - 1 |-> ReadyAt(k)]
  <1>1. f \in [rt .. rh - 1 -> Buf]
    BY EntriesAre
  <1>2. \A k \in rt .. rh - 1 : f[k] # b
    BY DEF NotTwice
  <1>3. \A k, j \in rt .. rh - 1 : f[k] = f[j] => k = j
    BY DEF NotTwice
  <1>4. b \in Buf
    BY DEF Lent
  <1> HIDE DEF f
  <1> QED BY <1>1, <1>2, <1>3, <1>4, RoomFor

LEMMA FreeRoom ==
  ASSUME StoresFit, NEW ft \in Nat, NEW fh \in Nat, NEW b \in HeldNow, NEW rt, NEW rh, NotTwice(ft, fh, rt, rh)
  PROVE  fh < ft + NBuf
  <1> DEFINE f == [k \in ft .. fh - 1 |-> FreeAt(k)]
  <1>1. f \in [ft .. fh - 1 -> Buf]
    BY EntriesAre
  <1>2. \A k \in ft .. fh - 1 : f[k] # b
    BY DEF NotTwice
  <1>3. \A k, j \in ft .. fh - 1 : f[k] = f[j] => k = j
    BY DEF NotTwice
  <1>4. b \in Buf
    BY DEF HeldNow
  <1> HIDE DEF f
  <1> QED BY <1>1, <1>2, <1>3, <1>4, RoomFor

\* A loan takes the buffer at ft out of the free ring.
LEMMA LoanAdvanceKeeps ==
  ASSUME Divides, StoresFit, LocalsFit, StoresFit',
         NEW ft \in Nat, NEW fv \in Nat, NEW fh \in Nat, NEW rt \in Nat, NEW rv \in Nat, NEW rh \in Nat,
         Pool(ft, fv, fh, rt, rv, rh), LoanAdvance
  PROVE  Pool(ft + 1, fv, fh, rt, rv, rh)'
  <1>0. /\ "P" \in Side /\ "C" \in Side /\ "P" # "C" /\ NBuf \in Nat
        /\ FTail \in CursorCells /\ Next1(prod.cur) \in Cursor /\ FTail # RHead /\ FTail[1] = "f_tail"
    BY Cells, Numbers, PoolSize DEF Side, CursorCells, LocalsFit
  <1>1. /\ prod.pc = "advance" /\ pend["P"] = {} /\ Put("P", {<<FTail, Next1(prod.cur)>>}) /\ mem' = mem
        /\ cons' = cons /\ heldBuf' = heldBuf /\ lentBuf' = [lentBuf EXCEPT ![prod.idx] = 0]
        /\ prod'.pc = "idle"
    BY DEF LoanAdvance, ProdAt, Fenced, ConsumerIdle
  <1>2. /\ pend'["C"] = pend["C"]
        /\ \A s \in pend'["P"] : s = <<FTail, Next1(prod.cur)>>
        /\ Own("P", FTail)' = Next1(prod.cur) /\ Own("P", RHead)' = Own("P", RHead)
    BY <1>0, <1>1, PutCursor
  <1>3. Own("C", FHead)' = Own("C", FHead) /\ Own("C", RTail)' = Own("C", RTail)
    BY <1>0, <1>1, <1>2, OwnKept
  <1>4. prod.cur = ft % CursorMod /\ ft < fv /\ prod.idx = FreeAt(ft) /\ prod.idx \in Buf
    BY <1>1 DEF Pool, Loaning, LocalsFit
  <1>5. Own("P", FTail)' = (ft + 1) % CursorMod
    BY <1>2, <1>4, Slots
  <1>6. Turns(ft + 1, fv, fh, rt, rv, rh)'
    BY <1>0, <1>1, <1>2, <1>3, <1>4, <1>5 DEF Pool, Turns
  <1>7. Waiting(fh, rh)'
    <2>1. \A s \in pend'["P"] : s[1][1] = "f_tail"
      BY <1>0, <1>2
    <2>2. \A s \in pend'["C"] :
        /\ s[1][1] \in {"r_tail", "f_head", "free"}
        /\ s[1][1] = "free" => cons'.pc = "release" /\ s[1] = FreeRing(fh % NBuf) /\ s[2] = cons'.idx
      BY <1>1, <1>2 DEF Pool, Waiting
    <2> QED BY <2>1, <2>2 DEF Waiting, FreeRing, ReadyRing
  <1>8. \A k : FreeAt(k)' = FreeAt(k) /\ ReadyAt(k)' = ReadyAt(k)
    BY <1>1 DEF FreeAt, ReadyAt
  <1>9. Loaning(ft + 1, fv)' /\ Publishing(rt, rh)'
    BY <1>1 DEF Loaning, Publishing
  <1>10. HeldNow' = HeldNow /\ Lent' = Lent \cup {FreeAt(ft)}
    BY <1>1, <1>4 DEF HeldNow, Lent, LocalsFit, NotLent
  <1>11. Taking(rt, rv)'
    BY <1>1, <1>8 DEF Pool, Taking
  <1>12. Releasing(ft + 1, fh)'
    <2>1. fh < ft + NBuf => fh < (ft + 1) + NBuf
      BY <1>0
    <2> QED BY <1>1, <1>2, <1>8, <1>10, <2>1 DEF Pool, Releasing, FreeRing
  <1>13. \A k \in ft .. fh - 1 : k = ft \/ k \in ft + 1 .. fh - 1
    OBVIOUS
  <1>14. \A k \in ft + 1 .. fh - 1 : k \in ft .. fh - 1 /\ k # ft
    OBVIOUS
  <1>15. ft \in ft .. fh - 1
    <2>1. fv <= fh
      BY DEF Pool, Turns
    <2> QED BY <1>4, <2>1
  <1>16. Somewhere(ft + 1, fh, rt, rh)'
    BY <1>8, <1>10, <1>13 DEF Pool, Somewhere
  <1>17. NotTwice(ft + 1, fh, rt, rh)'
    BY <1>8, <1>10, <1>14, <1>15 DEF Pool, NotTwice
  <1> QED BY <1>6, <1>7, <1>9, <1>11, <1>12, <1>16, <1>17 DEF Pool

\* A take takes the buffer at rt out of the ready ring.
LEMMA TakeAdvanceKeeps ==
  ASSUME Divides, StoresFit, LocalsFit, StoresFit',
         NEW ft \in Nat, NEW fv \in Nat, NEW fh \in Nat, NEW rt \in Nat, NEW rv \in Nat, NEW rh \in Nat,
         Pool(ft, fv, fh, rt, rv, rh), TakeAdvance
  PROVE  Pool(ft, fv, fh, rt + 1, rv, rh)'
  <1>0. /\ "P" \in Side /\ "C" \in Side /\ "P" # "C" /\ NBuf \in Nat
        /\ RTail \in CursorCells /\ Next1(cons.cur) \in Cursor /\ RTail # FHead /\ RTail[1] = "r_tail"
    BY Cells, Numbers, PoolSize DEF Side, CursorCells, LocalsFit
  <1>1. /\ cons.pc = "advance" /\ pend["C"] = {} /\ Put("C", {<<RTail, Next1(cons.cur)>>}) /\ mem' = mem
        /\ prod' = prod /\ lentBuf' = lentBuf /\ heldBuf' = [heldBuf EXCEPT ![cons.idx] = [NotHeldBuf EXCEPT !.len = cons.len]]
        /\ cons'.pc = "idle"
    BY DEF TakeAdvance, ConsAt, Fenced, ProducerIdle
  <1>2. /\ pend'["P"] = pend["P"]
        /\ \A s \in pend'["C"] : s = <<RTail, Next1(cons.cur)>>
        /\ Own("C", RTail)' = Next1(cons.cur) /\ Own("C", FHead)' = Own("C", FHead)
    BY <1>0, <1>1, PutCursor
  <1>3. Own("P", RHead)' = Own("P", RHead) /\ Own("P", FTail)' = Own("P", FTail)
    BY <1>0, <1>1, <1>2, OwnKept
  <1>4. cons.cur = rt % CursorMod /\ rt < rv /\ cons.idx = ReadyAt(rt) /\ cons.idx \in Buf
    BY <1>1 DEF Pool, Taking, LocalsFit
  <1>5. Own("C", RTail)' = (rt + 1) % CursorMod
    BY <1>2, <1>4, Slots
  <1>6. Turns(ft, fv, fh, rt + 1, rv, rh)'
    BY <1>0, <1>1, <1>2, <1>3, <1>4, <1>5 DEF Pool, Turns
  <1>7. Waiting(fh, rh)'
    <2>1. \A s \in pend'["C"] : s[1][1] = "r_tail"
      BY <1>0, <1>2
    <2>2. \A s \in pend'["P"] :
        /\ s[1][1] \in {"magic", "r_head", "f_tail", "ready", "len", "lo", "hi"}
        /\ s[1][1] = "ready" => prod'.pc = "publish" /\ s[1] = ReadyRing(rh % NBuf) /\ s[2] = prod'.idx
      BY <1>1, <1>2 DEF Pool, Waiting
    <2> QED BY <2>1, <2>2 DEF Waiting, FreeRing, ReadyRing
  <1>8. \A k : FreeAt(k)' = FreeAt(k) /\ ReadyAt(k)' = ReadyAt(k)
    BY <1>1 DEF FreeAt, ReadyAt
  <1>9. Taking(rt + 1, rv)' /\ Releasing(ft, fh)'
    BY <1>1 DEF Taking, Releasing
  <1>10. Lent' = Lent /\ HeldNow' = HeldNow \cup {ReadyAt(rt)}
    <2>1. [NotHeldBuf EXCEPT !.len = cons.len] # NotHeldBuf
      <3>1. [NotHeldBuf EXCEPT !.len = cons.len].len = cons.len /\ cons.len \in Nat
        BY NotHeldIs DEF LocalsFit
      <3> QED BY <3>1, NotHeldIs
    <2> QED BY <1>1, <1>4, <2>1 DEF HeldNow, Lent, LocalsFit
  <1>11. Loaning(ft, fv)'
    BY <1>1, <1>8 DEF Pool, Loaning
  <1>12. Publishing(rt + 1, rh)'
    <2>1. rh < rt + NBuf => rh < (rt + 1) + NBuf
      BY <1>0
    <2> QED BY <1>1, <1>2, <1>8, <1>10, <2>1 DEF Pool, Publishing, ReadyRing
  <1>13. \A k \in rt .. rh - 1 : k = rt \/ k \in rt + 1 .. rh - 1
    OBVIOUS
  <1>14. \A k \in rt + 1 .. rh - 1 : k \in rt .. rh - 1 /\ k # rt
    OBVIOUS
  <1>15. rt \in rt .. rh - 1
    <2>1. rv <= rh
      BY DEF Pool, Turns
    <2> QED BY <1>4, <2>1
  <1>16. Somewhere(ft, fh, rt + 1, rh)'
    BY <1>8, <1>10, <1>13 DEF Pool, Somewhere
  <1>17. NotTwice(ft, fh, rt + 1, rh)'
    BY <1>8, <1>10, <1>14, <1>15 DEF Pool, NotTwice
  <1> QED BY <1>6, <1>7, <1>9, <1>11, <1>12, <1>16, <1>17 DEF Pool

\* A publication puts the buffer into the ready ring, behind rh.
LEMMA PublishHeadKeeps ==
  ASSUME Divides, StoresFit, LocalsFit, StoresFit',
         NEW ft \in Nat, NEW fv \in Nat, NEW fh \in Nat, NEW rt \in Nat, NEW rv \in Nat, NEW rh \in Nat,
         Pool(ft, fv, fh, rt, rv, rh), PublishHead
  PROVE  Pool(ft, fv, fh, rt, rv, rh + 1)'
  <1>0. /\ "P" \in Side /\ "C" \in Side /\ "P" # "C" /\ NBuf \in Nat
        /\ RHead \in CursorCells /\ Next1(prod.cur) \in Cursor /\ FTail # RHead /\ RHead[1] = "r_head"
    BY Cells, Numbers, PoolSize DEF Side, CursorCells, LocalsFit
  <1>1. /\ prod.pc = "publish" /\ pend["P"] = {} /\ Put("P", {<<RHead, Next1(prod.cur)>>}) /\ mem' = mem
        /\ cons' = cons /\ heldBuf' = heldBuf /\ lentBuf' = [lentBuf EXCEPT ![prod.idx] = NotLent]
        /\ prod'.pc = "idle"
    BY DEF PublishHead, ProdAt, Fenced, ConsumerIdle
  <1>2. /\ pend'["C"] = pend["C"]
        /\ \A s \in pend'["P"] : s = <<RHead, Next1(prod.cur)>>
        /\ Own("P", RHead)' = Next1(prod.cur) /\ Own("P", FTail)' = Own("P", FTail)
    BY <1>0, <1>1, PutCursor
  <1>3. Own("C", FHead)' = Own("C", FHead) /\ Own("C", RTail)' = Own("C", RTail)
    BY <1>0, <1>1, <1>2, OwnKept
  <1>4. prod.cur = rh % CursorMod /\ rh < rt + NBuf /\ prod.idx = ReadyAt(rh) /\ prod.idx \in Lent
    BY <1>1 DEF Pool, Publishing
  <1>5. Own("P", RHead)' = (rh + 1) % CursorMod
    BY <1>2, <1>4, Slots
  <1>6. Turns(ft, fv, fh, rt, rv, rh + 1)'
    BY <1>0, <1>1, <1>2, <1>3, <1>4, <1>5 DEF Pool, Turns
  <1>7. Waiting(fh, rh + 1)'
    <2>1. \A s \in pend'["P"] : s[1][1] = "r_head"
      BY <1>0, <1>2
    <2>2. \A s \in pend'["C"] :
        /\ s[1][1] \in {"r_tail", "f_head", "free"}
        /\ s[1][1] = "free" => cons'.pc = "release" /\ s[1] = FreeRing(fh % NBuf) /\ s[2] = cons'.idx
      BY <1>1, <1>2 DEF Pool, Waiting
    <2> QED BY <2>1, <2>2 DEF Waiting, FreeRing, ReadyRing
  <1>8. \A k : FreeAt(k)' = FreeAt(k) /\ ReadyAt(k)' = ReadyAt(k)
    BY <1>1 DEF FreeAt, ReadyAt
  <1>9. Loaning(ft, fv)' /\ Publishing(rt, rh + 1)'
    BY <1>1 DEF Loaning, Publishing
  <1>10. HeldNow' = HeldNow /\ Lent' = Lent \ {ReadyAt(rh)}
    BY <1>1, <1>4 DEF HeldNow, Lent, LocalsFit, NotLent
  <1>11. Taking(rt, rv)'
    BY <1>1, <1>8 DEF Pool, Taking
  <1>12. Releasing(ft, fh)'
    BY <1>1, <1>2, <1>8, <1>10 DEF Pool, Releasing, FreeRing
  <1>13. \A k \in rt .. rh - 1 : k \in rt .. (rh + 1) - 1 /\ k # rh
    OBVIOUS
  <1>14. \A k \in rt .. (rh + 1) - 1 : k \in rt .. rh - 1 \/ k = rh
    OBVIOUS
  <1>15. rh \in rt .. (rh + 1) - 1
    <2>1. rt <= rh
      BY DEF Pool, Turns
    <2> QED BY <2>1
  <1>16. Somewhere(ft, fh, rt, rh + 1)'
    BY <1>8, <1>10, <1>13, <1>15 DEF Pool, Somewhere
  <1>17. NotTwice(ft, fh, rt, rh + 1)'
    BY <1>4, <1>8, <1>10, <1>14 DEF Pool, NotTwice
  <1> QED BY <1>6, <1>7, <1>9, <1>11, <1>12, <1>16, <1>17 DEF Pool

\* A release puts the buffer into the free ring, behind fh.
LEMMA ReleaseHeadKeeps ==
  ASSUME Divides, StoresFit, LocalsFit, StoresFit',
         NEW ft \in Nat, NEW fv \in Nat, NEW fh \in Nat, NEW rt \in Nat, NEW rv \in Nat, NEW rh \in Nat,
         Pool(ft, fv, fh, rt, rv, rh), ReleaseHead
  PROVE  Pool(ft, fv, fh + 1, rt, rv, rh)'
  <1>0. /\ "P" \in Side /\ "C" \in Side /\ "P" # "C" /\ NBuf \in Nat
        /\ FHead \in CursorCells /\ Next1(cons.cur) \in Cursor /\ RTail # FHead /\ FHead[1] = "f_head"
    BY Cells, Numbers, PoolSize DEF Side, CursorCells, LocalsFit
  <1>1. /\ cons.pc = "release" /\ pend["C"] = {} /\ Put("C", {<<FHead, Next1(cons.cur)>>}) /\ mem' = mem
        /\ prod' = prod /\ lentBuf' = lentBuf /\ heldBuf' = [heldBuf EXCEPT ![cons.idx] = NotHeldBuf]
        /\ cons'.pc = "idle"
    BY DEF ReleaseHead, ConsAt, Fenced, ProducerIdle
  <1>2. /\ pend'["P"] = pend["P"]
        /\ \A s \in pend'["C"] : s = <<FHead, Next1(cons.cur)>>
        /\ Own("C", FHead)' = Next1(cons.cur) /\ Own("C", RTail)' = Own("C", RTail)
    BY <1>0, <1>1, PutCursor
  <1>3. Own("P", RHead)' = Own("P", RHead) /\ Own("P", FTail)' = Own("P", FTail)
    BY <1>0, <1>1, <1>2, OwnKept
  <1>4. cons.cur = fh % CursorMod /\ fh < ft + NBuf /\ cons.idx = FreeAt(fh) /\ cons.idx \in HeldNow
    BY <1>1 DEF Pool, Releasing
  <1>5. Own("C", FHead)' = (fh + 1) % CursorMod
    BY <1>2, <1>4, Slots
  <1>6. Turns(ft, fv, fh + 1, rt, rv, rh)'
    BY <1>0, <1>1, <1>2, <1>3, <1>4, <1>5 DEF Pool, Turns
  <1>7. Waiting(fh + 1, rh)'
    <2>1. \A s \in pend'["C"] : s[1][1] = "f_head"
      BY <1>0, <1>2
    <2>2. \A s \in pend'["P"] :
        /\ s[1][1] \in {"magic", "r_head", "f_tail", "ready", "len", "lo", "hi"}
        /\ s[1][1] = "ready" => prod'.pc = "publish" /\ s[1] = ReadyRing(rh % NBuf) /\ s[2] = prod'.idx
      BY <1>1, <1>2 DEF Pool, Waiting
    <2> QED BY <2>1, <2>2 DEF Waiting, FreeRing, ReadyRing
  <1>8. \A k : FreeAt(k)' = FreeAt(k) /\ ReadyAt(k)' = ReadyAt(k)
    BY <1>1 DEF FreeAt, ReadyAt
  <1>9. Taking(rt, rv)' /\ Releasing(ft, fh + 1)'
    BY <1>1 DEF Taking, Releasing
  <1>10. Lent' = Lent /\ HeldNow' = HeldNow \ {FreeAt(fh)}
    BY <1>1, <1>4 DEF HeldNow, Lent, LocalsFit
  <1>11. Loaning(ft, fv)'
    BY <1>1, <1>8 DEF Pool, Loaning
  <1>12. Publishing(rt, rh)'
    BY <1>1, <1>2, <1>8, <1>10 DEF Pool, Publishing, ReadyRing
  <1>13. \A k \in ft .. fh - 1 : k \in ft .. (fh + 1) - 1 /\ k # fh
    OBVIOUS
  <1>14. \A k \in ft .. (fh + 1) - 1 : k \in ft .. fh - 1 \/ k = fh
    OBVIOUS
  <1>15. fh \in ft .. (fh + 1) - 1
    <2>1. ft <= fh
      BY DEF Pool, Turns
    <2> QED BY <2>1
  <1>16. Somewhere(ft, fh + 1, rt, rh)'
    BY <1>8, <1>10, <1>13, <1>15 DEF Pool, Somewhere
  <1>17. NotTwice(ft, fh + 1, rt, rh)'
    BY <1>4, <1>8, <1>10, <1>14 DEF Pool, NotTwice
  <1> QED BY <1>6, <1>7, <1>9, <1>11, <1>12, <1>16, <1>17 DEF Pool

LEMMA FillKeeps ==
  ASSUME Divides, StoresFit, LocalsFit, StoresFit',
         NEW ft \in Nat, NEW fv \in Nat, NEW fh \in Nat, NEW rt \in Nat, NEW rv \in Nat, NEW rh \in Nat,
         Pool(ft, fv, fh, rt, rv, rh), NEW b \in Buf, Fill(b)
  PROVE  Pool(ft, fv, fh, rt, rv, rh)'
  <1> DEFINE stores == {<<Word(b, w), fills + 1>> : w \in Words}
  <1>0. "P" \in Side /\ "C" \in Side /\ "P" # "C" /\ FTail[1] = "f_tail" /\ RHead[1] = "r_head"
        /\ FHead \in CursorCells /\ RTail \in CursorCells
    BY Cells DEF Side, CursorCells
  <1>1. /\ prod.pc = "idle" /\ lentBuf[b] = 0 /\ Put("P", stores) /\ mem' = mem /\ prod' = prod
        /\ cons' = cons /\ heldBuf' = heldBuf /\ lentBuf' = [lentBuf EXCEPT ![b] = fills + 1]
    BY DEF Fill, ProdAt, ConsumerIdle
  <1>2. /\ \A n \in stores : n[1] \in Location /\ Fits(n[1], n[2]) /\ n[1][1] \in {"lo", "hi"}
        /\ \A n, m \in stores : n[1] = m[1] => n = m
    BY FillStoresFit
  <1> HIDE DEF stores
  <1>3. /\ pend'["C"] = pend["C"]
        /\ pend'["P"] = {s \in pend["P"] : s[1] \notin {n[1] : n \in stores}} \cup stores
    BY <1>0, <1>1, <1>2, PutFits
  <1>4. \A l : (\A n \in stores : n[1] # l) => Own("P", l)' = Own("P", l)
    BY <1>0, <1>1, OwnPut
  <1>5. Own("P", FTail)' = Own("P", FTail) /\ Own("P", RHead)' = Own("P", RHead)
    <2>1. \A n \in stores : n[1] # FTail /\ n[1] # RHead
      BY <1>0, <1>2
    <2> QED BY <1>4, <2>1
  <1>6. Own("C", FHead)' = Own("C", FHead) /\ Own("C", RTail)' = Own("C", RTail)
    BY <1>0, <1>1, <1>3, OwnKept
  <1>7. Turns(ft, fv, fh, rt, rv, rh)'
    BY <1>1, <1>5, <1>6 DEF Pool, Turns
  <1>8. Waiting(fh, rh)'
    <2>1. \A s \in pend'["P"] : s[1][1] \in {"lo", "hi"} \/ s \in pend["P"]
      BY <1>2, <1>3
    <2>2. \A s \in pend["P"] : s[1][1] \in {"magic", "r_head", "f_tail", "ready", "len", "lo", "hi"} /\ s[1][1] # "ready"
      BY <1>1 DEF Pool, Waiting
    <2>3. \A s \in pend'["C"] :
        /\ s[1][1] \in {"r_tail", "f_head", "free"}
        /\ s[1][1] = "free" => cons'.pc = "release" /\ s[1] = FreeRing(fh % NBuf) /\ s[2] = cons'.idx
      BY <1>1, <1>3 DEF Pool, Waiting
    <2> QED BY <2>1, <2>2, <2>3 DEF Waiting, FreeRing, ReadyRing
  <1>9. \A k : FreeAt(k)' = FreeAt(k) /\ ReadyAt(k)' = ReadyAt(k)
    BY <1>1 DEF FreeAt, ReadyAt
  <1>10. Lent' = Lent /\ HeldNow' = HeldNow
    <2>1. fills + 1 # -1 /\ 0 # -1
      BY DEF LocalsFit
    <2> QED BY <1>1, <2>1 DEF HeldNow, Lent, LocalsFit, NotLent
  <1>11. Loaning(ft, fv)' /\ Publishing(rt, rh)'
    BY <1>1 DEF Loaning, Publishing
  <1>12. Taking(rt, rv)' /\ Releasing(ft, fh)'
    BY <1>1, <1>3, <1>9, <1>10 DEF Pool, Taking, Releasing, FreeRing
  <1>13. Somewhere(ft, fh, rt, rh)' /\ NotTwice(ft, fh, rt, rh)'
    BY <1>9, <1>10, PlacesSame DEF Pool
  <1> QED BY <1>7, <1>8, <1>11, <1>12, <1>13 DEF Pool

LEMMA PublishEntryKeeps ==
  ASSUME Divides, StoresFit, LocalsFit, StoresFit',
         NEW ft \in Nat, NEW fv \in Nat, NEW fh \in Nat, NEW rt \in Nat, NEW rv \in Nat, NEW rh \in Nat,
         Pool(ft, fv, fh, rt, rv, rh), NEW b \in Buf, PublishEntry(b)
  PROVE  Pool(ft, fv, fh, rt, rv, rh)'
  <1> DEFINE stores == {<<LenArr(b), lentBuf[b]>>, <<ReadyRing(rh % NBuf), b>>}
  <1>0. /\ "P" \in Side /\ "C" \in Side /\ "P" # "C" /\ FTail[1] = "f_tail" /\ RHead[1] = "r_head"
        /\ FHead \in CursorCells /\ RTail \in CursorCells
    BY Cells DEF Side, CursorCells
  <1>1. /\ prod.pc = "idle" /\ lentBuf[b] \in Message
        /\ Put("P", {<<LenArr(b), lentBuf[b]>>, <<ReadyRing(Slot(Own("P", RHead))), b>>}) /\ mem' = mem
        /\ prod'.pc = "publish" /\ prod'.cur = Own("P", RHead) /\ prod'.idx = b
        /\ cons' = cons /\ heldBuf' = heldBuf /\ lentBuf' = lentBuf
    BY DEF PublishEntry, ProdAt, ConsumerIdle
  <1>a. Own("P", RHead) = rh % CursorMod /\ Slot(Own("P", RHead)) = rh % NBuf /\ rh % NBuf \in Buf
    BY Slots DEF Pool, Turns
  <1>b. Put("P", stores)
    BY <1>1, <1>a
  <1>2. /\ \A n \in stores : n[1] \in Location /\ Fits(n[1], n[2]) /\ n[1][1] \in {"len", "ready"}
        /\ \A n, m \in stores : n[1] = m[1] => n = m
    BY <1>1, <1>a, PublishStoresFit DEF Message
  <1>c. <<ReadyRing(rh % NBuf), b>> \in stores
        /\ \A n \in stores : n[1][1] = "ready" => n = <<ReadyRing(rh % NBuf), b>>
    BY Cells
  <1> HIDE DEF stores
  <1>3. /\ pend'["C"] = pend["C"]
        /\ pend'["P"] = {s \in pend["P"] : s[1] \notin {n[1] : n \in stores}} \cup stores
    BY <1>0, <1>1, <1>b, <1>2, PutFits
  <1>4. \A l : (\A n \in stores : n[1] # l) => Own("P", l)' = Own("P", l)
    BY <1>0, <1>1, <1>b, OwnPut
  <1>5. Own("P", FTail)' = Own("P", FTail) /\ Own("P", RHead)' = Own("P", RHead)
    <2>1. \A n \in stores : n[1] # FTail /\ n[1] # RHead
      BY <1>0, <1>2
    <2> QED BY <1>4, <2>1
  <1>6. Own("C", FHead)' = Own("C", FHead) /\ Own("C", RTail)' = Own("C", RTail)
    BY <1>0, <1>1, <1>3, OwnKept
  <1>7. Turns(ft, fv, fh, rt, rv, rh)'
    BY <1>1, <1>5, <1>6 DEF Pool, Turns
  <1>8. Waiting(fh, rh)'
    <2>1. \A s \in pend'["P"] : s \in stores \/ s \in pend["P"]
      BY <1>3
    <2>2. \A s \in pend["P"] : s[1][1] \in {"magic", "r_head", "f_tail", "ready", "len", "lo", "hi"} /\ s[1][1] # "ready"
      BY <1>1 DEF Pool, Waiting
    <2>3. \A s \in pend'["C"] :
        /\ s[1][1] \in {"r_tail", "f_head", "free"}
        /\ s[1][1] = "free" => cons'.pc = "release" /\ s[1] = FreeRing(fh % NBuf) /\ s[2] = cons'.idx
      BY <1>1, <1>3 DEF Pool, Waiting
    <2>4. \A s \in pend'["P"] :
        /\ s[1][1] \in {"magic", "r_head", "f_tail", "ready", "len", "lo", "hi"}
        /\ s[1][1] = "ready" => prod'.pc = "publish" /\ s[1] = ReadyRing(rh % NBuf) /\ s[2] = prod'.idx
      BY <1>1, <1>2, <1>c, <2>1, <2>2
    <2> QED BY <2>3, <2>4 DEF Waiting, FreeRing, ReadyRing
  <1>9. \A k : FreeAt(k)' = FreeAt(k) /\ ReadyAt(k)' = ReadyAt(k)
    BY <1>1 DEF FreeAt, ReadyAt
  <1>10. Lent' = Lent /\ HeldNow' = HeldNow
    BY <1>1 DEF HeldNow, Lent
  <1>11. Loaning(ft, fv)'
    BY <1>1 DEF Loaning
  <1>d. b \in Lent /\ rh < rt + NBuf
    <2>1. b \in Lent
      BY <1>1 DEF Lent, Message, NotLent
    <2> QED BY <2>1, ReadyRoom DEF Pool
  <1>e. Publishing(rt, rh)'
    <2>1. \E s \in pend'["P"] : s[1] = ReadyRing(rh % NBuf)
      BY <1>3, <1>c
    <2> QED BY <1>1, <1>a, <1>d, <1>10, <2>1 DEF Publishing, ReadyRing
  <1>12. Taking(rt, rv)' /\ Releasing(ft, fh)'
    BY <1>1, <1>3, <1>9, <1>10 DEF Pool, Taking, Releasing, FreeRing
  <1>13. Somewhere(ft, fh, rt, rh)' /\ NotTwice(ft, fh, rt, rh)'
    BY <1>9, <1>10, PlacesSame DEF Pool
  <1> QED BY <1>7, <1>8, <1>11, <1>e, <1>12, <1>13 DEF Pool

LEMMA ReleaseEntryKeeps ==
  ASSUME Divides, StoresFit, LocalsFit, StoresFit',
         NEW ft \in Nat, NEW fv \in Nat, NEW fh \in Nat, NEW rt \in Nat, NEW rv \in Nat, NEW rh \in Nat,
         Pool(ft, fv, fh, rt, rv, rh), NEW b \in Buf, ReleaseEntry(b)
  PROVE  Pool(ft, fv, fh, rt, rv, rh)'
  <1> DEFINE stores == {<<FreeRing(fh % NBuf), b>>}
  <1>0. /\ "P" \in Side /\ "C" \in Side /\ "P" # "C" /\ RTail[1] = "r_tail" /\ FHead[1] = "f_head"
        /\ RHead \in CursorCells /\ FTail \in CursorCells
    BY Cells DEF Side, CursorCells
  <1>1. /\ cons.pc = "idle" /\ b \in HeldNow
        /\ Put("C", {<<FreeRing(Slot(Own("C", FHead))), b>>}) /\ mem' = mem
        /\ cons'.pc = "release" /\ cons'.cur = Own("C", FHead) /\ cons'.idx = b
        /\ prod' = prod /\ heldBuf' = heldBuf /\ lentBuf' = lentBuf
    BY DEF ReleaseEntry, ConsAt, ProducerIdle, LocalsFit
  <1>a. Own("C", FHead) = fh % CursorMod /\ Slot(Own("C", FHead)) = fh % NBuf /\ fh % NBuf \in Buf
    BY Slots DEF Pool, Turns
  <1>b. Put("C", stores)
    BY <1>1, <1>a
  <1>2. /\ \A n \in stores : n[1] \in Location /\ Fits(n[1], n[2]) /\ n[1][1] = "free"
        /\ \A n, m \in stores : n[1] = m[1] => n = m
    BY <1>a, ReleaseStoresFit
  <1>c. <<FreeRing(fh % NBuf), b>> \in stores /\ \A n \in stores : n = <<FreeRing(fh % NBuf), b>>
    OBVIOUS
  <1> HIDE DEF stores
  <1>3. /\ pend'["P"] = pend["P"]
        /\ pend'["C"] = {s \in pend["C"] : s[1] \notin {n[1] : n \in stores}} \cup stores
    BY <1>0, <1>1, <1>b, <1>2, PutFits
  <1>4. \A l : (\A n \in stores : n[1] # l) => Own("C", l)' = Own("C", l)
    BY <1>0, <1>1, <1>b, OwnPut
  <1>5. Own("C", FHead)' = Own("C", FHead) /\ Own("C", RTail)' = Own("C", RTail)
    <2>1. \A n \in stores : n[1] # FHead /\ n[1] # RTail
      BY <1>0, <1>2
    <2> QED BY <1>4, <2>1
  <1>6. Own("P", RHead)' = Own("P", RHead) /\ Own("P", FTail)' = Own("P", FTail)
    BY <1>0, <1>1, <1>3, OwnKept
  <1>7. Turns(ft, fv, fh, rt, rv, rh)'
    BY <1>1, <1>5, <1>6 DEF Pool, Turns
  <1>8. Waiting(fh, rh)'
    <2>1. \A s \in pend'["C"] : s \in stores \/ s \in pend["C"]
      BY <1>3
    <2>2. \A s \in pend["C"] : s[1][1] \in {"r_tail", "f_head", "free"} /\ s[1][1] # "free"
      BY <1>1 DEF Pool, Waiting
    <2>3. \A s \in pend'["P"] :
        /\ s[1][1] \in {"magic", "r_head", "f_tail", "ready", "len", "lo", "hi"}
        /\ s[1][1] = "ready" => prod'.pc = "publish" /\ s[1] = ReadyRing(rh % NBuf) /\ s[2] = prod'.idx
      BY <1>1, <1>3 DEF Pool, Waiting
    <2>4. \A s \in pend'["C"] :
        /\ s[1][1] \in {"r_tail", "f_head", "free"}
        /\ s[1][1] = "free" => cons'.pc = "release" /\ s[1] = FreeRing(fh % NBuf) /\ s[2] = cons'.idx
      BY <1>1, <1>2, <1>c, <2>1, <2>2
    <2> QED BY <2>3, <2>4 DEF Waiting, FreeRing, ReadyRing
  <1>9. \A k : FreeAt(k)' = FreeAt(k) /\ ReadyAt(k)' = ReadyAt(k)
    BY <1>1 DEF FreeAt, ReadyAt
  <1>10. Lent' = Lent /\ HeldNow' = HeldNow
    BY <1>1 DEF HeldNow, Lent
  <1>11. Taking(rt, rv)'
    BY <1>1 DEF Taking
  <1>d. fh < ft + NBuf
    BY <1>1, FreeRoom DEF Pool
  <1>e. Releasing(ft, fh)'
    <2>1. \E s \in pend'["C"] : s[1] = FreeRing(fh % NBuf)
      BY <1>3, <1>c
    <2> QED BY <1>1, <1>a, <1>d, <1>10, <2>1 DEF Releasing, FreeRing
  <1>12. Loaning(ft, fv)' /\ Publishing(rt, rh)'
    BY <1>1, <1>3, <1>9, <1>10 DEF Pool, Loaning, Publishing, ReadyRing
  <1>13. Somewhere(ft, fh, rt, rh)' /\ NotTwice(ft, fh, rt, rh)'
    BY <1>9, <1>10, PlacesSame DEF Pool
  <1> QED BY <1>7, <1>8, <1>11, <1>e, <1>12, <1>13 DEF Pool

\* A ring entry on its way is not one of those the other side may read.
LEMMA EntryApart ==
  ASSUME NEW t \in Nat, NEW h \in Nat, h < t + NBuf, NEW k \in t .. h - 1 PROVE k % NBuf # h % NBuf
  <1>1. k \in Nat /\ k < h /\ h < k + NBuf
    BY PoolSize
  <1> QED BY <1>1, SlotsDiffer

\* A store of the producer lands; one of the ready ring's head shows what was published.
LEMMA ProducerLands ==
  ASSUME Divides, StoresFit, LocalsFit, StoresFit',
         NEW ft \in Nat, NEW fv \in Nat, NEW fh \in Nat, NEW rt \in Nat, NEW rv \in Nat, NEW rh \in Nat,
         Pool(ft, fv, fh, rt, rv, rh), Drain("P")
  PROVE  (\E v \in Nat : Pool(ft, fv, fh, rt, v, rh)') /\ \A k \in rt .. rh - 1 : ReadyAt(k)' = ReadyAt(k)
  <1>0. /\ "P" \in Side /\ "C" \in Side /\ "P" # "C"
        /\ FTail \in Location /\ RHead \in Location /\ FHead \in Location /\ RTail \in Location
        /\ FHead[1] = "f_head" /\ RTail[1] = "r_tail" /\ RHead[1] = "r_head"
    BY Cells DEF Side
  <1>1. PICK s \in pend["P"] : Lands("P", s)
    BY DEF Drain, Lands
  <1>2. UNCHANGED <<prod, lentBuf, cons, heldBuf>>
    BY DEF Drain
  <1>3. /\ pend'["P"] = pend["P"] \ {s} /\ pend'["C"] = pend["C"]
        /\ s[1] \in Location /\ mem'[s[1]] = s[2]
        /\ \A l \in Location : l # s[1] => mem'[l] = mem[l]
    BY <1>0, <1>1, LandsFits
  <1>4. /\ s[1][1] \in {"magic", "r_head", "f_tail", "ready", "len", "lo", "hi"}
        /\ s[1][1] = "ready" => prod.pc = "publish" /\ s[1] = ReadyRing(rh % NBuf) /\ s[2] = prod.idx
    BY DEF Pool, Waiting
  <1>5. s[1] # FHead /\ s[1] # RTail /\ \A i \in Buf : s[1] # FreeRing(i)
    BY <1>0, <1>4, Cells
  <1>6. /\ Own("P", FTail)' = Own("P", FTail) /\ Own("P", RHead)' = Own("P", RHead)
        /\ Own("C", FHead)' = Own("C", FHead) /\ Own("C", RTail)' = Own("C", RTail)
        /\ s[1] = RHead => mem'[RHead] = Own("P", RHead)
    BY <1>0, <1>1, <1>5, OwnLands
  <1>7. mem'[FHead] = mem[FHead]
    BY <1>0, <1>3, <1>5
  <1> DEFINE v == IF s[1] = RHead THEN rh ELSE rv
  <1>8. v \in Nat /\ rv <= v /\ v <= rh /\ mem'[RHead] = v % CursorMod
    <2>1. rv <= rh /\ Own("P", RHead) = rh % CursorMod /\ mem[RHead] = rv % CursorMod
      BY DEF Pool, Turns
    <2>2. CASE s[1] = RHead
      BY <1>6, <2>1, <2>2
    <2>3. CASE s[1] # RHead
      BY <1>0, <1>3, <2>1, <2>3
    <2> QED BY <2>2, <2>3
  <1> HIDE DEF v
  <1>9. Turns(ft, fv, fh, rt, v, rh)'
    <2>1. rt <= rv
      BY DEF Pool, Turns
    <2>2. rt <= v
      BY <1>8, <2>1
    <2> QED BY <1>6, <1>7, <1>8, <2>2 DEF Pool, Turns
  <1>10. Waiting(fh, rh)'
    <2>1. \A r \in pend'["P"] : r \in pend["P"]
      BY <1>3
    <2> QED BY <1>2, <1>3, <2>1 DEF Pool, Waiting, FreeRing, ReadyRing
  <1>11. \A k \in Nat : FreeAt(k)' = FreeAt(k)
    <2>1. \A k \in Nat : k % NBuf \in Buf
      BY PoolSize, DivMod DEF Buf
    <2>2. \A i \in Buf : mem'[FreeRing(i)] = mem[FreeRing(i)]
      BY <1>3, <1>5, Cells
    <2> QED BY <2>1, <2>2 DEF FreeAt
  <1>12. ASSUME NEW k \in Nat, s[1] # ReadyRing(k % NBuf) PROVE ReadyAt(k)' = ReadyAt(k)
    <2>1. k % NBuf \in Buf
      BY PoolSize, DivMod DEF Buf
    <2> QED BY <1>3, <1>12, <2>1, Cells DEF ReadyAt
  <1>13. \A k \in rt .. rh - 1 : ReadyAt(k)' = ReadyAt(k)
    <2> SUFFICES ASSUME NEW k \in rt .. rh - 1 PROVE ReadyAt(k)' = ReadyAt(k)
      OBVIOUS
    <2>1. k \in Nat /\ k % NBuf \in Buf /\ rh % NBuf \in Buf
      BY PoolSize, DivMod DEF Buf
    <2>2. s[1] # ReadyRing(k % NBuf)
      <3>1. SUFFICES ASSUME s[1] = ReadyRing(k % NBuf) PROVE FALSE
        OBVIOUS
      <3>2. s[1][1] = "ready" /\ s[1][2] = k % NBuf
        BY <2>1, <3>1, Cells
      <3>3. s[1] = ReadyRing(rh % NBuf) /\ prod.pc = "publish"
        BY <1>4, <3>2
      <3>4. k % NBuf = rh % NBuf
        BY <2>1, <3>2, <3>3, Cells
      <3>5. rh < rt + NBuf
        BY <3>3 DEF Pool, Publishing
      <3> QED BY <3>4, <3>5, EntryApart
    <2> QED BY <1>12, <2>1, <2>2
  <1>14. Lent' = Lent /\ HeldNow' = HeldNow
    BY <1>2 DEF Lent, HeldNow
  <1>15. Loaning(ft, fv)' /\ Releasing(ft, fh)'
    BY <1>2, <1>3, <1>11, <1>14 DEF Pool, Loaning, Releasing, FreeRing
  <1>16. Taking(rt, v)'
    <2>1. ASSUME cons.pc \in {"entry", "length", "advance"} PROVE cons.cur = rt % CursorMod /\ rt < v /\ rt \in rt .. rh - 1
      <3>1. cons.cur = rt % CursorMod /\ rt < rv
        BY <2>1 DEF Pool, Taking
      <3> QED BY <1>8, <3>1
    <2> QED BY <1>2, <1>13, <2>1 DEF Pool, Taking
  <1>17. Publishing(rt, rh)'
    <2>1. SUFFICES ASSUME prod.pc = "publish" PROVE Publishing(rt, rh)'
      BY <1>2 DEF Publishing
    <2>2. prod.cur = rh % CursorMod /\ rh < rt + NBuf /\ prod.idx \in Lent
          /\ ((\E r \in pend["P"] : r[1] = ReadyRing(rh % NBuf)) \/ ReadyAt(rh) = prod.idx)
      BY <2>1 DEF Pool, Publishing
    <2>3. (\E r \in pend'["P"] : r[1] = ReadyRing(rh % NBuf)) \/ ReadyAt(rh)' = prod.idx
      <3>0. rh % NBuf \in Buf
        BY PoolSize, DivMod DEF Buf
      <3>1. CASE s[1] = ReadyRing(rh % NBuf)
        <4>1. s[1][1] = "ready"
          BY <3>0, <3>1, Cells
        <4>2. mem'[ReadyRing(rh % NBuf)] = prod.idx
          BY <1>3, <1>4, <3>1, <4>1
        <4> QED BY <4>2 DEF ReadyAt
      <3>2. CASE s[1] # ReadyRing(rh % NBuf)
        <4>1. ReadyAt(rh)' = ReadyAt(rh)
          BY <1>12, <3>2
        <4> QED BY <1>3, <2>2, <3>2, <4>1
      <3> QED BY <3>1, <3>2
    <2> QED BY <1>2, <1>14, <2>2, <2>3 DEF Publishing, ReadyRing
  <1>18. Somewhere(ft, fh, rt, rh)' /\ NotTwice(ft, fh, rt, rh)'
    <2>1. \A k \in ft .. fh - 1 : FreeAt(k)' = FreeAt(k)
      BY <1>11
    <2> QED BY <1>13, <1>14, <2>1, PlacesSame DEF Pool
  <1>19. Pool(ft, fv, fh, rt, v, rh)'
    BY <1>9, <1>10, <1>15, <1>16, <1>17, <1>18 DEF Pool
  <1> QED BY <1>8, <1>13, <1>19

\* A store of the consumer lands; one of the free ring's head shows what was released.
LEMMA ConsumerLands ==
  ASSUME Divides, StoresFit, LocalsFit, StoresFit',
         NEW ft \in Nat, NEW fv \in Nat, NEW fh \in Nat, NEW rt \in Nat, NEW rv \in Nat, NEW rh \in Nat,
         Pool(ft, fv, fh, rt, rv, rh), Drain("C")
  PROVE  (\E v \in Nat : Pool(ft, v, fh, rt, rv, rh)') /\ \A k \in rt .. rh - 1 : ReadyAt(k)' = ReadyAt(k)
  <1>0. /\ "P" \in Side /\ "C" \in Side /\ "P" # "C"
        /\ FTail \in Location /\ RHead \in Location /\ FHead \in Location /\ RTail \in Location
        /\ FTail[1] = "f_tail" /\ FHead[1] = "f_head" /\ RHead[1] = "r_head"
    BY Cells DEF Side
  <1>1. PICK s \in pend["C"] : Lands("C", s)
    BY DEF Drain, Lands
  <1>2. UNCHANGED <<prod, lentBuf, cons, heldBuf>>
    BY DEF Drain
  <1>3. /\ pend'["C"] = pend["C"] \ {s} /\ pend'["P"] = pend["P"]
        /\ s[1] \in Location /\ mem'[s[1]] = s[2]
        /\ \A l \in Location : l # s[1] => mem'[l] = mem[l]
    BY <1>0, <1>1, LandsFits
  <1>4. /\ s[1][1] \in {"r_tail", "f_head", "free"}
        /\ s[1][1] = "free" => cons.pc = "release" /\ s[1] = FreeRing(fh % NBuf) /\ s[2] = cons.idx
    BY DEF Pool, Waiting
  <1>5. s[1] # FTail /\ s[1] # RHead /\ \A i \in Buf : s[1] # ReadyRing(i)
    BY <1>0, <1>4, Cells
  <1>6. /\ Own("P", FTail)' = Own("P", FTail) /\ Own("P", RHead)' = Own("P", RHead)
        /\ Own("C", FHead)' = Own("C", FHead) /\ Own("C", RTail)' = Own("C", RTail)
        /\ s[1] = FHead => mem'[FHead] = Own("C", FHead)
    BY <1>0, <1>1, <1>5, OwnLands
  <1>7. mem'[RHead] = mem[RHead]
    BY <1>0, <1>3, <1>5
  <1> DEFINE v == IF s[1] = FHead THEN fh ELSE fv
  <1>8. v \in Nat /\ fv <= v /\ v <= fh /\ mem'[FHead] = v % CursorMod
    <2>1. fv <= fh /\ Own("C", FHead) = fh % CursorMod /\ mem[FHead] = fv % CursorMod
      BY DEF Pool, Turns
    <2>2. CASE s[1] = FHead
      BY <1>6, <2>1, <2>2
    <2>3. CASE s[1] # FHead
      BY <1>0, <1>3, <2>1, <2>3
    <2> QED BY <2>2, <2>3
  <1> HIDE DEF v
  <1>9. Turns(ft, v, fh, rt, rv, rh)'
    <2>1. ft <= fv
      BY DEF Pool, Turns
    <2>2. ft <= v
      BY <1>8, <2>1
    <2> QED BY <1>6, <1>7, <1>8, <2>2 DEF Pool, Turns
  <1>10. Waiting(fh, rh)'
    <2>1. \A r \in pend'["C"] : r \in pend["C"]
      BY <1>3
    <2> QED BY <1>2, <1>3, <2>1 DEF Pool, Waiting, FreeRing, ReadyRing
  <1>11. \A k \in Nat : ReadyAt(k)' = ReadyAt(k)
    <2>1. \A k \in Nat : k % NBuf \in Buf
      BY PoolSize, DivMod DEF Buf
    <2>2. \A i \in Buf : mem'[ReadyRing(i)] = mem[ReadyRing(i)]
      BY <1>3, <1>5, Cells
    <2> QED BY <2>1, <2>2 DEF ReadyAt
  <1>12. ASSUME NEW k \in Nat, s[1] # FreeRing(k % NBuf) PROVE FreeAt(k)' = FreeAt(k)
    <2>1. k % NBuf \in Buf
      BY PoolSize, DivMod DEF Buf
    <2> QED BY <1>3, <1>12, <2>1, Cells DEF FreeAt
  <1>13. \A k \in ft .. fh - 1 : FreeAt(k)' = FreeAt(k)
    <2> SUFFICES ASSUME NEW k \in ft .. fh - 1 PROVE FreeAt(k)' = FreeAt(k)
      OBVIOUS
    <2>1. k \in Nat /\ k % NBuf \in Buf /\ fh % NBuf \in Buf
      BY PoolSize, DivMod DEF Buf
    <2>2. s[1] # FreeRing(k % NBuf)
      <3>1. SUFFICES ASSUME s[1] = FreeRing(k % NBuf) PROVE FALSE
        OBVIOUS
      <3>2. s[1][1] = "free" /\ s[1][2] = k % NBuf
        BY <2>1, <3>1, Cells
      <3>3. s[1] = FreeRing(fh % NBuf) /\ cons.pc = "release"
        BY <1>4, <3>2
      <3>4. k % NBuf = fh % NBuf
        BY <2>1, <3>2, <3>3, Cells
      <3>5. fh < ft + NBuf
        BY <3>3 DEF Pool, Releasing
      <3> QED BY <3>4, <3>5, EntryApart
    <2> QED BY <1>12, <2>1, <2>2
  <1>14. Lent' = Lent /\ HeldNow' = HeldNow
    BY <1>2 DEF Lent, HeldNow
  <1>15. Taking(rt, rv)' /\ Publishing(rt, rh)'
    BY <1>2, <1>3, <1>11, <1>14 DEF Pool, Taking, Publishing, ReadyRing
  <1>16. Loaning(ft, v)'
    <2>1. ASSUME prod.pc \in {"entry", "advance"} PROVE prod.cur = ft % CursorMod /\ ft < v /\ ft \in ft .. fh - 1
      <3>1. prod.cur = ft % CursorMod /\ ft < fv
        BY <2>1 DEF Pool, Loaning
      <3> QED BY <1>8, <3>1
    <2> QED BY <1>2, <1>13, <2>1 DEF Pool, Loaning
  <1>17. Releasing(ft, fh)'
    <2>1. SUFFICES ASSUME cons.pc = "release" PROVE Releasing(ft, fh)'
      BY <1>2 DEF Releasing
    <2>2. cons.cur = fh % CursorMod /\ fh < ft + NBuf /\ cons.idx \in HeldNow
          /\ ((\E r \in pend["C"] : r[1] = FreeRing(fh % NBuf)) \/ FreeAt(fh) = cons.idx)
      BY <2>1 DEF Pool, Releasing
    <2>3. (\E r \in pend'["C"] : r[1] = FreeRing(fh % NBuf)) \/ FreeAt(fh)' = cons.idx
      <3>0. fh % NBuf \in Buf
        BY PoolSize, DivMod DEF Buf
      <3>1. CASE s[1] = FreeRing(fh % NBuf)
        <4>1. s[1][1] = "free"
          BY <3>0, <3>1, Cells
        <4>2. mem'[FreeRing(fh % NBuf)] = cons.idx
          BY <1>3, <1>4, <3>1, <4>1
        <4> QED BY <4>2 DEF FreeAt
      <3>2. CASE s[1] # FreeRing(fh % NBuf)
        <4>1. FreeAt(fh)' = FreeAt(fh)
          BY <1>12, <3>2
        <4> QED BY <1>3, <2>2, <3>2, <4>1
      <3> QED BY <3>1, <3>2
    <2> QED BY <1>2, <1>14, <2>2, <2>3 DEF Releasing, FreeRing
  <1>18. Somewhere(ft, fh, rt, rh)' /\ NotTwice(ft, fh, rt, rh)'
    <2>1. \A k \in rt .. rh - 1 : ReadyAt(k)' = ReadyAt(k)
      BY <1>11
    <2> QED BY <1>13, <1>14, <2>1, PlacesSame DEF Pool
  <1>19. Pool(ft, v, fh, rt, rv, rh)'
    BY <1>9, <1>10, <1>15, <1>16, <1>17, <1>18 DEF Pool
  <1>20. \A k \in rt .. rh - 1 : ReadyAt(k)' = ReadyAt(k)
    BY <1>11
  <1> QED BY <1>8, <1>19, <1>20

-------------------------------------------------------------------------------
(***************************************************************************)
(* The invariant holds at the start and every step keeps it.               *)
(***************************************************************************)
LEMMA BulkInvInit ==
  Init => BulkInv
  <1>1. SUFFICES ASSUME Init PROVE BulkInv
    OBVIOUS
  <1>2. /\ DOMAIN mem = Location /\ DOMAIN pend = Side
        /\ \A l \in Location : mem[l] = IF l = RHead THEN NBuf ELSE 0
        /\ pend["P"] = {} /\ pend["C"] = {} /\ \A side \in Side : pend[side] = {}
    BY <1>1 DEF Init, Side
  <1>3. \A l \in Location : Fits(l, mem[l])
    <2>1. 0 \in Cursor /\ NBuf \in Cursor /\ 0 \in Buf /\ RHead[1] = "r_head"
      BY Numbers, Cells
    <2> QED BY <1>2, <2>1 DEF Fits
  <1>4. StoresFit
    BY <1>2, <1>3 DEF StoresFit
  <1>5. LocalsFit
    <2>1. 0 \in 0 .. MaxOverflows /\ 0 \in 0 .. MaxRestarts /\ 0 \in 0 .. NMessage - 1
      BY BulkAssumption DEF BulkAssumption
    <2> QED BY <1>1, <2>1, Numbers DEF Init, LocalsFit, ProdPcs, ConsPcs
  <1>6. Lent = {} /\ HeldNow = {} /\ prod.pc = "boot" /\ cons.pc = "out"
    BY <1>1 DEF Init, Lent, HeldNow
  <1>7. mem[Magic] = 0
    BY <1>2, Cells
  <1>8. Booting
    BY <1>2, <1>6, <1>7 DEF Booting
  <1>9. ~Ready
    BY <1>6 DEF Ready
  <1> QED BY <1>4, <1>5, <1>8, <1>9 DEF BulkInv

LEMMA ReadyStays ==
  ASSUME LocalsFit, Ready, Next PROVE Ready'
  <1>0. DOMAIN prod = {"pc", "cur", "idx"}
    BY DEF LocalsFit
  <1>1. CASE InitWithdraw \/ InitRings \/ InitAnnounce
    BY <1>1 DEF Ready, InitWithdraw, InitRings, InitAnnounce, ProdAt
  <1>2. CASE InitDone \/ LoanCursors \/ LoanEntry
    <2>1. prod'.pc \in {"idle", "entry", "advance"}
      BY <1>0, <1>2 DEF InitDone, LoanCursors, LoanEntry, ProdGo
    <2> QED BY <2>1 DEF Ready
  <1>3. CASE LoanAdvance \/ PublishHead
    BY <1>3 DEF LoanAdvance, PublishHead, Ready
  <1>4. CASE \E b \in Buf : PublishEntry(b)
    BY <1>4 DEF PublishEntry, Ready
  <1>5. CASE Fills \/ LoanFails \/ Consumer \/ \E side \in Side : Drain(side)
    <2>1. prod' = prod
      BY <1>5 DEF Fills, Fill, LoanFails, Consumer, Valid, TakeNothing, Take, TakeCursors, TakeEntry, TakeLength,
                  TakeAdvance, Read, ReadWord, Release, ReleaseEntry, ReleaseHead, Drain, ProducerIdle
    <2> QED BY <2>1 DEF Ready
  <1> QED BY <1>1, <1>2, <1>3, <1>4, <1>5 DEF Next, Producer, BulkInit, Loan, Publish

LEMMA ReadyKept ==
  ASSUME Divides, StoresFit, LocalsFit, StoresFit', LocalsFit', Ready, Next,
         NEW ft \in Nat, NEW fv \in Nat, NEW fh \in Nat, NEW rt \in Nat, NEW rv \in Nat, NEW rh \in Nat,
         Pool(ft, fv, fh, rt, rv, rh)
  PROVE  \E ft1, fv1, fh1, rt1, rv1, rh1 \in Nat : Pool(ft1, fv1, fh1, rt1, rv1, rh1)'
  <1>0. ft + 1 \in Nat /\ fh + 1 \in Nat /\ rt + 1 \in Nat /\ rh + 1 \in Nat
    OBVIOUS
  <1>1. CASE InitDone \/ LoanFails \/ LoanCursors \/ LoanEntry
    <2>1. Pool(ft, fv, fh, rt, rv, rh)'
      BY <1>1, QuietProducer
    <2> QED BY <2>1
  <1>2. CASE Valid \/ TakeNothing \/ TakeCursors \/ TakeEntry \/ TakeLength \/ Read
    <2>1. Pool(ft, fv, fh, rt, rv, rh)'
      BY <1>2, QuietConsumer
    <2> QED BY <2>1
  <1>3. CASE LoanAdvance
    <2>1. Pool(ft + 1, fv, fh, rt, rv, rh)'
      BY <1>3, LoanAdvanceKeeps
    <2> QED BY <1>0, <2>1
  <1>4. CASE Fills
    <2>1. Pool(ft, fv, fh, rt, rv, rh)'
      BY <1>4, FillKeeps DEF Fills
    <2> QED BY <2>1
  <1>5. CASE \E b \in Buf : PublishEntry(b)
    <2>1. Pool(ft, fv, fh, rt, rv, rh)'
      BY <1>5, PublishEntryKeeps
    <2> QED BY <2>1
  <1>6. CASE PublishHead
    <2>1. Pool(ft, fv, fh, rt, rv, rh + 1)'
      BY <1>6, PublishHeadKeeps
    <2> QED BY <1>0, <2>1
  <1>7. CASE TakeAdvance
    <2>1. Pool(ft, fv, fh, rt + 1, rv, rh)'
      BY <1>7, TakeAdvanceKeeps
    <2> QED BY <1>0, <2>1
  <1>8. CASE \E b \in Buf : ReleaseEntry(b)
    <2>1. Pool(ft, fv, fh, rt, rv, rh)'
      BY <1>8, ReleaseEntryKeeps
    <2> QED BY <2>1
  <1>9. CASE ReleaseHead
    <2>1. Pool(ft, fv, fh + 1, rt, rv, rh)'
      BY <1>9, ReleaseHeadKeeps
    <2> QED BY <1>0, <2>1
  <1>10. CASE Drain("P")
    <2>1. PICK v \in Nat : Pool(ft, fv, fh, rt, v, rh)'
      BY <1>10, ProducerLands
    <2> QED BY <2>1
  <1>11. CASE Drain("C")
    <2>1. PICK v \in Nat : Pool(ft, v, fh, rt, rv, rh)'
      BY <1>11, ConsumerLands
    <2> QED BY <2>1
  <1>12. CASE InitWithdraw \/ InitRings \/ InitAnnounce
    BY <1>12 DEF Ready, InitWithdraw, InitRings, InitAnnounce, ProdAt
  <1> QED BY <1>1, <1>2, <1>3, <1>4, <1>5, <1>6, <1>7, <1>8, <1>9, <1>10, <1>11, <1>12
          DEF Next, Producer, Consumer, BulkInit, Loan, Publish, Take, Release, Side

LEMMA BulkInvStep ==
  Divides /\ BulkInv /\ [Next]_vars => BulkInv'
  <1>1. SUFFICES ASSUME Divides, BulkInv, [Next]_vars PROVE BulkInv'
    OBVIOUS
  <1>2. CASE Next
    <2>1. StoresFit' /\ LocalsFit'
      BY <1>1, <1>2, StoresKept, LocalsKept DEF BulkInv
    <2>2. CASE ~Ready
      <3>1. Booting' /\ (Ready' => Pool(0, NBuf, NBuf, 0, 0, 0)')
        BY <1>1, <1>2, <2>1, <2>2, BootKept DEF BulkInv
      <3>2. 0 \in Nat /\ NBuf \in Nat
        BY PoolSize
      <3>3. Ready' => (\E ft, fv, fh, rt, rv, rh \in Nat : Pool(ft, fv, fh, rt, rv, rh)')
        BY <3>1, <3>2
      <3> QED BY <2>1, <3>1, <3>3 DEF BulkInv
    <2>3. CASE Ready
      <3>1. Ready'
        BY <1>1, <1>2, <2>3, ReadyStays DEF BulkInv
      <3>2. PICK ft, fv, fh, rt, rv, rh \in Nat : Pool(ft, fv, fh, rt, rv, rh)
        BY <1>1, <2>3 DEF BulkInv
      <3>3. \E ft1, fv1, fh1, rt1, rv1, rh1 \in Nat : Pool(ft1, fv1, fh1, rt1, rv1, rh1)'
        BY <1>1, <1>2, <2>1, <2>3, <3>2, ReadyKept DEF BulkInv
      <3> QED BY <2>1, <3>1, <3>3 DEF BulkInv, Booting
    <2> QED BY <2>2, <2>3
  <1>3. CASE UNCHANGED vars
    <2>1. UNCHANGED <<mem, pend, prod, lentBuf, fills, cons, heldBuf, overflows, restarts>>
      BY <1>3 DEF vars
    <2>2. StoresFit'
      BY <1>1, <2>1, StoresSame DEF BulkInv
    <2>3. LocalsFit'
      BY <1>1, <2>1 DEF BulkInv, LocalsFit
    <2>4. Lent' = Lent /\ HeldNow' = HeldNow /\ (Ready' <=> Ready)
      BY <2>1 DEF Lent, HeldNow, Ready
    <2>5. Booting'
      BY <1>1, <2>1, <2>4 DEF BulkInv, Booting, Layout
    <2>6. ASSUME Ready PROVE (\E ft, fv, fh, rt, rv, rh \in Nat : Pool(ft, fv, fh, rt, rv, rh))'
      <3>1. PICK ft, fv, fh, rt, rv, rh \in Nat : Pool(ft, fv, fh, rt, rv, rh)
        BY <1>1, <2>6 DEF BulkInv
      <3>2. Loaning(ft, fv)' /\ Taking(rt, rv)'
        BY <2>1, <3>1 DEF Pool, Loaning, Taking, FreeAt, ReadyAt
      <3>3. Pool(ft, fv, fh, rt, rv, rh)'
        BY <2>1, <2>4, <3>1, <3>2, QuietKeeps
      <3> QED BY <3>3
    <2> QED BY <2>2, <2>3, <2>4, <2>5, <2>6 DEF BulkInv
  <1> QED BY <1>1, <1>2, <1>3

-------------------------------------------------------------------------------
(***************************************************************************)
(* What the invariant says of the pool.                                    *)
(***************************************************************************)
\* The distance of two cursors is that of the counts behind them.
LEMMA DistanceIs ==
  ASSUME NEW a \in Nat, NEW b \in Nat, a <= b, b - a < CursorMod
  PROVE  Distance(a % CursorMod, b % CursorMod) = b - a
  <1> DEFINE m == CursorMod
             r == a % m
             s == b % m
             d == b - a
  <1>1. m \in Nat \ {0} /\ d \in 0 .. m - 1 /\ a + d = b
    BY PoolSize
  <1> HIDE DEF m
  <1>2. r \in 0 .. m - 1 /\ s \in 0 .. m - 1
    BY <1>1, DivMod
  <1>3. (s - r) % m = d
    <2>1. (((a + d) % m) - (a % m)) % m = d
      BY <1>1, ModApart
    <2> QED BY <1>1, <2>1
  <1> HIDE DEF r, s, d
  <1>4. (s + m - r) % m = d
    <2>1. CASE s >= r
      <3>1. s - r \in 0 .. m - 1 /\ 1 \in Nat /\ s + m - r = m * 1 + (s - r)
        BY <1>1, <1>2, <2>1
      <3>2. (s - r) % m = s - r /\ (m * 1 + (s - r)) % m = s - r
        BY <1>1, <3>1, ModSmall, ModUnique
      <3> QED BY <1>3, <3>1, <3>2
    <2>2. CASE s < r
      <3>1. s + m - r \in 0 .. m - 1 /\ s - r = (s + m - r) - m
        BY <1>1, <1>2, <2>2
      <3>2. (s + m - r) % m = s + m - r /\ ((s + m - r) - m) % m = s + m - r
        BY <1>1, <3>1, ModSmall
      <3> QED BY <1>3, <3>1, <3>2
    <2> QED BY <1>2, <2>1, <2>2
  <1> QED BY <1>4 DEF Distance, m, r, s, d

\* The slot of the i-th cursor behind a tail.
LEMMA SlotBehind ==
  ASSUME Divides, NEW a \in Nat, NEW i \in Nat
  PROVE  Slot(((a % CursorMod) + i) % CursorMod) = (a + i) % NBuf
  <1>1. CursorMod \in Nat \ {0} /\ a + i \in Nat
    BY PoolSize
  <1>2. ((a % CursorMod) + i) % CursorMod = (a + i) % CursorMod
    BY <1>1, ModPlus
  <1> QED BY <1>1, <1>2, Slots

\* What the producer may yet loan, and what the consumer may yet take, is in memory.
LEMMA FreeShown ==
  ASSUME StoresFit, NEW ft \in Nat, NEW fv \in Nat, NEW fh \in Nat, NEW rt \in Nat, NEW rv \in Nat, NEW rh \in Nat,
         Pool(ft, fv, fh, rt, rv, rh), NEW k \in ft .. fh - 1
  PROVE  Own("C", FreeRing(k % NBuf)) = FreeAt(k)
  <1>1. k % NBuf \in Buf /\ fh % NBuf \in Buf
    BY PoolSize, DivMod DEF Buf
  <1>2. \A s \in pend["C"] : s[1] # FreeRing(k % NBuf)
    <2> SUFFICES ASSUME NEW s \in pend["C"], s[1] = FreeRing(k % NBuf) PROVE FALSE
      OBVIOUS
    <2>1. s[1][1] = "free" /\ s[1][2] = k % NBuf
      BY <1>1, Cells
    <2>2. s[1] = FreeRing(fh % NBuf) /\ cons.pc = "release"
      BY <2>1 DEF Pool, Waiting
    <2>3. k % NBuf = fh % NBuf
      BY <1>1, <2>1, <2>2, Cells
    <2>4. fh < ft + NBuf
      BY <2>2 DEF Pool, Releasing
    <2> QED BY <2>3, <2>4, EntryApart
  <1> QED BY <1>2 DEF Own, FreeAt

LEMMA ReadyShown ==
  ASSUME StoresFit, NEW ft \in Nat, NEW fv \in Nat, NEW fh \in Nat, NEW rt \in Nat, NEW rv \in Nat, NEW rh \in Nat,
         Pool(ft, fv, fh, rt, rv, rh), NEW k \in rt .. rh - 1
  PROVE  Own("P", ReadyRing(k % NBuf)) = ReadyAt(k)
  <1>1. k % NBuf \in Buf /\ rh % NBuf \in Buf
    BY PoolSize, DivMod DEF Buf
  <1>2. \A s \in pend["P"] : s[1] # ReadyRing(k % NBuf)
    <2> SUFFICES ASSUME NEW s \in pend["P"], s[1] = ReadyRing(k % NBuf) PROVE FALSE
      OBVIOUS
    <2>1. s[1][1] = "ready" /\ s[1][2] = k % NBuf
      BY <1>1, Cells
    <2>2. s[1] = ReadyRing(rh % NBuf) /\ prod.pc = "publish"
      BY <2>1 DEF Pool, Waiting
    <2>3. k % NBuf = rh % NBuf
      BY <1>1, <2>1, <2>2, Cells
    <2>4. rh < rt + NBuf
      BY <2>2 DEF Pool, Publishing
    <2> QED BY <2>3, <2>4, EntryApart
  <1> QED BY <1>2 DEF Own, ReadyAt

\* A set is as large as what a function makes of it that tells its elements apart.
LEMMA SameSize ==
  ASSUME NEW S, IsFiniteSet(S), NEW T, NEW f \in [S -> T],
         \A b \in T : \E c \in S : f[c] = b, \A c, e \in S : f[c] = f[e] => c = e
  PROVE  Cardinality(S) = Cardinality(T)
  <1>1. f \in Surjection(S, T)
    BY DEF Surjection
  <1>2. f \in Injection(S, T)
    BY DEF Injection, IsInjective
  <1>3. Cardinality(T) = Cardinality(S)
    BY <1>1, <1>2, FS_Surjection
  <1> QED BY <1>3

LEMMA CursorsFinite ==
  ASSUME NEW t \in Nat, NEW d \in Nat PROVE IsFiniteSet({t + i : i \in 0 .. d - 1})
  <1> DEFINE S == {t + i : i \in 0 .. d - 1}
  <1>1. S = t .. t + d - 1
    <2>1. \A c \in S : c \in t .. t + d - 1
      OBVIOUS
    <2>2. \A c \in t .. t + d - 1 : c - t \in 0 .. d - 1 /\ c = t + (c - t)
      OBVIOUS
    <2> QED BY <2>1, <2>2
  <1>2. t \in Int /\ t + d - 1 \in Int
    OBVIOUS
  <1> QED BY <1>1, <1>2, FS_Interval

\* The free ring's cursors, slots and buffers.
LEMMA FreeRingIs ==
  ASSUME Divides, StoresFit, NEW ft \in Nat, NEW fv \in Nat, NEW fh \in Nat, NEW rt \in Nat, NEW rv \in Nat, NEW rh \in Nat,
         Pool(ft, fv, fh, rt, rv, rh)
  PROVE  /\ \A b : b \in FreeSet <=> \E k \in ft .. fh - 1 : FreeAt(k) = b
         /\ Cardinality(FreeCursors) = Cardinality(FreeSet)
         /\ \A c, e \in FreeCursors : Slot(c % CursorMod) = Slot(e % CursorMod) => c = e
  <1> DEFINE t == ft % CursorMod
             d == fh - ft
             entry == [c \in FreeCursors |-> Entry("C", FreeRing(Slot(c % CursorMod)))]
  <1>0. NBuf \in Nat \ {0} /\ CursorMod \in Nat \ {0} /\ NBuf < CursorMod
    BY PoolSize
  <1>1. ft <= fh /\ fh <= ft + NBuf /\ Own("P", FTail) = t /\ Own("C", FHead) = fh % CursorMod
    BY DEF Pool, Turns
  <1>2. d \in Nat /\ d <= NBuf /\ t \in Nat /\ \A i \in 0 .. d - 1 : i \in Nat /\ ft + i \in ft .. fh - 1
    <2>1. t \in Nat
      BY <1>0, DivMod
    <2> QED BY <1>0, <1>1, <2>1
  <1>3. Distance(Own("P", FTail), Own("C", FHead)) = d
    <2>1. fh - ft < CursorMod
      BY <1>0, <1>1
    <2> QED BY <1>1, <2>1, DistanceIs
  <1>4. FreeCursors = {t + i : i \in 0 .. d - 1}
    BY <1>1, <1>3 DEF FreeCursors
  <1>5. ASSUME NEW i \in 0 .. d - 1 PROVE Slot((t + i) % CursorMod) = (ft + i) % NBuf
    BY <1>2, SlotBehind
  <1>6. ASSUME NEW i \in 0 .. d - 1 PROVE t + i \in FreeCursors /\ entry[t + i] = FreeAt(ft + i)
    <2>1. t + i \in FreeCursors
      BY <1>4
    <2>2. Own("C", FreeRing((ft + i) % NBuf)) = FreeAt(ft + i)
      <3> DEFINE k == ft + i
      <3>1. k \in ft .. fh - 1
        BY <1>2
      <3> HIDE DEF k
      <3>2. Own("C", FreeRing(k % NBuf)) = FreeAt(k)
        BY <3>1, FreeShown
      <3> QED BY <3>2 DEF k
    <2> QED BY <1>5, <2>1, <2>2 DEF Entry
  <1>7. FreeSet = {entry[c] : c \in FreeCursors} /\ entry \in [FreeCursors -> FreeSet]
    BY DEF FreeSet
  <1> HIDE DEF entry, t
  <1>8. ASSUME NEW b PROVE b \in FreeSet <=> \E k \in ft .. fh - 1 : FreeAt(k) = b
    <2>1. ASSUME b \in FreeSet PROVE \E k \in ft .. fh - 1 : FreeAt(k) = b
      <3>1. PICK i \in 0 .. d - 1 : b = entry[t + i]
        BY <1>4, <1>7, <2>1
      <3> QED BY <1>2, <1>6, <3>1
    <2>2. ASSUME NEW k \in ft .. fh - 1, FreeAt(k) = b PROVE b \in FreeSet
      <3>1. k - ft \in 0 .. d - 1 /\ ft + (k - ft) = k
        OBVIOUS
      <3>2. entry[t + (k - ft)] = b /\ t + (k - ft) \in FreeCursors
        BY <1>6, <2>2, <3>1
      <3> QED BY <1>7, <3>2
    <2> QED BY <2>1, <2>2
  <1>9. \A i, j \in 0 .. d - 1 : entry[t + i] = entry[t + j] => i = j
    <2> SUFFICES ASSUME NEW i \in 0 .. d - 1, NEW j \in 0 .. d - 1, entry[t + i] = entry[t + j] PROVE i = j
      OBVIOUS
    <2>1. FreeAt(ft + i) = FreeAt(ft + j)
      BY <1>6
    <2>2. ft + i = ft + j
      BY <1>2, <2>1 DEF Pool, NotTwice
    <2> QED BY <2>2
  <1>10. Cardinality(FreeCursors) = Cardinality(FreeSet)
    <2> DEFINE S == FreeCursors
               T == FreeSet
    <2>1. IsFiniteSet(S)
      BY <1>2, <1>4, CursorsFinite
    <2>2. entry \in [S -> T] /\ (\A b \in T : \E c \in S : entry[c] = b)
      BY <1>7
    <2>3. \A c, e \in S : entry[c] = entry[e] => c = e
      BY <1>4, <1>9
    <2> HIDE DEF S, T
    <2>4. Cardinality(S) = Cardinality(T)
      BY <2>1, <2>2, <2>3, SameSize
    <2> QED BY <2>4 DEF S, T
  <1>11. ASSUME NEW c \in FreeCursors, NEW e \in FreeCursors, Slot(c % CursorMod) = Slot(e % CursorMod) PROVE c = e
    <2>1. PICK i \in 0 .. d - 1 : c = t + i
      BY <1>4
    <2>2. PICK j \in 0 .. d - 1 : e = t + j
      BY <1>4
    <2>3. (ft + i) % NBuf = (ft + j) % NBuf
      BY <1>5, <1>11, <2>1, <2>2
    <2>4. ft + i \in Nat /\ ft + j \in Nat /\ ft + i < (ft + j) + NBuf /\ ft + j < (ft + i) + NBuf
      BY <1>0, <1>2
    <2>5. ~(ft + i < ft + j) /\ ~(ft + j < ft + i)
      BY <2>3, <2>4, SlotsDiffer
    <2> QED BY <2>1, <2>2, <2>4, <2>5
  <1> QED BY <1>8, <1>10, <1>11

\* The ready ring's cursors, slots and buffers.
LEMMA ReadyRingIs ==
  ASSUME Divides, StoresFit, NEW ft \in Nat, NEW fv \in Nat, NEW fh \in Nat, NEW rt \in Nat, NEW rv \in Nat, NEW rh \in Nat,
         Pool(ft, fv, fh, rt, rv, rh)
  PROVE  /\ \A b : b \in ReadySet <=> \E k \in rt .. rh - 1 : ReadyAt(k) = b
         /\ Cardinality(ReadyCursors) = Cardinality(ReadySet)
         /\ \A c, e \in ReadyCursors : Slot(c % CursorMod) = Slot(e % CursorMod) => c = e
  <1> DEFINE t == rt % CursorMod
             d == rh - rt
             entry == [c \in ReadyCursors |-> Entry("P", ReadyRing(Slot(c % CursorMod)))]
  <1>0. NBuf \in Nat \ {0} /\ CursorMod \in Nat \ {0} /\ NBuf < CursorMod
    BY PoolSize
  <1>1. rt <= rh /\ rh <= rt + NBuf /\ Own("C", RTail) = t /\ Own("P", RHead) = rh % CursorMod
    BY DEF Pool, Turns
  <1>2. d \in Nat /\ d <= NBuf /\ t \in Nat /\ \A i \in 0 .. d - 1 : i \in Nat /\ rt + i \in rt .. rh - 1
    <2>1. t \in Nat
      BY <1>0, DivMod
    <2> QED BY <1>0, <1>1, <2>1
  <1>3. Distance(Own("C", RTail), Own("P", RHead)) = d
    <2>1. rh - rt < CursorMod
      BY <1>0, <1>1
    <2> QED BY <1>1, <2>1, DistanceIs
  <1>4. ReadyCursors = {t + i : i \in 0 .. d - 1}
    BY <1>1, <1>3 DEF ReadyCursors
  <1>5. ASSUME NEW i \in 0 .. d - 1 PROVE Slot((t + i) % CursorMod) = (rt + i) % NBuf
    BY <1>2, SlotBehind
  <1>6. ASSUME NEW i \in 0 .. d - 1 PROVE t + i \in ReadyCursors /\ entry[t + i] = ReadyAt(rt + i)
    <2>1. t + i \in ReadyCursors
      BY <1>4
    <2>2. Own("P", ReadyRing((rt + i) % NBuf)) = ReadyAt(rt + i)
      <3> DEFINE k == rt + i
      <3>1. k \in rt .. rh - 1
        BY <1>2
      <3> HIDE DEF k
      <3>2. Own("P", ReadyRing(k % NBuf)) = ReadyAt(k)
        BY <3>1, ReadyShown
      <3> QED BY <3>2 DEF k
    <2> QED BY <1>5, <2>1, <2>2 DEF Entry
  <1>7. ReadySet = {entry[c] : c \in ReadyCursors} /\ entry \in [ReadyCursors -> ReadySet]
    BY DEF ReadySet
  <1> HIDE DEF entry, t
  <1>8. ASSUME NEW b PROVE b \in ReadySet <=> \E k \in rt .. rh - 1 : ReadyAt(k) = b
    <2>1. ASSUME b \in ReadySet PROVE \E k \in rt .. rh - 1 : ReadyAt(k) = b
      <3>1. PICK i \in 0 .. d - 1 : b = entry[t + i]
        BY <1>4, <1>7, <2>1
      <3> QED BY <1>2, <1>6, <3>1
    <2>2. ASSUME NEW k \in rt .. rh - 1, ReadyAt(k) = b PROVE b \in ReadySet
      <3>1. k - rt \in 0 .. d - 1 /\ rt + (k - rt) = k
        OBVIOUS
      <3>2. entry[t + (k - rt)] = b /\ t + (k - rt) \in ReadyCursors
        BY <1>6, <2>2, <3>1
      <3> QED BY <1>7, <3>2
    <2> QED BY <2>1, <2>2
  <1>9. \A i, j \in 0 .. d - 1 : entry[t + i] = entry[t + j] => i = j
    <2> SUFFICES ASSUME NEW i \in 0 .. d - 1, NEW j \in 0 .. d - 1, entry[t + i] = entry[t + j] PROVE i = j
      OBVIOUS
    <2>1. ReadyAt(rt + i) = ReadyAt(rt + j)
      BY <1>6
    <2>2. rt + i = rt + j
      BY <1>2, <2>1 DEF Pool, NotTwice
    <2> QED BY <2>2
  <1>10. Cardinality(ReadyCursors) = Cardinality(ReadySet)
    <2> DEFINE S == ReadyCursors
               T == ReadySet
    <2>1. IsFiniteSet(S)
      BY <1>2, <1>4, CursorsFinite
    <2>2. entry \in [S -> T] /\ (\A b \in T : \E c \in S : entry[c] = b)
      BY <1>7
    <2>3. \A c, e \in S : entry[c] = entry[e] => c = e
      BY <1>4, <1>9
    <2> HIDE DEF S, T
    <2>4. Cardinality(S) = Cardinality(T)
      BY <2>1, <2>2, <2>3, SameSize
    <2> QED BY <2>4 DEF S, T
  <1>11. ASSUME NEW c \in ReadyCursors, NEW e \in ReadyCursors, Slot(c % CursorMod) = Slot(e % CursorMod) PROVE c = e
    <2>1. PICK i \in 0 .. d - 1 : c = t + i
      BY <1>4
    <2>2. PICK j \in 0 .. d - 1 : e = t + j
      BY <1>4
    <2>3. (rt + i) % NBuf = (rt + j) % NBuf
      BY <1>5, <1>11, <2>1, <2>2
    <2>4. rt + i \in Nat /\ rt + j \in Nat /\ rt + i < (rt + j) + NBuf /\ rt + j < (rt + i) + NBuf
      BY <1>0, <1>2
    <2>5. ~(rt + i < rt + j) /\ ~(rt + j < rt + i)
      BY <2>3, <2>4, SlotsDiffer
    <2> QED BY <2>1, <2>2, <2>4, <2>5
  <1> QED BY <1>8, <1>10, <1>11

LEMMA InvTypeOK ==
  ASSUME StoresFit, LocalsFit PROVE TypeOK
  <1>1. \A l \in {RHead, FTail, RTail, FHead} : mem[l] \in Cursor
    <2>1. \A l \in CursorCells : mem[l] \in Cursor
      BY OwnCursor DEF Side
    <2> QED BY <2>1 DEF CursorCells
  <1>2. \A i \in Buf : mem[FreeRing(i)] \in Buf /\ mem[ReadyRing(i)] \in Buf
    BY Cells DEF StoresFit, Fits
  <1>3. \A side \in Side : \A p, q \in pend[side] : p[1] = q[1] => p = q
    BY DEF StoresFit
  <1> QED BY <1>1, <1>2, <1>3 DEF TypeOK, StoresFit, LocalsFit

\* A set of which exactly one of four things is an element.
LEMMA OneOfFour ==
  ASSUME NEW F \in BOOLEAN, NEW L \in BOOLEAN, NEW R \in BOOLEAN, NEW H \in BOOLEAN, F \/ L \/ R \/ H,
         ~(F /\ L), ~(F /\ R), ~(F /\ H), ~(L /\ R), ~(L /\ H), ~(R /\ H)
  PROVE  Cardinality({s \in {"free", "lent", "ready", "held"} :
                  \/ s = "free" /\ F
                  \/ s = "lent" /\ L
                  \/ s = "ready" /\ R
                  \/ s = "held" /\ H}) = 1
  <1> DEFINE S == {s \in {"free", "lent", "ready", "held"} :
                  \/ s = "free" /\ F
                  \/ s = "lent" /\ L
                  \/ s = "ready" /\ R
                  \/ s = "held" /\ H}
  <1>1. CASE F
    <2>1. S = {"free"}
      BY <1>1
    <2> QED BY <2>1, FS_Singleton
  <1>2. CASE L
    <2>1. S = {"lent"}
      BY <1>2
    <2> QED BY <2>1, FS_Singleton
  <1>3. CASE R
    <2>1. S = {"ready"}
      BY <1>3
    <2> QED BY <2>1, FS_Singleton
  <1>4. CASE H
    <2>1. S = {"held"}
      BY <1>4
    <2> QED BY <2>1, FS_Singleton
  <1> QED BY <1>1, <1>2, <1>3, <1>4

LEMMA InvOneOwner ==
  ASSUME Divides, BulkInv PROVE OneOwner
  <1>1. SUFFICES ASSUME Ready PROVE OneOwner
    BY DEF OneOwner
  <1>2. PICK ft, fv, fh, rt, rv, rh \in Nat : Pool(ft, fv, fh, rt, rv, rh)
    BY <1>1 DEF BulkInv
  <1>3. /\ \A b : b \in FreeSet <=> \E k \in ft .. fh - 1 : FreeAt(k) = b
        /\ Cardinality(FreeCursors) = Cardinality(FreeSet)
    BY SMTT(30), <1>2, FreeRingIs DEF BulkInv
  <1>4. /\ \A b : b \in ReadySet <=> \E k \in rt .. rh - 1 : ReadyAt(k) = b
        /\ Cardinality(ReadyCursors) = Cardinality(ReadySet)
    BY SMTT(30), <1>2, ReadyRingIs DEF BulkInv
  <1>5. ASSUME NEW b \in Buf
        PROVE  Cardinality({s \in {"free", "lent", "ready", "held"} :
                  \/ s = "free" /\ b \in FreeSet
                  \/ s = "lent" /\ b \in Lent
                  \/ s = "ready" /\ b \in ReadySet
                  \/ s = "held" /\ b \in HeldNow}) = 1
    <2> DEFINE F == b \in FreeSet
               L == b \in Lent
               R == b \in ReadySet
               H == b \in HeldNow
    <2>1. F \in BOOLEAN /\ L \in BOOLEAN /\ R \in BOOLEAN /\ H \in BOOLEAN
      OBVIOUS
    <2>2. F \/ L \/ R \/ H
      BY <1>2, <1>3, <1>4 DEF Pool, Somewhere
    <2>3. ~(F /\ L) /\ ~(F /\ H) /\ ~(R /\ L) /\ ~(R /\ H) /\ ~(L /\ H)
      BY <1>2, <1>3, <1>4 DEF Pool, NotTwice
    <2>4. ~(F /\ R)
      BY <1>2, <1>3, <1>4 DEF Pool, NotTwice
    <2> HIDE DEF F, L, R, H
    <2>5. Cardinality({s \in {"free", "lent", "ready", "held"} :
                  \/ s = "free" /\ F
                  \/ s = "lent" /\ L
                  \/ s = "ready" /\ R
                  \/ s = "held" /\ H}) = 1
      BY <2>1, <2>2, <2>3, <2>4, OneOfFour
    <2> QED BY <2>5 DEF F, L, R, H
  <1> QED BY <1>3, <1>4, <1>5 DEF OneOwner

LEMMA InvSlots ==
  ASSUME Divides, BulkInv PROVE SlotsDistinct
  <1>1. SUFFICES ASSUME Ready PROVE SlotsDistinct
    BY DEF SlotsDistinct
  <1>2. PICK ft, fv, fh, rt, rv, rh \in Nat : Pool(ft, fv, fh, rt, rv, rh)
    BY <1>1 DEF BulkInv
  <1>3. \A c, e \in FreeCursors : Slot(c % CursorMod) = Slot(e % CursorMod) => c = e
    BY <1>2, FreeRingIs DEF BulkInv
  <1>4. \A c, e \in ReadyCursors : Slot(c % CursorMod) = Slot(e % CursorMod) => c = e
    BY <1>2, ReadyRingIs DEF BulkInv
  <1> QED BY <1>3, <1>4 DEF SlotsDistinct

LEMMA InvHeld ==
  ASSUME BulkInv PROVE HeldNotLent
  <1>1. CASE Ready
    BY <1>1 DEF BulkInv, Pool, NotTwice, HeldNotLent
  <1>2. CASE ~Ready
    BY <1>2 DEF BulkInv, Booting, HeldNotLent
  <1> QED BY <1>1, <1>2

LEMMA BulkInvariance ==
  ASSUME Divides PROVE Spec => []BulkInv
  <1>1. Init => BulkInv
    BY BulkInvInit
  <1>2. BulkInv /\ [Next]_vars => BulkInv'
    BY BulkInvStep
  <1> QED BY <1>1, <1>2, PTL DEF Spec

\* bulk.h:26-28 and REQ-BULK-002: with a pool whose size divides the cursors' range, every buffer
\* is at every moment in the free ring, lent, in the ready ring or held, and in one of them only,
\* whatever the two cores do and in whatever order their stores reach the memory.
THEOREM PoolStaysSound ==
  ASSUME Divides PROVE Spec => []PoolSound
  <1>1. BulkInv => PoolSound
    BY InvTypeOK, InvOneOwner DEF BulkInv, PoolSound
  <1> QED BY <1>1, BulkInvariance, PTL

\* bulk.h:26-28: a slot is consumed before it can be rewritten.  It takes that the pool's size
\* divides the cursors' range, which the header does not ask for.
THEOREM SlotsStayDistinct ==
  ASSUME Divides PROVE Spec => []SlotsDistinct
  <1>1. BulkInv => SlotsDistinct
    BY InvSlots
  <1> QED BY <1>1, BulkInvariance, PTL

\* REQ-BULK-002: a loan never hands the producer a buffer the consumer still holds, as long as
\* neither side restarts alone.
THEOREM HeldIsNeverLent ==
  ASSUME Divides PROVE Spec => []HeldNotLent
  <1>1. BulkInv => HeldNotLent
    BY InvHeld
  <1> QED BY <1>1, BulkInvariance, PTL

-------------------------------------------------------------------------------
(***************************************************************************)
(* The queue: what the buffers say.                                        *)
(***************************************************************************)
Whole(b, m) == m \in Message /\ \A w \in Words : mem[Word(b, w)] = m
Said(k) == mem[LenArr(ReadyAt(k))]

\* The producer's stores go to what it has been lent; what it has filled says its message, and
\* what is published or held says one message, whole.
Content(rt, rh) ==
    /\ \A s \in pend["P"] : s[1][1] \in {"lo", "hi"} => s[1][2] \in Lent
    /\ \A s \in pend["P"] : s[1][1] = "len" => prod.pc = "publish" /\ s[1][2] = prod.idx
    /\ \A b \in Lent : lentBuf[b] # 0 => \A w \in Words : Own("P", Word(b, w)) = lentBuf[b]
    /\ prod.pc = "publish" => lentBuf[prod.idx] # 0 /\ Own("P", LenArr(prod.idx)) = lentBuf[prod.idx]
    /\ \A k \in rt .. rh - 1 : Whole(ReadyAt(k), Said(k))
    /\ cons.pc = "advance" => cons.len = Said(rt)
    /\ \A b \in HeldNow : Whole(b, heldBuf[b].len)

\* What the rings and the buffers say, for some counts of what went through them.
StillSays(rt, rh) == \E ft, fv, fh, rv \in Nat : Pool(ft, fv, fh, rt, rv, rh) /\ Content(rt, rh)
Says == \E rt, rh \in Nat : StillSays(rt, rh)
QueueInv == BulkInv /\ (Ready => Says)

LEMMA WordsApart ==
  /\ \A b, c \in Buf, v, w \in Words : Word(b, v) = Word(c, w) => b = c /\ v = w
  /\ \A b \in Buf, w \in Words : Word(b, w)[2] = b
  /\ \A b \in Buf : LenArr(b)[2] = b
  /\ \A b, c \in Buf : LenArr(b) = LenArr(c) => b = c
  BY DEF Word, LenArr, Words

\* The names of cells that are not a buffer's.
LEMMA BufferCells ==
  ASSUME NEW l \in Location, l[1] \notin {"lo", "hi", "len"}, NEW b \in Buf
  PROVE  l # LenArr(b) /\ \A w \in Words : l # Word(b, w)
  BY Cells

LEMMA ContentQuiet ==
  ASSUME NEW rt \in Nat, NEW rh \in Nat, Content(rt, rh), UNCHANGED <<mem, pend, lentBuf>>, HeldNow' = HeldNow,
         prod.pc = "publish" => prod' = prod, prod'.pc = "publish" => prod' = prod,
         cons'.pc = "advance" => cons' = cons \/ cons'.len = Said(rt),
         \A b \in HeldNow : heldBuf'[b].len = heldBuf[b].len
  PROVE  Content(rt, rh)'
  <1>1. Lent' = Lent /\ \A k : ReadyAt(k)' = ReadyAt(k) /\ Said(k)' = Said(k)
    BY DEF Lent, ReadyAt, Said
  <1>2. \A l : Own("P", l)' = Own("P", l)
    BY DEF Own
  <1>3. /\ \A s \in pend'["P"] : s[1][1] \in {"lo", "hi"} => s[1][2] \in Lent'
        /\ \A s \in pend'["P"] : s[1][1] = "len" => prod'.pc = "publish" /\ s[1][2] = prod'.idx
    BY <1>1 DEF Content
  <1>4. \A b \in Lent' : lentBuf'[b] # 0 => \A w \in Words : Own("P", Word(b, w))' = lentBuf'[b]
    BY <1>1, <1>2 DEF Content
  <1>5. prod'.pc = "publish" => lentBuf'[prod'.idx] # 0 /\ Own("P", LenArr(prod.idx))' = lentBuf'[prod'.idx]
    BY <1>2 DEF Content
  <1>6. \A k \in rt .. rh - 1 : Whole(ReadyAt(k), Said(k))'
    BY <1>1 DEF Content, Whole
  <1>7. cons'.pc = "advance" => cons'.len = Said(rt)'
    BY <1>1 DEF Content
  <1>8. \A b \in HeldNow' : Whole(b, heldBuf[b].len)'
    <2> SUFFICES ASSUME NEW b \in HeldNow' PROVE Whole(b, heldBuf[b].len)'
      OBVIOUS
    <2>1. Whole(b, heldBuf[b].len) /\ heldBuf'[b].len = heldBuf[b].len
      BY DEF Content
    <2> QED BY <2>1 DEF Whole
  <1> QED BY <1>3, <1>4, <1>5, <1>6, <1>7, <1>8 DEF Content

LEMMA ContentQuietProducer ==
  ASSUME LocalsFit, NEW rt \in Nat, NEW rh \in Nat, Content(rt, rh), InitDone \/ LoanFails \/ LoanCursors \/ LoanEntry
  PROVE  Content(rt, rh)'
  <1>1. UNCHANGED <<mem, pend, lentBuf, cons, heldBuf>>
    BY DEF InitDone, LoanFails, LoanCursors, LoanEntry, ConsumerIdle
  <1>2. HeldNow' = HeldNow
    BY <1>1 DEF HeldNow
  <1>3. prod' = prod \/ (prod.pc # "publish" /\ prod'.pc # "publish")
    BY DEF InitDone, LoanFails, LoanCursors, LoanEntry, ProdAt, ProdGo, LocalsFit
  <1> QED BY <1>1, <1>2, <1>3, ContentQuiet

LEMMA ContentQuietConsumer ==
  ASSUME StoresFit, LocalsFit, NEW rt \in Nat, NEW rv, NEW rh \in Nat, Content(rt, rh), Taking(rt, rv),
         Valid \/ TakeNothing \/ TakeCursors \/ TakeEntry \/ TakeLength \/ Read
  PROVE  Content(rt, rh)'
  <1> USE DEF ConsAt, ProducerIdle
  <1>0. DOMAIN cons = {"pc", "cur", "idx", "len"}
    BY DEF LocalsFit
  <1>1. UNCHANGED <<mem, pend, lentBuf, prod>>
    BY DEF Valid, TakeNothing, TakeCursors, TakeEntry, TakeLength, Read, ReadWord
  <1>2. CASE Valid \/ TakeNothing \/ TakeCursors \/ TakeEntry
    <2>1. heldBuf' = heldBuf /\ cons'.pc # "advance"
      BY <1>0, <1>2 DEF Valid, TakeNothing, TakeCursors, TakeEntry
    <2>2. HeldNow' = HeldNow
      BY <2>1 DEF HeldNow
    <2> QED BY <1>1, <2>1, <2>2, ContentQuiet
  <1>3. CASE TakeLength
    <2>1. heldBuf' = heldBuf /\ cons.pc = "length" /\ cons'.len = mem[LenArr(cons.idx)]
      BY <1>0, <1>3 DEF TakeLength
    <2>2. HeldNow' = HeldNow
      BY <2>1 DEF HeldNow
    <2>3. cons'.len = Said(rt)
      BY <2>1 DEF Taking, Said
    <2> QED BY <1>1, <2>1, <2>2, <2>3, ContentQuiet
  <1>4. CASE Read
    <2>1. PICK b \in Buf, w \in Words : ReadWord(b, w)
      BY <1>4 DEF Read
    <2>2. cons' = cons /\ b \in HeldNow /\ \A x \in Buf : x # b => heldBuf'[x] = heldBuf[x]
      BY <2>1 DEF ReadWord, LocalsFit
    <2>3. heldBuf'[b].len = heldBuf[b].len /\ heldBuf'[b] # NotHeldBuf
      <3>1. DOMAIN heldBuf[b] = {"len", "saw"} /\ heldBuf[b].len \in Nat
        BY <2>2 DEF LocalsFit, HeldNow
      <3>2. heldBuf'[b] = [heldBuf[b] EXCEPT !.saw[w] = mem[Word(b, w)]]
        BY <2>1 DEF ReadWord, LocalsFit
      <3>3. heldBuf'[b].len = heldBuf[b].len
        BY <3>1, <3>2
      <3> QED BY <3>1, <3>3, NotHeldIs
    <2>4. HeldNow' = HeldNow
      BY <2>2, <2>3 DEF HeldNow
    <2>5. \A x \in HeldNow : heldBuf'[x].len = heldBuf[x].len
      BY <2>2, <2>3 DEF HeldNow
    <2> QED BY <1>1, <2>2, <2>4, <2>5, ContentQuiet
  <1> QED BY <1>2, <1>3, <1>4

\* The producer moves a cursor: its other stores have landed.
LEMMA ContentLoanAdvance ==
  ASSUME StoresFit, LocalsFit, StoresFit', NEW rt \in Nat, NEW rh \in Nat, Content(rt, rh), LoanAdvance
  PROVE  Content(rt, rh)'
  <1>0. /\ "P" \in Side /\ FTail \in CursorCells /\ Next1(prod.cur) \in Cursor /\ FTail[1] = "f_tail" /\ FTail \in Location
    BY Cells, Numbers DEF Side, CursorCells, LocalsFit
  <1>1. /\ pend["P"] = {} /\ Put("P", {<<FTail, Next1(prod.cur)>>}) /\ mem' = mem
        /\ cons' = cons /\ heldBuf' = heldBuf /\ lentBuf' = [lentBuf EXCEPT ![prod.idx] = 0] /\ prod'.pc = "idle"
    BY DEF LoanAdvance, Fenced, ConsumerIdle
  <1>2. /\ \A s \in pend'["P"] : s = <<FTail, Next1(prod.cur)>>
        /\ \A l : l # FTail => Own("P", l)' = Own("P", l)
    BY <1>0, <1>1, PutCursor
  <1>3. \A b \in Buf, w \in Words : Own("P", Word(b, w))' = Own("P", Word(b, w))
    BY <1>0, <1>2, BufferCells
  <1>4. HeldNow' = HeldNow /\ \A b \in Buf : b # prod.idx => lentBuf'[b] = lentBuf[b]
    BY <1>1 DEF HeldNow, LocalsFit
  <1>5. \A b \in Lent' : lentBuf'[b] # 0 => b \in Lent /\ lentBuf'[b] = lentBuf[b]
    BY <1>1, <1>4 DEF Lent, LocalsFit
  <1>6. \A k : ReadyAt(k)' = ReadyAt(k) /\ Said(k)' = Said(k)
    BY <1>1 DEF ReadyAt, Said
  <1>7. \A s \in pend'["P"] : s[1][1] = "f_tail"
    BY <1>0, <1>2
  <1>8. \A b \in Lent' : lentBuf'[b] # 0 => \A w \in Words : Own("P", Word(b, w))' = lentBuf'[b]
    BY <1>3, <1>5 DEF Content, Lent
  <1>9. /\ \A k \in rt .. rh - 1 : Whole(ReadyAt(k), Said(k))'
        /\ \A b \in HeldNow' : Whole(b, heldBuf[b].len)'
        /\ cons'.pc = "advance" => cons'.len = Said(rt)'
    BY <1>1, <1>4, <1>6 DEF Content, Whole
  <1> QED BY <1>1, <1>7, <1>8, <1>9 DEF Content

LEMMA ContentPublishHead ==
  ASSUME StoresFit, LocalsFit, StoresFit', NEW rt \in Nat, NEW rh \in Nat, Content(rt, rh), Publishing(rt, rh), PublishHead
  PROVE  Content(rt, rh + 1)' /\ Said(rh)' = lentBuf[prod.idx] /\ lentBuf[prod.idx] \in Message
  <1>0. /\ "P" \in Side /\ RHead \in CursorCells /\ Next1(prod.cur) \in Cursor /\ RHead[1] = "r_head" /\ RHead \in Location
    BY Cells, Numbers DEF Side, CursorCells, LocalsFit
  <1>1. /\ prod.pc = "publish" /\ pend["P"] = {} /\ Put("P", {<<RHead, Next1(prod.cur)>>}) /\ mem' = mem
        /\ cons' = cons /\ heldBuf' = heldBuf /\ lentBuf' = [lentBuf EXCEPT ![prod.idx] = NotLent] /\ prod'.pc = "idle"
    BY DEF PublishHead, ProdAt, Fenced, ConsumerIdle
  <1>2. /\ \A s \in pend'["P"] : s = <<RHead, Next1(prod.cur)>>
        /\ \A l : l # RHead => Own("P", l)' = Own("P", l)
    BY <1>0, <1>1, PutCursor
  <1>3. \A b \in Buf, w \in Words : Own("P", Word(b, w))' = Own("P", Word(b, w))
    BY <1>0, <1>2, BufferCells
  <1>4. HeldNow' = HeldNow /\ \A b \in Buf : b # prod.idx => lentBuf'[b] = lentBuf[b]
    BY <1>1 DEF HeldNow, LocalsFit
  <1>5. \A b \in Lent' : b \in Lent /\ lentBuf'[b] = lentBuf[b]
    BY <1>1, <1>4 DEF Lent, LocalsFit
  <1>6. \A k : ReadyAt(k)' = ReadyAt(k) /\ Said(k)' = Said(k)
    BY <1>1 DEF ReadyAt, Said
  <1>7. \A s \in pend'["P"] : s[1][1] = "r_head"
    BY <1>0, <1>2
  <1>8. \A b \in Lent' : lentBuf'[b] # 0 => \A w \in Words : Own("P", Word(b, w))' = lentBuf'[b]
    BY <1>3, <1>5 DEF Content, Lent
  <1>9. prod.idx \in Lent /\ ReadyAt(rh) = prod.idx
    BY <1>1 DEF Publishing
  <1>10. lentBuf[prod.idx] \in Message
    BY <1>1, <1>9 DEF Content, LocalsFit, Lent
  <1>11. mem[LenArr(prod.idx)] = lentBuf[prod.idx] /\ \A w \in Words : mem[Word(prod.idx, w)] = lentBuf[prod.idx]
    BY <1>1, <1>9 DEF Content, Own
  <1>12. Whole(ReadyAt(rh), Said(rh))' /\ Said(rh)' = lentBuf[prod.idx]
    BY <1>1, <1>6, <1>9, <1>10, <1>11 DEF Whole, Said
  <1>13. \A k \in rt .. rh - 1 : Whole(ReadyAt(k), Said(k))'
    BY <1>1, <1>6 DEF Content, Whole
  <1>14. \A k \in rt .. (rh + 1) - 1 : Whole(ReadyAt(k), Said(k))'
    <2>1. \A k \in rt .. (rh + 1) - 1 : k \in rt .. rh - 1 \/ k = rh
      OBVIOUS
    <2> QED BY <1>12, <1>13, <2>1
  <1>15. /\ \A b \in HeldNow' : Whole(b, heldBuf[b].len)'
         /\ cons'.pc = "advance" => cons'.len = Said(rt)'
    BY <1>1, <1>4, <1>6 DEF Content, Whole
  <1> QED BY <1>1, <1>7, <1>8, <1>10, <1>12, <1>14, <1>15 DEF Content

LEMMA ContentTakeAdvance ==
  ASSUME StoresFit, LocalsFit, StoresFit', NEW rt \in Nat, NEW rv \in Nat, NEW rh \in Nat, Content(rt, rh), Taking(rt, rv), rv <= rh,
         TakeAdvance
  PROVE  Content(rt + 1, rh)'
  <1>0. /\ "P" \in Side /\ "C" \in Side /\ "P" # "C" /\ RTail \in CursorCells /\ Next1(cons.cur) \in Cursor
    BY Numbers DEF Side, CursorCells, LocalsFit
  <1>1. /\ cons.pc = "advance" /\ Put("C", {<<RTail, Next1(cons.cur)>>}) /\ mem' = mem
        /\ prod' = prod /\ lentBuf' = lentBuf /\ cons'.pc = "idle"
        /\ heldBuf' = [heldBuf EXCEPT ![cons.idx] = [NotHeldBuf EXCEPT !.len = cons.len]]
    BY DEF TakeAdvance, ConsAt, ProducerIdle
  <1>2. pend'["P"] = pend["P"]
    BY <1>0, <1>1, PutCursor
  <1>3. Lent' = Lent /\ \A l : Own("P", l)' = Own("P", l)
    BY <1>1, <1>2 DEF Lent, Own
  <1>4. \A k : ReadyAt(k)' = ReadyAt(k) /\ Said(k)' = Said(k)
    BY <1>1 DEF ReadyAt, Said
  <1>5. /\ \A s \in pend'["P"] : s[1][1] \in {"lo", "hi"} => s[1][2] \in Lent'
        /\ \A s \in pend'["P"] : s[1][1] = "len" => prod'.pc = "publish" /\ s[1][2] = prod'.idx
        /\ \A b \in Lent' : lentBuf'[b] # 0 => \A w \in Words : Own("P", Word(b, w))' = lentBuf'[b]
        /\ prod'.pc = "publish" => lentBuf'[prod'.idx] # 0 /\ Own("P", LenArr(prod.idx))' = lentBuf'[prod'.idx]
    BY <1>1, <1>2, <1>3 DEF Content
  <1>6. rt \in rt .. rh - 1 /\ cons.idx = ReadyAt(rt) /\ cons.len = Said(rt)
    <2>1. rt < rv /\ cons.idx = ReadyAt(rt)
      BY <1>1 DEF Taking
    <2>2. cons.len = Said(rt)
      BY <1>1 DEF Content
    <2> QED BY <2>1, <2>2
  <1>7. \A k \in rt + 1 .. rh - 1 : Whole(ReadyAt(k), Said(k))'
    <2>1. \A k \in rt + 1 .. rh - 1 : k \in rt .. rh - 1
      OBVIOUS
    <2> QED BY <1>1, <1>4, <2>1 DEF Content, Whole
  <1>8. \A b \in HeldNow' : Whole(b, heldBuf[b].len)'
    <2>1. Whole(cons.idx, cons.len)
      BY <1>6 DEF Content
    <2>2. heldBuf'[cons.idx].len = cons.len
      BY <1>1, NotHeldIs DEF LocalsFit
    <2>3. \A b \in HeldNow' : b # cons.idx => b \in HeldNow /\ heldBuf'[b] = heldBuf[b]
      BY <1>1 DEF HeldNow, LocalsFit
    <2>4. ASSUME NEW b \in HeldNow' PROVE Whole(b, heldBuf[b].len)'
      <3>1. Whole(b, heldBuf'[b].len)
        BY <2>1, <2>2, <2>3 DEF Content
      <3> QED BY <1>1, <3>1 DEF Whole
    <2> QED BY <2>4
  <1> QED BY <1>1, <1>5, <1>7, <1>8 DEF Content

LEMMA ContentRelease ==
  ASSUME StoresFit, LocalsFit, StoresFit', NEW rt \in Nat, NEW rh \in Nat, Content(rt, rh),
         (\E b \in Buf : ReleaseEntry(b)) \/ ReleaseHead
  PROVE  Content(rt, rh)'
  <1>1. /\ \E stores : Put("C", stores)
        /\ mem' = mem /\ prod' = prod /\ lentBuf' = lentBuf /\ cons'.pc # "advance"
        /\ \A b \in HeldNow' : b \in HeldNow /\ heldBuf'[b] = heldBuf[b]
    <2>1. CASE \E b \in Buf : ReleaseEntry(b)
      BY <2>1 DEF ReleaseEntry, ProducerIdle, HeldNow, LocalsFit
    <2>2. CASE ReleaseHead
      BY <2>2 DEF ReleaseHead, ProducerIdle, HeldNow, LocalsFit
    <2> QED BY <2>1, <2>2
  <1>2. pend'["P"] = pend["P"]
    BY <1>1 DEF Put, StoresFit, Side
  <1>3. Lent' = Lent /\ \A l : Own("P", l)' = Own("P", l)
    BY <1>1, <1>2 DEF Lent, Own
  <1>4. \A k : ReadyAt(k)' = ReadyAt(k) /\ Said(k)' = Said(k)
    BY <1>1 DEF ReadyAt, Said
  <1>5. /\ \A s \in pend'["P"] : s[1][1] \in {"lo", "hi"} => s[1][2] \in Lent'
        /\ \A s \in pend'["P"] : s[1][1] = "len" => prod'.pc = "publish" /\ s[1][2] = prod'.idx
        /\ \A b \in Lent' : lentBuf'[b] # 0 => \A w \in Words : Own("P", Word(b, w))' = lentBuf'[b]
        /\ prod'.pc = "publish" => lentBuf'[prod'.idx] # 0 /\ Own("P", LenArr(prod.idx))' = lentBuf'[prod'.idx]
    BY <1>1, <1>2, <1>3 DEF Content
  <1>6. \A k \in rt .. rh - 1 : Whole(ReadyAt(k), Said(k))'
    BY <1>1, <1>4 DEF Content, Whole
  <1>7. \A b \in HeldNow' : Whole(b, heldBuf[b].len)'
    <2> SUFFICES ASSUME NEW b \in HeldNow' PROVE Whole(b, heldBuf[b].len)'
      OBVIOUS
    <2>1. Whole(b, heldBuf'[b].len)
      BY <1>1 DEF Content
    <2> QED BY <1>1, <2>1 DEF Whole
  <1> QED BY <1>1, <1>5, <1>6, <1>7 DEF Content

LEMMA ContentFill ==
  ASSUME StoresFit, LocalsFit, StoresFit', NEW rt \in Nat, NEW rh \in Nat, Content(rt, rh), NEW b \in Buf, Fill(b)
  PROVE  Content(rt, rh)'
  <1> DEFINE stores == {<<Word(b, w), fills + 1>> : w \in Words}
  <1>0. "P" \in Side
    BY DEF Side
  <1>1. /\ prod.pc = "idle" /\ lentBuf[b] = 0 /\ Put("P", stores) /\ mem' = mem /\ prod' = prod
        /\ cons' = cons /\ heldBuf' = heldBuf /\ lentBuf' = [lentBuf EXCEPT ![b] = fills + 1]
    BY DEF Fill, ProdAt, ConsumerIdle
  <1>2. /\ \A n \in stores : n[1] \in Location /\ Fits(n[1], n[2]) /\ n[1][1] \in {"lo", "hi"}
        /\ \A n, m \in stores : n[1] = m[1] => n = m
    BY FillStoresFit
  <1>3. /\ \A n \in stores : n[2] = fills + 1 /\ n[1][2] = b /\ \E w \in Words : n[1] = Word(b, w)
        /\ \A w \in Words : <<Word(b, w), fills + 1>> \in stores
    BY WordsApart
  <1> HIDE DEF stores
  <1>4. /\ \A n \in stores : Own("P", n[1])' = n[2]
        /\ \A l : (\A n \in stores : n[1] # l) => Own("P", l)' = Own("P", l)
    BY <1>0, <1>1, OwnPut
  <1>5. Lent' = Lent /\ b \in Lent /\ HeldNow' = HeldNow /\ lentBuf'[b] = fills + 1
        /\ \A c \in Buf : c # b => lentBuf'[c] = lentBuf[c]
    <2>1. fills + 1 # -1 /\ 0 # -1
      BY DEF LocalsFit
    <2> QED BY <1>1, <2>1 DEF HeldNow, Lent, LocalsFit, NotLent
  <1>6. \A s \in pend'["P"] : s \in pend["P"] \/ s \in stores
    BY <1>0, <1>1, <1>2, PutFits
  <1>7. \A k : ReadyAt(k)' = ReadyAt(k) /\ Said(k)' = Said(k)
    BY <1>1 DEF ReadyAt, Said
  <1>8. /\ \A s \in pend'["P"] : s[1][1] \in {"lo", "hi"} => s[1][2] \in Lent'
        /\ \A s \in pend'["P"] : s[1][1] = "len" => prod'.pc = "publish" /\ s[1][2] = prod'.idx
    <2>1. \A s \in stores : s[1][1] # "len" /\ s[1][2] \in Lent
      BY <1>2, <1>3, <1>5
    <2> QED BY <1>1, <1>5, <1>6, <2>1 DEF Content
  <1>9. ASSUME NEW c \in Lent', lentBuf'[c] # 0, NEW w \in Words PROVE Own("P", Word(c, w))' = lentBuf'[c]
    <2>1. CASE c = b
      <3>1. <<Word(b, w), fills + 1>> \in stores
        BY <1>3
      <3>2. Own("P", Word(b, w))' = fills + 1
        BY <1>4, <3>1
      <3> QED BY <1>5, <2>1, <3>2
    <2>2. CASE c # b
      <3>1. \A n \in stores : n[1] # Word(c, w)
        BY <1>3, <2>2, WordsApart DEF Lent
      <3>2. Own("P", Word(c, w))' = Own("P", Word(c, w))
        BY <1>4, <3>1
      <3> QED BY <1>5, <1>9, <2>2, <3>2 DEF Content, Lent
    <2> QED BY <2>1, <2>2
  <1>10. /\ \A k \in rt .. rh - 1 : Whole(ReadyAt(k), Said(k))'
         /\ \A c \in HeldNow' : Whole(c, heldBuf[c].len)'
         /\ cons'.pc = "advance" => cons'.len = Said(rt)'
    BY <1>1, <1>5, <1>7 DEF Content, Whole
  <1> QED BY <1>1, <1>8, <1>9, <1>10 DEF Content

LEMMA ContentPublishEntry ==
  ASSUME StoresFit, LocalsFit, StoresFit', NEW rt \in Nat, NEW rh \in Nat, Content(rt, rh), NEW b \in Buf, PublishEntry(b)
  PROVE  Content(rt, rh)'
  <1> DEFINE i == Slot(Own("P", RHead))
             stores == {<<LenArr(b), lentBuf[b]>>, <<ReadyRing(i), b>>}
  <1>0. "P" \in Side
    BY DEF Side
  <1>1. /\ prod.pc = "idle" /\ lentBuf[b] \in Message /\ Put("P", stores) /\ mem' = mem
        /\ prod'.pc = "publish" /\ prod'.idx = b
        /\ cons' = cons /\ heldBuf' = heldBuf /\ lentBuf' = lentBuf
    BY DEF PublishEntry, ProdAt, ConsumerIdle
  <1>2. i \in Buf
    BY <1>0, OwnCursor, Numbers DEF CursorCells
  <1> HIDE DEF i
  <1>3. /\ \A n \in stores : n[1] \in Location /\ Fits(n[1], n[2]) /\ n[1][1] \in {"len", "ready"}
        /\ \A n, m \in stores : n[1] = m[1] => n = m
    BY <1>1, <1>2, PublishStoresFit DEF Message
  <1>4. /\ <<LenArr(b), lentBuf[b]>> \in stores
        /\ \A n \in stores : n[1][1] = "len" => n[1][2] = b
    BY <1>2, Cells, WordsApart
  <1> HIDE DEF stores
  <1>5. /\ \A n \in stores : Own("P", n[1])' = n[2]
        /\ \A l : (\A n \in stores : n[1] # l) => Own("P", l)' = Own("P", l)
    BY <1>0, <1>1, OwnPut
  <1>6. \A s \in pend'["P"] : s \in pend["P"] \/ s \in stores
    BY <1>0, <1>1, <1>3, PutFits
  <1>7. Lent' = Lent /\ HeldNow' = HeldNow /\ \A k : ReadyAt(k)' = ReadyAt(k) /\ Said(k)' = Said(k)
    BY <1>1 DEF Lent, HeldNow, ReadyAt, Said
  <1>8. /\ \A s \in pend'["P"] : s[1][1] \in {"lo", "hi"} => s[1][2] \in Lent'
        /\ \A s \in pend'["P"] : s[1][1] = "len" => prod'.pc = "publish" /\ s[1][2] = prod'.idx
    <2>1. \A s \in stores : s[1][1] \notin {"lo", "hi"}
      BY <1>3
    <2>2. \A s \in pend["P"] : s[1][1] # "len"
      BY <1>1 DEF Content
    <2> QED BY <1>1, <1>4, <1>6, <1>7, <2>1, <2>2 DEF Content
  <1>9. ASSUME NEW c \in Lent', lentBuf'[c] # 0, NEW w \in Words PROVE Own("P", Word(c, w))' = lentBuf'[c]
    <2>1. \A n \in stores : n[1] # Word(c, w)
      BY <1>3, Cells DEF Lent
    <2>2. Own("P", Word(c, w))' = Own("P", Word(c, w))
      BY <1>5, <2>1
    <2> QED BY <1>1, <1>7, <1>9, <2>2 DEF Content
  <1>10. prod'.pc = "publish" => lentBuf'[prod'.idx] # 0 /\ Own("P", LenArr(prod.idx))' = lentBuf'[prod'.idx]
    <2>1. Own("P", LenArr(b))' = lentBuf[b]
      BY <1>4, <1>5
    <2>2. lentBuf[b] # 0
      BY <1>1 DEF Message
    <2> QED BY <1>1, <2>1, <2>2
  <1>11. /\ \A k \in rt .. rh - 1 : Whole(ReadyAt(k), Said(k))'
         /\ \A c \in HeldNow' : Whole(c, heldBuf[c].len)'
         /\ cons'.pc = "advance" => cons'.len = Said(rt)'
    BY <1>1, <1>7 DEF Content, Whole
  <1> QED BY <1>8, <1>9, <1>10, <1>11 DEF Content

\* No store that lands is one to a buffer that waits or is held.
LEMMA ContentLands ==
  ASSUME StoresFit, LocalsFit, StoresFit', NEW ft, NEW fv, NEW fh, NEW rt \in Nat, NEW rv \in Nat, NEW rh \in Nat,
         Pool(ft, fv, fh, rt, rv, rh), Content(rt, rh), NEW side \in Side, Drain(side),
         \A k \in rt .. rh - 1 : ReadyAt(k)' = ReadyAt(k)
  PROVE  Content(rt, rh)' /\ \A k \in rt .. rh - 1 : Said(k)' = Said(k)
  <1>1. PICK s \in pend[side] : Lands(side, s)
    BY DEF Drain, Lands
  <1>2. UNCHANGED <<prod, lentBuf, cons, heldBuf>>
    BY DEF Drain
  <1>3. /\ pend'[side] = pend[side] \ {s} /\ \A r \in Side : r # side => pend'[r] = pend[r]
        /\ s[1] \in Location /\ \A l \in Location : l # s[1] => mem'[l] = mem[l]
    BY <1>1, LandsFits
  <1>4. Lent' = Lent /\ HeldNow' = HeldNow
    BY <1>2 DEF Lent, HeldNow
  <1>5. ASSUME NEW b \in Buf, b \notin Lent
        PROVE  mem'[LenArr(b)] = mem[LenArr(b)] /\ \A w \in Words : mem'[Word(b, w)] = mem[Word(b, w)]
    <2>1. CASE side = "P"
      <3>1. s[1] # LenArr(b)
        <4>1. SUFFICES ASSUME s[1] = LenArr(b) PROVE FALSE
          OBVIOUS
        <4>2. s[1][1] = "len" /\ s[1][2] = b
          BY <4>1, Cells, WordsApart
        <4>3. prod.pc = "publish" /\ prod.idx = b
          BY <2>1, <4>2 DEF Content
        <4> QED BY <1>5, <4>3 DEF Pool, Publishing
      <3>2. \A w \in Words : s[1] # Word(b, w)
        BY <1>5, <2>1, Cells, WordsApart DEF Content
      <3> QED BY <1>3, <3>1, <3>2, Cells
    <2>2. CASE side = "C"
      <3>1. s[1][1] \in {"r_tail", "f_head", "free"}
        BY <2>2 DEF Pool, Waiting
      <3> QED BY <1>3, <3>1, Cells
    <2> QED BY <2>1, <2>2 DEF Side
  <1>6. \A k \in rt .. rh - 1 : ReadyAt(k) \in Buf /\ ReadyAt(k) \notin Lent
    <2>1. \A k \in rt .. rh - 1 : k \in Nat
      OBVIOUS
    <2> QED BY <2>1, EntriesAre DEF Pool, NotTwice
  <1>7. \A k \in rt .. rh - 1 : Said(k)' = Said(k) /\ Whole(ReadyAt(k), Said(k))'
    <2> SUFFICES ASSUME NEW k \in rt .. rh - 1 PROVE Said(k)' = Said(k) /\ Whole(ReadyAt(k), Said(k))'
      OBVIOUS
    <2>1. mem'[LenArr(ReadyAt(k))] = mem[LenArr(ReadyAt(k))] /\ \A w \in Words : mem'[Word(ReadyAt(k), w)] = mem[Word(ReadyAt(k), w)]
      BY <1>5, <1>6
    <2>2. Said(k)' = Said(k)
      BY <2>1 DEF Said
    <2>3. Whole(ReadyAt(k), Said(k))
      BY DEF Content
    <2> QED BY <2>1, <2>2, <2>3 DEF Whole
  <1>8. \A b \in HeldNow' : Whole(b, heldBuf[b].len)'
    <2> SUFFICES ASSUME NEW b \in HeldNow PROVE Whole(b, heldBuf[b].len)'
      BY <1>4
    <2>1. b \in Buf /\ b \notin Lent
      BY DEF HeldNow, Pool, NotTwice
    <2>2. \A w \in Words : mem'[Word(b, w)] = mem[Word(b, w)]
      BY <1>5, <2>1
    <2>3. Whole(b, heldBuf[b].len)
      BY DEF Content
    <2> QED BY <1>2, <2>2, <2>3 DEF Whole
  <1>9. ASSUME NEW l \in Location, l[1] \in {"lo", "hi", "len"} PROVE Own("P", l)' = Own("P", l)
    <2>1. CASE side = "P"
      BY <1>1, <2>1, OwnLands
    <2>2. CASE side = "C"
      <3>1. s[1][1] \in {"r_tail", "f_head", "free"}
        BY <2>2 DEF Pool, Waiting
      <3>2. l # s[1]
        BY <1>9, <3>1
      <3> QED BY <1>1, <2>2, <3>2, OwnLands DEF Side
    <2> QED BY <2>1, <2>2 DEF Side
  <1>10. \A r \in pend'["P"] : r \in pend["P"]
    BY <1>3 DEF Side
  <1>11. /\ \A r \in pend'["P"] : r[1][1] \in {"lo", "hi"} => r[1][2] \in Lent'
         /\ \A r \in pend'["P"] : r[1][1] = "len" => prod'.pc = "publish" /\ r[1][2] = prod'.idx
    BY <1>2, <1>4, <1>10 DEF Content
  <1>12. \A b \in Lent' : lentBuf'[b] # 0 => \A w \in Words : Own("P", Word(b, w))' = lentBuf'[b]
    <2> SUFFICES ASSUME NEW b \in Lent, lentBuf[b] # 0, NEW w \in Words PROVE Own("P", Word(b, w))' = lentBuf[b]
      BY <1>2, <1>4
    <2>1. Own("P", Word(b, w))' = Own("P", Word(b, w))
      BY <1>9, Cells DEF Lent
    <2> QED BY <2>1 DEF Content
  <1>13. prod'.pc = "publish" => lentBuf'[prod'.idx] # 0 /\ Own("P", LenArr(prod.idx))' = lentBuf'[prod'.idx]
    <2>1. LenArr(prod.idx) \in Location /\ LenArr(prod.idx)[1] = "len"
      BY Cells DEF LocalsFit
    <2> DEFINE l == LenArr(prod.idx)
    <2>2. l' = l
      BY <1>2
    <2>3. Own("P", l)' = Own("P", l)
      <3>1. CASE side = "P"
        BY <1>1, <2>1, <2>2, <3>1, OwnLands DEF Own
      <3>2. CASE side = "C"
        BY <1>2, <1>3, <2>1, <3>2 DEF Own, Side, Pool, Waiting
      <3> QED BY <3>1, <3>2 DEF Side
    <2> QED BY <1>2, <2>3 DEF Content
  <1>14. cons'.pc = "advance" => cons'.len = Said(rt)'
    <2>1. ASSUME cons.pc = "advance" PROVE rt \in rt .. rh - 1
      <3>1. rt < rv /\ rv <= rh
        BY <2>1 DEF Pool, Taking, Turns
      <3> QED BY <3>1
    <2> QED BY <1>2, <1>7, <2>1 DEF Content
  <1> QED BY <1>7, <1>8, <1>11, <1>12, <1>13, <1>14 DEF Content

-------------------------------------------------------------------------------
(***************************************************************************)
(* The abstract queue, read off the counts.                                *)
(***************************************************************************)
LEMMA Appended ==
  ASSUME NEW S, NEW n \in Nat, NEW q \in [1 .. n -> S], NEW m \in S, NEW r \in [1 .. n + 1 -> S],
         \A i \in 1 .. n : r[i] = q[i], r[n + 1] = m
  PROVE  r = Append(q, m)
  <1>1. q \in Seq(S) /\ Len(q) = n
    OBVIOUS
  <1>2. r \in Seq(S) /\ Len(r) = n + 1
    OBVIOUS
  <1>3. Append(q, m) \in Seq(S) /\ Len(Append(q, m)) = n + 1
    BY <1>1
  <1>4. ASSUME NEW i \in 1 .. n + 1 PROVE r[i] = Append(q, m)[i]
    <2>1. CASE i \in 1 .. n
      BY <1>1, <2>1
    <2>2. CASE i = n + 1
      BY <1>1, <2>2
    <2> QED BY <2>1, <2>2
  <1> QED BY <1>2, <1>3, <1>4

LEMMA Tailed ==
  ASSUME NEW S, NEW n \in Nat \ {0}, NEW q \in [1 .. n -> S], NEW r \in [1 .. n - 1 -> S],
         \A i \in 1 .. n - 1 : r[i] = q[i + 1]
  PROVE  q # <<>> /\ Head(q) = q[1] /\ r = Tail(q)
  <1>1. q \in Seq(S) /\ Len(q) = n /\ q # <<>>
    OBVIOUS
  <1>2. r \in Seq(S) /\ Len(r) = n - 1
    OBVIOUS
  <1>3. Tail(q) \in Seq(S) /\ Len(Tail(q)) = n - 1
    BY <1>1
  <1>4. ASSUME NEW i \in 1 .. n - 1 PROVE r[i] = Tail(q)[i]
    BY <1>1, <1>4
  <1>5. r = Tail(q)
    BY <1>2, <1>3, <1>4
  <1> QED BY <1>1, <1>5

AbsQueue == IF Ready THEN Queue ELSE <<>>
AbsHeld ==
    [b \in Buf |->
        IF b \in HeldNow
        THEN [msg |-> Intact(b, heldBuf[b].len), saw |-> heldBuf[b].saw]
        ELSE [msg |-> 0, saw |-> [w \in Words |-> 0]]]

Counts(ft, fv, fh, rt, rv, rh) ==
    ft \in Nat /\ fv \in Nat /\ fh \in Nat /\ rt \in Nat /\ rv \in Nat /\ rh \in Nat
QueueSays(rt, rh) ==
    /\ rh - rt \in Nat
    /\ AbsQueue \in [1 .. rh - rt -> Message]
    /\ \A i \in 1 .. rh - rt : AbsQueue[i] = Said(rt + i - 1)

LEMMA QueueIs ==
  ASSUME NEW ft, NEW fv, NEW fh, NEW rt, NEW rv, NEW rh
  PROVE  Counts(ft, fv, fh, rt, rv, rh) /\ Divides /\ Ready /\ Pool(ft, fv, fh, rt, rv, rh) /\ Content(rt, rh)
           => QueueSays(rt, rh)
  <1> SUFFICES ASSUME Counts(ft, fv, fh, rt, rv, rh), Divides, Ready, Pool(ft, fv, fh, rt, rv, rh), Content(rt, rh)
      PROVE  QueueSays(rt, rh)
    OBVIOUS
  <1>0. ft \in Nat /\ fv \in Nat /\ fh \in Nat /\ rt \in Nat /\ rv \in Nat /\ rh \in Nat
    BY DEF Counts
  <1> DEFINE t == rt % CursorMod
             n == rh - rt
  <1>1. rt <= rh /\ rh <= rt + NBuf /\ Own("C", RTail) = t /\ Own("P", RHead) = rh % CursorMod
    BY <1>0 DEF Pool, Turns
  <1>2. n \in Nat /\ t \in Nat
    <2>1. t \in Nat
      BY <1>0, PoolSize, DivMod
    <2> QED BY <1>0, <1>1, <2>1
  <1>3. Distance(Own("C", RTail), Own("P", RHead)) = n
    <2>1. rh - rt < CursorMod
      BY <1>0, <1>1, PoolSize
    <2> QED BY <1>0, <1>1, <2>1, DistanceIs
  <1>4. ASSUME NEW i \in 1 .. n PROVE Slot((t + i - 1) % CursorMod) = (rt + i - 1) % NBuf /\ rt + i - 1 \in rt .. rh - 1
    <2>1. i - 1 \in Nat /\ t + (i - 1) = t + i - 1 /\ rt + (i - 1) = rt + i - 1
      BY <1>0, <1>2
    <2>2. Slot((t + (i - 1)) % CursorMod) = (rt + (i - 1)) % NBuf
      BY <1>0, <2>1, SlotBehind
    <2> QED BY <1>0, <1>2, <2>1, <2>2
  <1>5. ASSUME NEW i \in 1 .. n
        PROVE  Intact(mem[ReadyRing(Slot((t + i - 1) % CursorMod))], mem[LenArr(mem[ReadyRing(Slot((t + i - 1) % CursorMod))])])
                 = Said(rt + i - 1) /\ Said(rt + i - 1) \in Message
    <2> DEFINE k == rt + i - 1
    <2>1. k \in rt .. rh - 1 /\ mem[ReadyRing(Slot((t + i - 1) % CursorMod))] = ReadyAt(k)
      BY <1>4 DEF ReadyAt
    <2> HIDE DEF k
    <2>2. Whole(ReadyAt(k), Said(k))
      BY <2>1 DEF Content
    <2>3. Intact(ReadyAt(k), Said(k)) = Said(k) /\ Said(k) \in Message
      BY <2>2 DEF Whole, Intact, Words
    <2> QED BY <2>1, <2>3 DEF Said, k
  <1>6. AbsQueue = [i \in 1 .. n |-> Intact(mem[ReadyRing(Slot((t + i - 1) % CursorMod))],
                                            mem[LenArr(mem[ReadyRing(Slot((t + i - 1) % CursorMod))])])]
    BY <1>1, <1>3 DEF AbsQueue, Queue
  <1> HIDE DEF t, n
  <1>7. AbsQueue \in [1 .. n -> Message] /\ \A i \in 1 .. n : AbsQueue[i] = Said(rt + i - 1)
    BY <1>5, <1>6
  <1> QED BY <1>2, <1>7 DEF n, QueueSays

LEMMA QueueIsNext ==
  ASSUME NEW ft, NEW fv, NEW fh, NEW rt, NEW rv, NEW rh
  PROVE  Counts(ft, fv, fh, rt, rv, rh) /\ Divides /\ Ready' /\ Pool(ft, fv, fh, rt, rv, rh)' /\ Content(rt, rh)'
           => QueueSays(rt, rh)'
  <1>1. Counts(ft, fv, fh, rt, rv, rh) /\ Divides /\ Ready /\ Pool(ft, fv, fh, rt, rv, rh) /\ Content(rt, rh)
          => QueueSays(rt, rh)
    BY QueueIs
  <1>2. (Counts(ft, fv, fh, rt, rv, rh) /\ Divides /\ Ready /\ Pool(ft, fv, fh, rt, rv, rh) /\ Content(rt, rh))'
          => QueueSays(rt, rh)'
    BY <1>1, PTL
  <1>3. (Divides' <=> Divides) /\ (Counts(ft, fv, fh, rt, rv, rh)' <=> Counts(ft, fv, fh, rt, rv, rh))
    BY DEF Divides, Counts
  <1> QED BY <1>2, <1>3

\* A held buffer says the message it was taken with.
LEMMA HeldIs ==
  ASSUME NEW rt, NEW rh
  PROVE  Content(rt, rh)
           => AbsHeld = [b \in Buf |-> IF b \in HeldNow THEN [msg |-> heldBuf[b].len, saw |-> heldBuf[b].saw]
                                       ELSE [msg |-> 0, saw |-> [w \in Words |-> 0]]]
              /\ \A b \in HeldNow : heldBuf[b].len \in Message
  <1> SUFFICES ASSUME Content(rt, rh)
      PROVE  AbsHeld = [b \in Buf |-> IF b \in HeldNow THEN [msg |-> heldBuf[b].len, saw |-> heldBuf[b].saw]
                                      ELSE [msg |-> 0, saw |-> [w \in Words |-> 0]]]
             /\ \A b \in HeldNow : heldBuf[b].len \in Message
    OBVIOUS
  <1>1. \A b \in HeldNow : Intact(b, heldBuf[b].len) = heldBuf[b].len /\ heldBuf[b].len \in Message
    BY DEF Content, Whole, Intact, Words
  <1> QED BY <1>1 DEF AbsHeld

LEMMA HeldIsNext ==
  ASSUME NEW rt, NEW rh
  PROVE  Content(rt, rh)'
           => AbsHeld' = [b \in Buf |-> IF b \in HeldNow' THEN [msg |-> heldBuf'[b].len, saw |-> heldBuf'[b].saw]
                                        ELSE [msg |-> 0, saw |-> [w \in Words |-> 0]]]
              /\ \A b \in HeldNow' : heldBuf'[b].len \in Message
  <1>1. Content(rt, rh)
           => AbsHeld = [b \in Buf |-> IF b \in HeldNow THEN [msg |-> heldBuf[b].len, saw |-> heldBuf[b].saw]
                                       ELSE [msg |-> 0, saw |-> [w \in Words |-> 0]]]
              /\ \A b \in HeldNow : heldBuf[b].len \in Message
    BY HeldIs
  <1>2. Content(rt, rh)'
           => (AbsHeld = [b \in Buf |-> IF b \in HeldNow THEN [msg |-> heldBuf[b].len, saw |-> heldBuf[b].saw]
                                        ELSE [msg |-> 0, saw |-> [w \in Words |-> 0]]]
               /\ \A b \in HeldNow : heldBuf[b].len \in Message)'
    BY <1>1, PTL
  <1> QED BY <1>2

-------------------------------------------------------------------------------
(***************************************************************************)
(* Each step, as the queue sees it.                                        *)
(***************************************************************************)
LEMMA HeldBufsAre ==
  ASSUME NEW rt, NEW rh, Content(rt, rh) PROVE Abstract!HeldBufs = HeldNow
  <1>1. /\ AbsHeld = [b \in Buf |-> IF b \in HeldNow THEN [msg |-> heldBuf[b].len, saw |-> heldBuf[b].saw]
                                    ELSE [msg |-> 0, saw |-> [w \in Words |-> 0]]]
        /\ \A b \in HeldNow : heldBuf[b].len \in Message
    BY HeldIs
  <1> DEFINE Nil == [msg |-> 0, saw |-> [w \in Words |-> 0]]
  <1>2. ASSUME NEW b \in HeldNow PROVE AbsHeld[b] # Nil
    <2>1. b \in Buf /\ heldBuf[b].len # 0
      BY <1>1 DEF HeldNow, Message
    <2>2. AbsHeld[b].msg = heldBuf[b].len
      BY <1>1, <1>2, <2>1
    <2> QED BY <2>1, <2>2
  <1>3. \A b \in Buf : b \notin HeldNow => AbsHeld[b] = Nil
    BY <1>1
  <1>4. HeldNow \subseteq Buf
    BY DEF HeldNow
  <1>5. Abstract!HeldBufs = {b \in Buf : AbsHeld[b] # Nil}
    BY DEF Abstract!HeldBufs, Abstract!NotHeld, AbsHeld
  <1> HIDE DEF Nil
  <1> QED BY <1>2, <1>3, <1>4, <1>5

LEMMA Stutters ==
  ASSUME NEW rt \in Nat, NEW rh \in Nat, QueueSays(rt, rh), QueueSays(rt, rh)', \A k \in rt .. rh - 1 : Said(k)' = Said(k),
         Lent' = Lent, Content(rt, rh), Content(rt, rh)', heldBuf' = heldBuf
  PROVE  UNCHANGED Abstract!qvars
  <1> DEFINE n == rh - rt
  <1>1. n \in Nat /\ AbsQueue \in [1 .. n -> Message] /\ AbsQueue' \in [1 .. n -> Message]
        /\ \A i \in 1 .. n : AbsQueue[i] = Said(rt + i - 1) /\ AbsQueue'[i] = Said(rt + i - 1)'
    BY DEF QueueSays
  <1>2. \A i \in 1 .. n : rt + i - 1 \in rt .. rh - 1
    OBVIOUS
  <1>3. \A i \in 1 .. n : AbsQueue'[i] = AbsQueue[i]
    BY <1>1, <1>2
  <1>4. AbsQueue' = AbsQueue
    BY <1>1, <1>3
  <1>5. HeldNow' = HeldNow
    BY DEF HeldNow
  <1>6. AbsHeld = [b \in Buf |-> IF b \in HeldNow THEN [msg |-> heldBuf[b].len, saw |-> heldBuf[b].saw]
                                 ELSE [msg |-> 0, saw |-> [w \in Words |-> 0]]]
    BY HeldIs
  <1>7. AbsHeld' = [b \in Buf |-> IF b \in HeldNow' THEN [msg |-> heldBuf'[b].len, saw |-> heldBuf'[b].saw]
                                  ELSE [msg |-> 0, saw |-> [w \in Words |-> 0]]]
    BY HeldIsNext
  <1>8. AbsHeld' = AbsHeld
    BY <1>5, <1>6, <1>7
  <1>9. Cardinality(Lent)' = Cardinality(Lent)
    OBVIOUS
  <1> QED BY <1>4, <1>8, <1>9 DEF Abstract!qvars, AbsQueue, AbsHeld

\* Until the rings are announced there is nothing in the queue.
LEMMA BootStutters ==
  ASSUME ~Ready, Booting, Lent' = {}, HeldNow' = {}, AbsQueue' = <<>> PROVE UNCHANGED Abstract!qvars
  <1>1. Lent = {} /\ HeldNow = {}
    BY DEF Booting
  <1>2. AbsHeld' = AbsHeld
    BY <1>1 DEF AbsHeld
  <1>3. AbsQueue' = AbsQueue
    BY DEF AbsQueue
  <1>4. Cardinality(Lent)' = Cardinality(Lent)
    BY <1>1
  <1> QED BY <1>2, <1>3, <1>4 DEF Abstract!qvars, AbsQueue, AbsHeld

\* A set of fewer than all the buffers: what is lent, what is queued and what is held.
LEMMA BufFinite == IsFiniteSet(Buf) /\ Cardinality(Buf) = NBuf
  <1>1. 0 \in Int /\ NBuf - 1 \in Int /\ ~(0 > NBuf - 1) /\ (NBuf - 1) - 0 + 1 = NBuf
    BY PoolSize
  <1> QED BY <1>1, FS_Interval DEF Buf

LEMMA QueuedSet ==
  ASSUME StoresFit, NEW rt \in Nat, NEW rh \in Nat, rt <= rh,
         \A k, j \in rt .. rh - 1 : ReadyAt(k) = ReadyAt(j) => k = j
  PROVE  \E T \in SUBSET Buf : /\ IsFiniteSet(T) /\ Cardinality(T) = rh - rt
                               /\ \A b \in T : \E k \in rt .. rh - 1 : ReadyAt(k) = b
  <1> DEFINE S == rt .. rh - 1
             f == [k \in S |-> ReadyAt(k)]
             T == {f[k] : k \in S}
  <1>1. IsFiniteSet(S) /\ Cardinality(S) = rh - rt
    <2>1. rt \in Int /\ rh - 1 \in Int /\ (IF rt > rh - 1 THEN 0 ELSE (rh - 1) - rt + 1) = rh - rt
      OBVIOUS
    <2> QED BY <2>1, FS_Interval
  <1>2. f \in [S -> T] /\ (\A b \in T : \E c \in S : f[c] = b)
    OBVIOUS
  <1>3. \A c, e \in S : f[c] = f[e] => c = e
    OBVIOUS
  <1>4. T \subseteq Buf
    BY EntriesAre
  <1>5. \A b \in T : \E k \in rt .. rh - 1 : ReadyAt(k) = b
    OBVIOUS
  <1> HIDE DEF S, T, f
  <1>6. Cardinality(S) = Cardinality(T)
    BY <1>1, <1>2, <1>3, SameSize
  <1>7. IsFiniteSet(T)
    BY <1>4, BufFinite, FS_Subset
  <1> QED BY <1>1, <1>4, <1>5, <1>6, <1>7

\* The queue's count is the transport's.
LEMMA SameCount ==
  ASSUME NEW S PROVE Abstract!Cardinality(S) = Cardinality(S)
  BY Zenon DEF Abstract!Cardinality, Cardinality

LEMMA Together ==
  ASSUME NEW A, NEW B, IsFiniteSet(A), IsFiniteSet(B), A \cap B = {}
  PROVE  IsFiniteSet(A \cup B) /\ Cardinality(A \cup B) = Cardinality(A) + Cardinality(B)
  <1>1. Cardinality(A \cap B) = 0
    BY FS_EmptySet
  <1>2. IsFiniteSet(A \cup B) /\ Cardinality(A \cup B) = Cardinality(A) + Cardinality(B) - Cardinality(A \cap B)
    BY FS_Union
  <1>3. Cardinality(A) \in Nat /\ Cardinality(B) \in Nat
    BY FS_CardinalityType
  <1> QED BY <1>1, <1>2, <1>3

LEMMA RoomToLoan ==
  ASSUME NEW L \in SUBSET Buf, NEW T \in SUBSET Buf, NEW H \in SUBSET Buf, NEW x \in Buf,
         L \cap T = {}, L \cap H = {}, T \cap H = {}, x \notin L, x \notin T, x \notin H
  PROVE  Cardinality(L) + Cardinality(T) + Cardinality(H) < Cardinality(Buf)
         /\ Cardinality(L \cup {x}) = Cardinality(L) + 1
  <1>1. IsFiniteSet(Buf) /\ Cardinality(Buf) \in Nat
    BY BufFinite, FS_CardinalityType
  <1>2. IsFiniteSet(L) /\ IsFiniteSet(T) /\ IsFiniteSet(H)
    BY <1>1, FS_Subset
  <1>3. Cardinality(L) \in Nat /\ Cardinality(T) \in Nat /\ Cardinality(H) \in Nat
    BY <1>2, FS_CardinalityType
  <1>5. IsFiniteSet(L \cup T) /\ Cardinality(L \cup T) = Cardinality(L) + Cardinality(T)
    BY <1>2, Together
  <1>6. (L \cup T) \cap H = {}
    OBVIOUS
  <1>7. IsFiniteSet((L \cup T) \cup H) /\ Cardinality((L \cup T) \cup H) = Cardinality(L) + Cardinality(T) + Cardinality(H)
    <2> DEFINE M == L \cup T
    <2>1. IsFiniteSet(M) /\ M \cap H = {}
      BY <1>5, <1>6
    <2> HIDE DEF M
    <2>2. IsFiniteSet(M \cup H) /\ Cardinality(M \cup H) = Cardinality(M) + Cardinality(H)
      BY <1>2, <2>1, Together
    <2> QED BY <1>5, <2>2 DEF M
  <1>8. Cardinality(Buf \ {x}) = Cardinality(Buf) - 1
    BY <1>1, FS_RemoveElement
  <1>9. IsFiniteSet(Buf \ {x}) /\ ((L \cup T) \cup H) \in SUBSET (Buf \ {x})
    BY <1>1, FS_RemoveElement
  <1>10. Cardinality((L \cup T) \cup H) <= Cardinality(Buf \ {x})
    BY <1>9, FS_Subset
  <1>11. Cardinality(L \cup {x}) = Cardinality(L) + 1
    BY <1>2, FS_AddElement
  <1> QED BY <1>1, <1>3, <1>7, <1>8, <1>10, <1>11

LEMMA LoanRefines ==
  ASSUME StoresFit, LocalsFit, NEW ft \in Nat, NEW fv \in Nat, NEW fh \in Nat, NEW rt \in Nat, NEW rv \in Nat, NEW rh \in Nat,
         Pool(ft, fv, fh, rt, rv, rh), QueueSays(rt, rh), QueueSays(rt, rh)', Content(rt, rh), Content(rt, rh)', LoanAdvance
  PROVE  Abstract!QLoan
  <1>1. /\ prod.pc = "advance" /\ mem' = mem /\ heldBuf' = heldBuf /\ lentBuf' = [lentBuf EXCEPT ![prod.idx] = 0]
    BY DEF LoanAdvance, ProdAt, ConsumerIdle
  <1> DEFINE x == FreeAt(ft)
  <1>2. ft < fv /\ prod.idx = x /\ x \in Buf
    BY <1>1, EntriesAre DEF Pool, Loaning
  <1>3. Lent' = Lent \cup {x}
    BY <1>1, <1>2 DEF Lent, LocalsFit, NotLent
  <1>4. ft \in ft .. fh - 1
    <2>1. fv <= fh
      BY DEF Pool, Turns
    <2> QED BY <1>2, <2>1
  <1>5. rt <= rh
    BY DEF Pool, Turns
  <1>a. \A k, j \in rt .. rh - 1 : ReadyAt(k) = ReadyAt(j) => k = j
    BY DEF Pool, NotTwice
  <1>6. PICK T \in SUBSET Buf : /\ IsFiniteSet(T) /\ Cardinality(T) = rh - rt
                                /\ \A b \in T : \E k \in rt .. rh - 1 : ReadyAt(k) = b
    BY SMTT(30), <1>5, <1>a, QueuedSet
  <1>7. Lent \in SUBSET Buf /\ HeldNow \in SUBSET Buf
    BY DEF Lent, HeldNow
  <1>8. Lent \cap T = {} /\ Lent \cap HeldNow = {} /\ T \cap HeldNow = {} /\ x \notin Lent /\ x \notin T /\ x \notin HeldNow
    BY <1>4, <1>6 DEF Pool, NotTwice
  <1> HIDE DEF x
  <1>9. Cardinality(Lent) + Cardinality(T) + Cardinality(HeldNow) < Cardinality(Buf)
        /\ Cardinality(Lent \cup {x}) = Cardinality(Lent) + 1
    BY <1>2, <1>7, <1>8, RoomToLoan
  <1>10. Len(AbsQueue) = rh - rt
    BY DEF QueueSays
  <1>11. AbsQueue' = AbsQueue /\ AbsHeld' = AbsHeld
    <2> DEFINE n == rh - rt
    <2>1. n \in Nat /\ AbsQueue \in [1 .. n -> Message] /\ AbsQueue' \in [1 .. n -> Message]
          /\ \A i \in 1 .. n : AbsQueue[i] = Said(rt + i - 1) /\ AbsQueue'[i] = Said(rt + i - 1)'
      BY DEF QueueSays
    <2>2. \A k : Said(k)' = Said(k)
      BY <1>1 DEF Said, ReadyAt
    <2>3. AbsQueue' = AbsQueue
      BY <2>1, <2>2
    <2>4. AbsHeld' = AbsHeld
      BY <1>1 DEF AbsHeld, Intact, HeldNow
    <2> QED BY <2>3, <2>4
  <1>12. Abstract!HeldBufs = HeldNow
    BY HeldBufsAre
  <1>13. Cardinality(Lent) + Len(AbsQueue) + Cardinality(Abstract!HeldBufs) < Cardinality(Buf)
    BY <1>6, <1>9, <1>10, <1>12
  <1>14. Cardinality(Lent)' = Cardinality(Lent) + 1
    <2>1. Cardinality(Lent)' = Cardinality(Lent \cup {x})
      BY <1>3
    <2> QED BY <1>9, <2>1
  <1>15. Abstract!Cardinality(Buf) = Cardinality(Buf) /\ Abstract!Cardinality(Abstract!HeldBufs) = Cardinality(Abstract!HeldBufs)
    BY SameCount
  <1>16. UNCHANGED <<IF Ready THEN Queue ELSE <<>>,
                     [b \in Buf |-> IF b \in HeldNow
                                    THEN [msg |-> Intact(b, heldBuf[b].len), saw |-> heldBuf[b].saw]
                                    ELSE [msg |-> 0, saw |-> [w \in Words |-> 0]]]>>
    BY <1>11 DEF AbsQueue, AbsHeld
  <1>17. Cardinality(Lent) + Len(IF Ready THEN Queue ELSE <<>>) + Abstract!Cardinality(Abstract!HeldBufs) < Abstract!Cardinality(Buf)
    BY <1>13, <1>15 DEF AbsQueue
  <1> QED BY <1>14, <1>16, <1>17 DEF Abstract!QLoan

LEMMA QueueSame ==
  ASSUME NEW rt \in Nat, NEW rh \in Nat, QueueSays(rt, rh), QueueSays(rt, rh)', \A k \in rt .. rh - 1 : Said(k)' = Said(k)
  PROVE  AbsQueue' = AbsQueue
  <1> DEFINE n == rh - rt
  <1>1. n \in Nat /\ AbsQueue \in [1 .. n -> Message] /\ AbsQueue' \in [1 .. n -> Message]
        /\ \A i \in 1 .. n : AbsQueue[i] = Said(rt + i - 1) /\ AbsQueue'[i] = Said(rt + i - 1)'
    BY DEF QueueSays
  <1>2. \A i \in 1 .. n : rt + i - 1 \in rt .. rh - 1
    OBVIOUS
  <1>3. \A i \in 1 .. n : AbsQueue'[i] = AbsQueue[i]
    BY <1>1, <1>2
  <1> QED BY <1>1, <1>3

\* The head is moved: the buffer's message joins the queue.
LEMMA PublishRefines ==
  ASSUME StoresFit, LocalsFit, NEW ft \in Nat, NEW fv \in Nat, NEW fh \in Nat, NEW rt \in Nat, NEW rv \in Nat, NEW rh \in Nat,
         Pool(ft, fv, fh, rt, rv, rh), QueueSays(rt, rh), QueueSays(rt, rh + 1)',
         Said(rh)' = lentBuf[prod.idx], lentBuf[prod.idx] \in Message, PublishHead
  PROVE  \E m \in Message : Abstract!QPublish(m)
  <1> DEFINE x == prod.idx
             m == lentBuf[prod.idx]
             n == rh - rt
  <1>1. /\ prod.pc = "publish" /\ mem' = mem /\ heldBuf' = heldBuf /\ lentBuf' = [lentBuf EXCEPT ![prod.idx] = NotLent]
    BY DEF PublishHead, ProdAt, ConsumerIdle
  <1>2. x \in Lent
    BY <1>1 DEF Pool, Publishing
  <1>3. Lent' = Lent \ {x}
    BY <1>1, <1>2 DEF Lent, LocalsFit, NotLent
  <1>4. IsFiniteSet(Lent)
    BY BufFinite, FS_Subset DEF Lent
  <1>5. Cardinality(Lent \ {x}) = Cardinality(Lent) - 1 /\ Cardinality(Lent) \in Nat
    BY <1>2, <1>4, FS_RemoveElement, FS_CardinalityType
  <1>6. IsFiniteSet(Lent \ {x}) /\ Cardinality(Lent \ {x}) \in Nat
    BY <1>4, FS_RemoveElement, FS_CardinalityType
  <1>7. Cardinality(Lent)' = Cardinality(Lent) - 1 /\ Cardinality(Lent) > 0
    <2>1. Cardinality(Lent)' = Cardinality(Lent \ {x})
      BY <1>3
    <2> HIDE DEF x
    <2> QED BY <1>5, <1>6, <2>1
  <1>8. \A k : k # rh => Said(k)' = Said(k)
    BY <1>1 DEF Said, ReadyAt
  <1>9. n \in Nat /\ AbsQueue \in [1 .. n -> Message] /\ \A i \in 1 .. n : AbsQueue[i] = Said(rt + i - 1)
    BY DEF QueueSays
  <1>10. AbsQueue' \in [1 .. n + 1 -> Message] /\ \A i \in 1 .. n + 1 : AbsQueue'[i] = Said(rt + i - 1)'
    <2>1. (rh + 1) - rt = n + 1
      OBVIOUS
    <2> QED BY <2>1 DEF QueueSays
  <1>11. \A i \in 1 .. n : AbsQueue'[i] = AbsQueue[i]
    <2>1. \A i \in 1 .. n : i \in 1 .. n + 1 /\ rt + i - 1 # rh
      OBVIOUS
    <2> QED BY <1>8, <1>9, <1>10, <2>1
  <1>12. AbsQueue'[n + 1] = m
    <2>1. n + 1 \in 1 .. n + 1 /\ rt + (n + 1) - 1 = rh
      BY <1>9
    <2> QED BY <1>10, <2>1
  <1>13. m \in Message
    OBVIOUS
  <1>14. AbsHeld' = AbsHeld
    BY <1>1 DEF AbsHeld, Intact, HeldNow
  <1> HIDE DEF n, m
  <1>15. AbsQueue' = Append(AbsQueue, m)
    BY <1>9, <1>10, <1>11, <1>12, <1>13, Appended
  <1>16. Abstract!QPublish(m)
    BY <1>7, <1>14, <1>15 DEF Abstract!QPublish, AbsQueue, AbsHeld
  <1> QED BY <1>13, <1>16

\* The tail is moved: the oldest message is the consumer's to read.
LEMMA TakeRefines ==
  ASSUME StoresFit, LocalsFit, NEW ft \in Nat, NEW fv \in Nat, NEW fh \in Nat, NEW rt \in Nat, NEW rv \in Nat, NEW rh \in Nat,
         Pool(ft, fv, fh, rt, rv, rh), QueueSays(rt, rh), QueueSays(rt + 1, rh)', Content(rt, rh), Content(rt + 1, rh)', TakeAdvance
  PROVE  \E b \in Buf : Abstract!QTake(b)
  <1> DEFINE x == cons.idx
             n == rh - rt
  <1>1. /\ cons.pc = "advance" /\ mem' = mem /\ lentBuf' = lentBuf
        /\ heldBuf' = [heldBuf EXCEPT ![cons.idx] = [NotHeldBuf EXCEPT !.len = cons.len]]
    BY DEF TakeAdvance, ConsAt, ProducerIdle
  <1>2. x \in Buf /\ rt \in rt .. rh - 1 /\ x = ReadyAt(rt) /\ cons.len = Said(rt)
    <2>1. rt < rv /\ rv <= rh /\ cons.idx = ReadyAt(rt)
      BY <1>1 DEF Pool, Taking, Turns
    <2> QED BY <1>1, <2>1 DEF LocalsFit, Content
  <1>3. x \notin HeldNow
    BY <1>2 DEF Pool, NotTwice
  <1>4. cons.len \in Message
    BY <1>2 DEF Content, Whole
  <1>5. \A k : Said(k)' = Said(k)
    BY <1>1 DEF Said, ReadyAt
  <1>6. n \in Nat \ {0} /\ AbsQueue \in [1 .. n -> Message] /\ \A i \in 1 .. n : AbsQueue[i] = Said(rt + i - 1)
    BY <1>2 DEF QueueSays
  <1>7. AbsQueue' \in [1 .. n - 1 -> Message] /\ \A i \in 1 .. n - 1 : AbsQueue'[i] = Said((rt + 1) + i - 1)'
    <2>1. rh - (rt + 1) = n - 1
      OBVIOUS
    <2> QED BY <2>1 DEF QueueSays
  <1>8. \A i \in 1 .. n - 1 : AbsQueue'[i] = AbsQueue[i + 1]
    <2>1. \A i \in 1 .. n - 1 : i + 1 \in 1 .. n /\ rt + (i + 1) - 1 = (rt + 1) + i - 1
      OBVIOUS
    <2> QED BY <1>5, <1>6, <1>7, <2>1
  <1>9. AbsQueue[1] = cons.len
    <2>1. 1 \in 1 .. n /\ rt + 1 - 1 = rt
      BY <1>6
    <2> QED BY <1>2, <1>6, <2>1
  <1> HIDE DEF n
  <1>10. AbsQueue # <<>> /\ Head(AbsQueue) = cons.len /\ AbsQueue' = Tail(AbsQueue)
    <2>1. n \in Nat \ {0} /\ AbsQueue \in [1 .. n -> Message] /\ AbsQueue' \in [1 .. n - 1 -> Message]
      BY <1>6, <1>7
    <2>2. AbsQueue # <<>> /\ Head(AbsQueue) = AbsQueue[1] /\ AbsQueue' = Tail(AbsQueue)
      BY <1>8, <2>1, Tailed
    <2> QED BY <1>9, <2>2
  <1> DEFINE Nil == [msg |-> 0, saw |-> [w \in Words |-> 0]]
             Taken == [Nil EXCEPT !.msg = cons.len]
  <1>11. heldBuf'[x].len = cons.len /\ heldBuf'[x].saw = [w \in Words |-> 0] /\ x \in HeldNow'
    <2>1. heldBuf'[x] = [NotHeldBuf EXCEPT !.len = cons.len]
      BY <1>1, <1>2 DEF LocalsFit
    <2>2. heldBuf'[x].len = cons.len /\ heldBuf'[x].saw = [w \in Words |-> 0]
      BY <2>1 DEF NotHeldBuf
    <2>3. cons.len # -1
      BY <1>4 DEF Message
    <2>4. heldBuf'[x] # NotHeldBuf
      BY <2>2, <2>3, NotHeldIs
    <2> QED BY <1>2, <2>2, <2>4 DEF HeldNow
  <1>12. \A b \in Buf : b # x => heldBuf'[b] = heldBuf[b] /\ (b \in HeldNow' <=> b \in HeldNow)
    BY <1>1, <1>2 DEF LocalsFit, HeldNow
  <1>13. AbsHeld = [b \in Buf |-> IF b \in HeldNow THEN [msg |-> heldBuf[b].len, saw |-> heldBuf[b].saw] ELSE Nil]
    BY HeldIs
  <1>14. AbsHeld' = [b \in Buf |-> IF b \in HeldNow' THEN [msg |-> heldBuf'[b].len, saw |-> heldBuf'[b].saw] ELSE Nil]
    BY HeldIsNext
  <1>15. Taken = [msg |-> cons.len, saw |-> [w \in Words |-> 0]]
    OBVIOUS
  <1> HIDE DEF Nil, Taken
  <1>16. AbsHeld' = [AbsHeld EXCEPT ![x] = Taken]
    <2>1. AbsHeld'[x] = Taken
      BY <1>2, <1>11, <1>14, <1>15
    <2>2. \A b \in Buf : b # x => AbsHeld'[b] = AbsHeld[b]
      BY <1>12, <1>13, <1>14
    <2>3. DOMAIN AbsHeld = Buf /\ DOMAIN AbsHeld' = Buf /\ AbsHeld = [b \in Buf |-> AbsHeld[b]] /\ AbsHeld' = [b \in Buf |-> AbsHeld'[b]]
      BY <1>13, <1>14
    <2> QED BY <1>2, <2>1, <2>2, <2>3
  <1>17. Cardinality(Lent)' = Cardinality(Lent)
    BY <1>1 DEF Lent
  <1>18. x \notin Abstract!HeldBufs
    BY <1>3, HeldBufsAre
  <1>19. AbsHeld' = [AbsHeld EXCEPT ![x] = [Abstract!NotHeld EXCEPT !.msg = Head(AbsQueue)]]
    BY <1>10, <1>16 DEF Nil, Taken, Abstract!NotHeld
  <1>20. PICK y \in Buf : y = x
    BY <1>2
  <1>21. y \notin Abstract!HeldBufs /\ AbsHeld' = [AbsHeld EXCEPT ![y] = [Abstract!NotHeld EXCEPT !.msg = Head(AbsQueue)]]
    BY <1>18, <1>19, <1>20
  <1>22. Abstract!QTake(y)
    BY <1>10, <1>17, <1>21 DEF Abstract!QTake, AbsQueue, AbsHeld
  <1> QED BY <1>22

\* A word is read of the message the buffer was taken with.
LEMMA ReadRefines ==
  ASSUME StoresFit, LocalsFit, NEW rt \in Nat, NEW rh \in Nat,
         QueueSays(rt, rh), QueueSays(rt, rh)', Content(rt, rh), Content(rt, rh)', NEW x \in Buf, NEW w \in Words, ReadWord(x, w)
  PROVE  Abstract!QRead(x, w)
  <1>1. /\ x \in HeldNow /\ mem' = mem /\ lentBuf' = lentBuf
        /\ heldBuf' = [heldBuf EXCEPT ![x].saw[w] = mem[Word(x, w)]]
    BY DEF ReadWord, ProducerIdle
  <1>2. DOMAIN heldBuf[x] = {"len", "saw"} /\ heldBuf[x].len \in Nat
    BY <1>1 DEF LocalsFit, HeldNow
  <1>3. mem[Word(x, w)] = heldBuf[x].len
    BY <1>1 DEF Content, Whole
  <1>4. heldBuf'[x] = [heldBuf[x] EXCEPT !.saw = [heldBuf[x].saw EXCEPT ![w] = heldBuf[x].len]]
        /\ \A b \in Buf : b # x => heldBuf'[b] = heldBuf[b]
    BY <1>1, <1>3 DEF LocalsFit
  <1>5. heldBuf'[x].len = heldBuf[x].len /\ heldBuf'[x].saw = [heldBuf[x].saw EXCEPT ![w] = heldBuf[x].len]
    BY <1>2, <1>4
  <1>6. x \in HeldNow' /\ \A b \in Buf : b # x => (b \in HeldNow' <=> b \in HeldNow)
    <2>1. heldBuf'[x] # NotHeldBuf
      BY <1>2, <1>5, NotHeldIs
    <2> QED BY <1>4, <2>1 DEF HeldNow
  <1> DEFINE Nil == [msg |-> 0, saw |-> [v \in Words |-> 0]]
  <1>7. AbsHeld = [b \in Buf |-> IF b \in HeldNow THEN [msg |-> heldBuf[b].len, saw |-> heldBuf[b].saw] ELSE Nil]
    BY HeldIs
  <1>8. AbsHeld' = [b \in Buf |-> IF b \in HeldNow' THEN [msg |-> heldBuf'[b].len, saw |-> heldBuf'[b].saw] ELSE Nil]
    BY HeldIsNext
  <1> HIDE DEF Nil
  <1>9. AbsHeld[x] = [msg |-> heldBuf[x].len, saw |-> heldBuf[x].saw]
    BY <1>1, <1>7
  <1>10. AbsHeld'[x] = [AbsHeld[x] EXCEPT !.saw = [AbsHeld[x].saw EXCEPT ![w] = AbsHeld[x].msg]]
    <2>1. AbsHeld'[x] = [msg |-> heldBuf[x].len, saw |-> [heldBuf[x].saw EXCEPT ![w] = heldBuf[x].len]]
      BY <1>5, <1>6, <1>8
    <2> QED BY <1>9, <2>1
  <1>11. \A b \in Buf : b # x => AbsHeld'[b] = AbsHeld[b]
    BY <1>4, <1>6, <1>7, <1>8
  <1>12. AbsHeld = [b \in Buf |-> AbsHeld[b]] /\ AbsHeld' = [b \in Buf |-> AbsHeld'[b]]
    BY <1>7, <1>8
  <1>13. AbsHeld' = [AbsHeld EXCEPT ![x].saw[w] = AbsHeld[x].msg]
    BY <1>10, <1>11, <1>12
  <1>14. AbsQueue' = AbsQueue
    <2>1. \A k \in rt .. rh - 1 : Said(k)' = Said(k)
      BY <1>1 DEF Said, ReadyAt
    <2> QED BY <2>1, QueueSame
  <1>15. Cardinality(Lent)' = Cardinality(Lent)
    BY <1>1 DEF Lent
  <1>16. x \in Abstract!HeldBufs
    BY <1>1, HeldBufsAre
  <1> QED BY <1>13, <1>14, <1>15, <1>16 DEF Abstract!QRead, AbsQueue, AbsHeld

\* The head of the free ring is moved: the buffer is given back.
LEMMA ReleaseRefines ==
  ASSUME StoresFit, LocalsFit, NEW ft \in Nat, NEW fv \in Nat, NEW fh \in Nat, NEW rt \in Nat, NEW rv \in Nat, NEW rh \in Nat,
         Pool(ft, fv, fh, rt, rv, rh), QueueSays(rt, rh), QueueSays(rt, rh)', Content(rt, rh), Content(rt, rh)', ReleaseHead
  PROVE  \E b \in Buf : Abstract!QRelease(b)
  <1> DEFINE x == cons.idx
  <1>1. /\ cons.pc = "release" /\ mem' = mem /\ lentBuf' = lentBuf /\ heldBuf' = [heldBuf EXCEPT ![cons.idx] = NotHeldBuf]
    BY DEF ReleaseHead, ConsAt, ProducerIdle
  <1>2. x \in HeldNow /\ x \in Buf
    BY <1>1 DEF Pool, Releasing, HeldNow
  <1>3. x \notin HeldNow' /\ \A b \in Buf : b # x => heldBuf'[b] = heldBuf[b] /\ (b \in HeldNow' <=> b \in HeldNow)
    BY <1>1, <1>2 DEF HeldNow, LocalsFit
  <1> DEFINE Nil == [msg |-> 0, saw |-> [v \in Words |-> 0]]
  <1>7. AbsHeld = [b \in Buf |-> IF b \in HeldNow THEN [msg |-> heldBuf[b].len, saw |-> heldBuf[b].saw] ELSE Nil]
    BY HeldIs
  <1>8. AbsHeld' = [b \in Buf |-> IF b \in HeldNow' THEN [msg |-> heldBuf'[b].len, saw |-> heldBuf'[b].saw] ELSE Nil]
    BY HeldIsNext
  <1> HIDE DEF Nil
  <1>9. AbsHeld'[x] = Nil
    BY <1>2, <1>3, <1>8
  <1>10. \A b \in Buf : b # x => AbsHeld'[b] = AbsHeld[b]
    BY <1>3, <1>7, <1>8
  <1>11. AbsHeld = [b \in Buf |-> AbsHeld[b]] /\ AbsHeld' = [b \in Buf |-> AbsHeld'[b]]
    BY <1>7, <1>8
  <1>12. AbsHeld' = [AbsHeld EXCEPT ![x] = Abstract!NotHeld]
    <2>1. AbsHeld' = [AbsHeld EXCEPT ![x] = Nil]
      BY <1>2, <1>9, <1>10, <1>11
    <2> QED BY <2>1 DEF Nil, Abstract!NotHeld
  <1>13. AbsQueue' = AbsQueue
    <2>1. \A k \in rt .. rh - 1 : Said(k)' = Said(k)
      BY <1>1 DEF Said, ReadyAt
    <2> QED BY <2>1, QueueSame
  <1>14. Cardinality(Lent)' = Cardinality(Lent)
    BY <1>1 DEF Lent
  <1>15. x \in Abstract!HeldBufs
    BY <1>2, HeldBufsAre
  <1>16. PICK y \in Buf : y = x
    BY <1>2
  <1>17. y \in Abstract!HeldBufs /\ AbsHeld' = [AbsHeld EXCEPT ![y] = Abstract!NotHeld]
    BY <1>12, <1>15, <1>16
  <1>18. Abstract!QRelease(y)
    BY <1>13, <1>14, <1>17 DEF Abstract!QRelease, AbsQueue, AbsHeld
  <1> QED BY <1>18

-------------------------------------------------------------------------------
(***************************************************************************)
(* Every step of the transport is a step of the queue, or none.            *)
(***************************************************************************)
QueueStep == Abstract!QNext \/ UNCHANGED Abstract!qvars

\* A step that moves no cursor and no buffer between its owners.
LEMMA StutterStep ==
  ASSUME Divides, Ready, Ready', NEW ft \in Nat, NEW fv \in Nat, NEW fh \in Nat, NEW rt \in Nat, NEW rv \in Nat, NEW rh \in Nat,
         NEW fw \in Nat, NEW rw \in Nat,
         Pool(ft, fv, fh, rt, rv, rh), Content(rt, rh), Pool(ft, fw, fh, rt, rw, rh)', Content(rt, rh)',
         \A k \in rt .. rh - 1 : Said(k)' = Said(k), Lent' = Lent, heldBuf' = heldBuf
  PROVE  QueueStep /\ Says'
  <1>1. Counts(ft, fv, fh, rt, rv, rh) /\ Counts(ft, fw, fh, rt, rw, rh)
    BY DEF Counts
  <1>2. QueueSays(rt, rh)
    BY <1>1, QueueIs
  <1>3. QueueSays(rt, rh)'
    BY <1>1, QueueIsNext
  <1>4. UNCHANGED Abstract!qvars
    BY <1>2, <1>3, Stutters
  <1>5. Says'
    BY DEF Says, StillSays
  <1> QED BY <1>4, <1>5 DEF QueueStep

\* A step that is one of the queue's.
LEMMA CountsSay ==
  ASSUME Divides, Ready, Ready', NEW ft \in Nat, NEW fv \in Nat, NEW fh \in Nat, NEW rt \in Nat, NEW rv \in Nat, NEW rh \in Nat,
         NEW fu \in Nat, NEW fw \in Nat, NEW fx \in Nat, NEW ru \in Nat, NEW rw \in Nat, NEW rx \in Nat,
         Pool(ft, fv, fh, rt, rv, rh), Content(rt, rh), Pool(fu, fw, fx, ru, rw, rx)', Content(ru, rx)'
  PROVE  QueueSays(rt, rh) /\ QueueSays(ru, rx)' /\ Says'
  <1>1. Counts(ft, fv, fh, rt, rv, rh) /\ Counts(fu, fw, fx, ru, rw, rx)
    BY DEF Counts
  <1>2. QueueSays(rt, rh)
    BY <1>1, QueueIs
  <1>3. QueueSays(ru, rx)'
    BY <1>1, QueueIsNext
  <1>4. Says'
    BY DEF Says, StillSays
  <1> QED BY <1>2, <1>3, <1>4

LEMMA QuietRefines ==
  ASSUME Divides, StoresFit, LocalsFit, StoresFit', LocalsFit', Ready, Ready',
         NEW ft \in Nat, NEW fv \in Nat, NEW fh \in Nat, NEW rt \in Nat, NEW rv \in Nat, NEW rh \in Nat,
         Pool(ft, fv, fh, rt, rv, rh), Content(rt, rh),
         \/ InitDone \/ LoanFails \/ LoanCursors \/ LoanEntry
         \/ Valid \/ TakeNothing \/ TakeCursors \/ TakeEntry \/ TakeLength
         \/ Fills \/ (\E b \in Buf : PublishEntry(b)) \/ (\E b \in Buf : ReleaseEntry(b))
  PROVE  QueueStep /\ Says'
  <1> DEFINE Same == mem' = mem /\ Lent' = Lent /\ heldBuf' = heldBuf
  <1>1. CASE InitDone \/ LoanFails \/ LoanCursors \/ LoanEntry
    <2>1. Pool(ft, fv, fh, rt, rv, rh)' /\ Content(rt, rh)'
      BY <1>1, QuietProducer, ContentQuietProducer
    <2>2. Same
      BY <1>1 DEF InitDone, LoanFails, LoanCursors, LoanEntry, ConsumerIdle, Lent
    <2>3. \A k \in rt .. rh - 1 : Said(k)' = Said(k)
      BY <2>2 DEF Said, ReadyAt
    <2> QED BY <2>1, <2>2, <2>3, StutterStep
  <1>2. CASE Valid \/ TakeNothing \/ TakeCursors \/ TakeEntry \/ TakeLength
    <2>0. Taking(rt, rv)
      BY DEF Pool
    <2>1. Pool(ft, fv, fh, rt, rv, rh)' /\ Content(rt, rh)'
      BY <1>2, <2>0, QuietConsumer, ContentQuietConsumer
    <2>2. Same
      BY <1>2 DEF Valid, TakeNothing, TakeCursors, TakeEntry, TakeLength, ProducerIdle, Lent
    <2>3. \A k \in rt .. rh - 1 : Said(k)' = Said(k)
      BY <2>2 DEF Said, ReadyAt
    <2> QED BY <2>1, <2>2, <2>3, StutterStep
  <1>3. CASE Fills
    <2>0. PICK b \in Buf : Fill(b)
      BY <1>3 DEF Fills
    <2>1. Pool(ft, fv, fh, rt, rv, rh)' /\ Content(rt, rh)'
      BY <2>0, FillKeeps, ContentFill
    <2>2. fills + 1 # -1 /\ 0 # -1
      BY DEF LocalsFit
    <2>3. Same
      BY <2>0, <2>2 DEF Fill, ConsumerIdle, Lent, LocalsFit, NotLent
    <2>4. \A k \in rt .. rh - 1 : Said(k)' = Said(k)
      BY <2>3 DEF Said, ReadyAt
    <2> QED BY <2>1, <2>3, <2>4, StutterStep
  <1>4. CASE \E b \in Buf : PublishEntry(b)
    <2>1. Pool(ft, fv, fh, rt, rv, rh)' /\ Content(rt, rh)'
      BY <1>4, PublishEntryKeeps, ContentPublishEntry
    <2>2. Same
      BY <1>4 DEF PublishEntry, ConsumerIdle, Lent
    <2>3. \A k \in rt .. rh - 1 : Said(k)' = Said(k)
      BY <2>2 DEF Said, ReadyAt
    <2> QED BY <2>1, <2>2, <2>3, StutterStep
  <1>5. CASE \E b \in Buf : ReleaseEntry(b)
    <2>1. Pool(ft, fv, fh, rt, rv, rh)' /\ Content(rt, rh)'
      BY <1>5, ReleaseEntryKeeps, ContentRelease
    <2>2. Same
      BY <1>5 DEF ReleaseEntry, ProducerIdle, Lent
    <2>3. \A k \in rt .. rh - 1 : Said(k)' = Said(k)
      BY <2>2 DEF Said, ReadyAt
    <2> QED BY <2>1, <2>2, <2>3, StutterStep
  <1> QED BY <1>1, <1>2, <1>3, <1>4, <1>5

LEMMA DrainRefines ==
  ASSUME Divides, StoresFit, LocalsFit, StoresFit', Ready, Ready',
         NEW ft \in Nat, NEW fv \in Nat, NEW fh \in Nat, NEW rt \in Nat, NEW rv \in Nat, NEW rh \in Nat,
         Pool(ft, fv, fh, rt, rv, rh), Content(rt, rh), Drain("P") \/ Drain("C")
  PROVE  QueueStep /\ Says'
  <1>0. "P" \in Side /\ "C" \in Side
    BY DEF Side
  <1>1. Lent' = Lent /\ heldBuf' = heldBuf
    BY DEF Drain, Lent
  <1>2. CASE Drain("P")
    <2>1. \A k \in rt .. rh - 1 : ReadyAt(k)' = ReadyAt(k)
      BY SMTT(30), <1>2, ProducerLands
    <2>2. PICK v \in Nat : Pool(ft, fv, fh, rt, v, rh)'
      BY <1>2, ProducerLands
    <2>3. Content(rt, rh)' /\ \A k \in rt .. rh - 1 : Said(k)' = Said(k)
      BY <1>0, <1>2, <2>1, ContentLands
    <2> QED BY <1>1, <2>2, <2>3, StutterStep
  <1>3. CASE Drain("C")
    <2>1. \A k \in rt .. rh - 1 : ReadyAt(k)' = ReadyAt(k)
      BY SMTT(30), <1>3, ConsumerLands
    <2>2. PICK v \in Nat : Pool(ft, v, fh, rt, rv, rh)'
      BY <1>3, ConsumerLands
    <2>3. Content(rt, rh)' /\ \A k \in rt .. rh - 1 : Said(k)' = Said(k)
      BY <1>0, <1>3, <2>1, ContentLands
    <2> QED BY <1>1, <2>2, <2>3, StutterStep
  <1> QED BY <1>2, <1>3

LEMMA ReadyRefines ==
  ASSUME Divides, StoresFit, LocalsFit, StoresFit', LocalsFit', Ready, Ready', Next,
         NEW ft \in Nat, NEW fv \in Nat, NEW fh \in Nat, NEW rt \in Nat, NEW rv \in Nat, NEW rh \in Nat,
         Pool(ft, fv, fh, rt, rv, rh), Content(rt, rh)
  PROVE  QueueStep /\ Says'
  <1>0. ft + 1 \in Nat /\ fh + 1 \in Nat /\ rt + 1 \in Nat /\ rh + 1 \in Nat /\ rv <= rh
        /\ Publishing(rt, rh) /\ Taking(rt, rv)
    BY DEF Pool, Turns
  <1> DEFINE Quiet == \/ InitDone \/ LoanFails \/ LoanCursors \/ LoanEntry
                      \/ Valid \/ TakeNothing \/ TakeCursors \/ TakeEntry \/ TakeLength
                      \/ Fills \/ (\E b \in Buf : PublishEntry(b)) \/ (\E b \in Buf : ReleaseEntry(b))
  <1>1. CASE Quiet
    BY <1>1, QuietRefines
  <1>2. CASE LoanAdvance
    <2>1. Pool(ft + 1, fv, fh, rt, rv, rh)' /\ Content(rt, rh)'
      BY <1>2, LoanAdvanceKeeps, ContentLoanAdvance
    <2>2. QueueSays(rt, rh) /\ QueueSays(rt, rh)' /\ Says'
      BY <1>0, <2>1, CountsSay
    <2>3. Abstract!QLoan
      BY <1>2, <2>1, <2>2, LoanRefines
    <2> QED BY <2>2, <2>3 DEF QueueStep, Abstract!QNext
  <1>3. CASE PublishHead
    <2>1. Pool(ft, fv, fh, rt, rv, rh + 1)' /\ Content(rt, rh + 1)' /\ Said(rh)' = lentBuf[prod.idx] /\ lentBuf[prod.idx] \in Message
      BY <1>0, <1>3, PublishHeadKeeps, ContentPublishHead
    <2>2. QueueSays(rt, rh) /\ QueueSays(rt, rh + 1)' /\ Says'
      BY <1>0, <2>1, CountsSay
    <2>3. \E m \in Message : Abstract!QPublish(m)
      BY <1>3, <2>1, <2>2, PublishRefines
    <2> QED BY <2>2, <2>3 DEF QueueStep, Abstract!QNext
  <1>4. CASE TakeAdvance
    <2>1. Pool(ft, fv, fh, rt + 1, rv, rh)' /\ Content(rt + 1, rh)'
      BY <1>0, <1>4, TakeAdvanceKeeps, ContentTakeAdvance
    <2>2. QueueSays(rt, rh) /\ QueueSays(rt + 1, rh)' /\ Says'
      BY <1>0, <2>1, CountsSay
    <2>3. \E b \in Buf : Abstract!QTake(b)
      BY <1>4, <2>1, <2>2, TakeRefines
    <2> QED BY <2>2, <2>3 DEF QueueStep, Abstract!QNext
  <1>5. CASE Read
    <2>1. Pool(ft, fv, fh, rt, rv, rh)' /\ Content(rt, rh)'
      BY <1>0, <1>5, QuietConsumer, ContentQuietConsumer
    <2>2. QueueSays(rt, rh) /\ QueueSays(rt, rh)' /\ Says'
      BY <2>1, CountsSay
    <2>3. PICK b \in Buf, w \in Words : ReadWord(b, w)
      BY <1>5 DEF Read
    <2>4. Abstract!QRead(b, w)
      BY <2>1, <2>2, <2>3, ReadRefines
    <2> QED BY <2>2, <2>4 DEF QueueStep, Abstract!QNext
  <1>6. CASE ReleaseHead
    <2>1. Pool(ft, fv, fh + 1, rt, rv, rh)' /\ Content(rt, rh)'
      BY <1>6, ReleaseHeadKeeps, ContentRelease
    <2>2. QueueSays(rt, rh) /\ QueueSays(rt, rh)' /\ Says'
      BY <1>0, <2>1, CountsSay
    <2>3. \E b \in Buf : Abstract!QRelease(b)
      BY <1>6, <2>1, <2>2, ReleaseRefines
    <2> QED BY <2>2, <2>3 DEF QueueStep, Abstract!QNext
  <1>7. CASE Drain("P") \/ Drain("C")
    BY <1>7, DrainRefines
  <1>8. CASE InitWithdraw \/ InitRings \/ InitAnnounce
    BY <1>8 DEF Ready, InitWithdraw, InitRings, InitAnnounce, ProdAt
  <1> QED BY <1>1, <1>2, <1>3, <1>4, <1>5, <1>6, <1>7, <1>8
          DEF Next, Producer, Consumer, BulkInit, Loan, Publish, Take, Release, Side

\* Until the rings are announced the queue is empty, and it is when they are.
LEMMA BootRefines ==
  ASSUME Divides, StoresFit, LocalsFit, Booting, ~Ready, Next, StoresFit'
  PROVE  QueueStep /\ (Ready' => Says')
  <1>1. Booting' /\ (Ready' => /\ Pool(0, NBuf, NBuf, 0, 0, 0)' /\ Lent' = {} /\ HeldNow' = {}
                               /\ pend'["P"] = {<<Magic, 1>>} /\ prod'.pc = "visible" /\ cons'.pc = "out")
    BY BootKept
  <1>2. CASE ~Ready'
    <2>1. Lent' = {} /\ HeldNow' = {}
      BY <1>1, <1>2 DEF Booting
    <2>2. AbsQueue' = <<>>
      BY <1>2 DEF AbsQueue
    <2> QED BY <1>2, <2>1, <2>2, BootStutters DEF QueueStep
  <1>3. CASE Ready'
    <2>1. /\ Pool(0, NBuf, NBuf, 0, 0, 0)' /\ Lent' = {} /\ HeldNow' = {}
          /\ pend'["P"] = {<<Magic, 1>>} /\ prod'.pc = "visible" /\ cons'.pc = "out"
      BY <1>1, <1>3
    <2>2. \A s \in pend'["P"] : s[1][1] = "magic"
      BY <2>1, Cells
    <2>3. Content(0, 0)'
      BY <2>1, <2>2 DEF Content
    <2>4. 0 \in Nat /\ NBuf \in Nat
      BY PoolSize
    <2>5. Says'
      BY <2>1, <2>3, <2>4 DEF Says, StillSays
    <2>6. Counts(0, NBuf, NBuf, 0, 0, 0)
      BY <2>4 DEF Counts
    <2>7. QueueSays(0, 0)'
      BY <1>3, <2>1, <2>3, <2>6, QueueIsNext
    <2>8. AbsQueue' = <<>>
      <3>1. AbsQueue' \in [1 .. 0 -> Message]
        BY <2>7 DEF QueueSays
      <3> QED BY <3>1
    <2> QED BY <2>1, <2>5, <2>8, BootStutters DEF QueueStep
  <1> QED BY <1>2, <1>3

LEMMA QueueInit ==
  Init => QueueInv /\ Abstract!QInit
  <1> SUFFICES ASSUME Init PROVE QueueInv /\ Abstract!QInit
    OBVIOUS
  <1>1. BulkInv
    BY BulkInvInit
  <1>2. ~Ready /\ Lent = {} /\ HeldNow = {}
    BY DEF Init, Ready, Lent, HeldNow
  <1>3. Cardinality(Lent) = 0
    BY <1>2, FS_EmptySet
  <1>4. AbsQueue = <<>>
    BY <1>2 DEF AbsQueue
  <1>5. AbsHeld = [b \in Buf |-> Abstract!NotHeld]
    BY <1>2 DEF AbsHeld, Abstract!NotHeld
  <1>6. Abstract!QInit
    BY <1>3, <1>4, <1>5 DEF Abstract!QInit, AbsQueue, AbsHeld
  <1> QED BY <1>1, <1>2, <1>6 DEF QueueInv

LEMMA QueueRefines ==
  Divides /\ QueueInv /\ [Next]_vars => QueueInv' /\ [Abstract!QNext]_(Abstract!qvars)
  <1> SUFFICES ASSUME Divides, QueueInv, [Next]_vars PROVE QueueInv' /\ QueueStep
    BY DEF QueueStep
  <1>1. BulkInv /\ BulkInv'
    BY BulkInvStep DEF QueueInv
  <1>2. StoresFit /\ LocalsFit /\ Booting /\ StoresFit' /\ LocalsFit'
    BY <1>1 DEF BulkInv
  <1>3. CASE Next /\ ~Ready
    BY <1>1, <1>2, <1>3, BootRefines DEF QueueInv
  <1>4. CASE Next /\ Ready
    <2>1. Ready'
      BY <1>2, <1>4, ReadyStays
    <2>2. Says
      BY <1>4 DEF QueueInv
    <2>3. PICK ft, fv, fh, rt, rv, rh \in Nat : Pool(ft, fv, fh, rt, rv, rh) /\ Content(rt, rh)
      BY <2>2 DEF Says, StillSays
    <2>4. QueueStep /\ Says'
      BY <1>2, <1>4, <2>1, <2>3, ReadyRefines
    <2> QED BY <1>1, <2>4 DEF QueueInv
  <1>5. CASE UNCHANGED vars
    <2>1. UNCHANGED <<mem, pend, prod, lentBuf, cons, heldBuf>>
      BY <1>5 DEF vars
    <2>2. Lent' = Lent /\ HeldNow' = HeldNow /\ (Ready' <=> Ready) /\ \A k : ReadyAt(k)' = ReadyAt(k) /\ Said(k)' = Said(k)
      BY <2>1 DEF Lent, HeldNow, Ready, ReadyAt, Said
    <2>3. CASE Ready
      <3>1. Says
        BY <2>3 DEF QueueInv
      <3>2. PICK ft, fv, fh, rt, rv, rh \in Nat : Pool(ft, fv, fh, rt, rv, rh) /\ Content(rt, rh)
        BY <3>1 DEF Says, StillSays
      <3>3. Loaning(ft, fv)' /\ Taking(rt, rv)'
        BY <2>1, <3>2 DEF Pool, Loaning, Taking, FreeAt, ReadyAt
      <3>4. Pool(ft, fv, fh, rt, rv, rh)'
        BY <2>1, <2>2, <3>2, <3>3, QuietKeeps
      <3>5. Content(rt, rh)'
        <4>1. cons'.pc = "advance" => cons' = cons \/ cons'.len = Said(rt)
          BY <2>1
        <4>2. \A b \in HeldNow : heldBuf'[b].len = heldBuf[b].len
          BY <2>1
        <4> QED BY <2>1, <2>2, <3>2, <4>1, <4>2, ContentQuiet
      <3>6. QueueStep /\ Says'
        BY <2>1, <2>2, <2>3, <3>2, <3>4, <3>5, StutterStep
      <3> QED BY <1>1, <3>6 DEF QueueInv
    <2>4. CASE ~Ready
      <3>1. AbsQueue' = <<>> /\ Lent' = {} /\ HeldNow' = {}
        BY <1>2, <2>2, <2>4 DEF AbsQueue, Booting
      <3>2. QueueStep
        BY <1>2, <2>4, <3>1, BootStutters DEF QueueStep
      <3> QED BY <1>1, <2>2, <2>4, <3>2 DEF QueueInv
    <2> QED BY <2>3, <2>4
  <1> QED BY <1>3, <1>4, <1>5

\* REQ-BULK-001 and REQ-BULK-002: seen from the two users the pool is a queue of messages that are
\* taken in the order they were published, each whole and read as it was written until it is given
\* back, and no more buffers are lent, queued and held than there are.
THEOREM PoolIsQueue ==
  ASSUME Divides PROVE Spec => ImplementsQueue
  <1>1. Init => QueueInv /\ Abstract!QInit
    BY QueueInit
  <1>2. QueueInv /\ [Next]_vars => QueueInv' /\ [Abstract!QNext]_(Abstract!qvars)
    BY QueueRefines
  <1> QED BY <1>1, <1>2, PTL DEF Spec, ImplementsQueue, Abstract!QSpec
================================================================================
