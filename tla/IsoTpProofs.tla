---------------------------- MODULE IsoTpProofs ----------------------------
(***************************************************************************)
(* What the two ISO-TP Links keep to for windows, blocks, messages and     *)
(* wires of any size: while a receiver owes flow control its peer sends no *)
(* consecutive frame and none is on its way, as long as no flow control    *)
(* outlives the transmission it was for; and whatever is put together at   *)
(* an end is one message of the other end, piece after piece from its      *)
(* first.  A direction is a sender, the receiver of its data, the wire     *)
(* between them and the wire back; both directions are the same formula,   *)
(* and a step is proved for each of them from what it does to the four.    *)
(***************************************************************************)
EXTENDS MCNode, TLAPS

-------------------------------------------------------------------------------
(***************************************************************************)
(* ISO-TP (IsoTp): two Links and the frames between them.                  *)
(***************************************************************************)
LinkFields == {"rx", "rx_buf", "rx_len", "rx_sn", "rx_count", "rx_deadline", "fc_send", "fc_ovflw", "ready",
               "tx", "tx_buf", "tx_pos", "tx_sn", "peer_bs", "peer_stmin", "block_left", "gap", "fc_deadline", "wft_count"}
Pieces == Nat \X Nat

\* A Link: its reception, and its transmission.
RxTyped(e, l) ==
    /\ l.rx \in {"idle", "receiving"}
    /\ l.rx_buf \in Seq(Pieces) /\ l.rx_len \in 0 .. MaxPayload[e]
    /\ l.rx = "receiving" => Len(l.rx_buf) \in 1 .. l.rx_len - 1
    /\ l.rx = "idle" => l.rx_buf = <<>>
    /\ l.rx_sn \in 0 .. SnMod - 1
    /\ l.rx_count \in Nat /\ (Bs[e] # 0 => l.rx_count < Bs[e])
    /\ l.rx_deadline \in 0 .. NCr \cup {Unarmed}
TxTyped(e, l) ==
    /\ l.tx \in {"idle", "send_sf", "send_ff", "wait_fc", "send_cf"}
    /\ l.tx_buf.id \in Nat /\ l.tx_buf.len \in Nat /\ (l.tx = "send_ff" => l.tx_buf.len >= 2)
    /\ l.tx_pos \in Nat /\ l.tx_sn \in 0 .. SnMod - 1
    /\ l.wft_count \in 0 .. WftMax
    /\ l.block_left \in 0 .. Bs[Peer(e)]
    /\ l.tx = "send_cf" => l.peer_bs = Bs[Peer(e)] /\ (Bs[Peer(e)] # 0 => l.block_left >= 1)
    /\ l.fc_deadline \in 0 .. NBs
FlagsTyped(l) == l.fc_send \in BOOLEAN /\ l.fc_ovflw \in BOOLEAN
LinkTyped(e, l) ==
    l = [k \in LinkFields |-> l[k]] /\ RxTyped(e, l) /\ TxTyped(e, l) /\ FlagsTyped(l) /\ l.ready = FALSE

\* A frame on its way to e.
Frames == [id : Nat, type : {"SF"}] \cup [id : Nat, len : Nat, type : {"FF"}]
          \cup [piece : Pieces, sn : Nat, type : {"CF"}]
          \cup [bs : Nat, stmin : Nat, status : {"CTS", "WAIT", "OVFLW"}, type : {"FC"}]
FrameTyped(e, f) ==
    /\ f \in Frames
    /\ f.type = "FF" => f.len >= 2
    /\ f.type = "FC" => f.bs = Bs[Peer(e)]
WireTyped(e) ==
    /\ wire[e] \in Seq(Frames) /\ Len(wire[e]) \in 0 .. WireSize
    /\ \A i \in 1 .. Len(wire[e]) : FrameTyped(e, wire[e][i])

IsoTyped ==
    /\ link = [e \in End |-> link[e]] /\ wire = [e \in End |-> wire[e]]
    /\ todo = [e \in End |-> todo[e]] /\ sent = [e \in End |-> sent[e]] /\ delivered = [e \in End |-> delivered[e]]
    /\ \A e \in End : LinkTyped(e, link[e]) /\ WireTyped(e) /\ Len(sent[e]) \in Nat
    /\ losses \in 0 .. MaxLost /\ aborts \in 0 .. MaxAborts

\* Of the direction from p to e.  A frame of data; an answer that is on its way back.
DataAt(e, i) == i \in 1 .. Len(wire[e]) /\ wire[e][i].type \in {"SF", "FF", "CF"}
CfAt(e, i) == i \in 1 .. Len(wire[e]) /\ wire[e][i].type = "CF"
FfAt(e, i) == i \in 1 .. Len(wire[e]) /\ wire[e][i].type = "FF"
AnswerAt(p, i) == i \in 1 .. Len(wire[p]) /\ wire[p][i].type = "FC" /\ wire[p][i].status # "WAIT"
Quiet(e) == \A i \in 1 .. Len(wire[e]) : ~ DataAt(e, i)
OnlyCf(e) == \A i \in 1 .. Len(wire[e]) : DataAt(e, i) => CfAt(e, i)
NoAnswer(p) == \A i \in 1 .. Len(wire[p]) : ~ AnswerAt(p, i)
At(e, i) == wire[e][i].piece[2]

\* The receiver's share of the sender's message is what the sender has sent of it.
Agree(p, e) == /\ link[e].rx_count = 0
               /\ Len(link[e].rx_buf) = link[p].tx_pos /\ link[e].rx_len = link[p].tx_buf.len
               /\ link[e].rx_buf[1][1] = link[p].tx_buf.id

\* Consecutive frames are in order, nothing follows a first frame, and no consecutive
\* frame another message's.
InOrder(e) ==
    /\ \A i, j \in 1 .. Len(wire[e]) : i < j /\ CfAt(e, j) => ~ FfAt(e, i) /\ (DataAt(e, i) => CfAt(e, i))
    /\ \A i, j \in 1 .. Len(wire[e]) : i < j /\ CfAt(e, i) /\ CfAt(e, j) => At(e, i) < At(e, j)
    /\ \A i, j \in 1 .. Len(wire[e]) : i < j /\ FfAt(e, i) => ~ DataAt(e, j)

\* A first frame, a flow control that is owed, one that is on its way: one of them at a
\* time, and the sender waits for it.
FirstAwaits(p, e) ==
    \A i \in 1 .. Len(wire[e]) : FfAt(e, i) =>
        /\ link[p].tx = "wait_fc" /\ link[p].tx_pos = 1
        /\ wire[e][i].len = link[p].tx_buf.len /\ wire[e][i].id = link[p].tx_buf.id
        /\ ~ link[e].fc_send /\ ~ link[e].fc_ovflw /\ NoAnswer(p)
OwedAwaits(p, e) ==
    link[e].fc_send =>
        /\ link[e].rx = "receiving" /\ link[e].rx_deadline = Unarmed /\ ~ link[e].fc_ovflw
        /\ link[p].tx = "wait_fc" /\ Agree(p, e) /\ Quiet(e) /\ NoAnswer(p)
RefusalAwaits(p, e) ==
    link[e].fc_ovflw => link[e].rx = "idle" /\ link[p].tx = "wait_fc" /\ Quiet(e) /\ NoAnswer(p)
AnswerAwaits(p, e) ==
    \A i \in 1 .. Len(wire[p]) : AnswerAt(p, i) =>
        /\ link[p].tx = "wait_fc" /\ Quiet(e)
        /\ link[e].rx = "receiving" => Agree(p, e)
        /\ \A j \in 1 .. Len(wire[p]) : AnswerAt(p, j) => i = j

\* What a receiver was granted: pieces up to here, no piece on its way lies beyond, and
\* one that does not complete the message leaves the sender waiting.
Granted(e) == Len(link[e].rx_buf) + Bs[e] - link[e].rx_count
BlockKept(p, e) ==
    link[e].rx = "receiving" =>
        \A i \in 1 .. Len(wire[e]) : CfAt(e, i) =>
            /\ At(e, i) > Len(link[e].rx_buf)
            /\ Bs[e] # 0 => At(e, i) <= Granted(e)
            /\ Bs[e] # 0 /\ At(e, i) = Granted(e) /\ At(e, i) < link[e].rx_len =>
                 /\ link[p].tx = "wait_fc" /\ link[p].tx_pos = At(e, i) /\ OnlyCf(e)
                 /\ link[p].tx_buf.len = link[e].rx_len /\ link[p].tx_buf.id = link[e].rx_buf[1][1]

\* A sender that was cleared to send: nothing else is in flight, and it knows its block.
ClearKept(p, e) ==
    link[p].tx = "send_cf" =>
        /\ OnlyCf(e) /\ ~ link[e].fc_send /\ ~ link[e].fc_ovflw /\ NoAnswer(p)
        /\ \A i \in 1 .. Len(wire[e]) : CfAt(e, i) => At(e, i) <= link[p].tx_pos
        /\ link[e].rx = "receiving" =>
             /\ Len(link[e].rx_buf) <= link[p].tx_pos
             /\ link[e].rx_len = link[p].tx_buf.len /\ link[e].rx_buf[1][1] = link[p].tx_buf.id
             /\ Bs[e] # 0 => link[p].tx_pos + link[p].block_left = Granted(e)

Direction(p, e) ==
    /\ InOrder(e)
    /\ FirstAwaits(p, e) /\ OwedAwaits(p, e) /\ RefusalAwaits(p, e) /\ AnswerAwaits(p, e)
    /\ BlockKept(p, e) /\ ClearKept(p, e)

IsoInv == IsoTyped /\ (~ stale => \A e \in End : Direction(Peer(e), e))

LEMMA EndsAre ==
  /\ Peer("tester") = "ecu" /\ Peer("ecu") = "tester"
  /\ \A e \in End : Peer(e) \in End /\ Peer(e) # e /\ Peer(Peer(e)) = e /\ \A d \in End : d = e \/ d = Peer(e)
  <1>1. Peer("tester") = "ecu"
    BY DEF Peer, End
  <1>2. Peer("ecu") = "tester"
    BY DEF Peer, End
  <1> QED BY <1>1, <1>2 DEF End

LEMMA SizesAre ==
  /\ NBs \in Nat /\ NBs >= 1 /\ NCr \in Nat /\ NCr >= 1 /\ WftMax \in Nat /\ WftMax >= 1
  /\ SnMod \in Nat /\ SnMod >= 2 /\ WireSize \in Nat /\ WireSize >= 1 /\ MaxLost \in Nat /\ MaxAborts \in Nat
  /\ Unarmed = NBs + NCr
  /\ \A e \in End : Bs[e] \in Nat /\ StMin[e] \in Nat /\ MaxPayload[e] \in Nat /\ MaxPayload[e] >= 1
  /\ \A n \in Lengths : n \in Nat /\ n >= 1
  <1>1. /\ NBs \in Nat /\ NBs >= 1 /\ NCr \in Nat /\ NCr >= 1 /\ WftMax \in Nat /\ WftMax >= 1
        /\ SnMod \in Nat /\ SnMod >= 2 /\ WireSize \in Nat /\ WireSize >= 1 /\ MaxLost \in Nat /\ MaxAborts \in Nat
    BY IsoTpAssumption DEF IsoTpAssumption
  <1>2. \A e \in End : Bs[e] \in Nat /\ StMin[e] \in Nat /\ MaxPayload[e] \in Nat /\ MaxPayload[e] >= 1
    BY IsoTpAssumption DEF IsoTpAssumption
  <1>3. \A n \in Lengths : n \in Nat /\ n >= 1
    BY IsoTpAssumption DEF IsoTpAssumption
  <1> QED BY <1>1, <1>2, <1>3 DEF Unarmed

\* What a sequence is after its head was taken, or after a frame was appended.
LEMMA TailIs ==
  ASSUME NEW S, NEW w \in Seq(S), w # <<>>
  PROVE  /\ Len(w) \in Nat /\ Len(w) >= 1 /\ Head(w) = w[1]
         /\ Tail(w) \in Seq(S) /\ Len(Tail(w)) = Len(w) - 1
         /\ \A i \in 1 .. Len(Tail(w)) : i + 1 \in 1 .. Len(w) /\ Tail(w)[i] = w[i + 1]
  OBVIOUS

LEMMA AppendIs ==
  ASSUME NEW S, NEW w \in Seq(S), NEW f \in S
  PROVE  /\ Len(w) \in Nat /\ Append(w, f) \in Seq(S) /\ Len(Append(w, f)) = Len(w) + 1
         /\ \A i \in 1 .. Len(w) : Append(w, f)[i] = w[i]
         /\ Append(w, f)[Len(w) + 1] = f
         /\ \A i \in 1 .. Len(Append(w, f)) : i \in 1 .. Len(w) \/ i = Len(w) + 1
  OBVIOUS

LEMMA EmptyIs == <<>> \in Seq(Pieces) /\ Len(<<>>) = 0
  OBVIOUS

\* A Link whose reception or whose transmission is over, and which half a step leaves alone.
SameRx(l, m) == /\ l.rx = m.rx /\ l.rx_buf = m.rx_buf /\ l.rx_len = m.rx_len /\ l.rx_sn = m.rx_sn
                /\ l.rx_count = m.rx_count /\ l.rx_deadline = m.rx_deadline
SameTx(l, m) == /\ l.tx = m.tx /\ l.tx_buf = m.tx_buf /\ l.tx_pos = m.tx_pos /\ l.tx_sn = m.tx_sn
                /\ l.peer_bs = m.peer_bs /\ l.block_left = m.block_left
                /\ l.fc_deadline = m.fc_deadline /\ l.wft_count = m.wft_count
SameFlags(l, m) == l.fc_send = m.fc_send /\ l.fc_ovflw = m.fc_ovflw
Record(l) == l = [k \in LinkFields |-> l[k]]

LEMMA RxOverIs ==
  ASSUME NEW l, Record(l)
  PROVE  /\ Record(RxOver(l)) /\ SameTx(RxOver(l), l) /\ SameFlags(RxOver(l), l) /\ RxOver(l).ready = l.ready
         /\ RxOver(l).rx = "idle" /\ RxOver(l).rx_buf = <<>> /\ RxOver(l).rx_len = 0 /\ RxOver(l).rx_sn = 0
         /\ RxOver(l).rx_count = 0 /\ RxOver(l).rx_deadline = Unarmed
  BY DEF Record, LinkFields, RxOver, SameTx, SameFlags

LEMMA TxOverIs ==
  ASSUME NEW l, Record(l)
  PROVE  /\ Record(TxOver(l)) /\ SameRx(TxOver(l), l) /\ SameFlags(TxOver(l), l) /\ TxOver(l).ready = l.ready
         /\ TxOver(l).tx = "idle" /\ TxOver(l).tx_buf = NoMessage /\ TxOver(l).tx_pos = 0 /\ TxOver(l).tx_sn = 0
         /\ TxOver(l).peer_bs = 0 /\ TxOver(l).block_left = 0
         /\ TxOver(l).fc_deadline = 0 /\ TxOver(l).wft_count = 0
  BY DEF Record, LinkFields, TxOver, SameRx, SameFlags

LEMMA SameTyped ==
  ASSUME NEW e, NEW l, NEW m
  PROVE  /\ SameRx(m, l) /\ RxTyped(e, l) => RxTyped(e, m)
         /\ SameTx(m, l) /\ TxTyped(e, l) => TxTyped(e, m)
         /\ SameFlags(m, l) /\ FlagsTyped(l) => FlagsTyped(m)
  BY DEF SameRx, SameTx, SameFlags, RxTyped, TxTyped, FlagsTyped

LEMMA NoMessageIs == NoMessage.id = 0 /\ NoMessage.len = 0
  BY DEF NoMessage

\* Over is over: both halves are as they were after a reset.
LEMMA RxOverTyped ==
  ASSUME NEW e \in End, NEW l,
         l.rx = "idle", l.rx_buf = <<>>, l.rx_len = 0, l.rx_sn = 0, l.rx_count = 0, l.rx_deadline = Unarmed
  PROVE  RxTyped(e, l)
  <1>1. l.rx_buf \in Seq(Pieces)
    BY EmptyIs
  <1>2. l.rx_len \in 0 .. MaxPayload[e] /\ l.rx_sn \in 0 .. SnMod - 1
    BY SizesAre
  <1>3. l.rx_count \in Nat /\ (Bs[e] # 0 => l.rx_count < Bs[e])
    BY SizesAre
  <1>4. l.rx_deadline \in 0 .. NCr \cup {Unarmed}
    OBVIOUS
  <1> QED BY <1>1, <1>2, <1>3, <1>4 DEF RxTyped

LEMMA TxOverTyped ==
  ASSUME NEW e \in End, NEW l,
         l.tx = "idle", l.tx_buf = NoMessage, l.tx_pos = 0, l.tx_sn = 0, l.peer_bs = 0, l.block_left = 0,
         l.fc_deadline = 0, l.wft_count = 0
  PROVE  TxTyped(e, l)
  <1>1. l.tx_buf.id \in Nat /\ l.tx_buf.len \in Nat
    BY NoMessageIs
  <1>2. l.block_left \in 0 .. Bs[Peer(e)]
    BY SizesAre, EndsAre
  <1>3. l.tx_sn \in 0 .. SnMod - 1 /\ l.wft_count \in 0 .. WftMax /\ l.fc_deadline \in 0 .. NBs
    BY SizesAre
  <1> QED BY <1>1, <1>2, <1>3 DEF TxTyped

\* A single frame was heard: the message is whole.
HeardSingle(l, r) ==
    /\ Record(r) /\ SameTx(r, l) /\ r.ready = TRUE /\ ~ r.fc_send /\ ~ r.fc_ovflw /\ FlagsTyped(r)
    /\ r.rx = "idle" /\ r.rx_len = 0 /\ r.rx_sn = 0 /\ r.rx_count = 0 /\ r.rx_deadline = Unarmed

LEMMA OnSingleIs ==
  ASSUME NEW e \in End, NEW l, LinkTyped(e, l), NEW f
  PROVE  HeardSingle(l, OnSingleFrame(l, f))
  <1>1. PICK o : o = RxOver(l)
    OBVIOUS
  <1>2. Record(o) /\ SameTx(o, l) /\ o.rx = "idle" /\ o.rx_len = 0 /\ o.rx_sn = 0 /\ o.rx_count = 0 /\ o.rx_deadline = Unarmed
    BY <1>1, RxOverIs DEF LinkTyped, Record
  <1>3. OnSingleFrame(l, f) = [o EXCEPT !.rx_buf = <<(<<f.id, 1>>)>>, !.ready = TRUE, !.fc_send = FALSE, !.fc_ovflw = FALSE]
    BY <1>1 DEF OnSingleFrame
  <1> QED BY <1>2, <1>3 DEF HeardSingle, Record, LinkFields, SameTx, FlagsTyped

\* A first frame was heard: a reception begins, or is refused.
HeardFirst(e, l, f, r) ==
    /\ Record(r) /\ SameTx(r, l) /\ r.ready = FALSE /\ FlagsTyped(r) /\ RxTyped(e, r)
    /\ r.rx_count = 0 /\ r.rx_deadline = Unarmed
    /\ \/ /\ r.rx = "receiving" /\ r.rx_buf = <<(<<f.id, 1>>)>> /\ Len(r.rx_buf) = 1 /\ r.rx_len = f.len /\ r.fc_send /\ ~ r.fc_ovflw
       \/ /\ r.rx = "idle" /\ ~ r.fc_send /\ r.fc_ovflw

LEMMA OnFirstIs ==
  ASSUME NEW e \in End, NEW l, LinkTyped(e, l), NEW f, FrameTyped(e, f), f.type = "FF"
  PROVE  HeardFirst(e, l, f, OnFirstFrame(e, l, f))
  <1>a. Record(l) /\ l.ready = FALSE
    BY DEF LinkTyped, Record
  <1>b. f.len \in Nat /\ f.len >= 2 /\ f.id \in Nat
    BY DEF FrameTyped, Frames
  <1>1. CASE f.len <= MaxPayload[e]
    <2>1. PICK r : r = OnFirstFrame(e, l, f)
      OBVIOUS
    <2>2. r = [l EXCEPT !.rx = "receiving", !.rx_buf = <<(<<f.id, 1>>)>>,
                        !.rx_len = f.len, !.rx_sn = 1, !.rx_count = 0,
                        !.rx_deadline = Unarmed, !.fc_send = TRUE, !.fc_ovflw = FALSE]
      BY <1>1, <2>1 DEF OnFirstFrame
    <2>3. /\ Record(r) /\ SameTx(r, l) /\ r.ready = FALSE /\ FlagsTyped(r) /\ r.rx_count = 0 /\ r.rx_deadline = Unarmed
          /\ r.rx = "receiving" /\ r.rx_buf = <<(<<f.id, 1>>)>> /\ r.rx_len = f.len /\ r.rx_sn = 1 /\ r.fc_send /\ ~ r.fc_ovflw
      BY <1>a, <2>2 DEF Record, LinkFields, SameTx, FlagsTyped
    <2>4. <<f.id, 1>> \in Pieces
      BY <1>b DEF Pieces
    <2>5. r.rx_buf \in Seq(Pieces) /\ Len(r.rx_buf) = 1
      BY <2>3, <2>4
    <2>6. RxTyped(e, r)
      <3>1. r.rx_len \in 0 .. MaxPayload[e] /\ Len(r.rx_buf) \in 1 .. r.rx_len - 1
        BY <1>1, <1>b, <2>3, <2>5, SizesAre
      <3>2. r.rx_sn \in 0 .. SnMod - 1 /\ r.rx_count \in Nat /\ (Bs[e] # 0 => r.rx_count < Bs[e])
        BY <2>3, SizesAre
      <3> QED BY <2>3, <2>5, <3>1, <3>2 DEF RxTyped
    <2> QED BY <2>1, <2>3, <2>5, <2>6 DEF HeardFirst
  <1>2. CASE ~ f.len <= MaxPayload[e]
    <2>1. PICK o, r : o = RxOver(l) /\ r = OnFirstFrame(e, l, f)
      OBVIOUS
    <2>2. /\ Record(o) /\ SameTx(o, l) /\ o.ready = FALSE
          /\ o.rx = "idle" /\ o.rx_buf = <<>> /\ o.rx_len = 0 /\ o.rx_sn = 0 /\ o.rx_count = 0 /\ o.rx_deadline = Unarmed
      BY <1>a, <2>1, RxOverIs
    <2>3. r = [o EXCEPT !.fc_send = FALSE, !.fc_ovflw = TRUE]
      BY <1>2, <2>1 DEF OnFirstFrame
    <2>4. /\ Record(r) /\ SameTx(r, l) /\ r.ready = FALSE /\ FlagsTyped(r) /\ ~ r.fc_send /\ r.fc_ovflw
          /\ r.rx = "idle" /\ r.rx_buf = <<>> /\ r.rx_len = 0 /\ r.rx_sn = 0 /\ r.rx_count = 0 /\ r.rx_deadline = Unarmed
      BY <2>2, <2>3 DEF Record, LinkFields, SameTx, FlagsTyped
    <2> QED BY <2>1, <2>4, RxOverTyped DEF HeardFirst
  <1> QED BY <1>1, <1>2

LEMMA ExpireIs ==
  ASSUME NEW e \in End, NEW l, LinkTyped(e, l)
  PROVE  LET r == ExpireRx(l) IN
         /\ Record(r) /\ SameTx(r, l) /\ r.ready = FALSE /\ FlagsTyped(r) /\ RxTyped(e, r) /\ r.fc_ovflw = l.fc_ovflw
         /\ \/ r = l
            \/ l.rx = "receiving" /\ l.rx_deadline = 0 /\ r.rx = "idle" /\ r.fc_send = FALSE
  <1>a. Record(l) /\ l.ready = FALSE /\ FlagsTyped(l) /\ RxTyped(e, l)
    BY DEF LinkTyped, Record
  <1>1. CASE Expired(l)
    <2>1. PICK o, r : o = RxOver(l) /\ r = ExpireRx(l)
      OBVIOUS
    <2>2. /\ Record(o) /\ SameTx(o, l) /\ o.ready = FALSE /\ SameFlags(o, l)
          /\ o.rx = "idle" /\ o.rx_buf = <<>> /\ o.rx_len = 0 /\ o.rx_sn = 0 /\ o.rx_count = 0 /\ o.rx_deadline = Unarmed
      BY <1>a, <2>1, RxOverIs
    <2>3. r = [o EXCEPT !.fc_send = FALSE]
      BY <1>1, <2>1 DEF ExpireRx
    <2>4. /\ Record(r) /\ SameTx(r, l) /\ r.ready = FALSE /\ r.fc_send = FALSE /\ r.fc_ovflw = l.fc_ovflw
          /\ r.rx = "idle" /\ r.rx_buf = <<>> /\ r.rx_len = 0 /\ r.rx_sn = 0 /\ r.rx_count = 0 /\ r.rx_deadline = Unarmed
      BY <2>2, <2>3 DEF Record, LinkFields, SameTx, SameFlags
    <2>5. FlagsTyped(r)
      BY <1>a, <2>4 DEF FlagsTyped
    <2>6. RxTyped(e, r)
      BY <2>4, RxOverTyped
    <2>7. l.rx = "receiving" /\ l.rx_deadline = 0
      BY <1>1 DEF Expired
    <2> QED BY <2>1, <2>4, <2>5, <2>6, <2>7
  <1>2. CASE ~ Expired(l)
    BY <1>a, <1>2 DEF ExpireRx, SameTx
  <1> QED BY <1>1, <1>2

\* A piece in sequence was taken: the message is whole, or the block is, or neither.
TookPiece(e, l, r) ==
    /\ Record(r) /\ SameTx(r, l) /\ FlagsTyped(r) /\ r.fc_ovflw = l.fc_ovflw
    /\ \/ /\ r.ready = TRUE /\ r.rx = "idle" /\ r.rx_len = 0 /\ r.rx_sn = 0 /\ r.rx_count = 0 /\ r.rx_deadline = Unarmed
          /\ r.fc_send = l.fc_send
       \/ /\ r.ready = FALSE /\ RxTyped(e, r) /\ l.rx = "receiving" /\ r.rx = "receiving" /\ r.rx_len = l.rx_len
          /\ Len(r.rx_buf) = Len(l.rx_buf) + 1 /\ Len(r.rx_buf) < r.rx_len /\ r.rx_buf[1] = l.rx_buf[1]
          /\ \/ /\ Bs[e] # 0 /\ l.rx_count + 1 >= Bs[e]
                /\ r.rx_count = 0 /\ r.rx_deadline = Unarmed /\ r.fc_send = TRUE
             \/ /\ r.rx_count = l.rx_count + 1 /\ r.fc_send = l.fc_send

LEMMA TakePieceIs ==
  ASSUME NEW e \in End, NEW l, LinkTyped(e, l), NEW f, FrameTyped(e, f), f.type = "CF", l.rx = "receiving"
  PROVE  TookPiece(e, l, TakePiece(e, l, f))
  <1>a. Record(l) /\ l.ready = FALSE /\ FlagsTyped(l) /\ RxTyped(e, l)
    BY DEF LinkTyped, Record
  <1>b. f.piece \in Pieces
    BY DEF FrameTyped, Frames
  <1>1. PICK b, n : b = Append(l.rx_buf, f.piece) /\ n = (l.rx_sn + 1) % SnMod
    OBVIOUS
  <1>2. b \in Seq(Pieces) /\ Len(b) = Len(l.rx_buf) + 1 /\ Len(l.rx_buf) \in Nat
    BY <1>a, <1>b, <1>1, AppendIs DEF RxTyped
  <1>c. b[1] = l.rx_buf[1]
    <2>1. 1 \in 1 .. Len(l.rx_buf) /\ l.rx_buf \in Seq(Pieces)
      BY <1>a, SizesAre DEF RxTyped
    <2> QED BY <1>b, <1>1, <2>1, AppendIs
  <1>3. n \in 0 .. SnMod - 1
    <2>1. l.rx_sn \in 0 .. SnMod - 1
      BY <1>a DEF RxTyped
    <2> QED BY <1>1, <2>1, SizesAre
  <1>4. PICK g : g = [l EXCEPT !.rx_buf = b, !.rx_sn = n, !.rx_count = @ + 1, !.rx_deadline = NCr]
    OBVIOUS
  <1>5. /\ Record(g) /\ SameTx(g, l) /\ SameFlags(g, l) /\ g.ready = FALSE
        /\ g.rx = "receiving" /\ g.rx_buf = b /\ g.rx_len = l.rx_len /\ g.rx_sn = n
        /\ g.rx_count = l.rx_count + 1 /\ g.rx_deadline = NCr
    BY <1>a, <1>4 DEF Record, LinkFields, SameTx, SameFlags
  <1>6. l.rx_len \in Nat /\ l.rx_count \in Nat /\ l.rx_len \in 0 .. MaxPayload[e]
    BY <1>a, SizesAre DEF RxTyped
  <1>7. PICK o, r : o = RxOver(l) /\ r = TakePiece(e, l, f)
    OBVIOUS
  <1>8. r = CASE Len(g.rx_buf) >= l.rx_len -> [o EXCEPT !.rx_buf = g.rx_buf, !.ready = TRUE]
              [] Len(g.rx_buf) < l.rx_len /\ Bs[e] # 0 /\ g.rx_count >= Bs[e] ->
                   [g EXCEPT !.rx_count = 0, !.rx_deadline = Unarmed, !.fc_send = TRUE]
              [] OTHER -> g
    BY <1>1, <1>4, <1>7 DEF TakePiece
  <1>9. CASE Len(b) >= l.rx_len
    <2>1. r = [o EXCEPT !.rx_buf = b, !.ready = TRUE]
      BY <1>2, <1>5, <1>6, <1>8, <1>9
    <2>2. /\ Record(o) /\ SameTx(o, l) /\ SameFlags(o, l)
          /\ o.rx = "idle" /\ o.rx_len = 0 /\ o.rx_sn = 0 /\ o.rx_count = 0 /\ o.rx_deadline = Unarmed
      BY <1>a, <1>7, RxOverIs
    <2>3. /\ Record(r) /\ SameTx(r, l) /\ SameFlags(r, l) /\ r.ready = TRUE
          /\ r.rx = "idle" /\ r.rx_len = 0 /\ r.rx_sn = 0 /\ r.rx_count = 0 /\ r.rx_deadline = Unarmed
      BY <2>1, <2>2 DEF Record, LinkFields, SameTx, SameFlags
    <2>4. FlagsTyped(r) /\ r.fc_ovflw = l.fc_ovflw /\ r.fc_send = l.fc_send
      BY <1>a, <2>3 DEF FlagsTyped, SameFlags
    <2> QED BY <1>7, <2>3, <2>4 DEF TookPiece
  <1>10. CASE Len(b) < l.rx_len /\ Bs[e] # 0 /\ l.rx_count + 1 >= Bs[e]
    <2>1. r = [g EXCEPT !.rx_count = 0, !.rx_deadline = Unarmed, !.fc_send = TRUE]
      BY <1>2, <1>5, <1>6, <1>8, <1>10
    <2>2. /\ Record(r) /\ SameTx(r, l) /\ r.fc_ovflw = l.fc_ovflw /\ r.fc_send = TRUE /\ r.ready = FALSE
          /\ r.rx = "receiving" /\ r.rx_buf = b /\ r.rx_len = l.rx_len /\ r.rx_sn = n
          /\ r.rx_count = 0 /\ r.rx_deadline = Unarmed
      BY <1>5, <2>1 DEF Record, LinkFields, SameTx, SameFlags
    <2>3. FlagsTyped(r)
      BY <1>a, <2>2 DEF FlagsTyped
    <2>4. Len(r.rx_buf) = Len(l.rx_buf) + 1 /\ Len(r.rx_buf) < r.rx_len /\ Len(r.rx_buf) \in 1 .. r.rx_len - 1
      BY <1>2, <1>6, <1>10, <2>2
    <2>5. r.rx_count \in Nat /\ (Bs[e] # 0 => r.rx_count < Bs[e])
      BY <2>2, SizesAre
    <2>6. RxTyped(e, r)
      BY <1>2, <1>3, <1>6, <2>2, <2>4, <2>5 DEF RxTyped
    <2> QED BY <1>c, <1>7, <1>10, <2>2, <2>3, <2>4, <2>6 DEF TookPiece
  <1>11. CASE Len(b) < l.rx_len /\ ~ (Bs[e] # 0 /\ l.rx_count + 1 >= Bs[e])
    <2>1. r = g
      BY <1>2, <1>5, <1>6, <1>8, <1>11
    <2>2. FlagsTyped(r) /\ r.fc_ovflw = l.fc_ovflw /\ r.fc_send = l.fc_send
      BY <1>a, <1>5, <2>1 DEF FlagsTyped, SameFlags
    <2>4. Len(r.rx_buf) = Len(l.rx_buf) + 1 /\ Len(r.rx_buf) < r.rx_len /\ Len(r.rx_buf) \in 1 .. r.rx_len - 1
      BY <1>2, <1>5, <1>6, <1>11, <2>1
    <2>5. r.rx_count \in Nat /\ (Bs[e] # 0 => r.rx_count < Bs[e])
      BY <1>5, <1>6, <1>11, <2>1, SizesAre
    <2>6. RxTyped(e, r)
      <3>1. r.rx_deadline \in 0 .. NCr \cup {Unarmed}
        BY <1>5, <2>1, SizesAre
      <3> QED BY <1>2, <1>3, <1>5, <1>6, <2>1, <2>4, <2>5, <3>1 DEF RxTyped
    <2> QED BY <1>c, <1>5, <1>7, <2>1, <2>2, <2>4, <2>6 DEF TookPiece
  <1>12. Len(b) >= l.rx_len \/ Len(b) < l.rx_len
    BY <1>2, <1>6
  <1> QED BY <1>9, <1>10, <1>11, <1>12

\* A consecutive frame was heard: ignored, or out of sequence or late, or taken.
HeardPiece(e, l, r) ==
    \/ r = l
    \/ /\ Record(r) /\ SameTx(r, l) /\ FlagsTyped(r) /\ r.fc_ovflw = l.fc_ovflw
       /\ r.ready = FALSE /\ RxTyped(e, r) /\ r.rx = "idle" /\ (r.fc_send = FALSE \/ r.fc_send = l.fc_send)
    \/ TookPiece(e, l, r)

LEMMA OnConsecutiveIs ==
  ASSUME NEW e \in End, NEW l, LinkTyped(e, l), NEW f, FrameTyped(e, f), f.type = "CF"
  PROVE  HeardPiece(e, l, OnConsecutiveFrame(e, l, f))
  <1>a. Record(l) /\ l.ready = FALSE /\ FlagsTyped(l) /\ RxTyped(e, l)
    BY DEF LinkTyped, Record
  <1>1. PICK x, r : x = ExpireRx(l) /\ r = OnConsecutiveFrame(e, l, f)
    OBVIOUS
  <1>2. /\ Record(x) /\ SameTx(x, l) /\ x.ready = FALSE /\ FlagsTyped(x) /\ RxTyped(e, x) /\ x.fc_ovflw = l.fc_ovflw
        /\ x = l \/ (l.rx = "receiving" /\ x.rx = "idle" /\ x.fc_send = FALSE)
    BY <1>1, ExpireIs
  <1>3. r = CASE x.rx = "receiving" /\ f.sn = x.rx_sn -> TakePiece(e, x, f)
              [] x.rx = "receiving" /\ f.sn # x.rx_sn -> RxOver(x)
              [] OTHER -> x
    BY <1>1 DEF OnConsecutiveFrame
  <1>4. CASE x.rx = "receiving" /\ f.sn = x.rx_sn
    <2>1. x = l
      BY <1>2, <1>4
    <2>2. r = TakePiece(e, x, f)
      BY <1>3, <1>4
    <2>3. l.rx = "receiving"
      BY <1>4, <2>1
    <2>4. r = TakePiece(e, l, f)
      BY <2>1, <2>2
    <2> QED BY <1>1, <2>3, <2>4, TakePieceIs DEF HeardPiece
  <1>5. CASE x.rx = "receiving" /\ f.sn # x.rx_sn
    <2>1. x = l /\ r = RxOver(l)
      BY <1>2, <1>3, <1>5
    <2>2. /\ Record(r) /\ SameTx(r, l) /\ SameFlags(r, l) /\ r.ready = FALSE
          /\ r.rx = "idle" /\ r.rx_buf = <<>> /\ r.rx_len = 0 /\ r.rx_sn = 0 /\ r.rx_count = 0 /\ r.rx_deadline = Unarmed
      BY <1>a, <2>1, RxOverIs
    <2>3. FlagsTyped(r) /\ r.fc_ovflw = l.fc_ovflw /\ r.fc_send = l.fc_send
      BY <1>a, <2>2 DEF FlagsTyped, SameFlags
    <2>4. RxTyped(e, r)
      BY <2>2, RxOverTyped
    <2> QED BY <1>1, <2>2, <2>3, <2>4 DEF HeardPiece
  <1>6. CASE x.rx # "receiving"
    <2>1. r = x
      BY <1>3, <1>6
    <2> QED BY <1>1, <1>2, <2>1 DEF HeardPiece
  <1> QED BY <1>4, <1>5, <1>6

\* A flow control was heard: ignored, or it ends the transmission, clears it or delays it.
HeardFlow(e, l, f, r) ==
    /\ Record(r) /\ SameRx(r, l) /\ SameFlags(r, l) /\ r.ready = FALSE /\ TxTyped(e, r)
    /\ \/ r = l /\ l.tx # "wait_fc"
       \/ l.tx = "wait_fc" /\ r.tx = "idle"
       \/ /\ l.tx = "wait_fc" /\ f.status = "CTS" /\ r.tx = "send_cf"
          /\ r.tx_pos = l.tx_pos /\ r.tx_buf = l.tx_buf /\ r.block_left = Bs[Peer(e)]
       \/ /\ l.tx = "wait_fc" /\ f.status = "WAIT" /\ r.tx = "wait_fc"
          /\ r.tx_pos = l.tx_pos /\ r.tx_buf = l.tx_buf /\ r.block_left = l.block_left

LEMMA OnFlowIs ==
  ASSUME NEW e \in End, NEW l, LinkTyped(e, l), NEW f, FrameTyped(e, f), f.type = "FC"
  PROVE  HeardFlow(e, l, f, OnFlowControl(l, f))
  <1>a. Record(l) /\ l.ready = FALSE /\ FlagsTyped(l) /\ TxTyped(e, l)
    BY DEF LinkTyped, Record
  <1>b. f.bs = Bs[Peer(e)] /\ Bs[Peer(e)] \in Nat
    BY EndsAre, SizesAre DEF FrameTyped
  <1>1. PICK r : r = OnFlowControl(l, f)
    OBVIOUS
  <1>2. CASE l.tx # "wait_fc"
    BY <1>a, <1>2 DEF OnFlowControl, SameRx, SameFlags, HeardFlow
  <1>3. CASE l.tx = "wait_fc" /\ r = TxOver(l)
    <2>1. /\ Record(r) /\ SameRx(r, l) /\ SameFlags(r, l) /\ r.ready = FALSE
          /\ r.tx = "idle" /\ r.tx_buf = NoMessage /\ r.tx_pos = 0 /\ r.tx_sn = 0
          /\ r.peer_bs = 0 /\ r.block_left = 0 /\ r.fc_deadline = 0 /\ r.wft_count = 0
      BY <1>a, <1>3, TxOverIs
    <2>2. TxTyped(e, r)
      BY <2>1, TxOverTyped
    <2> QED BY <1>1, <1>3, <2>1, <2>2 DEF HeardFlow
  <1>4. CASE l.tx = "wait_fc" /\ l.fc_deadline # 0 /\ f.status = "CTS"
    <2>1. r = [l EXCEPT !.tx = "send_cf", !.peer_bs = f.bs, !.peer_stmin = f.stmin,
                        !.block_left = f.bs, !.gap = 0, !.wft_count = 0, !.fc_deadline = NBs]
      BY <1>1, <1>4 DEF OnFlowControl
    <2>2. /\ Record(r) /\ SameRx(r, l) /\ SameFlags(r, l) /\ r.ready = FALSE
          /\ r.tx = "send_cf" /\ r.tx_buf = l.tx_buf /\ r.tx_pos = l.tx_pos /\ r.tx_sn = l.tx_sn
          /\ r.peer_bs = Bs[Peer(e)] /\ r.block_left = Bs[Peer(e)] /\ r.wft_count = 0 /\ r.fc_deadline = NBs
      BY <1>a, <1>b, <2>1 DEF Record, LinkFields, SameRx, SameFlags
    <2>3. TxTyped(e, r)
      <3>1. r.wft_count \in 0 .. WftMax /\ r.fc_deadline \in 0 .. NBs /\ r.block_left \in 0 .. Bs[Peer(e)]
            /\ (Bs[Peer(e)] # 0 => r.block_left >= 1)
        BY <1>b, <2>2, SizesAre
      <3> QED BY <1>a, <2>2, <3>1 DEF TxTyped
    <2> QED BY <1>1, <1>4, <2>2, <2>3 DEF HeardFlow
  <1>5. CASE l.tx = "wait_fc" /\ l.fc_deadline # 0 /\ f.status = "WAIT" /\ ~ l.wft_count >= WftMax
    <2>1. r = [l EXCEPT !.wft_count = @ + 1, !.fc_deadline = NBs]
      BY <1>1, <1>5 DEF OnFlowControl
    <2>2. /\ Record(r) /\ SameRx(r, l) /\ SameFlags(r, l) /\ r.ready = FALSE
          /\ r.tx = "wait_fc" /\ r.tx_buf = l.tx_buf /\ r.tx_pos = l.tx_pos /\ r.tx_sn = l.tx_sn
          /\ r.block_left = l.block_left /\ r.wft_count = l.wft_count + 1 /\ r.fc_deadline = NBs
      BY <1>a, <1>5, <2>1 DEF Record, LinkFields, SameRx, SameFlags
    <2>3. TxTyped(e, r)
      <3>1. l.wft_count \in 0 .. WftMax
        BY <1>a DEF TxTyped
      <3>2. r.wft_count \in 0 .. WftMax /\ r.fc_deadline \in 0 .. NBs
        BY <1>5, <2>2, <3>1, SizesAre
      <3> QED BY <1>a, <2>2, <3>2 DEF TxTyped
    <2> QED BY <1>1, <1>5, <2>2, <2>3 DEF HeardFlow
  <1>6. CASE /\ l.tx = "wait_fc" /\ r # TxOver(l)
    <2>1. \/ l.fc_deadline # 0 /\ f.status = "CTS"
          \/ l.fc_deadline # 0 /\ f.status = "WAIT" /\ ~ l.wft_count >= WftMax
      <3>1. l.fc_deadline # 0
        BY <1>1, <1>6 DEF OnFlowControl
      <3>2. f.status = "CTS" \/ f.status = "WAIT"
        BY <1>1, <1>6, <3>1 DEF OnFlowControl
      <3>3. f.status = "WAIT" => ~ l.wft_count >= WftMax
        BY <1>1, <1>6, <3>1 DEF OnFlowControl
      <3> QED BY <3>1, <3>2, <3>3
    <2> QED BY <1>4, <1>5, <1>6, <2>1
  <1> QED BY <1>2, <1>3, <1>6

\* A consecutive frame went: the last one, the last of the block, or another.
SentPiece(e, l, r) ==
    \/ r.tx = "idle" /\ l.tx_pos + 1 >= l.tx_buf.len
    \/ /\ l.tx_pos + 1 < l.tx_buf.len /\ r.tx = "wait_fc" /\ Bs[Peer(e)] # 0 /\ l.block_left = 1
       /\ r.tx_pos = l.tx_pos + 1 /\ r.tx_buf = l.tx_buf
    \/ /\ l.tx_pos + 1 < l.tx_buf.len /\ r.tx = "send_cf"
       /\ r.tx_pos = l.tx_pos + 1 /\ r.tx_buf = l.tx_buf
       /\ Bs[Peer(e)] # 0 => l.block_left >= 2 /\ r.block_left = l.block_left - 1

LEMMA AfterConsecutiveIs ==
  ASSUME NEW e \in End, NEW l, LinkTyped(e, l), l.tx = "send_cf"
  PROVE  LET r == AfterConsecutive(l) IN
         Record(r) /\ SameRx(r, l) /\ SameFlags(r, l) /\ r.ready = FALSE /\ TxTyped(e, r) /\ SentPiece(e, l, r)
  <1>a. Record(l) /\ l.ready = FALSE /\ FlagsTyped(l) /\ TxTyped(e, l)
    BY DEF LinkTyped, Record
  <1>b. /\ l.tx_pos \in Nat /\ l.tx_buf.len \in Nat /\ l.tx_sn \in 0 .. SnMod - 1
        /\ l.peer_bs = Bs[Peer(e)] /\ Bs[Peer(e)] \in Nat /\ l.block_left \in 0 .. Bs[Peer(e)]
        /\ (Bs[Peer(e)] # 0 => l.block_left >= 1)
    BY <1>a, EndsAre, SizesAre DEF TxTyped
  <1>1. PICK r, n : r = AfterConsecutive(l) /\ n = (l.tx_sn + 1) % SnMod
    OBVIOUS
  <1>2. n \in 0 .. SnMod - 1
    BY <1>b, <1>1, SizesAre
  <1>3. PICK g : g = [l EXCEPT !.tx_pos = @ + 1, !.tx_sn = n, !.gap = l.peer_stmin, !.fc_deadline = NBs]
    OBVIOUS
  <1>4. /\ Record(g) /\ SameRx(g, l) /\ SameFlags(g, l) /\ g.ready = FALSE
        /\ g.tx = "send_cf" /\ g.tx_buf = l.tx_buf /\ g.tx_pos = l.tx_pos + 1 /\ g.tx_sn = n
        /\ g.peer_bs = l.peer_bs /\ g.block_left = l.block_left /\ g.wft_count = l.wft_count /\ g.fc_deadline = NBs
    BY <1>a, <1>3 DEF Record, LinkFields, SameRx, SameFlags
  <1>5. r = CASE g.tx_pos >= l.tx_buf.len -> TxOver(l)
              [] g.tx_pos < l.tx_buf.len /\ l.peer_bs # 0 /\ l.block_left = 1 ->
                   [g EXCEPT !.tx = "wait_fc", !.block_left = 0, !.gap = 0]
              [] g.tx_pos < l.tx_buf.len /\ l.peer_bs # 0 /\ l.block_left # 1 ->
                   [g EXCEPT !.block_left = @ - 1]
              [] OTHER -> g
    BY <1>1, <1>3 DEF AfterConsecutive
  <1>6. l.wft_count \in 0 .. WftMax /\ NBs \in 0 .. NBs /\ l.tx_buf.id \in Nat
    BY <1>a, SizesAre DEF TxTyped
  <1>7. CASE l.tx_pos + 1 >= l.tx_buf.len
    <2>1. r = TxOver(l)
      BY <1>b, <1>4, <1>5, <1>7
    <2>2. /\ Record(r) /\ SameRx(r, l) /\ SameFlags(r, l) /\ r.ready = FALSE
          /\ r.tx = "idle" /\ r.tx_buf = NoMessage /\ r.tx_pos = 0 /\ r.tx_sn = 0
          /\ r.peer_bs = 0 /\ r.block_left = 0 /\ r.fc_deadline = 0 /\ r.wft_count = 0
      BY <1>a, <2>1, TxOverIs
    <2> QED BY <1>1, <1>7, <2>2, TxOverTyped DEF SentPiece
  <1>8. CASE l.tx_pos + 1 < l.tx_buf.len /\ Bs[Peer(e)] # 0 /\ l.block_left = 1
    <2>1. r = [g EXCEPT !.tx = "wait_fc", !.block_left = 0, !.gap = 0]
      BY <1>b, <1>4, <1>5, <1>8
    <2>2. /\ Record(r) /\ SameRx(r, l) /\ SameFlags(r, l) /\ r.ready = FALSE
          /\ r.tx = "wait_fc" /\ r.tx_buf = l.tx_buf /\ r.tx_pos = l.tx_pos + 1 /\ r.tx_sn = n
          /\ r.block_left = 0 /\ r.wft_count = l.wft_count /\ r.fc_deadline = NBs
      BY <1>4, <2>1 DEF Record, LinkFields, SameRx, SameFlags
    <2>3. r.tx_pos \in Nat /\ r.block_left \in 0 .. Bs[Peer(e)]
      BY <1>b, <2>2
    <2>4. TxTyped(e, r)
      BY <1>b, <1>2, <1>6, <2>2, <2>3 DEF TxTyped
    <2> QED BY <1>1, <1>8, <2>2, <2>4 DEF SentPiece
  <1>9. CASE l.tx_pos + 1 < l.tx_buf.len /\ Bs[Peer(e)] # 0 /\ l.block_left # 1
    <2>1. r = [g EXCEPT !.block_left = @ - 1]
      BY <1>b, <1>4, <1>5, <1>9
    <2>2. /\ Record(r) /\ SameRx(r, l) /\ SameFlags(r, l) /\ r.ready = FALSE
          /\ r.tx = "send_cf" /\ r.tx_buf = l.tx_buf /\ r.tx_pos = l.tx_pos + 1 /\ r.tx_sn = n
          /\ r.peer_bs = l.peer_bs
          /\ r.block_left = l.block_left - 1 /\ r.wft_count = l.wft_count /\ r.fc_deadline = NBs
      BY <1>4, <2>1 DEF Record, LinkFields, SameRx, SameFlags
    <2>3. r.tx_pos \in Nat /\ r.block_left \in 0 .. Bs[Peer(e)] /\ r.block_left >= 1 /\ l.block_left >= 2
      BY <1>b, <1>9, <2>2
    <2>4. TxTyped(e, r)
      BY <1>b, <1>2, <1>6, <2>2, <2>3 DEF TxTyped
    <2> QED BY <1>1, <1>9, <2>2, <2>3, <2>4 DEF SentPiece
  <1>10. CASE l.tx_pos + 1 < l.tx_buf.len /\ Bs[Peer(e)] = 0
    <2>1. r = g
      BY <1>b, <1>4, <1>5, <1>10
    <2>2. r.tx_pos \in Nat /\ r.block_left \in 0 .. Bs[Peer(e)]
      BY <1>b, <1>4, <2>1
    <2>3. TxTyped(e, r)
      BY <1>b, <1>2, <1>4, <1>6, <1>10, <2>1, <2>2 DEF TxTyped
    <2> QED BY <1>1, <1>4, <1>10, <2>1, <2>3 DEF SentPiece
  <1>11. l.tx_pos + 1 >= l.tx_buf.len \/ l.tx_pos + 1 < l.tx_buf.len
    BY <1>b
  <1> QED BY <1>7, <1>8, <1>9, <1>10, <1>11

\* poll: an answer went, or a frame of the message.
PolledRefusal(l, r) == l.fc_ovflw /\ SameRx(r, l) /\ SameTx(r, l) /\ r.fc_send = l.fc_send /\ r.fc_ovflw = FALSE
PolledClear(l, r) == /\ ~ l.fc_ovflw /\ l.fc_send /\ SameTx(r, l) /\ r.fc_send = FALSE /\ r.fc_ovflw = l.fc_ovflw
                     /\ r.rx = l.rx /\ r.rx_buf = l.rx_buf /\ r.rx_len = l.rx_len /\ r.rx_count = l.rx_count
PolledSingle(l, r) == /\ ~ l.fc_ovflw /\ ~ l.fc_send /\ l.tx = "send_sf" /\ SameRx(r, l) /\ SameFlags(r, l) /\ r.tx = "idle"
PolledFirst(l, r) == /\ ~ l.fc_ovflw /\ ~ l.fc_send /\ l.tx = "send_ff" /\ SameRx(r, l) /\ SameFlags(r, l)
                     /\ r.tx = "wait_fc" /\ r.tx_pos = 1 /\ r.tx_buf = l.tx_buf
PolledPiece(e, l, r) == /\ ~ l.fc_ovflw /\ ~ l.fc_send /\ l.tx = "send_cf" /\ SameRx(r, l) /\ SameFlags(r, l)
                        /\ SentPiece(e, l, r)
Polled(e, l, r) ==
    LinkTyped(e, r) /\ (PolledRefusal(l, r) \/ PolledClear(l, r) \/ PolledSingle(l, r) \/ PolledFirst(l, r)
                        \/ PolledPiece(e, l, r))

LEMMA AfterPollIs ==
  ASSUME NEW e \in End, NEW l, LinkTyped(e, l), HasFrame(l)
  PROVE  Polled(e, l, AfterPoll(l))
  <1>a. Record(l) /\ l.ready = FALSE /\ FlagsTyped(l) /\ TxTyped(e, l) /\ RxTyped(e, l)
    BY DEF LinkTyped, Record
  <1>1. PICK r : r = AfterPoll(l)
    OBVIOUS
  <1>2. CASE l.fc_ovflw
    <2>1. r = [l EXCEPT !.fc_ovflw = FALSE]
      BY <1>1, <1>2 DEF AfterPoll
    <2>2. /\ Record(r) /\ SameRx(r, l) /\ SameTx(r, l) /\ r.fc_send = l.fc_send /\ r.fc_ovflw = FALSE /\ r.ready = FALSE
      BY <1>a, <2>1 DEF Record, LinkFields, SameRx, SameTx
    <2>3. FlagsTyped(r)
      BY <1>a, <2>2 DEF FlagsTyped
    <2> QED BY <1>a, <1>1, <1>2, <2>2, <2>3, SameTyped DEF LinkTyped, Record, Polled, PolledRefusal
  <1>3. CASE ~ l.fc_ovflw /\ l.fc_send
    <2>1. r = [l EXCEPT !.fc_send = FALSE, !.rx_deadline = IF l.rx = "receiving" THEN NCr ELSE Unarmed]
      BY <1>1, <1>3 DEF AfterPoll
    <2>2. /\ Record(r) /\ SameTx(r, l) /\ r.fc_send = FALSE /\ r.fc_ovflw = l.fc_ovflw /\ r.ready = FALSE
          /\ r.rx = l.rx /\ r.rx_buf = l.rx_buf /\ r.rx_len = l.rx_len /\ r.rx_sn = l.rx_sn /\ r.rx_count = l.rx_count
          /\ r.rx_deadline \in {NCr, Unarmed}
      BY <1>a, <2>1 DEF Record, LinkFields, SameTx
    <2>3. FlagsTyped(r)
      BY <1>a, <2>2 DEF FlagsTyped
    <2>4. r.rx_deadline \in 0 .. NCr \cup {Unarmed}
      BY <2>2, SizesAre
    <2>5. RxTyped(e, r)
      BY <1>a, <2>2, <2>4 DEF RxTyped
    <2> QED BY <1>a, <1>1, <1>3, <2>2, <2>3, <2>5, SameTyped DEF LinkTyped, Record, Polled, PolledClear
  <1>4. CASE ~ l.fc_ovflw /\ ~ l.fc_send /\ l.tx = "send_sf"
    <2>1. r = TxOver(l)
      BY <1>1, <1>4 DEF AfterPoll
    <2>2. /\ Record(r) /\ SameRx(r, l) /\ SameFlags(r, l) /\ r.ready = FALSE
          /\ r.tx = "idle" /\ r.tx_buf = NoMessage /\ r.tx_pos = 0 /\ r.tx_sn = 0
          /\ r.peer_bs = 0 /\ r.block_left = 0 /\ r.fc_deadline = 0 /\ r.wft_count = 0
      BY <1>a, <2>1, TxOverIs
    <2>3. TxTyped(e, r)
      BY <2>2, TxOverTyped
    <2> QED BY <1>a, <1>1, <1>4, <2>2, <2>3, SameTyped DEF LinkTyped, Record, Polled, PolledSingle
  <1>5. CASE ~ l.fc_ovflw /\ ~ l.fc_send /\ l.tx = "send_ff"
    <2>1. r = [l EXCEPT !.tx = "wait_fc", !.tx_pos = 1, !.tx_sn = 1, !.fc_deadline = NBs]
      BY <1>1, <1>5 DEF AfterPoll
    <2>2. /\ Record(r) /\ SameRx(r, l) /\ SameFlags(r, l) /\ r.ready = FALSE
          /\ r.tx = "wait_fc" /\ r.tx_buf = l.tx_buf /\ r.tx_pos = 1 /\ r.tx_sn = 1
          /\ r.peer_bs = l.peer_bs /\ r.block_left = l.block_left /\ r.fc_deadline = NBs /\ r.wft_count = l.wft_count
      BY <1>a, <2>1 DEF Record, LinkFields, SameRx, SameFlags
    <2>3. TxTyped(e, r)
      <3>1. 1 \in 0 .. SnMod - 1 /\ NBs \in 0 .. NBs
        BY SizesAre
      <3> QED BY <1>a, <2>2, <3>1 DEF TxTyped
    <2> QED BY <1>a, <1>1, <1>5, <2>2, <2>3, SameTyped DEF LinkTyped, Record, Polled, PolledFirst
  <1>6. CASE ~ l.fc_ovflw /\ ~ l.fc_send /\ l.tx = "send_cf"
    <2>1. r = AfterConsecutive(l)
      BY <1>1, <1>6 DEF AfterPoll
    <2>2. Record(r) /\ SameRx(r, l) /\ SameFlags(r, l) /\ r.ready = FALSE /\ TxTyped(e, r)
      BY <1>6, <2>1, AfterConsecutiveIs
    <2>3. LinkTyped(e, r)
      BY <1>a, <2>2, SameTyped DEF LinkTyped, Record
    <2>4. SentPiece(e, l, r)
      BY <1>6, <2>1, AfterConsecutiveIs
    <2> QED BY <1>1, <1>6, <2>2, <2>3, <2>4 DEF Polled, PolledPiece
  <1> QED BY <1>2, <1>3, <1>4, <1>5, <1>6 DEF HasFrame

\* on_frame, and the message that completes with it taken.
HeardCf(e, l, r) ==
    /\ SameTx(r, l) /\ r.fc_ovflw = l.fc_ovflw
    /\ \/ r = l
       \/ r.rx = "idle" /\ (r.fc_send = FALSE \/ r.fc_send = l.fc_send)
       \/ /\ l.rx = "receiving" /\ r.rx = "receiving" /\ r.rx_len = l.rx_len
          /\ Len(r.rx_buf) = Len(l.rx_buf) + 1 /\ Len(r.rx_buf) < r.rx_len /\ r.rx_buf[1] = l.rx_buf[1]
          /\ \/ /\ Bs[e] # 0 /\ l.rx_count + 1 >= Bs[e]
                /\ r.rx_count = 0 /\ r.rx_deadline = Unarmed /\ r.fc_send = TRUE
             \/ /\ r.rx_count = l.rx_count + 1 /\ r.fc_send = l.fc_send
HeardSf(l, r) == SameTx(r, l) /\ r.rx = "idle" /\ ~ r.fc_send /\ ~ r.fc_ovflw
Heard(e, l, f, r) ==
    /\ LinkTyped(e, r)
    /\ \/ f.type = "SF" /\ HeardSf(l, r)
       \/ f.type = "FF" /\ HeardFirst(e, l, f, r)
       \/ f.type = "CF" /\ HeardCf(e, l, r)
       \/ f.type = "FC" /\ HeardFlow(e, l, f, r)

LEMMA TakenIs ==
  ASSUME NEW e \in End, NEW l, Record(l), l.ready = TRUE, TxTyped(e, l), FlagsTyped(l),
         l.rx = "idle", l.rx_len = 0, l.rx_sn = 0, l.rx_count = 0, l.rx_deadline = Unarmed
  PROVE  LET r == [l EXCEPT !.ready = FALSE, !.rx_buf = <<>>] IN
         LinkTyped(e, r) /\ SameTx(r, l) /\ SameFlags(r, l) /\ r.rx = "idle"
  <1>1. PICK r : r = [l EXCEPT !.ready = FALSE, !.rx_buf = <<>>]
    OBVIOUS
  <1>2. /\ Record(r) /\ SameTx(r, l) /\ SameFlags(r, l) /\ r.ready = FALSE /\ r.rx_buf = <<>>
        /\ r.rx = "idle" /\ r.rx_len = 0 /\ r.rx_sn = 0 /\ r.rx_count = 0 /\ r.rx_deadline = Unarmed
    BY <1>1 DEF Record, LinkFields, SameTx, SameFlags
  <1>3. RxTyped(e, r)
    BY <1>2, RxOverTyped
  <1> QED BY <1>1, <1>2, <1>3, SameTyped DEF LinkTyped, Record

LEMMA HeardIs ==
  ASSUME NEW e \in End, NEW l, LinkTyped(e, l), NEW f, FrameTyped(e, f)
  PROVE  LET o == OnFrame(e, l, f) IN
         Heard(e, l, f, IF o.ready THEN [o EXCEPT !.ready = FALSE, !.rx_buf = <<>>] ELSE o)
  <1>a. Record(l) /\ l.ready = FALSE /\ FlagsTyped(l) /\ TxTyped(e, l) /\ RxTyped(e, l)
    BY DEF LinkTyped, Record
  <1>1. PICK o, r : o = OnFrame(e, l, f) /\ r = IF o.ready THEN [o EXCEPT !.ready = FALSE, !.rx_buf = <<>>] ELSE o
    OBVIOUS
  <1>2. CASE f.type = "SF"
    <2>1. HeardSingle(l, o)
      BY <1>1, <1>2, OnSingleIs DEF OnFrame
    <2>2. /\ Record(o) /\ SameTx(o, l) /\ o.ready = TRUE /\ ~ o.fc_send /\ ~ o.fc_ovflw /\ FlagsTyped(o)
          /\ o.rx = "idle" /\ o.rx_len = 0 /\ o.rx_sn = 0 /\ o.rx_count = 0 /\ o.rx_deadline = Unarmed
      BY <2>1 DEF HeardSingle
    <2>3. TxTyped(e, o)
      BY <1>a, <2>2, SameTyped
    <2>4. r = [o EXCEPT !.ready = FALSE, !.rx_buf = <<>>]
      BY <1>1, <2>2
    <2>5. LinkTyped(e, r) /\ SameTx(r, o) /\ SameFlags(r, o) /\ r.rx = "idle"
      BY <2>2, <2>3, <2>4, TakenIs
    <2>6. HeardSf(l, r)
      BY <2>2, <2>5 DEF HeardSf, SameTx, SameFlags
    <2> QED BY <1>1, <1>2, <2>5, <2>6 DEF Heard
  <1>3. CASE f.type = "FF"
    <2>1. HeardFirst(e, l, f, o)
      BY <1>1, <1>3, OnFirstIs DEF OnFrame
    <2>2. r = o
      BY <1>1, <2>1 DEF HeardFirst
    <2>3. TxTyped(e, o)
      BY <1>a, <2>1, SameTyped DEF HeardFirst
    <2>4. LinkTyped(e, r)
      BY <2>1, <2>2, <2>3 DEF HeardFirst, LinkTyped, Record
    <2> QED BY <1>1, <1>3, <2>1, <2>2, <2>4 DEF Heard
  <1>4. CASE f.type = "FC"
    <2>1. HeardFlow(e, l, f, o)
      BY <1>1, <1>4, OnFlowIs DEF OnFrame
    <2>2. r = o
      BY <1>1, <2>1 DEF HeardFlow
    <2>3. RxTyped(e, o) /\ FlagsTyped(o)
      BY <1>a, <2>1, SameTyped DEF HeardFlow
    <2>4. LinkTyped(e, r)
      BY <2>1, <2>2, <2>3 DEF HeardFlow, LinkTyped, Record
    <2> QED BY <1>1, <1>4, <2>1, <2>2, <2>4 DEF Heard
  <1>5. CASE f.type = "CF"
    <2>1. HeardPiece(e, l, o)
      BY <1>1, <1>5, OnConsecutiveIs DEF OnFrame
    <2>2. CASE o = l
      <3>1. r = l
        BY <1>1, <1>a, <2>2
      <3> QED BY <1>1, <1>5, <3>1 DEF Heard, HeardCf, SameTx
    <2>3. CASE /\ Record(o) /\ SameTx(o, l) /\ FlagsTyped(o) /\ o.fc_ovflw = l.fc_ovflw
               /\ o.ready = FALSE /\ RxTyped(e, o) /\ o.rx = "idle" /\ (o.fc_send = FALSE \/ o.fc_send = l.fc_send)
      <3>1. r = o
        BY <1>1, <2>3
      <3>2. TxTyped(e, o)
        BY <1>a, <2>3, SameTyped
      <3>3. LinkTyped(e, r)
        BY <2>3, <3>1, <3>2 DEF LinkTyped, Record
      <3> QED BY <1>1, <1>5, <2>3, <3>1, <3>3 DEF Heard, HeardCf
    <2>4. CASE TookPiece(e, l, o) /\ o.ready = TRUE
      <3>1. /\ Record(o) /\ SameTx(o, l) /\ FlagsTyped(o) /\ o.fc_ovflw = l.fc_ovflw
            /\ o.rx = "idle" /\ o.rx_len = 0 /\ o.rx_sn = 0 /\ o.rx_count = 0 /\ o.rx_deadline = Unarmed
            /\ o.fc_send = l.fc_send
        BY <2>4 DEF TookPiece
      <3>2. TxTyped(e, o)
        BY <1>a, <3>1, SameTyped
      <3>3. r = [o EXCEPT !.ready = FALSE, !.rx_buf = <<>>]
        BY <1>1, <2>4
      <3>4. LinkTyped(e, r) /\ SameTx(r, o) /\ SameFlags(r, o) /\ r.rx = "idle"
        BY <2>4, <3>1, <3>2, <3>3, TakenIs
      <3>5. HeardCf(e, l, r)
        BY <3>1, <3>4 DEF HeardCf, SameTx, SameFlags
      <3> QED BY <1>1, <1>5, <3>4, <3>5 DEF Heard
    <2>5. CASE TookPiece(e, l, o) /\ ~ o.ready
      <3>1. r = o
        BY <1>1, <2>5
      <3>2. Record(o) /\ SameTx(o, l) /\ FlagsTyped(o) /\ o.ready = FALSE /\ RxTyped(e, o)
        BY <2>5 DEF TookPiece
      <3>3. TxTyped(e, o)
        BY <1>a, <3>2, SameTyped
      <3>4. LinkTyped(e, r)
        BY <3>1, <3>2, <3>3 DEF LinkTyped, Record
      <3>5. HeardCf(e, l, r)
        BY <2>5, <3>1 DEF HeardCf, TookPiece
      <3> QED BY <1>1, <1>5, <3>4, <3>5 DEF Heard
    <2> QED BY <2>1, <2>2, <2>3, <2>4, <2>5 DEF HeardPiece, TookPiece
  <1> QED BY <1>2, <1>3, <1>4, <1>5 DEF FrameTyped, Frames

\* The frame that poll gives.
PolledFrame(e, l, f) ==
    /\ FrameTyped(Peer(e), f)
    /\ l.fc_ovflw \/ l.fc_send <=> f.type = "FC"
    /\ f.type = "FC" => f.status # "WAIT"
    /\ f.type = "FC" /\ f.status = "CTS" => ~ l.fc_ovflw
    /\ f.type = "SF" => l.tx = "send_sf" /\ f.id = l.tx_buf.id
    /\ f.type = "FF" => l.tx = "send_ff" /\ f.len = l.tx_buf.len /\ f.id = l.tx_buf.id
    /\ f.type = "CF" => l.tx = "send_cf" /\ f.piece = <<l.tx_buf.id, l.tx_pos + 1>> /\ f.piece[2] = l.tx_pos + 1

LEMMA PollFrameIs ==
  ASSUME NEW e \in End, NEW l, LinkTyped(e, l), HasFrame(l)
  PROVE  PolledFrame(e, l, PollFrame(e, l))
  <1>a. TxTyped(e, l)
    BY DEF LinkTyped
  <1>b. Peer(e) \in End /\ Peer(Peer(e)) = e /\ Bs[e] \in Nat /\ StMin[e] \in Nat
    BY EndsAre, SizesAre
  <1>1. PICK f : f = PollFrame(e, l)
    OBVIOUS
  <1>2. CASE l.fc_ovflw
    <2>1. f = [type |-> "FC", status |-> "OVFLW", bs |-> Bs[e], stmin |-> StMin[e]]
      BY <1>1, <1>2 DEF PollFrame, FlowControl
    <2>2. FrameTyped(Peer(e), f)
      BY <1>b, <2>1 DEF FrameTyped, Frames
    <2>3. f.type = "FC" /\ f.status = "OVFLW"
      BY <2>1
    <2> QED BY <1>1, <1>2, <2>2, <2>3 DEF PolledFrame
  <1>3. CASE ~ l.fc_ovflw /\ l.fc_send
    <2>1. f = [type |-> "FC", status |-> "CTS", bs |-> Bs[e], stmin |-> StMin[e]]
      BY <1>1, <1>3 DEF PollFrame, FlowControl
    <2>2. FrameTyped(Peer(e), f)
      BY <1>b, <2>1 DEF FrameTyped, Frames
    <2>3. f.type = "FC" /\ f.status = "CTS"
      BY <2>1
    <2> QED BY <1>1, <1>3, <2>2, <2>3 DEF PolledFrame
  <1>4. CASE ~ l.fc_ovflw /\ ~ l.fc_send /\ l.tx = "send_sf"
    <2>1. f = [type |-> "SF", id |-> l.tx_buf.id]
      BY <1>1, <1>4 DEF PollFrame, SingleFrame
    <2>2. l.tx_buf.id \in Nat
      BY <1>a DEF TxTyped
    <2>3. FrameTyped(Peer(e), f)
      BY <2>1, <2>2 DEF FrameTyped, Frames
    <2>4. f.type = "SF" /\ f.id = l.tx_buf.id
      BY <2>1
    <2> QED BY <1>1, <1>4, <2>3, <2>4 DEF PolledFrame
  <1>5. CASE ~ l.fc_ovflw /\ ~ l.fc_send /\ l.tx = "send_ff"
    <2>1. f = [type |-> "FF", id |-> l.tx_buf.id, len |-> l.tx_buf.len]
      BY <1>1, <1>5 DEF PollFrame, FirstFrame
    <2>2. l.tx_buf.id \in Nat /\ l.tx_buf.len \in Nat /\ l.tx_buf.len >= 2
      BY <1>a, <1>5 DEF TxTyped
    <2>3. FrameTyped(Peer(e), f)
      BY <2>1, <2>2 DEF FrameTyped, Frames
    <2>4. f.type = "FF" /\ f.len = l.tx_buf.len /\ f.id = l.tx_buf.id
      BY <2>1
    <2> QED BY <1>1, <1>5, <2>3, <2>4 DEF PolledFrame
  <1>6. CASE ~ l.fc_ovflw /\ ~ l.fc_send /\ l.tx = "send_cf"
    <2>1. f = [type |-> "CF", sn |-> l.tx_sn, piece |-> <<l.tx_buf.id, l.tx_pos + 1>>]
      BY <1>1, <1>6 DEF PollFrame, ConsecutiveFrame
    <2>2. l.tx_buf.id \in Nat /\ l.tx_sn \in Nat /\ l.tx_pos + 1 \in Nat
      BY <1>a, SizesAre DEF TxTyped
    <2>3. FrameTyped(Peer(e), f)
      BY <2>1, <2>2 DEF FrameTyped, Frames, Pieces
    <2>4. f.type = "CF" /\ f.piece = <<l.tx_buf.id, l.tx_pos + 1>> /\ f.piece[2] = l.tx_pos + 1
      BY <2>1
    <2> QED BY <1>1, <1>6, <2>3, <2>4 DEF PolledFrame
  <1> QED BY <1>2, <1>3, <1>4, <1>5, <1>6 DEF HasFrame

\* What an action leaves alone of a direction.
TxKept(p) == /\ link'[p].tx = link[p].tx /\ link'[p].tx_pos = link[p].tx_pos /\ link'[p].tx_buf = link[p].tx_buf
             /\ link'[p].block_left = link[p].block_left
RxBufKept(e) == /\ link'[e].rx = link[e].rx /\ link'[e].rx_buf = link[e].rx_buf /\ link'[e].rx_len = link[e].rx_len
                /\ link'[e].rx_count = link[e].rx_count
RxKept(e) == /\ RxBufKept(e)
             /\ link'[e].fc_send => link[e].fc_send /\ (link[e].rx_deadline = Unarmed => link'[e].rx_deadline = Unarmed)
             /\ link'[e].fc_ovflw => link[e].fc_ovflw
DataLess(e) == \E d \in {0, 1} : \A i \in 1 .. Len(wire'[e]) :
                  DataAt(e, i)' => i + d \in 1 .. Len(wire[e]) /\ wire'[e][i] = wire[e][i + d]
AnswersLess(p) == \E d \in {0, 1} : \A i \in 1 .. Len(wire'[p]) :
                  AnswerAt(p, i)' => i + d \in 1 .. Len(wire[p]) /\ wire'[p][i] = wire[p][i + d]

\* Fewer frames of data are in order, are no others, and leave a wire quiet that was.
LEMMA DataLessIs ==
  ASSUME NEW e, DataLess(e)
  PROVE  /\ InOrder(e) => InOrder(e)' 
         /\ Quiet(e) => Quiet(e)'
         /\ OnlyCf(e) => OnlyCf(e)'
         /\ \A i \in 1 .. Len(wire'[e]) : FfAt(e, i)' => \E j \in 1 .. Len(wire[e]) : FfAt(e, j) /\ wire'[e][i] = wire[e][j]
         /\ \A i \in 1 .. Len(wire'[e]) : CfAt(e, i)' => \E j \in 1 .. Len(wire[e]) : CfAt(e, j) /\ At(e, i)' = At(e, j)
  <1>1. PICK d \in {0, 1} : \A i \in 1 .. Len(wire'[e]) :
                  DataAt(e, i)' => i + d \in 1 .. Len(wire[e]) /\ wire'[e][i] = wire[e][i + d]
    BY DEF DataLess
  <1>2. \A i \in 1 .. Len(wire'[e]) : DataAt(e, i)' =>
            /\ i + d \in 1 .. Len(wire[e]) /\ wire'[e][i] = wire[e][i + d] /\ DataAt(e, i + d)
            /\ CfAt(e, i)' <=> CfAt(e, i + d)
            /\ FfAt(e, i)' <=> FfAt(e, i + d)
            /\ At(e, i)' = At(e, i + d)
    BY <1>1 DEF DataAt, CfAt, FfAt, At
  <1>3. \A i : (CfAt(e, i)' \/ FfAt(e, i)' => DataAt(e, i)') /\ (CfAt(e, i) \/ FfAt(e, i) => DataAt(e, i))
               /\ (DataAt(e, i)' => i \in 1 .. Len(wire'[e]))
    BY DEF DataAt, CfAt, FfAt
  <1>4. Quiet(e) => Quiet(e)'
    BY <1>2 DEF Quiet
  <1>5. OnlyCf(e) => OnlyCf(e)'
    BY <1>2 DEF OnlyCf
  <1>6. InOrder(e) => InOrder(e)'
    <2>1. SUFFICES ASSUME InOrder(e), NEW i \in 1 .. Len(wire'[e]), NEW j \in 1 .. Len(wire'[e]), i < j
                   PROVE  /\ CfAt(e, j)' => ~ FfAt(e, i)' /\ (DataAt(e, i)' => CfAt(e, i)')
                          /\ CfAt(e, i)' /\ CfAt(e, j)' => At(e, i)' < At(e, j)'
                          /\ FfAt(e, i)' => ~ DataAt(e, j)'
      BY DEF InOrder
    <2>2. DataAt(e, i)' /\ DataAt(e, j)' => i + d \in 1 .. Len(wire[e]) /\ j + d \in 1 .. Len(wire[e]) /\ i + d < j + d
      BY <1>2, <2>1
    <2>3. ASSUME DataAt(e, i)', DataAt(e, j)'
          PROVE  /\ CfAt(e, j)' => ~ FfAt(e, i)' /\ CfAt(e, i)'
                 /\ CfAt(e, i)' /\ CfAt(e, j)' => At(e, i)' < At(e, j)'
                 /\ ~ FfAt(e, i)'
      BY <1>2, <2>1, <2>2, <2>3 DEF InOrder
    <2> QED BY <1>3, <2>3
  <1> QED BY <1>2, <1>3, <1>4, <1>5, <1>6

LEMMA AnswersLessIs ==
  ASSUME NEW p, AnswersLess(p)
  PROVE  /\ NoAnswer(p) => NoAnswer(p)'
         /\ (\E i \in 1 .. Len(wire'[p]) : AnswerAt(p, i)') => \E i \in 1 .. Len(wire[p]) : AnswerAt(p, i)
         /\ (\A i, j \in 1 .. Len(wire[p]) : AnswerAt(p, i) /\ AnswerAt(p, j) => i = j)
              => \A i, j \in 1 .. Len(wire'[p]) : AnswerAt(p, i)' /\ AnswerAt(p, j)' => i = j
  <1>1. PICK d \in {0, 1} : \A i \in 1 .. Len(wire'[p]) :
                  AnswerAt(p, i)' => i + d \in 1 .. Len(wire[p]) /\ wire'[p][i] = wire[p][i + d]
    BY DEF AnswersLess
  <1>2. \A i \in 1 .. Len(wire'[p]) : AnswerAt(p, i)' => i + d \in 1 .. Len(wire[p]) /\ AnswerAt(p, i + d)
    BY <1>1 DEF AnswerAt
  <1>3. NoAnswer(p) => NoAnswer(p)'
    BY <1>2 DEF NoAnswer
  <1>4. \A i, j \in 1 .. Len(wire'[p]) : i + d = j + d => i = j
    OBVIOUS
  <1> QED BY <1>2, <1>3, <1>4

\* The numbers of a direction.
LEMMA DirTyped ==
  ASSUME IsoTyped, NEW p \in End, NEW e \in End
  PROVE  /\ Len(wire[e]) \in Nat /\ Len(wire[p]) \in Nat
         /\ link[p].tx_pos \in Nat /\ link[p].block_left \in Nat /\ link[p].tx_buf.len \in Nat
         /\ Len(link[e].rx_buf) \in Nat /\ link[e].rx_count \in Nat /\ link[e].rx_len \in Nat /\ Bs[e] \in Nat
         /\ link[e].rx = "idle" \/ link[e].rx = "receiving"
         /\ link[e].rx = "receiving" => Len(link[e].rx_buf) >= 1 /\ Len(link[e].rx_buf) < link[e].rx_len
         /\ Bs[e] # 0 => link[e].rx_count < Bs[e]
         /\ \A i \in 1 .. Len(wire[e]) : CfAt(e, i) => At(e, i) \in Nat
  <1>1. LinkTyped(p, link[p]) /\ LinkTyped(e, link[e]) /\ WireTyped(e) /\ WireTyped(p)
    BY DEF IsoTyped
  <1>2. Len(wire[e]) \in Nat /\ Len(wire[p]) \in Nat
    BY <1>1, SizesAre DEF WireTyped
  <1>3. link[p].tx_pos \in Nat /\ link[p].block_left \in Nat /\ link[p].tx_buf.len \in Nat
    BY <1>1, SizesAre, EndsAre DEF LinkTyped, TxTyped
  <1>4. RxTyped(e, link[e]) /\ MaxPayload[e] \in Nat /\ Bs[e] \in Nat
    BY <1>1, SizesAre DEF LinkTyped
  <1>5. Len(link[e].rx_buf) \in Nat
    BY <1>4, AppendIs, EmptyIs DEF RxTyped
  <1>6. \A i \in 1 .. Len(wire[e]) : CfAt(e, i) => At(e, i) \in Nat
    BY <1>1 DEF WireTyped, FrameTyped, Frames, CfAt, At, Pieces
  <1> QED BY <1>2, <1>3, <1>4, <1>5, <1>6 DEF RxTyped

\* Less is in flight and nothing else has changed.
LEMMA DirectionKept ==
  ASSUME IsoTyped, NEW p \in End, NEW e \in End, Direction(p, e),
         TxKept(p), RxKept(e), DataLess(e), AnswersLess(p)
  PROVE  Direction(p, e)'
  <1>1. InOrder(e)'
    BY DataLessIs DEF Direction
  <1>2. /\ Quiet(e) => Quiet(e)'
        /\ OnlyCf(e) => OnlyCf(e)'
        /\ NoAnswer(p) => NoAnswer(p)'
    BY DataLessIs, AnswersLessIs
  <1>3. Agree(p, e) => Agree(p, e)'
    BY DEF Agree, TxKept, RxKept, RxBufKept
  <1>4. FirstAwaits(p, e)'
    <2>1. SUFFICES ASSUME NEW i \in 1 .. Len(wire'[e]), FfAt(e, i)'
                   PROVE  /\ link'[p].tx = "wait_fc" /\ link'[p].tx_pos = 1 /\ wire'[e][i].len = link'[p].tx_buf.len /\ wire'[e][i].id = link'[p].tx_buf.id
                          /\ ~ link'[e].fc_send /\ ~ link'[e].fc_ovflw /\ NoAnswer(p)'
      BY DEF FirstAwaits
    <2>2. PICK j \in 1 .. Len(wire[e]) : FfAt(e, j) /\ wire'[e][i] = wire[e][j]
      BY <2>1, DataLessIs
    <2> QED BY <1>2, <2>2 DEF Direction, FirstAwaits, TxKept, RxKept
  <1>5. OwedAwaits(p, e)'
    BY <1>2, <1>3 DEF Direction, OwedAwaits, TxKept, RxKept, RxBufKept
  <1>6. RefusalAwaits(p, e)'
    BY <1>2 DEF Direction, RefusalAwaits, TxKept, RxKept, RxBufKept
  <1>7. AnswerAwaits(p, e)'
    <2>1. SUFFICES ASSUME NEW i \in 1 .. Len(wire'[p]), AnswerAt(p, i)'
                   PROVE  /\ link'[p].tx = "wait_fc" /\ Quiet(e)'
                          /\ link'[e].rx = "receiving" => Agree(p, e)'
                          /\ \A j \in 1 .. Len(wire'[p]) : AnswerAt(p, j)' => i = j
      BY DEF AnswerAwaits
    <2>2. PICK j \in 1 .. Len(wire[p]) : AnswerAt(p, j)
      BY <2>1, AnswersLessIs
    <2>3. \A j1, j2 \in 1 .. Len(wire[p]) : AnswerAt(p, j1) /\ AnswerAt(p, j2) => j1 = j2
      BY DEF Direction, AnswerAwaits
    <2>4. \A j1, j2 \in 1 .. Len(wire'[p]) : AnswerAt(p, j1)' /\ AnswerAt(p, j2)' => j1 = j2
      BY <2>3, AnswersLessIs
    <2> QED BY <1>2, <1>3, <2>1, <2>2, <2>4 DEF Direction, AnswerAwaits, TxKept, RxKept, RxBufKept
  <1>8. Granted(e)' = Granted(e)
    BY DEF Granted, RxKept, RxBufKept
  <1>9. BlockKept(p, e)'
    <2>1. SUFFICES ASSUME link'[e].rx = "receiving", NEW i \in 1 .. Len(wire'[e]), CfAt(e, i)'
                   PROVE  /\ At(e, i)' > Len(link'[e].rx_buf)
                          /\ Bs[e] # 0 => At(e, i)' <= Granted(e)'
                          /\ Bs[e] # 0 /\ At(e, i)' = Granted(e)' /\ At(e, i)' < link'[e].rx_len =>
                               /\ link'[p].tx = "wait_fc" /\ link'[p].tx_pos = At(e, i)' /\ link'[p].tx_buf.len = link'[e].rx_len /\ link'[p].tx_buf.id = link'[e].rx_buf[1][1]
                               /\ OnlyCf(e)'
      BY DEF BlockKept
    <2>2. PICK j \in 1 .. Len(wire[e]) : CfAt(e, j) /\ At(e, i)' = At(e, j)
      BY <2>1, DataLessIs
    <2> QED BY <1>2, <1>8, <2>1, <2>2 DEF Direction, BlockKept, TxKept, RxKept, RxBufKept
  <1>10. ClearKept(p, e)'
    <2>1. SUFFICES ASSUME link'[p].tx = "send_cf" PROVE ClearKept(p, e)'
      BY DEF ClearKept
    <2>2. link[p].tx = "send_cf"
      BY <2>1 DEF TxKept
    <2>3. \A i \in 1 .. Len(wire'[e]) : CfAt(e, i)' => At(e, i)' <= link'[p].tx_pos
      BY <2>2, DataLessIs DEF Direction, ClearKept, TxKept
    <2> QED BY <1>2, <1>8, <2>2, <2>3 DEF Direction, ClearKept, TxKept, RxKept, RxBufKept
  <1> QED BY <1>1, <1>4, <1>5, <1>6, <1>7, <1>9, <1>10 DEF Direction

\* A transmission ended, or has not begun, and nothing of it is awaited any more.
LEMMA SenderRests ==
  ASSUME IsoTyped, NEW p \in End, NEW e \in End, Direction(p, e),
         link'[p].tx \notin {"wait_fc", "send_cf"}, RxKept(e), DataLess(e),
         \A i \in 1 .. Len(wire'[e]) : ~ FfAt(e, i)',
         ~ link'[e].fc_send, ~ link'[e].fc_ovflw, NoAnswer(p)',
         link[p].tx = "wait_fc" => \A i \in 1 .. Len(wire'[e]) : ~ CfAt(e, i)'
  PROVE  Direction(p, e)'
  <1>1. InOrder(e)'
    BY DataLessIs DEF Direction
  <1>2. FirstAwaits(p, e)' /\ OwedAwaits(p, e)' /\ RefusalAwaits(p, e)' /\ AnswerAwaits(p, e)' /\ ClearKept(p, e)'
    BY DEF FirstAwaits, OwedAwaits, RefusalAwaits, AnswerAwaits, NoAnswer, ClearKept
  <1>3. Granted(e)' = Granted(e)
    BY DEF Granted, RxKept, RxBufKept
  <1>4. BlockKept(p, e)'
    <2>1. SUFFICES ASSUME link'[e].rx = "receiving", NEW i \in 1 .. Len(wire'[e]), CfAt(e, i)'
                   PROVE  /\ At(e, i)' > Len(link'[e].rx_buf)
                          /\ Bs[e] # 0 => At(e, i)' <= Granted(e)'
                          /\ Bs[e] # 0 /\ At(e, i)' < link'[e].rx_len => At(e, i)' # Granted(e)'
      BY DEF BlockKept
    <2>2. PICK j \in 1 .. Len(wire[e]) : CfAt(e, j) /\ At(e, i)' = At(e, j)
      BY <2>1, DataLessIs
    <2>3. link[p].tx # "wait_fc"
      BY <2>1
    <2> QED BY <1>3, <2>1, <2>2, <2>3 DEF Direction, BlockKept, RxKept, RxBufKept
  <1> QED BY <1>1, <1>2, <1>4 DEF Direction

\* A reception ended, and with it what it owed.
LEMMA ReceiverRests ==
  ASSUME IsoTyped, NEW p \in End, NEW e \in End, Direction(p, e),
         TxKept(p), DataLess(e), AnswersLess(p),
         link'[e].rx = "idle", ~ link'[e].fc_send, link'[e].fc_ovflw => link[e].fc_ovflw
  PROVE  Direction(p, e)'
  <1>1. InOrder(e)'
    BY DataLessIs DEF Direction
  <1>2. /\ Quiet(e) => Quiet(e)'
        /\ OnlyCf(e) => OnlyCf(e)'
        /\ NoAnswer(p) => NoAnswer(p)'
    BY DataLessIs, AnswersLessIs
  <1>3. FirstAwaits(p, e)'
    <2>1. SUFFICES ASSUME NEW i \in 1 .. Len(wire'[e]), FfAt(e, i)'
                   PROVE  /\ link'[p].tx = "wait_fc" /\ link'[p].tx_pos = 1 /\ wire'[e][i].len = link'[p].tx_buf.len /\ wire'[e][i].id = link'[p].tx_buf.id
                          /\ ~ link'[e].fc_send /\ ~ link'[e].fc_ovflw /\ NoAnswer(p)'
      BY DEF FirstAwaits
    <2>2. PICK j \in 1 .. Len(wire[e]) : FfAt(e, j) /\ wire'[e][i] = wire[e][j]
      BY <2>1, DataLessIs
    <2> QED BY <1>2, <2>2 DEF Direction, FirstAwaits, TxKept
  <1>4. OwedAwaits(p, e)' /\ BlockKept(p, e)'
    BY DEF OwedAwaits, BlockKept
  <1>5. RefusalAwaits(p, e)'
    BY <1>2 DEF Direction, RefusalAwaits, TxKept
  <1>6. AnswerAwaits(p, e)'
    <2>1. SUFFICES ASSUME NEW i \in 1 .. Len(wire'[p]), AnswerAt(p, i)'
                   PROVE  /\ link'[p].tx = "wait_fc" /\ Quiet(e)'
                          /\ \A j \in 1 .. Len(wire'[p]) : AnswerAt(p, j)' => i = j
      BY DEF AnswerAwaits
    <2>2. PICK j \in 1 .. Len(wire[p]) : AnswerAt(p, j)
      BY <2>1, AnswersLessIs
    <2>3. \A j1, j2 \in 1 .. Len(wire[p]) : AnswerAt(p, j1) /\ AnswerAt(p, j2) => j1 = j2
      BY DEF Direction, AnswerAwaits
    <2>4. \A j1, j2 \in 1 .. Len(wire'[p]) : AnswerAt(p, j1)' /\ AnswerAt(p, j2)' => j1 = j2
      BY <2>3, AnswersLessIs
    <2> QED BY <1>2, <2>1, <2>2, <2>4 DEF Direction, AnswerAwaits, TxKept
  <1>7. ClearKept(p, e)'
    <2>1. SUFFICES ASSUME link'[p].tx = "send_cf" PROVE ClearKept(p, e)'
      BY DEF ClearKept
    <2>2. link[p].tx = "send_cf"
      BY <2>1 DEF TxKept
    <2>3. \A i \in 1 .. Len(wire'[e]) : CfAt(e, i)' => At(e, i)' <= link'[p].tx_pos
      BY <2>2, DataLessIs DEF Direction, ClearKept, TxKept
    <2> QED BY <1>2, <2>2, <2>3 DEF Direction, ClearKept, TxKept
  <1> QED BY <1>1, <1>3, <1>4, <1>5, <1>6, <1>7 DEF Direction

\* The sender was cleared to send.
LEMMA SenderCleared ==
  ASSUME IsoTyped, NEW p \in End, NEW e \in End, Direction(p, e),
         link'[p].tx = "send_cf", link'[p].tx_pos = link[p].tx_pos, link'[p].tx_buf = link[p].tx_buf,
         link'[p].block_left = Bs[e],
         RxKept(e), DataLess(e), NoAnswer(p)',
         \E i \in 1 .. Len(wire[p]) : AnswerAt(p, i)
  PROVE  Direction(p, e)'
  <1>1. Quiet(e) /\ (link[e].rx = "receiving" => Agree(p, e)) /\ ~ NoAnswer(p)
    BY DEF Direction, AnswerAwaits, NoAnswer
  <1>2. Quiet(e)' /\ InOrder(e)'
    BY <1>1, DataLessIs DEF Direction
  <1>3. ~ link'[e].fc_send /\ ~ link'[e].fc_ovflw
    BY <1>1 DEF Direction, OwedAwaits, RefusalAwaits, RxKept
  <1>4. \A i : ~ FfAt(e, i)' /\ ~ CfAt(e, i)'
    BY <1>2 DEF Quiet, DataAt, FfAt, CfAt
  <1>5. FirstAwaits(p, e)' /\ OwedAwaits(p, e)' /\ RefusalAwaits(p, e)' /\ AnswerAwaits(p, e)' /\ BlockKept(p, e)'
    BY <1>3, <1>4 DEF FirstAwaits, OwedAwaits, RefusalAwaits, AnswerAwaits, NoAnswer, BlockKept
  <1>6. OnlyCf(e)'
    BY <1>2 DEF OnlyCf, Quiet
  <1>7. ASSUME link'[e].rx = "receiving"
        PROVE  /\ Len(link'[e].rx_buf) <= link'[p].tx_pos
               /\ Bs[e] # 0 => link'[p].tx_pos + link'[p].block_left = Granted(e)'
               /\ link'[e].rx_len = link'[p].tx_buf.len /\ link'[e].rx_buf[1][1] = link'[p].tx_buf.id
    <2>1. Agree(p, e)
      BY <1>1, <1>7 DEF RxKept, RxBufKept
    <2> QED BY <2>1, DirTyped DEF Agree, Granted, RxKept, RxBufKept
  <1>8. ClearKept(p, e)'
    BY <1>3, <1>4, <1>6, <1>7 DEF ClearKept
  <1> QED BY <1>2, <1>5, <1>8 DEF Direction

\* What stays, what is taken from a wire and what is put on one.
LEMMA SameEnd ==
  ASSUME NEW e, link'[e] = link[e]
  PROVE  RxKept(e) /\ TxKept(e)
  BY DEF RxKept, RxBufKept, TxKept

LEMMA SameWire ==
  ASSUME NEW e, wire'[e] = wire[e]
  PROVE  DataLess(e) /\ AnswersLess(e)
  <1>1. \A i \in 1 .. Len(wire'[e]) : i + 0 = i
    OBVIOUS
  <1>2. DataLess(e)
    BY <1>1 DEF DataLess, DataAt
  <1>3. AnswersLess(e)
    BY <1>1 DEF AnswersLess, AnswerAt
  <1> QED BY <1>2, <1>3

LEMMA HeadTaken ==
  ASSUME IsoTyped, NEW e \in End, wire[e] # <<>>, wire'[e] = Tail(wire[e])
  PROVE  /\ 1 \in 1 .. Len(wire[e]) /\ Head(wire[e]) = wire[e][1]
         /\ wire'[e] \in Seq(Frames) /\ Len(wire'[e]) = Len(wire[e]) - 1
         /\ \A i \in 1 .. Len(wire'[e]) : i + 1 \in 1 .. Len(wire[e]) /\ 1 < i + 1 /\ wire'[e][i] = wire[e][i + 1]
         /\ DataLess(e) /\ AnswersLess(e)
  <1>1. wire[e] \in Seq(Frames)
    BY DEF IsoTyped, WireTyped
  <1>2. /\ Len(wire[e]) \in Nat /\ Len(wire[e]) >= 1 /\ Head(wire[e]) = wire[e][1]
        /\ wire'[e] \in Seq(Frames) /\ Len(wire'[e]) = Len(wire[e]) - 1
        /\ \A i \in 1 .. Len(wire'[e]) : i + 1 \in 1 .. Len(wire[e]) /\ wire'[e][i] = wire[e][i + 1]
    BY <1>1, TailIs
  <1>3. DataLess(e)
    BY <1>2 DEF DataLess
  <1>4. AnswersLess(e)
    BY <1>2 DEF AnswersLess
  <1>5. \A i \in 1 .. Len(wire'[e]) : 1 < i + 1
    OBVIOUS
  <1>6. 1 \in 1 .. Len(wire[e])
    BY <1>2
  <1> QED BY <1>2, <1>3, <1>4, <1>5, <1>6

LEMMA FramePut ==
  ASSUME IsoTyped, NEW e \in End, NEW f \in Frames, wire'[e] = Append(wire[e], f)
  PROVE  /\ wire'[e] \in Seq(Frames) /\ Len(wire[e]) \in Nat /\ Len(wire'[e]) = Len(wire[e]) + 1
         /\ \A i \in 1 .. Len(wire[e]) : wire'[e][i] = wire[e][i]
         /\ wire'[e][Len(wire[e]) + 1] = f
         /\ \A i \in 1 .. Len(wire'[e]) : i \in 1 .. Len(wire[e]) \/ i = Len(wire[e]) + 1
         /\ f.type = "FC" => DataLess(e)
         /\ f.type # "FC" \/ f.status = "WAIT" => AnswersLess(e)
  <1>1. wire[e] \in Seq(Frames)
    BY DEF IsoTyped, WireTyped
  <1>2. /\ wire'[e] \in Seq(Frames) /\ Len(wire[e]) \in Nat /\ Len(wire'[e]) = Len(wire[e]) + 1
        /\ \A i \in 1 .. Len(wire[e]) : wire'[e][i] = wire[e][i]
        /\ wire'[e][Len(wire[e]) + 1] = f
        /\ \A i \in 1 .. Len(wire'[e]) : i \in 1 .. Len(wire[e]) \/ i = Len(wire[e]) + 1
    BY <1>1, AppendIs
  <1>3. \A i \in 1 .. Len(wire'[e]) : i + 0 = i
    OBVIOUS
  <1>4. ASSUME f.type = "FC" PROVE DataLess(e)
    <2>1. \A i \in 1 .. Len(wire'[e]) : DataAt(e, i)' => i \in 1 .. Len(wire[e])
      BY <1>2, <1>4 DEF DataAt
    <2> QED BY <1>2, <1>3, <2>1 DEF DataLess
  <1>5. ASSUME f.type # "FC" \/ f.status = "WAIT" PROVE AnswersLess(e)
    <2>1. \A i \in 1 .. Len(wire'[e]) : AnswerAt(e, i)' => i \in 1 .. Len(wire[e])
      BY <1>2, <1>5 DEF AnswerAt
    <2> QED BY <1>2, <1>3, <2>1 DEF AnswersLess
  <1> QED BY <1>2, <1>4, <1>5

\* A sender that waits for nothing: nothing is on its way to it, or owed.
LEMMA NothingAwaited ==
  ASSUME NEW p, NEW e, Direction(p, e), link[p].tx # "wait_fc"
  PROVE  /\ \A i \in 1 .. Len(wire[e]) : ~ FfAt(e, i)
         /\ ~ link[e].fc_send /\ ~ link[e].fc_ovflw /\ NoAnswer(p)
  BY DEF Direction, FirstAwaits, OwedAwaits, RefusalAwaits, AnswerAwaits, NoAnswer

\* A wire with data on it: nothing is owed for what is heard already.
LEMMA NothingOwed ==
  ASSUME NEW p, NEW e, Direction(p, e), ~ Quiet(e)
  PROVE  ~ link[e].fc_send /\ ~ link[e].fc_ovflw /\ NoAnswer(p)
  BY DEF Direction, OwedAwaits, RefusalAwaits, AnswerAwaits, NoAnswer

\* A first frame was heard: the answer is owed instead.
LEMMA FirstHeard ==
  ASSUME IsoTyped, NEW p \in End, NEW e \in End, Direction(p, e),
         wire[e] # <<>>, wire'[e] = Tail(wire[e]), FfAt(e, 1), HeardFirst(e, link[e], wire[e][1], link'[e]),
         TxKept(p), AnswersLess(p)
  PROVE  Direction(p, e)'
  <1>1. /\ 1 \in 1 .. Len(wire[e]) /\ DataLess(e)
        /\ \A i \in 1 .. Len(wire'[e]) : i + 1 \in 1 .. Len(wire[e]) /\ 1 < i + 1 /\ wire'[e][i] = wire[e][i + 1]
    BY HeadTaken
  <1>2. /\ link[p].tx = "wait_fc" /\ link[p].tx_pos = 1 /\ NoAnswer(p)
        /\ wire[e][1].len = link[p].tx_buf.len /\ wire[e][1].id = link[p].tx_buf.id
    BY <1>1 DEF Direction, FirstAwaits
  <1>3. Quiet(e)'
    <2>1. \A j \in 1 .. Len(wire[e]) : 1 < j => ~ DataAt(e, j)
      BY <1>1 DEF Direction, InOrder
    <2> QED BY <1>1, <2>1 DEF Quiet, DataAt
  <1>4. InOrder(e)' /\ NoAnswer(p)'
    BY <1>1, <1>2, DataLessIs, AnswersLessIs DEF Direction
  <1>5. \A i : ~ FfAt(e, i)' /\ ~ CfAt(e, i)'
    BY <1>3 DEF Quiet, DataAt, FfAt, CfAt
  <1>6. /\ link'[p].tx = "wait_fc" /\ link'[p].tx_pos = 1
        /\ wire[e][1].len = link'[p].tx_buf.len /\ wire[e][1].id = link'[p].tx_buf.id
    BY <1>2 DEF TxKept
  <1>7. FirstAwaits(p, e)' /\ AnswerAwaits(p, e)' /\ BlockKept(p, e)' /\ ClearKept(p, e)'
    BY <1>4, <1>5, <1>6 DEF FirstAwaits, AnswerAwaits, NoAnswer, BlockKept, ClearKept
  <1>8. OwedAwaits(p, e)' /\ RefusalAwaits(p, e)'
    BY <1>3, <1>4, <1>6 DEF HeardFirst, OwedAwaits, RefusalAwaits, Agree
  <1> QED BY <1>4, <1>7, <1>8 DEF Direction

\* The answer goes out.
LEMMA Answered ==
  ASSUME IsoTyped, NEW p \in End, NEW e \in End, Direction(p, e), NEW f \in Frames, f.type = "FC",
         wire'[e] = wire[e], wire'[p] = Append(wire[p], f), TxKept(p), RxBufKept(e),
         ~ link'[e].fc_send, ~ link'[e].fc_ovflw, link[e].fc_send \/ link[e].fc_ovflw
  PROVE  Direction(p, e)'
  <1>1. DataLess(e)
    BY SameWire
  <1>2. link[p].tx = "wait_fc" /\ Quiet(e) /\ NoAnswer(p) /\ (link[e].rx = "receiving" => Agree(p, e))
    BY DEF Direction, OwedAwaits, RefusalAwaits
  <1>3. InOrder(e)' /\ Quiet(e)'
    BY <1>1, <1>2, DataLessIs DEF Direction
  <1>4. link'[p].tx = "wait_fc" /\ (link'[e].rx = "receiving" => Agree(p, e)')
    BY <1>2 DEF TxKept, RxBufKept, Agree
  <1>5. \A i \in 1 .. Len(wire'[p]) : AnswerAt(p, i)' => i = Len(wire[p]) + 1
    BY <1>2, FramePut DEF NoAnswer, AnswerAt
  <1>6. AnswerAwaits(p, e)'
    <2>1. SUFFICES ASSUME NEW i \in 1 .. Len(wire'[p]), AnswerAt(p, i)'
                   PROVE  \A j \in 1 .. Len(wire'[p]) : AnswerAt(p, j)' => i = j
      BY <1>3, <1>4 DEF AnswerAwaits
    <2> QED BY <1>5, <2>1
  <1>7. \A i : ~ FfAt(e, i)' /\ ~ CfAt(e, i)'
    BY <1>3 DEF Quiet, DataAt, FfAt, CfAt
  <1>8. /\ FirstAwaits(p, e)' /\ OwedAwaits(p, e)' /\ RefusalAwaits(p, e)' /\ BlockKept(p, e)' /\ ClearKept(p, e)'
    BY <1>4, <1>7 DEF FirstAwaits, OwedAwaits, RefusalAwaits, BlockKept, ClearKept
  <1> QED BY <1>3, <1>6, <1>8 DEF Direction

\* One piece more, of a message that goes on.
Grown(e, l, r) ==
    /\ l.rx = "receiving" /\ r.rx = "receiving" /\ r.rx_len = l.rx_len /\ r.fc_ovflw = l.fc_ovflw
    /\ Len(r.rx_buf) = Len(l.rx_buf) + 1 /\ Len(r.rx_buf) < r.rx_len /\ r.rx_buf[1] = l.rx_buf[1]
    /\ \/ Bs[e] # 0 /\ l.rx_count + 1 >= Bs[e] /\ r.rx_count = 0 /\ r.rx_deadline = Unarmed /\ r.fc_send = TRUE
       \/ r.rx_count = l.rx_count + 1 /\ r.fc_send = l.fc_send

\* A consecutive frame was taken: the block goes on, or is through and its sender waits.
LEMMA PieceTaken ==
  ASSUME IsoTyped, NEW p \in End, NEW e \in End, Direction(p, e),
         wire[e] # <<>>, wire'[e] = Tail(wire[e]), CfAt(e, 1), TxKept(p), AnswersLess(p),
         Grown(e, link[e], link'[e])
  PROVE  Direction(p, e)'
  <1>1. /\ 1 \in 1 .. Len(wire[e]) /\ DataLess(e)
        /\ \A i \in 1 .. Len(wire'[e]) : i + 1 \in 1 .. Len(wire[e]) /\ 1 < i + 1 /\ wire'[e][i] = wire[e][i + 1]
    BY HeadTaken
  <1>g. /\ link[e].rx = "receiving" /\ link'[e].rx = "receiving" /\ link'[e].rx_len = link[e].rx_len
        /\ link'[e].fc_ovflw = link[e].fc_ovflw
        /\ Len(link'[e].rx_buf) = Len(link[e].rx_buf) + 1 /\ Len(link'[e].rx_buf) < link'[e].rx_len
        /\ link'[e].rx_buf[1] = link[e].rx_buf[1]
    BY DEF Grown
  <1>2. ~ Quiet(e)
    BY <1>1 DEF Quiet, DataAt, CfAt
  <1>3. ~ link[e].fc_send /\ ~ link'[e].fc_ovflw /\ NoAnswer(p)' /\ InOrder(e)'
    BY <1>g, <1>1, <1>2, NothingOwed, AnswersLessIs, DataLessIs DEF Direction
  <1>4. /\ Len(link[e].rx_buf) \in Nat /\ link[e].rx_count \in Nat /\ link[e].rx_len \in Nat /\ Bs[e] \in Nat
        /\ link[p].tx_pos \in Nat /\ link[p].block_left \in Nat
        /\ Bs[e] # 0 => link[e].rx_count < Bs[e]
        /\ \A i \in 1 .. Len(wire[e]) : CfAt(e, i) => At(e, i) \in Nat
    BY DirTyped
  <1>5. /\ At(e, 1) > Len(link[e].rx_buf) /\ At(e, 1) \in Nat
        /\ Bs[e] # 0 => At(e, 1) <= Granted(e)
        /\ Bs[e] # 0 /\ At(e, 1) = Granted(e) /\ At(e, 1) < link[e].rx_len =>
             /\ link[p].tx = "wait_fc" /\ link[p].tx_pos = At(e, 1) /\ link[p].tx_buf.len = link[e].rx_len
             /\ OnlyCf(e) /\ link[p].tx_buf.id = link[e].rx_buf[1][1]
    BY <1>g, <1>1, <1>4 DEF Direction, BlockKept
  <1>6. \A j \in 1 .. Len(wire[e]) : 1 < j /\ CfAt(e, j) => At(e, 1) < At(e, j)
    BY <1>1 DEF Direction, InOrder
  <1>7. (\A i \in 1 .. Len(wire'[e]) : FfAt(e, i)' => ~ link'[e].fc_send)
          => FirstAwaits(p, e)' /\ RefusalAwaits(p, e)' /\ AnswerAwaits(p, e)'
    <2>1. RefusalAwaits(p, e)' /\ AnswerAwaits(p, e)'
      BY <1>3 DEF RefusalAwaits, AnswerAwaits, NoAnswer
    <2>2. ASSUME NEW i \in 1 .. Len(wire'[e]), FfAt(e, i)'
          PROVE  link'[p].tx = "wait_fc" /\ link'[p].tx_pos = 1 /\ wire'[e][i].len = link'[p].tx_buf.len /\ wire'[e][i].id = link'[p].tx_buf.id
      <3>1. PICK j \in 1 .. Len(wire[e]) : FfAt(e, j) /\ wire'[e][i] = wire[e][j]
        BY <1>1, <2>2, DataLessIs
      <3> QED BY <3>1 DEF Direction, FirstAwaits, TxKept
    <2> QED BY <1>3, <2>1, <2>2 DEF FirstAwaits
  <1>8. CASE Bs[e] # 0 /\ link[e].rx_count + 1 >= Bs[e] /\ link'[e].rx_count = 0
             /\ link'[e].rx_deadline = Unarmed /\ link'[e].fc_send = TRUE
    <2>1. link[e].rx_count = Bs[e] - 1
      BY <1>4, <1>8
    <2>2. Granted(e) = Len(link[e].rx_buf) + 1
      BY <1>4, <2>1 DEF Granted
    <2>3. At(e, 1) = Granted(e) /\ At(e, 1) < link[e].rx_len
      BY <1>g, <1>4, <1>5, <1>8, <2>2
    <2>4. /\ link[p].tx = "wait_fc" /\ link[p].tx_pos = At(e, 1) /\ OnlyCf(e)
          /\ link[p].tx_buf.len = link[e].rx_len /\ link[p].tx_buf.id = link[e].rx_buf[1][1]
      BY <1>5, <1>8, <2>3
    <2>5. \A j \in 1 .. Len(wire[e]) : CfAt(e, j) => At(e, j) <= Granted(e)
      BY <1>g, <1>8 DEF Direction, BlockKept
    <2>6. \A j \in 1 .. Len(wire[e]) : 1 < j => ~ DataAt(e, j)
      <3>1. \A j \in 1 .. Len(wire[e]) : 1 < j => ~ CfAt(e, j)
        BY <1>4, <1>6, <2>2, <2>3, <2>5
      <3> QED BY <2>4, <3>1 DEF OnlyCf
    <2>7. Quiet(e)'
      BY <1>1, <2>6 DEF Quiet, DataAt
    <2>8. \A i : ~ FfAt(e, i)' /\ ~ CfAt(e, i)'
      BY <2>7 DEF Quiet, DataAt, FfAt, CfAt
    <2>9. Agree(p, e)' /\ link'[p].tx = "wait_fc"
      BY <1>g, <1>8, <2>2, <2>3, <2>4 DEF Agree, TxKept
    <2>10. OwedAwaits(p, e)'
      BY <1>g, <1>3, <1>8, <2>7, <2>9 DEF OwedAwaits
    <2>11. BlockKept(p, e)' /\ ClearKept(p, e)'
      BY <2>8, <2>9 DEF BlockKept, ClearKept
    <2> QED BY <1>3, <1>7, <2>8, <2>10, <2>11 DEF Direction
  <1>9. CASE link'[e].rx_count = link[e].rx_count + 1 /\ link'[e].fc_send = link[e].fc_send
    <2>1. ~ link'[e].fc_send /\ OwedAwaits(p, e)'
      BY <1>3, <1>9 DEF OwedAwaits
    <2>2. Granted(e)' = Granted(e)
      <3>1. Len(link'[e].rx_buf) + Bs[e] - link'[e].rx_count = Len(link[e].rx_buf) + Bs[e] - link[e].rx_count
        <4>1. PICK a, b, c : a = Len(link[e].rx_buf) /\ b = Bs[e] /\ c = link[e].rx_count
          OBVIOUS
        <4>2. Len(link'[e].rx_buf) = a + 1 /\ link'[e].rx_count = c + 1
          BY <1>g, <1>9, <4>1
        <4>3. a \in Nat /\ b \in Nat /\ c \in Nat
          BY <1>4, <4>1
        <4>4. a + 1 + b - (c + 1) = a + b - c
          BY <4>3
        <4> QED BY <4>1, <4>2, <4>4
      <3> QED BY <3>1 DEF Granted
    <2>3. OnlyCf(e) => OnlyCf(e)'
      BY <1>1, DataLessIs
    <2>4. BlockKept(p, e)'
      <3>1. SUFFICES ASSUME NEW i \in 1 .. Len(wire'[e]), CfAt(e, i)'
                     PROVE  /\ At(e, i)' > Len(link'[e].rx_buf)
                            /\ Bs[e] # 0 => At(e, i)' <= Granted(e)'
                            /\ Bs[e] # 0 /\ At(e, i)' = Granted(e)' /\ At(e, i)' < link'[e].rx_len =>
                                 /\ link'[p].tx = "wait_fc" /\ link'[p].tx_pos = At(e, i)' /\ link'[p].tx_buf.len = link'[e].rx_len /\ link'[p].tx_buf.id = link'[e].rx_buf[1][1]
                                 /\ OnlyCf(e)'
        BY DEF BlockKept
      <3>2. PICK j \in 1 .. Len(wire[e]) : j = i + 1 /\ 1 < j /\ CfAt(e, j) /\ At(e, i)' = At(e, j)
        BY <1>1, <3>1 DEF CfAt, At
      <3>3. At(e, 1) < At(e, j) /\ At(e, j) \in Nat
        BY <1>4, <1>6, <3>2
      <3>4. At(e, i)' > Len(link'[e].rx_buf)
        BY <1>g, <1>4, <1>5, <3>2, <3>3
      <3>5. /\ Bs[e] # 0 => At(e, j) <= Granted(e)
            /\ Bs[e] # 0 /\ At(e, j) = Granted(e) /\ At(e, j) < link[e].rx_len =>
                 /\ link[p].tx = "wait_fc" /\ link[p].tx_pos = At(e, j) /\ link[p].tx_buf.len = link[e].rx_len
                 /\ OnlyCf(e) /\ link[p].tx_buf.id = link[e].rx_buf[1][1]
        BY <1>g, <3>2 DEF Direction, BlockKept
      <3> QED BY <1>g, <2>2, <2>3, <3>2, <3>4, <3>5 DEF TxKept
    <2>5. ClearKept(p, e)'
      <3>1. SUFFICES ASSUME link'[p].tx = "send_cf" PROVE ClearKept(p, e)'
        BY DEF ClearKept
      <3>2. link[p].tx = "send_cf"
        BY <3>1 DEF TxKept
      <3>3. \A i \in 1 .. Len(wire'[e]) : CfAt(e, i)' => At(e, i)' <= link'[p].tx_pos
        BY <1>1, <3>2, DataLessIs DEF Direction, ClearKept, TxKept
      <3>4. At(e, 1) <= link[p].tx_pos
        BY <1>1, <3>2 DEF Direction, ClearKept
      <3>5. Len(link'[e].rx_buf) <= link'[p].tx_pos
        BY <1>g, <1>4, <1>5, <3>4 DEF TxKept
      <3>6. /\ OnlyCf(e)
            /\ Bs[e] # 0 => link[p].tx_pos + link[p].block_left = Granted(e)
            /\ link[e].rx_len = link[p].tx_buf.len /\ link[e].rx_buf[1][1] = link[p].tx_buf.id
        BY <1>g, <3>2 DEF Direction, ClearKept
      <3> QED BY <1>g, <1>3, <2>1, <2>2, <2>3, <3>3, <3>5, <3>6 DEF ClearKept, TxKept
    <2> QED BY <1>3, <1>7, <2>1, <2>4, <2>5 DEF Direction
  <1> QED BY <1>8, <1>9 DEF Grown

\* What a sender has put on the wire, or lost: at most one frame more.
OneMore(e) == \A i \in 1 .. Len(wire'[e]) : DataAt(e, i)' =>
                 (i \in 1 .. Len(wire[e]) /\ wire'[e][i] = wire[e][i]) \/ i = Len(wire[e]) + 1

\* A message starts: a single frame, or a first frame that is to be answered.
LEMMA MessageStarted ==
  ASSUME IsoTyped, NEW p \in End, NEW e \in End, Direction(p, e),
         link[p].tx \in {"send_sf", "send_ff"}, link'[p].tx \in {"idle", "wait_fc"},
         RxKept(e), AnswersLess(p), OneMore(e),
         \A i \in 1 .. Len(wire'[e]) : i = Len(wire[e]) + 1 =>
            /\ ~ CfAt(e, i)'
            /\ FfAt(e, i)' => link'[p].tx = "wait_fc" /\ link'[p].tx_pos = 1 /\ wire'[e][i].len = link'[p].tx_buf.len /\ wire'[e][i].id = link'[p].tx_buf.id
  PROVE  Direction(p, e)'
  <1>1. /\ \A i \in 1 .. Len(wire[e]) : ~ FfAt(e, i)
        /\ ~ link'[e].fc_send /\ ~ link'[e].fc_ovflw /\ NoAnswer(p)'
    BY NothingAwaited, AnswersLessIs DEF RxKept
  <1>2. \A i \in 1 .. Len(wire'[e]) : i \in 1 .. Len(wire[e]) /\ wire'[e][i] = wire[e][i] =>
            /\ CfAt(e, i)' <=> CfAt(e, i)
            /\ FfAt(e, i)' <=> FfAt(e, i)
            /\ DataAt(e, i)' <=> DataAt(e, i)
            /\ At(e, i)' = At(e, i)
    BY DEF DataAt, CfAt, FfAt, At
  <1>3. \A i : (CfAt(e, i)' \/ FfAt(e, i)' => DataAt(e, i)') /\ (DataAt(e, i)' => i \in 1 .. Len(wire'[e]))
    BY DEF DataAt, CfAt, FfAt
  <1>4. \A i \in 1 .. Len(wire'[e]) : CfAt(e, i)' => i \in 1 .. Len(wire[e]) /\ wire'[e][i] = wire[e][i] /\ CfAt(e, i)
    BY <1>2, <1>3 DEF OneMore
  <1>5. \A i \in 1 .. Len(wire'[e]) : FfAt(e, i)' => i = Len(wire[e]) + 1
    BY <1>1, <1>2, <1>3 DEF OneMore
  <1>6. Len(wire[e]) \in Nat
    BY DirTyped
  <1>7. InOrder(e)'
    <2>1. SUFFICES ASSUME NEW i \in 1 .. Len(wire'[e]), NEW j \in 1 .. Len(wire'[e]), i < j
                   PROVE  /\ CfAt(e, j)' => ~ FfAt(e, i)' /\ (DataAt(e, i)' => CfAt(e, i)')
                          /\ CfAt(e, i)' /\ CfAt(e, j)' => At(e, i)' < At(e, j)'
                          /\ FfAt(e, i)' => ~ DataAt(e, j)'
      BY DEF InOrder
    <2>2. ASSUME FfAt(e, i)' PROVE ~ DataAt(e, j)'
      <3>1. i = Len(wire[e]) + 1
        BY <1>5, <2>2
      <3>2. j \notin 1 .. Len(wire[e]) /\ j # Len(wire[e]) + 1
        BY <1>6, <2>1, <3>1
      <3> QED BY <3>2 DEF OneMore
    <2>3. ASSUME CfAt(e, j)', DataAt(e, i)' PROVE CfAt(e, i)' /\ At(e, i)' < At(e, j)'
      <3>1. j \in 1 .. Len(wire[e]) /\ CfAt(e, j) /\ At(e, j)' = At(e, j)
        BY <1>2, <1>4, <2>3
      <3>2. i \in 1 .. Len(wire[e])
        BY <1>6, <2>1, <3>1
      <3>3. i # Len(wire[e]) + 1
        BY <1>6, <3>2
      <3>4. wire'[e][i] = wire[e][i]
        BY <2>3, <3>3 DEF OneMore
      <3>5. DataAt(e, i) /\ At(e, i)' = At(e, i) /\ (CfAt(e, i)' <=> CfAt(e, i))
        BY <1>2, <2>3, <3>2, <3>4
      <3> QED BY <2>1, <3>1, <3>2, <3>5 DEF Direction, InOrder
    <2> QED BY <1>3, <2>2, <2>3
  <1>8. FirstAwaits(p, e)'
    BY <1>1, <1>5 DEF FirstAwaits
  <1>9. OwedAwaits(p, e)' /\ RefusalAwaits(p, e)' /\ AnswerAwaits(p, e)' /\ ClearKept(p, e)'
    BY <1>1 DEF OwedAwaits, RefusalAwaits, AnswerAwaits, NoAnswer, ClearKept
  <1>10. Granted(e)' = Granted(e)
    BY DEF Granted, RxKept, RxBufKept
  <1>11. BlockKept(p, e)'
    <2>1. SUFFICES ASSUME link'[e].rx = "receiving", NEW i \in 1 .. Len(wire'[e]), CfAt(e, i)'
                   PROVE  /\ At(e, i)' > Len(link'[e].rx_buf)
                          /\ Bs[e] # 0 => At(e, i)' <= Granted(e)'
                          /\ Bs[e] # 0 /\ At(e, i)' < link'[e].rx_len => At(e, i)' # Granted(e)'
      BY DEF BlockKept
    <2>2. i \in 1 .. Len(wire[e]) /\ CfAt(e, i) /\ At(e, i)' = At(e, i)
      BY <1>2, <1>4, <2>1
    <2>3. link[p].tx # "wait_fc"
      OBVIOUS
    <2> QED BY <1>10, <2>1, <2>2, <2>3 DEF Direction, BlockKept, RxKept, RxBufKept
  <1> QED BY <1>7, <1>8, <1>9, <1>11 DEF Direction

\* A consecutive frame goes out, or is lost: within the block, and the last of it waits.
LEMMA PieceSent ==
  ASSUME IsoTyped, NEW p \in End, NEW e \in End, e = Peer(p), Direction(p, e),
         link[p].tx = "send_cf", SentPiece(p, link[p], link'[p]),
         RxKept(e), AnswersLess(p), OneMore(e),
         \A i \in 1 .. Len(wire'[e]) : i = Len(wire[e]) + 1 => CfAt(e, i)' /\ At(e, i)' = link[p].tx_pos + 1
  PROVE  Direction(p, e)'
  <1>1. /\ OnlyCf(e) /\ ~ link'[e].fc_send /\ ~ link'[e].fc_ovflw /\ NoAnswer(p)'
        /\ \A i \in 1 .. Len(wire[e]) : CfAt(e, i) => At(e, i) <= link[p].tx_pos
    BY AnswersLessIs DEF Direction, ClearKept, RxKept
  <1>2. /\ Len(wire[e]) \in Nat /\ Len(link[e].rx_buf) \in Nat /\ link[e].rx_count \in Nat /\ link[e].rx_len \in Nat /\ Bs[e] \in Nat
        /\ link[p].tx_pos \in Nat /\ link[p].block_left \in Nat /\ link[p].tx_buf.len \in Nat
        /\ \A i \in 1 .. Len(wire[e]) : CfAt(e, i) => At(e, i) \in Nat
    BY DirTyped
  <1>3. Bs[e] # 0 => link[p].block_left >= 1
    BY DEF IsoTyped, LinkTyped, TxTyped
  <1>4. \A i \in 1 .. Len(wire'[e]) : i \in 1 .. Len(wire[e]) /\ wire'[e][i] = wire[e][i] =>
            /\ CfAt(e, i)' <=> CfAt(e, i)
            /\ FfAt(e, i)' <=> FfAt(e, i)
            /\ DataAt(e, i)' <=> DataAt(e, i)
            /\ At(e, i)' = At(e, i)
    BY DEF DataAt, CfAt, FfAt, At
  <1>5. \A i : (CfAt(e, i)' \/ FfAt(e, i)' => DataAt(e, i)') /\ (DataAt(e, i)' => i \in 1 .. Len(wire'[e]))
               /\ (FfAt(e, i)' => ~ CfAt(e, i)')
    BY DEF DataAt, CfAt, FfAt
  <1>6. \A i \in 1 .. Len(wire'[e]) : DataAt(e, i)' =>
            \/ i \in 1 .. Len(wire[e]) /\ CfAt(e, i)' /\ CfAt(e, i) /\ At(e, i)' = At(e, i) /\ At(e, i) <= link[p].tx_pos
            \/ i = Len(wire[e]) + 1 /\ CfAt(e, i)' /\ At(e, i)' = link[p].tx_pos + 1
    BY <1>1, <1>4 DEF OneMore, OnlyCf
  <1>7. OnlyCf(e)' /\ \A i : ~ FfAt(e, i)'
    BY <1>5, <1>6 DEF OnlyCf
  <1>8. InOrder(e)'
    <2>1. SUFFICES ASSUME NEW i \in 1 .. Len(wire'[e]), NEW j \in 1 .. Len(wire'[e]), i < j, DataAt(e, i)', CfAt(e, j)'
                   PROVE  CfAt(e, i)' /\ At(e, i)' < At(e, j)'
      BY <1>5, <1>7 DEF InOrder
    <2>2. DataAt(e, j)'
      BY <1>5, <2>1
    <2>3. CASE i \in 1 .. Len(wire[e]) /\ j \in 1 .. Len(wire[e])
      <3>1. CfAt(e, i)' /\ CfAt(e, i) /\ CfAt(e, j) /\ At(e, i)' = At(e, i) /\ At(e, j)' = At(e, j)
        BY <1>2, <1>6, <2>1, <2>2, <2>3
      <3> QED BY <2>1, <2>3, <3>1 DEF Direction, InOrder
    <2>4. CASE i \in 1 .. Len(wire[e]) /\ j = Len(wire[e]) + 1
      <3>1. CfAt(e, i)' /\ At(e, i)' = At(e, i) /\ At(e, i) <= link[p].tx_pos /\ At(e, i) \in Nat
        BY <1>2, <1>6, <2>1, <2>4
      <3>2. At(e, j)' = link[p].tx_pos + 1
        BY <1>2, <1>6, <2>2, <2>4
      <3> QED BY <1>2, <3>1, <3>2
    <2>5. ~ (i = Len(wire[e]) + 1)
      <3>1. j \in 1 .. Len(wire[e]) \/ j = Len(wire[e]) + 1
        BY <1>6, <2>2
      <3> QED BY <1>2, <2>1, <3>1
    <2> QED BY <1>6, <2>1, <2>2, <2>3, <2>4, <2>5
  <1>9. FirstAwaits(p, e)' /\ OwedAwaits(p, e)' /\ RefusalAwaits(p, e)' /\ AnswerAwaits(p, e)'
    BY <1>1, <1>7 DEF FirstAwaits, OwedAwaits, RefusalAwaits, AnswerAwaits, NoAnswer
  <1>10. Granted(e)' = Granted(e)
    BY DEF Granted, RxKept, RxBufKept
  <1>11. link[e].rx = "receiving" =>
            /\ Len(link[e].rx_buf) <= link[p].tx_pos
            /\ Bs[e] # 0 => link[p].tx_pos + link[p].block_left = Granted(e)
            /\ link[e].rx_len = link[p].tx_buf.len /\ link[e].rx_buf[1][1] = link[p].tx_buf.id
    BY DEF Direction, ClearKept
  <1>12. Granted(e) \in Int
    BY SMTT(30), <1>2 DEF Granted
  <1>13. BlockKept(p, e)'
    <2>1. SUFFICES ASSUME link'[e].rx = "receiving", NEW i \in 1 .. Len(wire'[e]), CfAt(e, i)'
                   PROVE  /\ At(e, i)' > Len(link'[e].rx_buf)
                          /\ Bs[e] # 0 => At(e, i)' <= Granted(e)'
                          /\ Bs[e] # 0 /\ At(e, i)' = Granted(e)' /\ At(e, i)' < link'[e].rx_len =>
                               /\ link'[p].tx = "wait_fc" /\ link'[p].tx_pos = At(e, i)' /\ link'[p].tx_buf.len = link'[e].rx_len /\ link'[p].tx_buf.id = link'[e].rx_buf[1][1]
                               /\ OnlyCf(e)'
      BY DEF BlockKept
    <2>2. link[e].rx = "receiving" /\ link'[e].rx_buf = link[e].rx_buf /\ link'[e].rx_len = link[e].rx_len
      BY <2>1 DEF RxKept, RxBufKept
    <2>3. CASE i \in 1 .. Len(wire[e]) /\ CfAt(e, i) /\ At(e, i)' = At(e, i) /\ At(e, i) <= link[p].tx_pos
      <3>1. At(e, i) > Len(link[e].rx_buf) /\ At(e, i) \in Nat
        BY <1>2, <2>2, <2>3 DEF Direction, BlockKept
      <3>2. Bs[e] # 0 => At(e, i) < Granted(e)
        BY <1>2, <1>3, <1>11, <1>12, <2>2, <2>3, <3>1
      <3> QED BY <1>10, <1>12, <2>2, <2>3, <3>1, <3>2
    <2>4. CASE At(e, i)' = link[p].tx_pos + 1
      <3>1. At(e, i)' > Len(link'[e].rx_buf)
        BY <1>2, <1>11, <2>2, <2>4
      <3>2. Bs[e] # 0 => At(e, i)' <= Granted(e)'
        BY <1>2, <1>3, <1>10, <1>11, <1>12, <2>2, <2>4
      <3>3. ASSUME Bs[e] # 0, At(e, i)' = Granted(e)', At(e, i)' < link'[e].rx_len
            PROVE  /\ link'[p].tx = "wait_fc" /\ link'[p].tx_pos = At(e, i)'
                   /\ link'[p].tx_buf.len = link'[e].rx_len /\ link'[p].tx_buf.id = link'[e].rx_buf[1][1]
        <4>1. /\ link[p].block_left = 1 /\ link[p].tx_pos + 1 < link[p].tx_buf.len
              /\ link[e].rx_len = link[p].tx_buf.len /\ link[e].rx_buf[1][1] = link[p].tx_buf.id
          BY <1>2, <1>3, <1>10, <1>11, <2>2, <2>4, <3>3
        <4>2. link'[p].tx = "wait_fc" /\ link'[p].tx_pos = link[p].tx_pos + 1 /\ link'[p].tx_buf = link[p].tx_buf
          BY <1>2, <3>3, <4>1 DEF SentPiece
        <4> QED BY <2>2, <2>4, <4>1, <4>2
      <3> QED BY <1>7, <3>1, <3>2, <3>3
    <2>5. DataAt(e, i)'
      BY <1>5, <2>1
    <2> QED BY <1>6, <2>3, <2>4, <2>5
  <1>14. ClearKept(p, e)'
    <2>1. SUFFICES ASSUME link'[p].tx = "send_cf" PROVE ClearKept(p, e)'
      BY DEF ClearKept
    <2>2. /\ link'[p].tx_pos = link[p].tx_pos + 1 /\ link'[p].tx_buf = link[p].tx_buf
          /\ Bs[e] # 0 => link'[p].block_left = link[p].block_left - 1
      BY <2>1 DEF SentPiece
    <2>3. ASSUME NEW i \in 1 .. Len(wire'[e]), CfAt(e, i)' PROVE At(e, i)' <= link'[p].tx_pos
      <3>1. DataAt(e, i)'
        BY <1>5, <2>3
      <3>2. CASE i \in 1 .. Len(wire[e]) /\ CfAt(e, i) /\ At(e, i)' = At(e, i) /\ At(e, i) <= link[p].tx_pos
        <4>1. At(e, i) \in Nat
          BY <1>2, <3>2
        <4> QED BY <1>2, <2>2, <3>2, <4>1
      <3>3. CASE At(e, i)' = link[p].tx_pos + 1
        BY <1>2, <2>2, <3>3
      <3> QED BY <1>6, <3>1, <3>2, <3>3
    <2>4. ASSUME link'[e].rx = "receiving"
          PROVE  /\ Len(link'[e].rx_buf) <= link'[p].tx_pos
                 /\ Bs[e] # 0 => link'[p].tx_pos + link'[p].block_left = Granted(e)'
                 /\ link'[e].rx_len = link'[p].tx_buf.len /\ link'[e].rx_buf[1][1] = link'[p].tx_buf.id
      <3>1. link[e].rx = "receiving" /\ link'[e].rx_buf = link[e].rx_buf /\ link'[e].rx_len = link[e].rx_len
        BY <2>4 DEF RxKept, RxBufKept
      <3>2. Len(link'[e].rx_buf) <= link'[p].tx_pos
        BY <1>2, <1>11, <2>2, <3>1
      <3>3. Bs[e] # 0 => link'[p].tx_pos + link'[p].block_left = Granted(e)'
        <4>1. PICK a, b : a = link[p].tx_pos /\ b = link[p].block_left
          OBVIOUS
        <4>2. link'[p].tx_pos = a + 1 /\ (Bs[e] # 0 => link'[p].block_left = b - 1)
          BY <2>2, <4>1
        <4>3. a \in Nat /\ b \in Nat
          BY <1>2, <4>1
        <4>4. a + 1 + (b - 1) = a + b
          BY <4>3
        <4>5. Bs[e] # 0 => a + b = Granted(e)
          BY <1>11, <3>1, <4>1
        <4> QED BY <1>10, <4>2, <4>4, <4>5
      <3> QED BY <1>11, <2>2, <3>1, <3>2, <3>3
    <2> QED BY <1>1, <1>7, <2>3, <2>4 DEF ClearKept
  <1> QED BY <1>8, <1>9, <1>13, <1>14 DEF Direction

\* The types after a step of one end, and what it leaves alone.
LEMMA LinkMoved ==
  ASSUME IsoTyped, NEW x \in End, NEW r, LinkTyped(x, r), link' = [link EXCEPT ![x] = r]
  PROVE  /\ link' = [e \in End |-> link'[e]] /\ \A e \in End : LinkTyped(e, link'[e])
         /\ link'[x] = r /\ link'[Peer(x)] = link[Peer(x)]
  <1>1. link = [e \in End |-> link[e]] /\ \A e \in End : LinkTyped(e, link[e])
    BY DEF IsoTyped
  <1>2. \A e \in End : link'[e] = IF e = x THEN r ELSE link[e]
    BY <1>1
  <1>3. link' = [e \in End |-> link'[e]]
    BY <1>1
  <1>4. link'[x] = r /\ link'[Peer(x)] = link[Peer(x)]
    BY <1>2, EndsAre
  <1>5. ASSUME NEW e \in End PROVE LinkTyped(e, link'[e])
    <2>1. CASE e = x
      BY <1>2, <2>1
    <2>2. CASE e # x
      BY <1>1, <1>2, <2>2
    <2> QED BY <2>1, <2>2
  <1> QED BY <1>3, <1>4, <1>5

LEMMA WireLeft ==
  ASSUME IsoTyped, UNCHANGED wire
  PROVE  wire' = [e \in End |-> wire'[e]] /\ \A e \in End : WireTyped(e)' /\ wire'[e] = wire[e]
  BY DEF IsoTyped, WireTyped

LEMMA WireTaken ==
  ASSUME IsoTyped, NEW x \in End, wire[x] # <<>>, wire' = [wire EXCEPT ![x] = Tail(@)]
  PROVE  /\ wire' = [e \in End |-> wire'[e]] /\ \A e \in End : WireTyped(e)'
         /\ wire'[x] = Tail(wire[x]) /\ wire'[Peer(x)] = wire[Peer(x)]
         /\ FrameTyped(x, Head(wire[x]))
  <1>1. wire = [e \in End |-> wire[e]] /\ \A e \in End : WireTyped(e)
    BY DEF IsoTyped
  <1>2. \A e \in End : wire'[e] = IF e = x THEN Tail(wire[x]) ELSE wire[e]
    BY <1>1
  <1>3. wire' = [e \in End |-> wire'[e]]
    BY <1>1
  <1>4. wire'[x] = Tail(wire[x]) /\ wire'[Peer(x)] = wire[Peer(x)]
    BY <1>2, EndsAre
  <1>5. /\ 1 \in 1 .. Len(wire[x]) /\ Head(wire[x]) = wire[x][1]
        /\ wire'[x] \in Seq(Frames) /\ Len(wire'[x]) = Len(wire[x]) - 1
        /\ \A i \in 1 .. Len(wire'[x]) : i + 1 \in 1 .. Len(wire[x]) /\ wire'[x][i] = wire[x][i + 1]
    BY <1>4, HeadTaken
  <1>6. FrameTyped(x, Head(wire[x]))
    BY <1>1, <1>5 DEF WireTyped
  <1>7. WireTyped(x)'
    <2>1. Len(wire[x]) \in 0 .. WireSize /\ WireSize \in Nat
      BY <1>1, SizesAre DEF WireTyped
    <2>2. Len(wire'[x]) \in 0 .. WireSize
      BY <1>5, <2>1
    <2>3. \A i \in 1 .. Len(wire'[x]) : FrameTyped(x, wire'[x][i])
      BY <1>1, <1>5 DEF WireTyped
    <2> QED BY <1>5, <2>2, <2>3 DEF WireTyped, FrameTyped
  <1>8. ASSUME NEW e \in End, e # x PROVE WireTyped(e)'
    BY <1>1, <1>2, <1>8 DEF WireTyped, FrameTyped
  <1> QED BY <1>3, <1>4, <1>6, <1>7, <1>8

LEMMA WirePut ==
  ASSUME IsoTyped, NEW y \in End, NEW f, FrameTyped(y, f), Len(wire[y]) < WireSize,
         wire' = [wire EXCEPT ![y] = Append(@, f)]
  PROVE  /\ wire' = [e \in End |-> wire'[e]] /\ \A e \in End : WireTyped(e)'
         /\ wire'[y] = Append(wire[y], f) /\ wire'[Peer(y)] = wire[Peer(y)]
         /\ f \in Frames
  <1>1. wire = [e \in End |-> wire[e]] /\ (\A e \in End : WireTyped(e)) /\ f \in Frames
    BY DEF IsoTyped, FrameTyped
  <1>2. \A e \in End : wire'[e] = IF e = y THEN Append(wire[y], f) ELSE wire[e]
    BY <1>1
  <1>3. wire' = [e \in End |-> wire'[e]]
    BY <1>1
  <1>4. wire'[y] = Append(wire[y], f) /\ wire'[Peer(y)] = wire[Peer(y)]
    BY <1>2, EndsAre
  <1>5. /\ wire'[y] \in Seq(Frames) /\ Len(wire[y]) \in Nat /\ Len(wire'[y]) = Len(wire[y]) + 1
        /\ \A i \in 1 .. Len(wire[y]) : wire'[y][i] = wire[y][i]
        /\ wire'[y][Len(wire[y]) + 1] = f
        /\ \A i \in 1 .. Len(wire'[y]) : i \in 1 .. Len(wire[y]) \/ i = Len(wire[y]) + 1
    BY <1>1, <1>4, FramePut
  <1>6. WireTyped(y)'
    <2>1. Len(wire'[y]) \in 0 .. WireSize
      BY <1>5, SizesAre
    <2>2. \A i \in 1 .. Len(wire'[y]) : FrameTyped(y, wire'[y][i])
      BY <1>1, <1>5 DEF WireTyped
    <2> QED BY <1>5, <2>1, <2>2 DEF WireTyped, FrameTyped
  <1>7. ASSUME NEW e \in End, e # y PROVE WireTyped(e)'
    BY <1>1, <1>2, <1>7 DEF WireTyped, FrameTyped
  <1> QED BY <1>1, <1>3, <1>4, <1>6, <1>7

\* What a step does to the owners' books and to the bounds.
Books ==
    /\ todo' = [e \in End |-> todo'[e]] /\ sent' = [e \in End |-> sent'[e]]
    /\ delivered' = [e \in End |-> delivered'[e]] /\ \A e \in End : Len(sent'[e]) \in Nat
Bounds == losses' \in 0 .. MaxLost /\ aborts' \in 0 .. MaxAborts

LEMMA BooksLeft ==
  ASSUME IsoTyped
  PROVE  /\ UNCHANGED <<todo, sent, delivered>> => Books
         /\ UNCHANGED <<losses, aborts>> => Bounds
         /\ losses < MaxLost /\ losses' = losses + 1 /\ UNCHANGED aborts => Bounds
         /\ aborts < MaxAborts /\ aborts' = aborts + 1 /\ UNCHANGED losses => Bounds
  <1>1. UNCHANGED <<todo, sent, delivered>> => Books
    BY DEF IsoTyped, Books
  <1>2. losses \in 0 .. MaxLost /\ aborts \in 0 .. MaxAborts /\ MaxLost \in Nat /\ MaxAborts \in Nat
    BY SizesAre DEF IsoTyped
  <1> QED BY <1>1, <1>2 DEF Bounds

LEMMA StaysTyped ==
  ASSUME Books, Bounds, link' = [e \in End |-> link'[e]], wire' = [e \in End |-> wire'[e]],
         \A e \in End : LinkTyped(e, link'[e]), \A e \in End : WireTyped(e)'
  PROVE  IsoTyped'
  BY DEF IsoTyped, Books, Bounds, LinkTyped, RxTyped, TxTyped, FlagsTyped, WireTyped

\* The invariant, end by end.
LEMMA EndByEnd ==
  ASSUME NEW x \in End
  PROVE  /\ IsoInv /\ ~ stale => Direction(x, Peer(x)) /\ Direction(Peer(x), x)
         /\ IsoTyped' /\ (~ stale' => Direction(x, Peer(x))' /\ Direction(Peer(x), x)') => IsoInv'
  <1>1. Peer(x) \in End /\ Peer(Peer(x)) = x /\ \A e \in End : e = x \/ e = Peer(x)
    BY EndsAre
  <1>2. IsoInv /\ ~ stale => Direction(x, Peer(x)) /\ Direction(Peer(x), x)
    BY <1>1 DEF IsoInv
  <1>3. ASSUME IsoTyped', ~ stale' => Direction(x, Peer(x))' /\ Direction(Peer(x), x)' PROVE IsoInv'
    <2>1. ASSUME ~ stale', NEW e \in End PROVE Direction(Peer(e), e)'
      <3>1. CASE e = x
        BY <1>3, <2>1, <3>1
      <3>2. CASE e = Peer(x)
        BY <1>1, <1>3, <2>1, <3>2
      <3> QED BY <1>1, <3>1, <3>2
    <2> QED BY <1>3, <2>1 DEF IsoInv
  <1> QED BY <1>2, <1>3

\* A transmission given up leaves nothing, as long as no flow control outlives it.
LEMMA SenderStops ==
  ASSUME IsoTyped, IsoTyped', NEW p \in End, NEW e \in End, e = Peer(p), Direction(p, e),
         link'[p].tx \notin {"wait_fc", "send_cf"}, RxKept(e), DataLess(e), AnswersLess(p),
         link[p].tx = "wait_fc" => link'[p].tx = "idle", ~ GivesUp(p)
  PROVE  Direction(p, e)'
  <1>1. CASE link[p].tx = "wait_fc"
    <2>1. ~ UnderWay(p)'
      BY <1>1 DEF GivesUp
    <2>2. wire'[e] \in Seq(Frames) /\ wire'[p] \in Seq(Frames)
      BY DEF IsoTyped, WireTyped
    <2>3. DOMAIN wire'[e] = 1 .. Len(wire'[e]) /\ DOMAIN wire'[p] = 1 .. Len(wire'[p])
      BY <2>2
    <2>4. /\ \A i \in 1 .. Len(wire'[e]) : ~ FfAt(e, i)' /\ ~ CfAt(e, i)'
          /\ ~ link'[e].fc_send /\ ~ link'[e].fc_ovflw /\ NoAnswer(p)'
      BY <2>1, <2>3 DEF UnderWay, FfAt, CfAt, NoAnswer, AnswerAt
    <2> QED BY <2>4, SenderRests
  <1>2. CASE link[p].tx # "wait_fc"
    <2>1. /\ \A i \in 1 .. Len(wire[e]) : ~ FfAt(e, i)
          /\ ~ link'[e].fc_send /\ ~ link'[e].fc_ovflw /\ NoAnswer(p)'
      BY <1>2, NothingAwaited, AnswersLessIs DEF RxKept
    <2>2. \A i \in 1 .. Len(wire'[e]) : ~ FfAt(e, i)'
      BY <2>1, DataLessIs
    <2> QED BY <1>2, <2>1, <2>2, SenderRests
  <1> QED BY <1>1, <1>2

LEMMA IsoStarts ==
  ASSUME IsoInit
  PROVE  IsoInv
  <1>1. \A e \in End : link[e] = IdleLink /\ wire[e] = <<>>
    BY DEF IsoInit
  <1>2. PICK l : l = IdleLink
    OBVIOUS
  <1>3. /\ Record(l) /\ l.ready = FALSE /\ FlagsTyped(l) /\ ~ l.fc_send /\ ~ l.fc_ovflw
        /\ l.rx = "idle" /\ l.rx_buf = <<>> /\ l.rx_len = 0 /\ l.rx_sn = 0 /\ l.rx_count = 0 /\ l.rx_deadline = Unarmed
        /\ l.tx = "idle" /\ l.tx_buf = NoMessage /\ l.tx_pos = 0 /\ l.tx_sn = 0 /\ l.peer_bs = 0 /\ l.block_left = 0
        /\ l.fc_deadline = 0 /\ l.wft_count = 0
    BY <1>2 DEF IdleLink, Record, LinkFields, FlagsTyped
  <1>4. \A e \in End : LinkTyped(e, l)
    BY <1>3, RxOverTyped, TxOverTyped DEF LinkTyped, Record
  <1>5. <<>> \in Seq(Frames) /\ Len(<<>>) = 0
    OBVIOUS
  <1>6. ASSUME NEW e \in End PROVE WireTyped(e)
    <2>1. PICK w : w = wire[e]
      OBVIOUS
    <2>2. w \in Seq(Frames) /\ Len(w) = 0
      BY <1>1, <1>5, <2>1
    <2>3. Len(w) \in 0 .. WireSize /\ \A i \in 1 .. Len(w) : FALSE
      BY <2>2, SizesAre
    <2> QED BY <2>1, <2>2, <2>3 DEF WireTyped
  <1>7. todo = [e \in End |-> todo[e]]
    BY IsoTpAssumption DEF IsoInit
  <1>8. /\ link = [e \in End |-> link[e]] /\ wire = [e \in End |-> wire[e]]
        /\ sent = [e \in End |-> sent[e]] /\ delivered = [e \in End |-> delivered[e]]
        /\ \A e \in End : Len(sent[e]) \in Nat
    BY <1>5 DEF IsoInit
  <1>9. losses \in 0 .. MaxLost /\ aborts \in 0 .. MaxAborts
    BY SizesAre DEF IsoInit
  <1>10. IsoTyped
    BY <1>1, <1>2, <1>4, <1>6, <1>7, <1>8, <1>9 DEF IsoTyped
  <1>11. ASSUME NEW e \in End PROVE Direction(Peer(e), e)
    <2>1. Peer(e) \in End
      BY EndsAre
    <2>2. /\ \A d \in End : link[d].tx = "idle" /\ link[d].rx = "idle" /\ ~ link[d].fc_send /\ ~ link[d].fc_ovflw
          /\ \A d \in End : Len(wire[d]) = 0
      BY <1>1, <1>2, <1>3, <1>5
    <2>3. \A i : ~ CfAt(e, i) /\ ~ FfAt(e, i) /\ ~ DataAt(e, i) /\ ~ AnswerAt(Peer(e), i)
      BY <2>1, <2>2 DEF CfAt, FfAt, DataAt, AnswerAt
    <2> QED BY <2>1, <2>2, <2>3
            DEF Direction, InOrder, FirstAwaits, OwedAwaits, RefusalAwaits, AnswerAwaits, BlockKept, ClearKept
  <1> QED BY <1>10, <1>11 DEF IsoInv

LEMMA HalfKept ==
  ASSUME NEW x
  PROVE  /\ SameRx(link'[x], link[x]) /\ SameFlags(link'[x], link[x]) => RxKept(x)
         /\ SameTx(link'[x], link[x]) => TxKept(x)
  BY DEF SameRx, SameTx, SameFlags, RxKept, RxBufKept, TxKept

\* One action after the other.
LEMMA SendKeeps ==
  ASSUME IsoInv, NEW x \in End, NEW n \in Lengths, Send(x, n)
  PROVE  IsoInv'
  <1>1. IsoTyped /\ LinkTyped(x, link[x]) /\ link = [e \in End |-> link[e]] /\ Len(sent[x]) \in Nat
    BY DEF IsoInv, IsoTyped
  <1>2. PICK l, i : l = link[x] /\ i = Len(sent[x]) + 1
    OBVIOUS
  <1>3. PICK r : r = [l EXCEPT !.tx = IF n = 1 THEN "send_sf" ELSE "send_ff", !.tx_buf = [id |-> i, len |-> n]]
    OBVIOUS
  <1>4. link' = [link EXCEPT ![x] = r] /\ l.tx = "idle"
    BY <1>1, <1>2, <1>3 DEF Send
  <1>5. Record(l) /\ l.ready = FALSE /\ FlagsTyped(l) /\ RxTyped(x, l) /\ TxTyped(x, l)
    BY <1>1, <1>2 DEF LinkTyped, Record
  <1>6. /\ Record(r) /\ SameRx(r, l) /\ SameFlags(r, l) /\ r.ready = FALSE
        /\ r.tx = (IF n = 1 THEN "send_sf" ELSE "send_ff") /\ r.tx_buf = [id |-> i, len |-> n]
        /\ r.tx_pos = l.tx_pos /\ r.tx_sn = l.tx_sn /\ r.wft_count = l.wft_count
        /\ r.block_left = l.block_left /\ r.fc_deadline = l.fc_deadline
    BY <1>3, <1>5 DEF Record, LinkFields, SameRx, SameFlags
  <1>7. n \in Nat /\ n >= 1 /\ i \in Nat
    BY <1>1, <1>2, SizesAre
  <1>8. r.tx \in {"send_sf", "send_ff"} /\ (r.tx = "send_ff" => n >= 2)
    BY <1>6, <1>7
  <1>9. TxTyped(x, r)
    BY <1>5, <1>6, <1>7, <1>8 DEF TxTyped
  <1>10. LinkTyped(x, r)
    BY <1>5, <1>6, <1>9, SameTyped DEF LinkTyped, Record
  <1>11. /\ link' = [e \in End |-> link'[e]] /\ \A e \in End : LinkTyped(e, link'[e])
         /\ link'[x] = r /\ link'[Peer(x)] = link[Peer(x)]
    BY <1>1, <1>4, <1>10, LinkMoved
  <1>12. Books
    <2>1. /\ todo' = [todo EXCEPT ![x] = @ - 1] /\ sent' = [sent EXCEPT ![x] = Append(@, n)] /\ delivered' = delivered
          /\ todo = [e \in End |-> todo[e]] /\ sent = [e \in End |-> sent[e]] /\ delivered = [e \in End |-> delivered[e]]
          /\ \A e \in End : Len(sent[e]) \in Nat
      BY <1>1 DEF Send, IsoTyped
    <2>2. Len(Append(sent[x], n)) \in Nat
      BY <1>1
    <2>3. \A e \in End : Len(sent'[e]) \in Nat
      BY <2>1, <2>2
    <2> QED BY <2>1, <2>3 DEF Books
  <1>13. UNCHANGED wire /\ Bounds /\ stale' = stale
    BY <1>1, BooksLeft DEF Send
  <1>14. /\ wire' = [e \in End |-> wire'[e]] /\ \A e \in End : WireTyped(e)' /\ wire'[e] = wire[e]
    BY <1>1, <1>13, WireLeft
  <1>15. IsoTyped'
    BY <1>11, <1>12, <1>13, <1>14, StaysTyped
  <1>16. Peer(x) \in End /\ Peer(Peer(x)) = x
    BY EndsAre
  <1>17. ASSUME ~ stale' PROVE Direction(x, Peer(x))' /\ Direction(Peer(x), x)'
    <2>1. Direction(x, Peer(x)) /\ Direction(Peer(x), x)
      BY <1>13, <1>17, EndByEnd
    <2>2. /\ DataLess(x) /\ AnswersLess(x) /\ DataLess(Peer(x)) /\ AnswersLess(Peer(x))
          /\ RxKept(Peer(x)) /\ TxKept(Peer(x)) /\ RxKept(x)
      BY <1>2, <1>6, <1>11, <1>14, <1>16, SameWire, SameEnd, HalfKept
    <2>3. Direction(x, Peer(x))'
      BY <1>1, <1>2, <1>4, <1>8, <1>11, <1>15, <1>16, <2>1, <2>2, SenderStops DEF GivesUp
    <2>4. Direction(Peer(x), x)'
      BY <1>1, <1>16, <2>1, <2>2, DirectionKept
    <2> QED BY <2>3, <2>4
  <1> QED BY <1>15, <1>17, EndByEnd

LEMMA ReceiveKeeps ==
  ASSUME IsoInv, NEW x \in End, Receive(x)
  PROVE  IsoInv'
  <1>1. IsoTyped /\ LinkTyped(x, link[x]) /\ link = [e \in End |-> link[e]] /\ wire[x] # <<>>
    BY DEF IsoInv, IsoTyped, Receive
  <1>2. PICK l, f, o : l = link[x] /\ f = Head(wire[x]) /\ o = OnFrame(x, link[x], Head(wire[x]))
    OBVIOUS
  <1>3. PICK r : r = IF o.ready THEN [o EXCEPT !.ready = FALSE, !.rx_buf = <<>>] ELSE o
    OBVIOUS
  <1>4. link' = [link EXCEPT ![x] = r] /\ wire' = [wire EXCEPT ![x] = Tail(@)]
    BY <1>2, <1>3 DEF Receive
  <1>5. /\ wire' = [e \in End |-> wire'[e]] /\ \A e \in End : WireTyped(e)'
        /\ wire'[x] = Tail(wire[x]) /\ wire'[Peer(x)] = wire[Peer(x)] /\ FrameTyped(x, f)
    BY <1>1, <1>2, <1>4, WireTaken
  <1>6. Heard(x, l, f, r)
    BY <1>1, <1>2, <1>3, <1>5, HeardIs
  <1>7. LinkTyped(x, r)
    BY <1>6 DEF Heard
  <1>8. /\ link' = [e \in End |-> link'[e]] /\ \A e \in End : LinkTyped(e, link'[e])
        /\ link'[x] = r /\ link'[Peer(x)] = link[Peer(x)]
    BY <1>1, <1>4, <1>7, LinkMoved
  <1>9. Books
    <2>1. /\ todo' = todo /\ sent' = sent
          /\ delivered' = [delivered EXCEPT ![x] = IF o.ready /\ o.tx = "idle" THEN Append(@, o.rx_buf) ELSE @]
      BY <1>2 DEF Receive
    <2>2. /\ todo = [e \in End |-> todo[e]] /\ sent = [e \in End |-> sent[e]] /\ delivered = [e \in End |-> delivered[e]]
          /\ \A e \in End : Len(sent[e]) \in Nat
      BY <1>1 DEF IsoTyped
    <2>3. delivered' = [e \in End |-> delivered'[e]]
      BY <2>1, <2>2
    <2> QED BY <2>1, <2>2, <2>3 DEF Books
  <1>10. Bounds
    BY <1>1, BooksLeft DEF Receive
  <1>11. IsoTyped'
    BY <1>5, <1>8, <1>9, <1>10, StaysTyped
  <1>12. Peer(x) \in End /\ Peer(Peer(x)) = x
    BY EndsAre
  <1>13. /\ 1 \in 1 .. Len(wire[x]) /\ f = wire[x][1] /\ DataLess(x) /\ AnswersLess(x)
         /\ \A i \in 1 .. Len(wire'[x]) : i + 1 \in 1 .. Len(wire[x]) /\ 1 < i + 1 /\ wire'[x][i] = wire[x][i + 1]
    BY <1>1, <1>2, <1>5, HeadTaken
  <1>14. DataLess(Peer(x)) /\ AnswersLess(Peer(x)) /\ RxKept(Peer(x)) /\ TxKept(Peer(x))
    BY <1>5, <1>8, SameWire, SameEnd
  <1>15. SameTx(r, l) => TxKept(x)
    BY <1>2, <1>8, HalfKept
  <1>16. SameRx(r, l) /\ SameFlags(r, l) => RxKept(x)
    BY <1>2, <1>8, HalfKept
  <1>17. ASSUME ~ stale' PROVE Direction(x, Peer(x))' /\ Direction(Peer(x), x)'
    <2>1. ~ stale /\ ~ GivesUp(x)
      BY <1>17 DEF Receive, Orphans
    <2>2. Direction(x, Peer(x)) /\ Direction(Peer(x), x)
      BY <2>1, EndByEnd
    <2>3. ASSUME TxKept(x) PROVE Direction(x, Peer(x))'
      BY <1>1, <1>12, <1>13, <1>14, <2>2, <2>3, DirectionKept
    <2>4. ASSUME RxKept(x) PROVE Direction(Peer(x), x)'
      BY <1>1, <1>12, <1>13, <1>14, <2>2, <2>4, DirectionKept
    <2>5. ASSUME r.rx = "idle", ~ r.fc_send, r.fc_ovflw => l.fc_ovflw PROVE Direction(Peer(x), x)'
      BY <1>1, <1>2, <1>8, <1>12, <1>13, <1>14, <2>2, <2>5, ReceiverRests
    <2>6. CASE f.type = "SF" /\ HeardSf(l, r)
      BY <1>15, <2>3, <2>5, <2>6 DEF HeardSf
    <2>7. CASE f.type = "FF" /\ HeardFirst(x, l, f, r)
      <3>1. FfAt(x, 1) /\ HeardFirst(x, link[x], wire[x][1], link'[x])
        BY <1>2, <1>8, <1>13, <2>7 DEF FfAt
      <3>2. Direction(Peer(x), x)'
        BY <1>1, <1>5, <1>12, <1>14, <2>2, <3>1, FirstHeard
      <3> QED BY <1>15, <2>3, <2>7, <3>2 DEF HeardFirst
    <2>8. CASE f.type = "CF" /\ HeardCf(x, l, r)
      <3>1. CfAt(x, 1)
        BY <1>13, <2>8 DEF CfAt
      <3>2. ~ l.fc_send /\ ~ l.fc_ovflw
        <4>1. ~ Quiet(x)
          BY <1>13, <3>1 DEF Quiet, DataAt, CfAt
        <4> QED BY <1>2, <2>2, <4>1, NothingOwed
      <3>3. SameTx(r, l) /\ r.fc_ovflw = l.fc_ovflw /\ (r = l \/ (r.rx = "idle" /\ ~ r.fc_send) \/ Grown(x, l, r))
        BY <2>8, <3>2 DEF HeardCf, Grown
      <3>4. CASE r = l
        <4>1. RxKept(x)
          BY <1>2, <1>8, <3>4, SameEnd
        <4> QED BY <1>15, <2>3, <2>4, <3>3, <4>1
      <3>5. CASE r.rx = "idle" /\ ~ r.fc_send
        BY <1>15, <2>3, <2>5, <3>3, <3>5
      <3>6. CASE Grown(x, l, r)
        <4>1. Direction(Peer(x), x)'
          BY <1>1, <1>2, <1>5, <1>8, <1>12, <1>14, <2>2, <3>1, <3>6, PieceTaken
        <4> QED BY <1>15, <2>3, <3>3, <4>1
      <3> QED BY <3>3, <3>4, <3>5, <3>6
    <2>9. CASE f.type = "FC" /\ HeardFlow(x, l, f, r)
      <3>1. Direction(Peer(x), x)'
        BY <1>16, <2>4, <2>9 DEF HeardFlow
      <3>2. CASE r = l
        BY <1>2, <1>8, <2>3, <3>1, <3>2, SameEnd
      <3>3. CASE r.tx = "idle" /\ l.tx = "wait_fc"
        <4>1. link'[x].tx = "idle"
          BY <1>8, <3>3
        <4> QED BY <1>1, <1>11, <1>12, <1>13, <1>14, <2>1, <2>2, <3>1, <4>1, SenderStops
      <3>4. CASE /\ f.status = "CTS" /\ r.tx = "send_cf"
                 /\ r.tx_pos = l.tx_pos /\ r.tx_buf = l.tx_buf /\ r.block_left = Bs[Peer(x)]
        <4>1. AnswerAt(x, 1)
          BY <1>13, <2>9, <3>4 DEF AnswerAt
        <4>2. \A j \in 1 .. Len(wire[x]) : AnswerAt(x, j) => 1 = j
          BY <1>13, <2>2, <4>1 DEF Direction, AnswerAwaits
        <4>3. NoAnswer(x)'
          <5>1. \A j \in 1 .. Len(wire[x]) : 1 < j => ~ AnswerAt(x, j)
            BY <4>2
          <5> QED BY <1>13, <5>1 DEF NoAnswer, AnswerAt
        <4>4. /\ link'[x].tx = "send_cf" /\ link'[x].tx_pos = link[x].tx_pos /\ link'[x].tx_buf = link[x].tx_buf
              /\ link'[x].block_left = Bs[Peer(x)]
          BY <1>2, <1>8, <3>4
        <4> QED BY <1>1, <1>12, <1>13, <1>14, <2>2, <3>1, <4>1, <4>3, <4>4, SenderCleared
      <3>5. CASE l.tx = "wait_fc" /\ r.tx = "wait_fc" /\ r.tx_pos = l.tx_pos /\ r.tx_buf = l.tx_buf /\ r.block_left = l.block_left
        BY <1>2, <1>8, <2>3, <3>1, <3>5 DEF TxKept
      <3> QED BY <2>9, <3>2, <3>3, <3>4, <3>5 DEF HeardFlow
    <2> QED BY <1>6, <2>6, <2>7, <2>8, <2>9 DEF Heard
  <1> QED BY <1>11, <1>17, EndByEnd

LEMMA PollKeeps ==
  ASSUME IsoInv, NEW x \in End, Poll(x)
  PROVE  IsoInv'
  <1>1. IsoTyped /\ LinkTyped(x, link[x]) /\ link = [e \in End |-> link[e]] /\ HasFrame(link[x]) /\ Len(wire[Peer(x)]) < WireSize
    BY DEF IsoInv, IsoTyped, Poll, PollReady
  <1>2. PICK l, f, r : l = link[x] /\ f = PollFrame(x, link[x]) /\ r = AfterPoll(link[x])
    OBVIOUS
  <1>3. link' = [link EXCEPT ![x] = r] /\ wire' = [wire EXCEPT ![Peer(x)] = Append(@, f)] /\ stale' = stale
    BY <1>2 DEF Poll
  <1>4. Peer(x) \in End /\ Peer(Peer(x)) = x
    BY EndsAre
  <1>5. PolledFrame(x, l, f) /\ Polled(x, l, r)
    BY <1>1, <1>2, PollFrameIs, AfterPollIs
  <1>6. /\ link' = [e \in End |-> link'[e]] /\ \A e \in End : LinkTyped(e, link'[e])
        /\ link'[x] = r /\ link'[Peer(x)] = link[Peer(x)]
    <2>1. LinkTyped(x, r)
      BY <1>5 DEF Polled
    <2> QED BY <1>1, <1>3, <2>1, LinkMoved
  <1>7. /\ wire' = [e \in End |-> wire'[e]] /\ \A e \in End : WireTyped(e)'
        /\ wire'[Peer(x)] = Append(wire[Peer(x)], f) /\ wire'[x] = wire[x] /\ f \in Frames
    <2>1. FrameTyped(Peer(x), f)
      BY <1>5 DEF PolledFrame
    <2> QED BY <1>1, <1>3, <1>4, <2>1, WirePut
  <1>8. Books /\ Bounds
    BY <1>1, BooksLeft DEF Poll
  <1>9. IsoTyped'
    BY <1>6, <1>7, <1>8, StaysTyped
  <1>10. /\ Len(wire[Peer(x)]) \in Nat /\ Len(wire'[Peer(x)]) = Len(wire[Peer(x)]) + 1
         /\ \A i \in 1 .. Len(wire[Peer(x)]) : wire'[Peer(x)][i] = wire[Peer(x)][i]
         /\ wire'[Peer(x)][Len(wire[Peer(x)]) + 1] = f
         /\ \A i \in 1 .. Len(wire'[Peer(x)]) : i \in 1 .. Len(wire[Peer(x)]) \/ i = Len(wire[Peer(x)]) + 1
         /\ f.type = "FC" => DataLess(Peer(x))
         /\ f.type # "FC" \/ f.status = "WAIT" => AnswersLess(Peer(x))
    BY <1>1, <1>4, <1>7, FramePut
  <1>11. OneMore(Peer(x))
    BY <1>10 DEF OneMore
  <1>12. DataLess(x) /\ AnswersLess(x) /\ RxKept(Peer(x)) /\ TxKept(Peer(x))
    BY <1>6, <1>7, SameWire, SameEnd
  <1>13. (SameTx(r, l) => TxKept(x)) /\ (SameRx(r, l) /\ SameFlags(r, l) => RxKept(x))
    BY <1>2, <1>6, HalfKept
  <1>14. ASSUME ~ stale' PROVE Direction(x, Peer(x))' /\ Direction(Peer(x), x)'
    <2>1. Direction(x, Peer(x)) /\ Direction(Peer(x), x)
      BY <1>3, <1>14, EndByEnd
    <2>2. CASE l.fc_ovflw \/ l.fc_send
      <3>1. f.type = "FC"
        BY <1>5, <2>2 DEF PolledFrame
      <3>2. SameTx(r, l) /\ r.rx = l.rx /\ r.rx_buf = l.rx_buf /\ r.rx_len = l.rx_len /\ r.rx_count = l.rx_count
        BY <1>5, <2>2 DEF Polled, PolledRefusal, PolledClear, PolledSingle, PolledFirst, PolledPiece, SameRx
      <3>3. ~ r.fc_send /\ ~ r.fc_ovflw
        <4>1. l.fc_send => ~ l.fc_ovflw
          BY <1>2, <2>1 DEF Direction, OwedAwaits
        <4> QED BY <1>5, <2>2, <4>1 DEF Polled, PolledRefusal, PolledClear, PolledSingle, PolledFirst, PolledPiece
      <3>4. RxBufKept(x)
        BY <1>2, <1>6, <3>2 DEF RxBufKept
      <3>5. Direction(x, Peer(x))'
        BY <1>1, <1>4, <1>10, <1>12, <1>13, <2>1, <3>1, <3>2, DirectionKept
      <3>6. ~ link'[x].fc_send /\ ~ link'[x].fc_ovflw /\ (link[x].fc_send \/ link[x].fc_ovflw)
        BY <1>2, <1>6, <2>2, <3>3
      <3>7. Direction(Peer(x), x)'
        BY <1>1, <1>4, <1>7, <1>12, <2>1, <3>1, <3>4, <3>6, Answered
      <3> QED BY <3>5, <3>7
    <2>3. CASE ~ l.fc_ovflw /\ ~ l.fc_send
      <3>1. f.type # "FC"
        BY <1>5, <2>3 DEF PolledFrame
      <3>2. SameRx(r, l) /\ SameFlags(r, l)
        BY <1>5, <2>3 DEF Polled, PolledRefusal, PolledClear, PolledSingle, PolledFirst, PolledPiece
      <3>3. Direction(Peer(x), x)'
        BY <1>1, <1>4, <1>10, <1>12, <1>13, <2>1, <3>1, <3>2, DirectionKept
      <3>4. ASSUME NEW i \in 1 .. Len(wire'[Peer(x)]), i = Len(wire[Peer(x)]) + 1
            PROVE  wire'[Peer(x)][i] = f
        BY <1>10, <3>4
      <3>5. CASE PolledSingle(l, r) \/ PolledFirst(l, r)
        <4>1. /\ link[x].tx \in {"send_sf", "send_ff"} /\ link'[x].tx \in {"idle", "wait_fc"} /\ f.type # "CF"
          BY <1>2, <1>5, <1>6, <3>5 DEF PolledSingle, PolledFirst, PolledFrame
        <4>2. f.type = "FF" => /\ link'[x].tx = "wait_fc" /\ link'[x].tx_pos = 1
                                 /\ f.len = link'[x].tx_buf.len /\ f.id = link'[x].tx_buf.id
          BY <1>2, <1>5, <1>6, <3>5 DEF PolledSingle, PolledFirst, PolledFrame
        <4>3. ASSUME NEW i \in 1 .. Len(wire'[Peer(x)]), i = Len(wire[Peer(x)]) + 1
              PROVE  /\ ~ CfAt(Peer(x), i)'
                     /\ FfAt(Peer(x), i)' => link'[x].tx = "wait_fc" /\ link'[x].tx_pos = 1
                                             /\ wire'[Peer(x)][i].len = link'[x].tx_buf.len
                                             /\ wire'[Peer(x)][i].id = link'[x].tx_buf.id
          BY <3>4, <4>1, <4>2, <4>3 DEF CfAt, FfAt
        <4>4. Direction(x, Peer(x))'
          BY <1>1, <1>4, <1>11, <1>12, <2>1, <4>1, <4>3, MessageStarted
        <4> QED BY <3>3, <4>4
      <3>6. CASE PolledPiece(x, l, r)
        <4>1. l.tx = "send_cf" /\ SentPiece(x, l, r)
          BY <3>6 DEF PolledPiece
        <4>2. f.type = "CF"
          BY <1>5, <1>7, <3>1, <4>1 DEF PolledFrame, Frames
        <4>3. f.piece[2] = l.tx_pos + 1
          BY <1>5, <4>2 DEF PolledFrame
        <4>4. ASSUME NEW i \in 1 .. Len(wire'[Peer(x)]), i = Len(wire[Peer(x)]) + 1
              PROVE  CfAt(Peer(x), i)' /\ At(Peer(x), i)' = link[x].tx_pos + 1
          BY <1>2, <3>4, <4>2, <4>3, <4>4 DEF CfAt, At
        <4>5. Direction(x, Peer(x))'
          BY <1>1, <1>2, <1>4, <1>6, <1>11, <1>12, <2>1, <4>1, <4>4, PieceSent
        <4> QED BY <3>3, <4>5
      <3> QED BY <1>5, <2>3, <3>5, <3>6 DEF Polled, PolledRefusal, PolledClear
    <2> QED BY <2>2, <2>3
  <1> QED BY <1>4, <1>9, <1>14, EndByEnd

\* A poll whose frame reaches nobody.
LEMMA PolledKept ==
  ASSUME NEW x, NEW l, NEW r, Polled(x, l, r), l = link[x], SameRx(link'[x], r), SameFlags(link'[x], r)
  PROVE  RxKept(x)
  <1>1. /\ r.rx = l.rx /\ r.rx_buf = l.rx_buf /\ r.rx_len = l.rx_len /\ r.rx_count = l.rx_count
        /\ r.fc_send => l.fc_send /\ r.rx_deadline = l.rx_deadline
        /\ r.fc_ovflw => l.fc_ovflw
    BY DEF Polled, PolledRefusal, PolledClear, PolledSingle, PolledFirst, PolledPiece, SameRx, SameFlags
  <1> QED BY <1>1 DEF SameRx, SameFlags, RxKept, RxBufKept

LEMMA PollLostKeeps ==
  ASSUME IsoInv, NEW x \in End, PollLost(x)
  PROVE  IsoInv'
  <1>1. IsoTyped /\ LinkTyped(x, link[x]) /\ link = [e \in End |-> link[e]] /\ HasFrame(link[x])
    BY DEF IsoInv, IsoTyped, PollLost, PollReady
  <1>2. PICK l, r : l = link[x] /\ r = AfterPoll(link[x])
    OBVIOUS
  <1>3. link' = [link EXCEPT ![x] = r] /\ UNCHANGED wire /\ stale' = stale
    BY <1>2 DEF PollLost
  <1>4. Peer(x) \in End /\ Peer(Peer(x)) = x
    BY EndsAre
  <1>5. Polled(x, l, r)
    BY <1>1, <1>2, AfterPollIs
  <1>6. /\ link' = [e \in End |-> link'[e]] /\ \A e \in End : LinkTyped(e, link'[e])
        /\ link'[x] = r /\ link'[Peer(x)] = link[Peer(x)]
    <2>1. LinkTyped(x, r)
      BY <1>5 DEF Polled
    <2> QED BY <1>1, <1>3, <2>1, LinkMoved
  <1>7. /\ wire' = [e \in End |-> wire'[e]] /\ \A e \in End : WireTyped(e)' /\ wire'[e] = wire[e]
    BY <1>1, <1>3, WireLeft
  <1>8. Books /\ Bounds
    BY <1>1, BooksLeft DEF PollLost, MayLose
  <1>9. IsoTyped'
    BY <1>6, <1>7, <1>8, StaysTyped
  <1>10. /\ DataLess(x) /\ AnswersLess(x) /\ DataLess(Peer(x)) /\ AnswersLess(Peer(x))
         /\ RxKept(Peer(x)) /\ TxKept(Peer(x))
    BY <1>4, <1>6, <1>7, SameWire, SameEnd
  <1>11. OneMore(Peer(x)) /\ \A i \in 1 .. Len(wire'[Peer(x)]) : i # Len(wire[Peer(x)]) + 1
    <2>1. Len(wire[Peer(x)]) \in Nat
      BY <1>1, <1>4, DirTyped
    <2> QED BY <1>4, <1>7, <2>1 DEF OneMore
  <1>12. RxKept(x)
    BY <1>2, <1>5, <1>6, PolledKept DEF SameRx, SameFlags
  <1>13. SameTx(r, l) => TxKept(x)
    BY <1>2, <1>6, HalfKept
  <1>14. ASSUME ~ stale' PROVE Direction(x, Peer(x))' /\ Direction(Peer(x), x)'
    <2>1. Direction(x, Peer(x)) /\ Direction(Peer(x), x)
      BY <1>3, <1>14, EndByEnd
    <2>2. Direction(Peer(x), x)'
      BY <1>1, <1>4, <1>10, <1>12, <2>1, DirectionKept
    <2>3. CASE SameTx(r, l)
      BY <1>1, <1>4, <1>10, <1>13, <2>1, <2>2, <2>3, DirectionKept
    <2>4. CASE PolledSingle(l, r) \/ PolledFirst(l, r)
      <3>1. link[x].tx \in {"send_sf", "send_ff"} /\ link'[x].tx \in {"idle", "wait_fc"}
        BY <1>2, <1>6, <2>4 DEF PolledSingle, PolledFirst
      <3>2. Direction(x, Peer(x))'
        BY <1>1, <1>4, <1>10, <1>11, <2>1, <3>1, MessageStarted
      <3> QED BY <2>2, <3>2
    <2>5. CASE PolledPiece(x, l, r)
      <3>1. link[x].tx = "send_cf" /\ SentPiece(x, link[x], link'[x])
        BY <1>2, <1>6, <2>5 DEF PolledPiece
      <3>2. Direction(x, Peer(x))'
        BY <1>1, <1>4, <1>10, <1>11, <2>1, <3>1, PieceSent
      <3> QED BY <2>2, <3>2
    <2> QED BY <1>5, <2>3, <2>4, <2>5 DEF Polled, PolledRefusal, PolledClear
  <1> QED BY <1>4, <1>9, <1>14, EndByEnd

\* A step of one end alone, after which its transmission is over or as it was.
LEMMA AloneKeeps ==
  ASSUME IsoInv, NEW x \in End, NEW r, LinkTyped(x, r), link' = [link EXCEPT ![x] = r],
         UNCHANGED <<todo, sent, delivered, wire>>, Bounds, Orphans(x),
         TxKept(x) \/ r.tx = "idle",
         RxKept(x) \/ (r.rx = "idle" /\ ~ r.fc_send /\ (r.fc_ovflw => link[x].fc_ovflw))
  PROVE  IsoInv'
  <1>1. IsoTyped
    BY DEF IsoInv
  <1>2. Peer(x) \in End /\ Peer(Peer(x)) = x
    BY EndsAre
  <1>3. /\ link' = [e \in End |-> link'[e]] /\ \A e \in End : LinkTyped(e, link'[e])
        /\ link'[x] = r /\ link'[Peer(x)] = link[Peer(x)]
    BY <1>1, LinkMoved
  <1>4. /\ wire' = [e \in End |-> wire'[e]] /\ \A e \in End : WireTyped(e)' /\ wire'[e] = wire[e]
    BY <1>1, WireLeft
  <1>5. IsoTyped'
    BY <1>1, <1>3, <1>4, BooksLeft, StaysTyped
  <1>6. /\ DataLess(x) /\ AnswersLess(x) /\ DataLess(Peer(x)) /\ AnswersLess(Peer(x))
        /\ RxKept(Peer(x)) /\ TxKept(Peer(x))
    BY <1>2, <1>3, <1>4, SameWire, SameEnd
  <1>7. ASSUME ~ stale' PROVE Direction(x, Peer(x))' /\ Direction(Peer(x), x)'
    <2>1. ~ stale /\ ~ GivesUp(x)
      BY <1>7 DEF Orphans
    <2>2. Direction(x, Peer(x)) /\ Direction(Peer(x), x)
      BY <2>1, EndByEnd
    <2>3. Direction(x, Peer(x))'
      <3>1. CASE TxKept(x)
        BY <1>1, <1>2, <1>6, <2>2, <3>1, DirectionKept
      <3>2. CASE r.tx = "idle"
        <4>1. link'[x].tx = "idle"
          BY <1>3, <3>2
        <4> QED BY <1>1, <1>2, <1>5, <1>6, <2>1, <2>2, <4>1, SenderStops
      <3> QED BY <3>1, <3>2
    <2>4. Direction(Peer(x), x)'
      <3>1. CASE RxKept(x)
        BY <1>1, <1>2, <1>6, <2>2, <3>1, DirectionKept
      <3>2. CASE r.rx = "idle" /\ ~ r.fc_send /\ (r.fc_ovflw => link[x].fc_ovflw)
        <4>1. link'[x].rx = "idle" /\ ~ link'[x].fc_send /\ (link'[x].fc_ovflw => link[x].fc_ovflw)
          BY <1>3, <3>2
        <4> QED BY <1>1, <1>2, <1>6, <2>2, <4>1, ReceiverRests
      <3> QED BY <3>1, <3>2
    <2> QED BY <2>3, <2>4
  <1> QED BY <1>5, <1>7, EndByEnd

LEMMA PollRefusedKeeps ==
  ASSUME IsoInv, NEW x \in End, PollRefused(x)
  PROVE  IsoInv'
  <1>1. IsoTyped /\ LinkTyped(x, link[x]) /\ HasFrame(link[x])
    BY DEF IsoInv, IsoTyped, PollRefused, PollReady
  <1>2. PICK l, q, r : l = link[x] /\ q = AfterPoll(link[x]) /\ r = TxOver(q)
    OBVIOUS
  <1>3. link' = [link EXCEPT ![x] = r]
    BY <1>2 DEF PollRefused
  <1>4. Polled(x, l, q)
    BY <1>1, <1>2, AfterPollIs
  <1>5. Record(q) /\ q.ready = FALSE /\ FlagsTyped(q) /\ RxTyped(x, q)
    BY <1>4 DEF Polled, LinkTyped, Record
  <1>6. /\ Record(r) /\ SameRx(r, q) /\ SameFlags(r, q) /\ r.ready = FALSE /\ r.tx = "idle" /\ TxTyped(x, r)
    BY <1>2, <1>5, TxOverIs, TxOverTyped
  <1>7. LinkTyped(x, r)
    BY <1>5, <1>6, SameTyped DEF LinkTyped, Record
  <1>8. link'[x] = r
    BY <1>1, <1>3, <1>7, LinkMoved
  <1>9. RxKept(x)
    BY <1>2, <1>4, <1>6, <1>8, PolledKept
  <1>10. Bounds
    BY <1>1, BooksLeft DEF PollRefused, MayLose
  <1> QED BY <1>3, <1>6, <1>7, <1>9, <1>10, AloneKeeps DEF PollRefused

LEMMA TickKeeps ==
  ASSUME IsoInv, NEW x \in End, Tick(x)
  PROVE  IsoInv'
  <1>1. IsoTyped /\ LinkTyped(x, link[x])
    BY DEF IsoInv, IsoTyped
  <1>2. PICK l, q, r : l = link[x] /\ q = (IF TxExpired(link[x]) THEN TxOver(link[x]) ELSE link[x]) /\ r = ExpireRx(q)
    OBVIOUS
  <1>3. link' = [link EXCEPT ![x] = r]
    BY <1>2 DEF Tick
  <1>4. Record(l) /\ l.ready = FALSE /\ FlagsTyped(l) /\ RxTyped(x, l) /\ TxTyped(x, l)
    BY <1>1, <1>2 DEF LinkTyped, Record
  <1>5. /\ Record(q) /\ SameRx(q, l) /\ SameFlags(q, l) /\ q.ready = FALSE /\ TxTyped(x, q)
        /\ SameTx(q, l) \/ q.tx = "idle"
    <2>1. CASE TxExpired(l)
      BY <1>2, <1>4, <2>1, TxOverIs, TxOverTyped
    <2>2. CASE ~ TxExpired(l)
      BY <1>2, <1>4, <2>2 DEF SameRx, SameFlags, SameTx
    <2> QED BY <2>1, <2>2
  <1>6. LinkTyped(x, q)
    BY <1>4, <1>5, SameTyped DEF LinkTyped, Record
  <1>7. /\ Record(r) /\ SameTx(r, q) /\ r.ready = FALSE /\ FlagsTyped(r) /\ RxTyped(x, r) /\ r.fc_ovflw = q.fc_ovflw
        /\ r = q \/ (r.rx = "idle" /\ r.fc_send = FALSE)
    BY <1>2, <1>6, ExpireIs
  <1>8. LinkTyped(x, r)
    BY <1>5, <1>7, SameTyped DEF LinkTyped, Record
  <1>9. link'[x] = r
    BY <1>1, <1>3, <1>8, LinkMoved
  <1>10. TxKept(x) \/ r.tx = "idle"
    BY <1>2, <1>5, <1>7, <1>9 DEF SameTx, TxKept
  <1>11. RxKept(x) \/ (r.rx = "idle" /\ ~ r.fc_send /\ (r.fc_ovflw => link[x].fc_ovflw))
    <2>1. CASE r = q
      BY <1>2, <1>5, <1>9, <2>1, HalfKept
    <2>2. CASE r.rx = "idle" /\ r.fc_send = FALSE
      BY <1>2, <1>5, <1>7, <2>2 DEF SameFlags
    <2> QED BY <1>7, <2>1, <2>2
  <1>12. Bounds
    BY <1>1, BooksLeft DEF Tick
  <1> QED BY <1>3, <1>8, <1>10, <1>11, <1>12, AloneKeeps DEF Tick

LEMMA EndExchangeKeeps ==
  ASSUME IsoInv, NEW x \in End, EndExchange(x)
  PROVE  IsoInv'
  <1>1. IsoTyped /\ LinkTyped(x, link[x])
    BY DEF IsoInv, IsoTyped
  <1>2. PICK l, q, o, r : /\ l = link[x] /\ q = TxOver(link[x]) /\ o = RxOver(q)
                          /\ r = [o EXCEPT !.fc_send = FALSE, !.fc_ovflw = FALSE]
    OBVIOUS
  <1>3. link' = [link EXCEPT ![x] = r]
    BY <1>2 DEF EndExchange
  <1>4. Record(l) /\ l.ready = FALSE
    BY <1>1, <1>2 DEF LinkTyped, Record
  <1>5. Record(q) /\ q.ready = FALSE /\ q.tx = "idle" /\ TxTyped(x, q)
    BY <1>2, <1>4, TxOverIs, TxOverTyped
  <1>6. Record(o) /\ SameTx(o, q) /\ o.ready = FALSE /\ o.rx = "idle" /\ RxTyped(x, o)
    BY <1>2, <1>5, RxOverIs, RxOverTyped
  <1>7. Record(r) /\ SameTx(r, o) /\ SameRx(r, o) /\ r.ready = FALSE /\ r.fc_send = FALSE /\ r.fc_ovflw = FALSE
    BY <1>2, <1>6 DEF Record, LinkFields, SameTx, SameRx
  <1>8. SameTx(r, q) /\ r.tx = "idle" /\ r.rx = "idle" /\ FlagsTyped(r)
    BY <1>5, <1>6, <1>7 DEF SameTx, SameRx, FlagsTyped
  <1>9. LinkTyped(x, r)
    BY <1>5, <1>6, <1>7, <1>8, SameTyped DEF LinkTyped, Record
  <1>10. Bounds
    BY <1>1, BooksLeft DEF EndExchange
  <1> QED BY <1>3, <1>7, <1>8, <1>9, <1>10, AloneKeeps DEF EndExchange

LEMMA PeerWaitsKeeps ==
  ASSUME IsoInv, NEW x \in End, PeerWaits(x)
  PROVE  IsoInv'
  <1>1. IsoTyped /\ link = [e \in End |-> link[e]] /\ wire[x] = <<>>
    BY DEF IsoInv, IsoTyped, PeerWaits
  <1>2. Peer(x) \in End /\ Peer(Peer(x)) = x /\ Bs[Peer(x)] \in Nat /\ StMin[Peer(x)] \in Nat
    BY EndsAre, SizesAre
  <1>3. PICK f : f = [type |-> "FC", status |-> "WAIT", bs |-> Bs[Peer(x)], stmin |-> StMin[Peer(x)]]
    OBVIOUS
  <1>4. f \in Frames /\ f.type = "FC" /\ f.status = "WAIT" /\ f.bs = Bs[Peer(x)]
    BY <1>2, <1>3 DEF Frames
  <1>5. FrameTyped(x, f)
    BY <1>4 DEF FrameTyped
  <1>6. wire' = [wire EXCEPT ![x] = <<f>>] /\ link' = link /\ stale' = stale
    BY <1>3 DEF PeerWaits, FlowControl
  <1>7. Append(<<>>, f) = <<f>> /\ Len(<<>>) = 0
    OBVIOUS
  <1>8. wire' = [wire EXCEPT ![x] = Append(@, f)] /\ Len(wire[x]) < WireSize
    BY <1>1, <1>6, <1>7, SizesAre
  <1>9. /\ wire' = [e \in End |-> wire'[e]] /\ \A e \in End : WireTyped(e)'
        /\ wire'[x] = Append(wire[x], f) /\ wire'[Peer(x)] = wire[Peer(x)]
    BY <1>1, <1>5, <1>8, WirePut
  <1>10. DataLess(x) /\ AnswersLess(x) /\ DataLess(Peer(x)) /\ AnswersLess(Peer(x))
    BY <1>1, <1>4, <1>9, FramePut, SameWire
  <1>11. RxKept(x) /\ TxKept(x) /\ RxKept(Peer(x)) /\ TxKept(Peer(x))
    BY <1>6, SameEnd
  <1>12. link' = [e \in End |-> link'[e]] /\ \A e \in End : LinkTyped(e, link'[e])
    BY <1>1, <1>6 DEF IsoTyped
  <1>13. IsoTyped'
    BY <1>1, <1>9, <1>12, BooksLeft, StaysTyped DEF PeerWaits
  <1>14. ASSUME ~ stale' PROVE Direction(x, Peer(x))' /\ Direction(Peer(x), x)'
    BY <1>1, <1>2, <1>6, <1>10, <1>11, <1>14, EndByEnd, DirectionKept
  <1> QED BY <1>13, <1>14, EndByEnd

\* Time runs the deadlines and nothing else.
Passed(e, l, r) ==
    /\ LinkTyped(e, r) /\ SameFlags(r, l)
    /\ r.tx = l.tx /\ r.tx_pos = l.tx_pos /\ r.tx_buf = l.tx_buf /\ r.block_left = l.block_left
    /\ r.rx = l.rx /\ r.rx_buf = l.rx_buf /\ r.rx_len = l.rx_len /\ r.rx_count = l.rx_count
    /\ l.rx_deadline = Unarmed => r.rx_deadline = Unarmed

LEMMA PassIs ==
  ASSUME NEW e \in End, NEW l, LinkTyped(e, l)
  PROVE  Passed(e, l, Pass(l))
  <1>1. Record(l) /\ l.ready = FALSE /\ FlagsTyped(l) /\ RxTyped(e, l) /\ TxTyped(e, l)
    BY DEF LinkTyped, Record
  <1>2. PICK a, b, c : /\ a = (IF l.fc_deadline > 0 THEN l.fc_deadline - 1 ELSE 0)
                       /\ b = (IF l.gap > 0 THEN l.gap - 1 ELSE 0)
                       /\ c = (IF l.rx_deadline \in {0, Unarmed} THEN l.rx_deadline ELSE l.rx_deadline - 1)
    OBVIOUS
  <1>3. PICK r : r = [l EXCEPT !.fc_deadline = a, !.gap = b, !.rx_deadline = c]
    OBVIOUS
  <1>4. r = Pass(l)
    BY <1>2, <1>3 DEF Pass
  <1>5. /\ Record(r) /\ SameFlags(r, l) /\ r.ready = FALSE
        /\ r.tx = l.tx /\ r.tx_pos = l.tx_pos /\ r.tx_buf = l.tx_buf /\ r.block_left = l.block_left
        /\ r.tx_sn = l.tx_sn /\ r.wft_count = l.wft_count /\ r.peer_bs = l.peer_bs
        /\ r.rx = l.rx /\ r.rx_buf = l.rx_buf /\ r.rx_len = l.rx_len /\ r.rx_count = l.rx_count /\ r.rx_sn = l.rx_sn
        /\ r.fc_deadline = a /\ r.rx_deadline = c
    BY <1>1, <1>3 DEF Record, LinkFields, SameFlags
  <1>6. a \in 0 .. NBs
    <2>1. l.fc_deadline \in 0 .. NBs /\ NBs \in Nat
      BY <1>1, SizesAre DEF TxTyped
    <2> QED BY <1>2, <2>1
  <1>7. c \in 0 .. NCr \cup {Unarmed}
    <2>1. l.rx_deadline \in 0 .. NCr \cup {Unarmed} /\ NCr \in Nat /\ NBs \in Nat /\ NBs >= 1 /\ Unarmed = NBs + NCr
      BY <1>1, SizesAre DEF RxTyped
    <2> QED BY <1>2, <2>1
  <1>8. l.rx_deadline = Unarmed => c = Unarmed
    BY <1>2
  <1>9. TxTyped(e, r)
    BY <1>1, <1>5, <1>6 DEF TxTyped
  <1>10. RxTyped(e, r)
    BY <1>1, <1>5, <1>7 DEF RxTyped
  <1>11. FlagsTyped(r)
    BY <1>1, <1>5, SameTyped
  <1>12. LinkTyped(e, r)
    BY <1>5, <1>9, <1>10, <1>11 DEF LinkTyped, Record
  <1> QED BY <1>4, <1>5, <1>8, <1>12 DEF Passed

LEMMA TimeKeeps ==
  ASSUME IsoInv, Time
  PROVE  IsoInv'
  <1>1. IsoTyped
    BY DEF IsoInv
  <1>2. /\ link' = [e \in End |-> Pass(link[e])] /\ UNCHANGED wire /\ stale' = stale
    BY DEF Time
  <1>3. \A e \in End : Passed(e, link[e], link'[e])
    <2>1. \A e \in End : LinkTyped(e, link[e]) /\ link'[e] = Pass(link[e])
      BY <1>1, <1>2 DEF IsoTyped
    <2> QED BY <2>1, PassIs
  <1>4. link' = [e \in End |-> link'[e]] /\ \A e \in End : LinkTyped(e, link'[e])
    BY <1>2, <1>3 DEF Passed
  <1>5. /\ wire' = [e \in End |-> wire'[e]] /\ \A e \in End : WireTyped(e)' /\ wire'[e] = wire[e]
    BY <1>1, <1>2, WireLeft
  <1>6. IsoTyped'
    BY <1>1, <1>4, <1>5, BooksLeft, StaysTyped DEF Time
  <1>7. \A e \in End : RxKept(e) /\ TxKept(e)
    BY <1>3 DEF Passed, SameFlags, RxKept, RxBufKept, TxKept
  <1>8. \A e \in End : DataLess(e) /\ AnswersLess(e)
    BY <1>5, SameWire
  <1>9. ASSUME ~ stale', NEW e \in End PROVE Direction(Peer(e), e)'
    <2>1. Peer(e) \in End /\ Direction(Peer(e), e)
      BY <1>2, <1>9, EndsAre DEF IsoInv
    <2> QED BY <1>1, <1>7, <1>8, <2>1, DirectionKept
  <1> QED BY <1>6, <1>9 DEF IsoInv

LEMMA IsoStutter ==
  ASSUME IsoInv, UNCHANGED isoVars
  PROVE  IsoInv'
  <1>1. IsoTyped /\ link' = link /\ wire' = wire /\ stale' = stale
    BY DEF IsoInv, isoVars
  <1>2. link' = [e \in End |-> link'[e]] /\ \A e \in End : LinkTyped(e, link'[e])
    BY <1>1 DEF IsoTyped
  <1>3. /\ wire' = [e \in End |-> wire'[e]] /\ \A e \in End : WireTyped(e)' /\ wire'[e] = wire[e]
    BY <1>1, WireLeft
  <1>4. IsoTyped'
    BY <1>1, <1>2, <1>3, BooksLeft, StaysTyped DEF isoVars
  <1>5. ASSUME ~ stale', NEW e \in End PROVE Direction(Peer(e), e)'
    <2>1. Peer(e) \in End /\ Direction(Peer(e), e)
      BY <1>1, <1>5, EndsAre DEF IsoInv
    <2>2. RxKept(e) /\ TxKept(Peer(e)) /\ DataLess(e) /\ AnswersLess(Peer(e))
      BY <1>1, SameEnd, SameWire
    <2> QED BY <1>1, <2>1, <2>2, DirectionKept
  <1> QED BY <1>4, <1>5 DEF IsoInv

LEMMA IsoKept ==
  ASSUME IsoInv, [IsoNext]_isoVars
  PROVE  IsoInv'
  BY SendKeeps, ReceiveKeeps, PollKeeps, PollLostKeeps, PollRefusedKeeps, TickKeeps, EndExchangeKeeps,
     PeerWaitsKeeps, TimeKeeps, IsoStutter DEF IsoNext

\* What the invariant says of a Link, and of an answer that is owed.
LEMMA GrantsKeptIs ==
  ASSUME IsoInv
  PROVE  GrantsKept
  <1>1. IsoTyped
    BY DEF IsoInv
  <1>2. ASSUME NEW e \in End
        PROVE  /\ link[e].rx \in {"idle", "receiving"}
               /\ link[e].tx \in {"idle", "send_sf", "send_ff", "wait_fc", "send_cf"}
               /\ link[e].rx_len \in 0 .. MaxPayload[e]
               /\ Len(link[e].rx_buf) <= link[e].rx_len
               /\ link[e].rx_sn \in 0 .. SnMod - 1 /\ link[e].tx_sn \in 0 .. SnMod - 1
               /\ link[e].wft_count \in 0 .. WftMax
               /\ link[e].block_left \in 0 .. Bs[Peer(e)]
               /\ link[e].fc_deadline \in 0 .. NBs
               /\ link[e].rx_deadline \in 0 .. NCr \cup {Unarmed}
               /\ ~ link[e].ready
               /\ Len(wire[e]) <= WireSize
    <2>1. LinkTyped(e, link[e]) /\ RxTyped(e, link[e]) /\ TxTyped(e, link[e]) /\ WireTyped(e)
      BY <1>1 DEF IsoTyped, LinkTyped
    <2>2. Len(wire[e]) <= WireSize
      BY <2>1, SizesAre DEF WireTyped
    <2>3. Len(link[e].rx_buf) <= link[e].rx_len
      <3>1. link[e].rx_len \in Nat
        BY <2>1, SizesAre DEF RxTyped
      <3>2. CASE link[e].rx = "receiving"
        BY <2>1, <3>1, <3>2 DEF RxTyped
      <3>3. CASE link[e].rx = "idle"
        <4>1. Len(link[e].rx_buf) = 0
          BY <2>1, <3>3, EmptyIs DEF RxTyped
        <4> QED BY <3>1, <4>1
      <3> QED BY <2>1, <3>2, <3>3 DEF RxTyped
    <2> QED BY <2>1, <2>2, <2>3 DEF LinkTyped, RxTyped, TxTyped
  <1>3. IsoTypeOK
    BY <1>1, <1>2 DEF IsoTyped, IsoTypeOK
  <1>4. ASSUME NEW e \in End, ~ stale, link[e].fc_send
        PROVE  /\ link[e].rx = "receiving"
               /\ link[Peer(e)].tx # "send_cf"
               /\ \A i \in DOMAIN wire[e] : wire[e][i].type # "CF"
    <2>1. OwedAwaits(Peer(e), e)
      BY <1>4 DEF IsoInv, Direction
    <2>2. link[e].rx = "receiving" /\ link[Peer(e)].tx = "wait_fc" /\ Quiet(e)
      BY <1>4, <2>1 DEF OwedAwaits
    <2>3. DOMAIN wire[e] = 1 .. Len(wire[e])
      BY <1>1 DEF IsoTyped, WireTyped
    <2> QED BY <2>2, <2>3 DEF Quiet, DataAt
  <1>5. NoRunAhead
    BY <1>4 DEF NoRunAhead
  <1> QED BY <1>3, <1>5 DEF GrantsKept

-------------------------------------------------------------------------------
(***************************************************************************)
(* What arrives: the pieces of a direction, in the order they were sent.   *)
(***************************************************************************)
\* Where in what its sender has sent a frame of data belongs, and what comes next.
Place(f) == IF f.type = "CF" THEN f.piece ELSE <<f.id, 1>>
Upcoming(p) ==
    <<IF link[p].tx = "idle" THEN Len(sent[p]) + 1 ELSE Len(sent[p]),
      IF link[p].tx \in {"wait_fc", "send_cf"} THEN link[p].tx_pos + 1 ELSE 1>>
Before(a, b) == a[1] < b[1] \/ (a[1] = b[1] /\ a[2] < b[2])

\* The message a Link sends is the last it accepted, and some of it is still to go.
TxBook(p) ==
    /\ sent[p] \in Seq(Nat) /\ \A m \in 1 .. Len(sent[p]) : sent[p][m] >= 1
    /\ link[p].tx # "idle" => /\ Len(sent[p]) >= 1 /\ link[p].tx_buf.id = Len(sent[p])
                              /\ link[p].tx_buf.len = sent[p][Len(sent[p])]
    /\ link[p].tx = "send_sf" => link[p].tx_buf.len = 1
    /\ link[p].tx \in {"wait_fc", "send_cf"} => link[p].tx_pos >= 1 /\ link[p].tx_pos < link[p].tx_buf.len

\* What is in flight is of messages that were sent, in the order of sending, and not yet
\* of what comes next.
Known(p, f) ==
    /\ Place(f)[1] \in 1 .. Len(sent[p]) /\ Place(f)[2] \in 1 .. sent[p][Place(f)[1]]
    /\ f.type = "SF" => sent[p][f.id] = 1
    /\ f.type = "FF" => sent[p][f.id] = f.len
KnownData(p, e) == \A i \in 1 .. Len(wire[e]) : DataAt(e, i) => Known(p, wire[e][i])
Rising(p, e) ==
    /\ \A i, j \in 1 .. Len(wire[e]) :
          i < j /\ DataAt(e, i) /\ DataAt(e, j) => Before(Place(wire[e][i]), Place(wire[e][j]))
    /\ \A i \in 1 .. Len(wire[e]) : DataAt(e, i) => Before(Place(wire[e][i]), Upcoming(p))

\* What has arrived was sent before what is in flight: a reception's first and last
\* piece, the first piece of what was delivered.
Reached(e, g) ==
    \/ link[e].rx = "receiving" /\ (g = link[e].rx_buf[1] \/ g = link[e].rx_buf[Len(link[e].rx_buf)])
    \/ \E i \in 1 .. Len(delivered[e]) : g = delivered[e][i][1]
Arrived(p, e) ==
    \A g : Reached(e, g) => /\ Before(g, Upcoming(p))
                        /\ \A i \in 1 .. Len(wire[e]) : DataAt(e, i) => Before(g, Place(wire[e][i]))
Taken(e) ==
    /\ delivered[e] \in Seq(Seq(Pieces))
    /\ \A i \in 1 .. Len(delivered[e]) : delivered[e][i][1] \in Pieces /\ delivered[e][i][1][2] = 1
    /\ \A i, j \in 1 .. Len(delivered[e]) : i < j => Before(delivered[e][i][1], delivered[e][j][1])
    /\ link[e].rx = "receiving" =>
         /\ link[e].rx_buf[1][2] = 1
         /\ \A i \in 1 .. Len(delivered[e]) : Before(delivered[e][i][1], link[e].rx_buf[1])

Stream(p, e) == KnownData(p, e) /\ Rising(p, e) /\ Arrived(p, e) /\ Taken(e)

\* Pieces of one message that was sent, from a sequence of them: none twice, in order.
Share(p, b, m) ==
    /\ m \in 1 .. Len(sent[p])
    /\ \A i \in 1 .. Len(b) : b[i][1] = m /\ b[i][2] <= sent[p][m]
    /\ \A i, j \in 1 .. Len(b) : i < j => b[i][2] + (j - i) <= b[j][2]
OwnPieces(p, e) ==
    link[e].rx = "receiving" =>
        /\ Share(p, link[e].rx_buf, link[e].rx_buf[1][1])
        /\ link[e].rx_len = sent[p][link[e].rx_buf[1][1]]

\* A frame that begins a message; who the consecutive frames behind one belong to, the
\* reception in progress being in front of the wire.
FirstAt(e, i) == i \in 1 .. Len(wire[e]) /\ wire[e][i].type \in {"SF", "FF"}
Begins(e, i, m) ==
    \/ i = 0 /\ link[e].rx = "receiving" /\ link[e].rx_buf[1][1] = m
    \/ FfAt(e, i) /\ wire[e][i].id = m
Joins(e) ==
    \A m : \A i \in 0 .. Len(wire[e]), j \in 1 .. Len(wire[e]) :
        Begins(e, i, m) /\ CfAt(e, j) /\ i < j /\ (\A k \in i + 1 .. j - 1 : ~ FirstAt(e, k))
            => wire[e][j].piece[1] = m
Newest(e, m) ==
    \E i \in 0 .. Len(wire[e]) : Begins(e, i, m) /\ \A k \in i + 1 .. Len(wire[e]) : ~ FirstAt(e, k)
Current(p, e) == \A m : Newest(e, m) => m = link[p].tx_buf.id

\* What an owner took is whole.
Intact(p, e) ==
    \A i \in 1 .. Len(delivered[e]) : \E m \in 1 .. Len(sent[p]) : delivered[e][i] = Whole(m, sent[p][m])

Content(p, e) ==
    /\ OwnPieces(p, e) /\ Joins(e) /\ Intact(p, e)
    /\ losses = 0 /\ link[p].tx \in {"wait_fc", "send_cf"} => Current(p, e)

Way(p, e) == Stream(p, e) /\ (losses = 0 \/ ~ stale => Content(p, e))
WholeInv == IsoInv /\ \A e \in End : TxBook(e) /\ Way(Peer(e), e)

-------------------------------------------------------------------------------
\* The order of pieces is one, and everything in it is a piece.
LEMMA BeforeIs ==
  ASSUME NEW a \in Pieces, NEW b \in Pieces, NEW c \in Pieces, Before(a, b), Before(b, c)
  PROVE  Before(a, c)
  BY DEF Before, Pieces

LEMMA PlaceTyped ==
  ASSUME NEW f \in Frames, f.type # "FC"
  PROVE  Place(f) \in Pieces
  <1>1. CASE f.type = "CF"
    BY <1>1 DEF Place, Frames
  <1>2. CASE f.type # "CF"
    <2>1. f.id \in Nat
      BY <1>2 DEF Frames
    <2> QED BY <1>2, <2>1 DEF Place, Pieces
  <1> QED BY <1>1, <1>2

LEMMA WayTyped ==
  ASSUME IsoTyped, NEW p \in End, NEW e \in End, TxBook(p), Taken(e)
  PROVE  /\ Upcoming(p) \in Pieces
         /\ \A i \in 1 .. Len(wire[e]) : DataAt(e, i) => wire[e][i] \in Frames /\ Place(wire[e][i]) \in Pieces
         /\ \A g : Reached(e, g) => g \in Pieces
         /\ Len(wire[e]) \in Nat /\ Len(sent[p]) \in Nat /\ Len(delivered[e]) \in Nat
         /\ link[e].rx_buf \in Seq(Pieces) /\ Len(link[e].rx_buf) \in Nat /\ link[e].rx_len \in Nat
         /\ link[e].rx \in {"idle", "receiving"}
         /\ link[e].rx = "receiving" => Len(link[e].rx_buf) >= 1 /\ Len(link[e].rx_buf) < link[e].rx_len
                                        /\ link[e].rx_buf[1] \in Pieces
  <1>1. RxTyped(e, link[e]) /\ TxTyped(p, link[p]) /\ WireTyped(e) /\ MaxPayload[e] \in Nat
    BY SizesAre DEF IsoTyped, LinkTyped
  <1>2. Len(sent[p]) \in Nat /\ Len(delivered[e]) \in Nat
    BY DEF TxBook, Taken
  <1>3. link[e].rx_buf \in Seq(Pieces) /\ Len(link[e].rx_buf) \in Nat /\ link[e].rx_len \in Nat
        /\ link[e].rx \in {"idle", "receiving"}
    BY <1>1 DEF RxTyped
  <1>4. ASSUME link[e].rx = "receiving"
        PROVE  /\ Len(link[e].rx_buf) >= 1 /\ Len(link[e].rx_buf) < link[e].rx_len
               /\ link[e].rx_buf[1] \in Pieces /\ link[e].rx_buf[Len(link[e].rx_buf)] \in Pieces
    <2>1. Len(link[e].rx_buf) \in 1 .. link[e].rx_len - 1
      BY <1>1, <1>4 DEF RxTyped
    <2>2. Len(link[e].rx_buf) >= 1 /\ Len(link[e].rx_buf) < link[e].rx_len
          /\ 1 \in 1 .. Len(link[e].rx_buf) /\ Len(link[e].rx_buf) \in 1 .. Len(link[e].rx_buf)
      BY <1>3, <2>1
    <2> QED BY <1>3, <2>2
  <1>5. Upcoming(p) \in Pieces
    <2>1. link[p].tx_pos \in Nat
      BY <1>1 DEF TxTyped
    <2> QED BY <1>2, <2>1 DEF Upcoming, Pieces
  <1>6. \A i \in 1 .. Len(wire[e]) : DataAt(e, i) => wire[e][i] \in Frames /\ Place(wire[e][i]) \in Pieces
    <2>1. \A i \in 1 .. Len(wire[e]) : wire[e][i] \in Frames
      BY <1>1 DEF WireTyped, FrameTyped
    <2>2. \A i \in 1 .. Len(wire[e]) : DataAt(e, i) => wire[e][i].type # "FC"
      BY DEF DataAt
    <2> QED BY <2>1, <2>2, PlaceTyped
  <1>7. \A g : Reached(e, g) => g \in Pieces
    BY <1>4 DEF Reached, Taken
  <1>8. Len(wire[e]) \in Nat
    BY <1>1, SizesAre DEF WireTyped
  <1> QED BY <1>2, <1>3, <1>4, <1>5, <1>6, <1>7, <1>8

\* What a step does to a sender: what it accepted stays, and it goes on or begins another
\* message; a step that sends no first frame leaves a message that is past it the same.
Longer(p) == /\ Len(sent[p]) <= Len(sent'[p])
             /\ \A m \in 1 .. Len(sent[p]) : sent'[p][m] = sent[p][m]
NotLess(p) == Upcoming(p)' = Upcoming(p) \/ Before(Upcoming(p), Upcoming(p)')
SameMessage(p) == link'[p].tx \in {"wait_fc", "send_cf"} =>
                      link[p].tx \in {"wait_fc", "send_cf"} /\ link'[p].tx_buf = link[p].tx_buf
Onward(p) == TxBook(p)' /\ Longer(p) /\ NotLess(p)

\* ... to the wire: d frames left it, and flow control may have joined it.
Moved(e, d) ==
    /\ d \in {0, 1} /\ d <= Len(wire[e])
    /\ \A i \in 1 .. Len(wire[e]) : i > d => i - d \in 1 .. Len(wire'[e]) /\ wire'[e][i - d] = wire[e][i]
    /\ \A i \in 1 .. Len(wire'[e]) :
          (i + d \in 1 .. Len(wire[e]) /\ wire'[e][i] = wire[e][i + d]) \/ wire'[e][i].type = "FC"

\* ... and to a receiver and its owner, of the frame at the head of the wire.
Left(e) == /\ link'[e].rx = link[e].rx /\ link'[e].rx_buf = link[e].rx_buf /\ link'[e].rx_len = link[e].rx_len
           /\ delivered'[e] = delivered[e]
Dropped(e) == link'[e].rx = "idle" /\ delivered'[e] = delivered[e]
Begun(e) == /\ FfAt(e, 1) /\ link'[e].rx = "receiving" /\ link'[e].rx_buf = <<Place(wire[e][1])>>
            /\ link'[e].rx_len = wire[e][1].len /\ delivered'[e] = delivered[e]
Grew(e) == /\ CfAt(e, 1) /\ link[e].rx = "receiving" /\ link'[e].rx = "receiving"
           /\ link'[e].rx_buf = Append(link[e].rx_buf, Place(wire[e][1])) /\ link'[e].rx_len = link[e].rx_len
           /\ delivered'[e] = delivered[e]
TookSingle(e) == /\ DataAt(e, 1) /\ wire[e][1].type = "SF" /\ link'[e].rx = "idle"
                 /\ delivered'[e] = Append(delivered[e], <<Place(wire[e][1])>>)
TookLast(e) == /\ CfAt(e, 1) /\ link[e].rx = "receiving" /\ link'[e].rx = "idle"
               /\ Len(link[e].rx_buf) + 1 = link[e].rx_len
               /\ delivered'[e] = Append(delivered[e], Append(link[e].rx_buf, Place(wire[e][1])))
Served(e, d) ==
    \/ Left(e) /\ (d = 1 /\ link[e].rx = "receiving" => ~ FirstAt(e, 1))
    \/ Dropped(e)
    \/ d = 1 /\ (Begun(e) \/ Grew(e) \/ TookSingle(e) \/ TookLast(e))

LEMMA MovedIs ==
  ASSUME NEW e, NEW d, Moved(e, d), Len(wire[e]) \in Nat
  PROVE  /\ \A i : DataAt(e, i)' =>
              /\ i \in 1 .. Len(wire'[e]) /\ i + d \in 1 .. Len(wire[e]) /\ wire'[e][i] = wire[e][i + d]
              /\ DataAt(e, i + d) /\ (CfAt(e, i)' => CfAt(e, i + d)) /\ (FfAt(e, i)' => FfAt(e, i + d))
         /\ \A i : FfAt(e, i)' \/ CfAt(e, i)' => DataAt(e, i)'
         /\ \A k : FirstAt(e, k) /\ k > d => FirstAt(e, k - d)'
         /\ d \in Nat
  <1>1. ASSUME NEW i, DataAt(e, i)'
        PROVE  /\ i \in 1 .. Len(wire'[e]) /\ i + d \in 1 .. Len(wire[e]) /\ wire'[e][i] = wire[e][i + d]
               /\ DataAt(e, i + d) /\ (CfAt(e, i)' => CfAt(e, i + d)) /\ (FfAt(e, i)' => FfAt(e, i + d))
    <2>1. i \in 1 .. Len(wire'[e]) /\ wire'[e][i].type # "FC"
      BY <1>1 DEF DataAt
    <2>2. i + d \in 1 .. Len(wire[e]) /\ wire'[e][i] = wire[e][i + d]
      BY <2>1 DEF Moved
    <2> QED BY <1>1, <2>1, <2>2 DEF DataAt, CfAt, FfAt
  <1>2. \A i : FfAt(e, i)' \/ CfAt(e, i)' => DataAt(e, i)'
    BY DEF FfAt, CfAt, DataAt
  <1>3. \A k : FirstAt(e, k) /\ k > d => FirstAt(e, k - d)'
    BY DEF FirstAt, Moved
  <1> QED BY <1>1, <1>2, <1>3 DEF Moved

\* What is known of a frame stays known, and what was before what came next still is.
LEMMA KnownOn ==
  ASSUME NEW p \in End, TxBook(p), Onward(p), NEW f, Known(p, f)
  PROVE  Known(p, f)'
  <1>1. Len(sent[p]) \in Nat /\ Len(sent'[p]) \in Nat /\ Len(sent[p]) <= Len(sent'[p])
    BY DEF TxBook, Onward, Longer
  <1>2. Place(f)[1] \in 1 .. Len(sent[p])
    BY DEF Known
  <1>3. Place(f)[1] \in 1 .. Len(sent'[p]) /\ sent'[p][Place(f)[1]] = sent[p][Place(f)[1]]
    BY <1>1, <1>2 DEF Onward, Longer
  <1>4. f.type \in {"SF", "FF"} => Place(f)[1] = f.id
    BY DEF Place
  <1>5. Place(f)[2] \in 1 .. sent'[p][Place(f)[1]]
    BY <1>3 DEF Known
  <1>6. f.type = "SF" => sent'[p][f.id] = 1
    BY <1>3, <1>4 DEF Known
  <1>7. f.type = "FF" => sent'[p][f.id] = f.len
    BY <1>3, <1>4 DEF Known
  <1> QED BY <1>3, <1>5, <1>6, <1>7 DEF Known

LEMMA ComesTyped ==
  ASSUME IsoTyped', NEW p \in End, TxBook(p)'
  PROVE  Upcoming(p)' \in Pieces
  <1>1. link'[p].tx_pos \in Nat /\ Len(sent'[p]) \in Nat
    BY DEF IsoTyped, LinkTyped, TxTyped, TxBook
  <1> QED BY <1>1 DEF Upcoming, Pieces

LEMMA UpcomingOn ==
  ASSUME NEW p, NotLess(p), Upcoming(p) \in Pieces, Upcoming(p)' \in Pieces,
         NEW g \in Pieces, Before(g, Upcoming(p))
  PROVE  Before(g, Upcoming(p)')
  BY BeforeIs DEF NotLess

\* What a receiver and its owner have after a step is what they had, and the frame the
\* step took from the wire.
LEMMA ReachedIs ==
  ASSUME IsoTyped, NEW p \in End, NEW e \in End, TxBook(p), Taken(e), NEW d, Served(e, d)
  PROVE  \A g : Reached(e, g)' => Reached(e, g) \/ (d = 1 /\ DataAt(e, 1) /\ g = Place(wire[e][1]))
  <1>1. /\ link[e].rx_buf \in Seq(Pieces) /\ Len(link[e].rx_buf) \in Nat /\ delivered[e] \in Seq(Seq(Pieces))
        /\ link[e].rx = "receiving" => Len(link[e].rx_buf) >= 1
        /\ \A i \in 1 .. Len(wire[e]) : DataAt(e, i) => Place(wire[e][i]) \in Pieces
    BY WayTyped DEF Taken
  <1>2. ASSUME NEW g, Reached(e, g)'
        PROVE  Reached(e, g) \/ (d = 1 /\ DataAt(e, 1) /\ g = Place(wire[e][1]))
    <2>1. CASE Left(e)
      BY <1>2, <2>1 DEF Left, Reached
    <2>2. CASE Dropped(e)
      BY <1>2, <2>2 DEF Dropped, Reached
    <2>3. CASE d = 1 /\ Begun(e)
      <3>1. DataAt(e, 1) /\ 1 \in 1 .. Len(wire[e])
        BY <2>3 DEF Begun, DataAt, FfAt
      <3>2. PICK h : h = Place(wire[e][1])
        OBVIOUS
      <3>3. link'[e].rx_buf = <<h>> /\ delivered'[e] = delivered[e]
        BY <2>3, <3>2 DEF Begun
      <3>4. <<h>>[1] = h /\ Len(<<h>>) = 1
        OBVIOUS
      <3>5. link'[e].rx_buf[1] = h /\ link'[e].rx_buf[Len(link'[e].rx_buf)] = h
        BY <3>3, <3>4
      <3> QED BY <1>2, <2>3, <3>1, <3>2, <3>3, <3>5 DEF Reached
    <2>4. CASE d = 1 /\ Grew(e)
      <3>1. DataAt(e, 1) /\ 1 \in 1 .. Len(wire[e])
        BY <2>4 DEF Grew, DataAt, CfAt
      <3>2. PICK h, b : h = Place(wire[e][1]) /\ b = link[e].rx_buf
        OBVIOUS
      <3>3. link'[e].rx_buf = Append(b, h) /\ delivered'[e] = delivered[e] /\ link[e].rx = "receiving"
        BY <2>4, <3>2 DEF Grew
      <3>4. b \in Seq(Pieces) /\ h \in Pieces /\ Len(b) >= 1 /\ Len(b) \in Nat
        BY <1>1, <3>1, <3>2, <3>3
      <3>5. Append(b, h)[1] = b[1] /\ Append(b, h)[Len(Append(b, h))] = h
        BY <3>4
      <3> QED BY <1>2, <2>4, <3>1, <3>2, <3>3, <3>5 DEF Reached
    <2>5. CASE d = 1 /\ TookSingle(e)
      <3>1. DataAt(e, 1) /\ 1 \in 1 .. Len(wire[e])
        BY <2>5 DEF TookSingle, DataAt
      <3>2. PICK h, t : h = Place(wire[e][1]) /\ t = delivered[e]
        OBVIOUS
      <3>3. delivered'[e] = Append(t, <<h>>) /\ link'[e].rx = "idle"
        BY <2>5, <3>2 DEF TookSingle
      <3>4. h \in Pieces /\ <<h>> \in Seq(Pieces) /\ <<h>>[1] = h
        BY <1>1, <3>1, <3>2
      <3>5. PICK i \in 1 .. Len(Append(t, <<h>>)) : g = Append(t, <<h>>)[i][1]
        BY <1>2, <3>3 DEF Reached
      <3>6. (i \in 1 .. Len(t) /\ Append(t, <<h>>)[i] = t[i]) \/ Append(t, <<h>>)[i] = <<h>>
        BY <1>1, <3>2, <3>4, AppendIs
      <3> QED BY <2>5, <3>1, <3>2, <3>4, <3>5, <3>6 DEF Reached
    <2>6. CASE d = 1 /\ TookLast(e)
      <3>1. DataAt(e, 1) /\ 1 \in 1 .. Len(wire[e])
        BY <2>6 DEF TookLast, DataAt, CfAt
      <3>2. PICK h, t, b : h = Place(wire[e][1]) /\ t = delivered[e] /\ b = link[e].rx_buf
        OBVIOUS
      <3>3. delivered'[e] = Append(t, Append(b, h)) /\ link'[e].rx = "idle" /\ link[e].rx = "receiving"
        BY <2>6, <3>2 DEF TookLast
      <3>4. h \in Pieces /\ b \in Seq(Pieces) /\ Len(b) >= 1 /\ Len(b) \in Nat
        BY <1>1, <3>1, <3>2, <3>3
      <3>5. Append(b, h) \in Seq(Pieces) /\ Append(b, h)[1] = b[1]
        BY <3>4
      <3>6. PICK i \in 1 .. Len(Append(t, Append(b, h))) : g = Append(t, Append(b, h))[i][1]
        BY <1>2, <3>3 DEF Reached
      <3>7. (i \in 1 .. Len(t) /\ Append(t, Append(b, h))[i] = t[i]) \/ Append(t, Append(b, h))[i] = Append(b, h)
        BY SMTT(30), <1>1, <3>2, <3>5, AppendIs
      <3> QED BY <3>2, <3>3, <3>5, <3>6, <3>7 DEF Reached
    <2> QED BY <2>1, <2>2, <2>3, <2>4, <2>5, <2>6 DEF Served
  <1> QED BY <1>2

\* What the owner takes stays in the order it was sent, and so does the reception.
LEMMA TakenOn ==
  ASSUME IsoTyped, NEW p \in End, NEW e \in End, TxBook(p), Stream(p, e), NEW d, Served(e, d)
  PROVE  Taken(e)'
  <1>1. Taken(e) /\ Arrived(p, e) /\ KnownData(p, e)
    BY DEF Stream
  <1>2. /\ link[e].rx_buf \in Seq(Pieces) /\ Len(link[e].rx_buf) \in Nat /\ delivered[e] \in Seq(Seq(Pieces))
        /\ link[e].rx = "receiving" => Len(link[e].rx_buf) >= 1
        /\ link[e].rx = "receiving" => link[e].rx_buf[1] \in Pieces
        /\ Len(delivered[e]) \in Nat
        /\ \A i \in 1 .. Len(wire[e]) : DataAt(e, i) => Place(wire[e][i]) \in Pieces
    BY <1>1, WayTyped DEF Taken
  <1>3. ASSUME DataAt(e, 1)
        PROVE  /\ Place(wire[e][1]) \in Pieces
               /\ \A i \in 1 .. Len(delivered[e]) : Before(delivered[e][i][1], Place(wire[e][1]))
    <2>1. 1 \in 1 .. Len(wire[e])
      BY <1>3 DEF DataAt
    <2>2. \A i \in 1 .. Len(delivered[e]) : Reached(e, delivered[e][i][1])
      BY DEF Reached
    <2> QED BY <1>1, <1>2, <1>3, <2>1, <2>2 DEF Arrived
  <1>4. CASE Left(e)
    BY <1>1, <1>4 DEF Left, Taken
  <1>5. CASE Dropped(e)
    BY <1>1, <1>5 DEF Dropped, Taken
  <1>6. CASE d = 1 /\ Begun(e)
    <2>1. DataAt(e, 1) /\ wire[e][1].type = "FF"
      BY <1>6 DEF Begun, DataAt, FfAt
    <2>2. PICK h : h = Place(wire[e][1])
      OBVIOUS
    <2>3. h[2] = 1
      BY <2>1, <2>2 DEF Place
    <2>4. link'[e].rx_buf = <<h>> /\ <<h>>[1] = h /\ delivered'[e] = delivered[e]
      BY <1>6, <2>2 DEF Begun
    <2> QED BY <1>1, <1>3, <2>1, <2>2, <2>3, <2>4 DEF Taken
  <1>7. CASE d = 1 /\ Grew(e)
    <2>1. DataAt(e, 1) /\ 1 \in 1 .. Len(wire[e])
      BY <1>7 DEF Grew, DataAt, CfAt
    <2>2. PICK h, b : h = Place(wire[e][1]) /\ b = link[e].rx_buf
      OBVIOUS
    <2>3. link'[e].rx_buf = Append(b, h) /\ delivered'[e] = delivered[e] /\ link[e].rx = "receiving"
      BY <1>7, <2>2 DEF Grew
    <2>4. b \in Seq(Pieces) /\ h \in Pieces /\ Len(b) >= 1 /\ Len(b) \in Nat
      BY <1>2, <2>1, <2>2, <2>3
    <2>5. Append(b, h)[1] = b[1]
      BY <2>4
    <2> QED BY <1>1, <2>2, <2>3, <2>5 DEF Taken
  <1>8. ASSUME NEW v \in Seq(Pieces), NEW t, t = delivered[e], delivered'[e] = Append(t, v), link'[e].rx = "idle",
               v[1] \in Pieces, v[1][2] = 1, \A i \in 1 .. Len(t) : Before(t[i][1], v[1])
        PROVE  Taken(e)'
    <2>1. /\ Append(t, v) \in Seq(Seq(Pieces)) /\ Len(Append(t, v)) = Len(t) + 1 /\ Len(t) \in Nat
          /\ \A i \in 1 .. Len(t) : Append(t, v)[i] = t[i]
          /\ Append(t, v)[Len(t) + 1] = v
          /\ \A i \in 1 .. Len(Append(t, v)) : i \in 1 .. Len(t) \/ i = Len(t) + 1
      BY <1>2, <1>8, AppendIs
    <2>2. PICK w : w = Append(t, v)
      OBVIOUS
    <2>3. \A i \in 1 .. Len(w) : w[i][1] \in Pieces /\ w[i][1][2] = 1
      BY <1>1, <1>8, <2>1, <2>2 DEF Taken
    <2>4. ASSUME NEW i \in 1 .. Len(w), NEW j \in 1 .. Len(w), i < j
          PROVE  Before(w[i][1], w[j][1])
      <3>1. i \in 1 .. Len(t)
        BY <2>1, <2>2, <2>4
      <3>2. CASE j \in 1 .. Len(t)
        BY <1>1, <1>8, <2>1, <2>2, <2>4, <3>1, <3>2 DEF Taken
      <3>3. CASE j = Len(t) + 1
        BY <1>8, <2>1, <2>2, <3>1, <3>3
      <3> QED BY <2>1, <2>2, <3>2, <3>3
    <2> QED BY <1>8, <2>1, <2>2, <2>3, <2>4 DEF Taken
  <1>9. CASE d = 1 /\ TookSingle(e)
    <2>1. DataAt(e, 1) /\ wire[e][1].type = "SF"
      BY <1>9 DEF TookSingle
    <2>2. PICK h, t : h = Place(wire[e][1]) /\ t = delivered[e]
      OBVIOUS
    <2>3. h[2] = 1
      BY <2>1, <2>2 DEF Place
    <2>4. h \in Pieces /\ <<h>> \in Seq(Pieces) /\ <<h>>[1] = h
      BY <1>3, <2>1, <2>2
    <2> QED BY <1>3, <1>8, <1>9, <2>1, <2>2, <2>3, <2>4 DEF TookSingle
  <1>10. CASE d = 1 /\ TookLast(e)
    <2>1. DataAt(e, 1) /\ 1 \in 1 .. Len(wire[e]) /\ link[e].rx = "receiving" /\ link'[e].rx = "idle"
      BY <1>10 DEF TookLast, DataAt, CfAt
    <2>2. PICK h, t, b : h = Place(wire[e][1]) /\ t = delivered[e] /\ b = link[e].rx_buf
      OBVIOUS
    <2>3. b \in Seq(Pieces) /\ h \in Pieces /\ Len(b) >= 1 /\ Len(b) \in Nat
      BY <1>2, <2>1, <2>2
    <2>4. PICK v : v = Append(b, h)
      OBVIOUS
    <2>5. v \in Seq(Pieces) /\ v[1] = b[1] /\ delivered'[e] = Append(t, v)
      BY <1>10, <2>2, <2>3, <2>4 DEF TookLast
    <2>6. v[1] \in Pieces /\ v[1][2] = 1 /\ \A i \in 1 .. Len(t) : Before(t[i][1], v[1])
      BY <1>1, <1>2, <2>1, <2>2, <2>5 DEF Taken
    <2> QED BY <1>8, <2>1, <2>2, <2>5, <2>6
  <1> QED BY <1>4, <1>5, <1>6, <1>7, <1>9, <1>10 DEF Served

\* A step that puts no data on the wire keeps it in order, and what arrives before it.
LEMMA StreamQuiet ==
  ASSUME IsoTyped, IsoTyped', NEW p \in End, NEW e \in End, TxBook(p), Stream(p, e), Onward(p),
         NEW d, Moved(e, d), Served(e, d)
  PROVE  Stream(p, e)'
  <1>1. KnownData(p, e) /\ Rising(p, e) /\ Arrived(p, e) /\ Taken(e) /\ TxBook(p)' /\ NotLess(p)
    BY DEF Stream, Onward
  <1>2. Taken(e)'
    BY TakenOn
  <1>3. /\ Upcoming(p) \in Pieces /\ Len(wire[e]) \in Nat
        /\ \A i \in 1 .. Len(wire[e]) : DataAt(e, i) => Place(wire[e][i]) \in Pieces
        /\ \A g : Reached(e, g) => g \in Pieces
    BY <1>1, WayTyped
  <1>4. Upcoming(p)' \in Pieces
    BY <1>1, ComesTyped
  <1>5. /\ \A i : DataAt(e, i)' =>
              /\ i \in 1 .. Len(wire'[e]) /\ i + d \in 1 .. Len(wire[e]) /\ wire'[e][i] = wire[e][i + d]
              /\ DataAt(e, i + d)
        /\ d \in Nat
    BY <1>3, MovedIs
  <1>6. KnownData(p, e)'
    <2>1. ASSUME NEW i \in 1 .. Len(wire'[e]), DataAt(e, i)'
          PROVE  Known(p, wire[e][i])'
      <3>1. PICK f : f = wire'[e][i]
        OBVIOUS
      <3>2. Known(p, f)
        BY <1>1, <1>5, <2>1, <3>1 DEF KnownData
      <3>3. Known(p, f)'
        BY <3>2, KnownOn
      <3> QED BY <3>1, <3>3
    <2> QED BY <2>1 DEF KnownData
  <1>7. Rising(p, e)'
    <2>1. ASSUME NEW i \in 1 .. Len(wire'[e]), NEW j \in 1 .. Len(wire'[e]), i < j, DataAt(e, i)', DataAt(e, j)'
          PROVE  Before(Place(wire'[e][i]), Place(wire'[e][j]))
      <3>1. i + d < j + d
        BY <1>5, <2>1
      <3> QED BY <1>1, <1>5, <2>1, <3>1 DEF Rising
    <2>2. ASSUME NEW i \in 1 .. Len(wire'[e]), DataAt(e, i)'
          PROVE  Before(Place(wire'[e][i]), Upcoming(p)')
      <3>1. PICK g : g = Place(wire'[e][i])
        OBVIOUS
      <3>2. g \in Pieces /\ Before(g, Upcoming(p))
        BY <1>1, <1>3, <1>5, <2>2, <3>1 DEF Rising
      <3> QED BY <1>1, <1>3, <1>4, <3>1, <3>2, UpcomingOn
    <2> QED BY <2>1, <2>2 DEF Rising
  <1>8. Arrived(p, e)'
    <2>1. ASSUME NEW g, Reached(e, g)'
          PROVE  /\ g \in Pieces /\ Before(g, Upcoming(p))
                 /\ \A i \in 1 .. Len(wire'[e]) : DataAt(e, i)' => Before(g, Place(wire'[e][i]))
      <3>1. CASE Reached(e, g)
        BY <1>1, <1>3, <1>5, <3>1 DEF Arrived
      <3>2. CASE d = 1 /\ DataAt(e, 1) /\ g = Place(wire[e][1])
        <4>1. 1 \in 1 .. Len(wire[e])
          BY <3>2 DEF DataAt
        <4>2. ASSUME NEW i \in 1 .. Len(wire'[e]), DataAt(e, i)'
              PROVE  Before(g, Place(wire'[e][i]))
          <5>1. 1 < i + 1
            OBVIOUS
          <5> QED BY <1>1, <1>5, <3>2, <4>1, <4>2, <5>1 DEF Rising
        <4> QED BY <1>1, <1>3, <3>2, <4>1, <4>2 DEF Rising
      <3> QED BY <1>1, <2>1, <3>1, <3>2, ReachedIs
    <2>2. ASSUME NEW g, Reached(e, g)'
          PROVE  Before(g, Upcoming(p)')
      BY <1>1, <1>3, <1>4, <2>1, <2>2, UpcomingOn
    <2> QED BY <2>1, <2>2 DEF Arrived
  <1> QED BY <1>2, <1>6, <1>7, <1>8 DEF Stream

\* A frame of data joined the wire.
Fed(e, f) ==
    /\ wire'[e] = Append(wire[e], f) /\ f \in Frames /\ f.type # "FC"

\* A step that puts what comes next on the wire.
LEMMA StreamFed ==
  ASSUME IsoTyped, IsoTyped', NEW p \in End, NEW e \in End, TxBook(p), Stream(p, e), Onward(p),
         NEW f, Fed(e, f), Left(e), Place(f) = Upcoming(p), Before(Upcoming(p), Upcoming(p)'), Known(p, f)
  PROVE  Stream(p, e)'
  <1>1. KnownData(p, e) /\ Rising(p, e) /\ Arrived(p, e) /\ Taken(e) /\ TxBook(p)' /\ NotLess(p)
    BY DEF Stream, Onward
  <1>2. Taken(e)'
    BY TakenOn DEF Served
  <1>3. /\ Upcoming(p) \in Pieces /\ Len(wire[e]) \in Nat
        /\ \A i \in 1 .. Len(wire[e]) : DataAt(e, i) => Place(wire[e][i]) \in Pieces
        /\ \A g : Reached(e, g) => g \in Pieces
    BY <1>1, WayTyped
  <1>4. Upcoming(p)' \in Pieces
    BY <1>1, ComesTyped
  <1>5. /\ Len(wire'[e]) = Len(wire[e]) + 1
        /\ \A i \in 1 .. Len(wire[e]) : wire'[e][i] = wire[e][i]
        /\ wire'[e][Len(wire[e]) + 1] = f
        /\ \A i \in 1 .. Len(wire'[e]) : i \in 1 .. Len(wire[e]) \/ i = Len(wire[e]) + 1
    <2>1. wire[e] \in Seq(Frames)
      BY DEF IsoTyped, WireTyped
    <2>2. PICK w : w = wire[e]
      OBVIOUS
    <2>3. /\ Len(Append(w, f)) = Len(w) + 1
          /\ \A i \in 1 .. Len(w) : Append(w, f)[i] = w[i]
          /\ Append(w, f)[Len(w) + 1] = f
          /\ \A i \in 1 .. Len(Append(w, f)) : i \in 1 .. Len(w) \/ i = Len(w) + 1
      BY <2>1, <2>2, AppendIs DEF Fed
    <2> QED BY <2>2, <2>3 DEF Fed
  <1>6. \A i \in 1 .. Len(wire[e]) : DataAt(e, i)' => DataAt(e, i)
    BY <1>5 DEF DataAt
  <1>7. KnownData(p, e)'
    <2>1. ASSUME NEW i \in 1 .. Len(wire'[e]), DataAt(e, i)'
          PROVE  Known(p, wire[e][i])'
      <3>1. PICK h : h = wire'[e][i]
        OBVIOUS
      <3>2. Known(p, h)
        BY <1>1, <1>5, <1>6, <2>1, <3>1 DEF KnownData
      <3>3. Known(p, h)'
        BY <3>2, KnownOn
      <3> QED BY <3>1, <3>3
    <2> QED BY <2>1 DEF KnownData
  <1>8. Rising(p, e)'
    <2>1. ASSUME NEW i \in 1 .. Len(wire'[e]), NEW j \in 1 .. Len(wire'[e]), i < j, DataAt(e, i)', DataAt(e, j)'
          PROVE  Before(Place(wire'[e][i]), Place(wire'[e][j]))
      <3>1. i \in 1 .. Len(wire[e])
        BY <1>3, <1>5, <2>1
      <3>2. CASE j \in 1 .. Len(wire[e])
        BY <1>1, <1>5, <1>6, <2>1, <3>1, <3>2 DEF Rising
      <3>3. CASE j = Len(wire[e]) + 1
        <4>1. Place(wire'[e][j]) = Upcoming(p)
          BY <1>5, <3>3
        <4>2. Before(Place(wire[e][i]), Upcoming(p))
          BY <1>1, <1>6, <2>1, <3>1 DEF Rising
        <4> QED BY <1>5, <3>1, <4>1, <4>2
      <3> QED BY <1>5, <3>2, <3>3
    <2>2. ASSUME NEW i \in 1 .. Len(wire'[e]), DataAt(e, i)'
          PROVE  Before(Place(wire'[e][i]), Upcoming(p)')
      <3>1. CASE i \in 1 .. Len(wire[e])
        <4>1. PICK g : g = Place(wire'[e][i])
          OBVIOUS
        <4>2. g \in Pieces /\ Before(g, Upcoming(p))
          BY <1>1, <1>3, <1>5, <1>6, <2>2, <3>1, <4>1 DEF Rising
        <4> QED BY <1>1, <1>3, <1>4, <4>1, <4>2, UpcomingOn
      <3>2. CASE i = Len(wire[e]) + 1
        <4>1. Place(wire'[e][i]) = Upcoming(p)
          BY <1>5, <3>2
        <4> QED BY <4>1
      <3> QED BY <1>5, <3>1, <3>2
    <2> QED BY <2>1, <2>2 DEF Rising
  <1>9. Arrived(p, e)'
    <2>1. ASSUME NEW g, Reached(e, g)'
          PROVE  /\ g \in Pieces /\ Before(g, Upcoming(p))
                 /\ \A i \in 1 .. Len(wire'[e]) : DataAt(e, i)' => Before(g, Place(wire'[e][i]))
      <3>1. Reached(e, g)
        BY <2>1 DEF Reached, Left
      <3>2. g \in Pieces /\ Before(g, Upcoming(p))
        BY <1>1, <1>3, <3>1 DEF Arrived
      <3>3. ASSUME NEW i \in 1 .. Len(wire'[e]), DataAt(e, i)'
            PROVE  Before(g, Place(wire'[e][i]))
        <4>1. CASE i \in 1 .. Len(wire[e])
          BY <1>1, <1>5, <1>6, <3>1, <3>3, <4>1 DEF Arrived
        <4>2. CASE i = Len(wire[e]) + 1
          <5>1. Place(wire'[e][i]) = Upcoming(p)
            BY <1>5, <4>2
          <5> QED BY <3>2, <5>1
        <4> QED BY <1>5, <4>1, <4>2
      <3> QED BY <3>2, <3>3
    <2>2. ASSUME NEW g, Reached(e, g)'
          PROVE  Before(g, Upcoming(p)')
      BY <1>1, <1>3, <1>4, <2>1, <2>2, UpcomingOn
    <2> QED BY <2>1, <2>2 DEF Arrived
  <1> QED BY <1>2, <1>7, <1>8, <1>9 DEF Stream

\* A share that one later piece of the same message joins; a share that is all of it.
LEMMA ShareGrows ==
  ASSUME NEW p, TxBook(p), NEW b \in Seq(Pieces), Len(b) >= 1, NEW m, Share(p, b, m),
         NEW h \in Pieces, h[1] = m, h[2] <= sent[p][m], b[Len(b)][2] < h[2]
  PROVE  Share(p, Append(b, h), m)
  <1>1. PICK n, w : n = Len(b) /\ w = Append(b, h)
    OBVIOUS
  <1>2. /\ n \in Nat /\ n >= 1 /\ Len(w) = n + 1
        /\ \A i \in 1 .. n : w[i] = b[i] /\ b[i] \in Pieces
        /\ w[n + 1] = h
        /\ \A i \in 1 .. Len(w) : i \in 1 .. n \/ i = n + 1
    BY <1>1, AppendIs
  <1>3. \A i \in 1 .. Len(w) : w[i][1] = m /\ w[i][2] <= sent[p][m]
    BY <1>1, <1>2 DEF Share
  <1>4. ASSUME NEW i \in 1 .. Len(w), NEW j \in 1 .. Len(w), i < j
        PROVE  w[i][2] + (j - i) <= w[j][2]
    <2>1. i \in 1 .. n /\ w[i] = b[i] /\ b[i][2] \in Nat
      BY <1>2, <1>4 DEF Pieces
    <2>2. CASE j \in 1 .. n
      BY <1>1, <1>2, <1>4, <2>1, <2>2 DEF Share
    <2>3. CASE j = n + 1
      <3>1. w[j] = h /\ h[2] \in Nat /\ n \in 1 .. n /\ b[n][2] \in Nat
        BY <1>2, <2>3 DEF Pieces
      <3>2. b[i][2] + (n - i) <= b[n][2]
        <4>1. CASE i = n
          BY <2>1, <3>1, <4>1
        <4>2. CASE i < n
          BY <1>1, <2>1, <3>1, <4>2 DEF Share
        <4> QED BY <1>2, <2>1, <4>1, <4>2
      <3>3. PICK x, y, z : x = b[i][2] /\ y = b[n][2] /\ z = h[2]
        OBVIOUS
      <3>4. x \in Nat /\ y \in Nat /\ z \in Nat /\ x + (n - i) <= y /\ y < z
        BY <1>1, <2>1, <3>1, <3>2, <3>3
      <3>5. x + (j - i) <= z
        BY <1>2, <2>1, <2>3, <3>4
      <3> QED BY <2>1, <3>1, <3>3, <3>5
    <2> QED BY <1>2, <2>2, <2>3
  <1> QED BY <1>1, <1>3, <1>4 DEF Share

LEMMA ShareIsWhole ==
  ASSUME NEW p, TxBook(p), NEW b \in Seq(Pieces), NEW m, Share(p, b, m),
         Len(b) >= 1, b[1][2] = 1, Len(b) = sent[p][m]
  PROVE  b = Whole(m, sent[p][m]) /\ m \in 1 .. Len(sent[p])
  <1>1. PICK n : n = Len(b)
    OBVIOUS
  <1>2. n \in Nat /\ n >= 1 /\ 1 \in 1 .. n /\ n \in 1 .. n
    BY <1>1
  <1>3. ASSUME NEW i \in 1 .. n
        PROVE  b[i] = <<m, i>>
    <2>1. b[i] \in Pieces /\ b[n] \in Pieces /\ b[i][1] = m
      BY <1>1, <1>2 DEF Share
    <2>2. b[i] = <<b[i][1], b[i][2]>> /\ b[i][2] \in Nat /\ b[n][2] \in Nat
      BY <2>1 DEF Pieces
    <2>3. i <= b[i][2]
      <3>1. CASE i = 1
        BY <3>1
      <3>2. CASE 1 < i
        <4>1. b[1][2] + (i - 1) <= b[i][2]
          BY <1>1, <1>2, <3>2 DEF Share
        <4>2. 1 + (i - 1) = i
          BY <3>2
        <4> QED BY <4>1, <4>2
      <3> QED BY <3>1, <3>2
    <2>4. b[i][2] + (n - i) <= n
      <3>1. b[n][2] <= n
        BY <1>1, <1>2 DEF Share
      <3>2. CASE i = n
        BY <2>2, <3>1, <3>2
      <3>3. CASE i < n
        <4>1. b[i][2] + (n - i) <= b[n][2]
          BY <1>1, <1>2, <3>3 DEF Share
        <4> QED BY <1>2, <2>2, <3>1, <4>1
      <3> QED BY <1>2, <3>2, <3>3
    <2>5. b[i][2] = i
      BY <1>2, <2>2, <2>3, <2>4
    <2> QED BY <2>1, <2>2, <2>5
  <1>4. b = [i \in 1 .. n |-> b[i]]
    BY <1>1
  <1>5. [i \in 1 .. n |-> b[i]] = [i \in 1 .. n |-> <<m, i>>]
    BY <1>3
  <1> QED BY <1>1, <1>4, <1>5 DEF Whole, Share

\* What was accepted stays, and so do the shares of it.
LEMMA SentOn ==
  ASSUME NEW p \in End, TxBook(p), Onward(p)
  PROVE  /\ Len(sent[p]) \in Nat /\ Len(sent'[p]) \in Nat
         /\ \A m \in 1 .. Len(sent[p]) : m \in 1 .. Len(sent'[p]) /\ sent'[p][m] = sent[p][m]
  <1>1. Len(sent[p]) \in Nat /\ Len(sent'[p]) \in Nat /\ Len(sent[p]) <= Len(sent'[p])
    BY DEF TxBook, Onward, Longer
  <1> QED BY <1>1 DEF Onward, Longer

LEMMA ShareOn ==
  ASSUME NEW p \in End, TxBook(p), Onward(p), NEW b, NEW m, Share(p, b, m)
  PROVE  Share(p, b, m)'
  <1>1. m \in 1 .. Len(sent'[p]) /\ sent'[p][m] = sent[p][m]
    BY SentOn DEF Share
  <1> QED BY <1>1 DEF Share

\* A piece at the head of the wire continues the reception in front of it.
LEMMA PieceJoins ==
  ASSUME IsoTyped, NEW p \in End, NEW e \in End, TxBook(p), Stream(p, e), OwnPieces(p, e), Joins(e),
         CfAt(e, 1), link[e].rx = "receiving"
  PROVE  /\ Share(p, Append(link[e].rx_buf, Place(wire[e][1])), link[e].rx_buf[1][1])
         /\ link[e].rx_buf \in Seq(Pieces) /\ Len(link[e].rx_buf) >= 1 /\ Len(link[e].rx_buf) \in Nat
         /\ Place(wire[e][1]) \in Pieces
  <1>1. PICK b, h, m : b = link[e].rx_buf /\ h = Place(wire[e][1]) /\ m = link[e].rx_buf[1][1]
    OBVIOUS
  <1>2. 1 \in 1 .. Len(wire[e]) /\ DataAt(e, 1) /\ h = wire[e][1].piece
    BY <1>1 DEF CfAt, DataAt, Place
  <1>3. b \in Seq(Pieces) /\ Len(b) >= 1 /\ Len(b) \in Nat /\ h \in Pieces /\ Len(wire[e]) \in Nat
    BY <1>1, <1>2, WayTyped DEF Stream
  <1>4. h[1] = m
    <2>1. Begins(e, 0, m)
      BY <1>1 DEF Begins
    <2>2. 0 \in 0 .. Len(wire[e]) /\ 0 < 1 /\ \A k \in 0 + 1 .. 1 - 1 : ~ FirstAt(e, k)
      BY <1>3
    <2> QED BY <1>2, <2>1, <2>2 DEF Joins
  <1>5. Share(p, b, m) /\ m \in 1 .. Len(sent[p])
    BY <1>1 DEF OwnPieces, Share
  <1>6. h[2] <= sent[p][m] /\ h[2] \in Nat
    <2>1. Known(p, wire[e][1])
      BY <1>2 DEF Stream, KnownData
    <2>2. h[2] \in 1 .. sent[p][m] /\ sent[p][m] \in Nat
      BY SMTT(30), <1>1, <1>4, <1>5, <2>1 DEF Known, TxBook
    <2> QED BY <2>2
  <1>7. b[Len(b)][2] < h[2]
    <2>1. Reached(e, b[Len(b)])
      BY <1>1 DEF Reached
    <2>2. Before(b[Len(b)], h)
      BY <1>1, <1>2, <2>1 DEF Stream, Arrived
    <2>3. b[Len(b)][1] = m /\ m \in Nat
      BY <1>3, <1>5 DEF Share
    <2> QED BY <1>4, <2>2, <2>3 DEF Before
  <1>8. Share(p, Append(b, h), m)
    BY <1>3, <1>4, <1>5, <1>6, <1>7, ShareGrows
  <1> QED BY <1>1, <1>3, <1>8

LEMMA OwnOn ==
  ASSUME IsoTyped, NEW p \in End, NEW e \in End, TxBook(p), Stream(p, e), Onward(p), OwnPieces(p, e), Joins(e),
         NEW d, Served(e, d)
  PROVE  OwnPieces(p, e)'
  <1>1. CASE Left(e)
    <2>1. ASSUME link'[e].rx = "receiving"
          PROVE  Share(p, link[e].rx_buf, link[e].rx_buf[1][1])' /\ link'[e].rx_len = sent'[p][link'[e].rx_buf[1][1]]
      <3>1. PICK b, m : b = link[e].rx_buf /\ m = link[e].rx_buf[1][1]
        OBVIOUS
      <3>2. Share(p, b, m) /\ link[e].rx_len = sent[p][m]
        BY <1>1, <2>1, <3>1 DEF Left, OwnPieces
      <3>3. Share(p, b, m)' /\ sent'[p][m] = sent[p][m]
        BY <3>2, ShareOn, SentOn DEF Share
      <3>4. link'[e].rx_buf = b /\ link'[e].rx_buf[1][1] = m /\ link'[e].rx_len = link[e].rx_len
        BY <1>1, <3>1 DEF Left
      <3> QED BY <3>2, <3>3, <3>4
    <2> QED BY <2>1 DEF OwnPieces
  <1>2. CASE Dropped(e)
    BY <1>2 DEF Dropped, OwnPieces
  <1>3. CASE d = 1 /\ Begun(e)
    <2>1. PICK f, h : f = wire[e][1] /\ h = Place(wire[e][1])
      OBVIOUS
    <2>2. f.type = "FF" /\ h = <<f.id, 1>> /\ 1 \in 1 .. Len(wire[e]) /\ DataAt(e, 1)
      BY <1>3, <2>1 DEF Begun, FfAt, DataAt, Place
    <2>3. Known(p, f)
      BY <2>1, <2>2 DEF Stream, KnownData
    <2>4. h[1] = f.id /\ h[2] = 1
      BY <2>2
    <2>5. f.id \in 1 .. Len(sent[p]) /\ sent[p][f.id] = f.len /\ sent[p][f.id] >= 1
      BY <2>1, <2>2, <2>3, <2>4 DEF Known, TxBook
    <2>6. f.id \in 1 .. Len(sent'[p]) /\ sent'[p][f.id] = f.len
      BY <2>5, SentOn
    <2>7. link'[e].rx_buf = <<h>> /\ link'[e].rx_len = f.len
      BY <1>3, <2>1 DEF Begun
    <2>8. PICK b : b = <<h>>
      OBVIOUS
    <2>9. Len(b) = 1 /\ b[1] = h
      BY <2>8
    <2>10. ASSUME NEW i \in 1 .. Len(b)
           PROVE  b[i][1] = f.id /\ b[i][2] <= sent'[p][f.id]
      <3>1. i = 1
        BY <2>9
      <3>2. 1 <= sent'[p][f.id]
        BY <2>5, <2>6
      <3> QED BY <2>4, <2>9, <3>1, <3>2
    <2>11. \A i, j \in 1 .. Len(b) : i < j => b[i][2] + (j - i) <= b[j][2]
      BY <2>9
    <2>12. Share(p, b, f.id)'
      BY <2>6, <2>10, <2>11 DEF Share
    <2> QED BY <2>4, <2>6, <2>7, <2>8, <2>9, <2>12 DEF OwnPieces
  <1>4. CASE d = 1 /\ Grew(e)
    <2>1. PICK b, h, m : b = link[e].rx_buf /\ h = Place(wire[e][1]) /\ m = link[e].rx_buf[1][1]
      OBVIOUS
    <2>2. CfAt(e, 1) /\ link[e].rx = "receiving" /\ link'[e].rx_buf = Append(b, h) /\ link'[e].rx_len = link[e].rx_len
      BY <1>4, <2>1 DEF Grew
    <2>3. Share(p, Append(b, h), m) /\ b \in Seq(Pieces) /\ Len(b) >= 1 /\ Len(b) \in Nat /\ h \in Pieces
      BY <2>1, <2>2, PieceJoins
    <2>4. Append(b, h)[1] = b[1]
      BY <2>3
    <2>5. PICK w : w = Append(b, h)
      OBVIOUS
    <2>6. Share(p, w, m)' /\ sent'[p][m] = sent[p][m]
      BY <2>3, <2>5, ShareOn, SentOn DEF Share
    <2>7. link[e].rx_len = sent[p][m]
      BY <2>1, <2>2 DEF OwnPieces
    <2>8. link'[e].rx_buf = w /\ link'[e].rx_buf[1][1] = m
      BY <2>1, <2>2, <2>4, <2>5
    <2> QED BY <2>2, <2>6, <2>7, <2>8 DEF OwnPieces
  <1>5. CASE d = 1 /\ (TookSingle(e) \/ TookLast(e))
    BY <1>5 DEF TookSingle, TookLast, OwnPieces
  <1> QED BY <1>1, <1>2, <1>3, <1>4, <1>5 DEF Served

LEMMA IntactOn ==
  ASSUME IsoTyped, NEW p \in End, NEW e \in End, TxBook(p), Stream(p, e), Onward(p), OwnPieces(p, e), Joins(e), Intact(p, e),
         NEW d, Served(e, d)
  PROVE  Intact(p, e)'
  <1>1. PICK t : t = delivered[e]
    OBVIOUS
  <1>2. t \in Seq(Seq(Pieces)) /\ Taken(e) /\ KnownData(p, e)
    BY <1>1 DEF Stream, Taken
  <1>3. ASSUME NEW i \in 1 .. Len(t)
        PROVE  \E m \in 1 .. Len(sent'[p]) : t[i] = Whole(m, sent'[p][m])
    <2>1. PICK m \in 1 .. Len(sent[p]) : t[i] = Whole(m, sent[p][m])
      BY <1>1 DEF Intact
    <2>2. m \in 1 .. Len(sent'[p]) /\ sent'[p][m] = sent[p][m]
      BY SentOn
    <2> QED BY <2>1, <2>2
  <1>4. CASE delivered'[e] = delivered[e]
    BY <1>1, <1>3, <1>4 DEF Intact
  <1>5. ASSUME NEW v \in Seq(Pieces), NEW m \in 1 .. Len(sent[p]), delivered'[e] = Append(t, v), v = Whole(m, sent[p][m])
        PROVE  Intact(p, e)'
    <2>1. /\ \A i \in 1 .. Len(t) : Append(t, v)[i] = t[i]
          /\ Append(t, v)[Len(t) + 1] = v
          /\ \A i \in 1 .. Len(Append(t, v)) : i \in 1 .. Len(t) \/ i = Len(t) + 1
      BY <1>2, AppendIs
    <2>2. PICK w : w = Append(t, v)
      OBVIOUS
    <2>3. m \in 1 .. Len(sent'[p]) /\ v = Whole(m, sent'[p][m])
      BY <1>5, SentOn
    <2>4. ASSUME NEW i \in 1 .. Len(w)
          PROVE  \E k \in 1 .. Len(sent'[p]) : w[i] = Whole(k, sent'[p][k])
      <3>1. CASE i \in 1 .. Len(t)
        BY <1>3, <2>1, <2>2, <3>1
      <3>2. CASE i = Len(t) + 1
        BY <2>1, <2>2, <2>3, <3>2
      <3> QED BY <2>1, <2>2, <3>1, <3>2
    <2> QED BY <1>5, <2>2, <2>4 DEF Intact
  <1>6. CASE d = 1 /\ TookSingle(e)
    <2>1. PICK f, h : f = wire[e][1] /\ h = Place(wire[e][1])
      OBVIOUS
    <2>2. f.type = "SF" /\ h = <<f.id, 1>> /\ 1 \in 1 .. Len(wire[e]) /\ DataAt(e, 1) /\ delivered'[e] = Append(t, <<h>>)
      BY <1>1, <1>6, <2>1 DEF TookSingle, DataAt, Place
    <2>3. Known(p, f)
      BY <1>2, <2>1, <2>2 DEF KnownData
    <2>4. f.id \in 1 .. Len(sent[p]) /\ sent[p][f.id] = 1
      <3>1. Place(f)[1] = f.id
        BY <2>1, <2>2
      <3> QED BY <2>2, <2>3, <3>1 DEF Known
    <2>5. h \in Pieces /\ <<h>> \in Seq(Pieces)
      <3>1. f.id \in Nat
        BY <2>4
      <3> QED BY <2>2, <3>1 DEF Pieces
    <2>6. <<h>> = Whole(f.id, sent[p][f.id])
      <3>1. <<h>> = [i \in 1 .. 1 |-> <<f.id, i>>]
        BY <2>2
      <3> QED BY <2>4, <3>1 DEF Whole
    <2> QED BY <1>5, <2>2, <2>4, <2>5, <2>6
  <1>7. CASE d = 1 /\ TookLast(e)
    <2>1. PICK b, h, m : b = link[e].rx_buf /\ h = Place(wire[e][1]) /\ m = link[e].rx_buf[1][1]
      OBVIOUS
    <2>2. /\ CfAt(e, 1) /\ link[e].rx = "receiving" /\ delivered'[e] = Append(t, Append(b, h))
          /\ Len(b) + 1 = link[e].rx_len
      BY <1>1, <1>7, <2>1 DEF TookLast
    <2>3. Share(p, Append(b, h), m) /\ b \in Seq(Pieces) /\ Len(b) >= 1 /\ Len(b) \in Nat /\ h \in Pieces
      BY <2>1, <2>2, PieceJoins
    <2>4. PICK v : v = Append(b, h)
      OBVIOUS
    <2>5. v \in Seq(Pieces) /\ Len(v) = Len(b) + 1 /\ v[1] = b[1]
      BY <2>3, <2>4
    <2>6. link[e].rx_len = sent[p][m] /\ b[1][2] = 1
      BY <1>2, <2>1, <2>2 DEF OwnPieces, Taken
    <2>7. Len(v) >= 1 /\ v[1][2] = 1 /\ Len(v) = sent[p][m] /\ Share(p, v, m)
      BY <2>2, <2>3, <2>4, <2>5, <2>6
    <2>8. v = Whole(m, sent[p][m]) /\ m \in 1 .. Len(sent[p])
      BY <2>5, <2>7, ShareIsWhole
    <2> QED BY <1>5, <2>2, <2>4, <2>5, <2>8
  <1> QED BY <1>4, <1>6, <1>7 DEF Served, Left, Dropped, Begun, Grew

\* What begins a message after a step began it before, and nothing has come between.
LEMMA BeginsOn ==
  ASSUME IsoTyped, NEW p \in End, NEW e \in End, TxBook(p), Taken(e), NEW d, Moved(e, d), Served(e, d),
         NEW i \in 0 .. Len(wire'[e]), NEW m, Begins(e, i, m)'
  PROVE  \E j \in 0 .. Len(wire[e]) : /\ Begins(e, j, m) /\ j <= i + d
                                      /\ \A k \in j + 1 .. i + d : ~ FirstAt(e, k)
  <1>1. /\ \A k : DataAt(e, k)' =>
              /\ k + d \in 1 .. Len(wire[e]) /\ wire'[e][k] = wire[e][k + d]
              /\ (FfAt(e, k)' => FfAt(e, k + d))
        /\ \A k : FfAt(e, k)' => DataAt(e, k)'
        /\ d \in Nat /\ d \in {0, 1} /\ Len(wire[e]) \in Nat
        /\ link[e].rx = "receiving" => Len(link[e].rx_buf) >= 1
        /\ link[e].rx_buf \in Seq(Pieces)
        /\ \A k \in 1 .. Len(wire[e]) : DataAt(e, k) => Place(wire[e][k]) \in Pieces
    <2>1. Len(wire[e]) \in Nat
      BY WayTyped
    <2>2. d \in Nat /\ d \in {0, 1}
      BY <2>1, MovedIs DEF Moved
    <2> QED BY <2>1, <2>2, WayTyped, MovedIs
  <1>2. CASE FfAt(e, i)' /\ wire'[e][i].id = m
    <2>1. i + d \in 1 .. Len(wire[e]) /\ FfAt(e, i + d) /\ wire[e][i + d].id = m
      BY <1>1, <1>2
    <2>2. Begins(e, i + d, m) /\ i + d \in 0 .. Len(wire[e]) /\ i + d <= i + d
      BY <1>1, <2>1 DEF Begins
    <2>3. \A k \in (i + d) + 1 .. i + d : ~ FirstAt(e, k)
      BY <1>1
    <2> QED BY <2>2, <2>3
  <1>3. CASE i = 0 /\ link'[e].rx = "receiving" /\ link'[e].rx_buf[1][1] = m
    <2>1. CASE Left(e) /\ (d = 1 /\ link[e].rx = "receiving" => ~ FirstAt(e, 1))
      <3>1. Begins(e, 0, m) /\ link[e].rx = "receiving"
        BY <1>3, <2>1 DEF Left, Begins
      <3>2. ASSUME NEW k \in 0 + 1 .. i + d
            PROVE  ~ FirstAt(e, k)
        <4>1. d = 1 /\ k = 1
          BY <1>1, <1>3, <3>2
        <4> QED BY <2>1, <3>1, <4>1
      <3> QED BY <1>1, <1>3, <3>1, <3>2
    <2>2. CASE Dropped(e)
      BY <1>3, <2>2 DEF Dropped
    <2>3. CASE d = 1 /\ Begun(e)
      <3>1. PICK f, h : f = wire[e][1] /\ h = Place(wire[e][1])
        OBVIOUS
      <3>2. FfAt(e, 1) /\ f.type = "FF" /\ h = <<f.id, 1>> /\ 1 \in 1 .. Len(wire[e])
        BY <2>3, <3>1 DEF Begun, FfAt, Place
      <3>3. link'[e].rx_buf = <<h>> /\ <<h>>[1] = h /\ h[1] = f.id
        BY <2>3, <3>1, <3>2 DEF Begun
      <3>4. f.id = m
        BY <1>3, <3>3
      <3>5. Begins(e, 1, m)
        BY <3>1, <3>2, <3>4 DEF Begins
      <3>6. 1 \in 0 .. Len(wire[e]) /\ 1 <= i + d /\ \A k \in 1 + 1 .. i + d : ~ FirstAt(e, k)
        BY <1>1, <1>3, <2>3, <3>2
      <3> QED BY <3>5, <3>6
    <2>4. CASE d = 1 /\ Grew(e)
      <3>1. PICK b, h : b = link[e].rx_buf /\ h = Place(wire[e][1])
        OBVIOUS
      <3>2. CfAt(e, 1) /\ link[e].rx = "receiving" /\ link'[e].rx_buf = Append(b, h)
        BY <2>4, <3>1 DEF Grew
      <3>3. 1 \in 1 .. Len(wire[e]) /\ DataAt(e, 1) /\ ~ FirstAt(e, 1)
        BY <3>2 DEF CfAt, DataAt, FirstAt
      <3>4. b \in Seq(Pieces) /\ Len(b) >= 1 /\ h \in Pieces
        BY <1>1, <3>1, <3>2, <3>3
      <3>5. Append(b, h)[1] = b[1]
        BY <3>4
      <3>6. Begins(e, 0, m)
        BY <1>3, <3>1, <3>2, <3>5 DEF Begins
      <3>7. ASSUME NEW k \in 0 + 1 .. i + d
            PROVE  ~ FirstAt(e, k)
        <4>1. k = 1
          BY <1>3, <2>4, <3>7
        <4> QED BY <3>3, <4>1
      <3> QED BY <1>1, <1>3, <3>6, <3>7
    <2>5. CASE d = 1 /\ (TookSingle(e) \/ TookLast(e))
      BY <1>3, <2>5 DEF TookSingle, TookLast
    <2> QED BY <2>1, <2>2, <2>3, <2>4, <2>5 DEF Served
  <1> QED BY <1>2, <1>3 DEF Begins

LEMMA JoinsOn ==
  ASSUME IsoTyped, NEW p \in End, NEW e \in End, TxBook(p), Taken(e), Joins(e), NEW d, Moved(e, d), Served(e, d),
         Len(wire'[e]) \in Nat
  PROVE  Joins(e)' /\ \A m : Newest(e, m)' => Newest(e, m)
  <1>1. /\ \A k : DataAt(e, k)' =>
              /\ k + d \in 1 .. Len(wire[e]) /\ wire'[e][k] = wire[e][k + d]
              /\ (CfAt(e, k)' => CfAt(e, k + d))
        /\ \A k : CfAt(e, k)' => DataAt(e, k)'
        /\ \A k : FirstAt(e, k) /\ k > d => FirstAt(e, k - d)'
        /\ d \in Nat /\ Len(wire[e]) \in Nat
    BY WayTyped, MovedIs
  <1>2. ASSUME NEW m, NEW i \in 0 .. Len(wire'[e]), NEW j \in 1 .. Len(wire'[e]),
               Begins(e, i, m)', CfAt(e, j)', i < j, \A k \in i + 1 .. j - 1 : ~ FirstAt(e, k)'
        PROVE  wire'[e][j].piece[1] = m
    <2>1. PICK a \in 0 .. Len(wire[e]) : Begins(e, a, m) /\ a <= i + d /\ \A k \in a + 1 .. i + d : ~ FirstAt(e, k)
      BY <1>2, BeginsOn
    <2>2. j + d \in 1 .. Len(wire[e]) /\ CfAt(e, j + d) /\ wire'[e][j] = wire[e][j + d] /\ a < j + d
      BY <1>1, <1>2, <2>1
    <2>3. ASSUME NEW k \in a + 1 .. (j + d) - 1, FirstAt(e, k)
          PROVE  FALSE
      <3>1. k > i + d
        BY <1>1, <2>1, <2>3
      <3>2. k > d /\ k - d \in i + 1 .. j - 1
        BY <1>1, <2>3, <3>1
      <3>3. FirstAt(e, k - d)'
        BY <1>1, <2>3, <3>2
      <3> QED BY <1>2, <3>2, <3>3
    <2> QED BY <2>1, <2>2, <2>3 DEF Joins
  <1>3. ASSUME NEW m, Newest(e, m)'
        PROVE  Newest(e, m)
    <2>1. PICK i \in 0 .. Len(wire'[e]) : Begins(e, i, m)' /\ \A k \in i + 1 .. Len(wire'[e]) : ~ FirstAt(e, k)'
      BY <1>3 DEF Newest
    <2>2. PICK a \in 0 .. Len(wire[e]) : Begins(e, a, m) /\ a <= i + d /\ \A k \in a + 1 .. i + d : ~ FirstAt(e, k)
      BY <2>1, BeginsOn
    <2>3. ASSUME NEW k \in a + 1 .. Len(wire[e]), FirstAt(e, k)
          PROVE  FALSE
      <3>1. k > i + d
        BY <1>1, <2>2, <2>3
      <3>2. k > d
        BY <1>1, <3>1
      <3>3. FirstAt(e, k - d)'
        BY <1>1, <2>3, <3>2
      <3>4. k - d \in 1 .. Len(wire'[e])
        BY <3>3 DEF FirstAt
      <3>5. k - d \in i + 1 .. Len(wire'[e])
        BY <1>1, <3>1, <3>4
      <3> QED BY <2>1, <3>3, <3>5
    <2> QED BY <2>2, <2>3 DEF Newest
  <1> QED BY <1>2, <1>3 DEF Joins

LEMMA ContentQuiet ==
  ASSUME IsoTyped, IsoTyped', NEW p \in End, NEW e \in End, TxBook(p), Stream(p, e), Onward(p), Content(p, e),
         NEW d, Moved(e, d), Served(e, d), losses' = 0 => losses = 0 /\ SameMessage(p)
  PROVE  Content(p, e)'
  <1>1. OwnPieces(p, e) /\ Joins(e) /\ Intact(p, e) /\ Taken(e)
    BY DEF Content, Stream
  <1>2. OwnPieces(p, e)' /\ Intact(p, e)'
    BY <1>1, OwnOn, IntactOn
  <1>3. Len(wire'[e]) \in Nat
    BY SizesAre DEF IsoTyped, WireTyped
  <1>4. Joins(e)' /\ \A m : Newest(e, m)' => Newest(e, m)
    BY <1>1, <1>3, JoinsOn
  <1>5. losses' = 0 /\ link'[p].tx \in {"wait_fc", "send_cf"} => Current(p, e)'
    BY <1>4 DEF Content, Current, SameMessage
  <1> QED BY <1>2, <1>4, <1>5 DEF Content

\* A frame of data that continues the message begun last, or begins the sender's own.
Leads(p, e, f) ==
    /\ f.type = "CF" => \A m : Newest(e, m) => m = f.piece[1]
    /\ link'[p].tx \in {"wait_fc", "send_cf"} => f.type # "SF" /\ Place(f)[1] = link'[p].tx_buf.id

LEMMA ContentFed ==
  ASSUME IsoTyped, IsoTyped', NEW p \in End, NEW e \in End, TxBook(p), Stream(p, e), Onward(p), Content(p, e),
         NEW f, Fed(e, f), Left(e), Leads(p, e, f)
  PROVE  Content(p, e)'
  <1>1. OwnPieces(p, e) /\ Joins(e) /\ Intact(p, e) /\ Taken(e)
    BY DEF Content, Stream
  <1>2. OwnPieces(p, e)' /\ Intact(p, e)'
    <2>1. Served(e, 0)
      BY DEF Served
    <2> QED BY <1>1, <2>1, OwnOn, IntactOn
  <1>3. PICK n : n = Len(wire[e])
    OBVIOUS
  <1>4. /\ n \in Nat /\ Len(wire'[e]) = n + 1
        /\ \A i \in 1 .. n : wire'[e][i] = wire[e][i]
        /\ wire'[e][n + 1] = f
    <2>1. wire[e] \in Seq(Frames)
      BY DEF IsoTyped, WireTyped
    <2>2. PICK w : w = wire[e]
      OBVIOUS
    <2>3. /\ Len(w) \in Nat /\ Len(Append(w, f)) = Len(w) + 1
          /\ \A i \in 1 .. Len(w) : Append(w, f)[i] = w[i]
          /\ Append(w, f)[Len(w) + 1] = f
      BY <2>1, <2>2, AppendIs DEF Fed
    <2> QED BY <1>3, <2>2, <2>3 DEF Fed
  <1>5. /\ f.type \in {"SF", "FF", "CF"}
        /\ f.type = "CF" => Place(f) = f.piece
        /\ f.type # "CF" => Place(f)[1] = f.id
    BY DEF Fed, Frames, Place
  <1>6. \A k \in 1 .. n : /\ FirstAt(e, k) <=> FirstAt(e, k)'
                          /\ CfAt(e, k)' => CfAt(e, k)
                          /\ FfAt(e, k)' => FfAt(e, k)
    BY <1>3, <1>4 DEF FirstAt, CfAt, FfAt
  <1>7. ASSUME NEW m, NEW i \in 0 .. n + 1, Begins(e, i, m)'
        PROVE  (i \in 0 .. n /\ Begins(e, i, m)) \/ (i = n + 1 /\ f.type = "FF" /\ f.id = m)
    <2>1. CASE i = 0 /\ link'[e].rx = "receiving" /\ link'[e].rx_buf[1][1] = m
      BY <1>4, <2>1 DEF Left, Begins
    <2>2. CASE FfAt(e, i)' /\ wire'[e][i].id = m
      <3>1. i \in 1 .. n + 1 /\ wire'[e][i].type = "FF"
        BY <1>4, <2>2 DEF FfAt
      <3>2. CASE i = n + 1
        BY <1>4, <2>2, <3>1, <3>2
      <3>3. CASE i \in 1 .. n
        BY <1>4, <1>6, <2>2, <3>3 DEF Begins
      <3> QED BY <1>4, <3>1, <3>2, <3>3
    <2> QED BY <1>7, <2>1, <2>2 DEF Begins
  <1>8. ASSUME NEW m, NEW i \in 0 .. n, Begins(e, i, m), \A k \in i + 1 .. n : ~ FirstAt(e, k)'
        PROVE  Newest(e, m)
    <2>1. \A k \in i + 1 .. n : ~ FirstAt(e, k)
      BY <1>4, <1>6, <1>8
    <2> QED BY <1>3, <1>8, <2>1 DEF Newest
  <1>9. ASSUME NEW m, NEW i \in 0 .. n + 1, NEW j \in 1 .. n + 1,
               Begins(e, i, m)', CfAt(e, j)', i < j, \A k \in i + 1 .. j - 1 : ~ FirstAt(e, k)'
        PROVE  wire'[e][j].piece[1] = m
    <2>1. i \in 0 .. n /\ Begins(e, i, m)
      BY <1>4, <1>7, <1>9
    <2>2. CASE j \in 1 .. n
      <3>1. \A k \in i + 1 .. j - 1 : ~ FirstAt(e, k)
        <4>1. \A k \in i + 1 .. j - 1 : k \in 1 .. n
          BY <1>4, <2>1, <2>2
        <4> QED BY <1>6, <1>9, <4>1
      <3> QED BY <1>1, <1>3, <1>4, <1>6, <1>9, <2>1, <2>2, <3>1 DEF Joins
    <2>3. CASE j = n + 1
      <3>1. f.type = "CF" /\ wire'[e][j] = f
        BY <1>4, <1>9, <2>3 DEF CfAt
      <3>2. \A k \in i + 1 .. n : ~ FirstAt(e, k)'
        BY <1>4, <1>9, <2>3
      <3>3. Newest(e, m)
        BY <1>8, <2>1, <3>2
      <3> QED BY <3>1, <3>3 DEF Leads
    <2> QED BY <1>4, <2>2, <2>3
  <1>10. Joins(e)'
    BY <1>4, <1>9 DEF Joins
  <1>11. ASSUME NEW m, Newest(e, m)', link'[p].tx \in {"wait_fc", "send_cf"}
         PROVE  m = link'[p].tx_buf.id
    <2>1. PICK i \in 0 .. n + 1 : Begins(e, i, m)' /\ \A k \in i + 1 .. n + 1 : ~ FirstAt(e, k)'
      BY <1>4, <1>11 DEF Newest
    <2>2. CASE i = n + 1 /\ f.type = "FF" /\ f.id = m
      BY <1>5, <1>11, <2>2 DEF Leads
    <2>3. CASE i \in 0 .. n /\ Begins(e, i, m)
      <3>1. ~ FirstAt(e, n + 1)'
        BY <1>4, <2>1, <2>3
      <3>2. f.type = "CF"
        BY <1>4, <1>5, <3>1 DEF FirstAt
      <3>3. \A k \in i + 1 .. n : ~ FirstAt(e, k)'
        BY <1>4, <2>1, <2>3
      <3>4. Newest(e, m)
        BY <1>8, <2>3, <3>3
      <3> QED BY <1>5, <1>11, <3>2, <3>4 DEF Leads
    <2> QED BY <1>7, <2>1, <2>2, <2>3
  <1> QED BY <1>2, <1>10, <1>11 DEF Content, Current

\* A direction is kept by a step that puts no data on the wire, and by one that puts on it
\* what comes next.
Later == (losses' = 0 => losses = 0) /\ (~ stale' => ~ stale)

LEMMA QuietKeeps ==
  ASSUME IsoTyped, IsoTyped', Later, NEW p \in End, NEW e \in End, TxBook(p), Way(p, e), Onward(p),
         NEW d, Moved(e, d), Served(e, d), losses' = 0 => SameMessage(p)
  PROVE  Way(p, e)'
  <1>1. Stream(p, e) /\ Stream(p, e)'
    BY StreamQuiet DEF Way
  <1>2. ASSUME losses' = 0 \/ ~ stale'
        PROVE  Content(p, e)'
    <2>1. Content(p, e)
      BY <1>2 DEF Later, Way
    <2>2. losses' = 0 => losses = 0 /\ SameMessage(p)
      BY DEF Later
    <2> QED BY <1>1, <2>1, <2>2, ContentQuiet
  <1> QED BY <1>1, <1>2 DEF Way

LEMMA FedKeeps ==
  ASSUME IsoTyped, IsoTyped', Later, NEW p \in End, NEW e \in End, TxBook(p), Way(p, e), Onward(p),
         NEW f, Fed(e, f), Left(e), Place(f) = Upcoming(p), Before(Upcoming(p), Upcoming(p)'), Known(p, f),
         Content(p, e) /\ (losses = 0 \/ ~ stale) => Leads(p, e, f)
  PROVE  Way(p, e)'
  <1>1. Stream(p, e) /\ Stream(p, e)'
    BY StreamFed DEF Way
  <1>2. ASSUME losses' = 0 \/ ~ stale'
        PROVE  Content(p, e)'
    <2>1. Content(p, e) /\ (losses = 0 \/ ~ stale)
      BY <1>2 DEF Later, Way
    <2>2. Leads(p, e, f)
      BY <2>1
    <2> QED BY <1>1, <2>1, <2>2, ContentFed
  <1> QED BY <1>1, <1>2 DEF Way

\* A wire that stays, one that gains flow control, and one that loses its oldest frame.
LEMMA WireStays ==
  ASSUME IsoTyped, NEW e \in End, wire'[e] = wire[e]
  PROVE  Moved(e, 0)
  <1>1. Len(wire[e]) \in Nat
    BY SizesAre DEF IsoTyped, WireTyped
  <1>2. \A i \in 1 .. Len(wire[e]) : i - 0 = i /\ i + 0 = i
    OBVIOUS
  <1> QED BY <1>1, <1>2 DEF Moved

LEMMA WireGains ==
  ASSUME IsoTyped, NEW e \in End, NEW f \in Frames, f.type = "FC", wire'[e] = Append(wire[e], f)
  PROVE  Moved(e, 0)
  <1>1. /\ Len(wire[e]) \in Nat /\ Len(wire'[e]) = Len(wire[e]) + 1
        /\ \A i \in 1 .. Len(wire[e]) : wire'[e][i] = wire[e][i]
        /\ wire'[e][Len(wire[e]) + 1] = f
        /\ \A i \in 1 .. Len(wire'[e]) : i \in 1 .. Len(wire[e]) \/ i = Len(wire[e]) + 1
    BY FramePut
  <1>2. \A i \in 1 .. Len(wire[e]) : i - 0 = i /\ i \in 1 .. Len(wire'[e])
    BY <1>1
  <1>3. \A i \in 1 .. Len(wire'[e]) : i + 0 = i
    OBVIOUS
  <1> QED BY <1>1, <1>2, <1>3 DEF Moved

LEMMA WireLoses ==
  ASSUME IsoTyped, NEW e \in End, wire[e] # <<>>, wire'[e] = Tail(wire[e])
  PROVE  Moved(e, 1)
  <1>1. /\ 1 \in 1 .. Len(wire[e]) /\ Len(wire'[e]) = Len(wire[e]) - 1
        /\ \A i \in 1 .. Len(wire'[e]) : i + 1 \in 1 .. Len(wire[e]) /\ wire'[e][i] = wire[e][i + 1]
    BY HeadTaken
  <1>2. Len(wire[e]) \in Nat
    BY SizesAre DEF IsoTyped, WireTyped
  <1>3. \A i \in 1 .. Len(wire[e]) : i > 1 => i - 1 \in 1 .. Len(wire'[e]) /\ (i - 1) + 1 = i
    BY <1>1, <1>2
  <1>4. \A i \in 1 .. Len(wire[e]) : i > 1 => wire'[e][i - 1] = wire[e][i]
    BY <1>1, <1>3
  <1> QED BY <1>1, <1>2, <1>3, <1>4 DEF Moved

\* A transmission that stays where it is, or ends.
Steady(p) ==
    /\ sent'[p] = sent[p]
    /\ \/ link'[p].tx = "idle"
       \/ /\ link'[p].tx_buf = link[p].tx_buf /\ link'[p].tx_pos = link[p].tx_pos
          /\ \/ link'[p].tx = link[p].tx
             \/ link'[p].tx \in {"wait_fc", "send_cf"} /\ link[p].tx \in {"wait_fc", "send_cf"}

LEMMA MessageOver ==
  ASSUME IsoTyped, NEW p \in End, TxBook(p), link[p].tx # "idle", link'[p].tx = "idle", sent'[p] = sent[p]
  PROVE  Before(Upcoming(p), Upcoming(p)')
  <1>1. PICK n : n = Len(sent[p])
    OBVIOUS
  <1>2. n \in Nat
    BY <1>1 DEF TxBook
  <1>3. Upcoming(p)[1] = n /\ Upcoming(p)'[1] = n + 1
    BY <1>1 DEF Upcoming
  <1> QED BY <1>2, <1>3 DEF Before

LEMMA SteadyIs ==
  ASSUME IsoTyped, NEW p \in End, TxBook(p), Steady(p)
  PROVE  Onward(p) /\ SameMessage(p)
  <1>1. sent'[p] = sent[p] /\ Len(sent[p]) \in Nat
    BY DEF Steady, TxBook
  <1>2. Longer(p)
    BY <1>1 DEF Longer
  <1>3. CASE link'[p].tx = "idle"
    <2>1. TxBook(p)' /\ SameMessage(p)
      BY <1>1, <1>3 DEF TxBook, SameMessage
    <2>2. link[p].tx = "idle" => Upcoming(p)' = Upcoming(p)
      BY <1>1, <1>3 DEF Upcoming
    <2>3. NotLess(p)
      BY <1>1, <1>3, <2>2, MessageOver DEF NotLess
    <2> QED BY <1>2, <2>1, <2>3 DEF Onward
  <1>4. CASE /\ link'[p].tx_buf = link[p].tx_buf /\ link'[p].tx_pos = link[p].tx_pos /\ link'[p].tx = link[p].tx
    <2>1. TxBook(p)' /\ SameMessage(p)
      BY <1>1, <1>4 DEF TxBook, SameMessage
    <2>2. Upcoming(p)' = Upcoming(p)
      BY <1>1, <1>4 DEF Upcoming
    <2> QED BY <1>2, <2>1, <2>2 DEF Onward, NotLess
  <1>5. CASE /\ link'[p].tx_buf = link[p].tx_buf /\ link'[p].tx_pos = link[p].tx_pos
             /\ link'[p].tx \in {"wait_fc", "send_cf"} /\ link[p].tx \in {"wait_fc", "send_cf"}
    <2>1. TxBook(p)' /\ SameMessage(p)
      BY <1>1, <1>5 DEF TxBook, SameMessage
    <2>2. Upcoming(p)' = Upcoming(p)
      BY <1>1, <1>5 DEF Upcoming
    <2> QED BY <1>2, <2>1, <2>2 DEF Onward, NotLess
  <1> QED BY <1>3, <1>4, <1>5 DEF Steady

\* A first or a consecutive frame that was not the last.
LEMMA PieceGone ==
  ASSUME IsoTyped, NEW p \in End, TxBook(p), link[p].tx # "idle", link'[p].tx \in {"wait_fc", "send_cf"},
         sent'[p] = sent[p], link'[p].tx_buf = link[p].tx_buf,
         NEW n, n = (IF link[p].tx = "send_ff" THEN 0 ELSE link[p].tx_pos),
         link[p].tx \in {"send_ff", "send_cf"}, link'[p].tx_pos = n + 1, n + 1 < link[p].tx_buf.len
  PROVE  Onward(p) /\ Before(Upcoming(p), Upcoming(p)')
  <1>1. Len(sent[p]) \in Nat /\ n \in Nat /\ Longer(p)
    BY DEF TxBook, IsoTyped, LinkTyped, TxTyped, Longer
  <1>2. TxBook(p)'
    BY <1>1 DEF TxBook
  <1>3. Upcoming(p) = <<Len(sent[p]), n + 1>> /\ Upcoming(p)' = <<Len(sent[p]), n + 2>>
    BY <1>1 DEF Upcoming
  <1>4. Before(Upcoming(p), Upcoming(p)')
    BY <1>1, <1>3 DEF Before
  <1> QED BY <1>1, <1>2, <1>4 DEF Onward, NotLess

\* What poll does to the transmission, and what the frame carries.
LEMMA PolledOn ==
  ASSUME IsoTyped, NEW x \in End, TxBook(x), NEW l, NEW r, l = link[x], r = link'[x], Polled(x, l, r), sent'[x] = sent[x]
  PROVE  /\ Onward(x)
         /\ l.fc_ovflw \/ l.fc_send => SameMessage(x)
         /\ ~ l.fc_ovflw /\ ~ l.fc_send => Before(Upcoming(x), Upcoming(x)')
         /\ ~ l.fc_ovflw /\ ~ l.fc_send => l.tx # "idle" /\ (l.tx = "send_sf" => r.tx = "idle")
                                           /\ (r.tx \in {"wait_fc", "send_cf"} => r.tx_buf = l.tx_buf)
  <1>1. CASE PolledRefusal(l, r) \/ PolledClear(l, r)
    <2>1. Steady(x) /\ (l.fc_ovflw \/ l.fc_send)
      BY <1>1 DEF PolledRefusal, PolledClear, SameTx, Steady
    <2> QED BY <2>1, SteadyIs
  <1>2. CASE PolledSingle(l, r)
    <2>1. Steady(x) /\ l.tx = "send_sf" /\ r.tx = "idle" /\ ~ l.fc_ovflw /\ ~ l.fc_send
      BY <1>2 DEF PolledSingle, Steady
    <2> QED BY <2>1, SteadyIs, MessageOver
  <1>3. CASE PolledFirst(l, r)
    <2>1. l.tx = "send_ff" /\ r.tx = "wait_fc" /\ r.tx_pos = 0 + 1 /\ r.tx_buf = l.tx_buf /\ ~ l.fc_ovflw /\ ~ l.fc_send
      BY <1>3 DEF PolledFirst
    <2>2. 0 + 1 < l.tx_buf.len
      <3>1. TxTyped(x, l)
        BY DEF IsoTyped, LinkTyped
      <3> QED BY <2>1, <3>1 DEF TxTyped
    <2> QED BY <2>1, <2>2, PieceGone
  <1>4. CASE PolledPiece(x, l, r)
    <2>1. l.tx = "send_cf" /\ SentPiece(x, l, r) /\ ~ l.fc_ovflw /\ ~ l.fc_send
      BY <1>4 DEF PolledPiece
    <2>2. CASE r.tx = "idle"
      <3>1. Steady(x)
        BY <2>2 DEF Steady
      <3> QED BY <2>1, <2>2, <3>1, SteadyIs, MessageOver
    <2>3. CASE r.tx # "idle"
      <3>1. /\ r.tx \in {"wait_fc", "send_cf"} /\ r.tx_buf = l.tx_buf /\ r.tx_pos = l.tx_pos + 1
            /\ l.tx_pos + 1 < l.tx_buf.len
        BY <2>1, <2>3 DEF SentPiece
      <3> QED BY <2>1, <3>1, PieceGone
    <2> QED BY <2>2, <2>3
  <1> QED BY <1>1, <1>2, <1>3, <1>4 DEF Polled

\* The frame that poll gives is what comes next, and is of the message that is sent.
LEMMA PolledCarries ==
  ASSUME IsoTyped, NEW x \in End, TxBook(x), NEW l, l = link[x], NEW f, PolledFrame(x, l, f), f.type # "FC"
  PROVE  Place(f) = Upcoming(x) /\ Known(x, f) /\ Place(f)[1] = l.tx_buf.id
         /\ (f.type = "SF" => l.tx = "send_sf") /\ (f.type = "CF" => l.tx = "send_cf")
  <1>1. f.type \in {"SF", "FF", "CF"}
    BY DEF PolledFrame, FrameTyped, Frames
  <1>2. PICK n : n = Len(sent[x])
    OBVIOUS
  <1>3. f.type = "SF" => l.tx = "send_sf" /\ f.id = l.tx_buf.id
    BY DEF PolledFrame
  <1>4. f.type = "FF" => l.tx = "send_ff" /\ f.len = l.tx_buf.len /\ f.id = l.tx_buf.id
    BY DEF PolledFrame
  <1>5. f.type = "CF" => l.tx = "send_cf" /\ f.piece = <<l.tx_buf.id, l.tx_pos + 1>>
    BY DEF PolledFrame
  <1>6. l.tx # "idle"
    BY <1>1, <1>3, <1>4, <1>5
  <1>7. /\ n \in Nat /\ n >= 1 /\ l.tx_buf.id = n /\ l.tx_buf.len = sent[x][n] /\ sent[x][n] \in Nat /\ sent[x][n] >= 1
        /\ (l.tx = "send_sf" => l.tx_buf.len = 1) /\ l.tx_pos \in Nat
        /\ (l.tx = "send_cf" => l.tx_pos < l.tx_buf.len)
    <2>1. n \in Nat /\ n >= 1 /\ l.tx_buf.id = n /\ l.tx_buf.len = sent[x][n]
      BY <1>2, <1>6 DEF TxBook
    <2>2. n \in 1 .. Len(sent[x])
      BY <1>2, <2>1
    <2>3. TxTyped(x, l)
      BY DEF IsoTyped, LinkTyped
    <2> QED BY <2>1, <2>2, <2>3 DEF TxBook, TxTyped
  <1>8. Upcoming(x) = <<n, IF l.tx = "send_cf" THEN l.tx_pos + 1 ELSE 1>>
    BY <1>1, <1>2, <1>3, <1>4, <1>5, <1>6 DEF Upcoming
  <1>9. CASE f.type = "CF"
    <2>1. Place(f) = <<n, l.tx_pos + 1>>
      BY <1>5, <1>7, <1>9 DEF Place
    <2>2. l.tx_pos + 1 \in 1 .. sent[x][n] /\ n \in 1 .. Len(sent[x])
      BY <1>2, <1>5, <1>7, <1>9
    <2> QED BY <1>5, <1>7, <1>8, <1>9, <2>1, <2>2 DEF Known
  <1>10. CASE f.type # "CF"
    <2>1. Place(f) = <<n, 1>>
      BY <1>1, <1>3, <1>4, <1>7, <1>10 DEF Place
    <2>2. 1 \in 1 .. sent[x][n] /\ n \in 1 .. Len(sent[x])
      BY <1>2, <1>7
    <2>3. f.id = n /\ l.tx # "send_cf"
      BY <1>1, <1>3, <1>4, <1>7, <1>10
    <2> QED BY <1>3, <1>4, <1>7, <1>8, <1>10, <2>1, <2>2, <2>3 DEF Known
  <1> QED BY <1>9, <1>10

\* Nobody's pieces go behind another's: what was begun last is what a sender that is cleared
\* to send goes on with.
LEMMA ClearedLeads ==
  ASSUME NEW p \in End, NEW e \in End, link[p].tx = "send_cf", Content(p, e),
         losses = 0 \/ ClearKept(p, e), NEW m, Newest(e, m)
  PROVE  m = link[p].tx_buf.id
  <1>1. CASE losses = 0
    BY <1>1 DEF Content, Current
  <1>2. CASE ClearKept(p, e)
    <2>1. PICK i \in 0 .. Len(wire[e]) : Begins(e, i, m)
      BY DEF Newest
    <2>2. ~ FfAt(e, i)
      <3>1. FfAt(e, i) => DataAt(e, i) /\ i \in 1 .. Len(wire[e]) /\ ~ CfAt(e, i)
        BY DEF FfAt, CfAt, DataAt
      <3> QED BY <1>2, <3>1 DEF ClearKept, OnlyCf
    <2>3. link[e].rx = "receiving" /\ link[e].rx_buf[1][1] = m
      BY <2>1, <2>2 DEF Begins
    <2> QED BY <1>2, <2>3 DEF ClearKept
  <1> QED BY <1>1, <1>2

\* What on_frame leaves in rx_buf of a piece in sequence: what was there and the piece.
Grows(l, f, o) ==
    /\ Record(o) /\ o.tx = l.tx /\ o.rx_buf = Append(l.rx_buf, f.piece)
    /\ \/ o.ready = TRUE /\ o.rx = "idle" /\ Len(l.rx_buf) + 1 = l.rx_len
       \/ o.ready = FALSE /\ o.rx = "receiving" /\ o.rx_len = l.rx_len

LEMMA TakePieceGrows ==
  ASSUME NEW e \in End, NEW l, LinkTyped(e, l), NEW f, FrameTyped(e, f), f.type = "CF", l.rx = "receiving"
  PROVE  Grows(l, f, TakePiece(e, l, f))
  <1>a. Record(l) /\ l.ready = FALSE /\ RxTyped(e, l) /\ f.piece \in Pieces
    BY DEF LinkTyped, Record, FrameTyped, Frames
  <1>1. PICK b, n : b = Append(l.rx_buf, f.piece) /\ n = (l.rx_sn + 1) % SnMod
    OBVIOUS
  <1>2. Len(b) = Len(l.rx_buf) + 1 /\ Len(l.rx_buf) \in Nat /\ Len(l.rx_buf) < l.rx_len /\ l.rx_len \in Nat
    <2>1. Len(b) = Len(l.rx_buf) + 1 /\ Len(l.rx_buf) \in Nat
      BY <1>a, <1>1, AppendIs DEF RxTyped
    <2>2. Len(l.rx_buf) \in 1 .. l.rx_len - 1 /\ l.rx_len \in Nat
      BY <1>a, SizesAre DEF RxTyped
    <2> QED BY <2>1, <2>2
  <1>3. PICK g : g = [l EXCEPT !.rx_buf = b, !.rx_sn = n, !.rx_count = @ + 1, !.rx_deadline = NCr]
    OBVIOUS
  <1>4. /\ Record(g) /\ g.ready = FALSE /\ g.rx = "receiving" /\ g.rx_buf = b /\ g.rx_len = l.rx_len /\ g.tx = l.tx
    BY <1>a, <1>3 DEF Record, LinkFields
  <1>5. PICK o, r : o = RxOver(l) /\ r = TakePiece(e, l, f)
    OBVIOUS
  <1>6. r = CASE Len(g.rx_buf) >= l.rx_len -> [o EXCEPT !.rx_buf = g.rx_buf, !.ready = TRUE]
              [] Len(g.rx_buf) < l.rx_len /\ Bs[e] # 0 /\ g.rx_count >= Bs[e] ->
                   [g EXCEPT !.rx_count = 0, !.rx_deadline = Unarmed, !.fc_send = TRUE]
              [] OTHER -> g
    BY <1>1, <1>3, <1>5 DEF TakePiece
  <1>7. CASE Len(b) >= l.rx_len
    <2>1. r = [o EXCEPT !.rx_buf = b, !.ready = TRUE]
      BY <1>2, <1>4, <1>6, <1>7
    <2>2. Record(o) /\ o.rx = "idle" /\ o.tx = l.tx
      BY <1>a, <1>5, RxOverIs DEF SameTx
    <2>3. Record(r) /\ r.rx = "idle" /\ r.tx = l.tx /\ r.ready = TRUE /\ r.rx_buf = b
      BY <2>1, <2>2 DEF Record, LinkFields
    <2>4. Len(l.rx_buf) + 1 = l.rx_len
      BY <1>2, <1>7
    <2> QED BY <1>1, <1>5, <2>3, <2>4 DEF Grows
  <1>8. CASE Len(b) < l.rx_len
    <2>1. r = [g EXCEPT !.rx_count = 0, !.rx_deadline = Unarmed, !.fc_send = TRUE] \/ r = g
      BY <1>2, <1>4, <1>6, <1>8
    <2>2. Record(r) /\ r.rx = "receiving" /\ r.tx = l.tx /\ r.ready = FALSE /\ r.rx_buf = b /\ r.rx_len = l.rx_len
      BY <1>4, <2>1 DEF Record, LinkFields
    <2> QED BY <1>1, <1>5, <2>2 DEF Grows
  <1>9. Len(b) >= l.rx_len \/ Len(b) < l.rx_len
    BY <1>2
  <1> QED BY <1>7, <1>8, <1>9

\* What on_frame makes of a reception, of any frame.
Gave(l, f, o) ==
    \/ /\ f.type = "SF" /\ Record(o) /\ o.ready = TRUE /\ o.rx = "idle" /\ o.rx_buf = <<(<<f.id, 1>>)>>
    \/ /\ f.type = "FF" /\ o.ready = FALSE /\ o.rx = "receiving" /\ o.rx_buf = <<(<<f.id, 1>>)>> /\ o.rx_len = f.len
    \/ /\ f.type = "CF" /\ l.rx = "receiving" /\ Grows(l, f, o)
    \/ /\ f.type \in {"FF", "CF"} /\ o.ready = FALSE /\ o.rx = "idle"
    \/ /\ f.type \in {"CF", "FC"} /\ o.ready = FALSE
       /\ o.rx = l.rx /\ o.rx_buf = l.rx_buf /\ o.rx_len = l.rx_len

LEMMA GaveIs ==
  ASSUME NEW e \in End, NEW l, LinkTyped(e, l), NEW f, FrameTyped(e, f)
  PROVE  Gave(l, f, OnFrame(e, l, f))
  <1>a. Record(l) /\ l.ready = FALSE
    BY DEF LinkTyped, Record
  <1>1. PICK o : o = OnFrame(e, l, f)
    OBVIOUS
  <1>2. CASE f.type = "SF"
    <2>1. HeardSingle(l, o)
      BY <1>1, <1>2, OnSingleIs DEF OnFrame
    <2>2. PICK q : q = RxOver(l)
      OBVIOUS
    <2>3. o = [q EXCEPT !.rx_buf = <<(<<f.id, 1>>)>>, !.ready = TRUE, !.fc_send = FALSE, !.fc_ovflw = FALSE]
      BY <1>1, <1>2, <2>2 DEF OnFrame, OnSingleFrame
    <2>4. Record(q)
      BY <1>a, <2>2, RxOverIs
    <2>5. o.rx_buf = <<(<<f.id, 1>>)>>
      BY <2>3, <2>4 DEF Record, LinkFields
    <2> QED BY <1>1, <1>2, <2>1, <2>5 DEF Gave, HeardSingle
  <1>3. CASE f.type = "FF"
    <2>1. HeardFirst(e, l, f, o)
      BY <1>1, <1>3, OnFirstIs DEF OnFrame
    <2> QED BY <1>1, <1>3, <2>1 DEF Gave, HeardFirst
  <1>4. CASE f.type = "FC"
    <2>1. HeardFlow(e, l, f, o)
      BY <1>1, <1>4, OnFlowIs DEF OnFrame
    <2> QED BY <1>1, <1>4, <2>1 DEF Gave, HeardFlow, SameRx
  <1>5. CASE f.type = "CF"
    <2>1. PICK q : q = ExpireRx(l)
      OBVIOUS
    <2>2. Record(q) /\ q.ready = FALSE /\ (q = l \/ q.rx = "idle")
      BY <2>1, ExpireIs
    <2>3. o = CASE q.rx = "receiving" /\ f.sn = q.rx_sn -> TakePiece(e, q, f)
                [] q.rx = "receiving" /\ f.sn # q.rx_sn -> RxOver(q)
                [] OTHER -> q
      BY <1>1, <1>5, <2>1 DEF OnFrame, OnConsecutiveFrame
    <2>4. CASE q.rx = "receiving" /\ f.sn = q.rx_sn
      <3>1. q = l
        BY <2>2, <2>4
      <3>2. o = TakePiece(e, l, f) /\ l.rx = "receiving"
        BY <2>3, <2>4, <3>1
      <3>3. Grows(l, f, o)
        BY <1>5, <3>2, TakePieceGrows
      <3> QED BY <1>1, <1>5, <3>2, <3>3 DEF Gave
    <2>5. CASE q.rx = "receiving" /\ f.sn # q.rx_sn
      <3>1. o = RxOver(q)
        BY <2>3, <2>5
      <3>2. o.ready = FALSE /\ o.rx = "idle"
        BY <2>2, <3>1, RxOverIs
      <3> QED BY <1>1, <1>5, <3>2 DEF Gave
    <2>6. CASE q.rx # "receiving"
      <3>1. o = q
        BY <2>3, <2>6
      <3> QED BY <1>1, <1>5, <1>a, <2>2, <3>1 DEF Gave
    <2> QED BY <2>4, <2>5, <2>6
  <1> QED BY <1>2, <1>3, <1>4, <1>5 DEF FrameTyped, Frames

\* The service of a frame, the message that completes with it taken or dropped.
LEMMA ServedIs ==
  ASSUME IsoTyped, NEW e \in End, NEW l, NEW f, NEW o, NEW r, l = link[e],
         1 \in 1 .. Len(wire[e]), f = wire[e][1], Gave(l, f, o),
         r = (IF o.ready THEN [o EXCEPT !.ready = FALSE, !.rx_buf = <<>>] ELSE o), link'[e] = r,
         delivered'[e] = (IF o.ready /\ o.tx = "idle" THEN Append(delivered[e], o.rx_buf) ELSE delivered[e])
  PROVE  Served(e, 1)
  <1>1. CASE /\ f.type = "SF" /\ Record(o) /\ o.ready = TRUE /\ o.rx = "idle" /\ o.rx_buf = <<(<<f.id, 1>>)>>
    <2>1. r = [o EXCEPT !.ready = FALSE, !.rx_buf = <<>>]
      BY <1>1
    <2>2. r.rx = "idle"
      BY <1>1, <2>1 DEF Record, LinkFields
    <2>3. Place(f) = <<f.id, 1>> /\ DataAt(e, 1)
      BY <1>1 DEF Place, DataAt
    <2>4. CASE o.tx = "idle"
      <3>1. delivered'[e] = Append(delivered[e], <<Place(f)>>)
        BY <1>1, <2>3, <2>4
      <3> QED BY <1>1, <2>2, <2>3, <3>1 DEF Served, TookSingle
    <2>5. CASE o.tx # "idle"
      BY <2>2, <2>5 DEF Served, Dropped
    <2> QED BY <2>4, <2>5
  <1>2. CASE /\ f.type = "FF" /\ o.ready = FALSE /\ o.rx = "receiving" /\ o.rx_buf = <<(<<f.id, 1>>)>> /\ o.rx_len = f.len
    <2>1. r = o /\ delivered'[e] = delivered[e]
      BY <1>2
    <2>2. Place(f) = <<f.id, 1>> /\ FfAt(e, 1)
      BY <1>2 DEF Place, FfAt
    <2> QED BY <1>2, <2>1, <2>2 DEF Served, Begun
  <1>3. CASE f.type = "CF" /\ l.rx = "receiving" /\ Grows(l, f, o)
    <2>1. Place(f) = f.piece /\ CfAt(e, 1)
      BY <1>3 DEF Place, CfAt
    <2>2. CASE o.ready = TRUE /\ o.rx = "idle" /\ Len(l.rx_buf) + 1 = l.rx_len
      <3>1. r = [o EXCEPT !.ready = FALSE, !.rx_buf = <<>>] /\ Record(o) /\ o.rx_buf = Append(l.rx_buf, Place(f))
        BY <1>3, <2>1, <2>2 DEF Grows
      <3>2. r.rx = "idle"
        BY <2>2, <3>1 DEF Record, LinkFields
      <3>3. CASE o.tx = "idle"
        <4>1. delivered'[e] = Append(delivered[e], Append(l.rx_buf, Place(f)))
          BY <2>2, <3>1, <3>3
        <4> QED BY <1>3, <2>1, <2>2, <3>2, <4>1 DEF Served, TookLast
      <3>4. CASE o.tx # "idle"
        BY <3>2, <3>4 DEF Served, Dropped
      <3> QED BY <3>3, <3>4
    <2>3. CASE o.ready = FALSE /\ o.rx = "receiving" /\ o.rx_len = l.rx_len
      <3>1. r = o /\ delivered'[e] = delivered[e] /\ o.rx_buf = Append(l.rx_buf, Place(f))
        BY <1>3, <2>1, <2>3 DEF Grows
      <3> QED BY <1>3, <2>1, <2>3, <3>1 DEF Served, Grew
    <2> QED BY <1>3, <2>2, <2>3 DEF Grows
  <1>4. CASE o.ready = FALSE /\ o.rx = "idle"
    BY <1>4 DEF Served, Dropped
  <1>5. CASE /\ f.type \in {"CF", "FC"} /\ o.ready = FALSE
             /\ o.rx = l.rx /\ o.rx_buf = l.rx_buf /\ o.rx_len = l.rx_len
    <2>1. ~ FirstAt(e, 1) /\ Left(e)
      BY <1>5 DEF FirstAt, Left
    <2> QED BY <2>1 DEF Served
  <1> QED BY <1>1, <1>2, <1>3, <1>4, <1>5 DEF Gave

\* ... and the transmission it may clear, delay or end.
LEMMA HeardSteady ==
  ASSUME NEW e \in End, NEW l, NEW f, NEW r, Heard(e, l, f, r), l = link[e], link'[e] = r, sent'[e] = sent[e]
  PROVE  Steady(e)
  <1>1. CASE SameTx(r, l)
    BY <1>1 DEF SameTx, Steady
  <1>2. CASE HeardFlow(e, l, f, r)
    BY <1>2 DEF HeardFlow, Steady
  <1> QED BY <1>1, <1>2 DEF Heard, HeardSf, HeardFirst, HeardCf

\* A step keeps the invariant when each end goes on, each wire loses no more than its oldest
\* frame and each receiver makes of that what is served.
LEMMA QuietStep ==
  ASSUME WholeInv, IsoInv', Later,
         \A e \in End : /\ Onward(e) /\ (losses' = 0 => SameMessage(e))
                        /\ \E d : Moved(e, d) /\ Served(e, d)
  PROVE  WholeInv'
  <1>1. IsoTyped /\ IsoTyped' /\ \A e \in End : TxBook(e) /\ Way(Peer(e), e)
    BY DEF WholeInv, IsoInv
  <1>2. \A e \in End : TxBook(e)'
    BY DEF Onward
  <1>3. ASSUME NEW e \in End
        PROVE  Way(Peer(e), e)'
    <2>1. Peer(e) \in End
      BY EndsAre
    <2>2. PICK d : Moved(e, d) /\ Served(e, d)
      OBVIOUS
    <2> QED BY <1>1, <2>1, <2>2, QuietKeeps
  <1> QED BY <1>2, <1>3 DEF WholeInv

LEMMA OneEnd ==
  ASSUME NEW g, NEW h, NEW x \in End, NEW v, g = [e \in End |-> g[e]], h = [g EXCEPT ![x] = v]
  PROVE  h[x] = v /\ h[Peer(x)] = g[Peer(x)]
  <1>1. Peer(x) \in End /\ Peer(x) # x
    BY EndsAre
  <1> QED BY <1>1

\* An end that another's step leaves alone.
Rests(e) == link'[e] = link[e] /\ sent'[e] = sent[e] /\ delivered'[e] = delivered[e]

LEMMA RestsIs ==
  ASSUME IsoTyped, NEW e \in End, TxBook(e), Rests(e)
  PROVE  Onward(e) /\ SameMessage(e) /\ Left(e) /\ Served(e, 0)
  <1>1. Steady(e) /\ Left(e)
    BY DEF Rests, Steady, Left
  <1>2. Served(e, 0)
    BY <1>1 DEF Served
  <1> QED BY <1>1, <1>2, SteadyIs

\* A step of one end that puts no data on the wire.
LEMMA AloneStep ==
  ASSUME WholeInv, IsoInv', Later, NEW x \in End, Rests(Peer(x)), Moved(Peer(x), 0),
         Onward(x), losses' = 0 => SameMessage(x), NEW d, Moved(x, d), Served(x, d)
  PROVE  WholeInv'
  <1>1. IsoTyped /\ Peer(x) \in End /\ TxBook(Peer(x)) /\ \A e \in End : e = x \/ e = Peer(x)
    BY EndsAre DEF WholeInv, IsoInv
  <1>2. Onward(Peer(x)) /\ SameMessage(Peer(x)) /\ Served(Peer(x), 0)
    BY <1>1, RestsIs
  <1>3. ASSUME NEW e \in End
        PROVE  /\ Onward(e) /\ (losses' = 0 => SameMessage(e))
               /\ \E c : Moved(e, c) /\ Served(e, c)
    <2>1. CASE e = x
      BY <2>1
    <2>2. CASE e = Peer(x)
      BY <1>2, <2>2
    <2> QED BY <1>1, <2>1, <2>2
  <1> QED BY <1>3, QuietStep

LEMMA SendStays ==
  ASSUME WholeInv, IsoInv', NEW x \in End, NEW n \in Lengths, Send(x, n)
  PROVE  WholeInv'
  <1>1. IsoTyped /\ TxBook(x) /\ LinkTyped(x, link[x]) /\ link = [e \in End |-> link[e]] /\ sent = [e \in End |-> sent[e]]
        /\ Peer(x) \in End
    BY EndsAre DEF WholeInv, IsoInv, IsoTyped
  <1>2. PICK l, r, s : /\ l = link[x] /\ s = Append(sent[x], n)
                       /\ r = [l EXCEPT !.tx = IF n = 1 THEN "send_sf" ELSE "send_ff",
                                        !.tx_buf = [id |-> Len(sent[x]) + 1, len |-> n]]
    OBVIOUS
  <1>3. link' = [link EXCEPT ![x] = r] /\ sent' = [sent EXCEPT ![x] = s] /\ l.tx = "idle"
        /\ UNCHANGED <<wire, delivered, losses, stale>>
    BY <1>1, <1>2 DEF Send
  <1>4. link'[x] = r /\ link'[Peer(x)] = link[Peer(x)] /\ sent'[x] = s /\ sent'[Peer(x)] = sent[Peer(x)]
    <2>1. link'[x] = r /\ link'[Peer(x)] = link[Peer(x)]
      <3>1. link = [e \in End |-> link[e]] /\ link' = [link EXCEPT ![x] = r]
        BY <1>1, <1>3
      <3> QED BY <3>1, OneEnd
    <2>2. sent'[x] = s /\ sent'[Peer(x)] = sent[Peer(x)]
      <3>1. sent = [e \in End |-> sent[e]] /\ sent' = [sent EXCEPT ![x] = s]
        BY <1>1, <1>3
      <3> QED BY <3>1, OneEnd
    <2> QED BY <2>1, <2>2
  <1>5. Later /\ Rests(Peer(x)) /\ Moved(x, 0) /\ Moved(Peer(x), 0)
    BY <1>1, <1>3, <1>4, WireStays DEF Later, Rests
  <1>6. /\ r.rx = l.rx /\ r.rx_buf = l.rx_buf /\ r.rx_len = l.rx_len
        /\ r.tx = (IF n = 1 THEN "send_sf" ELSE "send_ff") /\ r.tx_buf.id = Len(sent[x]) + 1 /\ r.tx_buf.len = n
    BY <1>1, <1>2 DEF LinkTyped, LinkFields
  <1>7. Served(x, 0)
    BY <1>2, <1>3, <1>4, <1>6 DEF Served, Left
  <1>8. PICK k, t : t = sent[x] /\ k = Len(sent[x])
    OBVIOUS
  <1>9. n \in Nat /\ n >= 1 /\ t \in Seq(Nat) /\ k \in Nat /\ \A m \in 1 .. k : t[m] >= 1
    BY <1>1, <1>8, SizesAre DEF TxBook
  <1>10. /\ s \in Seq(Nat) /\ Len(s) = k + 1 /\ s[k + 1] = n
         /\ \A m \in 1 .. k : s[m] = t[m]
         /\ \A m \in 1 .. Len(s) : m \in 1 .. k \/ m = k + 1
    BY <1>2, <1>8, <1>9, AppendIs
  <1>11. TxBook(x)'
    <2>1. \A m \in 1 .. Len(s) : s[m] >= 1
      BY <1>9, <1>10
    <2>2. Len(s) >= 1 /\ r.tx_buf.id = Len(s) /\ r.tx_buf.len = s[Len(s)]
      BY <1>6, <1>8, <1>9, <1>10
    <2>3. r.tx = "send_sf" => r.tx_buf.len = 1
      BY <1>6
    <2>4. r.tx \notin {"wait_fc", "send_cf"}
      BY <1>6
    <2> QED BY <1>4, <1>10, <2>1, <2>2, <2>3, <2>4 DEF TxBook
  <1>12. Onward(x) /\ SameMessage(x)
    <2>1. Longer(x)
      BY <1>4, <1>8, <1>9, <1>10 DEF Longer
    <2>2. Upcoming(x) = <<k + 1, 1>>
      BY <1>2, <1>3, <1>8 DEF Upcoming
    <2>3. Upcoming(x)' = <<k + 1, 1>>
      BY <1>4, <1>6, <1>10 DEF Upcoming
    <2>4. SameMessage(x)
      BY <1>4, <1>6 DEF SameMessage
    <2> QED BY <1>11, <2>1, <2>2, <2>3, <2>4 DEF Onward, NotLess
  <1> QED BY <1>5, <1>7, <1>12, AloneStep

LEMMA ReceiveStays ==
  ASSUME WholeInv, IsoInv', NEW x \in End, Receive(x)
  PROVE  WholeInv'
  <1>1. IsoTyped /\ TxBook(x) /\ LinkTyped(x, link[x]) /\ link = [e \in End |-> link[e]] /\ wire = [e \in End |-> wire[e]]
        /\ delivered = [e \in End |-> delivered[e]] /\ Peer(x) \in End /\ wire[x] # <<>>
    BY EndsAre DEF WholeInv, IsoInv, IsoTyped, Receive
  <1>2. PICK l, f, o : l = link[x] /\ f = Head(wire[x]) /\ o = OnFrame(x, link[x], Head(wire[x]))
    OBVIOUS
  <1>3. PICK r, v : /\ r = (IF o.ready THEN [o EXCEPT !.ready = FALSE, !.rx_buf = <<>>] ELSE o)
                    /\ v = (IF o.ready /\ o.tx = "idle" THEN Append(delivered[x], o.rx_buf) ELSE delivered[x])
    OBVIOUS
  <1>4. /\ link' = [link EXCEPT ![x] = r] /\ wire' = [wire EXCEPT ![x] = Tail(wire[x])] /\ UNCHANGED <<sent, losses>>
        /\ Orphans(x)
    BY <1>2, <1>3 DEF Receive
  <1>5. delivered' = [delivered EXCEPT ![x] = v]
    BY <1>2, <1>3 DEF Receive
  <1>6. /\ link'[x] = r /\ link'[Peer(x)] = link[Peer(x)] /\ wire'[x] = Tail(wire[x]) /\ wire'[Peer(x)] = wire[Peer(x)]
        /\ delivered'[x] = v /\ delivered'[Peer(x)] = delivered[Peer(x)]
    <2>1. link'[x] = r /\ link'[Peer(x)] = link[Peer(x)]
      <3>1. link = [e \in End |-> link[e]] /\ link' = [link EXCEPT ![x] = r]
        BY <1>1, <1>4
      <3> QED BY <3>1, OneEnd
    <2>2. wire'[x] = Tail(wire[x]) /\ wire'[Peer(x)] = wire[Peer(x)]
      <3>1. wire = [e \in End |-> wire[e]] /\ wire' = [wire EXCEPT ![x] = Tail(wire[x])]
        BY <1>1, <1>4
      <3> QED BY <3>1, OneEnd
    <2>3. delivered'[x] = v /\ delivered'[Peer(x)] = delivered[Peer(x)]
      BY <1>1, <1>5, OneEnd
    <2> QED BY <2>1, <2>2, <2>3
  <1>7. 1 \in 1 .. Len(wire[x]) /\ f = wire[x][1]
    BY <1>1, <1>2, <1>6, HeadTaken
  <1>8. FrameTyped(x, f)
    BY <1>1, <1>7 DEF IsoTyped, WireTyped
  <1>9. Later /\ Rests(Peer(x)) /\ Moved(x, 1) /\ Moved(Peer(x), 0)
    BY <1>1, <1>4, <1>6, WireStays, WireLoses DEF Later, Rests, Orphans
  <1>10. Served(x, 1)
    <2>1. Gave(l, f, o)
      BY <1>1, <1>2, <1>8, GaveIs
    <2> QED BY <1>1, <1>2, <1>3, <1>6, <1>7, <2>1, ServedIs
  <1>11. Steady(x)
    <2>1. Heard(x, l, f, r)
      BY <1>1, <1>2, <1>3, <1>8, HeardIs
    <2> QED BY <1>2, <1>4, <1>6, <2>1, HeardSteady
  <1>12. Onward(x) /\ SameMessage(x)
    BY <1>1, <1>11, SteadyIs
  <1> QED BY <1>9, <1>10, <1>12, AloneStep

LEMMA PollStays ==
  ASSUME WholeInv, IsoInv', NEW x \in End, Poll(x)
  PROVE  WholeInv'
  <1>1. /\ IsoTyped /\ IsoTyped' /\ TxBook(x) /\ LinkTyped(x, link[x]) /\ link = [e \in End |-> link[e]] /\ wire = [e \in End |-> wire[e]]
        /\ Peer(x) \in End /\ Peer(Peer(x)) = x /\ HasFrame(link[x]) /\ \A e \in End : e = x \/ e = Peer(x)
        /\ TxBook(Peer(x)) /\ Way(x, Peer(x)) /\ Way(Peer(x), x)
    BY EndsAre DEF WholeInv, IsoInv, IsoTyped, Poll, PollReady
  <1>2. PICK l, f, r : l = link[x] /\ f = PollFrame(x, link[x]) /\ r = AfterPoll(link[x])
    OBVIOUS
  <1>3. /\ link' = [link EXCEPT ![x] = r] /\ wire' = [wire EXCEPT ![Peer(x)] = Append(wire[Peer(x)], f)]
        /\ UNCHANGED <<sent, delivered, losses, stale>>
    BY <1>2 DEF Poll
  <1>4. /\ link'[x] = r /\ link'[Peer(x)] = link[Peer(x)]
        /\ wire'[Peer(x)] = Append(wire[Peer(x)], f) /\ wire'[x] = wire[x]
    <2>1. link'[x] = r /\ link'[Peer(x)] = link[Peer(x)]
      <3>1. link = [e \in End |-> link[e]] /\ link' = [link EXCEPT ![x] = r]
        BY <1>1, <1>3
      <3> QED BY <3>1, OneEnd
    <2>2. PICK y : y = Peer(x)
      OBVIOUS
    <2>3. y \in End /\ Peer(y) = x /\ wire' = [wire EXCEPT ![y] = Append(wire[y], f)]
      BY <1>1, <1>3, <2>2
    <2>4. wire'[y] = Append(wire[y], f) /\ wire'[Peer(y)] = wire[Peer(y)]
      BY <1>1, <2>3, OneEnd
    <2> QED BY <2>1, <2>2, <2>3, <2>4
  <1>5. PolledFrame(x, l, f) /\ Polled(x, l, r)
    BY <1>1, <1>2, PollFrameIs, AfterPollIs
  <1>6. f \in Frames /\ (l.fc_ovflw \/ l.fc_send <=> f.type = "FC")
    BY <1>5 DEF PolledFrame, FrameTyped
  <1>7. Later /\ Rests(Peer(x)) /\ Moved(x, 0)
    BY <1>1, <1>3, <1>4, WireStays DEF Later, Rests
  <1>8. Left(x) /\ Served(x, 0)
    <2>1. r.rx = l.rx /\ r.rx_buf = l.rx_buf /\ r.rx_len = l.rx_len
      BY <1>5 DEF Polled, PolledRefusal, PolledClear, PolledSingle, PolledFirst, PolledPiece, SameRx
    <2> QED BY <1>2, <1>3, <1>4, <2>1 DEF Left, Served
  <1>9. /\ Onward(x)
        /\ l.fc_ovflw \/ l.fc_send => SameMessage(x)
        /\ ~ l.fc_ovflw /\ ~ l.fc_send => Before(Upcoming(x), Upcoming(x)')
        /\ ~ l.fc_ovflw /\ ~ l.fc_send => l.tx # "idle" /\ (l.tx = "send_sf" => r.tx = "idle")
                                          /\ (r.tx \in {"wait_fc", "send_cf"} => r.tx_buf = l.tx_buf)
    BY <1>1, <1>2, <1>3, <1>4, <1>5, PolledOn
  <1>10. CASE f.type = "FC"
    <2>1. Moved(Peer(x), 0)
      BY <1>1, <1>4, <1>6, <1>10, WireGains
    <2>2. SameMessage(x)
      BY <1>6, <1>9, <1>10
    <2> QED BY <1>7, <1>8, <1>9, <2>1, <2>2, AloneStep
  <1>11. CASE f.type # "FC"
    <2>1. ~ l.fc_ovflw /\ ~ l.fc_send
      BY <1>6, <1>11
    <2>2. Fed(Peer(x), f)
      BY <1>4, <1>6, <1>11 DEF Fed
    <2>3. /\ Place(f) = Upcoming(x) /\ Known(x, f) /\ Place(f)[1] = l.tx_buf.id
          /\ (f.type = "SF" => l.tx = "send_sf") /\ (f.type = "CF" => l.tx = "send_cf")
      BY <1>1, <1>2, <1>5, <1>11, PolledCarries
    <2>4. Onward(Peer(x)) /\ SameMessage(Peer(x)) /\ Left(Peer(x))
      BY <1>1, <1>7, RestsIs
    <2>5. ASSUME Content(x, Peer(x)), losses = 0 \/ ~ stale
          PROVE  Leads(x, Peer(x), f)
      <3>1. ASSUME f.type = "CF", NEW m, Newest(Peer(x), m)
            PROVE  m = f.piece[1]
        <4>1. link[x].tx = "send_cf" /\ f.piece[1] = link[x].tx_buf.id
          BY <1>2, <2>3, <3>1 DEF Place
        <4>2. losses = 0 \/ ClearKept(x, Peer(x))
          BY <1>1, <2>5 DEF WholeInv, IsoInv, Direction
        <4> QED BY <1>1, <2>5, <3>1, <4>1, <4>2, ClearedLeads
      <3>2. ASSUME link'[x].tx \in {"wait_fc", "send_cf"}
            PROVE  f.type # "SF" /\ Place(f)[1] = link'[x].tx_buf.id
        BY <1>4, <1>9, <2>1, <2>3, <3>2
      <3> QED BY <3>1, <3>2 DEF Leads
    <2>6. Way(x, Peer(x))'
      BY <1>1, <1>7, <1>9, <2>1, <2>2, <2>3, <2>4, <2>5, FedKeeps
    <2>7. Way(Peer(x), x)'
      BY <1>1, <1>7, <1>8, <2>4, QuietKeeps
    <2>8. TxBook(x)' /\ TxBook(Peer(x))'
      BY <1>9, <2>4 DEF Onward
    <2>9. ASSUME NEW e \in End
          PROVE  TxBook(e)' /\ Way(Peer(e), e)'
      <3>1. CASE e = x
        BY <2>7, <2>8, <3>1
      <3>2. CASE e = Peer(x)
        BY <1>1, <2>6, <2>8, <3>2
      <3> QED BY <1>1, <3>1, <3>2
    <2> QED BY <2>9 DEF WholeInv
  <1> QED BY <1>10, <1>11

LEMMA PollLostStays ==
  ASSUME WholeInv, IsoInv', NEW x \in End, PollLost(x)
  PROVE  WholeInv'
  <1>1. IsoTyped /\ TxBook(x) /\ LinkTyped(x, link[x]) /\ link = [e \in End |-> link[e]] /\ HasFrame(link[x])
        /\ Peer(x) \in End /\ losses \in Nat
    BY EndsAre, SizesAre DEF WholeInv, IsoInv, IsoTyped, PollLost, PollReady
  <1>2. PICK l, r : l = link[x] /\ r = AfterPoll(link[x])
    OBVIOUS
  <1>3. /\ link' = [link EXCEPT ![x] = r] /\ losses' = losses + 1 /\ UNCHANGED <<wire, sent, delivered, stale>>
    BY <1>2 DEF PollLost
  <1>4. link'[x] = r /\ link'[Peer(x)] = link[Peer(x)]
    BY <1>1, <1>3, OneEnd
  <1>5. Polled(x, l, r)
    BY <1>1, <1>2, AfterPollIs
  <1>6. losses' # 0 /\ Later
    BY <1>1, <1>3 DEF Later
  <1>7. Rests(Peer(x)) /\ Moved(x, 0) /\ Moved(Peer(x), 0)
    BY <1>1, <1>3, <1>4, WireStays DEF Rests
  <1>8. Served(x, 0)
    <2>1. r.rx = l.rx /\ r.rx_buf = l.rx_buf /\ r.rx_len = l.rx_len
      BY <1>5 DEF Polled, PolledRefusal, PolledClear, PolledSingle, PolledFirst, PolledPiece, SameRx
    <2> QED BY <1>2, <1>3, <1>4, <2>1 DEF Left, Served
  <1>9. Onward(x)
    BY <1>1, <1>2, <1>3, <1>4, <1>5, PolledOn
  <1> QED BY <1>6, <1>7, <1>8, <1>9, AloneStep

\* What runs out, is refused or is abandoned: a half of the Link that is over, or as it was.
LEMMA OverStays ==
  ASSUME WholeInv, IsoInv', NEW x \in End, NEW r, link' = [link EXCEPT ![x] = r],
         UNCHANGED <<wire, sent, delivered>>, Later, SameTx(r, link[x]) \/ r.tx = "idle",
         r.rx = "idle" \/ (r.rx = link[x].rx /\ r.rx_buf = link[x].rx_buf /\ r.rx_len = link[x].rx_len)
  PROVE  WholeInv'
  <1>1. IsoTyped /\ TxBook(x) /\ link = [e \in End |-> link[e]] /\ Peer(x) \in End
    BY EndsAre DEF WholeInv, IsoInv, IsoTyped
  <1>2. link'[x] = r /\ link'[Peer(x)] = link[Peer(x)]
    BY <1>1, OneEnd
  <1>3. Rests(Peer(x)) /\ Moved(x, 0) /\ Moved(Peer(x), 0)
    BY <1>1, <1>2, WireStays DEF Rests
  <1>4. Served(x, 0)
    BY <1>2 DEF Served, Left, Dropped
  <1>5. Steady(x)
    BY <1>2 DEF Steady, SameTx
  <1>6. Onward(x) /\ SameMessage(x)
    BY <1>1, <1>5, SteadyIs
  <1> QED BY <1>3, <1>4, <1>6, AloneStep

LEMMA PollRefusedStays ==
  ASSUME WholeInv, IsoInv', NEW x \in End, PollRefused(x)
  PROVE  WholeInv'
  <1>1. LinkTyped(x, link[x]) /\ HasFrame(link[x]) /\ losses \in Nat
    BY SizesAre DEF WholeInv, IsoInv, IsoTyped, PollRefused, PollReady
  <1>2. PICK l, q, r : l = link[x] /\ q = AfterPoll(link[x]) /\ r = TxOver(q)
    OBVIOUS
  <1>3. link' = [link EXCEPT ![x] = r] /\ losses' = losses + 1 /\ UNCHANGED <<wire, sent, delivered>> /\ Orphans(x)
    BY <1>2 DEF PollRefused
  <1>4. Polled(x, l, q)
    BY <1>1, <1>2, AfterPollIs
  <1>5. q.rx = l.rx /\ q.rx_buf = l.rx_buf /\ q.rx_len = l.rx_len /\ Record(q)
    BY <1>4 DEF Polled, PolledRefusal, PolledClear, PolledSingle, PolledFirst, PolledPiece, SameRx, LinkTyped, Record
  <1>6. r.tx = "idle" /\ r.rx = q.rx /\ r.rx_buf = q.rx_buf /\ r.rx_len = q.rx_len
    BY <1>2, <1>5, TxOverIs DEF SameRx
  <1>7. losses' # 0
    BY <1>1, <1>3
  <1>8. Later
    BY <1>3, <1>7 DEF Later, Orphans
  <1> QED BY <1>2, <1>3, <1>5, <1>6, <1>8, OverStays

LEMMA TickStays ==
  ASSUME WholeInv, IsoInv', NEW x \in End, Tick(x)
  PROVE  WholeInv'
  <1>1. LinkTyped(x, link[x])
    BY DEF WholeInv, IsoInv, IsoTyped
  <1>2. PICK l, q, r : l = link[x] /\ q = (IF TxExpired(link[x]) THEN TxOver(link[x]) ELSE link[x]) /\ r = ExpireRx(q)
    OBVIOUS
  <1>3. link' = [link EXCEPT ![x] = r] /\ UNCHANGED <<wire, sent, delivered, losses>> /\ Orphans(x)
    BY <1>2 DEF Tick
  <1>4. Record(l) /\ l.ready = FALSE /\ FlagsTyped(l) /\ RxTyped(x, l) /\ TxTyped(x, l)
    BY <1>1, <1>2 DEF LinkTyped, Record
  <1>5. /\ Record(q) /\ SameRx(q, l) /\ SameFlags(q, l) /\ q.ready = FALSE /\ TxTyped(x, q)
        /\ SameTx(q, l) \/ q.tx = "idle"
    <2>1. CASE TxExpired(l)
      BY <1>2, <1>4, <2>1, TxOverIs, TxOverTyped
    <2>2. CASE ~ TxExpired(l)
      BY <1>2, <1>4, <2>2 DEF SameRx, SameFlags, SameTx
    <2> QED BY <2>1, <2>2
  <1>6. LinkTyped(x, q)
    BY <1>4, <1>5, SameTyped DEF LinkTyped, Record
  <1>7. SameTx(r, q) /\ (r = q \/ r.rx = "idle")
    BY <1>2, <1>6, ExpireIs
  <1>8. SameTx(r, l) \/ r.tx = "idle"
    BY <1>5, <1>7 DEF SameTx
  <1>9. r.rx = "idle" \/ (r.rx = l.rx /\ r.rx_buf = l.rx_buf /\ r.rx_len = l.rx_len)
    BY <1>5, <1>7 DEF SameRx
  <1>10. Later
    BY <1>3 DEF Later, Orphans
  <1> QED BY <1>2, <1>3, <1>8, <1>9, <1>10, OverStays

LEMMA EndExchangeStays ==
  ASSUME WholeInv, IsoInv', NEW x \in End, EndExchange(x)
  PROVE  WholeInv'
  <1>1. LinkTyped(x, link[x])
    BY DEF WholeInv, IsoInv, IsoTyped
  <1>2. PICK l, q, o, r : /\ l = link[x] /\ q = TxOver(link[x]) /\ o = RxOver(q)
                          /\ r = [o EXCEPT !.fc_send = FALSE, !.fc_ovflw = FALSE]
    OBVIOUS
  <1>3. link' = [link EXCEPT ![x] = r] /\ UNCHANGED <<wire, sent, delivered, losses>> /\ Orphans(x)
    BY <1>2 DEF EndExchange
  <1>4. Record(l)
    BY <1>1, <1>2 DEF LinkTyped, Record
  <1>5. Record(q) /\ q.tx = "idle"
    BY <1>2, <1>4, TxOverIs
  <1>6. Record(o) /\ o.rx = "idle" /\ o.tx = "idle"
    BY <1>2, <1>5, RxOverIs DEF SameTx
  <1>7. r.rx = "idle" /\ r.tx = "idle"
    BY <1>2, <1>6 DEF Record, LinkFields
  <1>8. Later
    BY <1>3 DEF Later, Orphans
  <1> QED BY <1>3, <1>7, <1>8, OverStays

LEMMA PeerWaitsStays ==
  ASSUME WholeInv, IsoInv', NEW x \in End, PeerWaits(x)
  PROVE  WholeInv'
  <1>1. IsoTyped /\ TxBook(x) /\ wire = [e \in End |-> wire[e]] /\ wire[x] = <<>> /\ Peer(x) \in End
        /\ Bs[Peer(x)] \in Nat /\ StMin[Peer(x)] \in Nat
    BY EndsAre, SizesAre DEF WholeInv, IsoInv, IsoTyped, PeerWaits
  <1>2. PICK f : f = [type |-> "FC", status |-> "WAIT", bs |-> Bs[Peer(x)], stmin |-> StMin[Peer(x)]]
    OBVIOUS
  <1>3. f \in Frames /\ f.type = "FC"
    BY <1>1, <1>2 DEF Frames
  <1>4. wire' = [wire EXCEPT ![x] = <<f>>] /\ UNCHANGED <<link, sent, delivered, losses, stale>>
    BY <1>2 DEF PeerWaits, FlowControl
  <1>5. wire'[x] = <<f>> /\ wire'[Peer(x)] = wire[Peer(x)]
    BY <1>1, <1>4, OneEnd
  <1>6. Append(<<>>, f) = <<f>>
    OBVIOUS
  <1>7. Moved(x, 0) /\ Moved(Peer(x), 0)
    BY <1>1, <1>3, <1>5, <1>6, WireGains, WireStays
  <1>8. Rests(x) /\ Rests(Peer(x)) /\ Later
    BY <1>4 DEF Rests, Later
  <1>9. Onward(x) /\ SameMessage(x) /\ Served(x, 0)
    BY <1>1, <1>8, RestsIs
  <1> QED BY <1>7, <1>8, <1>9, AloneStep

LEMMA TimeStays ==
  ASSUME WholeInv, IsoInv', Time
  PROVE  WholeInv'
  <1>1. IsoTyped /\ \A e \in End : TxBook(e)
    BY DEF WholeInv, IsoInv
  <1>2. /\ link' = [e \in End |-> Pass(link[e])] /\ UNCHANGED <<wire, sent, delivered, losses, stale>>
    BY DEF Time
  <1>3. \A e \in End : Passed(e, link[e], link'[e])
    <2>1. \A e \in End : LinkTyped(e, link[e]) /\ link'[e] = Pass(link[e])
      BY <1>1, <1>2 DEF IsoTyped
    <2> QED BY <2>1, PassIs
  <1>4. Later
    BY <1>2 DEF Later
  <1>5. ASSUME NEW e \in End
        PROVE  /\ Onward(e) /\ (losses' = 0 => SameMessage(e))
               /\ \E d : Moved(e, d) /\ Served(e, d)
    <2>1. Steady(e) /\ Served(e, 0)
      BY <1>2, <1>3 DEF Passed, Steady, Served, Left
    <2>2. Moved(e, 0)
      BY <1>1, <1>2, WireStays
    <2> QED BY <1>1, <2>1, <2>2, SteadyIs
  <1> QED BY <1>4, <1>5, QuietStep

LEMMA StutterStays ==
  ASSUME WholeInv, IsoInv', UNCHANGED isoVars
  PROVE  WholeInv'
  <1>1. IsoTyped /\ \A e \in End : TxBook(e)
    BY DEF WholeInv, IsoInv
  <1>2. UNCHANGED <<link, wire, sent, delivered, losses, stale>>
    BY DEF isoVars
  <1>3. Later
    BY <1>2 DEF Later
  <1>4. ASSUME NEW e \in End
        PROVE  /\ Onward(e) /\ (losses' = 0 => SameMessage(e))
               /\ \E d : Moved(e, d) /\ Served(e, d)
    <2>1. Rests(e)
      BY <1>2 DEF Rests
    <2>2. Moved(e, 0)
      BY <1>1, <1>2, WireStays
    <2> QED BY <1>1, <2>1, <2>2, RestsIs
  <1> QED BY <1>3, <1>4, QuietStep

LEMMA WholeKept ==
  ASSUME WholeInv, [IsoNext]_isoVars
  PROVE  WholeInv'
  <1>1. IsoInv'
    BY IsoKept DEF WholeInv
  <1> QED BY <1>1, SendStays, ReceiveStays, PollStays, PollLostStays, PollRefusedStays, TickStays, EndExchangeStays,
             PeerWaitsStays, TimeStays, StutterStays DEF IsoNext

LEMMA WholeStarts ==
  ASSUME IsoInit
  PROVE  WholeInv
  <1>1. IsoInv
    BY IsoStarts
  <1>2. ASSUME NEW e \in End
        PROVE  /\ link[e].rx = "idle" /\ link[e].tx = "idle" /\ wire[e] = <<>> /\ sent[e] = <<>> /\ delivered[e] = <<>>
    BY <1>2 DEF IsoInit, IdleLink
  <1>3. <<>> \in Seq(Nat) /\ <<>> \in Seq(Seq(Pieces)) /\ Len(<<>>) = 0 /\ \A i \in 1 .. 0 : FALSE
    OBVIOUS
  <1>4. ASSUME NEW e \in End
        PROVE  TxBook(e) /\ Way(Peer(e), e)
    <2>1. TxBook(e)
      BY <1>2, <1>3 DEF TxBook
    <2>2. /\ link[e].rx = "idle" /\ Len(wire[e]) = 0 /\ delivered[e] = <<>> /\ Len(delivered[e]) = 0
          /\ link[Peer(e)].tx = "idle"
      BY <1>2, <1>3, EndsAre
    <2>3. \A g : ~ Reached(e, g)
      BY <1>3, <2>2 DEF Reached
    <2>4. KnownData(Peer(e), e) /\ Rising(Peer(e), e) /\ Arrived(Peer(e), e) /\ Taken(e)
      BY <1>3, <2>2, <2>3 DEF KnownData, Rising, Arrived, Taken
    <2>5. OwnPieces(Peer(e), e) /\ Joins(e) /\ Intact(Peer(e), e)
      BY <1>3, <2>2 DEF OwnPieces, Joins, Intact
    <2> QED BY <2>1, <2>2, <2>4, <2>5 DEF Way, Stream, Content
  <1> QED BY <1>1, <1>4 DEF WholeInv

\* What the invariant says of what the owners took.
LEMMA ExchangedIs ==
  ASSUME WholeInv
  PROVE  ExchangedIntact
  <1>1. SUFFICES ASSUME losses = 0 \/ ~ stale
                 PROVE  Exchanged
    BY DEF ExchangedIntact
  <1>2. ASSUME NEW e \in End
        PROVE  /\ \A i \in DOMAIN delivered[e] :
                     \E id \in DOMAIN sent[Peer(e)] : delivered[e][i] = Whole(id, sent[Peer(e)][id])
               /\ \A i, j \in DOMAIN delivered[e] :
                     i < j => delivered[e][i][1][1] < delivered[e][j][1][1]
    <2>1. TxBook(Peer(e)) /\ Taken(e) /\ Intact(Peer(e), e)
      BY <1>1, <1>2, EndsAre DEF WholeInv, Way, Stream, Content
    <2>2. DOMAIN delivered[e] = 1 .. Len(delivered[e]) /\ DOMAIN sent[Peer(e)] = 1 .. Len(sent[Peer(e)])
      BY <2>1 DEF Taken, TxBook
    <2>3. ASSUME NEW i \in 1 .. Len(delivered[e]), NEW j \in 1 .. Len(delivered[e]), i < j
          PROVE  delivered[e][i][1][1] < delivered[e][j][1][1]
      <3>1. Before(delivered[e][i][1], delivered[e][j][1]) /\ delivered[e][i][1][2] = 1 /\ delivered[e][j][1][2] = 1
        BY <2>1, <2>3 DEF Taken
      <3> QED BY <3>1 DEF Before
    <2>4. \A i \in DOMAIN delivered[e] :
             \E id \in DOMAIN sent[Peer(e)] : delivered[e][i] = Whole(id, sent[Peer(e)][id])
      BY <2>1, <2>2 DEF Intact
    <2> QED BY <2>2, <2>3, <2>4
  <1> QED BY <1>2 DEF Exchanged

-------------------------------------------------------------------------------
(* The theorems.                                                             *)

\* Neither end goes past what the other granted or its own memory holds: as long as flow
\* control is in time (isotp.v), while one is owed the peer is silent, whatever is lost,
\* refused, abandoned or asked to wait.
THEOREM GrantsStayKept == IsoSpec => []GrantsKept
  <1>1. IsoInit => IsoInv
    BY IsoStarts
  <1>2. IsoInv /\ [IsoNext]_isoVars => IsoInv'
    BY IsoKept
  <1>3. IsoInv => GrantsKept
    BY GrantsKeptIs
  <1> QED BY <1>1, <1>2, <1>3, PTL DEF IsoSpec

\* REQ-TP-001 (isotp.v): what an owner takes is a message its peer's Link accepted, whole and
\* in order, as long as no frame is lost, or no flow control outlives its transmission.
THEOREM ExchangeStaysIntact == IsoSpec => []ExchangedIntact
  <1>1. IsoInit => WholeInv
    BY WholeStarts
  <1>2. WholeInv /\ [IsoNext]_isoVars => WholeInv'
    BY WholeKept
  <1>3. WholeInv => ExchangedIntact
    BY ExchangedIs
  <1> QED BY <1>1, <1>2, <1>3, PTL DEF IsoSpec

\* IsoTp's share of the initial states and of the steps of the specification that is run.
LEMMA NodeRunsIso ==
  /\ NodeInit => IsoInit
  /\ [NodeNext]_nodeVars => [IsoNext]_isoVars
  <1>1. NodeInit => IsoInit
    BY DEF NodeInit
  <1>2. ASSUME [NodeNext]_nodeVars
        PROVE  [IsoNext]_isoVars
    <2>1. CASE UNCHANGED nodeVars
      BY <2>1 DEF nodeVars
    <2>2. CASE NodeNext
      <3>1. CASE Only("isotp") /\ IsoNext
        BY <3>1
      <3>2. CASE \E p \in Parts \ {"isotp"} : Only(p)
        BY <3>2 DEF Only, Parts
      <3> QED BY <2>2, <3>1, <3>2 DEF NodeNext, Parts
    <2> QED BY <1>2, <2>1, <2>2
  <1> QED BY <1>1, <1>2

\* What a grant promises, in the specification that is run.
THEOREM GrantsStayKeptInNode == NodeSpec => []GrantsKept
  <1>1. IsoInv /\ [IsoNext]_isoVars => IsoInv'
    BY IsoKept
  <1> QED BY <1>1, NodeRunsIso, IsoStarts, GrantsKeptIs, PTL DEF NodeSpec

\* What is exchanged, in the specification that is run.
THEOREM ExchangeStaysIntactInNode == NodeSpec => []ExchangedIntact
  <1>1. WholeInv /\ [IsoNext]_isoVars => WholeInv'
    BY WholeKept
  <1> QED BY <1>1, NodeRunsIso, WholeStarts, ExchangedIs, PTL DEF NodeSpec

====
