-------------------------------- MODULE IsoTp --------------------------------
(***************************************************************************)
(* comm/isotp/isotp.v: ISO 15765-2 segmentation.  Two Links, one at each   *)
(* end of a diagnostic connection, exchange frames over a bus that keeps   *)
(* the order of each direction.  An owner serves its Link as               *)
(* comm/diag/step.v does: it feeds a frame and takes the message that      *)
(* completes in one go, polls while the channel is ready, and abandons the *)
(* transmission when the channel refuses a frame.                          *)
(*                                                                         *)
(* A message is a number and a length in frames: 1 is a single frame, more *)
(* a first frame and consecutive ones.  What a frame carries of it is a    *)
(* piece <<message, position>>; what is reassembled is a sequence of       *)
(* pieces, and nothing else tells one message's bytes from another's.      *)
(*                                                                         *)
(* Deadlines are the ticks left to them; 0 is `now >= deadline`.           *)
(***************************************************************************)
EXTENDS Naturals, Sequences, SequencesExt, FiniteSets

CONSTANTS
    Lengths,     \* message lengths an owner sends, in frames
    MaxPayload,  \* per end: max_payload, in frames
    Bs,          \* per end: the block size it grants (0: all at once)
    StMin,       \* per end: the separation time it asks for
    NBs, NCr,    \* init_defaults: n_bs_us and n_cr_us
    WftMax,      \* init_defaults: wft_max
    SnMod,       \* 16: a consecutive frame carries four bits of its number
    Plans,       \* bound: how many messages each end's owner sends, at choice
    MaxLost,     \* bound: frames lost or refused
    MaxAborts,   \* bound: exchanges an owner abandons (diagroute's cancel)
    WireSize     \* bound: frames on the bus in one direction

End == {"tester", "ecu"}
Peer(e) == CHOOSE p \in End : p # e

ASSUME IsoTpAssumption ==
    /\ Lengths \subseteq Nat \ {0} /\ MaxPayload \in [End -> Nat \ {0}]
    /\ Bs \in [End -> Nat] /\ StMin \in [End -> Nat]
    /\ NBs \in Nat \ {0} /\ NCr \in Nat \ {0} /\ WftMax \in Nat \ {0}
    /\ SnMod \in Nat \ {0, 1} /\ Plans \subseteq [End -> Nat]
    /\ MaxLost \in Nat /\ MaxAborts \in Nat /\ WireSize \in Nat \ {0}

VARIABLES
    todo,       \* per end: the messages its owner has still to send
    link,       \* per end: its Link
    wire,       \* per end: the frames on their way TO it, oldest first
    sent,       \* per end: the lengths of the messages its Link accepted
    delivered,  \* per end: what its owner took, as sequences of pieces
    losses,     \* frames lost or refused so far
    aborts,     \* exchanges abandoned so far
    stale       \* has a transmission been given up whose flow control was
                \* still to come?

isoVars == <<todo, link, wire, sent, delivered, losses, aborts, stale>>

-------------------------------------------------------------------------------
(***************************************************************************)
(* Frames.                                                                 *)
(***************************************************************************)
Unarmed == NBs + NCr        \* rx_deadline == 0: no deadline runs

SingleFrame(m) == [type |-> "SF", id |-> m.id]
FirstFrame(m) == [type |-> "FF", id |-> m.id, len |-> m.len]
ConsecutiveFrame(m, at, sn) == [type |-> "CF", sn |-> sn, piece |-> <<m.id, at>>]
FlowControl(e, status) ==
    [type |-> "FC", status |-> status, bs |-> Bs[e], stmin |-> StMin[e]]

NoMessage == [id |-> 0, len |-> 0]

IdleLink ==
    [rx |-> "idle", rx_buf |-> <<>>, rx_len |-> 0, rx_sn |-> 0, rx_count |-> 0,
     rx_deadline |-> Unarmed, fc_send |-> FALSE, fc_ovflw |-> FALSE,
     ready |-> FALSE,
     tx |-> "idle", tx_buf |-> NoMessage, tx_pos |-> 0, tx_sn |-> 0,
     peer_bs |-> 0, peer_stmin |-> 0, block_left |-> 0, gap |-> 0,
     fc_deadline |-> 0, wft_count |-> 0]

\* Registers that no later step reads before it writes them are reset, so that
\* two Links that can only behave alike are one state.
RxOver(l) ==
    [l EXCEPT !.rx = "idle", !.rx_buf = <<>>, !.rx_len = 0, !.rx_sn = 0,
              !.rx_count = 0, !.rx_deadline = Unarmed]
TxOver(l) ==
    [l EXCEPT !.tx = "idle", !.tx_buf = NoMessage, !.tx_pos = 0, !.tx_sn = 0,
              !.peer_bs = 0, !.peer_stmin = 0, !.block_left = 0, !.gap = 0,
              !.fc_deadline = 0, !.wft_count = 0]

-------------------------------------------------------------------------------
(***************************************************************************)
(* on_frame, one operator per frame type; a completed message is left in   *)
(* rx_buf with ready set.                                                  *)
(***************************************************************************)
OnSingleFrame(l, f) ==
    [RxOver(l) EXCEPT !.rx_buf = <<(<<f.id, 1>>)>>, !.ready = TRUE,
                      !.fc_send = FALSE, !.fc_ovflw = FALSE]

\* Mutant: the announced length is not compared with the buffer.
OnAnyFirstFrame(e, l, f) ==
    [l EXCEPT !.rx = "receiving", !.rx_buf = <<(<<f.id, 1>>)>>,
              !.rx_len = f.len, !.rx_sn = 1, !.rx_count = 0,
              !.rx_deadline = Unarmed, !.fc_send = TRUE, !.fc_ovflw = FALSE]

\* Mutant: a first frame does not end a reception in progress.
OnFirstFrameIdle(e, l, f) ==
    IF l.rx = "receiving" \/ f.len > MaxPayload[e] THEN l
    ELSE [l EXCEPT !.rx = "receiving", !.rx_buf = <<(<<f.id, 1>>)>>,
                   !.rx_len = f.len, !.rx_sn = 1, !.rx_count = 0,
                   !.rx_deadline = Unarmed, !.fc_send = TRUE, !.fc_ovflw = FALSE]

OnFirstFrame(e, l, f) ==
    IF f.len <= MaxPayload[e]
    THEN [l EXCEPT !.rx = "receiving", !.rx_buf = <<(<<f.id, 1>>)>>,
                   !.rx_len = f.len, !.rx_sn = 1, !.rx_count = 0,
                   !.rx_deadline = Unarmed, !.fc_send = TRUE, !.fc_ovflw = FALSE]
    ELSE [RxOver(l) EXCEPT !.fc_send = FALSE, !.fc_ovflw = TRUE]

Expired(l) == l.rx = "receiving" /\ l.rx_deadline = 0

ExpireRx(l) == IF Expired(l) THEN [RxOver(l) EXCEPT !.fc_send = FALSE] ELSE l

\* A frame in sequence: the last one, the last of a granted block, or another.
TakePiece(e, l, f) ==
    LET grown == [l EXCEPT !.rx_buf = Append(@, f.piece),
                           !.rx_sn = (@ + 1) % SnMod,
                           !.rx_count = @ + 1, !.rx_deadline = NCr]
    IN  CASE Len(grown.rx_buf) >= l.rx_len ->
               [RxOver(l) EXCEPT !.rx_buf = grown.rx_buf, !.ready = TRUE]
          [] Len(grown.rx_buf) < l.rx_len /\ Bs[e] # 0 /\ grown.rx_count >= Bs[e] ->
               [grown EXCEPT !.rx_count = 0, !.rx_deadline = Unarmed,
                             !.fc_send = TRUE]
          [] OTHER -> grown

OnConsecutiveFrame(e, late, f) ==
    LET l == ExpireRx(late)
    IN  CASE l.rx = "receiving" /\ f.sn = l.rx_sn -> TakePiece(e, l, f)
          [] l.rx = "receiving" /\ f.sn # l.rx_sn -> RxOver(l)
          [] OTHER -> l

\* Mutant: waits are not counted.
OnFlowControlPatient(l, f) ==
    CASE l.tx # "wait_fc" -> l
      [] l.tx = "wait_fc" /\ l.fc_deadline = 0 -> TxOver(l)
      [] l.tx = "wait_fc" /\ l.fc_deadline # 0 /\ f.status = "CTS" ->
           [l EXCEPT !.tx = "send_cf", !.peer_bs = f.bs, !.peer_stmin = f.stmin,
                     !.block_left = f.bs, !.gap = 0, !.wft_count = 0,
                     !.fc_deadline = NBs]
      [] l.tx = "wait_fc" /\ l.fc_deadline # 0 /\ f.status = "WAIT" ->
           [l EXCEPT !.fc_deadline = NBs]
      [] OTHER -> TxOver(l)

\* For a transmission that waits for one: clear to send, wait, or an overflow.
OnFlowControl(l, f) ==
    CASE l.tx # "wait_fc" -> l
      [] l.tx = "wait_fc" /\ l.fc_deadline = 0 -> TxOver(l)
      [] l.tx = "wait_fc" /\ l.fc_deadline # 0 /\ f.status = "CTS" ->
           [l EXCEPT !.tx = "send_cf", !.peer_bs = f.bs, !.peer_stmin = f.stmin,
                     !.block_left = f.bs, !.gap = 0, !.wft_count = 0,
                     !.fc_deadline = NBs]
      [] l.tx = "wait_fc" /\ l.fc_deadline # 0 /\ f.status = "WAIT" ->
           IF l.wft_count >= WftMax THEN TxOver(l)
           ELSE [l EXCEPT !.wft_count = @ + 1, !.fc_deadline = NBs]
      [] OTHER -> TxOver(l)

OnFrame(e, l, f) ==
    CASE f.type = "SF" -> OnSingleFrame(l, f)
      [] f.type = "FF" -> OnFirstFrame(e, l, f)
      [] f.type = "CF" -> OnConsecutiveFrame(e, l, f)
      [] f.type = "FC" -> OnFlowControl(l, f)

-------------------------------------------------------------------------------
(***************************************************************************)
(* poll: the frame it produces, and the Link after it.                     *)
(***************************************************************************)
HasFrame(l) ==
    \/ l.fc_ovflw \/ l.fc_send
    \/ l.tx \in {"send_sf", "send_ff"}
    \/ l.tx = "send_cf" /\ l.gap = 0

PollFrame(e, l) ==
    CASE l.fc_ovflw -> FlowControl(e, "OVFLW")
      [] ~l.fc_ovflw /\ l.fc_send -> FlowControl(e, "CTS")
      [] OTHER ->
           CASE l.tx = "send_sf" -> SingleFrame(l.tx_buf)
             [] l.tx = "send_ff" -> FirstFrame(l.tx_buf)
             [] l.tx = "send_cf" ->
                  ConsecutiveFrame(l.tx_buf, l.tx_pos + 1, l.tx_sn)

\* Mutant: the block ends one frame late.
AfterConsecutiveLate(l) ==
    LET gone == [l EXCEPT !.tx_pos = @ + 1, !.tx_sn = (@ + 1) % SnMod,
                          !.gap = l.peer_stmin, !.fc_deadline = NBs]
    IN  CASE gone.tx_pos >= l.tx_buf.len -> TxOver(l)
          [] gone.tx_pos < l.tx_buf.len /\ l.peer_bs # 0 /\ l.block_left = 0 ->
               [gone EXCEPT !.tx = "wait_fc", !.gap = 0]
          [] gone.tx_pos < l.tx_buf.len /\ l.peer_bs # 0 /\ l.block_left # 0 ->
               [gone EXCEPT !.block_left = @ - 1]
          [] OTHER -> gone

\* A consecutive frame has gone: the last one, the last of the block the
\* receiver granted, or another.
AfterConsecutive(l) ==
    LET gone == [l EXCEPT !.tx_pos = @ + 1, !.tx_sn = (@ + 1) % SnMod,
                          !.gap = l.peer_stmin, !.fc_deadline = NBs]
    IN  CASE gone.tx_pos >= l.tx_buf.len -> TxOver(l)
          [] gone.tx_pos < l.tx_buf.len /\ l.peer_bs # 0 /\ l.block_left = 1 ->
               [gone EXCEPT !.tx = "wait_fc", !.block_left = 0, !.gap = 0]
          [] gone.tx_pos < l.tx_buf.len /\ l.peer_bs # 0 /\ l.block_left # 1 ->
               [gone EXCEPT !.block_left = @ - 1]
          [] OTHER -> gone

\* N_Cr starts when the clear-to-send goes out.
AfterPoll(l) ==
    CASE l.fc_ovflw -> [l EXCEPT !.fc_ovflw = FALSE]
      [] ~l.fc_ovflw /\ l.fc_send ->
           [l EXCEPT !.fc_send = FALSE,
                     !.rx_deadline = IF l.rx = "receiving" THEN NCr ELSE Unarmed]
      [] OTHER ->
           CASE l.tx = "send_sf" -> TxOver(l)
             [] l.tx = "send_ff" ->
                  [l EXCEPT !.tx = "wait_fc", !.tx_pos = 1, !.tx_sn = 1,
                            !.fc_deadline = NBs]
             [] l.tx = "send_cf" -> AfterConsecutive(l)

-------------------------------------------------------------------------------
(***************************************************************************)
(* What the owners and the bus do.                                         *)
(***************************************************************************)
\* send: refused while a transmission is in flight or if the message does not
\* fit this end's own buffer.
Send(e, n) ==
    /\ todo[e] > 0 /\ todo' = [todo EXCEPT ![e] = @ - 1]
    /\ link[e].tx = "idle" /\ n <= MaxPayload[e]
    /\ sent' = [sent EXCEPT ![e] = Append(@, n)]
    /\ link' = [link EXCEPT ![e].tx = IF n = 1 THEN "send_sf" ELSE "send_ff",
                            ![e].tx_buf = [id |-> Len(sent[e]) + 1, len |-> n]]
    /\ UNCHANGED <<wire, delivered, losses, aborts, stale>>

\* A flow control the end waits for is still to come: its frame is on the way,
\* the answer is owed, or the answer is on the way.
UnderWay(e) ==
    \/ \E i \in DOMAIN wire[Peer(e)] : wire[Peer(e)][i].type \in {"FF", "CF"}
    \/ link[Peer(e)].fc_send \/ link[Peer(e)].fc_ovflw
    \/ \E i \in DOMAIN wire[e] : wire[e][i].type = "FC"

\* Giving such a transmission up leaves a flow control that no longer belongs
\* to anything.
GivesUp(e) == link[e].tx = "wait_fc" /\ link'[e].tx = "idle" /\ UnderWay(e)'
Orphans(e) == stale' = (stale \/ GivesUp(e))

\* on_frame, and take_request behind it: a message that completes while an
\* answer is being sent is dropped.
Receive(e) ==
    /\ wire[e] # <<>>
    /\ wire' = [wire EXCEPT ![e] = Tail(@)]
    /\ LET l == OnFrame(e, link[e], Head(wire[e]))
       IN  /\ link' = [link EXCEPT ![e] =
                 IF l.ready THEN [l EXCEPT !.ready = FALSE, !.rx_buf = <<>>] ELSE l]
           /\ delivered' = [delivered EXCEPT ![e] =
                 IF l.ready /\ l.tx = "idle" THEN Append(@, l.rx_buf) ELSE @]
    /\ UNCHANGED <<todo, sent, losses, aborts>>
    /\ Orphans(e)

\* poll, into a channel that is ready: the frame reaches the other end.
PollReady(e) == HasFrame(link[e]) /\ Len(wire[Peer(e)]) < WireSize

Poll(e) ==
    /\ PollReady(e)
    /\ wire' = [wire EXCEPT ![Peer(e)] = Append(@, PollFrame(e, link[e]))]
    /\ link' = [link EXCEPT ![e] = AfterPoll(link[e])]
    /\ UNCHANGED <<todo, sent, delivered, losses, aborts, stale>>

MayLose == losses < MaxLost

\* ... or is lost on the way: the receiver's ring is full, the bus drops it ...
PollLost(e) ==
    /\ PollReady(e) /\ MayLose
    /\ losses' = losses + 1
    /\ link' = [link EXCEPT ![e] = AfterPoll(link[e])]
    /\ UNCHANGED <<todo, wire, sent, delivered, aborts, stale>>

\* ... or the channel refuses it, and the owner abandons its transmission.
PollRefused(e) ==
    /\ PollReady(e) /\ MayLose
    /\ losses' = losses + 1
    /\ link' = [link EXCEPT ![e] = TxOver(AfterPoll(link[e]))]
    /\ UNCHANGED <<todo, wire, sent, delivered, aborts>>
    /\ Orphans(e)

\* tick: what has run out.
TxExpired(l) == l.tx \in {"wait_fc", "send_cf"} /\ l.fc_deadline = 0

Tick(e) ==
    /\ TxExpired(link[e]) \/ Expired(link[e])
    /\ link' = [link EXCEPT ![e] =
          ExpireRx(IF TxExpired(link[e]) THEN TxOver(link[e]) ELSE link[e])]
    /\ UNCHANGED <<todo, wire, sent, delivered, losses, aborts>>
    /\ Orphans(e)

\* An owner ends the exchange (diagroute's end_exchange: abort_tx, abort_rx).
EndExchange(e) ==
    /\ aborts < MaxAborts /\ link[e] # IdleLink
    /\ aborts' = aborts + 1
    /\ link' = [link EXCEPT ![e] =
          [RxOver(TxOver(link[e])) EXCEPT !.fc_send = FALSE, !.fc_ovflw = FALSE]]
    /\ UNCHANGED <<todo, wire, sent, delivered, losses>>
    /\ Orphans(e)

\* A peer that is not ready says so, as often as it likes.
PeerWaits(e) ==
    /\ link[e].tx = "wait_fc" /\ wire[e] = <<>>
    /\ wire' = [wire EXCEPT ![e] = <<FlowControl(Peer(e), "WAIT")>>]
    /\ UNCHANGED <<todo, link, sent, delivered, losses, aborts, stale>>

\* Time.
Running(l) ==
    \/ l.tx \in {"wait_fc", "send_cf"} /\ l.fc_deadline > 0
    \/ l.gap > 0
    \/ l.rx = "receiving" /\ l.rx_deadline \notin {0, Unarmed}

Pass(l) ==
    [l EXCEPT !.fc_deadline = IF @ > 0 THEN @ - 1 ELSE 0,
              !.gap = IF @ > 0 THEN @ - 1 ELSE 0,
              !.rx_deadline = IF @ \in {0, Unarmed} THEN @ ELSE @ - 1]

Time ==
    /\ \E e \in End : Running(link[e])
    /\ link' = [e \in End |-> Pass(link[e])]
    /\ UNCHANGED <<todo, wire, sent, delivered, losses, aborts, stale>>

IsoInit ==
    /\ todo \in Plans
    /\ link = [e \in End |-> IdleLink]
    /\ wire = [e \in End |-> <<>>]
    /\ sent = [e \in End |-> <<>>] /\ delivered = [e \in End |-> <<>>]
    /\ losses = 0 /\ aborts = 0 /\ stale = FALSE

IsoNext ==
    \/ \E e \in End : \E n \in Lengths : Send(e, n)
    \/ \E e \in End :
          \/ Receive(e) \/ Poll(e) \/ PollLost(e) \/ PollRefused(e)
          \/ Tick(e) \/ EndExchange(e) \/ PeerWaits(e)
    \/ Time

\* Both owners run service passes that receive, tick and poll; time passes.
IsoSpec ==
    /\ IsoInit /\ [][IsoNext]_isoVars
    /\ \A e \in End : WF_isoVars(Receive(e)) /\ WF_isoVars(Poll(e)) /\ WF_isoVars(Tick(e))
    /\ WF_isoVars(Time)

-------------------------------------------------------------------------------
(***************************************************************************)
(* Properties.                                                             *)
(***************************************************************************)
IsoTypeOK ==
    /\ \A e \in End :
        /\ link[e].rx \in {"idle", "receiving"}
        /\ link[e].tx \in {"idle", "send_sf", "send_ff", "wait_fc", "send_cf"}
        /\ link[e].rx_len \in 0 .. MaxPayload[e]
        /\ Len(link[e].rx_buf) <= link[e].rx_len
        /\ link[e].rx_sn \in 0 .. SnMod - 1 /\ link[e].tx_sn \in 0 .. SnMod - 1
        /\ link[e].wft_count \in 0 .. WftMax
        /\ link[e].block_left \in 0 .. Bs[Peer(e)]
        /\ link[e].fc_deadline \in 0 .. NBs
        /\ link[e].rx_deadline \in 0 .. NCr \cup {Unarmed}
        /\ ~link[e].ready
        /\ Len(wire[e]) <= WireSize
    /\ losses \in 0 .. MaxLost /\ aborts \in 0 .. MaxAborts

Whole(id, n) == [i \in 1 .. n |-> <<id, i>>]

\* What an owner takes is a message its peer's Link accepted, the whole of it
\* and nothing else, each at most once and in the order sent.
Exchanged ==
    \A e \in End :
        /\ \A i \in DOMAIN delivered[e] :
              \E id \in DOMAIN sent[Peer(e)] :
                  delivered[e][i] = Whole(id, sent[Peer(e)][id])
        /\ \A i, j \in DOMAIN delivered[e] :
              i < j => delivered[e][i][1][1] < delivered[e][j][1][1]

\* REQ-TP-001, as long as no frame is lost, however late flow control is and
\* whatever is abandoned; and whatever frames are lost, as long as no flow
\* control outlives the transmission it was meant for.
ExchangedIntact == losses = 0 \/ ~stale => Exchanged

\* REQ-TP-001 as it is written: "a message of up to the transport's maximum
\* length is exchanged intact in either direction".
AlwaysIntact == Exchanged

\* REQ-TP-004 across the two ends: as long as flow control is in time, while a
\* Link owes one its peer sends no consecutive frame and none is on its way.
NoRunAhead ==
    \A e \in End :
        ~stale /\ link[e].fc_send =>
            /\ link[e].rx = "receiving"
            /\ link[Peer(e)].tx # "send_cf"
            /\ \A i \in DOMAIN wire[e] : wire[e][i].type # "CF"

\* Neither end goes past what the other granted or its own memory holds.
GrantsKept == IsoTypeOK /\ NoRunAhead

\* REQ-TP-007, REQ-TP-008, REQ-TP-009: whatever is lost, abandoned or late, and
\* however often the peer asks to wait, both Links come to rest.
AtRest ==
    \A e \in End :
        /\ link[e].tx = "idle" /\ link[e].rx = "idle"
        /\ ~link[e].fc_send /\ ~link[e].fc_ovflw
        /\ wire[e] = <<>>
ComesToRest == <>[]AtRest
===============================================================================
