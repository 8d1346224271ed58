--------------------------------- MODULE DoipMb --------------------------------
(***************************************************************************)
(* driver/eth/doip_mb.h: the sequence rules of the mailbox m that carries  *)
(* one request at a time from the doip thread to the server thread, and of *)
(* the route channel, which follows the same rules on a state of its own.  *)
(* A sequence number names a request; the fields say how far it has come.  *)
(***************************************************************************)
EXTENDS Integers

MbEmpty == [posted |-> 0, settled |-> 0, served |-> 0, queued |-> 0, reported |-> 0,
            drops |-> 0, drop_after |-> 0, drops_seen |-> 0,
            pushed |-> 0, push_taken |-> 0, push_queued |-> 0, push_reported |-> 0]

\* The socket is one on which an empty transmit queue means acknowledged.
Live(state) == state \in {"established", "close_wait"}

\* Plausible slips in these rules.
MbSentAnyState(m, state, unacked) ==
    m.served # m.reported /\ m.queued = m.served /\ unacked = 0
MbPushSentByAny(m, state, unacked) ==
    m.pushed # m.push_reported /\ unacked = 0 /\ Live(state)
MbCollectAny(m, seq) == m.served # 0
MbKeepsWaiting(m, seq) == m
MbDropUntold(m) ==
    [m EXCEPT !.queued = 0, !.push_queued = 0, !.push_taken = m.pushed, !.drop_after = m.posted]
MbDroppedLater(m) == m.drops # m.drops_seen /\ m.drop_after > m.served
MbPushUncounted(m) == m

MbPost(m) == [m EXCEPT !.posted = @ + 1]
MbWaiting(m) == m.settled # m.posted
MbServe(m) == [m EXCEPT !.served = m.posted, !.settled = m.posted]
MbWithdraw(m, seq) == [m EXCEPT !.settled = seq]
MbCollect(m, seq) == m.served = seq
MbQueue(m) == [m EXCEPT !.queued = m.served]
MbPushQueue(m) == [m EXCEPT !.push_queued = m.push_taken]
MbDrop(m) ==
    [m EXCEPT !.queued = 0, !.push_queued = 0, !.push_taken = m.pushed,
              !.drop_after = m.posted, !.drops = @ + 1]
MbPush(m) == [m EXCEPT !.pushed = @ + 1]
MbPushWaits(m) == m.push_taken # m.pushed
MbPushTake(m) == [m EXCEPT !.push_taken = m.pushed]

MbSent(m, state, unacked) ==
    m.served # m.reported /\ m.queued = m.served /\ unacked = 0 /\ Live(state)
MbPushSent(m, state, unacked) ==
    m.pushed # m.push_reported /\ m.push_queued = m.pushed /\ unacked = 0 /\ Live(state)

MbDroppedServed(m) == m.drops # m.drops_seen /\ m.drop_after >= m.served
MbDroppedTake(m) ==
    [m EXCEPT !.drops_seen = m.drops,
              !.push_taken = IF MbDroppedServed(m) THEN m.pushed ELSE @]

===============================================================================
