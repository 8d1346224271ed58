---------------------------------- MODULE Doip ---------------------------------
(***************************************************************************)
(* A diagnostic request over the network (DoIP): the doip thread           *)
(* (driver/eth/doip_netx.c, driver/doipnet) takes it off the one TCP       *)
(* connection, posts it in the mailbox (driver/eth/doip_mb.h), and sends   *)
(* the answer of the server thread (boot.Prog behind serve_mailbox), which *)
(* may ask for a reset or push further responses of a routine.             *)
(*                                                                         *)
(* A request is the number it gets when it is posted; only the first thing *)
(* a tester sends, the routing activation, is answered without the server. *)
(* The server thread is the node's most urgent one: once woken it runs its *)
(* whole pass before the network threads do anything, except that it may   *)
(* first wait for the IP thread to finish with a packet.                   *)
(***************************************************************************)
EXTENDS DoipMb, Integers, Sequences

CONSTANTS
    MaxConns,   \* bound: connections a tester opens
    MaxPosts,   \* bound: requests posted where the server thread is urgent
    MaxLoose,   \* bound: and where the threads run in any order
    MaxPipe,    \* bound: requests sent ahead on a connection; one where they run in any order
    Steps       \* steps of a routine: all but the last answer responsePending

ASSUME DoipAssumption ==
    /\ MaxConns \in Nat \ {0} /\ MaxPosts \in Nat /\ MaxLoose \in Nat
    /\ MaxPipe \in Nat \ {0}
    /\ Steps \in Nat \ {0}

Kinds == {"plain", "enter", "reset", "routine"}
NoMsg == <<"none", 0>>

VARIABLES
    \* the tester and TCP (external)
    conn,       \* the connection opened last
    sock,       \* nx_tcp_socket_state: "listen", "established", "close_wait", "closed"
    inq,        \* what the tester sent on it and the doip thread has not read
    acting,     \* it has asked for routing activation on it
    outq,       \* the socket's transmit queue: sent and not acknowledged
    got,        \* <<c, m>>: what testers have acknowledged, m on connection c
    \* the doip thread
    connected,  \* tcp_connected
    activated,  \* the V server's routing activation
    dpc,        \* its program counter
    dmsg,       \* what it is about to send, with dnext the place it goes on at
    dnext,
    dlate,      \* doip_mb_call: the wait ran out
    nacked,     \* requests it gave up on
    \* the mailbox
    mb,         \* doip_mb_t
    sem,        \* mb_done
    resp,       \* mb_resp: the request it answers
    from,       \* the connection of each request posted, of each push made
    pfrom,
    \* the server thread
    woken,      \* comm_wake
    spc,        \* its place in the pass
    reset,      \* reset_pending: the request that asked for it, 0 = none
    remote,     \* uds.RemoteReset
    session,    \* the connection that holds the session, 0 = default session, -1 = one
                \* handed off by the application, whose tester has not spoken yet
    work,       \* steps left of a routine, -1 = its answer is made, 0 = none
    wout,       \* work_out: a response of it is on its way
    wready,     \* work_ready: its next step may run
    wlast,      \* the response it gave last, and the connection it was asked on
    wconn,
    down,       \* the node has reset
    answered,   \* the requests served
    urgent      \* this node's server thread runs before the network threads

tcp == <<conn, sock, inq, acting, outq, got>>
thread == <<connected, activated, dpc, dmsg, dnext, dlate, nacked>>
box == <<mb, sem, resp, from, pfrom>>
server == <<spc, reset, remote, session, work, wout, wready, wlast, wconn, down, answered, urgent>>
vars == <<tcp, thread, box, woken, server>>

Init ==
    /\ conn = 0 /\ sock = "listen" /\ inq = <<>> /\ acting = FALSE /\ outq = <<>> /\ got = {}
    /\ connected = FALSE /\ activated = FALSE
    /\ dpc = "top" /\ dmsg = NoMsg /\ dnext = "top" /\ dlate = FALSE /\ nacked = {}
    /\ mb = MbEmpty /\ sem = 0 /\ resp = 0 /\ from = <<>> /\ pfrom = <<>>
    /\ woken = FALSE
    /\ spc = "rest" /\ reset = 0 /\ session \in {0, -1}
    /\ remote = [inflight |-> FALSE, reset |-> FALSE, acked |-> FALSE]
    /\ work = 0 /\ wout = FALSE /\ wready = FALSE /\ wlast = NoMsg /\ wconn = 0
    /\ down = FALSE /\ answered = {}
    /\ urgent \in BOOLEAN /\ (session = -1 => urgent)

-------------------------------------------------------------------------------
(***************************************************************************)
(* Testers and the TCP connection, as the IP thread sees them (external).  *)
(***************************************************************************)
Below == ~down /\ (urgent => spc = "rest" /\ ~woken)
IpRuns == Below \/ (~down /\ spc = "sent" /\ connected)
OnlyTcp == UNCHANGED <<thread, box, woken, server>>

\* Requests are sent ahead up to the window; the routing activation goes first.
TesterSends ==
    /\ IpRuns /\ connected /\ sock = "established"
    /\ Len(inq) < IF urgent THEN MaxPipe ELSE 1
    /\ acting => mb.posted + Len(inq) < IF urgent THEN MaxPosts ELSE MaxLoose
    /\ inq' = Append(inq, IF acting THEN "request" ELSE "activation")
    /\ acting' = TRUE
    /\ UNCHANGED <<conn, sock, outq, got>> /\ OnlyTcp

\* TCP acknowledges in order.
TesterAcks ==
    /\ IpRuns /\ outq # <<>> /\ Live(sock)
    /\ got' = got \union {<<conn, Head(outq)>>}
    /\ outq' = Tail(outq)
    /\ UNCHANGED <<conn, sock, inq, acting>> /\ OnlyTcp

TesterCloses ==
    /\ IpRuns /\ sock = "established"
    /\ sock' = "close_wait"
    /\ UNCHANGED <<conn, inq, acting, outq, got>> /\ OnlyTcp

\* A reset, or the retransmissions ran out: what was queued is gone.
TesterResets ==
    /\ IpRuns /\ Live(sock)
    /\ sock' = "closed" /\ outq' = <<>> /\ inq' = <<>>
    /\ UNCHANGED <<conn, acting, got>> /\ OnlyTcp

Tester == TesterSends \/ TesterAcks \/ TesterCloses \/ TesterResets

-------------------------------------------------------------------------------
(***************************************************************************)
(* The doip thread: netx_d_freestanding.v's run over doip_netx.c.  A step  *)
(* that takes the mailbox mutex waits while the server thread holds it.    *)
(***************************************************************************)
MutexFree == spc # "serving"

Sends(m, then) == dpc' = "send" /\ dmsg' = m /\ dnext' = then

\* doip_mb_push_get, then push: only to a tester that is activated.
PushGet ==
    /\ Below /\ dpc = "top" /\ MutexFree
    /\ IF MbPushWaits(mb) /\ activated THEN Sends(<<"push", mb.pushed>>, "pushed")
       ELSE dpc' = "recv" /\ UNCHANGED <<dmsg, dnext>>
    /\ mb' = IF MbPushWaits(mb) THEN MbPushTake(mb) ELSE mb
    /\ UNCHANGED <<tcp, connected, activated, dlate, nacked, sem, resp, from, pfrom, woken, server>>

\* doip_mb_push_queued
PushQueued ==
    /\ Below /\ dpc = "pushed" /\ MutexFree
    /\ mb' = MbPushQueue(mb)
    /\ dpc' = "recv"
    /\ UNCHANGED <<tcp, connected, activated, dmsg, dnext, dlate, nacked, sem, resp, from, pfrom,
                   woken, server>>

\* doip_stream_recv: wait for a tester, for ever.
Accept ==
    /\ Below /\ dpc = "recv" /\ ~connected /\ conn < MaxConns
    /\ conn' = conn + 1 /\ sock' = "established" /\ acting' = FALSE
    /\ connected' = TRUE
    /\ UNCHANGED <<inq, outq, got, activated, dpc, dmsg, dnext, dlate, nacked, box, woken, server>>

ReceiveNothing ==
    /\ Below /\ dpc = "recv" /\ connected /\ inq = <<>> /\ sock = "established"
    /\ dpc' = "top"
    /\ UNCHANGED <<tcp, connected, activated, dmsg, dnext, dlate, nacked, box, woken, server>>

\* The bytes completed no further message.
FeedEnds ==
    /\ Below /\ dpc = "feed"
    /\ dpc' = "top"
    /\ UNCHANGED <<tcp, connected, activated, dmsg, dnext, dlate, nacked, box, woken, server>>

Receives == Below /\ dpc \in {"recv", "feed"} /\ connected /\ inq # <<>>

Activate ==
    /\ Receives /\ Head(inq) = "activation"
    /\ inq' = Tail(inq)
    /\ activated' = TRUE
    /\ Sends(<<"activated", conn>>, "feed")
    /\ UNCHANGED <<conn, sock, acting, outq, got, connected, dlate, nacked, box, woken, server>>

\* doip_mb_call, to its first wait
Post ==
    /\ Receives /\ Head(inq) = "request" /\ activated /\ MutexFree
    /\ inq' = Tail(inq)
    /\ mb' = MbPost(mb)
    /\ from' = Append(from, conn)
    /\ woken' = TRUE
    /\ dpc' = "wait"
    /\ UNCHANGED <<conn, sock, acting, outq, got, connected, activated, dmsg, dnext, dlate, nacked,
                   sem, resp, pfrom, server>>

\* The semaphore was put, for this request or, stale, for one before it.
Signalled ==
    /\ Below /\ dpc = "wait" /\ sem > 0
    /\ sem' = sem - 1
    /\ dpc' = "check" /\ dlate' = FALSE
    /\ UNCHANGED <<tcp, connected, activated, dmsg, dnext, nacked, mb, resp, from, pfrom, woken, server>>

TimesOut ==
    /\ Below /\ dpc = "wait"
    /\ dpc' = "check" /\ dlate' = TRUE
    /\ UNCHANGED <<tcp, connected, activated, dmsg, dnext, nacked, box, woken, server>>

Collect ==
    /\ Below /\ dpc = "check" /\ MutexFree /\ MbCollect(mb, mb.posted)
    /\ Sends(<<"answer", resp>>, "feed")
    /\ UNCHANGED <<tcp, connected, activated, dlate, nacked, box, woken, server>>

WaitOn ==
    /\ Below /\ dpc = "check" /\ MutexFree /\ ~MbCollect(mb, mb.posted) /\ ~dlate
    /\ dpc' = "wait"
    /\ UNCHANGED <<tcp, connected, activated, dmsg, dnext, dlate, nacked, box, woken, server>>

Withdraw ==
    /\ Below /\ dpc = "check" /\ MutexFree /\ ~MbCollect(mb, mb.posted) /\ dlate
    /\ mb' = MbWithdraw(mb, mb.posted)
    /\ nacked' = nacked \union {mb.posted}
    /\ Sends(<<"nack", mb.posted>>, "feed")
    /\ UNCHANGED <<tcp, connected, activated, dlate, sem, resp, from, pfrom, woken, server>>

\* doip_stream_send: into TCP's transmit queue ...
Send ==
    /\ Below /\ dpc = "send" /\ Live(sock)
    /\ outq' = Append(outq, dmsg)
    /\ dpc' = "queue"
    /\ UNCHANGED <<conn, sock, inq, acting, got, connected, activated, dmsg, dnext, dlate, nacked, box,
                   woken, server>>

\* ... and then reported
SendReported ==
    /\ Below /\ dpc = "queue"
    /\ mb' = MbQueue(mb)
    /\ woken' = TRUE
    /\ dpc' = dnext
    /\ UNCHANGED <<tcp, connected, activated, dmsg, dnext, dlate, nacked, sem, resp, from, pfrom, server>>

\* stream_recycle: the peer is gone, an inactivity limit ran out, or a send failed.
Recycle ==
    /\ Below /\ connected /\ dpc \in {"recv", "send"}
    /\ sock' = "listen" /\ inq' = <<>> /\ outq' = <<>>
    /\ connected' = FALSE
    /\ dpc' = "drop"
    /\ UNCHANGED <<conn, acting, got, activated, dmsg, dnext, dlate, nacked, box, woken, server>>

RecycleReported ==
    /\ Below /\ dpc = "drop" /\ MutexFree
    /\ mb' = MbDrop(mb)
    /\ woken' = TRUE
    /\ activated' = FALSE
    /\ dpc' = "top"
    /\ UNCHANGED <<tcp, connected, dmsg, dnext, dlate, nacked, sem, resp, from, pfrom, server>>

Thread ==
    \/ PushGet \/ PushQueued \/ Accept \/ ReceiveNothing \/ FeedEnds \/ Activate \/ Post
    \/ Signalled \/ TimesOut \/ Collect \/ WaitOn \/ Withdraw
    \/ Send \/ SendReported \/ Recycle \/ RecycleReported

-------------------------------------------------------------------------------
(***************************************************************************)
(* The server thread's pass: serve_mailbox for boot.Prog, the routine's    *)
(* push and its next step, the reset.                                      *)
(***************************************************************************)
OnlyServer == UNCHANGED <<tcp, thread, urgent>>

\* Prog.work_left: the routine's response on its way has left.
WorkLeft(now) ==
    /\ wout' = (wout /\ ~now)
    /\ work' = IF now /\ wout /\ work = -1 THEN 0 ELSE work
    /\ wready' = (wready \/ (now /\ wout /\ work # -1))

\* The rest between passes: a tick, or comm_wake.
PassBegins ==
    /\ ~down /\ spc = "rest"
    /\ spc' = "sent" /\ woken' = FALSE
    /\ UNCHANGED <<box, reset, remote, session, work, wout, wready, wlast, wconn, down, answered>>
    /\ OnlyServer

\* doip_mb_take_sent, remote_sent
TakeSent ==
    /\ spc = "sent"
    /\ LET sent == MbSent(mb, IF connected THEN sock ELSE "closed", Len(outq))
       IN  /\ mb' = [mb EXCEPT !.reported = IF sent THEN mb.served ELSE @]
           /\ remote' = IF sent THEN [remote EXCEPT !.inflight = FALSE, !.acked = @ \/ remote.reset]
                        ELSE remote
           /\ WorkLeft(sent /\ wlast[1] # "push")
    /\ spc' = "dropped"
    /\ UNCHANGED <<sem, resp, from, pfrom, woken, reset, session, wlast, wconn, down, answered>>
    /\ OnlyServer

\* doip_mb_take_dropped, remote_dropped
TakeDropped ==
    /\ spc = "dropped"
    /\ mb' = MbDroppedTake(mb)
    /\ IF MbDroppedServed(mb)
       THEN /\ remote' = [remote EXCEPT !.inflight = FALSE]
            /\ reset' = IF remote.reset /\ ~remote.acked THEN 0 ELSE reset
            /\ session' = IF session = -1 THEN session ELSE 0
            /\ work' = 0
       ELSE UNCHANGED <<remote, reset, session, work>>
    /\ spc' = "take"
    /\ UNCHANGED <<sem, resp, from, pfrom, woken, wout, wready, wlast, wconn, down, answered>>
    /\ OnlyServer

\* doip_mb_take: a request is there, and the mailbox held until it is answered.
Take ==
    /\ spc = "take"
    /\ spc' = IF MbWaiting(mb) THEN "serving" ELSE "pushsent"
    /\ UNCHANGED <<box, woken, reset, remote, session, work, wout, wready, wlast, wconn, down, answered>>
    /\ OnlyServer

Refused == reset # 0 \/ work > 0

\* serve_remote and doip_mb_answer; `kind` is what the request asks.  Bound: only plain
\* requests are asked where the threads run in any order.
Serve(kind) ==
    /\ spc = "serving"
    /\ Refused \/ ~urgent => kind = "plain"
    /\ kind = "routine" => session # 0
    /\ LET seq == mb.posted
           resets == kind = "reset"
           begins == kind = "routine"
       IN  /\ reset' = IF resets THEN seq ELSE reset
           /\ remote' = [remote EXCEPT !.inflight = TRUE, !.reset = @ \/ resets,
                                       !.acked = @ /\ ~resets]
           /\ session' = IF kind = "enter" \/ (~Refused /\ session = -1) THEN from[seq] ELSE session
           /\ work' = IF begins THEN Steps ELSE work
           /\ wout' = (wout \/ begins)
           /\ wready' = (wready /\ ~begins)
           /\ wlast' = IF begins THEN <<"answer", seq>> ELSE wlast
           /\ wconn' = IF begins THEN from[seq] ELSE wconn
           /\ mb' = MbServe(mb) /\ resp' = seq /\ sem' = sem + 1
           /\ answered' = answered \union {seq}
    /\ spc' = "pushsent"
    /\ UNCHANGED <<from, pfrom, woken, down>> /\ OnlyServer

\* doip_mb_take_push_sent, push_sent
TakePushSent ==
    /\ spc = "pushsent"
    /\ LET sent == MbPushSent(mb, IF connected THEN sock ELSE "closed", Len(outq))
       IN  /\ mb' = [mb EXCEPT !.push_reported = IF sent THEN mb.pushed ELSE @]
           /\ WorkLeft(sent /\ wlast[1] = "push")
    /\ spc' = "work"
    /\ UNCHANGED <<sem, resp, from, pfrom, woken, reset, remote, session, wlast, wconn, down, answered>>
    /\ OnlyServer

\* Prog.step and doip_mb_push_resp: responsePending, or after the last step the answer.
Step ==
    /\ spc = "work" /\ work > 0 /\ wready
    /\ wready' = FALSE /\ wout' = TRUE
    /\ work' = IF work > 1 THEN work - 1 ELSE -1
    /\ mb' = MbPush(mb)
    /\ wlast' = <<"push", mb.pushed + 1>>
    /\ pfrom' = Append(pfrom, wconn)
    /\ spc' = "due"
    /\ UNCHANGED <<sem, resp, from, woken, reset, remote, session, wconn, down, answered>>
    /\ OnlyServer

NoStep ==
    /\ spc = "work" /\ ~(work > 0 /\ wready)
    /\ spc' = "due"
    /\ UNCHANGED <<box, woken, reset, remote, session, work, wout, wready, wlast, wconn, down, answered>>
    /\ OnlyServer

Due == reset # 0 /\ ~remote.inflight

\* The reset, once no answer is on its way; the node goes down with it.
Resets ==
    /\ spc = "due" /\ Due
    /\ down' = TRUE
    /\ UNCHANGED <<box, woken, spc, reset, remote, session, work, wout, wready, wlast, wconn, answered>>
    /\ OnlyServer

\* Prog.tick: S3 ends a session when nothing is in flight (`silent`: it has run out).
PassEnds(silent) ==
    /\ spc = "due" /\ ~Due /\ ~down
    /\ silent => session # 0 /\ work = 0 /\ ~remote.inflight
    /\ session' = IF silent THEN 0 ELSE session
    /\ spc' = "rest"
    /\ UNCHANGED <<box, woken, reset, remote, work, wout, wready, wlast, wconn, down, answered>>
    /\ OnlyServer

Server ==
    \/ PassBegins \/ TakeSent \/ TakeDropped \/ Take \/ TakePushSent \/ Step \/ NoStep \/ Resets
    \/ \E kind \in Kinds : Serve(kind)
    \/ \E silent \in BOOLEAN : PassEnds(silent)

Next == Tester \/ Thread \/ Server

Spec == Init /\ [][Next]_vars

-------------------------------------------------------------------------------
TypeOK ==
    /\ conn \in 0 .. MaxConns /\ sock \in {"listen", "established", "close_wait", "closed"}
    /\ inq \in Seq({"activation", "request"}) /\ Len(inq) <= MaxPipe
    /\ dpc \in {"top", "pushed", "recv", "feed", "wait", "check", "send", "queue", "drop"}
    /\ spc \in {"rest", "sent", "dropped", "take", "serving", "pushsent", "work", "due"}
    /\ mb.posted \in Nat /\ Len(from) = mb.posted /\ Len(pfrom) = mb.pushed
    /\ work \in -1 .. Steps

\* The node resets only after the tester that asked for it has acknowledged the
\* answer, whatever was pipelined behind it, dropped or connected since: no reset
\* overtakes the answer that announces it (REQ-BOOT-012, uds.RemoteReset).
ResetAnswered == down /\ urgent => <<from[reset], <<"answer", reset>>>> \in got

\* What a tester gets answers a request of its own connection: a late answer is
\* never read as the next one's, and a push made for a tester that went is never
\* sent to the one that came (doip_mb.h).
OwnAnswers ==
    \A g \in got :
        /\ g[2][1] \in {"answer", "nack"} => from[g[2][2]] = g[1]
        /\ g[2][1] = "push" /\ urgent => pfrom[g[2][2]] = g[1]

\* A request its tester was told has failed is never served, before or after, in
\* any order of the threads (doip_mb_withdraw).
FailedNotServed == nacked \intersect answered = {}

\* No tester is served in the session of another: the drop of a connection ends
\* its session before the next tester's first request (Prog.remote_dropped).
SessionDies == urgent /\ spc = "serving" /\ session > 0 => from[mb.posted] = session

\* A routine's unit runs only when the tester has acknowledged the response before
\* it, by whichever way that went out (Prog.work_due: an erase stalls the chip).
StepAfterAck ==
    [][urgent /\ mb'.pushed # mb.pushed => <<wconn, wlast>> \in got]_vars

\* A pending reset never waits for an acknowledgement that cannot come: while an
\* answer counts as in flight, the doip thread is still to send it or to report its
\* connection gone, or it is queued on the connection that is open and will be told
\* acknowledged or dropped (RemoteReset.inflight).
NotStranded ==
    urgent /\ remote.inflight /\ spc = "rest" /\ ~woken =>
        \/ dpc \in {"wait", "check", "send", "queue", "drop"}
        \/ connected /\ mb.queued = mb.served /\ mb.reported # mb.served

===============================================================================
