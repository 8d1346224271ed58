------------------------------- MODULE DoipRoute -------------------------------
(***************************************************************************)
(* The route channel of a DoIP gateway (driver/eth/doip_netx.c, REQ-NET-   *)
(* 019): a tester's request for a node behind the gateway goes to the      *)
(* router of the comm thread (comm/diagroute), which judges it; the node's *)
(* answers come back later through a slot that holds one.                  *)
(*                                                                         *)
(* A request is the number it gets when it is posted.  The comm thread is  *)
(* the more urgent one, as far as the nodes are generated: woken, it runs  *)
(* its pass before the doip thread.  What must hold for any priorities is  *)
(* checked without that.                                                   *)
(***************************************************************************)
EXTENDS DoipMb, Integers, Sequences

CONSTANTS
    RouteConns,   \* bound: connections
    RouteCalls,   \* bound: routed requests where the comm thread runs first
    RouteLoose    \* bound: and where the threads run in any order

ASSUME RouteAssumption ==
    RouteConns \in Nat \ {0} /\ RouteCalls \in Nat /\ RouteLoose \in Nat

QueueLen == 2   \* diagroute.queue_len
Empty == 0      \* the slot holds nothing; no request is active

VARIABLES
    \* the doip thread and comm/doip's server
    rconn,      \* Server.conn: the number of the connection
    ropen,      \* a tester is connected and activated
    rpc,        \* the thread's place
    ticket,     \* Server.ticket
    routeOpen,  \* Server.route_open
    rlate,      \* doip_rt_call's wait ran out
    failed,     \* requests it was told were not taken in time
    delivered,  \* <<c, r>>: answers to r sent on connection c
    \* the channel
    rt,         \* doip_mb_t
    rtsem,      \* rt_done
    calls,      \* what was posted: the connection, the ticket
    verdict,    \* rt_code: the request was forwarded
    slot,       \* rt_ans: the request it answers, and whether it is the last answer
    ends, endsSeen,   \* rt_ends, rt_ends_seen
    live,       \* rt_live
    \* the comm thread: its server's unlock, and the router
    cpc,        \* its place in the pass
    rwoken,     \* comm_wake
    untold,     \* the mailbox's dropped connection is not taken yet
    asks,       \* an unlock request waits in the mailbox
    unlock,     \* the connection whose tester holds the unlock, -1 = nobody
    earned,     \* the connections whose tester ever did
    granted, bound, grantConn,   \* Router
    active, sending,             \* the request in flight; still being sent
    queue,      \* answers for the doip thread
    forwarded,  \* requests the router took
    first       \* on this node the comm thread, once woken, runs its pass first

NobodysAnswer == <<Empty, TRUE>>

doip == <<rconn, ropen, rpc, ticket, routeOpen, rlate, failed, delivered>>
channel == <<rt, rtsem, calls, verdict, slot, ends, endsSeen, live>>
unlocks == <<untold, asks, unlock, earned>>
router == <<granted, bound, grantConn, active, sending, queue, forwarded>>
routeVars == <<doip, channel, cpc, rwoken, unlocks, router, first>>

RouteInit ==
    /\ rconn = 0 /\ ropen = FALSE /\ rpc = "top" /\ ticket = 0 /\ routeOpen = FALSE
    /\ rlate = FALSE /\ failed = {} /\ delivered = {}
    /\ rt = MbEmpty /\ rtsem = 0 /\ calls = <<>> /\ verdict = FALSE /\ slot = NobodysAnswer
    /\ ends = 0 /\ endsSeen = 0 /\ live = 0
    /\ cpc = "rest" /\ rwoken = FALSE
    /\ untold = FALSE /\ asks = FALSE /\ unlock = -1 /\ earned = {}
    /\ granted = FALSE /\ bound = FALSE /\ grantConn = 0
    /\ active = Empty /\ sending = FALSE /\ queue = <<>> /\ forwarded = {}
    /\ first \in BOOLEAN

-------------------------------------------------------------------------------
(***************************************************************************)
(* The doip thread: run_gateway, one pass after another.                   *)
(***************************************************************************)
NetRuns == first => cpc = "rest" /\ ~rwoken
OnlyDoip == UNCHANGED <<cpc, router, first>>

Goes(to) == rpc' = to

\* routed: only the latest request's answer, while its tester is there.
StillAsking == slot[1] # Empty /\ ropen /\ routeOpen   \* a slip: the ticket not compared
LatestAsked == slot[1] # Empty /\ ropen /\ routeOpen /\ calls[slot[1]].ticket = ticket

\* doip_rt_get
GetAnswer ==
    /\ NetRuns /\ rpc = "top"
    /\ IF LatestAsked
       THEN Goes("send") ELSE Goes("done")
    /\ UNCHANGED <<rconn, ropen, ticket, routeOpen, rlate, failed, delivered, channel, rwoken, unlocks>>
    /\ OnlyDoip

SendAnswer ==
    /\ NetRuns /\ rpc = "send"
    /\ delivered' = delivered \union {<<rconn, slot[1]>>}
    /\ routeOpen' = ~slot[2]
    /\ Goes("done")
    /\ UNCHANGED <<rconn, ropen, ticket, rlate, failed, channel, rwoken, unlocks>> /\ OnlyDoip

\* doip_rt_done, when there was an answer
Done ==
    /\ NetRuns /\ rpc = "done"
    /\ slot' = NobodysAnswer
    /\ Goes("recv")
    /\ UNCHANGED <<rconn, ropen, ticket, routeOpen, rlate, failed, delivered,
                   rt, rtsem, calls, verdict, ends, endsSeen, live, rwoken, unlocks>>
    /\ OnlyDoip

\* The poll budget, which runs only once the router no longer holds the exchange, or once
\* its word is too old to be believed: a comm thread kept from passing (doip_rt_is_live).
GivesUp ==
    /\ NetRuns /\ rpc = "recv" /\ routeOpen /\ (live # ticket \/ ~first)
    /\ routeOpen' = FALSE
    /\ UNCHANGED <<rconn, ropen, rpc, ticket, rlate, failed, delivered, channel, rwoken, unlocks>>
    /\ OnlyDoip

Connects ==
    /\ NetRuns /\ rpc = "recv" /\ ~ropen /\ rconn < RouteConns
    /\ ropen' = TRUE
    /\ UNCHANGED <<rconn, rpc, ticket, routeOpen, rlate, failed, delivered, channel, rwoken, unlocks>>
    /\ OnlyDoip

\* A receive that brings nothing for the router.
Idles ==
    /\ NetRuns /\ rpc = "recv" /\ ropen
    /\ Goes("top")
    /\ UNCHANGED <<rconn, ropen, ticket, routeOpen, rlate, failed, delivered, channel, rwoken, unlocks>>
    /\ OnlyDoip

\* The tester asks the gateway's own server for the unlock (the mailbox, Doip).
AsksUnlock ==
    /\ NetRuns /\ rpc = "recv" /\ ropen
    /\ asks' = TRUE /\ rwoken' = TRUE
    /\ Goes("top")
    /\ UNCHANGED <<rconn, ropen, ticket, routeOpen, rlate, failed, delivered, channel,
                   untold, unlock, earned>>
    /\ OnlyDoip

\* doip_rt_call, to its first wait
Calls ==
    /\ NetRuns /\ rpc = "recv" /\ ropen /\ rt.posted < IF first THEN RouteCalls ELSE RouteLoose
    /\ rt' = MbPost(rt)
    /\ calls' = Append(calls, [conn |-> rconn, ticket |-> ticket + 1])
    /\ rwoken' = TRUE
    /\ Goes("wait")
    /\ UNCHANGED <<rconn, ropen, ticket, routeOpen, rlate, failed, delivered,
                   rtsem, verdict, slot, ends, endsSeen, live, unlocks>>
    /\ OnlyDoip

\* The wait ends on the semaphore, put for this request or a stale one, or in time.
Waits ==
    /\ NetRuns /\ rpc = "wait"
    /\ \/ rtsem > 0 /\ rtsem' = rtsem - 1 /\ rlate' = FALSE
       \/ rtsem' = rtsem /\ rlate' = TRUE
    /\ Goes("check")
    /\ UNCHANGED <<rconn, ropen, ticket, routeOpen, failed, delivered,
                   rt, calls, verdict, slot, ends, endsSeen, live, rwoken, unlocks>>
    /\ OnlyDoip

\* The router's verdict: forwarded, the request becomes the latest one.
Judged ==
    /\ NetRuns /\ rpc = "check" /\ MbCollect(rt, rt.posted)
    /\ ticket' = IF verdict THEN calls[rt.posted].ticket ELSE ticket
    /\ routeOpen' = (routeOpen \/ verdict)
    /\ Goes("top")
    /\ UNCHANGED <<rconn, ropen, rlate, failed, delivered, channel, rwoken, unlocks>> /\ OnlyDoip

NotJudged ==
    /\ NetRuns /\ rpc = "check" /\ ~MbCollect(rt, rt.posted)
    /\ IF rlate
       THEN /\ rt' = MbWithdraw(rt, rt.posted)
            /\ failed' = failed \union {rt.posted}
            /\ Goes("top")
       ELSE Goes("wait") /\ UNCHANGED <<rt, failed>>
    /\ UNCHANGED <<rconn, ropen, ticket, routeOpen, rlate, delivered,
                   rtsem, calls, verdict, slot, ends, endsSeen, live, rwoken, unlocks>>
    /\ OnlyDoip

\* stream_recycle: the mailbox hears of the drop, then the router's count goes up ...
Drops ==
    /\ NetRuns /\ rpc \in {"recv", "send"} /\ ropen
    /\ untold' = TRUE
    /\ Goes("ends")
    /\ UNCHANGED <<rconn, ropen, ticket, routeOpen, rlate, failed, delivered, channel, rwoken,
                   asks, unlock, earned>>
    /\ OnlyDoip

DropCounted ==
    /\ NetRuns /\ rpc = "ends"
    /\ ends' = ends + 1 /\ rwoken' = TRUE
    /\ Goes("end")
    /\ UNCHANGED <<rconn, ropen, ticket, routeOpen, rlate, failed, delivered,
                   rt, rtsem, calls, verdict, slot, endsSeen, live, unlocks>>
    /\ OnlyDoip

\* ... and doipnet's end starts the next connection's numbers.
Ends ==
    /\ NetRuns /\ rpc = "end"
    /\ rconn' = rconn + 1 /\ ticket' = ticket + 1
    /\ ropen' = FALSE /\ routeOpen' = FALSE
    /\ Goes("top")
    /\ UNCHANGED <<rlate, failed, delivered, channel, rwoken, unlocks>> /\ OnlyDoip

DoipThread ==
    \/ GetAnswer \/ SendAnswer \/ Done \/ GivesUp \/ Connects \/ Idles \/ AsksUnlock \/ Calls
    \/ Waits \/ Judged \/ NotJudged \/ Drops \/ DropCounted \/ Ends

-------------------------------------------------------------------------------
(***************************************************************************)
(* The comm thread's pass: serve_mailbox, then serve_routes.               *)
(***************************************************************************)
OnlyComm == UNCHANGED <<doip, first>>

\* A drop ends the unlock; an unlock request waiting is served after it.
ServeMailbox ==
    /\ cpc = "rest"
    /\ rwoken' = FALSE /\ cpc' = "cancel"
    /\ untold' = FALSE /\ asks' = FALSE
    /\ unlock' = IF asks THEN rconn ELSE IF untold THEN -1 ELSE unlock
    /\ earned' = IF asks THEN earned \union {rconn} ELSE earned
    /\ UNCHANGED <<channel, router>> /\ OnlyComm

\* Slips: the answers that wait are left; so is the grant.
CancelLeavesAnswers ==
    /\ cpc = "cancel"
    /\ cpc' = "judge"
    /\ endsSeen' = ends /\ active' = Empty /\ sending' = FALSE /\ granted' = FALSE /\ bound' = FALSE
    /\ UNCHANGED <<rt, rtsem, calls, verdict, slot, ends, live, rwoken, unlocks, grantConn, forwarded,
                   queue>>
    /\ OnlyComm
CancelLeavesGrant ==
    /\ cpc = "cancel"
    /\ cpc' = "judge"
    /\ endsSeen' = ends /\ active' = Empty /\ sending' = FALSE /\ queue' = <<>>
    /\ UNCHANGED <<rt, rtsem, calls, verdict, slot, ends, live, rwoken, unlocks, grantConn, forwarded,
                   granted, bound>>
    /\ OnlyComm

\* doip_rt_take_ended, Router.cancel
Cancel ==
    /\ cpc = "cancel"
    /\ cpc' = "judge"
    /\ IF ends # endsSeen
       THEN /\ endsSeen' = ends
            /\ active' = Empty /\ sending' = FALSE /\ queue' = <<>>
            /\ granted' = FALSE /\ bound' = FALSE
       ELSE UNCHANGED <<endsSeen, active, sending, queue, granted, bound>>
    /\ UNCHANGED <<rt, rtsem, calls, verdict, slot, ends, live, rwoken, unlocks, grantConn, forwarded>>
    /\ OnlyComm

\* doip_mb_drop_is_pending holds the router off; hold, the grant of the unlock;
\* doip_rt_take, Router.accept, doip_rt_answer.  `sent`: the link takes the request.
NewTester(c) == granted /\ bound /\ grantConn # c
Granted(c) == (granted /\ ~NewTester(c)) \/ unlock # -1

Judge(sent) ==
    /\ cpc = "judge" /\ ~untold /\ MbWaiting(rt)
    /\ LET r == rt.posted
           c == calls[r].conn
           takes == Granted(c) /\ ~(active # Empty /\ sending)
       IN  /\ granted' = Granted(c)
           /\ bound' = Granted(c)
           /\ grantConn' = IF Granted(c) THEN c ELSE grantConn
           /\ active' = IF takes THEN (IF sent THEN r ELSE Empty) ELSE active
           /\ sending' = IF takes THEN sent ELSE sending
           /\ queue' = IF takes THEN <<>> ELSE queue
           /\ forwarded' = IF takes /\ sent THEN forwarded \union {r} ELSE forwarded
           /\ verdict' = (takes /\ sent)
           /\ rt' = MbServe(rt) /\ rtsem' = rtsem + 1
    /\ cpc' = "put"
    /\ UNCHANGED <<calls, slot, ends, endsSeen, live, rwoken, unlocks>> /\ OnlyComm

HoldOnly ==
    /\ cpc = "judge" /\ (untold \/ ~MbWaiting(rt))
    /\ granted' = (granted \/ (~untold /\ unlock # -1))
    /\ cpc' = "put"
    /\ UNCHANGED <<channel, rwoken, unlocks, bound, grantConn, active, sending, queue, forwarded>>
    /\ OnlyComm

\* doip_rt_put while there is room, doip_rt_live
PutAnswers ==
    /\ cpc = "put"
    /\ IF queue # <<>> /\ slot = NobodysAnswer
       THEN slot' = Head(queue) /\ queue' = Tail(queue)
       ELSE UNCHANGED <<slot, queue>>
    /\ live' = IF active # Empty THEN calls[active].ticket ELSE 0
    /\ cpc' = "rest"
    /\ UNCHANGED <<rt, rtsem, calls, verdict, ends, endsSeen, rwoken, unlocks,
                   granted, bound, grantConn, active, sending, forwarded>>
    /\ OnlyComm

\* Between its passes' network shares the comm thread works the target's bus.
OnBus == cpc = "rest" /\ active # Empty /\ OnlyComm
         /\ UNCHANGED <<channel, cpc, rwoken, unlocks, granted, bound, grantConn, forwarded>>

RequestLeaves == OnBus /\ sending /\ sending' = FALSE /\ UNCHANGED <<active, queue>>

\* A send given up, a stall, no answer in time.
ExchangeEnds == OnBus /\ active' = Empty /\ sending' = FALSE /\ UNCHANGED queue

\* An answer of the target; a responsePending keeps the exchange open.
TargetAnswers(last) ==
    /\ OnBus /\ ~sending /\ Len(queue) < QueueLen
    /\ queue' = Append(queue, <<active, last>>)
    /\ active' = IF last THEN Empty ELSE active
    /\ UNCHANGED sending

\* S3 relocks the server; the router's grant outlives it.
UnlockExpires ==
    /\ cpc = "rest" /\ unlock # -1
    /\ unlock' = -1
    /\ UNCHANGED <<channel, cpc, rwoken, router, untold, asks, earned>> /\ OnlyComm

CommThread ==
    \/ ServeMailbox \/ Cancel \/ HoldOnly \/ PutAnswers
    \/ \E sent \in BOOLEAN : Judge(sent)
    \/ RequestLeaves \/ ExchangeEnds \/ UnlockExpires
    \/ \E last \in BOOLEAN : TargetAnswers(last)

RouteNext == DoipThread \/ CommThread

RouteSpec == RouteInit /\ [][RouteNext]_routeVars

-------------------------------------------------------------------------------
\* An answer goes only to the connection whose tester asked, and only while its
\* request is that tester's latest: neither a tester that gave up nor the next one
\* is sent what another was owed (doipnet's routed, Server.ticket).
AnswersOwn == [][\A d \in delivered' \ delivered :
                    calls[d[2]].conn = d[1] /\ calls[d[2]].ticket = ticket]_routeVars

\* A request is forwarded only if the tester of its own connection ever held the
\* unlock: neither the unlock nor the grant passes to the next one (REQ-NET-020).
OwnUnlock == first => \A r \in forwarded : calls[r].conn \in earned

\* A request its tester was told was not taken is never forwarded, in any order of
\* the threads (doip_mb_withdraw on the channel).
FailedNotForwarded == failed \intersect forwarded = {}

\* When no tester is there, no answer waits for one: the router's queue and the
\* slot are free before the doip thread sits in its next accept.
NothingWaits ==
    first /\ NetRuns /\ rpc = "recv" /\ ~ropen => slot = NobodysAnswer /\ queue = <<>> /\ active = Empty

===============================================================================
