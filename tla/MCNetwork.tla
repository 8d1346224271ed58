------------------------------- MODULE MCNetwork -------------------------------
(***************************************************************************)
(* The network side for TLC.  The mailbox (Doip), the gateway's route      *)
(* channel (DoipRoute), the inactivity deadlines (DoipIdle), the Ethernet  *)
(* driver's rings (EthDma), the network's bring-up (NetUp) and             *)
(* SecurityAccess (Diag) share no state, so one run explores each of them  *)
(* on its own; `part` says which, and the others rest where they started.  *)
(***************************************************************************)
EXTENDS Doip, DoipRoute, DoipIdle, EthDma, NetUp, Diag

VARIABLE part

mailboxVars == vars
netVars == <<mailboxVars, routeVars, idleVars, ethVars, netUpVars, diagVars,
             part>>

\* Only the variables of part p may change.
Only(p) ==
    /\ part = p /\ part' = p
    /\ p # "mailbox" => UNCHANGED mailboxVars
    /\ p # "route" => UNCHANGED routeVars
    /\ p # "idle" => UNCHANGED idleVars
    /\ p # "eth" => UNCHANGED ethVars
    /\ p # "netup" => UNCHANGED netUpVars
    /\ p # "diag" => UNCHANGED diagVars

NetInit ==
    /\ part \in {"mailbox", "route", "idle", "eth", "netup", "diag"}
    /\ EthInit
    /\ Init /\ (part # "mailbox" => urgent /\ session = 0)
    /\ RouteInit /\ (part # "route" => first)
    /\ IdleInit /\ (part # "idle" => tick = 0)
    /\ NetUpInit /\ (part # "netup" => endpoint = [doip |-> "none", eth |-> "none"])
    /\ DiagInit /\ (part # "diag" => target /\ rng)

NetNext ==
    \/ Only("mailbox") /\ Next
    \/ Only("route") /\ RouteNext
    \/ Only("idle") /\ IdleNext
    \/ Only("eth") /\ EthNext
    \/ Only("netup") /\ NetUpNext
    \/ Only("diag") /\ DiagNext

NetSpec == NetInit /\ [][NetNext]_netVars

-------------------------------------------------------------------------------
\* A request its tester was told was not taken is never acted on: neither served by
\* this node nor forwarded by its gateway.
FailedNotActed == FailedNotServed /\ FailedNotForwarded

\* Nothing of a connection passes to the next: not its session, and not its unlock.
NothingInherited == SessionDies /\ OwnUnlock

\* Nothing is left behind that waits for a connection that is gone: neither a reset nor
\* an answer.
NothingStuck == NotStranded /\ NothingWaits

\* The network stays usable: the driver goes on in both directions, and it came up once for
\* both services, follows its link, and forgets no tester it resolved.
NetworkUsable == EthAlive /\ NetUpHonest

===============================================================================
