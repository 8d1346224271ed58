---------------------------------- MODULE NetUp ----------------------------------
(***************************************************************************)
(* The network of a node from its bring-up: NetX once, at one address, for *)
(* DoIP and SOME/IP (driver/eth/netx_up.c), the threads that wait for the  *)
(* PHY's link and poll it, and DoIP's answers to UDP requests              *)
(* (doip_netx.c, eth_netx.c).  The PHY renegotiates whenever it likes; a   *)
(* poll reads it over MDIO in several steps, in the IP instance's mutex.   *)
(***************************************************************************)
EXTENDS Integers

CONSTANTS
    NetPoolCount,           \* BLOB_NET_POOL_COUNT
    IdentPerPass,           \* IDENT_PER_PASS
    MaxEvents, MaxIdents    \* bounds: renegotiations and blob_eth_close together, UDP requests

ASSUME NetUpAssumption ==
    /\ NetPoolCount \in Nat /\ IdentPerPass \in Nat \ {0}
    /\ MaxEvents \in Nat /\ MaxIdents \in Nat

VARIABLES
    endpoint,               \* the addresses doip_net_create and blob_eth_open are given
    up, ipAddr, seeded,     \* the statics of netx_up.c
    ipThread,               \* the driver's NX_LINK_INITIALIZE and ENABLE: "not yet", "on" or "failed"
    phy, mac,               \* what the PHY negotiated; MACCR's speed and duplex
    linkFlag, netLinkUp,    \* nx_interface_link_up, net_link_up
    protection, cmd,        \* the owner of nx_ip_protection, and where it is
    pscsr,                  \* the mode the owner read, until it is applied
    at,                     \* where each thread is
    arpEntry,               \* the tester's ARP entry
    netPool, requests, leaving, \* packets: free, requests at the UDP socket, answers with NetX
    served,                 \* requests of this pass
    current,                \* history: a poll found the link up, and the PHY is as it was since
    changes, idents, closes \* counts for the bounds

bringVars == <<endpoint, up, ipAddr, seeded, ipThread>>
linkVars == <<phy, mac, linkFlag, netLinkUp, protection, cmd, pscsr, current, changes>>
identVars == <<arpEntry, netPool, requests, leaving, served, idents>>
netUpVars == <<bringVars, linkVars, at, identVars, closes>>

Address == {"own", "other", "malformed", "none"}    \* none: the image has no such thread
Fallback == "100 full"
Modes == {Fallback, "10 half"}

NetUpInit ==
    /\ endpoint \in [doip : {"own", "malformed", "none"}, eth : Address]
    /\ up = 0 /\ ipAddr = "none" /\ seeded = FALSE /\ ipThread = "not yet"
    /\ phy = "down" /\ mac = "reset" /\ linkFlag = FALSE /\ netLinkUp = FALSE
    /\ protection = "nobody" /\ cmd = "idle" /\ pscsr = "none" /\ current = FALSE
    /\ at = [doip |-> IF endpoint.doip = "none" THEN "off" ELSE "define", doipSvc |-> "off",
             eth |-> IF endpoint.eth = "none" THEN "off" ELSE "open", ethSvc |-> "off"]
    /\ arpEntry = "none" /\ netPool = NetPoolCount /\ requests = 0 /\ leaving = 0 /\ served = 0
    /\ changes = 0 /\ idents = 0 /\ closes = 0

Moves(t, place) == at' = [at EXCEPT ![t] = place]

-------------------------------------------------------------------------------
(***************************************************************************)
(* Bring-up.                                                               *)
(***************************************************************************)
\* blob_net_up: the first call decides, for the image; `created` is what NetX says.
BlobNetUp(a, created) ==
    IF up # 0 THEN UNCHANGED <<up, ipAddr>>
    ELSE /\ up' = IF a # "malformed" /\ created THEN 1 ELSE -1
         /\ ipAddr' = IF a # "malformed" THEN a ELSE ipAddr

UpAt(a) == up' = 1 /\ ipAddr' = a

\* doip_net_create, from tx_application_define: no thread runs yet
DoipDefined(created) ==
    /\ at.doip = "define"
    /\ BlobNetUp(endpoint.doip, created)
    /\ at' = IF UpAt(endpoint.doip) THEN [at EXCEPT !.doip = "unseeded", !.doipSvc = "no sockets"]
             ELSE [at EXCEPT !.doip = "off"]
    /\ UNCHANGED <<endpoint, seeded, ipThread, linkVars, identVars, closes>>

\* blob_eth_open
EthOpens(created) ==
    /\ at.eth = "open" /\ at.doip # "define"
    /\ BlobNetUp(endpoint.eth, created)
    /\ Moves("eth", IF UpAt(endpoint.eth) THEN "enabled" ELSE "refused")
    /\ UNCHANGED <<endpoint, seeded, ipThread, linkVars, identVars, closes>>

\* The driver's INITIALIZE, which restarts the PHY and cannot wait for it (eth_init), then
\* ENABLE; or the MAC or the PHY does not answer.
IpThreadStarts(answers) ==
    /\ up = 1 /\ at.doip # "define" /\ ipThread = "not yet"
    /\ ipThread' = IF answers THEN "on" ELSE "failed"
    /\ IF answers THEN phy' = "down" /\ mac' = Fallback /\ linkFlag' = TRUE
       ELSE UNCHANGED <<phy, mac, linkFlag>>
    /\ UNCHANGED <<endpoint, up, ipAddr, seeded, netLinkUp, protection, cmd, pscsr, current, changes,
                   at, identVars, closes>>

\* blob_net_seed, by the thread that serves the diagnostics
Seeds ==
    /\ ~seeded /\ at.doip # "define"
    /\ seeded' = TRUE
    /\ UNCHANGED <<endpoint, up, ipAddr, ipThread, linkVars, at, identVars, closes>>

DoipSeeded ==
    /\ at.doip = "unseeded" /\ seeded
    /\ Moves("doip", "enabled")
    /\ UNCHANGED <<bringVars, linkVars, identVars, closes>>

\* blob_net_wait_link: the interface first, then the PHY
InterfaceUp(t) ==
    /\ at[t] = "enabled" /\ linkFlag
    /\ Moves(t, "link")
    /\ UNCHANGED <<bringVars, linkVars, identVars, closes>>

\* doip_entry: the sockets, or it parks; doip-svc waits for them
DoipSockets(made) ==
    /\ at.doip = "sockets"
    /\ at' = IF made THEN [at EXCEPT !.doip = "runs", !.doipSvc = "poll"] ELSE [at EXCEPT !.doip = "parked"]
    /\ UNCHANGED <<bringVars, linkVars, identVars, closes>>

\* blob_eth_open's socket, and its service thread once
EthBinds(bound) ==
    /\ at.eth = "sockets"
    /\ at' = IF ~bound THEN [at EXCEPT !.eth = "refused"]
             ELSE [at EXCEPT !.eth = "runs", !.ethSvc = IF @ = "off" THEN "poll" ELSE @]
    /\ UNCHANGED <<bringVars, linkVars, identVars, closes>>

\* blob_eth_close: the service thread goes on
EthCloses ==
    /\ at.eth = "runs" /\ changes + closes < MaxEvents
    /\ closes' = closes + 1
    /\ Moves("eth", "open")
    /\ UNCHANGED <<bringVars, linkVars, identVars>>

-------------------------------------------------------------------------------
(***************************************************************************)
(* The link: NX_LINK_GET_STATUS (link_now, eth_link_up).                   *)
(***************************************************************************)
OnlyLink == UNCHANGED <<bringVars, identVars, closes>>

\* Autonegotiation, a replug: with or without a moment of link down, and with PSCSR's
\* field at 0 until it has settled.
PhyChanges ==
    /\ changes + closes < MaxEvents
    /\ phy' \in (Modes \cup {"down", "settling"}) \ {phy}
    /\ changes' = changes + 1
    /\ current' = FALSE
    /\ UNCHANGED <<mac, linkFlag, netLinkUp, protection, cmd, pscsr, at>> /\ OnlyLink

PollLocks(t) ==
    /\ at[t] \in {"link", "poll"} /\ protection = "nobody"
    /\ protection' = t
    /\ cmd' = "bsr"
    /\ UNCHANGED <<phy, mac, linkFlag, netLinkUp, pscsr, current, changes, at>> /\ OnlyLink

\* The command's end: the interface's flag, the mutex, the answer.  A waiter polls once more.
Answers(isUp) ==
    /\ linkFlag' = isUp
    /\ protection' = "nobody" /\ cmd' = "idle"
    /\ Moves(protection, IF isUp THEN "saw up" ELSE IF at[protection] = "link" THEN "link" ELSE "saw down")

\* A slip: the mode is applied when the link comes up, and not on every poll.
ReadBsrEdge(answered) ==
    /\ cmd = "bsr"
    /\ IF answered /\ phy # "down"
       THEN /\ current' = TRUE
            /\ IF linkFlag THEN Answers(TRUE)
               ELSE cmd' = "pscsr" /\ UNCHANGED <<linkFlag, protection, at>>
       ELSE Answers(FALSE) /\ UNCHANGED current
    /\ UNCHANGED <<phy, mac, netLinkUp, pscsr, changes>> /\ OnlyLink

\* An MDIO read may time out (mdio_wait).
ReadBsr(answered) ==
    /\ cmd = "bsr"
    /\ IF answered /\ phy # "down"
       THEN cmd' = "pscsr" /\ current' = TRUE /\ UNCHANGED <<linkFlag, protection, at>>
       ELSE Answers(FALSE) /\ UNCHANGED current
    /\ UNCHANGED <<phy, mac, netLinkUp, pscsr, changes>> /\ OnlyLink

ReadPscsr(answered) ==
    /\ cmd = "pscsr"
    /\ pscsr' = IF answered /\ phy \in Modes THEN phy ELSE "none"
    /\ current' = (current /\ answered)
    /\ cmd' = "maccr"
    /\ UNCHANGED <<phy, mac, linkFlag, netLinkUp, protection, changes, at>> /\ OnlyLink

PhySyncMaccr ==
    /\ cmd = "maccr"
    /\ mac' = IF pscsr = "none" THEN Fallback ELSE pscsr
    /\ pscsr' = "none"
    /\ Answers(TRUE)
    /\ UNCHANGED <<phy, netLinkUp, current, changes>> /\ OnlyLink

\* net_link_up, after the mutex is given back
Reports(t) ==
    /\ at[t] \in {"saw up", "saw down"}
    /\ netLinkUp' = (at[t] = "saw up")
    /\ Moves(t, CASE t \in {"doip", "eth"} -> "sockets" [] t = "doipSvc" -> "pass" [] t = "ethSvc" -> "poll")
    /\ UNCHANGED <<phy, mac, linkFlag, protection, cmd, pscsr, current, changes>> /\ OnlyLink

-------------------------------------------------------------------------------
(***************************************************************************)
(* UDP 13400: a bounded number of requests a pass (svc_entry).             *)
(***************************************************************************)
OnlyIdent == UNCHANGED <<bringVars, phy, mac, linkFlag, netLinkUp, pscsr, current, changes, closes>>
SvcAt(place, next) == at.doipSvc = place /\ Moves("doipSvc", next)

IdentArrives ==
    /\ at.doip = "runs" /\ netPool > 0 /\ idents < MaxIdents
    /\ idents' = idents + 1 /\ requests' = requests + 1 /\ netPool' = netPool - 1
    /\ UNCHANGED <<at, arpEntry, leaving, served, protection, cmd>> /\ OnlyIdent

SvcReceives ==
    /\ requests > 0 /\ served < IdentPerPass
    /\ SvcAt("pass", "request")
    /\ requests' = requests - 1 /\ served' = served + 1
    /\ UNCHANGED <<arpEntry, netPool, leaving, idents, protection, cmd>> /\ OnlyIdent

PassOver ==
    /\ requests = 0 \/ served = IdentPerPass
    /\ SvcAt("pass", "poll")
    /\ served' = 0
    /\ UNCHANGED <<arpEntry, netPool, requests, leaving, idents, protection, cmd>> /\ OnlyIdent

\* blobly_doip_udp: junk is not answered, and teaches nothing
NotAnswered ==
    /\ SvcAt("request", "pass")
    /\ netPool' = netPool + 1
    /\ UNCHANGED <<arpEntry, requests, leaving, served, idents, protection, cmd>> /\ OnlyIdent

\* arp_glean_source: the frame's header is not there to read
NoSource ==
    /\ SvcAt("request", "answer")
    /\ netPool' = netPool + 1
    /\ UNCHANGED <<arpEntry, requests, leaving, served, idents, protection, cmd>> /\ OnlyIdent

LearnLocks ==
    /\ protection = "nobody"
    /\ SvcAt("request", "learn")
    /\ protection' = "doipSvc" /\ cmd' = "find"
    /\ UNCHANGED <<arpEntry, netPool, requests, leaving, served, idents>> /\ OnlyIdent

LearnEnds == protection' = "nobody" /\ cmd' = "idle" /\ SvcAt("learn", "answer") /\ netPool' = netPool + 1

\* nx_arp_hardware_address_find: the entry is there and resolved, or not
LearnFinds ==
    /\ cmd = "find"
    /\ IF arpEntry # "none" THEN LearnEnds
       ELSE cmd' = "set" /\ UNCHANGED <<protection, at, netPool>>
    /\ UNCHANGED <<arpEntry, requests, leaving, served, idents>> /\ OnlyIdent

\* nx_arp_dynamic_entry_set refuses a peer behind the gateway
LearnSets(accepted) ==
    /\ cmd = "set"
    /\ arpEntry' = IF accepted THEN "gleaned" ELSE arpEntry
    /\ LearnEnds
    /\ UNCHANGED <<requests, leaving, served, idents>> /\ OnlyIdent

\* The answer: with no packet it is dropped, refused by NetX it is released.
SvcAnswers(taken) ==
    /\ SvcAt("answer", "pass")
    /\ taken => netPool > 0
    /\ IF taken THEN netPool' = netPool - 1 /\ leaving' = leaving + 1 ELSE UNCHANGED <<netPool, leaving>>
    /\ UNCHANGED <<arpEntry, requests, served, idents, protection, cmd>> /\ OnlyIdent

\* doip_udp_broadcast, of the doip thread
Announces ==
    /\ at.doip = "runs" /\ netPool > 0
    /\ netPool' = netPool - 1 /\ leaving' = leaving + 1
    /\ UNCHANGED <<at, arpEntry, requests, served, idents, protection, cmd>> /\ OnlyIdent

\* The driver transmits what NetX has; the IP thread takes an ARP reply, or forgets.
Transmitted ==
    /\ leaving > 0
    /\ leaving' = leaving - 1 /\ netPool' = netPool + 1
    /\ UNCHANGED <<at, arpEntry, requests, served, idents, protection, cmd>> /\ OnlyIdent

\* A slip: the IP thread takes a reply while the find and the set are under way.
ArpReplyAnytime ==
    /\ ipThread = "on" /\ arpEntry' \in {"resolved", "none"}
    /\ UNCHANGED <<at, netPool, requests, leaving, served, idents, protection, cmd>> /\ OnlyIdent

ArpReply ==
    /\ ipThread = "on" /\ protection = "nobody" /\ arpEntry' \in {"resolved", "none"}
    /\ UNCHANGED <<at, netPool, requests, leaving, served, idents, protection, cmd>> /\ OnlyIdent

BringUp ==
    \/ \E ok \in BOOLEAN :
          DoipDefined(ok) \/ EthOpens(ok) \/ IpThreadStarts(ok) \/ DoipSockets(ok) \/ EthBinds(ok)
    \/ Seeds \/ DoipSeeded \/ EthCloses
    \/ \E t \in {"doip", "eth"} : InterfaceUp(t)
Link ==
    \/ PhyChanges \/ PhySyncMaccr
    \/ \E answered \in BOOLEAN : ReadBsr(answered) \/ ReadPscsr(answered)
    \/ \E t \in DOMAIN at : PollLocks(t) \/ Reports(t)
Ident ==
    \/ IdentArrives \/ SvcReceives \/ PassOver \/ NotAnswered \/ NoSource
    \/ LearnLocks \/ LearnFinds \/ Announces \/ Transmitted \/ ArpReply
    \/ \E ok \in BOOLEAN : LearnSets(ok) \/ SvcAnswers(ok)
NetUpNext == BringUp \/ Link \/ Ident

NetUpSpec == NetUpInit /\ [][NetUpNext]_netUpVars

-------------------------------------------------------------------------------
\* The MAC is at the speed and duplex the PHY negotiated as soon as a poll has found the
\* link up and the PHY has been as it is since, whichever thread polled and although no
\* poll ever saw the link down in between (eth_link_up).
ModeFollows == current /\ cmd = "idle" => mac = IF phy \in Modes THEN phy ELSE Fallback

\* What a frame's header suggests never takes the place of what ARP resolved (learn_peer).
ResolvedKept == cmd = "set" => arpEntry # "resolved"

\* Whatever is refused, dropped or not answered, no packet is lost to the shared pool.
PoolWhole ==
    netPool + requests + leaving + (IF at.doipSvc \in {"request", "learn"} THEN 1 ELSE 0) = NetPoolCount

\* Both services run only at one address, NetX has taken it, and TCP numbers are drawn
\* only from a seeded generator (blob_net_up, doip_entry).
OneEndpoint ==
    \A t \in {"doip", "eth"} :
        at[t] = "runs" => up = 1 /\ ipAddr = endpoint[t] /\ (t = "doip" => seeded)

\* The network a node brought up stays usable: its mode, its ARP entries, its packets.
NetUpHonest == ModeFollows /\ ResolvedKept /\ PoolWhole /\ OneEndpoint

===================================================================================
