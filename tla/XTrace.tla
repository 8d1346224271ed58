---------------------------------- MODULE XTrace ---------------------------------
(***************************************************************************)
(* A trace of two cores (examples/h755_threadx/target_ext.c, the owner;    *)
(* examples/h755_m4_app/m4_glue.c, the satellite): the owner posts arm or  *)
(* snapshot in a cell of shared memory, the satellite's app loop does it   *)
(* and acknowledges, and a dump imports what it wrote.  The round trip is  *)
(* also the measurement of the satellite's clock against the owner's, in   *)
(* microseconds of 32 bits that wrap.  The cell outlives both cores'       *)
(* resets.  The loads and stores of a side are in the order written: the   *)
(* memory is not cached and both sides use barriers.                       *)
(***************************************************************************)
EXTENDS Integers

CONSTANTS
    ClockMod,       \* 2^32
    Plausible,      \* the largest skew that is believed, 60 s
    MaxTime, MaxPosts, MaxResets  \* bounds: microseconds, requests, resets of either core

ASSUME XTraceAssumption ==
    /\ Plausible \in Nat /\ ClockMod \in Nat /\ ClockMod > 2 * Plausible + 2
    /\ MaxTime \in Nat /\ MaxPosts \in Nat /\ MaxResets \in Nat

NoT3 == -1          \* g_trc_t3 while g_trc_have_t3 is 0

VARIABLES
    now,                    \* time
    trcCell,                   \* req_seq, op, ack_seq, svc_us and by which boot, the records (none: count is 0)
                            \* and of which boot
    oOrigin, t1, t3,        \* the owner: when its clock read 0, g_trc_t1, g_trc_t3
    oAt, wait, asked,        \* where its comm thread is; xcore_trc_wait; whether it asked in this boot
    sOrigin, sAt, sReq,     \* the satellite: when its clock read 0, its place, what it read
    posts, resets         \* counts for the bounds

ownerVars == <<oOrigin, t1, t3, oAt, wait, asked, posts>>
satelliteVars == <<sOrigin, sAt, sReq>>
xTraceVars == <<now, trcCell, ownerVars, satelliteVars, resets>>

Clock(origin) == (now - origin) % ClockMod

\* The clocks have run a while, or wrap soon; the cell holds what the boots before left:
\* nothing waiting, or a request nobody took.
XTraceInit ==
    /\ now = 0
    /\ \E left \in {0, 1} :
          trcCell = [req |-> left, op |-> "snap", ack |-> 0, svc |-> 0, by |-> 0, records |-> "none", of |-> 0]
    /\ \E since \in {1, ClockMod - 2} : oOrigin = -since /\ sOrigin = 1 - since
    /\ t1 = 0 /\ t3 = NoT3 /\ oAt = "idle" /\ wait = FALSE /\ asked = FALSE /\ posts = 0
    /\ sAt = "idle" /\ sReq = 0
    /\ resets = 0

TimePasses ==
    /\ now < MaxTime
    /\ now' = now + 1
    /\ UNCHANGED <<trcCell, ownerVars, satelliteVars, resets>>

-------------------------------------------------------------------------------
(***************************************************************************)
(* The owner's comm thread.                                                *)
(***************************************************************************)
OnlyOwner == UNCHANGED <<now, oOrigin, satelliteVars, resets>>

\* A slip: the round trip before stays closed.
PostKeepsT3(o) ==
    /\ oAt = "idle" /\ posts < MaxPosts
    /\ trcCell' = [trcCell EXCEPT !.op = o] /\ t1' = Clock(oOrigin) /\ oAt' = "release"
    /\ UNCHANGED <<t3, wait, asked, posts>> /\ OnlyOwner

\* xcore_trace_req: what is asked, and the clock as late as possible ...
Post(o) ==
    /\ oAt = "idle" /\ posts < MaxPosts
    /\ trcCell' = [trcCell EXCEPT !.op = o]
    /\ t3' = NoT3
    /\ t1' = Clock(oOrigin)
    /\ oAt' = "release"
    /\ UNCHANGED <<wait, asked, posts>> /\ OnlyOwner

\* ... before the request is released
Releases ==
    /\ oAt = "release"
    /\ trcCell' = [trcCell EXCEPT !.req = @ + 1]
    /\ asked' = TRUE /\ posts' = posts + 1
    /\ oAt' = "idle"
    /\ UNCHANGED <<t1, t3, wait>> /\ OnlyOwner

\* The dump command: the import waits for the acknowledgement.
DumpAsked ==
    /\ oAt = "idle" /\ ~wait
    /\ wait' = TRUE
    /\ UNCHANGED <<trcCell, t1, t3, oAt, asked, posts>> /\ OnlyOwner

\* xcore_trace_ready, every pass: the acknowledgement is seen, then the clock is read ...
SeesAck ==
    /\ oAt = "idle" /\ trcCell.ack = trcCell.req /\ (t3 = NoT3 \/ wait)
    /\ oAt' = "acked"
    /\ UNCHANGED <<trcCell, t1, t3, wait, asked, posts>> /\ OnlyOwner

\* ... once for each request
LatchesT3 ==
    /\ oAt = "acked"
    /\ t3' = IF t3 = NoT3 THEN Clock(oOrigin) ELSE t3
    /\ oAt' = IF wait THEN "import" ELSE "idle"
    /\ UNCHANGED <<trcCell, t1, wait, asked, posts>> /\ OnlyOwner

\* xcore_trace_offset, as the import finds the stamps
RoundTrip == (t3 - t1) % ClockMod
Skew == (trcCell.svc - (t1 + RoundTrip \div 2)) % ClockMod
OffsetKnown == t3 # NoT3 /\ (Skew <= Plausible \/ Skew >= ClockMod - 1 - Plausible)

\* The satellite's records are loaded, with the offset or without.
Imports ==
    /\ oAt = "import"
    /\ wait' = FALSE
    /\ oAt' = "idle"
    /\ UNCHANGED <<trcCell, t1, t3, asked, posts>> /\ OnlyOwner

\* The owner's core resets; its clock and its statics start again, the cell does not.
OwnerRestarts ==
    /\ resets < MaxResets
    /\ resets' = resets + 1
    /\ oOrigin' = now /\ t1' = 0 /\ t3' = NoT3
    /\ oAt' = "idle" /\ wait' = FALSE /\ asked' = FALSE
    /\ UNCHANGED <<now, trcCell, satelliteVars, posts>>

-------------------------------------------------------------------------------
(***************************************************************************)
(* The satellite: xcore_trace_service, once per pass of its app loop.      *)
(***************************************************************************)
OnlySatellite == UNCHANGED <<now, ownerVars, sOrigin, resets>>

SvcReadsRequest ==
    /\ sAt = "idle" /\ trcCell.req # trcCell.ack
    /\ sReq' = trcCell.req
    /\ sAt' = "op"
    /\ UNCHANGED trcCell /\ OnlySatellite

\* Arm leaves no records; a snapshot is copied while the cell holds a part of it.
SvcReadsOp ==
    /\ sAt = "op"
    /\ IF trcCell.op = "arm" THEN sAt' = "done" /\ trcCell' = [trcCell EXCEPT !.records = "none"]
       ELSE sAt' = "copy" /\ trcCell' = [trcCell EXCEPT !.records = "part"]
    /\ UNCHANGED sReq /\ OnlySatellite

\* trace_freeze, trace_snapshot: the records of this boot
SvcCopied ==
    /\ sAt = "copy"
    /\ trcCell' = [trcCell EXCEPT !.records = "whole", !.of = sOrigin]
    /\ sAt' = "done"
    /\ UNCHANGED sReq /\ OnlySatellite

\* A slip: the acknowledgement leaves with the stamp of the exchange before.
StampsLate ==
    /\ sAt = "done"
    /\ trcCell' = [trcCell EXCEPT !.ack = sReq]
    /\ sAt' = "ack"
    /\ UNCHANGED sReq /\ OnlySatellite

SvcStamps ==
    /\ sAt = "done"
    /\ trcCell' = [trcCell EXCEPT !.svc = Clock(sOrigin), !.by = sOrigin]
    /\ sAt' = "ack"
    /\ UNCHANGED sReq /\ OnlySatellite

SvcAcks ==
    /\ sAt = "ack"
    /\ trcCell' = [trcCell EXCEPT !.ack = sReq]
    /\ sAt' = "idle"
    /\ UNCHANGED sReq /\ OnlySatellite

SatelliteRestarts ==
    /\ resets < MaxResets
    /\ resets' = resets + 1
    /\ sOrigin' = now
    /\ sAt' = "idle"
    /\ UNCHANGED <<now, trcCell, ownerVars, sReq>>

Owner ==
    \/ (\E o \in {"arm", "snap"} : Post(o)) \/ Releases \/ DumpAsked \/ SeesAck \/ LatchesT3 \/ Imports
    \/ OwnerRestarts
Satellite == SvcReadsRequest \/ SvcReadsOp \/ SvcCopied \/ SvcStamps \/ SvcAcks \/ SatelliteRestarts
XTraceNext == TimePasses \/ Owner \/ Satellite

XTraceSpec == XTraceInit /\ [][XTraceNext]_xTraceVars

-------------------------------------------------------------------------------
\* Equal up to d, whole turns of the clock apart.
Near(a, b, d) == \E e \in -d .. d : (a - b - e) % ClockMod = 0

\* The offset an import carries is that of the satellite boot which recorded, off by no more
\* than half the round trip and the microsecond the halves drop: whichever requests overtook
\* each other and whichever core restarted since it was measured (REQ-TRACE-011).
OffsetBounded == OffsetKnown => Near(Skew, oOrigin - trcCell.by, RoundTrip \div 2 + 1)

\* The records an import loads answer the owner's last request: whole after a snapshot, of
\* the boot whose clock was measured, and none after an arm.
ImportWhole == IF trcCell.op = "arm" THEN trcCell.records = "none" ELSE trcCell.records = "whole" /\ trcCell.of = trcCell.by

TraceHonest == oAt = "import" /\ asked => OffsetBounded /\ ImportWhole

\* No offset is claimed where no exchange has completed since the owner started
\* (xcore_trace_offset's comment).
NeverUnmeasured == oAt = "import" /\ OffsetKnown => asked

===============================================================================
