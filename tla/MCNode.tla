-------------------------------- MODULE MCNode --------------------------------
(***************************************************************************)
(* The parts of a node that share no state, for TLC: one run explores each *)
(* of them on its own; `part` says which, and the others rest where they   *)
(* started.                                                                *)
(***************************************************************************)
EXTENDS Ioc, MCIsoTp, XCore, Can, CanIf, XTrace, Recorder, Io, OsalIoc

VARIABLE part

Parts == {"ioc", "isotp", "xcore", "can", "canif", "xtrace", "recorder", "io", "osal"}
iocVars == vars

\* Only the variables of part p may change.
Only(p) ==
    /\ part = p /\ part' = p
    /\ p # "ioc" => UNCHANGED iocVars
    /\ p # "isotp" => UNCHANGED isoVars
    /\ p # "xcore" => UNCHANGED xVars
    /\ p # "can" => UNCHANGED canVars
    /\ p # "canif" => UNCHANGED canIfVars
    /\ p # "xtrace" => UNCHANGED xTraceVars
    /\ p # "recorder" => UNCHANGED recVars
    /\ p # "io" => UNCHANGED ioVars
    /\ p # "osal" => UNCHANGED osalVars

nodeVars == <<iocVars, isoVars, xVars, canVars, canIfVars, xTraceVars, recVars, ioVars,
              osalVars, part>>

NodeInit ==
    /\ part \in Parts
    /\ Init /\ CanIfInit /\ RecInit
    /\ IsoInit /\ (part # "isotp" => todo = CHOOSE t \in Plans : TRUE)
    /\ XInit /\ (part # "xcore" => dir = "pair")
    /\ CanInit /\ (part # "can" => cback = "fdcan")
    /\ IoInit /\ (part # "io" => plan = <<>>)
    /\ OsalInit /\ (part # "osal" => variant = "seq")
    /\ XTraceInit /\ (part # "xtrace" => trcCell.req = 0 /\ oOrigin = -1)

NodeNext ==
    \/ Only("ioc") /\ Next
    \/ Only("isotp") /\ IsoNext
    \/ Only("xcore") /\ XNext
    \/ Only("can") /\ CanNext
    \/ Only("canif") /\ CanIfNext
    \/ Only("xtrace") /\ XTraceNext
    \/ Only("recorder") /\ RecNext
    \/ Only("io") /\ IoNext
    \/ Only("osal") /\ OsalNext

NodeSpec == NodeInit /\ [][NodeNext]_nodeVars

-------------------------------------------------------------------------------
\* Received frames reach the application once, in order, and what was lost on the way
\* is counted: the driver of each back end, and the ring under the CAN interface.
BusHonest == CanHonest /\ CanIfHonest

===============================================================================
