-------------------------------- MODULE MCRest --------------------------------
(***************************************************************************)
(* What must eventually happen, for TLC: the bulk transport's service      *)
(* loops, the ISO-TP exchange and a CAN bus share no state, so one run     *)
(* explores each of them on its own, with its own fairness; `part` says    *)
(* which.                                                                  *)
(***************************************************************************)
EXTENDS Bulk, MCIsoTp, Can

VARIABLE part

restVars == <<vars, isoVars, canVars, part>>

RestInit ==
    /\ part \in {"bulk", "isotp", "can"}
    /\ Init
    /\ IsoInit /\ (part # "isotp" => todo = CHOOSE t \in Plans : TRUE)
    /\ CanInit /\ (part # "can" => cback = "fdcan")

\* Only the variables of part p may change.
Only(p) ==
    /\ part = p /\ part' = p
    /\ p # "bulk" => UNCHANGED vars
    /\ p # "isotp" => UNCHANGED isoVars
    /\ p # "can" => UNCHANGED canVars

RestNext ==
    \/ Only("bulk") /\ Next
    \/ Only("isotp") /\ IsoNext
    \/ Only("can") /\ CanNext

OfBulk(A) == A /\ Only("bulk")
OfIso(A) == A /\ Only("isotp")
OfCan(A) == A /\ Only("can")

\* The fairness of Bulk's Spec, of IsoTp's IsoSpec and of Can's CanSpec.
RestSpec ==
    /\ RestInit /\ [][RestNext]_restVars
    /\ WF_restVars(OfBulk(Producer)) /\ WF_restVars(OfBulk(Consumer))
    /\ \A s \in Side : WF_restVars(OfBulk(Drain(s)))
    /\ \A e \in End :
          /\ WF_restVars(OfIso(Receive(e))) /\ WF_restVars(OfIso(Poll(e)))
          /\ WF_restVars(OfIso(Tick(e)))
    /\ WF_restVars(OfIso(Time))
    /\ WF_restVars(OfCan(Drains)) /\ WF_restVars(OfCan(Opens \/ CloseStop))
    /\ WF_restVars(OfCan(ComesBack))

\* IsoTp's ComesToRest, where the exchange is what runs.
ExchangeRests == part = "isotp" => ComesToRest

===============================================================================
