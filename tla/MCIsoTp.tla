------------------------------- MODULE MCIsoTp -------------------------------
(***************************************************************************)
(* Instances of IsoTp for TLC: a tester that sends several messages and an *)
(* ECU that may answer with one, over a receive buffer smaller than the    *)
(* longest of them.                                                        *)
(***************************************************************************)
EXTENDS IsoTp

Ends(t, u) == [e \in End |-> IF e = "tester" THEN t ELSE u]

FramesPerMessage == {1, 3, 4}
Payloads == Ends(4, 3)
Blocks == Ends(0, 1)
Separations == Ends(0, 1)
OneWay == {Ends(2, 0)}
BothWays == {Ends(1, 1)}
EitherWay == {Ends(3, 0), Ends(1, 1)}
===============================================================================
