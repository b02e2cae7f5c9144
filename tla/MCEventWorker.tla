---------------------------- MODULE MCEventWorker ----------------------------
(***************************************************************************)
(* EventWorker for TLC.                                                    *)
(***************************************************************************)
EXTENDS EventWorker, TLC

CONSTANTS w1, w2, e1, e2, e3

OneWorker == {w1}
TwoWorkers == {w1, w2}
ThreeEvents == {e1, e2, e3}
NoneUndecodable == {}
OneUndecodable == {e3}

\* Workers are interchangeable: no action and no property names one.
WorkerSymmetry == Permutations({w1, w2})
=============================================================================
