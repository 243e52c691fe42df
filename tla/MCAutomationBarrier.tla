------------------------ MODULE MCAutomationBarrier ------------------------
(* AutomationBarrier with two mutators and two callers that publish the     *)
(* freeze mode: enough for every kind of caller to wait on its own kind and *)
(* on the other.                                                            *)
EXTENDS AutomationBarrier

CONSTANTS m1, m2, f1, f2

TwoMutators == {m1, m2}
TwoFreezers == {f1, f2}
=============================================================================
