-------------------------- MODULE MCAccountService --------------------------
EXTENDS AccountService

MCSettings == [ failureThreshold |-> 2, recoveryThreshold |-> 1, recoverySuccesses |-> 2, minSamples |-> 20,
                hardFailures10 |-> 2, pauseBelow |-> 80, healthyAt |-> 95, warning |-> 0, critical |-> 0,
                full |-> 85, reduce80 |-> 70, reduce50 |-> 55, slowRate |-> 50,
                trialPercent |-> 25, midPercent |-> 50, degradedPercent |-> 50,
                flapPauses |-> 2, flapRecovery |-> 3 ]
MCAccountPolicy == [recoveryThreshold |-> 2]

Item(status, class, http, latency) == [status |-> status, class |-> class, http |-> http, latency |-> latency]
MCGoodCheck == Item("operational", "", 0, 1000)
MCChecks == { Item("failed", "infrastructure", 0, 0), Item("operational", "", 0, 6000),
              Item("error", "credential", 0, 0) }

Window(ok, hard, other, week) == [ok |-> ok, hard |-> hard, other |-> other, week |-> week]
MCGoodWindow == Window(10, 0, 0, 100)
MCWindows == { Window(10, 20, 0, 90), Window(40, 0, 5, 100) }

Wire(excluded, pin, matches, flap) == [excluded |-> excluded, pin |-> pin, matches |-> matches, flap |-> flap]
MCWiring == Wire(FALSE, "", 1, TRUE)
MCWirings == { Wire(FALSE, "", 1, TRUE), Wire(FALSE, "monitor", 2, FALSE), Wire(TRUE, "", 1, TRUE) }

MCRates == [s \in {"self", "peer"} |-> IF s = "self" THEN 2 ELSE 1]
=============================================================================
