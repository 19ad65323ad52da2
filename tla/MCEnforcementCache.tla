-------------------------- MODULE MCEnforcementCache --------------------------
(* Two teams, and how often each rare event may happen in a run.              *)
EXTENDS EnforcementCache, TLC

Rarely(S, n) == [what \in Rare |-> IF what = "all" THEN n ELSE IF what \in S THEN 1 ELSE 0]

OneSwitch == Rarely({"switch"}, 1)
SwitchOrFork == Rarely({"switch", "fork", "inspect"}, 2)
SwitchOrRestart == Rarely({"switch", "stop", "restart"}, 2)
=============================================================================
