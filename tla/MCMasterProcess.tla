--------------------------- MODULE MCMasterProcess ---------------------------
(***************************************************************************)
(* Instances of MasterProcess for TLC: which external events may happen,   *)
(* and how often, is chosen per run.                                       *)
(***************************************************************************)
EXTENDS MasterProcess

Never == [e \in {"hup", "winch", "usr1", "usr2", "quit", "term", "crash",
                 "fatal", "hang", "fork", "badconf"} |-> 0]
Scenario(workers, cache, slots, cap, limits) ==
  [workers |-> workers, cache |-> cache, slots |-> slots, cap |-> cap,
   limits |-> limits]

\* Crashes, a reload, and a graceful shutdown.
Reload == Scenario(2, FALSE, 4, 8,
                   [Never EXCEPT !["hup"] = 1, !["crash"] = 2, !["quit"] = 1])
\* Everything can fail: fork, the new configuration, a child's start.
Faults == Scenario(2, FALSE, 4, 8,
                   [Never EXCEPT !["hup"] = 1, !["fatal"] = 1, !["fork"] = 1,
                                 !["badconf"] = 1, !["quit"] = 1])
\* A full channel: log files are reopened while a child does not read.
FullChannel == Scenario(1, TRUE, 3, 2,
                        [Never EXCEPT !["usr1"] = 2, !["hang"] = 1,
                                      !["crash"] = 1, !["quit"] = 1])
\* A binary upgrade that is completed or abandoned.
Upgrade == Scenario(1, FALSE, 5, 8,
                    [Never EXCEPT !["usr2"] = 1, !["winch"] = 1, !["hup"] = 1,
                                  !["quit"] = 1])
\* A shutdown, fast or graceful or one after the other, with a hung child.
Stop == Scenario(2, FALSE, 2, 1,
                 [Never EXCEPT !["term"] = 1, !["quit"] = 1, !["hang"] = 1,
                               !["crash"] = 1])
AllScenarios == {Reload, Faults, FullChannel, Upgrade, Stop}

UpgradeScenarios == {Upgrade}
==============================================================================
