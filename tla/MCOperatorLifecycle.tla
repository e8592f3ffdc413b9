-------------------------- MODULE MCOperatorLifecycle --------------------------
(* Small instances of OperatorLifecycle for TLC. *)
EXTENDS OperatorLifecycle, TLC

MCCRD        == {"certificates", "issuers"}
MCResource   == {"namespace", "crd", "deployment", "issuer", "service", "extra"}
MCNamespaced == {"deployment", "issuer", "service"}
MCNeeds      == [x \in MCResource |-> IF x = "issuer" THEN {"issuers"} ELSE {}]
MCFile       == {"v1", "v2", "extra"}
MCManifest   == [v1    |-> <<"namespace", "crd", "issuer", "deployment">>,
                 v2    |-> <<"namespace", "crd", "issuer", "service">>,
                 extra |-> <<"extra">>]

Line(verb, fs, manifest, certManager) ==
  [verb |-> verb, files |-> fs, manifest |-> manifest, certManager |-> certManager]

MCLifecycle == {Line("install", <<>>, "v1", FALSE),
                Line("uninstall", <<>>, "v1", TRUE),
                Line("upgrade", <<>>, "v2", FALSE)}
RaceLines   == <<Line("install", <<>>, "v1", FALSE),
                 Line("uninstall", <<>>, "v1", TRUE),
                 Line("uninstall", <<"v1">>, "v1", FALSE),
                 Line("upgrade", <<>>, "v1", FALSE)>>
MCRace      == {RaceLines[i] : i \in 1..4}
MCExtra     == {Line("install", <<"extra">>, "v1", FALSE),
                Line("uninstall", <<>>, "v1", FALSE)}

Runs == Permutations(Run)

(* One install or two, and other commands beside.                          *)
RaceInit ==
  /\ Init
  /\ \E i \in 1..4 : \E j \in (i..4) \ {1} : cmd = <<RaceLines[1], RaceLines[i], RaceLines[j]>>
Race == RaceInit /\ [][Next]_vars /\ Fairness

=============================================================================
