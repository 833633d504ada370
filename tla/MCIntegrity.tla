------------------------------ MODULE MCIntegrity ------------------------------
(* One run of an ingested circuit for TLC. *)
EXTENDS Integrity, MCIngestion

Counts(s) == [i \in DOMAIN s |-> [bits |-> s[i][1], count |-> s[i][2]]]
Fraction(a, b) == [num |-> a, den |-> b]

MCCounts == {Counts(<<<<"00", 1>>, <<"11", 3>>>>),
             Counts(<<<<"00", 1>>, <<"01", 2>>, <<"11", 2>>>>)}
MCFollowed == {Text("qasm2", 2, <<Op("cx", <<1, 0>>), Measure(0, 0)>>),
               Text("qasm2", 3, <<Op("ccx", <<0, 2, 1>>), Op("myGate", <<1>>)>>)}
MCThresholds == {Fraction(2, 5), Fraction(1, 2)}
===============================================================================
