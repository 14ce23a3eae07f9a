---------------------------- MODULE MCAppManager ----------------------------
(* Values for the constants of AppManagerSerial and AppManagerPlugin.      *)
EXTENDS AppManagerSerial

CONSTANTS a1, a2, f1, f2, p1, p2, t1, t2

MCTempOf == [a \in App |-> IF a = a1 THEN t1 ELSE t2]

(* An application's first version has two files, its second only one: what *)
(* is left of the first would show.                                        *)
First  == [name |-> a1, version |-> 1, plugin |-> p1, files |-> {f1, f2}]
Second == [name |-> a1, version |-> 2, plugin |-> p1, files |-> {f1}]
Other  == [name |-> a1, version |-> 3, plugin |-> p2, files |-> {f2}]
Aside  == [name |-> a2, version |-> 1, plugin |-> p2, files |-> {f1}]

Serial == {First, Second, Aside}
Same   == {First, Other}
Again  == {First, Second, Other}
=============================================================================
