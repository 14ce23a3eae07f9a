-------------------------- MODULE MCAppManagerPage --------------------------
(* Values for the constants of AppManagerPage.                             *)
EXTENDS AppManagerPage

CONSTANTS a1, f1, f2, p1, p2, p3, t1, g1, g2, key1, key2, v1, v2, v3

MCTempOf  == [a \in App |-> t1]
MCPackage == [v \in Released |-> IF v = v1 THEN File ELSE {f1}]
MCPageOf  == [p \in Plugin |-> IF p = p3 THEN g2 ELSE g1]

Ask(v, k) == [page |-> g1, op |-> "install", name |-> a1, version |-> v,
              key_file |-> k]
Drop(g) == [page |-> g, op |-> "uninstall", name |-> a1, version |-> Undefined,
            key_file |-> key1]

(* One user asks for a version, for the latest one and for one that is not *)
(* released, in any order.  The two that are released are different calls  *)
(* of Install, on one plugin object or on a second one made in between, so *)
(* that a plugin object is used again with the status it was left with.    *)
(* Another user uninstalls the application at any moment.                  *)
Mixed == {Ask(v1, key1), Ask(Undefined, key2), Ask(v3, key1), Drop(g2)}

(* One user installs the application twice.                                *)
Twice == {Ask(v1, key1), Ask(Empty, key2)}

MCCall == {Arguments(r, Wanted(r), p) :
             r \in {q \in Request : q.op = "install" /\ Wanted(q) \in Released},
             p \in {q \in Plugin : PageOf[q] = g1}}
=============================================================================
