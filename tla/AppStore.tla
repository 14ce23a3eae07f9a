------------------------------ MODULE AppStore ------------------------------
(***************************************************************************)
(* What the installer promises of the list of installed applications: one  *)
(* call publishes a version of an application, whole and at once, where    *)
(* there was none.  A published application is never changed into another *)
(* version in place, and never repaired: it is withdrawn, perhaps after it *)
(* has lost files.                                                         *)
(***************************************************************************)
CONSTANTS
  App,     \* the names of the applications
  Call,    \* the Install calls
  Absent   \* the application is not listed (no record of a version)

VARIABLE app  \* app[a]: the call whose version is listed, and whether all
              \* of its files are there

Init == app = [a \in App |-> Absent]

Publish(a, c) ==
  /\ app[a] = Absent
  /\ app' = [app EXCEPT ![a] = [by |-> c, whole |-> TRUE]]

Tear(a) ==
  /\ app[a] # Absent /\ app[a].whole
  /\ app' = [app EXCEPT ![a].whole = FALSE]

Withdraw(a) ==
  /\ app[a] # Absent
  /\ app' = [app EXCEPT ![a] = Absent]

Next == \E a \in App : Tear(a) \/ Withdraw(a) \/ \E c \in Call : Publish(a, c)

Spec == Init /\ [][Next]_app
=============================================================================
