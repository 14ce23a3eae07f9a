------------------------------ MODULE Delivery ------------------------------
(***************************************************************************)
(* What ArchiveReader promises of an archive: the entries that are wanted, *)
(* those that arrived and nothing is in the way of, come to the disk one   *)
(* by one, stay as they are, and are all there when the reader is done.    *)
(* Where the last header arrived in part only, the reader takes it for     *)
(* whatever it likes when all the wanted entries are there, and that may   *)
(* cost one of them.                                                       *)
(***************************************************************************)
VARIABLES
  wanted,  \* the entries to be delivered
  have,    \* those that are on the disk, whole and unmixed
  torn,    \* whether the last header arrived in part only
  state    \* "reading", "ending" (past a torn header), "done" or "thrown"

Init == have = {} /\ state = "reading"

Deliver ==
  /\ state = "reading"
  /\ \E k \in wanted \ have : have' = have \cup {k}
  /\ UNCHANGED <<wanted, torn, state>>

Spoil ==
  /\ state = "reading" /\ torn /\ have = wanted
  /\ have' = have \/ \E k \in have : have' = have \ {k}
  /\ state' = "ending"
  /\ UNCHANGED <<wanted, torn>>

Close ==
  /\ (state = "reading" /\ have = wanted) \/ state = "ending"
  /\ state' = "done"
  /\ UNCHANGED <<wanted, have, torn>>

Throw ==
  /\ state = "reading" /\ state' = "thrown"
  /\ UNCHANGED <<wanted, have, torn>>

Next == Deliver \/ Spoil \/ Close \/ Throw

Spec == Init /\ [][Next]_<<wanted, have, torn, state>>
=============================================================================
