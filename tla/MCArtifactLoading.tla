------------------------- MODULE MCArtifactLoading -------------------------
(* Instances of ArtifactLoading for TLC. *)
EXTENDS ArtifactLoading, TLC

CONSTANTS b1, b2, g1, g2

TwoCircuits == <<"merge", "transfer">>
\* One that declares a second file, one of another schema, and one that names a
\* file outside its directory.
Edited ==
  {[supported |-> TRUE, digest |-> [p \in {1, 2} |-> b1]],
   [supported |-> FALSE, digest |-> [p \in {1} |-> b1]],
   [supported |-> TRUE, digest |-> [p \in {0, 1} |-> b1]]}

\* Contents of different circuits are never compared: call what each was pinned
\* from first b1.
MCInit == Init /\ \A o \in Ops : files[o][Bytecode] \in {b1, Absent}
MCSpec == MCInit /\ [][Next]_vars

\* Bound: two generators at once only while nothing but `merge` is in play.
Focus ==
  \/ \E g \in Generators : gen[g].step = "idle"
  \/ /\ Empty("transfer") /\ target["transfer"] = Absent
     /\ \A g \in Generators : gen[g].todo \in {<<>>, <<"merge">>}
     /\ \A r \in Readers : reader[r].todo \in {<<>>, <<"merge">>}

Symmetric == Permutations({g1, g2})
=============================================================================
