---- MODULE MCCluster ----
(* Small instances of Cluster for TLC. *)
EXTENDS Cluster, TLC

CONSTANTS t1, t2, t3, s1, s2

\* Columns of the tasks table.
Equal == [t \in Tasks |-> 1]
Ranked == [t \in Tasks |-> IF t = t1 THEN 1 ELSE 2]
Zero == [t \in Tasks |-> 0]
One == [t \in Tasks |-> 1]
LowRetries == [t \in Tasks |-> IF t = t1 THEN 1 ELSE 0]
Mixed == [t \in Tasks |-> IF t = t2 THEN 2 ELSE 1]

\* Totals the workers register.
Small == [w \in Workers |-> 1]
Large == [w \in Workers |-> 2]

SessionSymmetry == Permutations(Sessions)
====
