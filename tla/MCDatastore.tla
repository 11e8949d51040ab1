---------------------------- MODULE MCDatastore ----------------------------
EXTENDS Datastore

MCLimit == [s \in 0 .. 2 |-> IF s = 2 THEN 2 ELSE 1]
=============================================================================
