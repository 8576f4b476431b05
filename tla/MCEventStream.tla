--------------------------- MODULE MCEventStream ---------------------------
EXTENDS EventStream

CONSTANTS w1, w2, d1

\* Two web bridges and one Discord bridge.  In either deployment every group
\* has one process that is steady; w2 is not.
MCGroupOf == [c \in Consumers |-> IF c = d1 THEN Discord ELSE Web]

MCDeployments == {{w1, w2}, {w1, d1}}
\* All entries canonical, or all native.
MCNativeSets == {{}, Entries}
MCJobOf == [e \in Entries |-> 1]
MCRefused == [g \in Groups |-> {1}]
MCPageConcurrency == [g \in Groups |-> IF g = Web THEN 2 ELSE 1]
=============================================================================
