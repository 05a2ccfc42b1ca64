--------------------------- MODULE MCUpgradePlan ---------------------------
EXTENDS UpgradePlan, TLC

V1 == <<2023, 1>>
V2 == <<2023, 2>>
V3 == <<2024, 1>>
V4 == <<2024, 2, 1>>
V5 == <<2025, 1>>
MCVersions == {V1, V2, V3, V4, V5}

Chain == {<<V1, V2>>, <<V2, V3>>, <<V3, V4>>, <<V4, V5>>}
Hops == Chain \cup {<<V1, V3>>, <<V2, V4>>, <<V3, V5>>, <<V3, V1>>, <<V5, V2>>}
MCTables == {[d \in {} |-> {}]}
            \cup {("embedded-mongo" :> hops) @@ ("default" :> Chain) : hops \in SUBSET Hops}

Hop == [id |-> "hop", deployment |-> "embedded-mongo",
        source_gte |-> V1, source_lte |-> <<>>, target_gte |-> V3, target_lte |-> V3]
Review == [id |-> "review", deployment |-> "any",
           source_gte |-> <<>>, source_lte |-> V3, target_gte |-> V2, target_lte |-> <<>>]
MCFiles == [form : {"mapping", "list"}, issues : {{Hop, Review}}]
=============================================================================
