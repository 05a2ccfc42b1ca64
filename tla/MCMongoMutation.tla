-------------------------- MODULE MCMongoMutation --------------------------
EXTENDS MongoMutation, TLC

CONSTANTS val1, val2, isodate, doc1

MCJson == [v \in {val1, val2, isodate, None} |-> IF v = isodate THEN val1 ELSE v]

Rewrite == [mode |-> "executable", match |-> {val1, val2, isodate}, set |-> val2, cap |-> 2, age |-> 1]
Single == [mode |-> "executable", match |-> {val2, None}, set |-> val1, cap |-> 1, age |-> 2]
Draft == [mode |-> "preview_only", match |-> {val1}, set |-> val2, cap |-> 1, age |-> 1]
MCTemplates == {Rewrite, Single, Draft}

MCInitialData == {[d \in Docs |-> IF d = doc1 THEN isodate ELSE None]}

Symmetry == Permutations(Procs) \cup Permutations(RunNames) \cup Permutations(ApprovalNames)
=============================================================================
