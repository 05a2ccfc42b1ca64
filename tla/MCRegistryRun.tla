--------------------------- MODULE MCRegistryRun ---------------------------
EXTENDS RegistryRun

CONSTANTS a1, a2, p, x

TheNote == [kind |-> "note"]
Plain == [kind |-> "command", uses |-> {}]
Using == [kind |-> "command", uses |-> {p}]
Ref(id) == [kind |-> "action", id |-> id]

MCWorkflow == <<a1, a2>>
MCBodies ==
    {<<Plain>>, <<Using>>, <<TheNote, Plain>>, <<Plain, Ref(a2)>>, <<Ref(a2), Using>>,
     <<Plain, Ref(a1)>>, <<Using, Ref(x)>>}
=============================================================================
