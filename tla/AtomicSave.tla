----------------------------- MODULE AtomicSave -----------------------------
(***************************************************************************)
(* What a save of a profile promises its callers: the profile file and the *)
(* keyring accounts behind it change together, in one step, or not at all, *)
(* whatever fails and whenever the process dies; and a save that returns   *)
(* success has made that step.                                             *)
(*                                                                         *)
(* This is the specification KeyringTxn implements with its journal, under *)
(* the mapping that reads the keyring as recovery would leave it.          *)
(***************************************************************************)
CONSTANTS Procs, Accounts, None, Requests

VARIABLES
    profile,    \* the body of the profile
    keyring,    \* account -> secret or None
    pending,    \* process -> the save it is making, or None
    applied,    \* process -> whether that save has taken effect
    outcome     \* process -> how its command's last save returned

vars == <<profile, keyring, pending, applied, outcome>>

Init ==
    /\ pending = [p \in Procs |-> None]
    /\ applied = [p \in Procs |-> FALSE]
    /\ outcome = [p \in Procs |-> "none"]

Start(p) ==
    /\ pending[p] = None
    /\ outcome' = [outcome EXCEPT ![p] = "none"]
    /\ UNCHANGED <<profile, keyring, pending, applied>>

Submit(p) ==
    /\ pending[p] = None
    /\ \E r \in Requests : pending' = [pending EXCEPT ![p] = r]
    /\ UNCHANGED <<profile, keyring, applied, outcome>>

\* The same save with some of its secrets kept in the profile, because the
\* keyring refuses them, or with permission to do so.
Downgrades(r) ==
    {[r EXCEPT !.allow = allow,
               !.stores = [a \in Accounts |-> IF a \in kept THEN None ELSE @[a]],
               !.body.refs = @ \ kept,
               !.body.inline = [a \in Accounts |-> IF a \in kept THEN r.stores[a] ELSE @[a]]] :
        kept \in SUBSET {a \in Accounts : r.stores[a] # None}, allow \in {r.allow, TRUE}}

Downgrade(p) ==
    /\ pending[p] # None /\ ~applied[p]
    /\ \E r \in Downgrades(pending[p]) : pending' = [pending EXCEPT ![p] = r]
    /\ UNCHANGED <<profile, keyring, applied, outcome>>

\* The profile and the accounts change together.
Apply(p) ==
    /\ pending[p] # None /\ ~applied[p]
    /\ profile' = pending[p].body
    /\ keyring' = [a \in Accounts |-> IF pending[p].stores[a] # None THEN pending[p].stores[a]
                                      ELSE IF a \in pending[p].deletes THEN None
                                      ELSE keyring[a]]
    /\ applied' = [applied EXCEPT ![p] = TRUE]
    /\ UNCHANGED <<pending, outcome>>

\* Success is only returned by a save that took effect. An error may also be the
\* clean-up's, after the save took effect; the command may then try again.
Return(p, result) ==
    /\ pending[p] # None
    /\ result = "ok" => applied[p]
    /\ pending' \in {[pending EXCEPT ![p] = None]} \cup
                    IF result = "ok" THEN {}
                    ELSE {[pending EXCEPT ![p] = r] : r \in Downgrades(pending[p])}
    /\ applied' = [applied EXCEPT ![p] = FALSE]
    /\ outcome' = [outcome EXCEPT ![p] = result]
    /\ UNCHANGED <<profile, keyring>>

\* The process dies; nobody learns whether the save took effect.
Vanish(p) ==
    /\ pending' = [pending EXCEPT ![p] = None]
    /\ applied' = [applied EXCEPT ![p] = FALSE]
    /\ UNCHANGED <<profile, keyring, outcome>>

Next == \E p \in Procs :
    \/ Start(p) \/ Submit(p) \/ Downgrade(p) \/ Apply(p) \/ Vanish(p)
    \/ \E result \in {"ok", "err"} : Return(p, result)

Spec == Init /\ [][Next]_vars
=============================================================================
