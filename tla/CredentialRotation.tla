------------------------- MODULE CredentialRotation -------------------------
(***************************************************************************)
(* OneCredentialStore (ayx-core/src/one_credential_store.rs) and the       *)
(* commands around it: processes that renew an access token with a         *)
(* refresh token the provider may replace at every use, while others log   *)
(* in, log out and switch workspace.                                       *)
(*                                                                         *)
(* The keyring accounts are derived from the binding (account, issuer,     *)
(* region, base URL, workspace): profiles with equal bindings share them.  *)
(* The lock belongs to a profile. A save is one step, which AtomicSave     *)
(* justifies where recovery undoes it; what a save leaves behind when its  *)
(* profile write fails is a step of its own (SaveUndone).                  *)
(***************************************************************************)
EXTENDS Naturals

CONSTANTS
    Procs,      \* ayx processes
    Profiles,   \* profile files
    Bindings,   \* CredentialBinding
    MaxTokens,  \* a bound on the refresh tokens the provider issues
    Faults,     \* the failures that may happen, a subset of AllFaults
    None

AllFaults == {"crash",      \* a process dies
              "lost_reply", \* the provider acts and its answer is lost
              "keyring",    \* the keyring does not store a token of a renewal
              "write",      \* a save fails at its digest or before the rename of the profile
              "dirsync"}    \* or after the rename, at the directory sync
ASSUME MaxTokensOK == MaxTokens \in Nat
ASSUME FaultsOK == Faults \subseteq AllFaults
ASSUME NoneOK == None \notin Procs \cup Profiles \cup Bindings

VARIABLES
    profile,    \* what each profile file refers to
    refreshOf,  \* keyring: the refresh token of a binding, 0 when there is none
    accessOf,   \* keyring: its access token, named by the refresh token it came with
    emptied,    \* bindings whose tokens a failed save has removed
    live,       \* the refresh tokens the provider accepts
    issued,     \* how many it has issued
    lock,       \* the profile lock
    proc,       \* each process
    lost,       \* tokens spent by an exchange whose replacement was never stored
    refused     \* tokens the provider has refused

keyring == <<refreshOf, accessOf, emptied>>
provider == <<live, issued, lost, refused>>
vars == <<profile, keyring, provider, lock, proc>>

\* Tokens are numbered in the order they are issued.
Tokens == 1..MaxTokens

\* The refresh credential of a profile: the binding its references derive from, whether
\* they are the canonical v1 ones, and whether there is one for the access token as well.
Credential == [binding : Bindings \cup {None}, canonical : BOOLEAN, access : BOOLEAN]
LoggedOut == [binding |-> None, canonical |-> FALSE, access |-> FALSE]

\* A process: the profile of its command; OneCredentialStore (want, the credential as it
\* was loaded) and OneCredentialRefreshLease (token); the refresh token that is valid
\* after the exchange, which also names the access token received; or the credential it
\* is to write, with the accounts to delete and whether it has new tokens.
Held == {"reload", "compare", "exchange", "store_refresh", "store_access"}
Process == [pc : Held \cup {"idle", "acquire", "save"}, path : Profiles \cup {None},
            want : Credential, token : Tokens \cup {0}, got : Tokens \cup {0},
            free : SUBSET Bindings, fresh : BOOLEAN]
Idle == [pc |-> "idle", path |-> None, want |-> LoggedOut, token |-> 0, got |-> 0,
         free |-> {}, fresh |-> FALSE]

TypeOK ==
    /\ profile \in [Profiles -> Credential]
    /\ refreshOf \in [Bindings -> Tokens \cup {0}]
    /\ accessOf \in [Bindings -> Tokens \cup {0}]
    /\ emptied \subseteq Bindings
    /\ live \subseteq Tokens /\ issued \in 0..MaxTokens
    /\ lost \subseteq Tokens /\ refused \subseteq Tokens
    /\ lock \in [Profiles -> Procs \cup {None}]
    /\ proc \in [Procs -> Process]

Init ==
    /\ profile = [f \in Profiles |-> LoggedOut]
    /\ refreshOf = [b \in Bindings |-> 0]
    /\ accessOf = [b \in Bindings |-> 0]
    /\ emptied = {}
    /\ live = {} /\ issued = 0 /\ lost = {} /\ refused = {}
    /\ lock = [f \in Profiles |-> None]
    /\ proc = [p \in Procs |-> Idle]

---------------------------------------------------------------------------
(* Renewing an access token *)

At(p, place) == proc[p].pc = place
Becomes(p, r) == proc' = [proc EXCEPT ![p] = r]
Goto(p, place) == Becomes(p, [proc[p] EXCEPT !.pc = place])
Target(p) == proc[p].want.binding

\* Mutant of Release: the lease outlives its process.
ReleaseKept(p) == Becomes(p, Idle) /\ UNCHANGED lock

\* An error or the end of the renewal: the lease is dropped, and the lock with it.
Release(p) == Becomes(p, Idle) /\ lock' = [lock EXCEPT ![proc[p].path] = None]

\* OneCredentialStore::from_config on the loaded profile. A reference that is not
\* canonical is an error before any lock is taken.
FromConfig(p, f) ==
    /\ At(p, "idle")
    /\ profile[f].binding # None /\ profile[f].canonical
    /\ refreshOf[profile[f].binding] # 0
    /\ Becomes(p, [Idle EXCEPT !.pc = "acquire", !.path = f, !.want = profile[f]])
    /\ UNCHANGED <<profile, keyring, provider, lock>>

\* Mutant of AcquireRefresh: the refresh token is read without the lock.
AcquireUnlocked(p) ==
    /\ At(p, "acquire")
    /\ Goto(p, "reload")
    /\ UNCHANGED <<profile, keyring, provider, lock>>

\* acquire_refresh: the stable lock; recovery and the .tmp file are in KeyringTxn.
AcquireRefresh(p) ==
    /\ At(p, "acquire")
    /\ lock[proc[p].path] = None
    /\ lock' = [lock EXCEPT ![proc[p].path] = p]
    /\ Goto(p, "reload")
    /\ UNCHANGED <<profile, keyring, provider>>

\* Mutant of Unmoved: a canonical reference is enough, whatever it is bound to.
AnyReference(p) == profile[proc[p].path].binding # None /\ profile[proc[p].path].canonical

\* The binding and the reference are those the process has loaded.
Unmoved(p) ==
    /\ profile[proc[p].path].binding = Target(p)
    /\ profile[proc[p].path].canonical

\* The profile is loaded again and its reference resolved.
Reload(p) ==
    /\ At(p, "reload")
    /\ Unmoved(p) /\ refreshOf[Target(p)] # 0
    /\ Becomes(p, [proc[p] EXCEPT !.pc = "compare", !.token = refreshOf[Target(p)]])
    /\ UNCHANGED <<profile, keyring, provider, lock>>

\* BindingChanged, ReferenceChanged, UnresolvedReference.
ReloadRefused(p) ==
    /\ At(p, "reload")
    /\ ~Unmoved(p) \/ refreshOf[Target(p)] = 0
    /\ Release(p)
    /\ UNCHANGED <<profile, keyring, provider>>

\* The keyring is read once more: has it still the value that was loaded?
Compare(p) ==
    /\ At(p, "compare")
    /\ IF refreshOf[Target(p)] = proc[p].token
       THEN Goto(p, "exchange") /\ UNCHANGED lock
       ELSE Release(p)
    /\ UNCHANGED <<profile, keyring, provider>>

\* The provider issues a token in the place of those in old.
Issue(old) ==
    /\ issued < MaxTokens
    /\ issued' = issued + 1
    /\ live' = (live \ old) \cup {issued + 1}

\* It replaces the token by a new one, or lets it live.
Replaced(t, now) ==
    \/ Issue({t}) /\ now = issued + 1
    \/ UNCHANGED <<live, issued>> /\ now = t

\* Mutant of Answered: the access token is stored before the refresh token.
AccessFirst(p, now) == [proc[p] EXCEPT !.pc = "store_access", !.got = now]

Answered(p, now) ==
    [proc[p] EXCEPT !.pc = IF now # proc[p].token THEN "store_refresh" ELSE "store_access",
                    !.got = now]

\* refresh_one_tokens: the provider answers.
Exchange(p) ==
    /\ At(p, "exchange") /\ proc[p].token \in live
    /\ \E now \in Tokens : Replaced(proc[p].token, now) /\ Becomes(p, Answered(p, now))
    /\ UNCHANGED <<profile, keyring, lost, refused, lock>>

\* refresh_one_tokens: the provider has acted and its answer is lost.
ExchangeLost(p) ==
    /\ "lost_reply" \in Faults
    /\ At(p, "exchange") /\ proc[p].token \in live
    /\ Issue({proc[p].token}) /\ lost' = lost \cup {proc[p].token}
    /\ Release(p)
    /\ UNCHANGED <<profile, keyring, refused>>

\* refresh_one_tokens: any status but success, also when the token is not live.
ExchangeFailed(p) ==
    /\ At(p, "exchange")
    /\ refused' = refused \cup ({proc[p].token} \ live)
    /\ Release(p)
    /\ UNCHANGED <<profile, keyring, live, issued, lost>>

\* commit_replacement, under the account that was validated before the exchange.
CommitReplacement(p) ==
    /\ At(p, "store_refresh")
    /\ refreshOf' = [refreshOf EXCEPT ![Target(p)] = proc[p].got]
    /\ Goto(p, "store_access")
    /\ UNCHANGED <<profile, accessOf, emptied, provider, lock>>

\* The keyring fails: an error that tells not to exchange again.
ReplacementFailed(p) ==
    /\ "keyring" \in Faults
    /\ At(p, "store_refresh")
    /\ lost' = lost \cup {proc[p].token}
    /\ Release(p)
    /\ UNCHANGED <<profile, keyring, live, issued, refused>>

\* commit_rotation: the access token, when the loaded profile referred to one.
CommitAccess(p) ==
    /\ At(p, "store_access")
    /\ accessOf' = IF proc[p].want.access
                   THEN [accessOf EXCEPT ![Target(p)] = proc[p].got] ELSE accessOf
    /\ Release(p)
    /\ UNCHANGED <<profile, refreshOf, emptied, provider>>

AccessFailed(p) ==
    /\ "keyring" \in Faults
    /\ At(p, "store_access") /\ proc[p].want.access
    /\ Release(p)
    /\ UNCHANGED <<profile, keyring, provider>>

---------------------------------------------------------------------------
(* Commands that save the profile. Each loads it, finds out which of its   *)
(* accounts no other profile refers to, and saves under the lock.          *)

\* unreferenced_keyring_accounts_excluding_profile, of the accounts f refers to.
Unreferenced(f) ==
    {b \in Bindings : /\ profile[f].binding = b /\ profile[f].canonical
                      /\ \A g \in Profiles \ {f} :
                            ~(profile[g].binding = b /\ profile[g].canonical)}

BeginSave(p, f, to, free, fresh) ==
    /\ At(p, "idle")
    /\ Becomes(p, [Idle EXCEPT !.pc = "save", !.path = f, !.want = to, !.free = free,
                               !.fresh = fresh])
    /\ UNCHANGED <<profile, keyring, provider, lock>>

\* login with a refresh token, to any binding.
Login(p, f) == \E b \in Bindings, a \in BOOLEAN :
    BeginSave(p, f, [binding |-> b, canonical |-> TRUE, access |-> a], Unreferenced(f), TRUE)

Logout(p, f) == BeginSave(p, f, LoggedOut, Unreferenced(f), FALSE)

\* workspace switch saves what it has loaded, without a binding: the references become
\* those of the profile name.
SwitchWorkspace(p, f) ==
    /\ profile[f].binding # None
    /\ BeginSave(p, f, [profile[f] EXCEPT !.canonical = FALSE], {}, FALSE)

\* Mutant of Stored: the old accounts are deleted last.
StoredThenDeleted(p, entries, fresh) ==
    [b \in Bindings |-> IF b \in proc[p].free THEN 0
                        ELSE IF fresh /\ b = Target(p) THEN issued + 1 ELSE entries[b]]

\* The accounts of free are deleted before the new tokens are stored.
Stored(p, entries, fresh) ==
    [b \in Bindings |-> IF fresh /\ b = Target(p) THEN issued + 1
                        ELSE IF b \in proc[p].free THEN 0 ELSE entries[b]]

SaveProfile(p) ==
    /\ At(p, "save")
    /\ lock[proc[p].path] = None
    /\ profile' = [profile EXCEPT ![proc[p].path] = proc[p].want]
    /\ IF proc[p].fresh THEN Issue({}) ELSE UNCHANGED <<live, issued>>
    /\ refreshOf' = Stored(p, refreshOf, proc[p].fresh)
    /\ accessOf' = Stored(p, accessOf, proc[p].fresh /\ proc[p].want.access)
    /\ emptied' = emptied \ (proc[p].free \cup {Target(p)})
    /\ Becomes(p, Idle)
    /\ UNCHANGED <<lost, refused, lock>>

\* The keyring once rollback_keyring_accounts has undone the stores of a save: what they
\* replaced was read after the deletions, which nothing undoes.
Undone(p, entries) == [b \in Bindings |-> IF b \in proc[p].free THEN 0 ELSE entries[b]]

\* The profile write, or the digest before it, fails: the stores are undone and the
\* transaction is aborted, without its pre-images. A write that fails at the directory
\* sync has replaced the profile. The tokens of a login are issued all the same.
SaveUndone(p) ==
    /\ At(p, "save")
    /\ lock[proc[p].path] = None
    /\ refreshOf' = Undone(p, refreshOf)
    /\ accessOf' = Undone(p, accessOf)
    /\ \/ /\ "write" \in Faults
          /\ emptied' = emptied \cup proc[p].free
          /\ UNCHANGED profile
       \/ /\ "dirsync" \in Faults
          /\ emptied' = emptied \cup {b \in Bindings : b = Target(p) /\ refreshOf'[b] = 0}
          /\ profile' = [profile EXCEPT ![proc[p].path] = proc[p].want]
    /\ Becomes(p, Idle)
    /\ IF proc[p].fresh THEN Issue({}) ELSE UNCHANGED <<live, issued>>
    /\ UNCHANGED <<lost, refused, lock>>

\* The lock cannot be had, or the save fails where recovery or rollback_and_abort puts
\* everything back: at its deletions, its stores or the check of the profile.
GiveUp(p) ==
    /\ At(p, "acquire") \/ At(p, "save")
    /\ Becomes(p, Idle)
    /\ UNCHANGED <<profile, keyring, provider, lock>>

\* The process dies; the system releases its lock.
Crash(p) ==
    /\ "crash" \in Faults
    /\ ~At(p, "idle")
    /\ lost' = IF At(p, "store_refresh") THEN lost \cup {proc[p].token} ELSE lost
    /\ Becomes(p, Idle)
    /\ lock' = [f \in Profiles |-> IF lock[f] = p THEN None ELSE lock[f]]
    /\ UNCHANGED <<profile, keyring, live, issued, refused>>

---------------------------------------------------------------------------

\* The steps of the holder of a lock.
HolderStep(p) ==
    \/ Reload(p) \/ ReloadRefused(p) \/ Compare(p)
    \/ Exchange(p) \/ ExchangeLost(p) \/ ExchangeFailed(p)
    \/ CommitReplacement(p) \/ ReplacementFailed(p)
    \/ CommitAccess(p) \/ AccessFailed(p)

Command(p) == \E f \in Profiles :
    FromConfig(p, f) \/ Login(p, f) \/ Logout(p, f) \/ SwitchWorkspace(p, f)

Next == \E p \in Procs :
    Command(p) \/ AcquireRefresh(p) \/ HolderStep(p) \/ SaveProfile(p)
               \/ SaveUndone(p) \/ GiveUp(p) \/ Crash(p)

Spec == Init /\ [][Next]_vars

\* A process that holds a lock goes on; every request of it has a timeout.
FairSpec == Spec /\ \A p \in Procs : WF_vars(HolderStep(p))

---------------------------------------------------------------------------
(* Properties *)

\* No two processes spend the same rotating token: the provider refuses one only when
\* the exchange that spent it came to grief, its replacement lost on the way, in a crash
\* or by the keyring ("prevents concurrent CLI processes from both exchanging the same
\* rotating refresh token").
RefusedOnlyIfLost == refused \subseteq lost

\* What a profile refers to while nobody renews it can be used: the provider accepts the
\* token unless its replacement was lost, whatever saves, renewals and failures came
\* before; and there is one, unless a save that could not write the profile has removed
\* it (it restores what it stored and not what it deleted).
StoredIsUsable ==
    \A f \in Profiles :
        LET b == profile[f].binding
        IN  lock[f] = None /\ b # None /\ profile[f].canonical
                => \/ refreshOf[b] \in live \cup lost
                   \/ refreshOf[b] = 0 /\ b \in emptied

\* Tokens received are stored under the accounts the profile still refers to: no login
\* to another account or workspace can have come between ("BindingChanged").
StoredOnTarget ==
    \A p \in Procs : proc[p].pc \in {"store_refresh", "store_access"}
        => LET now == profile[proc[p].path] IN now.canonical /\ now.binding = Target(p)

\* A crash between the two stores loses the access token at most: the keyring never has
\* an access token newer than the refresh token beside it.
AccessNotAhead == \A b \in Bindings : accessOf[b] <= refreshOf[b]

\* A profile does not stay locked: every holder commits, fails or dies.
LockReleased == \A f \in Profiles : lock[f] # None ~> lock[f] = None
=============================================================================
