----------------------------- MODULE KeyringTxn -----------------------------
(***************************************************************************)
(* The persistence of one profile and of the credentials it refers to.     *)
(*                                                                         *)
(* A profile file names OS-keyring accounts; a save replaces the file and  *)
(* changes the accounts behind it. The two stores cannot be written in one *)
(* step, so ayx-core/src/secrets.rs keeps a journal beside the profile     *)
(* with the pre-image of every account it touches (the pre-images          *)
(* themselves are backup entries in the keyring), and every process that   *)
(* opens the profile first finishes or undoes an interrupted transaction.  *)
(* All of it runs under one advisory file lock per profile.                *)
(*                                                                         *)
(* Processes load the profile, then possibly save it by the narrow path    *)
(* (write_config_exact) or by the bulk path                                *)
(* (write_config_with_binding_for_rollout_and_delete_keyring_accounts).    *)
(* Any fallible call may fail, and the lock holder may die between any two *)
(* calls.                                                                  *)
(*                                                                         *)
(* Abstracted: a secret field is named by the keyring account it would use *)
(* and a profile body is the set of fields that refer to their account,    *)
(* the fields stored inline and one value for everything else; its digest  *)
(* is the body itself. The loops over recorded changes run in any order    *)
(* (the entries are of distinct accounts). The .tmp siblings are not read  *)
(* by anybody and are left out. Journals of version 1 are not modelled.    *)
(***************************************************************************)
CONSTANTS
    Procs,      \* CLI processes that share the profile
    Accounts,   \* the secret fields of the profile, by their keyring accounts
    Secrets,    \* secret values
    Settings,   \* values of everything in the profile that is not a secret
    None,       \* no value: no keyring entry, no journal, no lock holder
    Ops,        \* the commands the processes run, a subset of AllOps
    Faults,     \* the failures that may happen, a subset of AllFaults
    Headless    \* processes that run without a keyring backend

ExactOps == {"set", "replace", "unset"}
BulkOps == {"resave", "login", "logout"}
AllOps == ExactOps \cup BulkOps
AllFaults == {"crash",      \* a process dies
              "keyring",    \* a keyring call returns an error
              "journal",    \* a journal write or unlink fails, nothing changed
              "conflict",   \* detect_secret_conflict refuses the profile
              "encode",     \* the profile cannot be serialized
              "write",      \* the profile write fails before its rename
              "dirsync"}    \* a write fails after its rename, at the directory sync

Maybe(S) == S \cup {None}

ASSUME ConstantsOK ==
    /\ None \notin Procs \cup Secrets \cup Accounts
    /\ Settings # {}
    /\ Headless \subseteq Procs
    /\ Ops \subseteq AllOps
    /\ Faults \subseteq AllFaults

VARIABLES
    profile,    \* the body of the profile file
    journal,    \* the .auth-txn sibling of the profile, or None
    keyring,    \* account -> secret or None
    backup,     \* account -> its backup entry in the keyring, or None
    txn,        \* the memory of the lock holder
    stage,      \* process -> where its command is
    view,       \* process -> the configuration it has loaded
    req,        \* process -> the save it wants to make
    outcome     \* process -> how its command's last save returned

disk == <<profile, journal, keyring, backup>>
clients == <<stage, view, req, outcome>>
vars == <<profile, journal, keyring, backup, txn, stage, view, req, outcome>>

---------------------------------------------------------------------------
(* Data *)

Bodies == [refs : SUBSET Accounts, inline : [Accounts -> Maybe(Secrets)], settings : Settings]

\* What a journal knows of an account: nothing; that it did not exist; that a
\* backup entry is named but not yet stored; that the backup entry is stored.
Marks == {"unrecorded", "absent", "pending", "ready"}

KeyringTransactionJournal ==
    [target : Maybe(Bodies), restored : BOOLEAN, changes : [Accounts -> Marks]]

EmptyJournal ==
    [target |-> None, restored |-> FALSE, changes |-> [a \in Accounts |-> "unrecorded"]]

Recorded(j) == {a \in Accounts : j.changes[a] # "unrecorded"}
BackedUp(j) == {a \in Accounts : j.changes[a] \in {"pending", "ready"}}

\* The digest test of recovery: the profile on disk is the one the journal
\* announces.
Committed(j) == j # None /\ j.target = profile

\* A loaded configuration: the body, and the secrets found behind it. A load for
\* write keeps the references as they are.
Views == [body : Bodies, resolved : BOOLEAN, unread : SUBSET Accounts,
          secrets : [Accounts -> Maybe(Secrets)]]

Requests == [op : AllOps, allow : BOOLEAN, body : Bodies,
             stores : [Accounts -> Maybe(Secrets)], deletes : SUBSET Accounts]

\* None stands for the absence of each of these.
ASSUME NoneIsNoRecord ==
    None \notin Bodies \cup KeyringTransactionJournal \cup Views \cup Requests

Exact(r) == r.op \in ExactOps

\* The accounts a request writes.
Written(r) == {a \in Accounts : r.stores[a] # None}

Stages == {"idle", "recover", "recovering", "tmp", "read", "resolve", "loaded",
           "save", "saving"}

Pcs == {"free", "recover", "store", "delete", "backup", "ready", "mutate", "conflict",
        "digest", "write", "undo", "restore", "mark", "clean", "unlink"}

NoWork == [owner |-> None, pc |-> "free", why |-> "none", loop |-> "none", refused |-> FALSE,
           journal |-> EmptyJournal, todo |-> {}, cur |-> None, previous |-> None, kept |-> {}]

\* The memory of the lock holder: the call it makes next, what it is in the
\* middle of, the loop it is in, whether the keyring refused to store a value,
\* KeyringTransaction.journal, the rest of the current loop, the account and the
\* pre-image given to record_change, and SecretizeOutput.keyring_previous.
Txns == [owner : Maybe(Procs), pc : Pcs,
         why : {"none", "recovery", "commit", "rollback", "abort"},
         loop : {"none", "store", "delete"}, refused : BOOLEAN,
         journal : KeyringTransactionJournal,
         todo : SUBSET Accounts, cur : Maybe(Accounts),
         previous : Maybe(Secrets),
         kept : SUBSET (Accounts \X Maybe(Secrets))]

DiskTypeOK ==
    /\ profile \in Bodies
    /\ journal \in Maybe(KeyringTransactionJournal)
    /\ keyring \in [Accounts -> Maybe(Secrets)]
    /\ backup \in [Accounts -> Maybe(Secrets)]

TypeOK ==
    /\ DiskTypeOK
    /\ txn \in Txns
    /\ stage \in [Procs -> Stages]
    /\ view \in [Procs -> Maybe(Views)]
    /\ req \in [Procs -> Maybe(Requests)]
    /\ outcome \in [Procs -> {"none", "ok", "err"}]

\* Every account the profile refers to holds a secret and nothing is in flight.
Init ==
    /\ profile \in [refs : SUBSET Accounts, inline : {[a \in Accounts |-> None]},
                   settings : Settings]
    /\ keyring \in [Accounts -> Maybe(Secrets)]
    /\ \A a \in Accounts : keyring[a] # None <=> a \in profile.refs
    /\ journal = None
    /\ backup = [a \in Accounts |-> None]
    /\ txn = NoWork
    /\ stage = [p \in Procs |-> "idle"]
    /\ view = [p \in Procs |-> None]
    /\ req = [p \in Procs |-> None]
    /\ outcome = [p \in Procs |-> "none"]

---------------------------------------------------------------------------
(* The lock holder: shared steps *)

Owner == txn.owner
Request == req[Owner]

\* keyring_core registers no store on a headless host: reads find nothing,
\* deletions succeed without effect and stores fail.
Available(p) == p \notin Headless
Resolve(p, entries, a) == IF Available(p) THEN entries[a] ELSE None

\* delete_keyring_secret
Without(entries, a) == IF Available(Owner) THEN [entries EXCEPT ![a] = None] ELSE entries

\* What the command does after a save: nothing more, or another save. A `secret
\* set` the keyring refused, and that was rolled back, keeps its value inline. A
\* login that failed may be saved again with the inline fallback, by consent.
FollowUps(result, rolledBack) ==
    IF result = "err" /\ Request.op \in {"set", "replace"} /\ txn.refused /\ rolledBack
    THEN {[Request EXCEPT !.stores = [a \in Accounts |-> None],
                          !.body.refs = @ \ Written(Request),
                          !.body.inline = [a \in Accounts |-> IF a \in Written(Request)
                                                              THEN Request.stores[a] ELSE @[a]]]}
    ELSE IF result = "err" /\ Request.op = "login" /\ ~Request.allow
    THEN {None, [Request EXCEPT !.allow = TRUE]}
    ELSE {None}

\* The locked section ends: the lock is dropped with everything in memory. A
\* load whose recovery succeeded goes on to read the profile.
End(result, rolledBack) ==
    /\ txn' = NoWork
    /\ IF stage[Owner] = "recovering"
       THEN /\ stage' = [stage EXCEPT ![Owner] = IF result = "ok" THEN "tmp" ELSE "idle"]
            /\ UNCHANGED <<view, req, outcome>>
       ELSE \E next \in FollowUps(result, rolledBack) :
              /\ stage' = [stage EXCEPT ![Owner] = IF next = None THEN "idle" ELSE "save"]
              /\ req' = [req EXCEPT ![Owner] = next]
              /\ outcome' = [outcome EXCEPT ![Owner] = result]
              /\ UNCHANGED view

Leave(result) == End(result, FALSE)

Continue(t) == txn' = t /\ UNCHANGED clients

\* rollback_and_abort, from what the transaction holds in memory.
Rollback(t) == [t EXCEPT !.pc = "restore", !.why = "rollback", !.todo = Recorded(t.journal)]

\* Mutant of Backout: the deletions of the bulk path are aborted, not rolled back.
BackoutAbortsDeletions(t) ==
    IF Exact(Request) THEN Continue(Rollback(t))
    ELSE Continue([t EXCEPT !.pc = "undo",
                            !.why = IF t.loop = "store" THEN "rollback" ELSE "abort"])

\* What a save does when a call fails. The narrow path always rolls back. The
\* bulk path rolls back from its deletions; from its stores it first undoes the
\* stores it made; past them it undoes the stores and aborts the transaction.
Backout(t) ==
    IF Exact(Request) \/ t.loop = "delete" THEN Continue(Rollback(t))
    ELSE Continue([t EXCEPT !.pc = "undo",
                            !.why = IF t.loop = "store" THEN "rollback" ELSE "abort"])

\* Mutants of Fail: a failing clean-up rolls the committed save back; a failing
\* call starts recovery over.
FailUndoesCommit(t) == IF t.why \in {"none", "commit"} THEN Backout(t) ELSE Leave("err")
FailRetries(t) == IF t.why = "none" THEN Backout(t) ELSE Continue([t EXCEPT !.pc = "recover"])

\* A failing call of recovery, of a rollback or of a clean-up is returned at
\* once: the journal stays for the next process.
Fail(t) == IF t.why = "none" THEN Backout(t) ELSE Leave("err")

\* persist_transaction_journal(t.journal), after which the holder continues as t.
\* A write that fails at the directory sync has already replaced the journal.
Persist(t) ==
    \/ journal' = t.journal /\ Continue(t)
    \/ "journal" \in Faults /\ journal' = journal /\ Fail([t EXCEPT !.pc = txn.pc])
    \/ "dirsync" \in Faults /\ journal' = t.journal /\ Fail([t EXCEPT !.pc = txn.pc])

\* A keyring read or deletion of the holder fails and changes nothing.
KeyringFails == "keyring" \in Faults /\ Fail(txn) /\ UNCHANGED disk

\* store_keyring_secret fails: the error the callers tell from all others.
StoreRefused == Fail([txn EXCEPT !.refused = txn.why = "none"]) /\ UNCHANGED disk
CanRefuse == "keyring" \in Faults \/ ~Available(Owner)

---------------------------------------------------------------------------
(* recover_keyring_transaction_locked *)

\* The first calls of a save once recovery is done: a new transaction, and the
\* keyring write of the narrow path or the deletions of the bulk path.
Begin(t) ==
    IF stage[Owner] = "recovering" THEN Leave("ok")
    ELSE LET loop == IF Exact(Request) THEN "store" ELSE "delete"
         IN Continue([t EXCEPT !.why = "none", !.journal = EmptyJournal, !.pc = loop, !.loop = loop,
                               !.todo = IF Exact(Request) THEN Written(Request) ELSE Request.deletes])

\* Mutants of Recover: a journal whose pre-images are back is removed without its
\* clean-up; the digest of the profile is not looked at.
RecoverSkipsCleanup ==
    /\ txn.pc = "recover"
    /\ \/ journal = None /\ Begin(txn)
       \/ /\ journal # None
          /\ LET t == [txn EXCEPT !.why = "recovery", !.journal = journal]
             IN IF Committed(journal) THEN Continue([t EXCEPT !.pc = "clean", !.todo = BackedUp(journal)])
                ELSE IF journal.restored THEN Continue([t EXCEPT !.pc = "unlink"])
                ELSE Continue([t EXCEPT !.pc = "restore", !.todo = Recorded(journal)])
    /\ UNCHANGED disk

RecoverIgnoresDigest ==
    /\ txn.pc = "recover"
    /\ \/ journal = None /\ Begin(txn)
       \/ /\ journal # None
          /\ LET t == [txn EXCEPT !.why = "recovery", !.journal = journal]
             IN IF journal.restored THEN Continue([t EXCEPT !.pc = "clean", !.todo = BackedUp(journal)])
                ELSE Continue([t EXCEPT !.pc = "restore", !.todo = Recorded(journal)])
    /\ UNCHANGED disk

\* An interrupted transaction is over if the profile has its target digest and
\* must otherwise be undone, unless its pre-images are already back.
Recover ==
    /\ txn.pc = "recover"
    /\ \/ journal = None /\ Begin(txn)
       \/ /\ journal # None
          /\ LET t == [txn EXCEPT !.why = "recovery", !.journal = journal]
             IN IF Committed(journal) \/ journal.restored
                THEN Continue([t EXCEPT !.pc = "clean", !.todo = BackedUp(journal)])
                ELSE Continue([t EXCEPT !.pc = "restore", !.todo = Recorded(journal)])
       \/ "journal" \in Faults /\ Leave("err")
    /\ UNCHANGED disk

\* restore_keyring_changes, one account. An account without a backup is
\* deleted; a backup that was stored but is gone is an error; a backup that was
\* never stored means the account was not touched yet.
RestoreChange(a) ==
    LET mark     == txn.journal.changes[a]
        previous == Resolve(Owner, backup, a)
        done     == [txn EXCEPT !.todo = @ \ {a}]
    IN  /\ txn.pc = "restore" /\ a \in txn.todo
        /\ \/ mark = "absent" /\ Continue(done) /\ keyring' = Without(keyring, a)
              /\ UNCHANGED <<profile, journal, backup>>
           \/ /\ mark # "absent" /\ previous # None
              /\ Continue(done) /\ keyring' = [keyring EXCEPT ![a] = previous]
              /\ UNCHANGED <<profile, journal, backup>>
           \/ mark = "ready" /\ previous = None /\ Leave("err") /\ UNCHANGED disk
           \/ mark = "pending" /\ previous = None /\ Continue(done) /\ UNCHANGED disk
           \/ KeyringFails

RestoreDone ==
    /\ txn.pc = "restore" /\ txn.todo = {}
    /\ Continue([txn EXCEPT !.pc = "mark"])
    /\ UNCHANGED disk

\* Mutant of MarkRestored: only the memory of the process says so.
MarkRestoredInMemory ==
    /\ txn.pc = "mark"
    /\ Continue([txn EXCEPT !.pc = "clean", !.journal.restored = TRUE, !.todo = BackedUp(txn.journal)])
    /\ UNCHANGED disk

\* The journal says that every pre-image is back before a backup is deleted.
MarkRestored ==
    /\ txn.pc = "mark"
    /\ Persist([txn EXCEPT !.pc = "clean", !.journal.restored = TRUE,
                           !.todo = BackedUp(txn.journal)])
    /\ UNCHANGED <<profile, keyring, backup>>

\* cleanup_backup_accounts, one account.
CleanBackup(a) ==
    /\ txn.pc = "clean" /\ a \in txn.todo
    /\ \/ /\ backup' = Without(backup, a)
          /\ Continue([txn EXCEPT !.todo = @ \ {a}])
          /\ UNCHANGED <<profile, journal, keyring>>
       \/ KeyringFails

CleanDone ==
    /\ txn.pc = "clean" /\ txn.todo = {}
    /\ Continue([txn EXCEPT !.pc = "unlink"])
    /\ UNCHANGED disk

\* The journal goes last. What follows depends on what it was for.
RemoveJournal ==
    /\ txn.pc = "unlink"
    /\ \/ /\ journal' = None
          /\ CASE txn.why = "recovery" -> Begin(txn)
               [] txn.why = "commit"   -> Leave("ok")
               [] OTHER                -> End("err", txn.why = "rollback")
       \/ "journal" \in Faults /\ journal' = journal /\ Leave("err")
    /\ UNCHANGED <<profile, keyring, backup>>

---------------------------------------------------------------------------
(* KeyringTransaction::record_change and the mutation it protects *)

\* Mutant of RecordChange: the account is changed before its backup is stored.
RecordChangeWithoutBackup(a, previous) ==
    LET t == [txn EXCEPT !.cur = a, !.previous = previous]
    IN  IF txn.journal.changes[a] # "unrecorded"
        THEN Continue([t EXCEPT !.pc = "mutate"]) /\ UNCHANGED journal
        ELSE Persist([t EXCEPT !.pc = "mutate",
                               !.journal.changes[a] = IF previous = None THEN "absent" ELSE "pending"])

\* The first half of record_change(a, previous): the account joins the journal,
\* which is persisted before anything else happens to the account.
RecordChange(a, previous) ==
    LET t == [txn EXCEPT !.cur = a, !.previous = previous]
    IN  IF txn.journal.changes[a] # "unrecorded"
        THEN Continue([t EXCEPT !.pc = "mutate"]) /\ UNCHANGED journal
        ELSE Persist([t EXCEPT !.pc = IF previous = None THEN "mutate" ELSE "backup",
                               !.journal.changes[a] = IF previous = None THEN "absent" ELSE "pending"])

\* delete_keyring_accounts: an account with no entry is skipped.
DeleteAccount(a) ==
    LET previous == Resolve(Owner, keyring, a)
    IN  /\ txn.pc = "delete" /\ a \in txn.todo
        /\ \/ /\ previous = None
              /\ Continue([txn EXCEPT !.todo = @ \ {a}]) /\ UNCHANGED disk
           \/ /\ previous # None
              /\ RecordChange(a, previous) /\ UNCHANGED <<profile, keyring, backup>>
           \/ KeyringFails

\* store (bulk path) and the keyring write of write_config_exact.
StoreAccount(a) ==
    /\ txn.pc = "store" /\ a \in txn.todo
    /\ \/ RecordChange(a, Resolve(Owner, keyring, a)) /\ UNCHANGED <<profile, keyring, backup>>
       \/ KeyringFails

\* The second half of record_change: the pre-image becomes a keyring entry,
\* then the journal says so.
StoreBackup ==
    /\ txn.pc = "backup"
    /\ \/ /\ Available(Owner)
          /\ backup' = [backup EXCEPT ![txn.cur] = txn.previous]
          /\ Continue([txn EXCEPT !.pc = "ready"])
          /\ UNCHANGED <<profile, journal, keyring>>
       \/ CanRefuse /\ StoreRefused

PersistReady ==
    /\ txn.pc = "ready"
    /\ Persist([txn EXCEPT !.pc = "mutate", !.journal.changes[txn.cur] = "ready"])
    /\ UNCHANGED <<profile, keyring, backup>>

\* The account is deleted.
DeleteKeyringSecret ==
    /\ txn.pc = "mutate" /\ txn.loop = "delete"
    /\ \/ /\ keyring' = Without(keyring, txn.cur)
          /\ Continue([txn EXCEPT !.pc = "delete", !.todo = @ \ {txn.cur}])
          /\ UNCHANGED <<profile, journal, backup>>
       \/ KeyringFails

\* The account is stored. The bulk path remembers the previous value for its
\* own undo, and, where the caller allows it, keeps the value inline in the
\* profile when the keyring refuses it.
StoreKeyringSecret ==
    LET a     == txn.cur
        value == Request.stores[a]
        done  == [txn EXCEPT !.pc = "store", !.todo = @ \ {a}]
    IN  /\ txn.pc = "mutate" /\ txn.loop = "store"
        /\ \/ /\ Available(Owner)
              /\ keyring' = [keyring EXCEPT ![a] = value]
              /\ Continue([done EXCEPT !.kept = IF Exact(Request) THEN @
                                                ELSE @ \cup {<<a, txn.previous>>}])
              /\ UNCHANGED <<profile, journal, backup>>
           \/ /\ CanRefuse /\ Request.allow
              /\ txn' = done
              /\ req' = [req EXCEPT ![Owner].stores[a] = None,
                                    ![Owner].body.refs = @ \ {a},
                                    ![Owner].body.inline[a] = value]
              /\ UNCHANGED <<disk, stage, view, outcome>>
           \/ CanRefuse /\ ~Request.allow /\ StoreRefused

---------------------------------------------------------------------------
(* The rest of a save: write_config_exact and *)
(* write_config_with_binding_for_rollout_and_delete_keyring_accounts *)

\* The narrow path stores, deletes and then checks the profile; the bulk path
\* deletes, checks and then stores.
LoopDone ==
    /\ txn.pc \in {"store", "delete"} /\ txn.todo = {}
    /\ Continue(
         IF Exact(Request) /\ txn.loop = "store"
         THEN [txn EXCEPT !.pc = "delete", !.loop = "delete", !.todo = Request.deletes]
         ELSE IF txn.loop = "delete" THEN [txn EXCEPT !.pc = "conflict", !.loop = "none"]
         ELSE [txn EXCEPT !.pc = "digest", !.loop = "none"])
    /\ UNCHANGED disk

\* detect_secret_conflict. The bulk path returns its error without a rollback.
CheckConflict ==
    /\ txn.pc = "conflict"
    /\ \/ Continue(IF Exact(Request) THEN [txn EXCEPT !.pc = "digest"]
                   ELSE [txn EXCEPT !.pc = "store", !.loop = "store", !.todo = Written(Request)])
       \/ "conflict" \in Faults /\ IF Exact(Request) THEN Backout(txn) ELSE Leave("err")
    /\ UNCHANGED disk

\* Mutant of SetTargetDigest: the digest is not written to the journal.
SetTargetDigestInMemory ==
    /\ txn.pc = "digest"
    /\ \/ Continue([txn EXCEPT !.pc = "write", !.journal.target = Request.body])
       \/ "encode" \in Faults /\ Backout(txn)
    /\ UNCHANGED disk

\* The profile is serialized and set_target_digest announces it, which only
\* writes the journal of a transaction that changed an account.
SetTargetDigest ==
    /\ txn.pc = "digest"
    /\ \/ IF Recorded(txn.journal) = {}
          THEN Continue([txn EXCEPT !.pc = "write"]) /\ UNCHANGED journal
          ELSE Persist([txn EXCEPT !.pc = "write", !.journal.target = Request.body])
       \/ "encode" \in Faults /\ Backout(txn) /\ UNCHANGED journal
    /\ UNCHANGED <<profile, keyring, backup>>

\* The profile is replaced; past the rename the transaction commits.
WriteProfile ==
    /\ txn.pc = "write"
    /\ \/ /\ profile' = Request.body
          /\ Continue([txn EXCEPT !.pc = "clean", !.why = "commit", !.todo = BackedUp(txn.journal)])
       \/ "write" \in Faults /\ profile' = profile /\ Backout(txn)
       \/ "dirsync" \in Faults /\ profile' = Request.body /\ Backout(txn)
    /\ UNCHANGED <<journal, keyring, backup>>

\* rollback_keyring_accounts, one entry. After an error the stores' rollback
\* still runs, the abort does not.
Undo ==
    /\ txn.pc = "undo"
    /\ \/ \E change \in txn.kept :
            /\ change[2] = None \/ Available(Owner)
            /\ keyring' = IF change[2] = None THEN Without(keyring, change[1])
                          ELSE [keyring EXCEPT ![change[1]] = change[2]]
            /\ Continue([txn EXCEPT !.kept = @ \ {change}])
            /\ UNCHANGED <<profile, journal, backup>>
       \/ /\ txn.kept # {} /\ CanRefuse
          /\ IF txn.why = "rollback" THEN Continue(Rollback(txn)) ELSE Leave("err")
          /\ UNCHANGED disk
       \/ /\ txn.kept = {}
          /\ Continue(IF txn.why = "rollback" THEN Rollback(txn)
                      ELSE [txn EXCEPT !.pc = "clean", !.todo = BackedUp(txn.journal)])
          /\ UNCHANGED disk

---------------------------------------------------------------------------
(* The processes *)

\* Whoever opens the profile first recovers it under the lock.
StartLoad(p) ==
    /\ stage[p] = "idle"
    /\ stage' = [stage EXCEPT ![p] = "recover"]
    /\ outcome' = [outcome EXCEPT ![p] = "none"]
    /\ UNCHANGED <<disk, txn, view, req>>

\* SensitiveFileLock::acquire, for the recovery of a load or for a save.
Lock(p) ==
    /\ stage[p] \in {"recover", "save"} /\ Owner = None
    /\ txn' = [NoWork EXCEPT !.owner = p, !.pc = "recover"]
    /\ stage' = [stage EXCEPT ![p] = IF @ = "recover" THEN "recovering" ELSE "saving"]
    /\ UNCHANGED <<disk, view, req, outcome>>

\* recover_sensitive_file: the lock again, for one call.
RemoveTmp(p) ==
    /\ stage[p] = "tmp" /\ Owner = None
    /\ stage' = [stage EXCEPT ![p] = "read"]
    /\ UNCHANGED <<disk, txn, view, req, outcome>>

\* The profile is read without the lock. A load for write keeps references as
\* written; any other load goes on to resolve them.
ReadProfile(p) ==
    /\ stage[p] = "read"
    /\ \E resolved \in BOOLEAN :
         /\ Ops \cap (IF resolved THEN BulkOps ELSE ExactOps) # {}
         /\ view' = [view EXCEPT ![p] = [body |-> profile, resolved |-> resolved,
                                         unread |-> IF resolved THEN profile.refs ELSE {},
                                         secrets |-> profile.inline]]
    /\ stage' = [stage EXCEPT ![p] = "resolve"]
    /\ UNCHANGED <<disk, txn, req, outcome>>

\* The references are resolved one by one, without the lock. An entry that is not
\* there or cannot be read leaves the field empty and its reference in place.
ResolveRef(p, a) ==
    /\ stage[p] = "resolve" /\ a \in view[p].unread
    /\ \E value \in {Resolve(p, keyring, a)} \cup (IF "keyring" \in Faults THEN {None} ELSE {}) :
         view' = [view EXCEPT ![p].unread = @ \ {a}, ![p].secrets[a] = value]
    /\ UNCHANGED <<disk, txn, stage, req, outcome>>

Loaded(p) ==
    /\ stage[p] = "resolve" /\ view[p].unread = {}
    /\ stage' = [stage EXCEPT ![p] = "loaded"]
    /\ UNCHANGED <<disk, txn, view, req, outcome>>

\* The command ends without a save.
Quit(p) ==
    /\ stage[p] = "loaded"
    /\ stage' = [stage EXCEPT ![p] = "idle"]
    /\ view' = [view EXCEPT ![p] = None]
    /\ UNCHANGED <<disk, txn, req, outcome>>

\* The commands and the saves they ask for.
NoStores == [a \in Accounts |-> None]

SetRequest(v, a, s) ==      \* secret set: the account is stored, the field refers to it
    [op |-> IF a \in v.body.refs THEN "replace" ELSE "set", allow |-> FALSE,
     body |-> [v.body EXCEPT !.refs = @ \cup {a}, !.inline[a] = None],
     stores |-> [NoStores EXCEPT ![a] = s], deletes |-> {}]

UnsetRequest(v, a) ==       \* secret unset: the field is emptied, its account deleted
    [op |-> "unset", allow |-> FALSE,
     body |-> [v.body EXCEPT !.refs = @ \ {a}, !.inline[a] = None],
     stores |-> NoStores, deletes |-> {a} \cap v.body.refs]

\* A bulk save stores every secret of the configuration but those of the fields
\* it clears, and deletes the accounts the caller has found no use for.
BulkRequest(op, v, settings, secrets, cleared, allow, deletes) ==
    [op |-> op, allow |-> allow,
     body |-> [refs |-> (v.body.refs \ cleared) \cup {a \in Accounts : secrets[a] # None},
               inline |-> NoStores, settings |-> settings],
     stores |-> secrets, deletes |-> deletes]

Cleared(v, fields) == [a \in Accounts |-> IF a \in fields THEN None ELSE v.secrets[a]]

\* Onboarding, workspace edits and secret migrate store the profile anew.
ResaveRequest(v, settings, allow) == BulkRequest("resave", v, settings, v.secrets, {}, allow, {})

LoginRequest(v, a, s, superseded, allow) ==     \* one field is new and supersedes others
    BulkRequest("login", v, v.body.settings, [Cleared(v, superseded) EXCEPT ![a] = s],
                superseded, allow, superseded \ {a})

LogoutRequest(v, fields) ==     \* the fields are cleared and their accounts deleted
    BulkRequest("logout", v, v.body.settings, Cleared(v, fields), fields, FALSE,
                fields \cap v.body.refs)

\* What a command may ask to save, given what it has loaded.
Saves(v) ==
    {r \in IF v.resolved
           THEN {ResaveRequest(v, settings, allow) : settings \in Settings, allow \in BOOLEAN} \cup
                {LoginRequest(v, a, s, superseded, allow) : a \in Accounts, s \in Secrets,
                    superseded \in SUBSET v.body.refs, allow \in BOOLEAN} \cup
                {LogoutRequest(v, fields) : fields \in SUBSET Accounts \ {{}}}
           ELSE {SetRequest(v, a, s) : a \in Accounts, s \in Secrets} \cup
                {UnsetRequest(v, a) : a \in Accounts} : r.op \in Ops}

Submit(p) ==
    /\ stage[p] = "loaded"
    /\ \E r \in Saves(view[p]) : req' = [req EXCEPT ![p] = r]
    /\ stage' = [stage EXCEPT ![p] = "save"]
    /\ view' = [view EXCEPT ![p] = None]
    /\ UNCHANGED <<disk, txn, outcome>>

\* A process dies; the operating system releases the lock it holds.
Crash(p) ==
    /\ "crash" \in Faults /\ stage[p] # "idle"
    /\ txn' = IF Owner = p THEN NoWork ELSE txn
    /\ stage' = [stage EXCEPT ![p] = "idle"]
    /\ view' = [view EXCEPT ![p] = None]
    /\ req' = [req EXCEPT ![p] = None]
    /\ UNCHANGED <<disk, outcome>>

---------------------------------------------------------------------------

\* One step of the process that holds the lock.
HolderStep ==
    \/ Recover \/ RestoreDone \/ MarkRestored \/ CleanDone \/ RemoveJournal
    \/ StoreBackup \/ PersistReady \/ DeleteKeyringSecret \/ StoreKeyringSecret
    \/ LoopDone \/ CheckConflict \/ SetTargetDigest \/ WriteProfile \/ Undo
    \/ \E a \in Accounts : RestoreChange(a) \/ CleanBackup(a) \/ DeleteAccount(a) \/ StoreAccount(a)

ProcessStep(p) ==
    \/ StartLoad(p) \/ Lock(p) \/ RemoveTmp(p) \/ ReadProfile(p) \/ Loaded(p)
    \/ Quit(p) \/ Submit(p) \/ Crash(p)
    \/ \E a \in Accounts : ResolveRef(p, a)

Next == HolderStep \/ \E p \in Procs : ProcessStep(p)

Spec == Init /\ [][Next]_vars

\* A process that holds the lock never waits for another one.
FairSpec == Spec /\ WF_vars(HolderStep)

---------------------------------------------------------------------------
(* Properties *)

\* What recovery would find in the keyring under an account if the lock holder
\* died now: the pre-image as long as the transaction has not committed.
InFlight == journal # None /\ ~Committed(journal) /\ ~journal.restored
Recovered(a) ==
    IF ~InFlight \/ journal.changes[a] = "unrecorded" THEN keyring[a]
    ELSE IF journal.changes[a] = "absent" THEN None
    ELSE IF backup[a] # None THEN backup[a] ELSE keyring[a]

\* KeyringTransaction: no account is changed before the journal on disk holds
\* what the account was: that it did not exist, or a stored backup of its value.
WriteAheadJournal ==
    txn.pc = "mutate" =>
        /\ InFlight
        /\ \/ journal.changes[txn.cur] = "absent" /\ txn.previous = None
           \/ /\ journal.changes[txn.cur] = "ready" /\ txn.previous # None
              /\ backup[txn.cur] = txn.previous

\* restore_keyring_changes, rollback_and_abort: whenever the process dies, recovery can
\* finish what it began. It never meets a journal whose pre-images it needs and whose
\* backups are gone, which no later run of the program can undo; and what is being undone
\* is never what recovery would take for committed.
RecoverableJournal ==
    /\ InFlight => \A a \in Accounts : journal.changes[a] = "ready" => backup[a] # None
    /\ txn.pc \in {"restore", "undo"} => ~Committed(journal)

\* Backup entries are named by the journal as long as they exist: once it is
\* removed no copy of a secret is left behind in the keyring.
NoOrphanBackup ==
    \A a \in Accounts : backup[a] # None =>
        journal # None /\ journal.changes[a] \in {"pending", "ready"}

\* The profile never refers to an account that is empty, now or after the
\* recovery of whatever is in flight.
NoDanglingRef == \A a \in profile.refs : Recovered(a) # None

\* Every call of the lock holder makes progress: the lock is released.
LockReleased == Owner # None ~> Owner = None

---------------------------------------------------------------------------
(* The inductive invariant behind WriteAheadJournal *)

ForwardPcs == {"store", "delete", "backup", "ready", "mutate", "conflict", "digest"}
SavePcs == ForwardPcs \cup {"write", "undo"}
EndPcs == {"restore", "mark", "clean", "unlink"}

\* Where the processes and the lock holder are, as far as types depend on it.
ControlOK ==
    /\ Owner = None <=> txn.pc = "free"
    /\ Owner # None => stage[Owner] \in {"recovering", "saving"}
    /\ txn.pc \in SavePcs => stage[Owner] = "saving"
    /\ txn.pc \in EndPcs \cup {"undo"} => txn.why # "none"
    /\ txn.pc \in {"backup", "ready", "mutate"} => txn.cur \in Accounts
    /\ \A p \in Procs : stage[p] \in {"save", "saving"} => req[p] # None
    /\ \A p \in Procs : stage[p] \in {"resolve", "loaded"} => view[p] # None

\* No save stores and deletes the same account, and the narrow path has no inline
\* fallback of its own.
RequestOK(r) == Written(r) \cap r.deletes = {} /\ (Exact(r) => ~r.allow)

RequestsOK == \A p \in Procs : req[p] # None => RequestOK(req[p])

\* While a save goes forward the journal on disk is the one in memory, from the
\* first recorded change on.
JournalOK ==
    txn.pc \in ForwardPcs =>
        /\ txn.why = "none"
        /\ txn.journal.target = None /\ ~txn.journal.restored
        /\ journal = IF Recorded(txn.journal) = {} THEN None ELSE txn.journal

\* The account the save is at, and what is recorded of it.
CurrentOK ==
    LET mark == txn.journal.changes[txn.cur]
    IN  /\ txn.pc = "backup" => mark = "pending" /\ txn.previous # None
        /\ txn.pc = "ready"  => mark = "pending" /\ txn.previous # None
                               /\ backup[txn.cur] = txn.previous
        /\ txn.pc = "mutate" => \/ mark = "absent" /\ txn.previous = None
                                \/ /\ mark = "ready" /\ txn.previous # None
                                   /\ backup[txn.cur] = txn.previous

\* The accounts a loop has still to change are not recorded, nor are those of
\* the loop that follows it.
LoopOK ==
    LET rest == IF txn.pc \in {"backup", "ready", "mutate"} THEN txn.todo \ {txn.cur} ELSE txn.todo
        current == IF txn.pc \in {"backup", "ready", "mutate"} THEN {txn.cur} ELSE {}
        touched == Recorded(txn.journal) \cup txn.todo \cup current
    IN  /\ txn.pc \in ForwardPcs => (txn.loop = "none" <=> txn.pc \in {"conflict", "digest"})
        /\ txn.pc \in {"store", "delete"} => txn.loop = txn.pc
        /\ txn.pc \in ForwardPcs /\ txn.loop # "none" => rest \cap Recorded(txn.journal) = {}
        /\ txn.pc \in ForwardPcs /\ Exact(Request) /\ txn.loop = "store" => touched \subseteq Written(Request)
        /\ txn.pc \in ForwardPcs \ {"digest"} /\ ~Exact(Request) /\ txn.loop # "store" => touched \subseteq Request.deletes

IInv == TypeOK /\ ControlOK /\ RequestsOK /\ JournalOK /\ CurrentOK /\ LoopOK

---------------------------------------------------------------------------
(* The abstract save *)

\* A save takes effect when the profile is replaced, or, when the profile keeps
\* its contents, once the journal announces them.
Applied(p) ==
    /\ Owner = p /\ stage[p] = "saving"
    /\ \/ txn.why = "commit"
       \/ txn.pc = "write" /\ Committed(journal)

Atomic == INSTANCE AtomicSave WITH
    keyring <- [a \in Accounts |-> Recovered(a)],
    pending <- req,
    applied <- [p \in Procs |-> Applied(p)]

\* KeyringTransaction: a save changes the profile and its accounts together or
\* not at all, and a save that returns success has changed them.
ImplementsAtomicSave == Atomic!Spec
=============================================================================
