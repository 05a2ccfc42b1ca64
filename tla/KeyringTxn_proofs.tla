------------------------- MODULE KeyringTxn_proofs --------------------------
(***************************************************************************)
(* What a save of a profile keeps, for any number of processes, accounts   *)
(* and secrets.                                                            *)
(*                                                                         *)
(* 1. The write-ahead rule, for all commands and all failures: no keyring  *)
(* account is changed before the journal on disk can undo the change.      *)
(* WriteAheadJournal is not inductive: it holds at "mutate" because the    *)
(* journal on disk is the one in memory (JournalOK), because the record of *)
(* the current account was completed (CurrentOK), and because no account   *)
(* is reached twice in a transaction (LoopOK, which rests on RequestsOK).  *)
(* IInv is their conjunction.                                              *)
(*                                                                         *)
(* 2. The atomicity of a save, for the failures of Covered: KeyringTxn     *)
(* implements AtomicSave, recovery can always finish, and no backup is     *)
(* left behind. SInv adds to IInv what the keyring holds: while a save     *)
(* goes forward, each account is as the save wants it or as recovery would *)
(* leave it (EffectOK); while one is undone, the marks in memory undo what *)
(* those on disk undo (UndoableOK) and the accounts already passed are     *)
(* restored (UndoneOK); backups are deleted when nothing looks for them    *)
(* (CleanOK). Each step keeps SInv and is a step of AtomicSave.            *)
(*                                                                         *)
(* 3. With one process, that no reference of the profile dangles, from the *)
(* steps of AtomicSave and from what a command may ask to save (Grounded). *)
(***************************************************************************)
EXTENDS KeyringTxn, TLAPS

---------------------------------------------------------------------------
(* How a step of the lock holder ends *)

\* A holder that goes on to t keeps the types and the control state.
LEMMA ContinueOK ==
    ASSUME IInv, NEW t \in Txns, Continue(t), DiskTypeOK',
           Owner # None, t.owner = Owner, t.pc # "free",
           t.pc \in SavePcs => stage[Owner] = "saving",
           t.pc \in EndPcs \cup {"undo"} => t.why # "none",
           t.pc \in {"backup", "ready", "mutate"} => t.cur \in Accounts
    PROVE  TypeOK' /\ ControlOK' /\ RequestsOK'
BY DEF IInv, TypeOK, ControlOK, RequestsOK, RequestOK, Continue, clients, Owner, Written, Exact

\* Outside the forward phase of a save nothing is claimed of the journal.
LEMMA QuietOK ==
    ASSUME IInv, NEW t \in Txns, Continue(t), DiskTypeOK',
           Owner # None, t.owner = Owner, t.pc \notin ForwardPcs \cup {"free"},
           t.pc \in SavePcs => stage[Owner] = "saving",
           t.pc \in EndPcs \cup {"undo"} => t.why # "none"
    PROVE  IInv'
<1>1. TypeOK' /\ ControlOK' /\ RequestsOK'
  BY ContinueOK DEF ForwardPcs
<1>2. txn' = t
  BY DEF Continue
<1>3. JournalOK' /\ CurrentOK' /\ LoopOK'
  BY <1>2 DEF JournalOK, CurrentOK, LoopOK, ForwardPcs
<1>4. QED BY <1>1, <1>3 DEF IInv

\* What a command saves next is a request like the one it replaces.
LEMMA FollowUpsOK ==
    ASSUME IInv, Owner \in Procs, stage[Owner] = "saving", NEW result, NEW rolledBack \in BOOLEAN,
           NEW next \in FollowUps(result, rolledBack), next # None
    PROVE  /\ next \in Requests
           /\ Written(next) \cap next.deletes = {}
           /\ Exact(next) => ~next.allow
<1>1. /\ Request \in Requests
      /\ Written(Request) \cap Request.deletes = {}
      /\ Exact(Request) => ~Request.allow
  BY DEF IInv, TypeOK, ControlOK, RequestsOK, RequestOK, Request, Maybe
<1> DEFINE inlined == [Request EXCEPT !.stores = [a \in Accounts |-> None],
                          !.body.refs = @ \ Written(Request),
                          !.body.inline = [a \in Accounts |-> IF a \in Written(Request)
                                                              THEN Request.stores[a] ELSE @[a]]]
           permitted == [Request EXCEPT !.allow = TRUE]
<1>2. next = inlined \/ (Request.op = "login" /\ next = permitted)
  BY DEF FollowUps
<1>3. CASE next = inlined
  BY <1>1, <1>3 DEF Requests, Bodies, Written, Exact, Maybe
<1>4. CASE Request.op = "login" /\ next = permitted
  BY <1>1, <1>4 DEF Requests, Written, Exact, ExactOps
<1>5. QED BY <1>2, <1>3, <1>4

\* A locked section that ends leaves no transaction in memory.
LEMMA EndOK ==
    ASSUME IInv, NEW result \in {"ok", "err"}, NEW rolledBack \in BOOLEAN,
           Owner # None, End(result, rolledBack), DiskTypeOK'
    PROVE  IInv'
<1>1. Owner \in Procs
  BY DEF IInv, TypeOK, Txns, Owner, Maybe
<1>2. txn' = NoWork /\ NoWork \in Txns
  BY DEF End, NoWork, Txns, Pcs, Maybe, EmptyJournal, KeyringTransactionJournal, Marks
<1>3. TypeOK' /\ ControlOK' /\ RequestsOK'
  <2>1. CASE stage[Owner] = "recovering"
    BY <1>1, <1>2, <2>1 DEF IInv, TypeOK, ControlOK, RequestsOK, RequestOK, End, Stages, NoWork, Owner,
                           SavePcs, ForwardPcs, EndPcs, Written, Exact
  <2>2. CASE stage[Owner] # "recovering"
    <3>1. stage[Owner] = "saving"
      BY <2>2 DEF IInv, ControlOK
    <3>2. PICK next \in FollowUps(result, rolledBack) :
              /\ stage' = [stage EXCEPT ![Owner] = IF next = None THEN "idle" ELSE "save"]
              /\ req' = [req EXCEPT ![Owner] = next]
              /\ outcome' = [outcome EXCEPT ![Owner] = result]
              /\ UNCHANGED view
      BY <2>2 DEF End
    <3>3. next # None => /\ next \in Requests
                         /\ Written(next) \cap next.deletes = {}
                         /\ Exact(next) => ~next.allow
      BY <1>1, <3>1, FollowUpsOK
    <3>4. TypeOK'
      BY <1>1, <1>2, <3>2, <3>3 DEF IInv, TypeOK, Stages, Maybe
    <3>5. ControlOK'
      BY <1>1, <1>2, <3>2 DEF IInv, TypeOK, ControlOK, Stages, NoWork, Owner, SavePcs, ForwardPcs, EndPcs
    <3>6. RequestsOK'
      BY <1>1, <3>2, <3>3 DEF IInv, TypeOK, RequestsOK, RequestOK, Written, Exact
    <3>7. QED BY <3>4, <3>5, <3>6
  <2>3. QED BY <2>1, <2>2
<1>4. JournalOK' /\ CurrentOK' /\ LoopOK'
  BY <1>2 DEF JournalOK, CurrentOK, LoopOK, ForwardPcs, NoWork
<1>5. QED BY <1>3, <1>4 DEF IInv

\* A save that backs out claims nothing of its journal any more.
LEMMA BackoutOK ==
    ASSUME IInv, NEW t \in Txns, Backout(t), DiskTypeOK', Owner # None, t.owner = Owner,
           stage[Owner] = "saving"
    PROVE  IInv'
<1> DEFINE u == Rollback(t)
           v == [t EXCEPT !.pc = "undo", !.why = IF t.loop = "store" THEN "rollback" ELSE "abort"]
<1>1. u \in Txns /\ u.owner = Owner /\ u.pc = "restore" /\ u.why = "rollback"
  BY DEF Rollback, Txns, Pcs, Recorded
<1>2. v \in Txns /\ v.owner = Owner /\ v.pc = "undo" /\ v.why # "none"
  BY DEF Txns, Pcs
<1>3. Continue(u) \/ Continue(v)
  BY DEF Backout
<1>4. QED
  BY <1>1, <1>2, <1>3, QuietOK DEF ForwardPcs, EndPcs

\* A failing call of the lock holder: a save backs out, anything else returns.
LEMMA FailOK ==
    ASSUME IInv, NEW t \in Txns, Fail(t), DiskTypeOK', Owner # None, t.owner = Owner,
           t.why = "none" => stage[Owner] = "saving"
    PROVE  IInv'
BY BackoutOK, EndOK DEF Fail, Leave

\* A save begins: there is no journal, on disk or in memory.
LEMMA BeginOK ==
    ASSUME IInv, Owner # None, Begin(txn), DiskTypeOK', journal' = None
    PROVE  IInv'
<1>1. CASE stage[Owner] = "recovering"
  BY <1>1, EndOK DEF Begin, Leave
<1>2. CASE stage[Owner] # "recovering"
  <2>1. /\ stage[Owner] = "saving"
        /\ Request \in Requests
        /\ Written(Request) \subseteq Accounts
    BY <1>2 DEF IInv, TypeOK, ControlOK, Request, Maybe, Written, Txns, Owner
  <2> DEFINE loop == IF Exact(Request) THEN "store" ELSE "delete"
             t == [txn EXCEPT !.why = "none", !.journal = EmptyJournal, !.pc = loop, !.loop = loop,
                              !.todo = IF Exact(Request) THEN Written(Request) ELSE Request.deletes]
  <2>2. EmptyJournal \in KeyringTransactionJournal
    BY DEF EmptyJournal, KeyringTransactionJournal, Marks, Maybe
  <2>3. t \in Txns /\ t.owner = Owner /\ t.pc \in {"store", "delete"}
    BY <2>1, <2>2 DEF IInv, TypeOK, Txns, Pcs, Requests, Owner
  <2>4. Continue(t)
    BY <1>2 DEF Begin
  <2>5. TypeOK' /\ ControlOK' /\ RequestsOK'
    BY <2>1, <2>3, <2>4, ContinueOK DEF EndPcs
  <2>6. txn' = t /\ Request' = Request
    BY <2>4 DEF Continue, clients, Request, Owner, IInv, TypeOK, Txns
  <2>7. Recorded(EmptyJournal) = {} /\ EmptyJournal.target = None /\ ~EmptyJournal.restored
    BY DEF EmptyJournal, Recorded
  <2>8. /\ txn'.pc = loop /\ txn'.loop = loop /\ txn'.why = "none"
        /\ txn'.journal = EmptyJournal
        /\ txn'.todo = IF Exact(Request) THEN Written(Request) ELSE Request.deletes
    BY <2>6 DEF IInv, TypeOK, Txns
  <2>9. JournalOK'
    BY <2>7, <2>8 DEF JournalOK, Recorded
  <2>10. CurrentOK'
    BY <2>8 DEF CurrentOK
  <2>11. LoopOK'
    BY <2>6, <2>7, <2>8 DEF LoopOK, ForwardPcs, Recorded, Exact, Written
  <2>12. QED BY <2>5, <2>9, <2>10, <2>11 DEF IInv
<1>3. QED BY <1>1, <1>2

---------------------------------------------------------------------------
(* The steps of recovery and of a rollback *)

\* Whoever is at a call holds the lock; outside a save's own calls nothing is
\* claimed of the request.
LEMMA HolderOK ==
    ASSUME IInv, txn.pc # "free"
    PROVE  Owner # None /\ Owner \in Procs /\ txn \in Txns /\ txn.owner = Owner
BY DEF IInv, TypeOK, ControlOK, Owner, Txns, Maybe

\* Of the transactions at a save's own calls, all are saves.
LEMMA SavingOK ==
    ASSUME IInv, txn.pc \in SavePcs
    PROVE  stage[Owner] = "saving" /\ Request \in Requests /\ req[Owner] # None
BY HolderOK DEF IInv, TypeOK, ControlOK, Request, Maybe, SavePcs, ForwardPcs

LEMMA RestoreDoneOK == ASSUME IInv, RestoreDone PROVE IInv'
<1>1. Owner # None /\ txn \in Txns /\ DiskTypeOK' /\ txn.why # "none"
  BY HolderOK DEF IInv, TypeOK, ControlOK, RestoreDone, DiskTypeOK, disk, EndPcs
<1>2. [txn EXCEPT !.pc = "mark"] \in Txns
  BY <1>1 DEF Txns, Pcs
<1>3. QED BY <1>1, <1>2, QuietOK DEF RestoreDone, Txns, SavePcs, ForwardPcs, Owner

LEMMA CleanDoneOK == ASSUME IInv, CleanDone PROVE IInv'
<1>1. Owner # None /\ txn \in Txns /\ DiskTypeOK' /\ txn.why # "none"
  BY HolderOK DEF IInv, TypeOK, ControlOK, CleanDone, DiskTypeOK, disk, EndPcs
<1>2. [txn EXCEPT !.pc = "unlink"] \in Txns
  BY <1>1 DEF Txns, Pcs
<1>3. QED BY <1>1, <1>2, QuietOK DEF CleanDone, Txns, SavePcs, ForwardPcs, Owner

\* A keyring call, of recovery or of a clean-up, that fails.
LEMMA KeyringFailsOK ==
    ASSUME IInv, txn.pc \in EndPcs \cup SavePcs, KeyringFails
    PROVE  IInv'
<1>1. /\ Owner # None /\ txn \in Txns /\ DiskTypeOK' /\ txn.owner = Owner
      /\ txn.why = "none" => stage[Owner] = "saving"
  BY HolderOK DEF IInv, TypeOK, ControlOK, KeyringFails, DiskTypeOK, disk, EndPcs, SavePcs, ForwardPcs
<1>2. QED BY <1>1, FailOK DEF KeyringFails

LEMMA RestoreChangeOK ==
    ASSUME IInv, NEW a \in Accounts, RestoreChange(a)
    PROVE  IInv'
<1> DEFINE done == [txn EXCEPT !.todo = @ \ {a}]
<1>1. /\ Owner # None /\ txn \in Txns /\ txn.owner = Owner
      /\ txn.pc = "restore" /\ txn.why # "none"
  BY HolderOK DEF IInv, TypeOK, ControlOK, RestoreChange, EndPcs
<1>2. done \in Txns /\ done.owner = Owner /\ done.pc = "restore" /\ done.why # "none"
  BY <1>1 DEF Txns
<1>3. Resolve(Owner, backup, a) \in Maybe(Secrets)
  BY DEF Resolve, IInv, TypeOK, DiskTypeOK, Maybe
<1>4. CASE KeyringFails
  BY <1>1, <1>4, KeyringFailsOK DEF EndPcs
<1>5. CASE Leave("err") /\ UNCHANGED disk
  BY <1>1, <1>5, EndOK DEF Leave, IInv, TypeOK, DiskTypeOK, disk
<1>6. CASE Continue(done) /\ DiskTypeOK'
  BY <1>1, <1>2, <1>6, QuietOK DEF ForwardPcs, SavePcs
<1>7. KeyringFails \/ (Leave("err") /\ UNCHANGED disk) \/ (Continue(done) /\ DiskTypeOK')
  BY <1>1, <1>3 DEF RestoreChange, Without, IInv, TypeOK, DiskTypeOK, disk, Maybe
<1>8. QED BY <1>4, <1>5, <1>6, <1>7

LEMMA CleanBackupOK ==
    ASSUME IInv, NEW a \in Accounts, CleanBackup(a)
    PROVE  IInv'
<1> DEFINE done == [txn EXCEPT !.todo = @ \ {a}]
<1>1. /\ Owner # None /\ txn \in Txns /\ txn.owner = Owner
      /\ txn.pc = "clean" /\ txn.why # "none"
  BY HolderOK DEF IInv, TypeOK, ControlOK, CleanBackup, EndPcs
<1>2. done \in Txns /\ done.owner = Owner /\ done.pc = "clean" /\ done.why # "none"
  BY <1>1 DEF Txns
<1>3. CASE KeyringFails
  BY <1>1, <1>3, KeyringFailsOK DEF EndPcs
<1>4. CASE Continue(done) /\ DiskTypeOK'
  BY <1>1, <1>2, <1>4, QuietOK DEF ForwardPcs, SavePcs
<1>5. KeyringFails \/ (Continue(done) /\ DiskTypeOK')
  BY DEF CleanBackup, Without, IInv, TypeOK, DiskTypeOK, Maybe
<1>6. QED BY <1>3, <1>4, <1>5

LEMMA MarkRestoredOK == ASSUME IInv, MarkRestored PROVE IInv'
<1> DEFINE t == [txn EXCEPT !.pc = "clean", !.journal.restored = TRUE,
                            !.todo = BackedUp(txn.journal)]
           u == [t EXCEPT !.pc = txn.pc]
<1>1. /\ Owner # None /\ txn \in Txns /\ txn.owner = Owner
      /\ txn.pc = "mark" /\ txn.why # "none"
  BY HolderOK DEF IInv, TypeOK, ControlOK, MarkRestored, EndPcs
<1>2. /\ t \in Txns /\ t.owner = Owner /\ t.pc = "clean" /\ t.why # "none"
      /\ u \in Txns /\ u.owner = Owner /\ u.why # "none"
      /\ t.journal \in KeyringTransactionJournal
  BY <1>1 DEF Txns, Pcs, KeyringTransactionJournal, BackedUp
<1>3. DiskTypeOK'
  BY <1>2 DEF MarkRestored, Persist, IInv, TypeOK, DiskTypeOK, Maybe
<1>4. Continue(t) \/ Fail(u)
  BY DEF MarkRestored, Persist
<1>5. CASE Continue(t)
  BY <1>1, <1>2, <1>3, <1>5, QuietOK DEF ForwardPcs, SavePcs
<1>6. CASE Fail(u)
  BY <1>1, <1>2, <1>3, <1>6, FailOK
<1>7. QED BY <1>4, <1>5, <1>6

LEMMA RemoveJournalOK == ASSUME IInv, RemoveJournal PROVE IInv'
<1>1. Owner # None
  BY HolderOK DEF RemoveJournal
<1>2. DiskTypeOK'
  BY DEF RemoveJournal, IInv, TypeOK, DiskTypeOK, Maybe
<1>3. \/ Begin(txn) /\ journal' = None
      \/ End("ok", FALSE)
      \/ End("err", txn.why = "rollback")
      \/ End("err", FALSE)
  BY DEF RemoveJournal, Leave
<1>4. QED BY <1>1, <1>2, <1>3, BeginOK, EndOK

LEMMA RecoverOK == ASSUME IInv, Recover PROVE IInv'
<1> DEFINE t == [txn EXCEPT !.why = "recovery", !.journal = journal]
           u == [t EXCEPT !.pc = "clean", !.todo = BackedUp(journal)]
           v == [t EXCEPT !.pc = "restore", !.todo = Recorded(journal)]
<1>1. Owner # None /\ txn \in Txns /\ txn.owner = Owner
  BY HolderOK DEF Recover
<1>2. DiskTypeOK'
  BY DEF Recover, IInv, TypeOK, DiskTypeOK, disk
<1>3. CASE journal = None /\ Begin(txn)
  BY <1>1, <1>2, <1>3, BeginOK DEF Recover, disk
<1>4. CASE Leave("err")
  BY <1>1, <1>2, <1>4, EndOK DEF Leave
<1>5. CASE journal # None /\ (Continue(u) \/ Continue(v))
  <2>1. journal \in KeyringTransactionJournal
    BY <1>5 DEF IInv, TypeOK, DiskTypeOK, Maybe
  <2>2. /\ u \in Txns /\ u.owner = Owner /\ u.pc = "clean" /\ u.why # "none"
        /\ v \in Txns /\ v.owner = Owner /\ v.pc = "restore" /\ v.why # "none"
    BY <1>1, <2>1 DEF Txns, Pcs, BackedUp, Recorded
  <2>3. QED
    BY <1>1, <1>2, <1>5, <2>2, QuietOK DEF ForwardPcs, SavePcs
<1>6. QED BY <1>3, <1>4, <1>5 DEF Recover

---------------------------------------------------------------------------
(* The steps of a save that goes forward *)

\* What holds of the lock holder at any call of a save.
LEMMA ForwardOK ==
    ASSUME IInv, txn.pc \in ForwardPcs
    PROVE  /\ Owner # None /\ Owner \in Procs /\ txn \in Txns /\ txn.owner = Owner
           /\ stage[Owner] = "saving" /\ Request \in Requests
           /\ Written(Request) \cap Request.deletes = {}
           /\ Exact(Request) => ~Request.allow
           /\ txn.why = "none"
           /\ txn.journal \in KeyringTransactionJournal
           /\ txn.journal.target = None /\ ~txn.journal.restored
           /\ journal = IF Recorded(txn.journal) = {} THEN None ELSE txn.journal
<1>1. Owner # None /\ Owner \in Procs /\ txn \in Txns /\ txn.owner = Owner
  BY HolderOK DEF ForwardPcs
<1>2. stage[Owner] = "saving" /\ Request \in Requests /\ req[Owner] # None
  BY SavingOK DEF SavePcs
<1>3. QED
  BY <1>1, <1>2 DEF IInv, RequestsOK, RequestOK, JournalOK, Request, Txns

LEMMA StoreRefusedOK ==
    ASSUME IInv, txn.pc \in ForwardPcs, StoreRefused
    PROVE  IInv'
<1> DEFINE t == [txn EXCEPT !.refused = txn.why = "none"]
<1>1. t \in Txns /\ t.owner = Owner /\ Owner # None /\ stage[Owner] = "saving"
  BY ForwardOK DEF Txns
<1>2. DiskTypeOK' /\ Fail(t)
  BY DEF StoreRefused, IInv, TypeOK, DiskTypeOK, disk
<1>3. QED BY <1>1, <1>2, FailOK

\* record_change, up to its first journal write: the account is new to the
\* journal, and is described there as it is in the keyring.
LEMMA RecordChangeOK ==
    ASSUME IInv, txn.pc \in {"store", "delete"}, NEW a \in txn.todo,
           NEW previous \in Maybe(Secrets), RecordChange(a, previous),
           UNCHANGED <<profile, keyring, backup>>
    PROVE  IInv'
<1> DEFINE mark == IF previous = None THEN "absent" ELSE "pending"
           pc   == IF previous = None THEN "mutate" ELSE "backup"
           t    == [[txn EXCEPT !.cur = a, !.previous = previous] EXCEPT !.pc = pc, !.journal.changes[a] = mark]
           u    == [t EXCEPT !.pc = txn.pc]
<1>1. /\ Owner # None /\ txn \in Txns /\ txn.owner = Owner /\ stage[Owner] = "saving"
      /\ txn.why = "none" /\ txn.journal \in KeyringTransactionJournal
      /\ txn.journal.target = None /\ ~txn.journal.restored
      /\ a \in Accounts
  BY ForwardOK DEF ForwardPcs, Txns
<1>2. txn.journal.changes[a] = "unrecorded"
  BY <1>1 DEF IInv, LoopOK, ForwardPcs, Recorded
<1>3. /\ t \in Txns /\ t.owner = Owner /\ t.pc = pc /\ t.cur = a /\ t.previous = previous
      /\ t.why = "none" /\ t.loop = txn.loop /\ t.todo = txn.todo
      /\ t.journal \in KeyringTransactionJournal
      /\ t.journal.target = None /\ ~t.journal.restored
      /\ t.journal.changes = [txn.journal.changes EXCEPT ![a] = mark]
      /\ u \in Txns /\ u.owner = Owner /\ u.why = "none"
  <2>1. pc \in Pcs /\ mark \in Marks
    BY DEF Pcs, Marks
  <2> HIDE DEF pc, mark
  <2>2. t \in Txns /\ t.journal \in KeyringTransactionJournal
    BY <1>1, <2>1 DEF Txns, KeyringTransactionJournal, Maybe
  <2>3. u \in Txns /\ u.owner = Owner /\ u.why = "none"
    BY <1>1, <2>2 DEF Txns
  <2>4. QED
    BY <1>1, <2>2, <2>3 DEF Txns, KeyringTransactionJournal
<1>4. DiskTypeOK'
  BY <1>2, <1>3 DEF RecordChange, Persist, IInv, TypeOK, DiskTypeOK, Maybe
<1>5. (Continue(t) /\ journal' = t.journal) \/ Fail(u)
  BY <1>2 DEF RecordChange, Persist
<1>6. CASE Continue(t) /\ journal' = t.journal
  <2>1. txn' = t /\ Request' = Request
    BY <1>3, <1>6 DEF Continue, clients, Request, Owner
  <2>2. TypeOK' /\ ControlOK' /\ RequestsOK'
    <3>1. t.pc \in {"backup", "mutate"}
      BY <1>3
    <3> HIDE DEF t
    <3>2. QED BY <1>1, <1>3, <1>4, <1>6, <3>1, ContinueOK DEF EndPcs
  <2>3. Recorded(t.journal) = Recorded(txn.journal) \cup {a}
    BY <1>1, <1>2, <1>3 DEF Recorded, KeyringTransactionJournal
  <2>4. JournalOK'
    BY <1>3, <1>6, <2>1, <2>3 DEF JournalOK
  <2>5. CurrentOK'
    BY <1>1, <1>3, <2>1 DEF CurrentOK, KeyringTransactionJournal
  <2>6. LoopOK'
    <3>1. /\ txn.loop = txn.pc
          /\ txn.todo \cap Recorded(txn.journal) = {}
          /\ Exact(Request) /\ txn.loop = "store" => Recorded(txn.journal) \cup txn.todo \subseteq Written(Request)
          /\ ~Exact(Request) /\ txn.loop # "store" => Recorded(txn.journal) \cup txn.todo \subseteq Request.deletes
      BY DEF IInv, LoopOK, ForwardPcs
    <3>2. txn'.pc \in {"backup", "mutate"} /\ txn'.cur = a /\ txn'.loop = txn.loop /\ txn'.todo = txn.todo
      BY <1>3, <2>1
    <3>3. Exact(Request)' = Exact(Request) /\ Written(Request)' = Written(Request)
      BY <2>1 DEF Exact, Written
    <3>4. QED
      BY <2>1, <2>3, <3>1, <3>2, <3>3 DEF LoopOK, ForwardPcs
  <2>7. QED BY <2>2, <2>4, <2>5, <2>6 DEF IInv
<1>7. CASE Fail(u)
  BY <1>1, <1>3, <1>4, <1>7, FailOK
<1>8. QED BY <1>5, <1>6, <1>7

LEMMA StoreAccountOK ==
    ASSUME IInv, NEW a \in Accounts, StoreAccount(a)
    PROVE  IInv'
<1>1. Resolve(Owner, keyring, a) \in Maybe(Secrets)
  BY DEF Resolve, IInv, TypeOK, DiskTypeOK, Maybe
<1>2. CASE KeyringFails
  BY <1>2, KeyringFailsOK DEF StoreAccount, SavePcs, ForwardPcs
<1>3. CASE ~KeyringFails
  BY <1>1, <1>3, RecordChangeOK DEF StoreAccount
<1>4. QED BY <1>2, <1>3

\* A save that leaves its journal and its current account as they are, and goes
\* on in the same loop.
LEMMA SameLoopOK ==
    ASSUME IInv, txn.pc \in ForwardPcs, NEW t \in Txns, Continue(t), DiskTypeOK',
           t.owner = Owner, t.why = "none", t.loop = txn.loop, t.pc = t.loop,
           t.pc \in {"store", "delete"}, t.journal = txn.journal, journal' = journal,
           NEW a, t.todo = txn.todo \ {a}, txn.pc = "mutate" => a = txn.cur,
           txn.pc \in {"store", "delete", "mutate"}
    PROVE  IInv'
<1>1. /\ Owner # None /\ stage[Owner] = "saving" /\ txn.journal \in KeyringTransactionJournal
      /\ txn.journal.target = None /\ ~txn.journal.restored
      /\ journal = IF Recorded(txn.journal) = {} THEN None ELSE txn.journal
  BY ForwardOK
<1>2. txn' = t /\ Request' = Request
  BY <1>1 DEF Continue, clients, Request, Owner
<1>3. TypeOK' /\ ControlOK' /\ RequestsOK'
  BY <1>1, ContinueOK DEF EndPcs
<1>4. JournalOK'
  BY <1>1, <1>2 DEF JournalOK
<1>5. CurrentOK'
  BY <1>2 DEF CurrentOK
<1>6. LoopOK'
  <2>1. /\ txn.pc # "mutate" => txn.loop = txn.pc
        /\ t.todo \cap Recorded(txn.journal) = {}
        /\ Exact(Request) /\ txn.loop = "store" => Recorded(txn.journal) \cup t.todo \subseteq Written(Request)
        /\ ~Exact(Request) /\ txn.loop # "store" => Recorded(txn.journal) \cup t.todo \subseteq Request.deletes
    BY DEF IInv, LoopOK, ForwardPcs
  <2>2. Exact(Request)' = Exact(Request) /\ Written(Request)' = Written(Request)
    BY <1>2 DEF Exact, Written
  <2>3. QED
    BY <1>2, <2>1, <2>2 DEF LoopOK, ForwardPcs
<1>7. QED BY <1>3, <1>4, <1>5, <1>6 DEF IInv

LEMMA DeleteAccountOK ==
    ASSUME IInv, NEW a \in Accounts, DeleteAccount(a)
    PROVE  IInv'
<1>1. Resolve(Owner, keyring, a) \in Maybe(Secrets)
  BY DEF Resolve, IInv, TypeOK, DiskTypeOK, Maybe
<1>2. txn.pc = "delete" /\ a \in txn.todo
  BY DEF DeleteAccount
<1>3. CASE KeyringFails
  BY <1>2, <1>3, KeyringFailsOK DEF SavePcs, ForwardPcs
<1>4. CASE RecordChange(a, Resolve(Owner, keyring, a)) /\ UNCHANGED <<profile, keyring, backup>>
  BY <1>1, <1>2, <1>4, RecordChangeOK
<1>5. CASE Continue([txn EXCEPT !.todo = @ \ {a}]) /\ UNCHANGED disk
  <2> DEFINE t == [txn EXCEPT !.todo = @ \ {a}]
  <2>1. txn \in Txns /\ txn.owner = Owner /\ txn.why = "none" /\ txn.loop = "delete"
    BY <1>2, ForwardOK DEF ForwardPcs, IInv, LoopOK
  <2>2. t \in Txns /\ t.owner = Owner /\ t.why = "none" /\ t.loop = "delete" /\ t.pc = "delete"
        /\ t.journal = txn.journal /\ t.todo = txn.todo \ {a} /\ t.cur = txn.cur
    BY <1>2, <2>1 DEF Txns
  <2>3. DiskTypeOK' /\ journal' = journal
    BY <1>5 DEF IInv, TypeOK, DiskTypeOK, disk
  <2>4. QED
    BY <1>2, <1>5, <2>1, <2>2, <2>3, SameLoopOK DEF ForwardPcs
<1>6. QED BY <1>3, <1>4, <1>5 DEF DeleteAccount

\* A save that completes the record of its current account.
LEMMA SameAccountOK ==
    ASSUME IInv, txn.pc \in {"backup", "ready"}, NEW t \in Txns, Continue(t), DiskTypeOK',
           t.owner = Owner, t.why = "none", t.loop = txn.loop, t.pc \in {"ready", "mutate"},
           t.todo = txn.todo, t.cur = txn.cur,
           t.journal.target = None, ~t.journal.restored,
           Recorded(t.journal) = Recorded(txn.journal), Recorded(t.journal) # {},
           journal' = t.journal,
           CurrentOK'
    PROVE  IInv'
<1>1. Owner # None /\ stage[Owner] = "saving"
  BY ForwardOK DEF ForwardPcs
<1>2. txn' = t /\ Request' = Request
  BY <1>1 DEF Continue, clients, Request, Owner
<1>3. txn.cur \in Accounts
  BY DEF IInv, ControlOK
<1>4. TypeOK' /\ ControlOK' /\ RequestsOK'
  BY <1>1, <1>3, ContinueOK DEF EndPcs
<1>5. JournalOK'
  BY <1>2 DEF JournalOK
<1>6. LoopOK'
  <2>1. Exact(Request)' = Exact(Request) /\ Written(Request)' = Written(Request)
    BY <1>2 DEF Exact, Written
  <2>2. QED
    BY <1>2, <2>1 DEF IInv, LoopOK, ForwardPcs
<1>7. QED BY <1>4, <1>5, <1>6 DEF IInv

LEMMA StoreBackupOK == ASSUME IInv, StoreBackup PROVE IInv'
<1> DEFINE t == [txn EXCEPT !.pc = "ready"]
<1>1. /\ txn \in Txns /\ txn.owner = Owner /\ txn.pc = "backup" /\ txn.why = "none"
      /\ txn.cur \in Accounts /\ txn.previous # None /\ txn.journal.changes[txn.cur] = "pending"
      /\ txn.journal.target = None /\ ~txn.journal.restored
      /\ journal = IF Recorded(txn.journal) = {} THEN None ELSE txn.journal
  BY ForwardOK DEF StoreBackup, ForwardPcs, IInv, ControlOK, CurrentOK
<1>2. CASE StoreRefused
  BY <1>1, <1>2, StoreRefusedOK DEF ForwardPcs
<1>3. CASE /\ backup' = [backup EXCEPT ![txn.cur] = txn.previous]
           /\ Continue(t)
           /\ UNCHANGED <<profile, journal, keyring>>
  <2>1. /\ t \in Txns /\ t.owner = Owner /\ t.why = "none" /\ t.loop = txn.loop /\ t.pc = "ready"
        /\ t.todo = txn.todo /\ t.cur = txn.cur /\ t.previous = txn.previous /\ t.journal = txn.journal
    BY <1>1 DEF Txns, Pcs
  <2>2. DiskTypeOK'
    BY <1>1, <1>3 DEF IInv, TypeOK, DiskTypeOK, Txns
  <2>3. txn.cur \in Recorded(txn.journal)
    BY <1>1 DEF Recorded
  <2>4. CurrentOK'
    <3>1. backup'[txn.cur] = txn.previous
      BY <1>1, <1>3 DEF IInv, TypeOK, DiskTypeOK
    <3>2. txn' = t
      BY <1>3 DEF Continue
    <3>3. QED BY <1>1, <2>1, <3>1, <3>2 DEF CurrentOK
  <2>5. journal' = t.journal
    BY <1>1, <1>3, <2>1, <2>3
  <2> HIDE DEF t
  <2>6. QED
    BY <1>1, <1>3, <2>1, <2>2, <2>3, <2>4, <2>5, SameAccountOK
<1>4. QED BY <1>2, <1>3 DEF StoreBackup

LEMMA PersistReadyOK == ASSUME IInv, PersistReady PROVE IInv'
<1> DEFINE t == [txn EXCEPT !.pc = "mutate", !.journal.changes[txn.cur] = "ready"]
           u == [t EXCEPT !.pc = txn.pc]
<1>1. /\ txn \in Txns /\ txn.owner = Owner /\ Owner # None /\ stage[Owner] = "saving"
      /\ txn.pc = "ready" /\ txn.why = "none"
      /\ txn.cur \in Accounts /\ txn.previous # None /\ txn.journal.changes[txn.cur] = "pending"
      /\ backup[txn.cur] = txn.previous
      /\ txn.journal \in KeyringTransactionJournal
      /\ txn.journal.target = None /\ ~txn.journal.restored
  BY ForwardOK DEF PersistReady, ForwardPcs, IInv, ControlOK, CurrentOK
<1>2. /\ t \in Txns /\ t.owner = Owner /\ t.why = "none" /\ t.loop = txn.loop /\ t.pc = "mutate"
      /\ t.todo = txn.todo /\ t.cur = txn.cur /\ t.previous = txn.previous
      /\ t.journal \in KeyringTransactionJournal
      /\ t.journal.target = None /\ ~t.journal.restored
      /\ t.journal.changes = [txn.journal.changes EXCEPT ![txn.cur] = "ready"]
  BY <1>1 DEF Txns, Pcs, KeyringTransactionJournal, Marks
<1>3. u \in Txns /\ u.owner = Owner
  BY <1>1, <1>2 DEF Txns
<1>4. DiskTypeOK'
  BY <1>2 DEF PersistReady, Persist, IInv, TypeOK, DiskTypeOK, Maybe
<1>5. (Continue(t) /\ journal' = t.journal) \/ Fail(u)
  BY DEF PersistReady, Persist
<1>6. CASE Continue(t) /\ journal' = t.journal
  <2>1. Recorded(t.journal) = Recorded(txn.journal) /\ Recorded(t.journal) # {}
    BY <1>1, <1>2 DEF Recorded, KeyringTransactionJournal
  <2>2. CurrentOK'
    <3>1. t.journal.changes[txn.cur] = "ready"
      BY <1>1, <1>2 DEF KeyringTransactionJournal
    <3>2. txn' = t /\ backup' = backup
      BY <1>6 DEF Continue, PersistReady
    <3> HIDE DEF t
    <3>3. QED BY <1>1, <1>2, <3>1, <3>2 DEF CurrentOK
  <2> HIDE DEF t
  <2>3. QED
    BY <1>1, <1>2, <1>4, <1>6, <2>1, <2>2, SameAccountOK
<1>7. CASE Fail(u)
  BY <1>1, <1>3, <1>4, <1>7, FailOK
<1>8. QED BY <1>5, <1>6, <1>7

LEMMA DeleteKeyringSecretOK == ASSUME IInv, DeleteKeyringSecret PROVE IInv'
<1> DEFINE t == [txn EXCEPT !.pc = "delete", !.todo = @ \ {txn.cur}]
<1>1. /\ txn \in Txns /\ txn.owner = Owner /\ txn.pc = "mutate" /\ txn.why = "none"
      /\ txn.loop = "delete"
  BY ForwardOK DEF DeleteKeyringSecret, ForwardPcs
<1>2. CASE KeyringFails
  BY <1>1, <1>2, KeyringFailsOK DEF SavePcs, ForwardPcs
<1>3. CASE Continue(t) /\ DiskTypeOK' /\ journal' = journal
  <2>1. /\ t \in Txns /\ t.owner = Owner /\ t.why = "none" /\ t.loop = "delete" /\ t.pc = "delete"
        /\ t.journal = txn.journal /\ t.todo = txn.todo \ {txn.cur}
    BY <1>1 DEF Txns, Pcs
  <2> HIDE DEF t
  <2>2. QED BY <1>1, <1>3, <2>1, SameLoopOK DEF ForwardPcs
<1>4. KeyringFails \/ (Continue(t) /\ DiskTypeOK' /\ journal' = journal)
  BY DEF DeleteKeyringSecret, Without, IInv, TypeOK, DiskTypeOK, Maybe
<1>5. QED BY <1>2, <1>3, <1>4

LEMMA StoreKeyringSecretOK == ASSUME IInv, StoreKeyringSecret PROVE IInv'
<1> DEFINE a     == txn.cur
           value == Request.stores[a]
           done  == [txn EXCEPT !.pc = "store", !.todo = @ \ {a}]
           kept  == IF Exact(Request) THEN txn.kept ELSE txn.kept \cup {<<a, txn.previous>>}
           t     == [done EXCEPT !.kept = kept]
           r     == [Request EXCEPT !.stores[a] = None, !.body.refs = @ \ {a}, !.body.inline[a] = value]
<1>1. /\ txn \in Txns /\ txn.owner = Owner /\ Owner # None /\ Owner \in Procs
      /\ stage[Owner] = "saving" /\ txn.pc = "mutate" /\ txn.why = "none"
      /\ txn.loop = "store" /\ a \in Accounts /\ Request \in Requests
      /\ value \in Maybe(Secrets) /\ txn.previous \in Maybe(Secrets)
      /\ Written(Request) \cap Request.deletes = {}
      /\ Exact(Request) => ~Request.allow
  BY ForwardOK DEF StoreKeyringSecret, ForwardPcs, IInv, ControlOK, Requests, Txns
<1>2. /\ done \in Txns /\ done.owner = Owner /\ done.why = "none" /\ done.loop = "store"
      /\ done.pc = "store" /\ done.journal = txn.journal /\ done.todo = txn.todo \ {a}
  BY <1>1 DEF Txns, Pcs
<1>3. CASE StoreRefused
  BY <1>1, <1>3, StoreRefusedOK DEF ForwardPcs
<1>4. CASE /\ keyring' = [keyring EXCEPT ![a] = value]
           /\ Continue(t)
           /\ UNCHANGED <<profile, journal, backup>>
  <2>1. /\ t \in Txns /\ t.owner = Owner /\ t.why = "none" /\ t.loop = "store"
        /\ t.pc = "store" /\ t.journal = txn.journal /\ t.todo = txn.todo \ {a}
    <3>1. kept \in SUBSET (Accounts \X Maybe(Secrets))
      BY <1>1 DEF Txns
    <3> HIDE DEF kept
    <3>2. QED BY <1>1, <1>2, <3>1 DEF Txns
  <2>2. DiskTypeOK'
    BY <1>1, <1>4 DEF IInv, TypeOK, DiskTypeOK
  <2> HIDE DEF t
  <2>3. QED BY <1>1, <1>4, <2>1, <2>2, SameLoopOK DEF ForwardPcs
<1>5. CASE /\ Request.allow
           /\ txn' = done
           /\ req' = [req EXCEPT ![Owner] = r]
           /\ UNCHANGED <<disk, stage, view, outcome>>
  <2>1. ~Exact(Request)
    BY <1>1, <1>5
  <2>2. /\ r \in Requests /\ r.op = Request.op /\ r.deletes = Request.deletes
        /\ Written(r) \subseteq Written(Request)
    BY <1>1 DEF Requests, Bodies, Written, Maybe
  <2>3. r # None /\ ~Exact(r) /\ Written(r) \cap r.deletes = {}
    <3> HIDE DEF r
    <3>1. QED BY <1>1, <2>1, <2>2, NoneIsNoRecord DEF Exact
  <2> HIDE DEF r, done
  <2>4. txn' = done /\ Owner' = Owner /\ Request' = r
    BY <1>1, <1>2, <1>5 DEF Owner, Request, IInv, TypeOK
  <2>5. TypeOK'
    BY <1>1, <1>2, <1>5, <2>2 DEF IInv, TypeOK, DiskTypeOK, disk, Maybe
  <2>6. ControlOK' /\ RequestsOK'
    BY <1>1, <1>2, <1>5, <2>3, <2>4 DEF IInv, TypeOK, ControlOK, RequestsOK, RequestOK, SavePcs, ForwardPcs, EndPcs,
        Written, Exact, Owner
  <2>7. JournalOK' /\ CurrentOK'
    BY <1>1, <1>2, <1>5, <2>4 DEF IInv, JournalOK, CurrentOK, ForwardPcs, disk
  <2>8. LoopOK'
    <3>1. ~Exact(Request)'
      BY <2>3, <2>4 DEF Exact
    <3>2. (txn.todo \ {a}) \cap Recorded(txn.journal) = {}
      BY <1>1 DEF IInv, LoopOK, ForwardPcs
    <3>3. QED
      BY <1>2, <2>4, <3>1, <3>2 DEF LoopOK, ForwardPcs
  <2>9. QED BY <2>5, <2>6, <2>7, <2>8 DEF IInv
<1>6. QED BY <1>3, <1>4, <1>5 DEF StoreKeyringSecret, Request

\* A save that moves on between its loops and checks, with the journal as it is.
LEMMA NextLoopOK ==
    ASSUME IInv, txn.pc \in {"store", "delete", "conflict"}, NEW t \in Txns, Continue(t),
           UNCHANGED disk, t.owner = Owner, t.why = "none", t.journal = txn.journal,
           t.pc \in {"store", "delete", "conflict", "digest"},
           t.loop = IF t.pc \in {"store", "delete"} THEN t.pc ELSE "none",
           t.pc \in {"store", "delete"} => t.todo \cap Recorded(txn.journal) = {},
           Exact(Request) => t.pc # "store",
           ~Exact(Request) /\ t.pc \in {"delete", "conflict"} =>
               Recorded(txn.journal) \cup t.todo \subseteq Request.deletes
    PROVE  IInv'
<1>1. /\ Owner # None /\ stage[Owner] = "saving"
      /\ txn.journal.target = None /\ ~txn.journal.restored
      /\ journal = IF Recorded(txn.journal) = {} THEN None ELSE txn.journal
  BY ForwardOK DEF ForwardPcs
<1>2. txn' = t /\ Request' = Request /\ journal' = journal
  BY <1>1 DEF Continue, clients, Request, Owner, disk
<1>3. DiskTypeOK'
  BY DEF IInv, TypeOK, DiskTypeOK, disk
<1>4. TypeOK' /\ ControlOK' /\ RequestsOK'
  BY <1>1, <1>3, ContinueOK DEF EndPcs
<1>5. JournalOK' /\ CurrentOK'
  BY <1>1, <1>2 DEF JournalOK, CurrentOK
<1>6. LoopOK'
  <2>1. Exact(Request)' = Exact(Request) /\ Written(Request)' = Written(Request)
    BY <1>2 DEF Exact, Written
  <2>2. QED
    BY <1>2, <2>1 DEF LoopOK, ForwardPcs
<1>7. QED BY <1>4, <1>5, <1>6 DEF IInv

LEMMA LoopDoneOK == ASSUME IInv, LoopDone PROVE IInv'
<1>1. /\ txn \in Txns /\ txn.owner = Owner /\ txn.why = "none" /\ txn.todo = {}
      /\ txn.pc \in {"store", "delete"} /\ txn.loop = txn.pc /\ Request \in Requests
      /\ Written(Request) \cap Request.deletes = {}
      /\ UNCHANGED disk
  BY ForwardOK DEF LoopDone, ForwardPcs, IInv, LoopOK
<1>2. /\ Exact(Request) /\ txn.loop = "store" => Recorded(txn.journal) \subseteq Written(Request)
      /\ ~Exact(Request) /\ txn.loop = "delete" => Recorded(txn.journal) \subseteq Request.deletes
  BY <1>1 DEF IInv, LoopOK, ForwardPcs
<1>3. CASE Exact(Request) /\ txn.loop = "store"
  <2> DEFINE t == [txn EXCEPT !.pc = "delete", !.loop = "delete", !.todo = Request.deletes]
  <2>1. Continue(t)
    BY <1>3 DEF LoopDone
  <2>2. /\ t \in Txns /\ t.owner = Owner /\ t.why = "none" /\ t.journal = txn.journal
        /\ t.pc = "delete" /\ t.loop = "delete" /\ t.todo = Request.deletes
    BY <1>1 DEF Txns, Pcs, Requests
  <2> HIDE DEF t
  <2>3. QED BY <1>1, <1>2, <1>3, <2>1, <2>2, NextLoopOK
<1>4. CASE txn.loop = "delete"
  <2> DEFINE t == [txn EXCEPT !.pc = "conflict", !.loop = "none"]
  <2>1. Continue(t)
    BY <1>4 DEF LoopDone
  <2>2. /\ t \in Txns /\ t.owner = Owner /\ t.why = "none" /\ t.journal = txn.journal
        /\ t.pc = "conflict" /\ t.loop = "none" /\ t.todo = {}
    BY <1>1 DEF Txns, Pcs
  <2> HIDE DEF t
  <2>3. QED BY <1>1, <1>2, <1>4, <2>1, <2>2, NextLoopOK
<1>5. CASE ~Exact(Request) /\ txn.loop = "store"
  <2> DEFINE t == [txn EXCEPT !.pc = "digest", !.loop = "none"]
  <2>1. Continue(t)
    BY <1>5 DEF LoopDone
  <2>2. /\ t \in Txns /\ t.owner = Owner /\ t.why = "none" /\ t.journal = txn.journal
        /\ t.pc = "digest" /\ t.loop = "none"
    BY <1>1 DEF Txns, Pcs
  <2> HIDE DEF t
  <2>3. QED BY <1>1, <2>1, <2>2, NextLoopOK
<1>6. QED BY <1>1, <1>3, <1>4, <1>5

LEMMA CheckConflictOK == ASSUME IInv, CheckConflict PROVE IInv'
<1>1. /\ txn \in Txns /\ txn.owner = Owner /\ Owner # None /\ txn.why = "none"
      /\ txn.pc = "conflict" /\ txn.loop = "none" /\ Request \in Requests
      /\ Written(Request) \cap Request.deletes = {} /\ stage[Owner] = "saving"
      /\ UNCHANGED disk
  BY ForwardOK DEF CheckConflict, ForwardPcs, IInv, LoopOK
<1>2. DiskTypeOK'
  BY <1>1 DEF IInv, TypeOK, DiskTypeOK, disk
<1>3. CASE Exact(Request) /\ Continue([txn EXCEPT !.pc = "digest"])
  <2> DEFINE t == [txn EXCEPT !.pc = "digest"]
  <2>1. /\ t \in Txns /\ t.owner = Owner /\ t.why = "none" /\ t.journal = txn.journal
        /\ t.pc = "digest" /\ t.loop = "none"
    BY <1>1 DEF Txns, Pcs
  <2>2. Continue(t)
    BY <1>3
  <2> HIDE DEF t
  <2>3. QED BY <1>1, <1>3, <2>1, <2>2, NextLoopOK
<1>4. CASE ~Exact(Request) /\ Continue([txn EXCEPT !.pc = "store", !.loop = "store", !.todo = Written(Request)])
  <2> DEFINE t == [txn EXCEPT !.pc = "store", !.loop = "store", !.todo = Written(Request)]
  <2>1. Recorded(txn.journal) \subseteq Request.deletes
    BY <1>1, <1>4 DEF IInv, LoopOK, ForwardPcs
  <2>2. /\ t \in Txns /\ t.owner = Owner /\ t.why = "none" /\ t.journal = txn.journal
        /\ t.pc = "store" /\ t.loop = "store" /\ t.todo = Written(Request)
    BY <1>1 DEF Txns, Pcs, Written
  <2>3. Continue(t)
    BY <1>4
  <2> HIDE DEF t
  <2>4. QED BY <1>1, <1>4, <2>1, <2>2, <2>3, NextLoopOK
<1>5. CASE Exact(Request) /\ Backout(txn)
  BY <1>1, <1>2, <1>5, BackoutOK
<1>6. CASE Leave("err")
  BY <1>1, <1>2, <1>6, EndOK DEF Leave
<1>7. QED BY <1>3, <1>4, <1>5, <1>6 DEF CheckConflict

LEMMA SetTargetDigestOK == ASSUME IInv, SetTargetDigest PROVE IInv'
<1> DEFINE s == [txn EXCEPT !.pc = "write"]
           t == [txn EXCEPT !.pc = "write", !.journal.target = Request.body]
           u == [t EXCEPT !.pc = txn.pc]
<1>1. /\ txn \in Txns /\ txn.owner = Owner /\ Owner # None /\ txn.why = "none"
      /\ stage[Owner] = "saving" /\ Request \in Requests
      /\ txn.journal \in KeyringTransactionJournal
  BY ForwardOK DEF SetTargetDigest, ForwardPcs
<1>2. /\ s \in Txns /\ s.owner = Owner /\ s.pc = "write"
      /\ t \in Txns /\ t.owner = Owner /\ t.pc = "write" /\ t.journal \in KeyringTransactionJournal
      /\ u \in Txns /\ u.owner = Owner
  BY ZenonT(40), <1>1 DEF Txns, Pcs, KeyringTransactionJournal, Requests, Maybe
<1>3. DiskTypeOK'
  BY <1>2 DEF SetTargetDigest, Persist, IInv, TypeOK, DiskTypeOK, Maybe
<1>4. Continue(s) \/ Continue(t) \/ Fail(u) \/ Backout(txn)
  BY DEF SetTargetDigest, Persist
<1>5. CASE Continue(s) \/ Continue(t)
  BY <1>1, <1>2, <1>3, <1>5, QuietOK DEF ForwardPcs, SavePcs, EndPcs
<1>6. CASE Fail(u)
  BY <1>1, <1>2, <1>3, <1>6, FailOK
<1>7. CASE Backout(txn)
  BY <1>1, <1>3, <1>7, BackoutOK
<1>8. QED BY <1>4, <1>5, <1>6, <1>7

---------------------------------------------------------------------------
(* The rest of a save *)

LEMMA WriteProfileOK == ASSUME IInv, WriteProfile PROVE IInv'
<1> DEFINE t == [txn EXCEPT !.pc = "clean", !.why = "commit", !.todo = BackedUp(txn.journal)]
<1>1. txn.pc = "write" /\ (Continue(t) \/ Backout(txn))
  BY DEF WriteProfile
<1>2. /\ txn \in Txns /\ txn.owner = Owner /\ Owner # None
      /\ stage[Owner] = "saving" /\ Request \in Requests
  BY <1>1, HolderOK, SavingOK DEF SavePcs
<1>3. t \in Txns /\ t.owner = Owner /\ t.pc = "clean" /\ t.why = "commit"
  BY <1>2 DEF Txns, Pcs, BackedUp
<1>4. DiskTypeOK'
  BY <1>2 DEF WriteProfile, IInv, TypeOK, DiskTypeOK, Requests
<1> HIDE DEF t
<1>5. CASE Continue(t)
  BY <1>2, <1>3, <1>4, <1>5, QuietOK DEF ForwardPcs, SavePcs, EndPcs
<1>6. CASE Backout(txn)
  BY <1>2, <1>4, <1>6, BackoutOK
<1>7. QED BY <1>1, <1>5, <1>6

LEMMA UndoOK == ASSUME IInv, Undo PROVE IInv'
<1> DEFINE kept(change) == [txn EXCEPT !.kept = @ \ {change}]
           u == Rollback(txn)
           v == [txn EXCEPT !.pc = "clean", !.todo = BackedUp(txn.journal)]
<1>1. /\ txn \in Txns /\ txn.owner = Owner /\ Owner # None /\ txn.pc = "undo"
      /\ stage[Owner] = "saving"
  BY HolderOK, SavingOK DEF Undo, SavePcs
<1>2. CASE \E change \in txn.kept :
              /\ change[2] = None \/ Available(Owner)
              /\ keyring' = IF change[2] = None THEN Without(keyring, change[1])
                            ELSE [keyring EXCEPT ![change[1]] = change[2]]
              /\ Continue(kept(change))
              /\ UNCHANGED <<profile, journal, backup>>
  <2>1. PICK change \in txn.kept :
              /\ keyring' = IF change[2] = None THEN Without(keyring, change[1])
                            ELSE [keyring EXCEPT ![change[1]] = change[2]]
              /\ Continue(kept(change))
              /\ UNCHANGED <<profile, journal, backup>>
    BY <1>2
  <2>2. change[1] \in Accounts /\ change[2] \in Maybe(Secrets)
    BY <1>1 DEF Txns
  <2>3. DiskTypeOK'
    BY <2>1, <2>2 DEF IInv, TypeOK, DiskTypeOK, Without, Maybe
  <2>4. /\ kept(change) \in Txns /\ kept(change).owner = Owner /\ kept(change).pc = "undo"
        /\ kept(change).why # "none"
    BY <1>1 DEF Txns, IInv, ControlOK
  <2>5. QED BY <1>1, <2>1, <2>3, <2>4, QuietOK DEF ForwardPcs, EndPcs
<1>3. CASE UNCHANGED disk /\ (Continue(u) \/ Leave("err"))
  <2>1. DiskTypeOK'
    BY <1>3 DEF IInv, TypeOK, DiskTypeOK, disk
  <2>2. u \in Txns /\ u.owner = Owner /\ u.pc = "restore" /\ u.why = "rollback"
    BY <1>1 DEF Rollback, Txns, Pcs, Recorded
  <2>3. QED BY <1>1, <1>3, <2>1, <2>2, QuietOK, EndOK DEF Leave, ForwardPcs, SavePcs, EndPcs
<1>4. CASE UNCHANGED disk /\ Continue(v) /\ txn.why # "rollback"
  <2>1. DiskTypeOK'
    BY <1>4 DEF IInv, TypeOK, DiskTypeOK, disk
  <2>2. txn.why # "none"
    BY <1>1 DEF IInv, ControlOK, EndPcs
  <2>3. v \in Txns /\ v.owner = Owner /\ v.pc = "clean" /\ v.why # "none"
    BY <1>1, <2>2 DEF Txns, Pcs, BackedUp
  <2>4. QED BY <1>1, <1>4, <2>1, <2>3, QuietOK DEF ForwardPcs, SavePcs
<1>5. QED BY <1>2, <1>3, <1>4 DEF Undo

LEMMA HolderStepOK == ASSUME IInv, HolderStep PROVE IInv'
BY RecoverOK, RestoreDoneOK, MarkRestoredOK, CleanDoneOK, RemoveJournalOK, StoreBackupOK,
   PersistReadyOK, DeleteKeyringSecretOK, StoreKeyringSecretOK, LoopDoneOK, CheckConflictOK,
   SetTargetDigestOK, WriteProfileOK, UndoOK, RestoreChangeOK, CleanBackupOK, DeleteAccountOK,
   StoreAccountOK DEF HolderStep

---------------------------------------------------------------------------
(* The steps of the processes *)

\* A step of a process that does not hold the lock.
LEMMA ClientOK ==
    ASSUME IInv, NEW p \in Procs, stage[p] \notin {"recovering", "saving"},
           UNCHANGED disk, UNCHANGED txn,
           stage' \in [Procs -> Stages], view' \in [Procs -> Maybe(Views)],
           req' \in [Procs -> Maybe(Requests)],
           outcome' \in [Procs -> {"none", "ok", "err"}],
           \A q \in Procs \ {p} : stage'[q] = stage[q] /\ view'[q] = view[q] /\ req'[q] = req[q],
           stage'[p] \in {"save", "saving"} => req'[p] # None,
           stage'[p] \in {"resolve", "loaded"} => view'[p] # None,
           req'[p] # None => RequestOK(req'[p])
    PROVE  IInv'
<1>1. p # Owner \/ Owner = None
  BY DEF IInv, ControlOK
<1>2. Owner' = Owner /\ (Owner # None => Owner \in Procs /\ Request' = Request /\ stage'[Owner] = stage[Owner])
  BY <1>1 DEF Owner, Request, IInv, TypeOK, Txns, Maybe
<1>3. TypeOK'
  BY DEF IInv, TypeOK, DiskTypeOK, disk
<1>4. ControlOK'
  BY <1>2 DEF IInv, TypeOK, ControlOK, SavePcs, ForwardPcs, EndPcs, Owner
<1>5. RequestsOK'
  BY DEF IInv, TypeOK, RequestsOK, RequestOK, Written, Exact
<1>6. JournalOK' /\ CurrentOK'
  BY DEF IInv, JournalOK, CurrentOK, disk
<1>7. LoopOK'
  <2>1. CASE txn.pc \in ForwardPcs
    BY <1>2, <2>1, ForwardOK DEF IInv, LoopOK, Exact, Written
  <2>2. CASE txn.pc \notin ForwardPcs
    BY <2>2 DEF LoopOK, ForwardPcs
  <2>3. QED BY <2>1, <2>2
<1>8. QED BY <1>3, <1>4, <1>5, <1>6, <1>7 DEF IInv

\* A process starts over with nothing in memory but, possibly, its requests.
LEMMA LockOK == ASSUME IInv, NEW p \in Procs, Lock(p) PROVE IInv'
<1> DEFINE t == [NoWork EXCEPT !.owner = p, !.pc = "recover"]
           st == IF stage[p] = "recover" THEN "recovering" ELSE "saving"
<1>1. /\ t \in Txns /\ t.owner = p /\ t.pc = "recover"
  BY DEF NoWork, Txns, Pcs, Maybe, EmptyJournal, KeyringTransactionJournal, Marks
<1>2. txn' = t /\ stage' = [stage EXCEPT ![p] = st] /\ UNCHANGED <<disk, view, req, outcome>>
  BY DEF Lock, IInv, TypeOK
<1>3. stage[p] = "save" => req[p] # None
  BY DEF IInv, ControlOK
<1>4. st \in {"recovering", "saving"} /\ (st = "saving" => req[p] # None) /\ p # None
  BY <1>3, ConstantsOK DEF Lock
<1> HIDE DEF t, st
<1>5. TypeOK' /\ ControlOK' /\ RequestsOK'
  BY <1>1, <1>2, <1>4 DEF IInv, TypeOK, DiskTypeOK, ControlOK, RequestsOK, RequestOK, disk, Stages,
      SavePcs, ForwardPcs, EndPcs, Written, Exact, Owner
<1>6. JournalOK' /\ CurrentOK' /\ LoopOK'
  BY <1>1, <1>2 DEF JournalOK, CurrentOK, LoopOK, ForwardPcs
<1>7. QED BY <1>5, <1>6 DEF IInv

LEMMA CrashOK == ASSUME IInv, NEW p \in Procs, Crash(p) PROVE IInv'
<1>1. CASE Owner = p
  <2>1. txn' = NoWork /\ NoWork \in Txns
    BY <1>1 DEF Crash, NoWork, Txns, Pcs, Maybe, EmptyJournal, KeyringTransactionJournal, Marks
  <2>2. TypeOK' /\ ControlOK' /\ RequestsOK'
    BY <2>1 DEF Crash, IInv, TypeOK, DiskTypeOK, ControlOK, RequestsOK, RequestOK, disk, Stages, NoWork,
        SavePcs, ForwardPcs, EndPcs, Written, Exact, Owner, Maybe
  <2>3. JournalOK' /\ CurrentOK' /\ LoopOK'
    BY <2>1 DEF JournalOK, CurrentOK, LoopOK, ForwardPcs, NoWork
  <2>4. QED BY <2>2, <2>3 DEF IInv
<1>2. CASE Owner # p
  <2>1. TypeOK' /\ RequestsOK'
    BY <1>2 DEF Crash, IInv, TypeOK, DiskTypeOK, RequestsOK, RequestOK, disk, Stages, Written, Exact, Maybe
  <2>2. Owner' = Owner /\ (Owner # None => Request' = Request /\ stage'[Owner] = stage[Owner])
    BY <1>2 DEF Crash, Owner, Request, IInv, TypeOK, Txns, Maybe
  <2>3. ControlOK'
    BY <1>2, <2>2 DEF Crash, IInv, TypeOK, ControlOK, SavePcs, ForwardPcs, EndPcs, Owner
  <2>4. JournalOK' /\ CurrentOK'
    BY <1>2 DEF Crash, IInv, JournalOK, CurrentOK, disk
  <2>5. LoopOK'
    <3>1. CASE txn.pc \in ForwardPcs
      BY <1>2, <2>2, <3>1, ForwardOK DEF Crash, IInv, LoopOK, Exact, Written
    <3>2. CASE txn.pc \notin ForwardPcs
      BY <1>2, <3>2 DEF Crash, LoopOK, ForwardPcs
    <3>3. QED BY <3>1, <3>2
  <2>6. QED BY <2>1, <2>3, <2>4, <2>5 DEF IInv
<1>3. QED BY <1>1, <1>2

\* The saves a command can ask for.
LEMMA SavesOK ==
    ASSUME NEW v \in Views, NEW r \in Saves(v)
    PROVE  r \in Requests /\ RequestOK(r)
<1> USE DEF RequestOK, AllOps, ExactOps, BulkOps
<1>1. ASSUME NEW a \in Accounts, NEW s \in Secrets, r = SetRequest(v, a, s)
      PROVE  r \in Requests /\ Written(r) \cap r.deletes = {} /\ ~r.allow
  <2>1. r.body \in Bodies
    BY <1>1 DEF SetRequest, Views, Bodies, Maybe
  <2>2. r.stores \in [Accounts -> Maybe(Secrets)]
    BY <1>1 DEF SetRequest, NoStores, Maybe
  <2>3. QED
    BY <1>1, <2>1, <2>2 DEF SetRequest, Requests
<1>2. ASSUME NEW a \in Accounts, r = UnsetRequest(v, a)
      PROVE  r \in Requests /\ Written(r) \cap r.deletes = {} /\ ~r.allow
  <2>1. r.body \in Bodies
    BY <1>2 DEF UnsetRequest, Views, Bodies, Maybe
  <2>2. Written(r) = {} /\ r.stores \in [Accounts -> Maybe(Secrets)]
    BY <1>2 DEF UnsetRequest, NoStores, Maybe, Written
  <2>3. QED
    BY <1>2, <2>1, <2>2 DEF UnsetRequest, Requests
<1>3. ASSUME NEW op \in BulkOps, NEW settings \in Settings,
             NEW secrets \in [Accounts -> Maybe(Secrets)], NEW cleared \in SUBSET Accounts,
             NEW allow \in BOOLEAN, NEW deletes \in SUBSET Accounts,
             \A a \in deletes : secrets[a] = None,
             r = BulkRequest(op, v, settings, secrets, cleared, allow, deletes)
      PROVE  r \in Requests /\ Written(r) \cap r.deletes = {} /\ ~Exact(r)
  <2>1. r.body \in Bodies
    BY <1>3 DEF BulkRequest, Bodies, Views, NoStores, Maybe
  <2>2. QED
    BY <1>3, <2>1 DEF BulkRequest, Requests, Written, Exact
<1>4. /\ v.body.refs \subseteq Accounts /\ v.body.settings \in Settings
      /\ v.secrets \in [Accounts -> Maybe(Secrets)]
      /\ \A fields \in SUBSET Accounts :
            /\ Cleared(v, fields) \in [Accounts -> Maybe(Secrets)]
            /\ \A a \in fields : Cleared(v, fields)[a] = None
  BY DEF Views, Bodies, Cleared, Maybe
<1>5. ASSUME NEW settings \in Settings, NEW allow \in BOOLEAN, r = ResaveRequest(v, settings, allow)
      PROVE  r \in Requests /\ Written(r) \cap r.deletes = {} /\ ~Exact(r)
  <2>1. r = BulkRequest("resave", v, settings, v.secrets, {}, allow, {})
    BY <1>5 DEF ResaveRequest
  <2>2. r.body \in Bodies
    BY <1>4, <2>1 DEF BulkRequest, Bodies, Views, NoStores, Maybe
  <2>3. QED
    BY <1>4, <1>5, <2>1, <2>2 DEF BulkRequest, Requests, Written, Exact
<1>6. ASSUME NEW a \in Accounts, NEW s \in Secrets, NEW superseded \in SUBSET v.body.refs,
             NEW allow \in BOOLEAN, r = LoginRequest(v, a, s, superseded, allow)
      PROVE  r \in Requests /\ Written(r) \cap r.deletes = {} /\ ~Exact(r)
  <2> DEFINE secrets == [Cleared(v, superseded) EXCEPT ![a] = s]
  <2>1. /\ secrets \in [Accounts -> Maybe(Secrets)]
        /\ \A b \in superseded \ {a} : secrets[b] = None
    BY <1>4 DEF Maybe
  <2>2. r = BulkRequest("login", v, v.body.settings, secrets, superseded, allow, superseded \ {a})
    BY <1>6 DEF LoginRequest
  <2> HIDE DEF secrets
  <2>3. QED BY <1>3, <1>4, <2>1, <2>2
<1>7. ASSUME NEW fields \in SUBSET Accounts, r = LogoutRequest(v, fields)
      PROVE  r \in Requests /\ Written(r) \cap r.deletes = {} /\ ~Exact(r)
  <2>1. r = BulkRequest("logout", v, v.body.settings, Cleared(v, fields), fields, FALSE,
                        fields \cap v.body.refs)
    BY <1>7 DEF LogoutRequest
  <2>2. /\ fields \cap v.body.refs \in SUBSET Accounts
        /\ \A a \in fields \cap v.body.refs : Cleared(v, fields)[a] = None
    BY <1>4, <1>7
  <2>3. QED BY <1>3, <1>4, <1>7, <2>1, <2>2
<1>8. \/ \E a \in Accounts, s \in Secrets : r = SetRequest(v, a, s)
      \/ \E a \in Accounts : r = UnsetRequest(v, a)
      \/ \E settings \in Settings, allow \in BOOLEAN : r = ResaveRequest(v, settings, allow)
      \/ \E a \in Accounts, s \in Secrets, superseded \in SUBSET v.body.refs, allow \in BOOLEAN :
            r = LoginRequest(v, a, s, superseded, allow)
      \/ \E fields \in SUBSET Accounts : r = LogoutRequest(v, fields)
  BY DEF Saves
<1>9. QED BY <1>1, <1>2, <1>5, <1>6, <1>7, <1>8

LEMMA ProcessStepOK == ASSUME IInv, NEW p \in Procs, ProcessStep(p) PROVE IInv'
<1>1. /\ stage \in [Procs -> Stages] /\ view \in [Procs -> Maybe(Views)]
      /\ req \in [Procs -> Maybe(Requests)]
      /\ outcome \in [Procs -> {"none", "ok", "err"}]
      /\ None \in Maybe(Views)
      /\ req[p] # None => RequestOK(req[p])
  BY DEF IInv, TypeOK, RequestsOK, Maybe
<1>2. CASE StartLoad(p)
  BY <1>1, <1>2, ClientOK DEF StartLoad, Stages
<1>3. CASE Lock(p)
  BY <1>3, LockOK
<1>4. CASE RemoveTmp(p)
  BY <1>1, <1>4, ClientOK DEF RemoveTmp, Stages
<1>5. CASE ReadProfile(p)
  <2>1. PICK resolved \in BOOLEAN :
          view' = [view EXCEPT ![p] = [body |-> profile, resolved |-> resolved,
                                       unread |-> IF resolved THEN profile.refs ELSE {},
                                       secrets |-> profile.inline]]
    BY <1>5 DEF ReadProfile
  <2> DEFINE v == [body |-> profile, resolved |-> resolved,
                   unread |-> IF resolved THEN profile.refs ELSE {}, secrets |-> profile.inline]
  <2>2. v \in Views
    BY DEF Views, Bodies, IInv, TypeOK, DiskTypeOK
  <2>3. v \in Maybe(Views) /\ v # None
    BY <2>2, NoneIsNoRecord DEF Maybe
  <2>4. stage[p] = "read" /\ stage' = [stage EXCEPT ![p] = "resolve"] /\ UNCHANGED <<disk, txn, req, outcome>>
    BY <1>5 DEF ReadProfile
  <2> HIDE DEF v
  <2>5. view' = [view EXCEPT ![p] = v]
    BY <2>1 DEF v
  <2>6. /\ view' \in [Procs -> Maybe(Views)] /\ view'[p] # None
        /\ \A q \in Procs \ {p} : view'[q] = view[q]
    BY <1>1, <2>3, <2>5
  <2>7. /\ stage' \in [Procs -> Stages] /\ stage'[p] = "resolve"
        /\ \A q \in Procs \ {p} : stage'[q] = stage[q]
    BY <1>1, <2>4 DEF Stages
  <2>8. UNCHANGED disk /\ UNCHANGED txn /\ UNCHANGED req /\ UNCHANGED outcome
    BY <2>4
  <2>9. QED BY <1>1, <2>4, <2>6, <2>7, <2>8, ClientOK
<1>6. CASE Loaded(p)
  BY <1>1, <1>6, ClientOK DEF Loaded, IInv, ControlOK, Stages
<1>7. CASE Quit(p)
  BY <1>1, <1>7, ClientOK DEF Quit, Stages
<1>8. CASE Submit(p)
  <2>1. view[p] \in Views
    BY <1>8 DEF Submit, IInv, TypeOK, ControlOK, Maybe
  <2>2. PICK r \in Saves(view[p]) : req' = [req EXCEPT ![p] = r]
    BY <1>8 DEF Submit
  <2>3. r \in Maybe(Requests) /\ r # None /\ RequestOK(r)
    BY <2>1, SavesOK, NoneIsNoRecord DEF Maybe
  <2>4. /\ req' \in [Procs -> Maybe(Requests)] /\ req'[p] # None /\ RequestOK(req'[p])
        /\ \A q \in Procs \ {p} : req'[q] = req[q]
    BY <1>1, <2>2, <2>3
  <2>5. /\ stage[p] = "loaded" /\ stage' \in [Procs -> Stages] /\ stage'[p] = "save"
        /\ \A q \in Procs \ {p} : stage'[q] = stage[q]
    BY <1>1, <1>8 DEF Submit, Stages
  <2>6. /\ view' \in [Procs -> Maybe(Views)]
        /\ \A q \in Procs \ {p} : view'[q] = view[q]
    BY <1>1, <1>8 DEF Submit
  <2>7. UNCHANGED disk /\ UNCHANGED txn /\ UNCHANGED outcome
    BY <1>8 DEF Submit
  <2>8. QED BY <1>1, <2>4, <2>5, <2>6, <2>7, ClientOK
<1>9. CASE Crash(p)
  BY <1>9, CrashOK
<1>10. ASSUME NEW a \in Accounts, ResolveRef(p, a)
       PROVE  IInv'
  <2>0. PICK value \in Maybe(Secrets) :
          view' = [view EXCEPT ![p].unread = @ \ {a}, ![p].secrets[a] = value]
    BY <1>10 DEF ResolveRef, Resolve, IInv, TypeOK, DiskTypeOK, Maybe
  <2>1. view[p] \in Views
    BY <1>10 DEF ResolveRef, IInv, TypeOK, ControlOK, Maybe
  <2> DEFINE v == [view[p] EXCEPT !.unread = @ \ {a}, !.secrets[a] = value]
  <2>2. v \in Views
    BY <2>1 DEF Views
  <2>3. v \in Maybe(Views) /\ v # None
    BY <2>2, NoneIsNoRecord DEF Maybe
  <2>4. view' = [view EXCEPT ![p] = v]
    BY <1>1, <2>0
  <2> HIDE DEF v
  <2>5. /\ view' \in [Procs -> Maybe(Views)] /\ view'[p] # None
        /\ \A q \in Procs \ {p} : view'[q] = view[q]
    BY <1>1, <2>3, <2>4
  <2>6. /\ stage[p] = "resolve" /\ UNCHANGED disk /\ UNCHANGED txn
        /\ UNCHANGED stage /\ UNCHANGED req /\ UNCHANGED outcome
    BY <1>10 DEF ResolveRef
  <2>7. QED BY <1>1, <2>5, <2>6, ClientOK
<1>11. QED
  BY <1>2, <1>3, <1>4, <1>5, <1>6, <1>7, <1>8, <1>9, <1>10 DEF ProcessStep

---------------------------------------------------------------------------
(* The types and the write-ahead rule *)

LEMMA InitOK == Init => IInv
<1> SUFFICES ASSUME Init PROVE IInv
  OBVIOUS
<1>1. NoWork \in Txns
  BY DEF NoWork, Txns, Pcs, Maybe, EmptyJournal, KeyringTransactionJournal, Marks
<1>2. TypeOK
  BY <1>1 DEF Init, TypeOK, DiskTypeOK, Bodies, Stages, Maybe
<1>3. ControlOK /\ RequestsOK
  BY DEF Init, ControlOK, RequestsOK, NoWork, Owner, SavePcs, ForwardPcs, EndPcs
<1>4. JournalOK /\ CurrentOK /\ LoopOK
  BY DEF Init, JournalOK, CurrentOK, LoopOK, NoWork, ForwardPcs
<1>5. QED BY <1>2, <1>3, <1>4 DEF IInv

LEMMA StepOK == IInv /\ [Next]_vars => IInv'
<1> SUFFICES ASSUME IInv, [Next]_vars PROVE IInv'
  OBVIOUS
<1>1. CASE HolderStep
  BY <1>1, HolderStepOK
<1>2. ASSUME NEW p \in Procs, ProcessStep(p) PROVE IInv'
  BY <1>2, ProcessStepOK
<1>3. CASE UNCHANGED vars
  BY <1>3 DEF vars, IInv, TypeOK, DiskTypeOK, ControlOK, RequestsOK, RequestOK, JournalOK, CurrentOK, LoopOK,
      Owner, Request, Written, Exact
<1>4. QED BY <1>1, <1>2, <1>3 DEF Next

\* Every state the program reaches is of the type the model gives it, for any
\* number of processes, accounts and secrets, and whatever fails.
THEOREM TypeCorrect == Spec => []TypeOK
<1>1. IInv => TypeOK
  BY DEF IInv
<1>2. QED BY InitOK, StepOK, <1>1, PTL DEF Spec

\* KeyringTransaction writes ahead: when a save changes an account, the journal
\* on disk is one that recovery would undo, and it holds what the account was.
THEOREM WritesAhead == Spec => []WriteAheadJournal
<1>1. IInv => WriteAheadJournal
  <2> SUFFICES ASSUME IInv, txn.pc = "mutate"
               PROVE  /\ InFlight
                      /\ \/ journal.changes[txn.cur] = "absent" /\ txn.previous = None
                         \/ /\ journal.changes[txn.cur] = "ready" /\ txn.previous # None
                            /\ backup[txn.cur] = txn.previous
    BY DEF WriteAheadJournal
  <2>1. /\ txn.cur \in Accounts /\ txn.journal \in KeyringTransactionJournal
        /\ txn.journal.target = None /\ ~txn.journal.restored
        /\ journal = IF Recorded(txn.journal) = {} THEN None ELSE txn.journal
    BY ForwardOK DEF IInv, ControlOK, ForwardPcs
  <2>2. txn.journal.changes[txn.cur] \in {"absent", "ready"}
    BY DEF IInv, CurrentOK
  <2>3. journal = txn.journal /\ journal # None
    BY <2>1, <2>2, NoneIsNoRecord DEF Recorded
  <2>4. ~Committed(journal)
    BY <2>1, <2>3, NoneIsNoRecord DEF Committed, IInv, TypeOK, DiskTypeOK
  <2>5. QED
    BY <2>1, <2>3, <2>4 DEF InFlight, IInv, CurrentOK
<1>2. QED BY InitOK, StepOK, <1>1, PTL DEF Spec

---------------------------------------------------------------------------
(* The failures a save survives *)

\* What the transaction keeps its promises under: the keyring is there, the profile's
\* own write does not fail, and on the bulk path neither does the journal's nor the
\* encoding of the profile.
Covered ==
    /\ Headless = {}
    /\ Faults \cap {"write", "dirsync"} = {}
    /\ Faults \cap {"journal", "encode"} = {} \/ Ops \subseteq ExactOps

\* A process has a request while it saves, for a command that is run.
ProcessesOK ==
    \A p \in Procs : req[p] # None => stage[p] \in {"save", "saving"} /\ req[p].op \in Ops

\* What the lock holder is in the middle of.
PurposeOK ==
    /\ txn.pc \in {"free", "recover"} => txn.why = "none" /\ txn.kept = {}
    /\ txn.pc = "write" => txn.why = "none" /\ txn.loop = "none"
    /\ txn.pc = "undo" => txn.why = "rollback"
    /\ txn.why # "abort"
    /\ txn.why = "recovery" => txn.kept = {}

\* What the journal on disk knows of an account.
OnDisk(a) == IF journal = None THEN "unrecorded" ELSE journal.changes[a]

\* A pre-image is not lost while recovery would look for it.
Sealed == InFlight => \A a \in Accounts : journal.changes[a] = "ready" => backup[a] # None

\* The accounts a bulk save has stored can be undone without being asked about.
KeptOK ==
    txn.pc \in ForwardPcs \cup {"undo"} =>
        \A change \in txn.kept :
            OnDisk(change[1]) = "absent" \/ (OnDisk(change[1]) = "ready" /\ backup[change[1]] # None)

\* The marks in memory undo what those on disk undo: they are at most one write ahead.
Undoes(written, mark, entry) ==
    \/ written = mark
    \/ written = "pending" /\ mark = "ready"
    \/ written = "unrecorded" /\ (mark = "absent" => entry = None)

Tracks(j) == \A a \in Accounts : Undoes(OnDisk(a), j.changes[a], keyring[a])

\* A transaction that is undone is one recovery would undo, and both would undo the same.
UndoableOK ==
    txn.pc \in {"undo", "restore", "mark"} => (journal # None => InFlight) /\ Tracks(txn.journal)

\* The accounts that a rollback is done with are as recovery would leave them.
UndoneOK ==
    /\ txn.pc = "restore" => \A a \in Accounts \ txn.todo : keyring[a] = Recovered(a)
    /\ txn.pc = "mark" => \A a \in Accounts : keyring[a] = Recovered(a)

\* Backups are deleted when recovery has no use for them.
CleanOK ==
    /\ txn.pc \in {"clean", "unlink"} => ~InFlight
    /\ txn.pc = "clean" => \A a \in Accounts : backup[a] # None => a \in txn.todo
    /\ txn.pc = "unlink" => \A a \in Accounts : backup[a] = None

\* What an account is to be after a save, and the accounts a save has not come to yet.
Wanted(r, a) ==
    IF r.stores[a] # None THEN r.stores[a] ELSE IF a \in r.deletes THEN None ELSE Recovered(a)

Left(t, r) ==
    IF t.loop = "store" THEN t.todo \cup (IF Exact(r) THEN r.deletes ELSE {})
    ELSE IF t.loop = "delete" THEN t.todo \cup (IF Exact(r) THEN {} ELSE Written(r))
    ELSE IF t.pc = "conflict" /\ ~Exact(r) THEN Written(r) ELSE {}

\* The loop a save is in runs over accounts of its request, and the account it is at
\* is the next one.
AtWork(t, r) ==
    /\ t.loop = "store" => t.todo \subseteq Written(r)
    /\ t.loop = "delete" => t.todo \subseteq r.deletes
    /\ t.pc \in {"backup", "ready", "mutate"} => t.cur \in t.todo

\* A save that goes forward has done to the keyring what it asks, up to what is left.
EffectOK ==
    txn.pc \in ForwardPcs \cup {"write"} =>
        /\ AtWork(txn, Request)
        /\ txn.pc = "backup" => backup[txn.cur] = None /\ txn.previous = keyring[txn.cur]
        /\ \A a \in Accounts : keyring[a] = IF a \in Left(txn, Request) THEN Recovered(a)
                                            ELSE Wanted(Request, a)

\* A profile is written when the journal announces it, if there is a journal.
WriteOK ==
    txn.pc = "write" =>
        /\ journal = IF Recorded(txn.journal) = {} THEN None ELSE txn.journal
        /\ ~txn.journal.restored
        /\ Recorded(txn.journal) # {} => txn.journal.target = Request.body

SInv == /\ ProcessesOK /\ PurposeOK /\ Sealed /\ NoOrphanBackup /\ KeptOK
        /\ UndoableOK /\ UndoneOK /\ CleanOK /\ EffectOK /\ WriteOK

Simulates == [Atomic!Next]_(Atomic!vars)

\* A step that nobody sees.
LEMMA StutterOK ==
    ASSUME profile' = profile, req' = req, outcome' = outcome,
           \A a \in Accounts : Recovered(a)' = Recovered(a),
           \A p \in Procs : Applied(p)' = Applied(p)
    PROVE  Simulates
BY DEF Simulates, Atomic!vars

\* A call of the lock holder before or after the save takes effect.
LEMMA SilentOK ==
    ASSUME NEW t \in Txns, Continue(t), t.owner = Owner, profile' = profile,
           \A a \in Accounts : Recovered(a)' = Recovered(a),
           t.why = "commit" <=> txn.why = "commit",
           txn.pc # "write", t.pc # "write"
    PROVE  Simulates
<1>1. \A p \in Procs : Applied(p)' = Applied(p)
  BY DEF Applied, Continue, clients, Owner
<1>2. QED BY <1>1, StutterOK DEF Continue, clients

\* The entries recovery would find, as long as no journal is over.
LEMMA RecoveredOpen ==
    ASSUME journal # None => InFlight, NEW a \in Accounts
    PROVE  Recovered(a) = IF OnDisk(a) = "unrecorded" THEN keyring[a]
                          ELSE IF OnDisk(a) = "absent" THEN None
                          ELSE IF backup[a] # None THEN backup[a] ELSE keyring[a]
BY DEF Recovered, OnDisk, InFlight

LEMMA RecoveredClosed ==
    ASSUME ~InFlight, NEW a \in Accounts
    PROVE  Recovered(a) = keyring[a]
BY DEF Recovered

\* While a save goes forward, the journal on disk is in flight and says what the one
\* in memory says.
LEMMA ForwardDisk ==
    ASSUME IInv, txn.pc \in ForwardPcs
    PROVE  /\ journal # None => InFlight
           /\ \A a \in Accounts : OnDisk(a) = txn.journal.changes[a]
<1>1. /\ txn.journal.target = None /\ ~txn.journal.restored /\ txn.journal # None
      /\ journal = IF Recorded(txn.journal) = {} THEN None ELSE txn.journal
      /\ profile # None
  BY ForwardOK, NoneIsNoRecord DEF IInv, TypeOK, DiskTypeOK
<1>2. \A a \in Accounts : OnDisk(a) = txn.journal.changes[a]
  <2>1. CASE Recorded(txn.journal) = {}
    BY <1>1, <2>1 DEF OnDisk, Recorded
  <2>2. CASE Recorded(txn.journal) # {}
    <3>1. journal = txn.journal /\ journal # None
      BY <1>1, <2>2
    <3>2. QED BY <3>1 DEF OnDisk
  <2>3. QED BY <2>1, <2>2
<1>3. journal # None => InFlight
  BY <1>1 DEF InFlight, Committed
<1>4. QED BY <1>2, <1>3

LEMMA FaultsExact ==
    ASSUME IInv, SInv, Covered, txn.pc \in ForwardPcs, Faults \cap {"journal", "encode"} # {}
    PROVE  Exact(Request)
<1>1. Owner \in Procs /\ req[Owner] # None
  BY ForwardOK, SavingOK DEF SavePcs
<1>2. QED BY <1>1 DEF SInv, ProcessesOK, Covered, Exact, Request

---------------------------------------------------------------------------
(* How a step of the lock holder ends *)

\* The same save with some secrets kept in the profile, by its fields.
LEMMA DowngradeIs ==
    ASSUME NEW r \in Requests, NEW next \in Requests, NEW kept \in SUBSET {a \in Accounts : r.stores[a] # None},
           next.op = r.op, next.deletes = r.deletes, next.allow \in {r.allow, TRUE},
           next.stores = [a \in Accounts |-> IF a \in kept THEN None ELSE r.stores[a]],
           next.body.refs = r.body.refs \ kept, next.body.settings = r.body.settings,
           next.body.inline = [a \in Accounts |-> IF a \in kept THEN r.stores[a] ELSE r.body.inline[a]]
    PROVE  next \in Atomic!Downgrades(r)
<1> DEFINE Kept == SUBSET {a \in Accounts : r.stores[a] # None}
           Allow == {r.allow, TRUE}
           down(k, al) ==
              [r EXCEPT !.allow = al,
               !.stores = [a \in Accounts |-> IF a \in k THEN None ELSE @[a]],
               !.body.refs = @ \ k,
               !.body.inline = [a \in Accounts |-> IF a \in k THEN r.stores[a] ELSE @[a]]]
           same == down(kept, next.allow)
<1>1. Atomic!Downgrades(r) = {down(k, al) : k \in Kept, al \in Allow}
  BY DEF Atomic!Downgrades
<1>2. /\ same.op = r.op /\ same.allow = next.allow /\ same.deletes = r.deletes
      /\ same.stores = [a \in Accounts |-> IF a \in kept THEN None ELSE r.stores[a]]
      /\ same.body.refs = r.body.refs \ kept
      /\ same.body.inline = [a \in Accounts |-> IF a \in kept THEN r.stores[a] ELSE r.body.inline[a]]
      /\ same.body.settings = r.body.settings
  BY DEF Requests, Bodies
<1>3. same \in Requests
  BY DEF Requests, Bodies, Maybe
<1>4. kept \in Kept /\ next.allow \in Allow
  OBVIOUS
<1> HIDE DEF Kept, Allow, down
<1>5. same \in Atomic!Downgrades(r)
  BY <1>1, <1>4
<1> HIDE DEF same
<1>6. /\ same.body = [refs |-> same.body.refs, inline |-> same.body.inline, settings |-> same.body.settings]
      /\ next.body = [refs |-> next.body.refs, inline |-> next.body.inline, settings |-> next.body.settings]
  BY <1>3 DEF Requests, Bodies
<1>7. same.body = next.body
  BY <1>2, <1>6
<1>8. same = next
  BY <1>2, <1>3, <1>7 DEF Requests
<1>9. QED BY <1>5, <1>8

\* Command's next saves, as the abstract save allows them.
LEMMA FollowUpsReturn ==
    ASSUME IInv, Owner \in Procs, stage[Owner] = "saving", NEW rolledBack \in BOOLEAN,
           NEW result, NEW next \in FollowUps(result, rolledBack), next # None
    PROVE  next \in Atomic!Downgrades(Request) /\ result = "err" /\ next.op = Request.op
<1>1. Request \in Requests
  BY DEF IInv, TypeOK, ControlOK, Request, Maybe
<1> DEFINE inlined == [Request EXCEPT !.stores = [a \in Accounts |-> None],
                          !.body.refs = @ \ Written(Request),
                          !.body.inline = [a \in Accounts |-> IF a \in Written(Request)
                                                              THEN Request.stores[a] ELSE @[a]]]
           permitted == [Request EXCEPT !.allow = TRUE]
<1>2. result = "err" /\ (next = inlined \/ next = permitted)
  BY DEF FollowUps
<1>3. CASE next = inlined
  <2>1. /\ next.stores = [a \in Accounts |-> None] /\ next.allow = Request.allow
        /\ next.op = Request.op /\ next.deletes = Request.deletes
        /\ next.body.refs = Request.body.refs \ Written(Request)
        /\ next.body.inline = [a \in Accounts |-> IF a \in Written(Request)
                                                  THEN Request.stores[a] ELSE Request.body.inline[a]]
        /\ next.body.settings = Request.body.settings
        /\ next \in Requests
    BY <1>1, <1>3 DEF Requests, Bodies, Written, Maybe
  <2>2. Written(Request) \in SUBSET {a \in Accounts : Request.stores[a] # None}
    BY DEF Written
  <2>3. next.stores = [a \in Accounts |-> IF a \in Written(Request) THEN None ELSE Request.stores[a]]
    BY <2>1 DEF Written
  <2>4. QED BY <1>1, <1>2, <2>1, <2>2, <2>3, DowngradeIs
<1>4. CASE next = permitted
  <2>1. /\ next.stores = Request.stores /\ next.allow = TRUE
        /\ next.op = Request.op /\ next.deletes = Request.deletes
        /\ next.body = Request.body /\ next \in Requests
    BY <1>1, <1>4 DEF Requests
  <2> DEFINE none == {}
  <2>2. /\ next.stores = [a \in Accounts |-> IF a \in none THEN None ELSE Request.stores[a]]
        /\ next.body.inline = [a \in Accounts |-> IF a \in none THEN Request.stores[a] ELSE Request.body.inline[a]]
        /\ next.body.refs = Request.body.refs \ none
        /\ none \in SUBSET {a \in Accounts : Request.stores[a] # None}
    BY <1>1, <2>1 DEF Requests, Bodies
  <2> HIDE DEF none
  <2>3. QED BY <1>1, <1>2, <2>1, <2>2, DowngradeIs
<1>5. QED BY <1>2, <1>3, <1>4

\* The locked section ends with the disk as recovery can take it.
LEMMA EndSound ==
    ASSUME IInv, SInv, NEW result \in {"ok", "err"}, NEW rolledBack \in BOOLEAN,
           Owner # None, End(result, rolledBack), profile' = profile,
           \A a \in Accounts : Recovered(a)' = Recovered(a), Sealed', NoOrphanBackup',
           result = "ok" => stage[Owner] = "recovering" \/ txn.why = "commit"
    PROVE  SInv' /\ Simulates
<1>1. Owner \in Procs /\ stage[Owner] \in {"recovering", "saving"} /\ txn' = NoWork
  BY DEF IInv, TypeOK, ControlOK, Txns, Owner, Maybe, End
<1>2. (ProcessesOK' => SInv') /\ (\A p \in Procs : Applied(p)' = FALSE)
  BY <1>1, ConstantsOK DEF SInv, PurposeOK, KeptOK, UndoableOK, UndoneOK, CleanOK, EffectOK, WriteOK, NoWork,
     ForwardPcs, Applied, Owner
<1>3. CASE stage[Owner] = "recovering"
  <2>1. ProcessesOK'
    BY <1>1, <1>3 DEF SInv, ProcessesOK, End, IInv, TypeOK
  <2>2. \A p \in Procs : Applied(p) = FALSE
    BY <1>3 DEF Applied
  <2>3. QED BY <1>2, <1>3, <2>1, <2>2, StutterOK DEF End
<1>4. CASE stage[Owner] = "saving"
  <2>1. PICK next \in FollowUps(result, rolledBack) :
            /\ stage' = [stage EXCEPT ![Owner] = IF next = None THEN "idle" ELSE "save"]
            /\ req' = [req EXCEPT ![Owner] = next]
            /\ outcome' = [outcome EXCEPT ![Owner] = result]
    BY <1>4 DEF End
  <2>2. next # None => next \in Atomic!Downgrades(Request) /\ result = "err" /\ next.op = Request.op
    BY <1>1, <1>4, FollowUpsReturn
  <2>3. req[Owner] # None /\ Request = req[Owner]
    BY <1>1, <1>4 DEF IInv, ControlOK, Request
  <2>4. ProcessesOK'
    BY <1>1, <2>1, <2>2, <2>3 DEF SInv, ProcessesOK, IInv, TypeOK
  <2>5. result = "ok" => Applied(Owner)
    BY <1>4 DEF Applied
  <2>6. \A p \in Procs : Applied(p)' = IF p = Owner THEN FALSE ELSE Applied(p)
    BY <1>2 DEF Applied
  <2>7. Atomic!Return(Owner, result)
    BY <1>1, <2>1, <2>2, <2>3, <2>5, <2>6 DEF Atomic!Return
  <2>8. QED BY <1>1, <1>2, <2>4, <2>7 DEF Simulates, Atomic!Next
<1>5. QED BY <1>1, <1>3, <1>4

\* A call fails in recovery, in a rollback or in a clean-up: the disk is as it was.
LEMMA LeaveSound ==
    ASSUME IInv, SInv, Owner # None, Leave("err"), UNCHANGED disk
    PROVE  SInv' /\ Simulates
<1>1. /\ \A a \in Accounts : Recovered(a)' = Recovered(a)
      /\ Sealed' /\ NoOrphanBackup' /\ profile' = profile
  BY DEF disk, Recovered, Sealed, NoOrphanBackup, InFlight, Committed, SInv
<1>2. QED BY <1>1, EndSound DEF Leave

\* A save backs out: what it has written is at most one write ahead of the journal.
LEMMA BackoutSound ==
    ASSUME IInv, SInv, txn.pc \in ForwardPcs, NEW t \in Txns, Backout(t), UNCHANGED disk,
           t.owner = Owner, t.loop = txn.loop, t.kept = txn.kept, t.why = "none",
           Exact(Request) \/ t.loop # "none",
           Tracks(t.journal)
    PROVE  SInv' /\ Simulates
<1> DEFINE u == Rollback(t)
           v == [t EXCEPT !.pc = "undo", !.why = "rollback"]
<1>1. /\ Owner \in Procs /\ txn.why = "none" /\ t.journal \in KeyringTransactionJournal
      /\ \A a \in Accounts : OnDisk(a) = txn.journal.changes[a]
      /\ journal # None => InFlight
  BY ForwardOK, ForwardDisk DEF Txns
<1>2. /\ u \in Txns /\ u.owner = Owner /\ u.pc = "restore" /\ u.why = "rollback"
      /\ u.journal = t.journal /\ u.todo = Recorded(t.journal)
      /\ v \in Txns /\ v.owner = Owner /\ v.pc = "undo" /\ v.why = "rollback"
      /\ v.journal = t.journal /\ v.kept = t.kept
  BY DEF Rollback, Txns, Pcs, Recorded
<1>3. Continue(u) \/ Continue(v)
  BY <1>1 DEF Backout, Txns
<1>4. /\ \A a \in Accounts : Recovered(a)' = Recovered(a) /\ OnDisk(a)' = OnDisk(a)
      /\ Sealed' /\ NoOrphanBackup' /\ profile' = profile /\ InFlight' = InFlight
      /\ journal' = journal /\ keyring' = keyring /\ backup' = backup
      /\ Tracks(t.journal)'
  BY DEF disk, Recovered, Sealed, NoOrphanBackup, InFlight, Committed, SInv, OnDisk, Tracks
<1> HIDE DEF u, v
<1>5. CASE Continue(u)
  <2>1. ProcessesOK' /\ txn' = u
    BY <1>5 DEF Continue, clients, SInv, ProcessesOK
  <2>2. UndoableOK'
    BY <1>1, <1>2, <1>4, <2>1 DEF UndoableOK
  <2>3. UndoneOK'
    <3>1. \A a \in Accounts \ u.todo : keyring[a] = Recovered(a)
      BY <1>1, <1>2, RecoveredOpen DEF Recorded, Tracks, Undoes
    <3>2. QED BY <1>2, <1>4, <2>1, <3>1 DEF UndoneOK
  <2>4. PurposeOK' /\ KeptOK' /\ CleanOK' /\ EffectOK' /\ WriteOK'
    BY <1>2, <2>1 DEF PurposeOK, KeptOK, CleanOK, EffectOK, WriteOK, ForwardPcs
  <2>5. Simulates
    BY <1>1, <1>2, <1>4, <1>5, SilentOK DEF ForwardPcs
  <2>6. QED BY <1>4, <2>1, <2>2, <2>3, <2>4, <2>5 DEF SInv
<1>6. CASE Continue(v)
  <2>1. ProcessesOK' /\ txn' = v
    BY <1>6 DEF Continue, clients, SInv, ProcessesOK
  <2>2. UndoableOK'
    BY <1>1, <1>2, <1>4, <2>1 DEF UndoableOK
  <2>3. KeptOK'
    <3>1. \A change \in t.kept : OnDisk(change[1])' = OnDisk(change[1])
      BY <1>4 DEF Txns
    <3>2. QED BY <1>2, <1>4, <2>1, <3>1 DEF SInv, KeptOK
  <2>4. PurposeOK' /\ UndoneOK' /\ CleanOK' /\ EffectOK' /\ WriteOK'
    BY <1>2, <2>1 DEF PurposeOK, UndoneOK, CleanOK, EffectOK, WriteOK, ForwardPcs
  <2>5. Simulates
    BY <1>1, <1>2, <1>4, <1>6, SilentOK DEF ForwardPcs
  <2>6. QED BY <1>4, <2>1, <2>2, <2>3, <2>4, <2>5 DEF SInv
<1>7. QED BY <1>3, <1>5, <1>6

\* A keyring call fails, wherever the lock holder is: the disk is as it was.
LEMMA FailSound ==
    ASSUME IInv, SInv, Covered, NEW t \in Txns, Fail(t), UNCHANGED disk,
           Owner # None, t.owner = Owner, t.loop = txn.loop, t.kept = txn.kept, t.why = txn.why,
           txn.why = "none" => /\ txn.pc \in ForwardPcs
                               /\ Exact(Request) \/ t.loop # "none"
                               /\ Tracks(t.journal)
    PROVE  SInv' /\ Simulates
BY LeaveSound, BackoutSound DEF Fail

\* A save that goes on to another call of its forward part.
LEMMA GoesOnSound ==
    ASSUME IInv, SInv, Owner # None, NEW t \in Txns, Continue(t), t.owner = Owner,
           txn.pc # "write", txn.why # "commit",
           t.pc \in ForwardPcs, t.why = "none", profile' = profile,
           \A a \in Accounts : Recovered(a)' = Recovered(a), Sealed', NoOrphanBackup',
           AtWork(t, Request),
           t.pc = "backup" => backup'[t.cur] = None /\ t.previous = keyring'[t.cur],
           \A a \in Accounts : keyring'[a] = IF a \in Left(t, Request) THEN Recovered(a)
                                             ELSE Wanted(Request, a),
           \A change \in t.kept :
               OnDisk(change[1])' = "absent" \/ (OnDisk(change[1])' = "ready" /\ backup'[change[1]] # None)
    PROVE  SInv' /\ Simulates
<1>1. txn' = t /\ Request' = Request /\ t.pc # "free"
  BY DEF Continue, clients, Request, Owner, ForwardPcs
<1>2. ProcessesOK'
  BY DEF Continue, clients, SInv, ProcessesOK
<1>3. \A a \in Accounts : Wanted(Request, a)' = Wanted(Request, a)
  BY <1>1 DEF Wanted
<1>4. Left(txn, Request)' = Left(t, Request) /\ AtWork(txn, Request)' = AtWork(t, Request)
  BY <1>1 DEF Left, AtWork, Exact, Written
<1>5. EffectOK'
  BY <1>1, <1>3, <1>4 DEF EffectOK
<1>6. KeptOK'
  BY <1>1 DEF KeptOK
<1>7. PurposeOK' /\ UndoableOK' /\ UndoneOK' /\ CleanOK' /\ WriteOK'
  BY <1>1 DEF PurposeOK, UndoableOK, UndoneOK, CleanOK, WriteOK, ForwardPcs
<1>8. Simulates
  BY SilentOK DEF ForwardPcs
<1>9. QED BY <1>2, <1>5, <1>6, <1>7, <1>8 DEF SInv

\* A save begins, or the load whose recovery is over goes on.
LEMMA BeginSound ==
    ASSUME IInv, SInv, Owner # None, Begin(txn), ~InFlight, journal' = None,
           UNCHANGED <<profile, keyring, backup>>, \A a \in Accounts : backup[a] = None,
           txn.pc # "write", txn.why # "commit", txn.kept = {}
    PROVE  SInv' /\ Simulates
<1>1. /\ \A a \in Accounts : Recovered(a) = keyring[a] /\ Recovered(a)' = keyring[a]
      /\ Sealed' /\ NoOrphanBackup'
  BY DEF Recovered, InFlight, Sealed, NoOrphanBackup
<1>2. CASE stage[Owner] = "recovering"
  BY <1>1, <1>2, EndSound DEF Begin, Leave
<1>3. CASE stage[Owner] # "recovering"
  <2>1. Request \in Requests /\ Written(Request) \subseteq Accounts
    BY <1>3 DEF IInv, TypeOK, ControlOK, Request, Maybe, Written, Txns, Owner
  <2> DEFINE loop == IF Exact(Request) THEN "store" ELSE "delete"
             t == [txn EXCEPT !.why = "none", !.journal = EmptyJournal, !.pc = loop, !.loop = loop,
                              !.todo = IF Exact(Request) THEN Written(Request) ELSE Request.deletes]
  <2>2. EmptyJournal \in KeyringTransactionJournal
    BY DEF EmptyJournal, KeyringTransactionJournal, Marks, Maybe
  <2>3. /\ t \in Txns /\ t.owner = Owner /\ t.pc = loop /\ t.loop = loop /\ t.why = "none"
        /\ t.todo = (IF Exact(Request) THEN Written(Request) ELSE Request.deletes) /\ t.kept = {}
    BY <2>1, <2>2 DEF IInv, TypeOK, Txns, Pcs, Requests, Owner
  <2>4. Continue(t)
    BY <1>3 DEF Begin
  <2> HIDE DEF t
  <2>5. AtWork(t, Request)
    BY <2>3 DEF AtWork
  <2>6. \A a \in Accounts : keyring'[a] = IF a \in Left(t, Request) THEN Recovered(a) ELSE Wanted(Request, a)
    <3>1. \A a \in Accounts : a \notin Left(t, Request) => Request.stores[a] = None /\ a \notin Request.deletes
      BY <2>3 DEF Left, Written
    <3>2. QED BY <1>1, <3>1 DEF Wanted
  <2>7. QED
    BY <1>1, <2>3, <2>4, <2>5, <2>6, GoesOnSound DEF ForwardPcs
<1>4. QED BY <1>2, <1>3

---------------------------------------------------------------------------
(* The steps of recovery and of a rollback *)

LEMMA Resolves ==
    ASSUME Covered, Owner \in Procs, NEW entries, NEW a
    PROVE  Resolve(Owner, entries, a) = entries[a] /\ Without(entries, a) = [entries EXCEPT ![a] = None]
           /\ Available(Owner)
BY DEF Covered, Resolve, Without, Available

\* A step of recovery or of a rollback that goes on, by what it leaves behind.
LEMMA EndPhaseSound ==
    ASSUME IInv, SInv, NEW t \in Txns, Continue(t), t.owner = Owner, Owner # None,
           t.pc \in EndPcs, t.why \in {"recovery", "commit", "rollback"}, txn.pc # "write",
           t.why = "commit" <=> txn.why = "commit",
           t.why = "recovery" => t.kept = {},
           profile' = profile, \A a \in Accounts : Recovered(a)' = Recovered(a),
           Sealed', NoOrphanBackup',
           t.pc \in {"restore", "mark"} => 
              /\ journal' # None => InFlight'
              /\ \A a \in Accounts : Undoes(OnDisk(a)', t.journal.changes[a], keyring'[a]),
           \A a \in Accounts :
              /\ t.pc = "restore" /\ a \notin t.todo => keyring'[a] = Recovered(a)
              /\ t.pc = "mark" => keyring'[a] = Recovered(a)
              /\ t.pc = "clean" /\ backup'[a] # None => a \in t.todo
              /\ t.pc = "unlink" => backup'[a] = None,
           t.pc \in {"clean", "unlink"} => ~InFlight'
    PROVE  SInv' /\ Simulates
<1>1. txn' = t
  BY DEF Continue
<1>2. ProcessesOK'
  BY DEF Continue, clients, SInv, ProcessesOK
<1>3. Simulates
  BY SilentOK DEF EndPcs
<1>4. UndoableOK'
  BY <1>1 DEF UndoableOK, EndPcs, Tracks
<1>5. UndoneOK'
  BY <1>1 DEF UndoneOK
<1>6. CleanOK'
  BY <1>1 DEF CleanOK
<1>7. PurposeOK' /\ KeptOK' /\ EffectOK' /\ WriteOK'
  BY <1>1 DEF PurposeOK, KeptOK, EffectOK, WriteOK, ForwardPcs, EndPcs
<1>8. QED BY <1>2, <1>3, <1>4, <1>5, <1>6, <1>7 DEF SInv

\* Nothing of the disk changes.
LEMMA DiskSame ==
    ASSUME UNCHANGED disk, SInv
    PROVE  /\ profile' = profile /\ journal' = journal /\ keyring' = keyring /\ backup' = backup
           /\ \A a \in Accounts : Recovered(a)' = Recovered(a) /\ OnDisk(a)' = OnDisk(a)
           /\ Sealed' /\ NoOrphanBackup' /\ InFlight' = InFlight
BY DEF disk, Recovered, Sealed, NoOrphanBackup, InFlight, Committed, SInv, OnDisk

\* What is known of the lock holder outside the forward part of a save.
LEMMA EndFacts ==
    ASSUME IInv, SInv, txn.pc \in EndPcs
    PROVE  /\ Owner # None /\ Owner \in Procs /\ txn \in Txns /\ txn.owner = Owner
           /\ txn.why \in {"recovery", "commit", "rollback"}
           /\ txn.why = "recovery" => txn.kept = {}
           /\ txn.journal \in KeyringTransactionJournal
BY HolderOK DEF IInv, ControlOK, EndPcs, SInv, PurposeOK, Txns

LEMMA RecoverSound == ASSUME IInv, SInv, Covered, Recover PROVE SInv' /\ Simulates
<1> DEFINE t == [txn EXCEPT !.why = "recovery", !.journal = journal]
           u == [t EXCEPT !.pc = "clean", !.todo = BackedUp(journal)]
           v == [t EXCEPT !.pc = "restore", !.todo = Recorded(journal)]
<1>1. /\ Owner # None /\ Owner \in Procs /\ txn \in Txns /\ txn.owner = Owner
      /\ txn.pc = "recover" /\ txn.why = "none" /\ txn.kept = {} /\ UNCHANGED disk
  BY HolderOK DEF Recover, SInv, PurposeOK
<1>2. CASE journal = None /\ Begin(txn)
  <2>1. \A a \in Accounts : backup[a] = None
    BY <1>2 DEF SInv, NoOrphanBackup
  <2>2. QED BY <1>1, <1>2, <2>1, BeginSound DEF InFlight, disk
<1>3. CASE Leave("err")
  BY <1>1, <1>3, LeaveSound
<1>4. CASE journal # None /\ IF Committed(journal) \/ journal.restored THEN Continue(u) ELSE Continue(v)
  <2>1. journal \in KeyringTransactionJournal
    BY <1>4 DEF IInv, TypeOK, DiskTypeOK, Maybe
  <2>2. /\ u \in Txns /\ u.owner = Owner /\ u.pc = "clean" /\ u.why = "recovery" /\ u.kept = {}
        /\ u.todo = BackedUp(journal)
        /\ v \in Txns /\ v.owner = Owner /\ v.pc = "restore" /\ v.why = "recovery" /\ v.kept = {}
        /\ v.journal = journal /\ v.todo = Recorded(journal)
    BY <1>1, <2>1 DEF Txns, Pcs, BackedUp, Recorded
  <2> HIDE DEF u, v
  <2>3. CASE ~InFlight /\ Continue(u)
    <3>1. \A a \in Accounts : backup[a] # None => a \in u.todo
      BY <2>2 DEF SInv, NoOrphanBackup, BackedUp
    <3>2. QED
      BY <1>1, <2>2, <2>3, <3>1, DiskSame, EndPhaseSound DEF EndPcs
  <2>4. CASE InFlight /\ Continue(v)
    <3>1. Tracks(v.journal)
      BY <1>4, <2>2 DEF Tracks, Undoes, OnDisk
    <3>2. \A a \in Accounts \ v.todo : keyring[a] = Recovered(a)
      BY <2>2 DEF Recorded, Recovered
    <3>3. QED
      BY <1>1, <2>1, <2>2, <2>4, <3>1, <3>2, DiskSame, EndPhaseSound DEF EndPcs, Tracks
  <2>5. QED BY <1>4, <2>3, <2>4 DEF InFlight
<1>5. QED BY <1>2, <1>3, <1>4 DEF Recover

LEMMA RestoreDoneSound == ASSUME IInv, SInv, Covered, RestoreDone PROVE SInv' /\ Simulates
<1> DEFINE t == [txn EXCEPT !.pc = "mark"]
<1>1. txn.pc = "restore" /\ txn.todo = {} /\ Continue(t) /\ UNCHANGED disk
  BY DEF RestoreDone
<1>2. /\ Owner # None /\ txn \in Txns /\ txn.owner = Owner
      /\ txn.why \in {"recovery", "commit", "rollback"} /\ (txn.why = "recovery" => txn.kept = {})
      /\ txn.journal \in KeyringTransactionJournal
  BY <1>1, EndFacts DEF EndPcs
<1>3. /\ t \in Txns /\ t.owner = Owner /\ t.pc = "mark" /\ t.why = txn.why /\ t.kept = txn.kept
      /\ t.journal = txn.journal
  BY <1>2 DEF Txns, Pcs
<1> HIDE DEF t
<1>4. /\ journal # None => InFlight
      /\ \A a \in Accounts : Undoes(OnDisk(a), txn.journal.changes[a], keyring[a])
  BY <1>1 DEF SInv, UndoableOK, Tracks
<1>5. \A a \in Accounts : keyring[a] = Recovered(a)
  BY <1>1 DEF SInv, UndoneOK
<1>6. QED
  BY <1>1, <1>2, <1>3, <1>4, <1>5, DiskSame, EndPhaseSound DEF EndPcs

LEMMA CleanDoneSound == ASSUME IInv, SInv, Covered, CleanDone PROVE SInv' /\ Simulates
<1> DEFINE t == [txn EXCEPT !.pc = "unlink"]
<1>1. txn.pc = "clean" /\ txn.todo = {} /\ Continue(t) /\ UNCHANGED disk
  BY DEF CleanDone
<1>2. /\ Owner # None /\ txn \in Txns /\ txn.owner = Owner
      /\ txn.why \in {"recovery", "commit", "rollback"} /\ (txn.why = "recovery" => txn.kept = {})
  BY <1>1, EndFacts DEF EndPcs
<1>3. t \in Txns /\ t.owner = Owner /\ t.pc = "unlink" /\ t.why = txn.why /\ t.kept = txn.kept
  BY <1>2 DEF Txns, Pcs
<1> HIDE DEF t
<1>4. ~InFlight /\ \A a \in Accounts : backup[a] = None
  BY <1>1 DEF SInv, CleanOK
<1>5. QED
  BY <1>1, <1>2, <1>3, <1>4, DiskSame, EndPhaseSound DEF EndPcs

\* A keyring call of recovery, of a rollback or of a clean-up fails.
LEMMA KeyringFailsSound ==
    ASSUME IInv, SInv, Covered, txn.pc \in EndPcs, KeyringFails
    PROVE  SInv' /\ Simulates
BY EndFacts, LeaveSound DEF KeyringFails, Fail

\* Restoring an account does not change what recovery would find there.
LEMMA RestoreChangeSound ==
    ASSUME IInv, SInv, Covered, NEW a \in Accounts, RestoreChange(a)
    PROVE  SInv' /\ Simulates
<1> DEFINE mark == txn.journal.changes[a]
           t == [txn EXCEPT !.todo = @ \ {a}]
<1>1. txn.pc = "restore" /\ a \in txn.todo
  BY DEF RestoreChange
<1>2. /\ Owner # None /\ Owner \in Procs /\ txn \in Txns /\ txn.owner = Owner
      /\ txn.why \in {"recovery", "commit", "rollback"} /\ (txn.why = "recovery" => txn.kept = {})
      /\ txn.journal \in KeyringTransactionJournal
  BY <1>1, EndFacts DEF EndPcs
<1>3. /\ t \in Txns /\ t.owner = Owner /\ t.pc = "restore" /\ t.why = txn.why /\ t.kept = txn.kept
      /\ t.journal = txn.journal /\ t.todo = txn.todo \ {a}
  BY <1>1, <1>2 DEF Txns
<1> HIDE DEF t
<1>4. /\ journal # None => InFlight
      /\ \A b \in Accounts : Undoes(OnDisk(b), txn.journal.changes[b], keyring[b])
      /\ \A b \in Accounts \ txn.todo : keyring[b] = Recovered(b)
      /\ keyring \in [Accounts -> Maybe(Secrets)]
  BY <1>1 DEF SInv, UndoableOK, Tracks, UndoneOK, IInv, TypeOK, DiskTypeOK
<1>5. backup[a] # None => OnDisk(a) \in {"pending", "ready"}
  BY DEF SInv, NoOrphanBackup, OnDisk
<1>6. \A b \in Accounts :
        Recovered(b) = IF OnDisk(b) = "unrecorded" THEN keyring[b]
                       ELSE IF OnDisk(b) = "absent" THEN None
                       ELSE IF backup[b] # None THEN backup[b] ELSE keyring[b]
  BY <1>4, RecoveredOpen
<1>7. CASE KeyringFails
  BY <1>1, <1>7, KeyringFailsSound DEF EndPcs
<1>8. CASE Leave("err") /\ UNCHANGED disk
  BY <1>2, <1>8, LeaveSound
<1>9. ASSUME NEW value, keyring' = [keyring EXCEPT ![a] = value], value = Recovered(a),
             Continue(t), UNCHANGED <<profile, journal, backup>>,
             OnDisk(a) \in {"absent", "pending", "ready"} \/ keyring[a] = value,
             OnDisk(a) \in {"pending", "ready"} /\ backup[a] = None => keyring[a] = value
      PROVE  SInv' /\ Simulates
  <2>1. /\ InFlight' = InFlight /\ \A b \in Accounts : OnDisk(b)' = OnDisk(b)
        /\ keyring'[a] = value /\ \A b \in Accounts \ {a} : keyring'[b] = keyring[b]
    BY <1>4, <1>9 DEF InFlight, Committed, OnDisk
  <2>2. \A b \in Accounts : Recovered(b)' = Recovered(b)
    <3>1. journal' # None => InFlight'
      BY <1>4, <1>9, <2>1
    <3>2. \A b \in Accounts :
            Recovered(b)' = IF OnDisk(b)' = "unrecorded" THEN keyring'[b]
                           ELSE IF OnDisk(b)' = "absent" THEN None
                           ELSE IF backup'[b] # None THEN backup'[b] ELSE keyring'[b]
      BY <3>1 DEF Recovered, OnDisk, InFlight
    <3>3. QED BY <1>6, <1>9, <2>1, <3>2
  <2>3. Sealed' /\ NoOrphanBackup'
    BY <1>9, <2>1 DEF SInv, Sealed, NoOrphanBackup
  <2>4. \A b \in Accounts : Undoes(OnDisk(b)', t.journal.changes[b], keyring'[b])
    <3>1. OnDisk(a) = "unrecorded" => keyring'[a] = keyring[a]
      BY <1>9, <2>1
    <3>2. QED BY <1>3, <1>4, <2>1, <3>1 DEF Undoes
  <2>5. \A b \in Accounts \ t.todo : keyring'[b] = Recovered(b)
    BY <1>3, <1>4, <1>9, <2>1
  <2>6. QED
    BY <1>1, <1>2, <1>3, <1>4, <1>9, <2>1, <2>2, <2>3, <2>4, <2>5, EndPhaseSound DEF EndPcs
<1>10. CASE mark = "absent" /\ Continue(t) /\ keyring' = Without(keyring, a) /\ UNCHANGED <<profile, journal, backup>>
  <2>1. OnDisk(a) = "absent" \/ (OnDisk(a) = "unrecorded" /\ keyring[a] = None)
    BY <1>4, <1>10 DEF Undoes
  <2>2. Recovered(a) = None
    BY <1>6, <2>1
  <2>3. keyring' = [keyring EXCEPT ![a] = None]
    BY <1>2, <1>10, Resolves
  <2>4. QED BY <1>9, <1>10, <2>1, <2>2, <2>3
<1>11. CASE mark # "absent" /\ backup[a] # None /\ Continue(t) /\ keyring' = [keyring EXCEPT ![a] = backup[a]]
            /\ UNCHANGED <<profile, journal, backup>>
  BY <1>5, <1>6, <1>9, <1>11
<1>12. CASE mark = "pending" /\ backup[a] = None /\ Continue(t) /\ UNCHANGED disk
  <2>1. OnDisk(a) \in {"pending", "unrecorded"}
    BY <1>4, <1>12 DEF Undoes
  <2>2. Recovered(a) = keyring[a] /\ keyring' = [keyring EXCEPT ![a] = keyring[a]]
    BY <1>4, <1>6, <1>12, <2>1 DEF disk
  <2>3. QED BY <1>9, <1>12, <2>1, <2>2 DEF disk
<1>13. QED
  BY <1>2, <1>3, <1>7, <1>8, <1>10, <1>11, <1>12, Resolves DEF RestoreChange, t

LEMMA MarkRestoredSound == ASSUME IInv, SInv, Covered, MarkRestored PROVE SInv' /\ Simulates
<1> DEFINE t == [txn EXCEPT !.pc = "clean", !.journal.restored = TRUE,
                            !.todo = BackedUp(txn.journal)]
           u == [t EXCEPT !.pc = txn.pc]
<1>1. txn.pc = "mark" /\ UNCHANGED <<profile, keyring, backup>>
  BY DEF MarkRestored
<1>2. /\ Owner # None /\ txn \in Txns /\ txn.owner = Owner
      /\ txn.why \in {"recovery", "commit", "rollback"} /\ (txn.why = "recovery" => txn.kept = {})
      /\ txn.journal \in KeyringTransactionJournal
  BY <1>1, EndFacts DEF EndPcs
<1>3. /\ t \in Txns /\ t.owner = Owner /\ t.pc = "clean" /\ t.why = txn.why /\ t.kept = txn.kept
      /\ t.journal \in KeyringTransactionJournal /\ t.journal.restored
      /\ t.journal.changes = txn.journal.changes /\ t.todo = BackedUp(txn.journal)
      /\ u.why = txn.why
  BY <1>2 DEF Txns, Pcs, KeyringTransactionJournal, BackedUp
<1>4. (journal' = t.journal /\ Continue(t)) \/ (journal' = journal /\ Fail(u))
  BY DEF MarkRestored, Persist, Covered
<1> HIDE DEF t, u
<1>5. CASE journal' = journal /\ Fail(u)
  <2>1. Leave("err") /\ UNCHANGED disk
    BY <1>1, <1>2, <1>3, <1>5 DEF Fail, disk
  <2>2. QED BY <1>2, <2>1, LeaveSound
<1>6. CASE journal' = t.journal /\ Continue(t)
  <2>1. ~InFlight' /\ journal' # None
    BY <1>3, <1>6, NoneIsNoRecord DEF InFlight
  <2>2. \A a \in Accounts : keyring[a] = Recovered(a) /\ Undoes(OnDisk(a), txn.journal.changes[a], keyring[a])
    BY <1>1 DEF SInv, UndoneOK, UndoableOK, Tracks
  <2>3. \A a \in Accounts : Recovered(a)' = Recovered(a)
    BY <1>1, <2>1, <2>2 DEF Recovered
  <2>4. \A a \in Accounts : backup[a] # None => txn.journal.changes[a] \in {"pending", "ready"}
    BY <2>2 DEF SInv, NoOrphanBackup, OnDisk, Undoes
  <2>5. NoOrphanBackup'
    BY <1>1, <1>3, <1>6, <2>1, <2>4 DEF NoOrphanBackup
  <2>6. Sealed'
    BY <2>1 DEF Sealed
  <2>7. QED
    BY <1>1, <1>2, <1>3, <1>6, <2>1, <2>3, <2>4, <2>5, <2>6, EndPhaseSound DEF EndPcs, BackedUp
<1>7. QED BY <1>4, <1>5, <1>6

LEMMA CleanBackupSound ==
    ASSUME IInv, SInv, Covered, NEW a \in Accounts, CleanBackup(a)
    PROVE  SInv' /\ Simulates
<1> DEFINE t == [txn EXCEPT !.todo = @ \ {a}]
<1>1. txn.pc = "clean"
  BY DEF CleanBackup
<1>2. /\ Owner # None /\ Owner \in Procs /\ txn \in Txns /\ txn.owner = Owner
      /\ txn.why \in {"recovery", "commit", "rollback"} /\ (txn.why = "recovery" => txn.kept = {})
  BY <1>1, EndFacts DEF EndPcs
<1>3. /\ t \in Txns /\ t.owner = Owner /\ t.pc = "clean" /\ t.why = txn.why /\ t.kept = txn.kept
      /\ t.todo = txn.todo \ {a}
  BY <1>1, <1>2 DEF Txns
<1>4. KeyringFails \/ (Continue(t) /\ backup' = Without(backup, a) /\ UNCHANGED <<profile, journal, keyring>>)
  BY DEF CleanBackup
<1> HIDE DEF t
<1>5. CASE KeyringFails
  BY <1>1, <1>5, KeyringFailsSound DEF EndPcs
<1>6. CASE Continue(t) /\ backup' = Without(backup, a) /\ UNCHANGED <<profile, journal, keyring>>
  <2>1. backup'[a] = None /\ \A b \in Accounts \ {a} : backup'[b] = backup[b]
    BY <1>2, <1>6, Resolves DEF IInv, TypeOK, DiskTypeOK
  <2>2. /\ ~InFlight /\ ~InFlight'
        /\ \A b \in Accounts : backup[b] # None => b \in txn.todo
    BY <1>1, <1>6 DEF SInv, CleanOK, InFlight, Committed
  <2>3. \A b \in Accounts : Recovered(b)' = Recovered(b)
    BY <1>6, <2>2 DEF Recovered
  <2>4. Sealed' /\ NoOrphanBackup'
    BY <1>6, <2>1, <2>2 DEF SInv, Sealed, NoOrphanBackup
  <2>5. QED
    BY <1>1, <1>2, <1>3, <1>6, <2>1, <2>2, <2>3, <2>4, EndPhaseSound DEF EndPcs
<1>7. QED BY <1>4, <1>5, <1>6

LEMMA RemoveJournalSound == ASSUME IInv, SInv, Covered, RemoveJournal PROVE SInv' /\ Simulates
<1>1. txn.pc = "unlink" /\ UNCHANGED <<profile, keyring, backup>>
  BY DEF RemoveJournal
<1>2. /\ Owner # None /\ txn.why \in {"recovery", "commit", "rollback"}
      /\ (txn.why = "recovery" => txn.kept = {})
      /\ ~InFlight /\ \A a \in Accounts : backup[a] = None
  BY <1>1, EndFacts DEF EndPcs, SInv, CleanOK
<1>3. \/ journal' = None /\ txn.why = "recovery" /\ Begin(txn)
      \/ journal' = None /\ txn.why = "commit" /\ Leave("ok")
      \/ journal' = None /\ End("err", txn.why = "rollback")
      \/ journal' = journal /\ Leave("err")
  BY <1>2 DEF RemoveJournal
<1>4. CASE txn.why = "recovery" /\ Begin(txn) /\ journal' = None
  BY <1>1, <1>2, <1>4, BeginSound
<1>5. CASE journal' = journal /\ Leave("err")
  BY <1>1, <1>2, <1>5, LeaveSound DEF disk
<1>6. CASE journal' = None
  <2>1. /\ Sealed' /\ NoOrphanBackup' /\ \A a \in Accounts : Recovered(a)' = Recovered(a)
    BY <1>1, <1>2, <1>6 DEF Sealed, NoOrphanBackup, Recovered, InFlight
  <2>2. CASE txn.why = "commit" /\ Leave("ok")
    BY <1>1, <1>2, <2>1, <2>2, EndSound DEF Leave
  <2>3. CASE End("err", txn.why = "rollback")
    BY <1>1, <1>2, <2>1, <2>3, EndSound
  <2>4. QED BY <1>1, <1>2, <1>3, <1>4, <1>5, <2>2, <2>3, LeaveSound DEF disk
<1>7. QED BY <1>3, <1>4, <1>5, <1>6

---------------------------------------------------------------------------
(* The steps of a save that goes forward *)

\* What holds at any call of a save, besides ForwardOK.
LEMMA ForwardSound ==
    ASSUME IInv, SInv, txn.pc \in ForwardPcs
    PROVE  /\ AtWork(txn, Request)
           /\ txn.pc = "backup" => backup[txn.cur] = None /\ txn.previous = keyring[txn.cur]
           /\ \A a \in Accounts : keyring[a] = IF a \in Left(txn, Request) THEN Recovered(a)
                                               ELSE Wanted(Request, a)
           /\ \A change \in txn.kept :
                OnDisk(change[1]) = "absent" \/ (OnDisk(change[1]) = "ready" /\ backup[change[1]] # None)
           /\ \A a \in Accounts : OnDisk(a) = txn.journal.changes[a]
           /\ Tracks(txn.journal)
           /\ \A a \in Accounts :
                Recovered(a) = IF OnDisk(a) = "unrecorded" THEN keyring[a]
                               ELSE IF OnDisk(a) = "absent" THEN None
                               ELSE IF backup[a] # None THEN backup[a] ELSE keyring[a]
           /\ \A a \in Accounts : OnDisk(a) = "ready" => backup[a] # None
           /\ \A a \in Accounts : backup[a] # None => OnDisk(a) \in {"pending", "ready"}
           /\ profile # None
<1>1. /\ journal # None => InFlight
      /\ \A a \in Accounts : OnDisk(a) = txn.journal.changes[a]
  BY ForwardDisk
<1>2. Tracks(txn.journal)
  BY <1>1 DEF Tracks, Undoes
<1>3. /\ \A a \in Accounts : OnDisk(a) = "ready" => backup[a] # None
      /\ \A a \in Accounts : backup[a] # None => OnDisk(a) \in {"pending", "ready"}
      /\ profile # None
  BY <1>1, NoneIsNoRecord DEF SInv, Sealed, NoOrphanBackup, OnDisk, IInv, TypeOK, DiskTypeOK
<1>4. QED
  BY <1>1, <1>2, <1>3, RecoveredOpen DEF SInv, EffectOK, KeptOK

\* The journal replaces the one on disk, with at most one mark changed.
LEMMA JournalWritten ==
    ASSUME IInv, SInv, txn.pc \in ForwardPcs, NEW j \in KeyringTransactionJournal,
           journal' = j, j.target # profile, ~j.restored, profile' = profile, keyring' = keyring,
           backup' = backup, NEW a \in Accounts,
           \A b \in Accounts \ {a} : j.changes[b] = txn.journal.changes[b],
           \/ j.changes[a] = txn.journal.changes[a]
           \/ OnDisk(a) = "unrecorded" /\ j.changes[a] = "absent" /\ keyring[a] = None
           \/ OnDisk(a) = "unrecorded" /\ j.changes[a] = "pending"
           \/ OnDisk(a) = "pending" /\ j.changes[a] = "ready" /\ backup[a] # None
    PROVE  /\ \A b \in Accounts : Recovered(b)' = Recovered(b) /\ OnDisk(b)' = j.changes[b]
           /\ Sealed' /\ NoOrphanBackup' /\ InFlight'
<1>1. InFlight' /\ journal' # None /\ \A b \in Accounts : OnDisk(b)' = j.changes[b]
  BY NoneIsNoRecord DEF InFlight, Committed, OnDisk
<1>2. \A b \in Accounts :
        Recovered(b)' = IF j.changes[b] = "unrecorded" THEN keyring[b]
                        ELSE IF j.changes[b] = "absent" THEN None
                        ELSE IF backup[b] # None THEN backup[b] ELSE keyring[b]
  BY <1>1 DEF Recovered
<1>3. \A b \in Accounts : Recovered(b)' = Recovered(b)
  BY <1>2, ForwardSound
<1>4. Sealed'
  BY ForwardSound DEF Sealed
<1>5. NoOrphanBackup'
  BY <1>1, ForwardSound DEF NoOrphanBackup
<1>6. QED BY <1>1, <1>3, <1>4, <1>5

\* The marks that a bulk save has stored under stay as they are, but for the
\* account that is recorded.
LEMMA KeptStays ==
    ASSUME IInv, SInv, txn.pc \in ForwardPcs, NEW a \in Accounts,
           OnDisk(a) \notin {"absent", "ready"},
           \A b \in Accounts \ {a} : OnDisk(b)' = OnDisk(b) /\ backup'[b] = backup[b]
    PROVE  \A change \in txn.kept :
               OnDisk(change[1])' = "absent" \/ (OnDisk(change[1])' = "ready" /\ backup'[change[1]] # None)
<1>1. \A change \in txn.kept : change[1] \in Accounts /\ change[1] # a
  BY ForwardSound, ForwardOK DEF Txns
<1>2. QED BY <1>1, ForwardSound

LEMMA RecordChangeSound ==
    ASSUME IInv, SInv, Covered, txn.pc \in {"store", "delete"}, NEW a \in txn.todo,
           RecordChange(a, keyring[a]), UNCHANGED <<profile, keyring, backup>>
    PROVE  SInv' /\ Simulates
<1> DEFINE previous == keyring[a]
           mark == IF previous = None THEN "absent" ELSE "pending"
           pc   == IF previous = None THEN "mutate" ELSE "backup"
           t    == [[txn EXCEPT !.cur = a, !.previous = previous] EXCEPT !.pc = pc, !.journal.changes[a] = mark]
           u    == [t EXCEPT !.pc = txn.pc]
<1>1. /\ Owner # None /\ txn \in Txns /\ txn.owner = Owner /\ stage[Owner] = "saving"
      /\ txn.why = "none" /\ txn.journal \in KeyringTransactionJournal
      /\ txn.journal.target = None /\ ~txn.journal.restored
      /\ a \in Accounts /\ txn.loop = txn.pc /\ previous \in Maybe(Secrets)
  BY ForwardOK DEF ForwardPcs, Txns, IInv, LoopOK, TypeOK, DiskTypeOK
<1>2. txn.journal.changes[a] = "unrecorded"
  BY <1>1 DEF IInv, LoopOK, ForwardPcs, Recorded
<1>3. /\ t \in Txns /\ t.owner = Owner /\ t.pc = pc /\ t.cur = a /\ t.previous = previous
      /\ t.why = "none" /\ t.loop = txn.loop /\ t.todo = txn.todo /\ t.kept = txn.kept
      /\ t.journal \in KeyringTransactionJournal
      /\ t.journal.target = None /\ ~t.journal.restored
      /\ t.journal.changes = [txn.journal.changes EXCEPT ![a] = mark]
      /\ u \in Txns /\ u.owner = Owner /\ u.why = "none" /\ u.loop = txn.loop /\ u.kept = txn.kept
      /\ u.journal = t.journal
  <2>1. pc \in Pcs /\ mark \in Marks
    BY DEF Pcs, Marks
  <2> HIDE DEF pc, mark
  <2>2. t \in Txns /\ t.journal \in KeyringTransactionJournal
    BY <1>1, <2>1 DEF Txns, KeyringTransactionJournal, Maybe
  <2>3. u \in Txns /\ u.owner = Owner /\ u.why = "none"
    BY <1>1, <2>2 DEF Txns
  <2>4. QED
    BY <1>1, <2>2, <2>3 DEF Txns, KeyringTransactionJournal
<1>4. (Continue(t) /\ journal' = t.journal) \/ (Fail(u) /\ journal' = journal /\ "journal" \in Faults)
  BY <1>2 DEF RecordChange, Persist, Covered
<1>5. /\ \A b \in Accounts \ {a} : t.journal.changes[b] = txn.journal.changes[b]
      /\ t.journal.changes[a] = mark /\ OnDisk(a) = "unrecorded"
      /\ mark = "absent" => keyring[a] = None
  BY <1>1, <1>2, <1>3, ForwardSound DEF ForwardPcs, KeyringTransactionJournal
<1> HIDE DEF t, u
<1>6. CASE Continue(t) /\ journal' = t.journal
  <2>1. /\ \A b \in Accounts : Recovered(b)' = Recovered(b) /\ OnDisk(b)' = t.journal.changes[b]
        /\ Sealed' /\ NoOrphanBackup' /\ InFlight'
    BY <1>1, <1>3, <1>5, <1>6, ForwardSound, JournalWritten DEF ForwardPcs
  <2>2. \A change \in t.kept :
           OnDisk(change[1])' = "absent" \/ (OnDisk(change[1])' = "ready" /\ backup'[change[1]] # None)
    BY <1>1, <1>3, <1>5, <2>1, ForwardSound, KeptStays DEF ForwardPcs
  <2>3. AtWork(t, Request) /\ Left(t, Request) = Left(txn, Request)
    BY <1>1, <1>3, ForwardSound DEF AtWork, Left, ForwardPcs
  <2>4. t.pc = "backup" => backup'[t.cur] = None /\ t.previous = keyring'[t.cur]
    BY <1>1, <1>3, <1>5, ForwardSound DEF ForwardPcs
  <2>5. QED
    BY <1>1, <1>3, <1>6, <2>1, <2>2, <2>3, <2>4, ForwardSound, GoesOnSound DEF ForwardPcs
<1>7. CASE Fail(u) /\ journal' = journal /\ "journal" \in Faults
  <2>0. \A b \in Accounts : OnDisk(b) = txn.journal.changes[b]
    BY ForwardSound DEF ForwardPcs
  <2>1. Tracks(u.journal)
    <3>1. \A b \in Accounts \ {a} : u.journal.changes[b] = OnDisk(b)
      BY <1>3, <1>5, <2>0
    <3>2. OnDisk(a) = "unrecorded" /\ (u.journal.changes[a] = "absent" => keyring[a] = None)
      BY <1>3, <1>5
    <3>3. QED BY <3>1, <3>2 DEF Tracks, Undoes
  <2>2. Exact(Request) /\ UNCHANGED disk
    BY <1>7, FaultsExact DEF ForwardPcs, disk
  <2>3. QED BY <1>1, <1>3, <1>7, <2>1, <2>2, FailSound DEF ForwardPcs
<1>8. QED BY <1>4, <1>6, <1>7

\* A keyring call of a save fails.
LEMMA SaveFailsSound ==
    ASSUME IInv, SInv, Covered, txn.pc \in ForwardPcs \ {"conflict", "digest"}, KeyringFails \/ StoreRefused
    PROVE  SInv' /\ Simulates
<1> DEFINE t == [txn EXCEPT !.refused = txn.why = "none"]
<1>1. /\ Owner # None /\ txn \in Txns /\ txn.owner = Owner /\ txn.why = "none" /\ txn.loop # "none"
      /\ Tracks(txn.journal)
  BY ForwardOK, ForwardSound DEF IInv, LoopOK
<1>2. t \in Txns /\ t.owner = Owner /\ t.loop = txn.loop /\ t.kept = txn.kept /\ t.why = txn.why
      /\ t.journal = txn.journal
  BY <1>1 DEF Txns
<1>3. CASE StoreRefused
  <2>1. Fail(t) /\ UNCHANGED disk
    BY <1>3 DEF StoreRefused
  <2> HIDE DEF t
  <2>2. QED BY <1>1, <1>2, <2>1, FailSound
<1>4. CASE KeyringFails
  BY <1>1, <1>4, FailSound DEF KeyringFails
<1>5. QED BY <1>3, <1>4

LEMMA StoreAccountSound ==
    ASSUME IInv, SInv, Covered, NEW a \in Accounts, StoreAccount(a)
    PROVE  SInv' /\ Simulates
<1>1. Owner \in Procs
  BY HolderOK DEF StoreAccount
<1>2. CASE KeyringFails
  BY <1>2, SaveFailsSound DEF StoreAccount, ForwardPcs
<1>3. CASE ~KeyringFails
  BY <1>1, <1>3, Resolves, RecordChangeSound DEF StoreAccount
<1>4. QED BY <1>2, <1>3

\* The save is done with an account of its loop.
LEMMA DoneSound ==
    ASSUME IInv, SInv, Covered, txn.pc \in {"store", "delete", "mutate"}, NEW a \in Accounts,
           txn.pc = "mutate" => a = txn.cur, a \in txn.todo, txn.loop \in {"store", "delete"},
           NEW t \in Txns, Continue(t), t.owner = Owner, t.why = "none", t.loop = txn.loop,
           t.pc = t.loop, t.todo = txn.todo \ {a},
           UNCHANGED <<profile, journal, backup>>,
           keyring'[a] = Wanted(Request, a),
           \A b \in Accounts \ {a} : keyring'[b] = keyring[b],
           OnDisk(a) = "absent" \/ (OnDisk(a) = "ready" /\ backup[a] # None) \/ keyring'[a] = keyring[a],
           \A change \in t.kept : change \in txn.kept \/
              (change[1] = a /\ (OnDisk(a) = "absent" \/ (OnDisk(a) = "ready" /\ backup[a] # None)))
    PROVE  SInv' /\ Simulates
<1>1. /\ Owner # None /\ txn.why = "none" /\ Written(Request) \cap Request.deletes = {}
      /\ journal # None => InFlight
  BY ForwardOK, ForwardDisk DEF ForwardPcs
<1>2. /\ \A b \in Accounts : OnDisk(b)' = OnDisk(b) /\ InFlight' = InFlight
      /\ journal' # None => InFlight'
  BY <1>1 DEF OnDisk, InFlight, Committed
<1>3. \A b \in Accounts :
        Recovered(b)' = IF OnDisk(b) = "unrecorded" THEN keyring'[b]
                        ELSE IF OnDisk(b) = "absent" THEN None
                        ELSE IF backup[b] # None THEN backup[b] ELSE keyring'[b]
  BY <1>2 DEF Recovered, OnDisk, InFlight
<1>4. \A b \in Accounts : Recovered(b)' = Recovered(b)
  BY <1>3, ForwardSound DEF ForwardPcs
<1>5. Sealed' /\ NoOrphanBackup'
  BY <1>2 DEF SInv, Sealed, NoOrphanBackup
<1>6. AtWork(t, Request)
  BY ForwardSound DEF AtWork, ForwardPcs
<1>7. \A b \in Accounts : b \in Left(t, Request) <=> b \in Left(txn, Request) /\ b # a
  <2>1. txn.loop = "store" => a \notin Request.deletes
    BY <1>1, ForwardSound DEF AtWork, ForwardPcs
  <2>2. txn.loop = "delete" => a \notin Written(Request)
    BY <1>1, ForwardSound DEF AtWork, ForwardPcs
  <2>3. QED BY <2>1, <2>2 DEF Left
<1>8. \A b \in Accounts : keyring'[b] = IF b \in Left(t, Request) THEN Recovered(b) ELSE Wanted(Request, b)
  BY <1>7, ForwardSound DEF ForwardPcs
<1>9. \A change \in t.kept :
         OnDisk(change[1])' = "absent" \/ (OnDisk(change[1])' = "ready" /\ backup'[change[1]] # None)
  <2>1. \A change \in txn.kept : change[1] \in Accounts
    BY ForwardOK DEF ForwardPcs, Txns
  <2>2. QED BY <1>2, <2>1, ForwardSound DEF ForwardPcs
<1>10. QED
  BY <1>1, <1>4, <1>5, <1>6, <1>8, <1>9, GoesOnSound DEF ForwardPcs

LEMMA DeleteAccountSound ==
    ASSUME IInv, SInv, Covered, NEW a \in Accounts, DeleteAccount(a)
    PROVE  SInv' /\ Simulates
<1> DEFINE t == [txn EXCEPT !.todo = @ \ {a}]
<1>1. txn.pc = "delete" /\ a \in txn.todo
  BY DEF DeleteAccount
<1>2. /\ Owner \in Procs /\ txn \in Txns /\ txn.owner = Owner /\ txn.why = "none" /\ txn.loop = "delete"
      /\ Written(Request) \cap Request.deletes = {}
  BY <1>1, ForwardOK DEF ForwardPcs, IInv, LoopOK
<1>3. CASE KeyringFails
  BY <1>1, <1>3, SaveFailsSound DEF ForwardPcs
<1>4. CASE RecordChange(a, keyring[a]) /\ UNCHANGED <<profile, keyring, backup>>
  BY <1>1, <1>4, RecordChangeSound
<1>5. CASE keyring[a] = None /\ Continue(t) /\ UNCHANGED disk
  <2>1. /\ t \in Txns /\ t.owner = Owner /\ t.why = "none" /\ t.loop = "delete" /\ t.pc = "delete"
        /\ t.todo = txn.todo \ {a} /\ t.kept = txn.kept
    BY <1>1, <1>2 DEF Txns
  <2>2. Wanted(Request, a) = None
    <3>1. a \in Request.deletes
      BY <1>1, <1>2, ForwardSound DEF AtWork, ForwardPcs
    <3>2. QED BY <1>2, <3>1 DEF Wanted, Written
  <2> HIDE DEF t
  <2>3. QED
    BY <1>1, <1>2, <1>5, <2>1, <2>2, DoneSound DEF disk
<1>6. QED BY <1>2, <1>3, <1>4, <1>5, Resolves DEF DeleteAccount

\* What is recorded of the account that is changed.
LEMMA MutateFacts ==
    ASSUME IInv, SInv, txn.pc = "mutate"
    PROVE  /\ txn.cur \in Accounts /\ txn.cur \in txn.todo
           /\ OnDisk(txn.cur) = "absent" \/ (OnDisk(txn.cur) = "ready" /\ backup[txn.cur] # None)
BY ForwardSound DEF ForwardPcs, IInv, ControlOK, CurrentOK, AtWork

LEMMA DeleteKeyringSecretSound ==
    ASSUME IInv, SInv, Covered, DeleteKeyringSecret
    PROVE  SInv' /\ Simulates
<1> DEFINE t == [txn EXCEPT !.pc = "delete", !.todo = @ \ {txn.cur}]
<1>1. txn.pc = "mutate" /\ txn.loop = "delete"
  BY DEF DeleteKeyringSecret
<1>2. /\ Owner \in Procs /\ txn \in Txns /\ txn.owner = Owner /\ txn.why = "none"
      /\ Written(Request) \cap Request.deletes = {}
      /\ keyring \in [Accounts -> Maybe(Secrets)]
  BY <1>1, ForwardOK DEF ForwardPcs, IInv, TypeOK, DiskTypeOK
<1>3. CASE KeyringFails
  BY <1>1, <1>3, SaveFailsSound DEF ForwardPcs
<1>4. CASE keyring' = Without(keyring, txn.cur) /\ Continue(t) /\ UNCHANGED <<profile, journal, backup>>
  <2>1. /\ t \in Txns /\ t.owner = Owner /\ t.why = "none" /\ t.loop = "delete" /\ t.pc = "delete"
        /\ t.todo = txn.todo \ {txn.cur} /\ t.kept = txn.kept
    BY <1>1, <1>2 DEF Txns, Pcs
  <2>2. Wanted(Request, txn.cur) = None
    <3>1. txn.cur \in Request.deletes
      BY <1>1, <1>2, ForwardSound, MutateFacts DEF AtWork, ForwardPcs
    <3>2. QED BY <1>1, <1>2, <3>1, MutateFacts DEF Wanted, Written
  <2>3. keyring'[txn.cur] = None /\ \A b \in Accounts \ {txn.cur} : keyring'[b] = keyring[b]
    <3>1. keyring' = [keyring EXCEPT ![txn.cur] = None]
      BY <1>2, <1>4, Resolves
    <3>2. QED BY <1>1, <1>2, <3>1, MutateFacts
  <2> HIDE DEF t
  <2>4. QED
    BY <1>1, <1>2, <1>4, <2>1, <2>2, <2>3, MutateFacts, DoneSound
<1>5. QED BY <1>3, <1>4 DEF DeleteKeyringSecret


\* The keyring refuses a value the caller lets the profile keep: the save is the same
\* save with that value inline.
LEMMA InlineSound ==
    ASSUME IInv, SInv, Covered, txn.pc = "mutate", txn.loop = "store", ~Exact(Request),
           NEW r \in Requests, NEW t \in Txns, t.owner = Owner, t.why = "none", t.loop = "store",
           t.pc = "store", t.todo = txn.todo \ {txn.cur}, t.kept = txn.kept,
           txn' = t, req' = [req EXCEPT ![Owner] = r], UNCHANGED <<disk, stage, view, outcome>>,
           r.op = Request.op, r.deletes = Request.deletes, r.allow = Request.allow,
           r.stores = [Request.stores EXCEPT ![txn.cur] = None],
           r.body.refs = Request.body.refs \ {txn.cur}, r.body.settings = Request.body.settings,
           r.body.inline = [Request.body.inline EXCEPT ![txn.cur] = Request.stores[txn.cur]]
    PROVE  SInv' /\ Simulates
<1> DEFINE a == txn.cur
<1>1. /\ Owner # None /\ Owner \in Procs /\ txn.owner = Owner /\ txn.why = "none"
      /\ Request \in Requests /\ Request = req[Owner] /\ Request # None
      /\ Written(Request) \cap Request.deletes = {} /\ a \in Accounts /\ a \in txn.todo
      /\ txn.todo \subseteq Written(Request)
      /\ req \in [Procs -> Maybe(Requests)]
  BY ForwardOK, MutateFacts, ForwardSound, SavingOK DEF ForwardPcs, SavePcs, AtWork, Request, IInv, TypeOK
<1>2. /\ r.stores[a] = None /\ \A b \in Accounts \ {a} : r.stores[b] = Request.stores[b]
      /\ Written(r) = Written(Request) \ {a} /\ ~Exact(r)
  BY <1>1 DEF Requests, Written, Exact
<1>3. Request' = r /\ Owner' = Owner
  BY <1>1 DEF Request, Owner
<1>4. ProcessesOK'
  BY <1>1, <1>3 DEF SInv, ProcessesOK
<1>5. /\ profile' = profile /\ journal' = journal /\ keyring' = keyring /\ backup' = backup
      /\ \A b \in Accounts : Recovered(b)' = Recovered(b) /\ OnDisk(b)' = OnDisk(b)
      /\ Sealed' /\ NoOrphanBackup'
  BY DiskSame
<1>6. \A b \in Accounts : b \in Left(t, r) <=> b \in Left(txn, Request) /\ b # a
  BY <1>2 DEF Left
<1>7. keyring[a] = Recovered(a) /\ Wanted(r, a) = Recovered(a)
  <2>1. a \in Left(txn, Request) /\ a \notin Request.deletes
    BY <1>1 DEF Left
  <2>2. QED BY <1>1, <1>2, <2>1, ForwardSound DEF ForwardPcs, Wanted
<1>8. \A b \in Accounts : keyring[b] = IF b \in Left(t, r) THEN Recovered(b) ELSE Wanted(r, b)
  <2>1. \A b \in Accounts \ {a} : Wanted(r, b) = Wanted(Request, b)
    BY <1>2 DEF Wanted
  <2>2. QED BY <1>6, <1>7, <2>1, ForwardSound DEF ForwardPcs
<1>9. EffectOK'
  <2>1. /\ AtWork(txn, Request)' = AtWork(t, r) /\ Left(txn, Request)' = Left(t, r)
        /\ \A b \in Accounts : Wanted(Request, b)' = Wanted(r, b)
    BY <1>3, <1>5 DEF AtWork, Left, Wanted, Exact, Written
  <2>2. AtWork(t, r)
    BY <1>1, <1>2 DEF AtWork
  <2>3. QED BY <1>5, <1>8, <2>1, <2>2 DEF EffectOK
<1>10. KeptOK'
  <2>1. \A change \in txn.kept : change[1] \in Accounts
    BY ForwardOK DEF ForwardPcs, Txns
  <2>2. QED BY <1>5, <2>1, ForwardSound DEF KeptOK, ForwardPcs
<1>11. PurposeOK' /\ UndoableOK' /\ UndoneOK' /\ CleanOK' /\ WriteOK'
  BY DEF PurposeOK, UndoableOK, UndoneOK, CleanOK, WriteOK, ForwardPcs
<1>12. Simulates
  <2>1. \A p \in Procs : Applied(p)' = FALSE /\ Applied(p) = FALSE
    BY <1>1 DEF Applied, Owner
  <2>2. r \in Atomic!Downgrades(Request)
    <3> DEFINE kept == {a}
    <3>1. /\ kept \in SUBSET {b \in Accounts : Request.stores[b] # None}
          /\ r.stores = [b \in Accounts |-> IF b \in kept THEN None ELSE Request.stores[b]]
          /\ r.body.refs = Request.body.refs \ kept
          /\ r.body.inline = [b \in Accounts |-> IF b \in kept THEN Request.stores[b] ELSE Request.body.inline[b]]
      BY <1>1 DEF Written, Requests, Bodies
    <3> HIDE DEF kept
    <3>2. QED BY <1>1, <3>1, DowngradeIs
  <2>3. Atomic!Downgrade(Owner)
    <3>1. req[Owner] # None /\ ~Applied(Owner) /\ r \in Atomic!Downgrades(req[Owner])
      BY <1>1, <2>1, <2>2
    <3>2. profile' = profile /\ outcome' = outcome /\ req' = [req EXCEPT ![Owner] = r]
      BY <1>5
    <3>3. /\ [b \in Accounts |-> Recovered(b)]' = [b \in Accounts |-> Recovered(b)]
          /\ [p \in Procs |-> Applied(p)]' = [p \in Procs |-> Applied(p)]
          /\ [p \in Procs |-> Applied(p)][Owner] = Applied(Owner)
      <4>1. \A p \in Procs : Applied(p)' = Applied(p)
        BY <2>1
      <4>2. QED BY <1>1, <1>5, <4>1
    <3>4. QED BY <3>1, <3>2, <3>3 DEF Atomic!Downgrade
  <2>4. QED BY <1>1, <2>3 DEF Simulates, Atomic!Next
<1>13. QED BY <1>4, <1>5, <1>9, <1>10, <1>11, <1>12 DEF SInv

LEMMA StoreKeyringSecretSound ==
    ASSUME IInv, SInv, Covered, StoreKeyringSecret
    PROVE  SInv' /\ Simulates
<1> DEFINE a     == txn.cur
           value == Request.stores[a]
           done  == [txn EXCEPT !.pc = "store", !.todo = @ \ {a}]
           kept  == IF Exact(Request) THEN txn.kept ELSE txn.kept \cup {<<a, txn.previous>>}
           t     == [done EXCEPT !.kept = kept]
           r     == [Request EXCEPT !.stores[a] = None, !.body.refs = @ \ {a}, !.body.inline[a] = value]
<1>1. /\ txn \in Txns /\ txn.owner = Owner /\ Owner # None /\ Owner \in Procs
      /\ stage[Owner] = "saving" /\ txn.pc = "mutate" /\ txn.why = "none"
      /\ txn.loop = "store" /\ a \in Accounts /\ Request \in Requests
      /\ value \in Maybe(Secrets) /\ txn.previous \in Maybe(Secrets)
      /\ Written(Request) \cap Request.deletes = {}
      /\ Exact(Request) => ~Request.allow
      /\ keyring \in [Accounts -> Maybe(Secrets)]
  BY ForwardOK, MutateFacts DEF StoreKeyringSecret, ForwardPcs, IInv, TypeOK, DiskTypeOK, Requests, Txns
<1>2. /\ done \in Txns /\ done.owner = Owner /\ done.why = "none" /\ done.loop = "store"
      /\ done.pc = "store" /\ done.todo = txn.todo \ {a} /\ done.kept = txn.kept
  BY <1>1 DEF Txns, Pcs
<1>3. CASE StoreRefused
  BY <1>1, <1>3, SaveFailsSound DEF ForwardPcs
<1>4. CASE /\ keyring' = [keyring EXCEPT ![a] = value]
           /\ Continue(t)
           /\ UNCHANGED <<profile, journal, backup>>
  <2>1. /\ t \in Txns /\ t.owner = Owner /\ t.why = "none" /\ t.loop = "store"
        /\ t.pc = "store" /\ t.todo = txn.todo \ {a} /\ t.kept = kept
    <3>1. kept \in SUBSET (Accounts \X Maybe(Secrets))
      BY <1>1 DEF Txns
    <3> HIDE DEF kept
    <3>2. QED BY <1>1, <1>2, <3>1 DEF Txns
  <2>2. Wanted(Request, a) = value
    <3>1. a \in Written(Request)
      BY <1>1, ForwardSound, MutateFacts DEF AtWork, ForwardPcs
    <3>2. QED BY <3>1 DEF Wanted, Written
  <2>3. keyring'[a] = value /\ \A b \in Accounts \ {a} : keyring'[b] = keyring[b]
    BY <1>1, <1>4
  <2>4. \A change \in t.kept : change \in txn.kept \/ change[1] = a
    BY <2>1
  <2> HIDE DEF t, kept
  <2>5. QED
    BY <1>1, <1>4, <2>1, <2>2, <2>3, <2>4, MutateFacts, DoneSound
<1>5. CASE /\ Request.allow
           /\ txn' = done
           /\ req' = [req EXCEPT ![Owner] = r]
           /\ UNCHANGED <<disk, stage, view, outcome>>
  <2>1. ~Exact(Request)
    BY <1>1, <1>5
  <2>2. /\ r \in Requests /\ r.op = Request.op /\ r.deletes = Request.deletes /\ r.allow = Request.allow
        /\ r.stores = [Request.stores EXCEPT ![a] = None]
        /\ r.body.refs = Request.body.refs \ {a} /\ r.body.settings = Request.body.settings
        /\ r.body.inline = [Request.body.inline EXCEPT ![a] = value]
    BY <1>1 DEF Requests, Bodies, Maybe
  <2> HIDE DEF r, done
  <2>3. QED
    BY <1>1, <1>2, <1>5, <2>1, <2>2, InlineSound
<1>6. QED BY <1>3, <1>4, <1>5 DEF StoreKeyringSecret, Request


\* The first backup of an account is stored beside the entry it is a copy of.
LEMMA StoreBackupSound == ASSUME IInv, SInv, Covered, StoreBackup PROVE SInv' /\ Simulates
<1> DEFINE t == [txn EXCEPT !.pc = "ready"]
           a == txn.cur
<1>1. /\ txn \in Txns /\ txn.owner = Owner /\ Owner # None /\ txn.pc = "backup" /\ txn.why = "none"
      /\ a \in Accounts /\ txn.previous # None /\ txn.journal.changes[a] = "pending"
      /\ backup[a] = None /\ txn.previous = keyring[a] /\ OnDisk(a) = "pending"
      /\ AtWork(txn, Request) /\ backup \in [Accounts -> Maybe(Secrets)]
  BY ForwardOK, ForwardSound DEF StoreBackup, ForwardPcs, IInv, ControlOK, CurrentOK, TypeOK, DiskTypeOK
<1>2. CASE StoreRefused
  BY <1>1, <1>2, SaveFailsSound DEF ForwardPcs
<1>3. CASE /\ backup' = [backup EXCEPT ![a] = txn.previous]
           /\ Continue(t)
           /\ UNCHANGED <<profile, journal, keyring>>
  <2>1. /\ t \in Txns /\ t.owner = Owner /\ t.why = "none" /\ t.loop = txn.loop /\ t.pc = "ready"
        /\ t.todo = txn.todo /\ t.cur = a /\ t.kept = txn.kept
    BY <1>1 DEF Txns, Pcs
  <2> HIDE DEF t
  <2>2. /\ backup'[a] = keyring[a] /\ \A b \in Accounts \ {a} : backup'[b] = backup[b]
        /\ \A b \in Accounts : OnDisk(b)' = OnDisk(b)
        /\ InFlight' = InFlight /\ (journal # None => InFlight)
    BY <1>1, <1>3, ForwardDisk DEF OnDisk, InFlight, Committed, ForwardPcs
  <2>3. \A b \in Accounts : Recovered(b)' = Recovered(b)
    <3>1. \A b \in Accounts :
            Recovered(b)' = IF OnDisk(b) = "unrecorded" THEN keyring[b]
                            ELSE IF OnDisk(b) = "absent" THEN None
                            ELSE IF backup'[b] # None THEN backup'[b] ELSE keyring[b]
      BY <1>3, <2>2 DEF Recovered, OnDisk, InFlight
    <3>2. QED BY <1>1, <2>2, <3>1, ForwardSound DEF ForwardPcs
  <2>4. Sealed' /\ NoOrphanBackup'
    <3>1. \A b \in Accounts : backup'[b] # None => OnDisk(b)' \in {"pending", "ready"}
      BY <1>1, <2>2, ForwardSound DEF ForwardPcs
    <3>2. NoOrphanBackup'
      BY <3>1 DEF NoOrphanBackup, OnDisk
    <3>3. Sealed'
      BY <1>3, <2>2, <1>1 DEF SInv, Sealed
    <3>4. QED BY <3>2, <3>3
  <2>5. \A change \in t.kept :
           OnDisk(change[1])' = "absent" \/ (OnDisk(change[1])' = "ready" /\ backup'[change[1]] # None)
    BY <1>1, <2>1, <2>2, KeptStays DEF ForwardPcs
  <2>6. AtWork(t, Request) /\ Left(t, Request) = Left(txn, Request)
    BY <1>1, <2>1 DEF AtWork, Left
  <2>7. QED
    BY <1>1, <1>3, <2>1, <2>3, <2>4, <2>5, <2>6, ForwardSound, GoesOnSound DEF ForwardPcs
<1>4. QED BY <1>2, <1>3 DEF StoreBackup

LEMMA PersistReadySound == ASSUME IInv, SInv, Covered, PersistReady PROVE SInv' /\ Simulates
<1> DEFINE a == txn.cur
           t == [txn EXCEPT !.pc = "mutate", !.journal.changes[txn.cur] = "ready"]
           u == [t EXCEPT !.pc = txn.pc]
<1>1. /\ txn \in Txns /\ txn.owner = Owner /\ Owner # None
      /\ txn.pc = "ready" /\ txn.why = "none" /\ txn.loop # "none"
      /\ a \in Accounts /\ txn.previous # None /\ txn.journal.changes[a] = "pending"
      /\ backup[a] # None /\ OnDisk(a) = "pending"
      /\ txn.journal \in KeyringTransactionJournal
      /\ txn.journal.target = None /\ ~txn.journal.restored /\ AtWork(txn, Request)
      /\ UNCHANGED <<profile, keyring, backup>>
  BY ForwardOK, ForwardSound DEF PersistReady, ForwardPcs, IInv, ControlOK, CurrentOK, LoopOK
<1>2. /\ t \in Txns /\ t.owner = Owner /\ t.why = "none" /\ t.loop = txn.loop /\ t.pc = "mutate"
      /\ t.todo = txn.todo /\ t.cur = a /\ t.kept = txn.kept
      /\ t.journal \in KeyringTransactionJournal
      /\ t.journal.target = None /\ ~t.journal.restored
      /\ t.journal.changes = [txn.journal.changes EXCEPT ![a] = "ready"]
  BY <1>1 DEF Txns, Pcs, KeyringTransactionJournal, Marks
<1>3. u \in Txns /\ u.owner = Owner /\ u.loop = txn.loop /\ u.kept = txn.kept /\ u.why = "none" /\ u.journal = t.journal
  BY <1>1, <1>2 DEF Txns
<1>4. (Continue(t) /\ journal' = t.journal) \/ (Fail(u) /\ journal' = journal /\ "journal" \in Faults)
  BY DEF PersistReady, Persist, Covered
<1>5. /\ \A b \in Accounts \ {a} : t.journal.changes[b] = txn.journal.changes[b]
      /\ t.journal.changes[a] = "ready"
      /\ \A b \in Accounts : OnDisk(b) = txn.journal.changes[b]
  BY <1>1, <1>2, ForwardSound DEF ForwardPcs, KeyringTransactionJournal
<1> HIDE DEF t, u
<1>6. CASE Continue(t) /\ journal' = t.journal
  <2>1. /\ \A b \in Accounts : Recovered(b)' = Recovered(b) /\ OnDisk(b)' = t.journal.changes[b]
        /\ Sealed' /\ NoOrphanBackup' /\ InFlight'
    BY <1>1, <1>2, <1>5, <1>6, ForwardSound, JournalWritten DEF ForwardPcs
  <2>2. \A change \in t.kept :
           OnDisk(change[1])' = "absent" \/ (OnDisk(change[1])' = "ready" /\ backup'[change[1]] # None)
    BY <1>1, <1>2, <1>5, <2>1, KeptStays DEF ForwardPcs
  <2>3. AtWork(t, Request) /\ Left(t, Request) = Left(txn, Request)
    BY <1>1, <1>2 DEF AtWork, Left
  <2>4. QED
    BY <1>1, <1>2, <1>6, <2>1, <2>2, <2>3, ForwardSound, GoesOnSound DEF ForwardPcs
<1>7. CASE Fail(u) /\ journal' = journal /\ "journal" \in Faults
  <2>1. Tracks(u.journal)
    BY <1>1, <1>3, <1>5 DEF Tracks, Undoes
  <2>2. Exact(Request) /\ UNCHANGED disk
    BY <1>1, <1>7, FaultsExact DEF ForwardPcs, disk
  <2>3. QED BY <1>1, <1>3, <1>7, <2>1, <2>2, FailSound DEF ForwardPcs
<1>8. QED BY <1>4, <1>6, <1>7

\* A save moves on to its next loop or check: what is left is what was left.
LEMMA NextLoopSound ==
    ASSUME IInv, SInv, Covered, txn.pc \in {"store", "delete", "conflict"}, UNCHANGED disk,
           NEW t \in Txns, Continue(t), t.owner = Owner, t.why = "none", t.kept = txn.kept,
           t.pc \in {"store", "delete", "conflict", "digest"},
           AtWork(t, Request),
           \A a \in Accounts : a \in Left(t, Request) <=> a \in Left(txn, Request)
    PROVE  SInv' /\ Simulates
<1>1. Owner # None /\ txn.why = "none"
  BY ForwardOK DEF ForwardPcs
<1>2. \A change \in txn.kept : change[1] \in Accounts
  BY ForwardOK DEF ForwardPcs, Txns
<1>3. \A change \in t.kept :
         OnDisk(change[1])' = "absent" \/ (OnDisk(change[1])' = "ready" /\ backup'[change[1]] # None)
  BY <1>2, DiskSame, ForwardSound DEF ForwardPcs
<1>4. QED
  BY <1>1, <1>3, DiskSame, ForwardSound, GoesOnSound DEF ForwardPcs

LEMMA LoopDoneSound == ASSUME IInv, SInv, Covered, LoopDone PROVE SInv' /\ Simulates
<1>1. /\ txn \in Txns /\ txn.owner = Owner /\ txn.why = "none" /\ txn.todo = {}
      /\ txn.pc \in {"store", "delete"} /\ txn.loop = txn.pc /\ Request \in Requests
      /\ UNCHANGED disk
  BY ForwardOK DEF LoopDone, ForwardPcs, IInv, LoopOK
<1>2. CASE Exact(Request) /\ txn.loop = "store"
  <2> DEFINE t == [txn EXCEPT !.pc = "delete", !.loop = "delete", !.todo = Request.deletes]
  <2>1. Continue(t)
    BY <1>2 DEF LoopDone
  <2>2. /\ t \in Txns /\ t.owner = Owner /\ t.why = "none" /\ t.kept = txn.kept
        /\ t.pc = "delete" /\ t.loop = "delete" /\ t.todo = Request.deletes
    BY <1>1 DEF Txns, Pcs, Requests
  <2> HIDE DEF t
  <2>3. AtWork(t, Request) /\ \A a \in Accounts : a \in Left(t, Request) <=> a \in Left(txn, Request)
    BY <1>1, <1>2, <2>2 DEF AtWork, Left
  <2>4. QED BY <1>1, <2>1, <2>2, <2>3, NextLoopSound
<1>3. CASE txn.loop = "delete"
  <2> DEFINE t == [txn EXCEPT !.pc = "conflict", !.loop = "none"]
  <2>1. Continue(t)
    BY <1>3 DEF LoopDone
  <2>2. /\ t \in Txns /\ t.owner = Owner /\ t.why = "none" /\ t.kept = txn.kept
        /\ t.pc = "conflict" /\ t.loop = "none"
    BY <1>1 DEF Txns, Pcs
  <2> HIDE DEF t
  <2>3. AtWork(t, Request) /\ \A a \in Accounts : a \in Left(t, Request) <=> a \in Left(txn, Request)
    BY <1>1, <1>3, <2>2 DEF AtWork, Left
  <2>4. QED BY <1>1, <2>1, <2>2, <2>3, NextLoopSound
<1>4. CASE ~Exact(Request) /\ txn.loop = "store"
  <2> DEFINE t == [txn EXCEPT !.pc = "digest", !.loop = "none"]
  <2>1. Continue(t)
    BY <1>4 DEF LoopDone
  <2>2. /\ t \in Txns /\ t.owner = Owner /\ t.why = "none" /\ t.kept = txn.kept
        /\ t.pc = "digest" /\ t.loop = "none"
    BY <1>1 DEF Txns, Pcs
  <2> HIDE DEF t
  <2>3. AtWork(t, Request) /\ \A a \in Accounts : a \in Left(t, Request) <=> a \in Left(txn, Request)
    BY <1>1, <1>4, <2>2 DEF AtWork, Left
  <2>4. QED BY <1>1, <2>1, <2>2, <2>3, NextLoopSound
<1>5. QED BY <1>1, <1>2, <1>3, <1>4

LEMMA CheckConflictSound == ASSUME IInv, SInv, Covered, CheckConflict PROVE SInv' /\ Simulates
<1>1. /\ txn \in Txns /\ txn.owner = Owner /\ Owner # None /\ txn.why = "none"
      /\ txn.pc = "conflict" /\ txn.loop = "none" /\ Request \in Requests
      /\ UNCHANGED disk
  BY ForwardOK DEF CheckConflict, ForwardPcs, IInv, LoopOK
<1>2. CASE Exact(Request) /\ Continue([txn EXCEPT !.pc = "digest"])
  <2> DEFINE t == [txn EXCEPT !.pc = "digest"]
  <2>1. /\ t \in Txns /\ t.owner = Owner /\ t.why = "none" /\ t.kept = txn.kept
        /\ t.pc = "digest" /\ t.loop = "none"
    BY <1>1 DEF Txns, Pcs
  <2>2. Continue(t)
    BY <1>2
  <2> HIDE DEF t
  <2>3. AtWork(t, Request) /\ \A a \in Accounts : a \in Left(t, Request) <=> a \in Left(txn, Request)
    BY <1>1, <1>2, <2>1 DEF AtWork, Left
  <2>4. QED BY <1>1, <2>1, <2>2, <2>3, NextLoopSound
<1>3. CASE ~Exact(Request) /\ Continue([txn EXCEPT !.pc = "store", !.loop = "store", !.todo = Written(Request)])
  <2> DEFINE t == [txn EXCEPT !.pc = "store", !.loop = "store", !.todo = Written(Request)]
  <2>1. /\ t \in Txns /\ t.owner = Owner /\ t.why = "none" /\ t.kept = txn.kept
        /\ t.pc = "store" /\ t.loop = "store" /\ t.todo = Written(Request)
    BY <1>1 DEF Txns, Pcs, Written
  <2>2. Continue(t)
    BY <1>3
  <2> HIDE DEF t
  <2>3. AtWork(t, Request) /\ \A a \in Accounts : a \in Left(t, Request) <=> a \in Left(txn, Request)
    BY <1>1, <1>3, <2>1 DEF AtWork, Left
  <2>4. QED BY <1>1, <2>1, <2>2, <2>3, NextLoopSound
<1>4. CASE Exact(Request) /\ Backout(txn)
  BY <1>1, <1>4, ForwardSound, BackoutSound DEF ForwardPcs
<1>5. CASE Leave("err")
  BY <1>1, <1>5, LeaveSound
<1>6. QED BY <1>2, <1>3, <1>4, <1>5 DEF CheckConflict


---------------------------------------------------------------------------
(* The save takes effect *)

\* The profile and the accounts change together.
LEMMA ApplySound ==
    ASSUME IInv, stage[Owner] = "saving", Owner \in Procs, UNCHANGED clients, Owner' = Owner,
           Applied(Owner) = FALSE, Applied(Owner)' = TRUE, profile' = Request.body,
           \A a \in Accounts : Recovered(a)' = Wanted(Request, a)
    PROVE  Simulates
<1>1. req[Owner] # None /\ req' = req /\ outcome' = outcome /\ Request = req[Owner]
  BY DEF IInv, ControlOK, clients, Request
<1>2. \A p \in Procs : Applied(p)' = IF p = Owner THEN TRUE ELSE Applied(p)
  BY DEF Applied, Owner
<1>3. [p \in Procs |-> Applied(p)]' = [[p \in Procs |-> Applied(p)] EXCEPT ![Owner] = TRUE]
  BY <1>2
<1>4. [a \in Accounts |-> Recovered(a)]' =
        [a \in Accounts |-> IF req[Owner].stores[a] # None THEN req[Owner].stores[a]
                            ELSE IF a \in req[Owner].deletes THEN None
                            ELSE [b \in Accounts |-> Recovered(b)][a]]
  BY <1>1 DEF Wanted
<1>5. Atomic!Apply(Owner)
  BY <1>1, <1>3, <1>4 DEF Atomic!Apply
<1>6. QED BY <1>5 DEF Simulates, Atomic!Next

\* The save is about to write the profile.
LEMMA AboutToWrite ==
    ASSUME IInv, SInv, txn.pc = "digest", NEW t \in Txns, Continue(t), t.owner = Owner,
           t.pc = "write", t.why = "none", t.loop = "none", profile' = profile, keyring' = keyring,
           Sealed', NoOrphanBackup',
           journal' = IF Recorded(t.journal) = {} THEN None ELSE t.journal, ~t.journal.restored,
           Recorded(t.journal) # {} => t.journal.target = Request.body,
           \A a \in Accounts : Recovered(a)' \in {Recovered(a), keyring[a]}
    PROVE  SInv'
<1>1. txn' = t /\ Request' = Request
  BY ForwardOK DEF Continue, clients, Request, Owner, ForwardPcs
<1>2. ProcessesOK'
  BY DEF Continue, clients, SInv, ProcessesOK
<1>3. txn.loop = "none"
  BY DEF IInv, LoopOK, ForwardPcs
<1>4. Left(txn, Request) = {} /\ Left(t, Request) = {}
  BY <1>3 DEF Left
<1>5. EffectOK'
  <2>1. \A a \in Accounts : keyring[a] = Wanted(Request, a)
    BY <1>4, ForwardSound DEF ForwardPcs
  <2>2. \A a \in Accounts : keyring'[a] = Wanted(Request, a)'
    BY <1>1, <2>1 DEF Wanted
  <2>3. Left(txn, Request)' = {} /\ AtWork(txn, Request)'
    BY <1>1 DEF Left, AtWork
  <2>4. QED BY <1>1, <2>2, <2>3 DEF EffectOK
<1>6. WriteOK'
  BY <1>1 DEF WriteOK, Recorded
<1>7. PurposeOK' /\ KeptOK' /\ UndoableOK' /\ UndoneOK' /\ CleanOK'
  BY <1>1 DEF PurposeOK, KeptOK, UndoableOK, UndoneOK, CleanOK, ForwardPcs
<1>8. QED BY <1>2, <1>5, <1>6, <1>7 DEF SInv

LEMMA SetTargetDigestSound == ASSUME IInv, SInv, Covered, SetTargetDigest PROVE SInv' /\ Simulates
<1> DEFINE s == [txn EXCEPT !.pc = "write"]
           t == [txn EXCEPT !.pc = "write", !.journal.target = Request.body]
           u == [t EXCEPT !.pc = txn.pc]
<1>1. /\ txn \in Txns /\ txn.owner = Owner /\ Owner # None /\ Owner \in Procs /\ txn.why = "none"
      /\ txn.pc = "digest" /\ txn.loop = "none"
      /\ stage[Owner] = "saving" /\ Request \in Requests
      /\ txn.journal \in KeyringTransactionJournal
      /\ txn.journal.target = None /\ ~txn.journal.restored
      /\ journal = IF Recorded(txn.journal) = {} THEN None ELSE txn.journal
      /\ UNCHANGED <<profile, keyring, backup>>
  BY ForwardOK DEF SetTargetDigest, ForwardPcs, IInv, LoopOK
<1>2. /\ s \in Txns /\ s.owner = Owner /\ s.pc = "write" /\ s.why = "none" /\ s.loop = "none"
      /\ s.journal = txn.journal
  BY <1>1 DEF Txns, Pcs
<1>3. /\ t \in Txns /\ t.owner = Owner /\ t.pc = "write" /\ t.journal \in KeyringTransactionJournal
      /\ u \in Txns /\ u.owner = Owner
  BY ZenonT(40), <1>1 DEF Txns, Pcs, KeyringTransactionJournal, Requests, Maybe
<1>4. /\ t.why = "none" /\ t.loop = "none" /\ t.journal.target = Request.body
      /\ t.journal.changes = txn.journal.changes /\ ~t.journal.restored
      /\ u.why = "none" /\ u.loop = "none" /\ u.kept = txn.kept /\ u.journal = t.journal
  BY <1>1 DEF Txns, KeyringTransactionJournal
<1>5. \/ Recorded(txn.journal) = {} /\ Continue(s) /\ journal' = journal
      \/ Recorded(txn.journal) # {} /\ Continue(t) /\ journal' = t.journal
      \/ Fail(u) /\ journal' = journal /\ "journal" \in Faults
      \/ Backout(txn) /\ journal' = journal /\ "encode" \in Faults
  BY DEF SetTargetDigest, Persist, Covered
<1> HIDE DEF s, t, u
<1>6. CASE Recorded(txn.journal) = {} /\ Continue(s) /\ journal' = journal
  <2>1. /\ \A a \in Accounts : Recovered(a)' = Recovered(a)
        /\ Sealed' /\ NoOrphanBackup' /\ profile' = profile /\ journal' = None
    BY <1>1, <1>6, DiskSame DEF disk
  <2>2. SInv'
    BY <1>1, <1>2, <1>6, <2>1, AboutToWrite
  <2>3. \A p \in Procs : Applied(p)' = Applied(p)
    BY <1>1, <1>2, <1>6, <2>1 DEF Applied, Committed, Continue, clients, Owner
  <2>4. QED BY <1>6, <2>1, <2>2, <2>3, StutterOK DEF Continue, clients
<1>7. CASE Recorded(txn.journal) # {} /\ Continue(t) /\ journal' = t.journal
  <2>1. Recorded(t.journal) = Recorded(txn.journal)
    BY <1>4 DEF Recorded
  <2>2. CASE Request.body # profile
    <3>1. PICK a \in Accounts : TRUE
      BY <1>7 DEF Recorded
    <3>2. /\ \A b \in Accounts : Recovered(b)' = Recovered(b)
          /\ Sealed' /\ NoOrphanBackup'
      BY <1>1, <1>3, <1>4, <1>7, <2>2, <3>1, JournalWritten DEF ForwardPcs
    <3>3. SInv'
      BY <1>1, <1>3, <1>4, <1>7, <2>1, <3>2, AboutToWrite
    <3>4. \A p \in Procs : Applied(p)' = Applied(p)
      BY <1>1, <1>3, <1>4, <1>7, <2>2 DEF Applied, Committed, Continue, clients, Owner
    <3>5. QED BY <1>1, <1>7, <3>2, <3>3, <3>4, StutterOK DEF Continue, clients
  <2>3. CASE Request.body = profile
    <3>1. Committed(journal)' /\ ~InFlight'
      BY <1>1, <1>3, <1>4, <1>7, <2>3, NoneIsNoRecord DEF Committed, InFlight
    <3>2. \A a \in Accounts : Recovered(a)' = keyring[a]
      BY <1>1, <3>1 DEF Recovered
    <3>3. Sealed'
      BY <3>1 DEF Sealed
    <3>4. NoOrphanBackup'
      BY <1>1, <1>3, <1>4, <1>7, ForwardSound, NoneIsNoRecord DEF NoOrphanBackup, ForwardPcs
    <3>5. SInv'
      BY <1>1, <1>3, <1>4, <1>7, <2>1, <3>2, <3>3, <3>4, AboutToWrite
    <3>6. \A a \in Accounts : keyring[a] = Wanted(Request, a)
      BY <1>1, ForwardSound DEF ForwardPcs, Left
    <3>7. Owner' = Owner /\ Applied(Owner) = FALSE /\ Applied(Owner)' = TRUE
      BY <1>1, <1>3, <1>7, <3>1 DEF Applied, Continue, clients, Owner
    <3>8. QED
      BY <1>1, <1>7, <2>3, <3>2, <3>5, <3>6, <3>7, ApplySound DEF Continue
  <2>4. QED BY <2>2, <2>3
<1>8. CASE Fail(u) /\ journal' = journal /\ "journal" \in Faults
  <2>1. Tracks(u.journal)
    BY <1>1, <1>4, ForwardSound DEF Tracks, Undoes, ForwardPcs
  <2>2. Exact(Request) /\ UNCHANGED disk
    BY <1>1, <1>8, FaultsExact DEF ForwardPcs, disk
  <2>3. QED BY <1>1, <1>3, <1>4, <1>8, <2>1, <2>2, FailSound DEF ForwardPcs
<1>9. CASE Backout(txn) /\ journal' = journal /\ "encode" \in Faults
  <2>1. Exact(Request) /\ UNCHANGED disk
    BY <1>1, <1>9, FaultsExact DEF ForwardPcs, disk
  <2>2. QED BY <1>1, <1>9, <2>1, ForwardSound, BackoutSound DEF ForwardPcs
<1>10. QED BY <1>5, <1>6, <1>7, <1>8, <1>9

LEMMA WriteProfileSound == ASSUME IInv, SInv, Covered, WriteProfile PROVE SInv' /\ Simulates
<1> DEFINE t == [txn EXCEPT !.pc = "clean", !.why = "commit", !.todo = BackedUp(txn.journal)]
<1>1. /\ txn.pc = "write" /\ Continue(t) /\ profile' = Request.body
      /\ UNCHANGED <<journal, keyring, backup>>
  BY DEF WriteProfile, Covered
<1>2. /\ txn \in Txns /\ txn.owner = Owner /\ Owner # None /\ Owner \in Procs
      /\ stage[Owner] = "saving" /\ Request \in Requests
  BY <1>1, HolderOK, SavingOK DEF SavePcs
<1>3. /\ t \in Txns /\ t.owner = Owner /\ t.pc = "clean" /\ t.why = "commit" /\ t.todo = BackedUp(txn.journal)
  BY <1>2 DEF Txns, Pcs, BackedUp
<1> HIDE DEF t
<1>4. /\ txn.why = "none" /\ txn.loop = "none"
      /\ journal = IF Recorded(txn.journal) = {} THEN None ELSE txn.journal
      /\ ~txn.journal.restored
      /\ Recorded(txn.journal) # {} => txn.journal.target = Request.body
      /\ \A a \in Accounts : keyring[a] = Wanted(Request, a)
  BY <1>1 DEF SInv, PurposeOK, WriteOK, EffectOK, Left
<1>5. ~InFlight' /\ \A a \in Accounts : Recovered(a)' = keyring[a]
  BY <1>1, <1>4 DEF InFlight, Committed, Recovered
<1>6. SInv'
  <2>1. txn' = t /\ ProcessesOK'
    BY <1>1 DEF Continue, clients, SInv, ProcessesOK
  <2>2. CleanOK'
    <3>1. \A a \in Accounts : backup[a] # None => a \in BackedUp(txn.journal)
      BY <1>4 DEF SInv, NoOrphanBackup, BackedUp
    <3>2. QED BY <1>1, <1>3, <1>5, <2>1, <3>1 DEF CleanOK
  <2>3. Sealed' /\ NoOrphanBackup'
    BY <1>1, <1>5 DEF SInv, Sealed, NoOrphanBackup
  <2>4. PurposeOK' /\ KeptOK' /\ UndoableOK' /\ UndoneOK' /\ EffectOK' /\ WriteOK'
    BY <1>3, <2>1 DEF PurposeOK, KeptOK, UndoableOK, UndoneOK, EffectOK, WriteOK, ForwardPcs
  <2>5. QED BY <2>1, <2>2, <2>3, <2>4 DEF SInv
<1>7. Owner' = Owner /\ Applied(Owner)' = TRUE /\ \A p \in Procs \ {Owner} : Applied(p)' = FALSE /\ Applied(p) = FALSE
  BY <1>1, <1>2, <1>3 DEF Applied, Continue, clients, Owner
<1>8. CASE ~Committed(journal)
  <2>1. Applied(Owner) = FALSE
    BY <1>4, <1>8 DEF Applied
  <2>2. QED
    BY <1>1, <1>2, <1>4, <1>5, <1>6, <1>7, <2>1, ApplySound DEF Continue
<1>9. CASE Committed(journal)
  <2>1. profile' = profile
    BY <1>1, <1>4, <1>9 DEF Committed
  <2>2. Applied(Owner) = TRUE
    BY <1>1, <1>2, <1>9 DEF Applied
  <2>3. \A a \in Accounts : Recovered(a)' = Recovered(a)
    BY <1>5, <1>9 DEF Recovered, InFlight
  <2>4. \A p \in Procs : Applied(p)' = Applied(p)
    BY <1>7, <2>2
  <2>5. QED
    BY <1>1, <1>6, <2>1, <2>3, <2>4, StutterOK DEF Continue, clients
<1>10. QED BY <1>8, <1>9

\* The rollback of the bulk path's stores is followed by the transaction's.
LEMMA UndoEndsSound ==
    ASSUME IInv, SInv, Covered, txn.pc = "undo", Continue(Rollback(txn)), UNCHANGED disk
    PROVE  SInv' /\ Simulates
<1> DEFINE t == Rollback(txn)
<1>1. /\ Owner # None /\ Owner \in Procs /\ txn \in Txns /\ txn.owner = Owner
      /\ txn.journal \in KeyringTransactionJournal
  BY HolderOK DEF Txns
<1>2. /\ t \in Txns /\ t.owner = Owner /\ t.pc = "restore" /\ t.why = "rollback"
      /\ t.journal = txn.journal /\ t.todo = Recorded(txn.journal)
  BY <1>1 DEF Rollback, Txns, Pcs, Recorded
<1>3. Continue(t) /\ txn.why # "commit"
  BY DEF SInv, PurposeOK
<1> HIDE DEF t
<1>4. /\ journal # None => InFlight
      /\ \A a \in Accounts : Undoes(OnDisk(a), txn.journal.changes[a], keyring[a])
  BY DEF SInv, UndoableOK, Tracks
<1>5. \A a \in Accounts \ t.todo : keyring[a] = Recovered(a)
  BY <1>2, <1>4, RecoveredOpen DEF Recorded, Undoes
<1>6. QED
  BY <1>1, <1>2, <1>3, <1>4, <1>5, DiskSame, EndPhaseSound DEF EndPcs

LEMMA UndoSound == ASSUME IInv, SInv, Covered, Undo PROVE SInv' /\ Simulates
<1>1. /\ txn.pc = "undo" /\ txn.why = "rollback"
      /\ Owner # None /\ Owner \in Procs /\ txn \in Txns /\ txn.owner = Owner
  BY HolderOK DEF Undo, SInv, PurposeOK
<1>2. CASE Continue(Rollback(txn)) /\ UNCHANGED disk
  BY <1>1, <1>2, UndoEndsSound
<1>3. ASSUME NEW change \in txn.kept,
             keyring' = IF change[2] = None THEN Without(keyring, change[1])
                        ELSE [keyring EXCEPT ![change[1]] = change[2]],
             Continue([txn EXCEPT !.kept = @ \ {change}]),
             UNCHANGED <<profile, journal, backup>>
      PROVE  SInv' /\ Simulates
  <2> DEFINE t == [txn EXCEPT !.kept = @ \ {change}]
             a == change[1]
  <2>1. a \in Accounts /\ keyring' = [keyring EXCEPT ![a] = change[2]]
    <3>1. a \in Accounts
      BY <1>1 DEF Txns
    <3>2. Without(keyring, change[1]) = [keyring EXCEPT ![change[1]] = None]
      BY <1>1, Zenon, Resolves
    <3>3. QED BY <1>3, <3>1, <3>2
  <2>2. /\ t \in Txns /\ t.owner = Owner /\ t.pc = "undo" /\ t.why = "rollback"
        /\ t.journal = txn.journal /\ t.kept = txn.kept \ {change}
    BY <1>1 DEF Txns
  <2>3. Continue(t) /\ txn' = t
    BY <1>3 DEF Continue
  <2>4. OnDisk(a) = "absent" \/ (OnDisk(a) = "ready" /\ backup[a] # None)
    BY <1>1 DEF SInv, KeptOK
  <2> HIDE DEF t, a
  <2>5. /\ journal # None => InFlight
        /\ \A b \in Accounts : Undoes(OnDisk(b), txn.journal.changes[b], keyring[b])
    BY <1>1 DEF SInv, UndoableOK, Tracks
  <2>6. /\ InFlight' = InFlight /\ \A b \in Accounts : OnDisk(b)' = OnDisk(b)
        /\ \A b \in Accounts \ {a} : keyring'[b] = keyring[b]
    BY <1>3, <2>1 DEF InFlight, Committed, OnDisk, IInv, TypeOK, DiskTypeOK
  <2>7. \A b \in Accounts : Recovered(b)' = Recovered(b)
    <3>1. journal' # None => InFlight'
      BY <1>3, <2>5, <2>6
    <3>2. \A b \in Accounts :
            Recovered(b)' = IF OnDisk(b)' = "unrecorded" THEN keyring'[b]
                           ELSE IF OnDisk(b)' = "absent" THEN None
                           ELSE IF backup'[b] # None THEN backup'[b] ELSE keyring'[b]
      BY <3>1 DEF Recovered, OnDisk, InFlight
    <3>3. QED BY <1>3, <2>4, <2>5, <2>6, <3>2, RecoveredOpen
  <2>8. Sealed' /\ NoOrphanBackup'
    BY <1>3, <2>6 DEF SInv, Sealed, NoOrphanBackup
  <2>9. UndoableOK'
    <3>1. \A b \in Accounts : Undoes(OnDisk(b)', t.journal.changes[b], keyring'[b])
      BY <2>2, <2>4, <2>5, <2>6 DEF Undoes
    <3>2. journal' # None => InFlight'
      BY <1>3, <2>5, <2>6
    <3>3. QED BY <2>3, <3>1, <3>2 DEF UndoableOK, Tracks
  <2>10. KeptOK'
    <3>1. \A c \in t.kept : c \in txn.kept /\ c[1] \in Accounts
      BY <1>1, <2>2 DEF Txns
    <3>2. QED BY <1>1, <1>3, <2>3, <2>6, <3>1 DEF SInv, KeptOK
  <2>11. ProcessesOK'
    BY <2>3 DEF Continue, clients, SInv, ProcessesOK
  <2>12. PurposeOK' /\ UndoneOK' /\ CleanOK' /\ EffectOK' /\ WriteOK'
    BY <2>2, <2>3 DEF PurposeOK, UndoneOK, CleanOK, EffectOK, WriteOK, ForwardPcs
  <2>13. Simulates
    BY <1>1, <1>3, <2>2, <2>3, <2>7, SilentOK
  <2>14. QED BY <2>8, <2>9, <2>10, <2>11, <2>12, <2>13 DEF SInv
<1>4. QED BY <1>1, <1>2, <1>3 DEF Undo

LEMMA HolderStepSound == ASSUME IInv, SInv, Covered, HolderStep PROVE SInv' /\ Simulates
BY RecoverSound, RestoreDoneSound, MarkRestoredSound, CleanDoneSound, RemoveJournalSound, StoreBackupSound,
   PersistReadySound, DeleteKeyringSecretSound, StoreKeyringSecretSound, LoopDoneSound, CheckConflictSound,
   SetTargetDigestSound, WriteProfileSound, UndoSound, RestoreChangeSound, CleanBackupSound,
   DeleteAccountSound, StoreAccountSound DEF HolderStep

---------------------------------------------------------------------------
(* The steps of the processes, and the initial states *)

\* A step of a process that does not hold the lock changes nothing for the lock holder.
LEMMA ClientSound ==
    ASSUME IInv, SInv, NEW p \in Procs, Owner # p,
           UNCHANGED disk, UNCHANGED txn,
           \A q \in Procs \ {p} : stage'[q] = stage[q] /\ req'[q] = req[q],
           req'[p] # None => stage'[p] \in {"save", "saving"} /\ req'[p].op \in Ops
    PROVE  /\ SInv'
           /\ \A q \in Procs : Applied(q)' = Applied(q)
           /\ \A a \in Accounts : Recovered(a)' = Recovered(a)
           /\ profile' = profile
<1>2. /\ Owner' = Owner
      /\ Owner # None => Owner \in Procs /\ Request' = Request /\ stage'[Owner] = stage[Owner]
      /\ txn.pc # "free" => Owner # None
  BY DEF Owner, Request, IInv, TypeOK, ControlOK, Txns, Maybe
<1>3. /\ profile' = profile /\ journal' = journal /\ keyring' = keyring /\ backup' = backup
      /\ \A a \in Accounts : Recovered(a)' = Recovered(a) /\ OnDisk(a)' = OnDisk(a)
      /\ Sealed' /\ NoOrphanBackup' /\ InFlight' = InFlight
  BY DiskSame
<1>4. ProcessesOK'
  BY DEF SInv, ProcessesOK
<1>5. PurposeOK' /\ KeptOK'
  <2>1. \A change \in txn.kept : change[1] \in Accounts
    BY DEF IInv, TypeOK, Txns
  <2>2. QED BY <1>3, <2>1 DEF SInv, PurposeOK, KeptOK
<1>6. UndoableOK' /\ UndoneOK' /\ CleanOK'
  BY <1>3 DEF SInv, UndoableOK, UndoneOK, CleanOK, Tracks
<1>7. EffectOK' /\ WriteOK'
  <2>1. CASE txn.pc \in ForwardPcs \cup {"write"}
    <3>1. Request' = Request
      BY <1>2, <2>1 DEF ForwardPcs
    <3>2. /\ Left(txn, Request)' = Left(txn, Request) /\ AtWork(txn, Request)' = AtWork(txn, Request)
          /\ \A a \in Accounts : Wanted(Request, a)' = Wanted(Request, a)
      BY <1>3, <3>1 DEF Left, AtWork, Wanted, Exact, Written
    <3>3. QED BY <1>3, <3>1, <3>2 DEF SInv, EffectOK, WriteOK, Recorded
  <2>2. CASE txn.pc \notin ForwardPcs \cup {"write"}
    BY <2>2 DEF EffectOK, WriteOK
  <2>3. QED BY <2>1, <2>2
<1>8. \A q \in Procs : Applied(q)' = Applied(q)
  BY <1>2, <1>3 DEF Applied, Committed
<1>9. QED BY <1>3, <1>4, <1>5, <1>6, <1>7, <1>8 DEF SInv

LEMMA LockSound == ASSUME IInv, SInv, NEW p \in Procs, Lock(p) PROVE SInv' /\ Simulates
<1>1. /\ txn'.pc = "recover" /\ txn'.why = "none" /\ txn'.kept = {} /\ Owner' = p
      /\ txn.pc = "free" /\ Owner = None
  BY DEF Lock, NoWork, Owner, IInv, ControlOK
<1>2. UNCHANGED <<disk, req, outcome>>
  BY DEF Lock
<1>3. ProcessesOK'
  BY <1>2 DEF Lock, SInv, ProcessesOK, IInv, TypeOK
<1>4. PurposeOK' /\ KeptOK' /\ UndoableOK' /\ UndoneOK' /\ CleanOK' /\ EffectOK' /\ WriteOK'
  BY <1>1 DEF PurposeOK, KeptOK, UndoableOK, UndoneOK, CleanOK, EffectOK, WriteOK, ForwardPcs
<1>5. \A q \in Procs : Applied(q)' = FALSE /\ Applied(q) = FALSE
  <2>1. Owner \notin Procs
    BY <1>1, ConstantsOK
  <2>2. QED BY <1>1, <2>1 DEF Applied
<1>6. QED BY <1>2, <1>3, <1>4, <1>5, DiskSame, StutterOK DEF SInv

LEMMA CrashSound == ASSUME IInv, SInv, NEW p \in Procs, Crash(p) PROVE SInv' /\ Simulates
<1>1. /\ UNCHANGED disk /\ req' = [req EXCEPT ![p] = None] /\ outcome' = outcome
      /\ stage' = [stage EXCEPT ![p] = "idle"]
      /\ req \in [Procs -> Maybe(Requests)] /\ stage \in [Procs -> Stages]
  BY DEF Crash, IInv, TypeOK
<1>2. CASE Owner = p
  <2>1. txn' = NoWork
    BY <1>2 DEF Crash
  <2>2. PurposeOK' /\ KeptOK' /\ UndoableOK' /\ UndoneOK' /\ CleanOK' /\ EffectOK' /\ WriteOK'
    BY <2>1 DEF PurposeOK, KeptOK, UndoableOK, UndoneOK, CleanOK, EffectOK, WriteOK, ForwardPcs, NoWork
  <2>3. ProcessesOK'
    BY <1>1 DEF SInv, ProcessesOK
  <2>4. \A q \in Procs : Applied(q)' = FALSE
    BY <2>1, ConstantsOK DEF Applied, Owner, NoWork
  <2>5. \A q \in Procs \ {p} : Applied(q) = FALSE
    BY <1>2 DEF Applied
  <2>6. QED BY <1>1, <2>2, <2>3, <2>4, <2>5, DiskSame DEF SInv, Simulates, Atomic!Next, Atomic!Vanish
<1>3. CASE Owner # p
  <2>1. /\ UNCHANGED txn /\ \A q \in Procs \ {p} : stage'[q] = stage[q] /\ req'[q] = req[q]
        /\ req'[p] = None
    BY <1>1, <1>3 DEF Crash
  <2>2. /\ SInv' /\ profile' = profile
        /\ \A q \in Procs : Applied(q)' = Applied(q)
        /\ \A a \in Accounts : Recovered(a)' = Recovered(a)
    BY <1>1, <1>3, <2>1, ClientSound
  <2>3. Applied(p) = FALSE
    BY <1>3 DEF Applied
  <2>4. Atomic!Vanish(p)
    <3>1. [q \in Procs |-> Applied(q)]' = [[q \in Procs |-> Applied(q)] EXCEPT ![p] = FALSE]
      BY <2>2, <2>3
    <3>2. QED BY <1>1, <2>2, <3>1 DEF Atomic!Vanish
  <2>5. QED BY <2>2, <2>4 DEF Simulates, Atomic!Next
<1>4. QED BY <1>2, <1>3

\* A step that neither the disk nor the callers of the save see.
LEMMA UnseenSound ==
    ASSUME IInv, SInv, NEW p \in Procs, stage[p] \notin {"save", "saving", "recovering"},
           NEW to \in Stages, stage' = [stage EXCEPT ![p] = to], UNCHANGED <<disk, txn, req, outcome>>
    PROVE  SInv' /\ Simulates
<1>1. Owner # p /\ req[p] = None
  BY ConstantsOK DEF IInv, ControlOK, SInv, ProcessesOK
<1>2. \A q \in Procs \ {p} : stage'[q] = stage[q] /\ req'[q] = req[q]
  BY DEF IInv, TypeOK
<1>3. QED BY <1>1, <1>2, ClientSound, StutterOK

LEMMA StartLoadSound == ASSUME IInv, SInv, NEW p \in Procs, StartLoad(p) PROVE SInv' /\ Simulates
<1>1. /\ stage[p] = "idle" /\ stage' = [stage EXCEPT ![p] = "recover"]
      /\ outcome' = [outcome EXCEPT ![p] = "none"] /\ UNCHANGED <<disk, txn, req>>
  BY DEF StartLoad
<1>2. Owner # p /\ req[p] = None /\ \A q \in Procs \ {p} : stage'[q] = stage[q]
  BY <1>1, ConstantsOK DEF IInv, TypeOK, ControlOK, SInv, ProcessesOK
<1>3. /\ SInv' /\ profile' = profile
      /\ \A q \in Procs : Applied(q)' = Applied(q)
      /\ \A a \in Accounts : Recovered(a)' = Recovered(a)
  BY <1>1, <1>2, ClientSound
<1>4. Atomic!Start(p)
  BY <1>1, <1>2, <1>3 DEF Atomic!Start
<1>5. QED BY <1>3, <1>4 DEF Simulates, Atomic!Next

LEMMA SubmitSound == ASSUME IInv, SInv, NEW p \in Procs, Submit(p) PROVE SInv' /\ Simulates
<1>1. /\ stage[p] = "loaded" /\ stage' = [stage EXCEPT ![p] = "save"] /\ UNCHANGED <<disk, txn, outcome>>
  BY DEF Submit
<1>2. PICK r \in Saves(view[p]) : req' = [req EXCEPT ![p] = r]
  BY DEF Submit
<1>3. r \in Requests /\ r.op \in Ops
  <2>1. view[p] \in Views
    BY <1>1 DEF IInv, TypeOK, ControlOK, Maybe
  <2>2. r.op \in Ops
    BY DEF Saves
  <2>3. QED BY <2>1, <2>2, SavesOK
<1>4. /\ Owner # p /\ req[p] = None /\ req'[p] = r
      /\ \A q \in Procs \ {p} : stage'[q] = stage[q] /\ req'[q] = req[q]
      /\ stage'[p] = "save"
  BY <1>1, <1>2, ConstantsOK DEF IInv, TypeOK, ControlOK, SInv, ProcessesOK
<1>5. /\ SInv' /\ profile' = profile
      /\ \A q \in Procs : Applied(q)' = Applied(q)
      /\ \A a \in Accounts : Recovered(a)' = Recovered(a)
  BY <1>1, <1>3, <1>4, ClientSound
<1>6. Atomic!Submit(p)
  BY <1>1, <1>2, <1>3, <1>4, <1>5 DEF Atomic!Submit
<1>7. QED BY <1>5, <1>6 DEF Simulates, Atomic!Next

LEMMA ProcessStepSound == ASSUME IInv, SInv, NEW p \in Procs, ProcessStep(p) PROVE SInv' /\ Simulates
<1>1. stage \in [Procs -> Stages] /\ stage[p] \in Stages
  BY DEF IInv, TypeOK
<1>2. CASE RemoveTmp(p)
  BY <1>2, UnseenSound DEF RemoveTmp, Stages
<1>3. CASE ReadProfile(p)
  BY <1>3, UnseenSound DEF ReadProfile, Stages
<1>4. CASE Loaded(p)
  BY <1>4, UnseenSound DEF Loaded, Stages
<1>5. CASE Quit(p)
  BY <1>5, UnseenSound DEF Quit, Stages
<1>6. ASSUME NEW a \in Accounts, ResolveRef(p, a) PROVE SInv' /\ Simulates
  <2>1. stage[p] = "resolve" /\ stage' = [stage EXCEPT ![p] = "resolve"] /\ UNCHANGED <<disk, txn, req, outcome>>
    BY <1>1, <1>6 DEF ResolveRef
  <2>2. QED BY <2>1, UnseenSound DEF Stages
<1>7. QED
  BY <1>2, <1>3, <1>4, <1>5, <1>6, StartLoadSound, LockSound, SubmitSound, CrashSound DEF ProcessStep

LEMMA InitSound == Init => SInv /\ Atomic!Init
<1> SUFFICES ASSUME Init PROVE SInv /\ Atomic!Init
  OBVIOUS
<1>1. txn = NoWork /\ journal = None /\ backup = [a \in Accounts |-> None] /\ ~InFlight
  BY DEF Init, InFlight
<1>2. ProcessesOK /\ Sealed /\ NoOrphanBackup
  BY <1>1 DEF Init, ProcessesOK, Sealed, NoOrphanBackup
<1>3. PurposeOK /\ KeptOK /\ UndoableOK /\ UndoneOK /\ CleanOK /\ EffectOK /\ WriteOK
  BY <1>1 DEF PurposeOK, KeptOK, UndoableOK, UndoneOK, CleanOK, EffectOK, WriteOK, ForwardPcs, NoWork
<1>4. \A p \in Procs : Applied(p) = FALSE
  BY <1>1, ConstantsOK DEF Applied, Owner, NoWork
<1>5. QED BY <1>2, <1>3, <1>4 DEF SInv, Atomic!Init, Init

LEMMA StepSound == IInv /\ SInv /\ Covered /\ [Next]_vars => SInv' /\ Simulates
<1> SUFFICES ASSUME IInv, SInv, Covered, [Next]_vars PROVE SInv' /\ Simulates
  OBVIOUS
<1>1. CASE HolderStep
  BY <1>1, HolderStepSound
<1>2. ASSUME NEW p \in Procs, ProcessStep(p) PROVE SInv' /\ Simulates
  BY <1>2, ProcessStepSound
<1>3. CASE UNCHANGED vars
  <2>1. /\ UNCHANGED disk /\ txn' = txn /\ stage' = stage /\ req' = req /\ outcome' = outcome
    BY <1>3 DEF vars, disk
  <2>2. \A p \in Procs : Applied(p)' = Applied(p)
    BY <2>1 DEF Applied, Committed, Owner, disk
  <2>3. /\ Request' = Request
        /\ Left(txn, Request)' = Left(txn, Request) /\ AtWork(txn, Request)' = AtWork(txn, Request)
        /\ \A a \in Accounts : Wanted(Request, a)' = Wanted(Request, a)
    BY <2>1, DiskSame DEF Left, AtWork, Wanted, Exact, Written, Request, Owner
  <2>4. EffectOK' /\ WriteOK'
    BY <2>1, <2>3, DiskSame DEF SInv, EffectOK, WriteOK, Recorded
  <2>5. KeptOK'
    <3>1. \A change \in txn.kept : change[1] \in Accounts
      BY DEF IInv, TypeOK, Txns
    <3>2. QED BY <2>1, <3>1, DiskSame DEF SInv, KeptOK
  <2>6. ProcessesOK' /\ PurposeOK' /\ UndoableOK' /\ UndoneOK' /\ CleanOK'
    BY <2>1, DiskSame DEF SInv, ProcessesOK, PurposeOK, UndoableOK, UndoneOK, CleanOK, Tracks
  <2>7. QED BY <2>1, <2>2, <2>4, <2>5, <2>6, DiskSame, StutterOK DEF SInv
<1>4. QED BY <1>1, <1>2, <1>3 DEF Next

---------------------------------------------------------------------------
(* What a save keeps *)

\* restore_keyring_changes, rollback_and_abort: whenever the lock holder dies, whatever
\* recovery will need is still there, and what is being undone is never what recovery
\* would take for committed.
THEOREM Recoverable == Covered => (Spec => []RecoverableJournal)
<1> SUFFICES ASSUME Covered PROVE Spec => []RecoverableJournal
  OBVIOUS
<1>1. IInv /\ SInv => RecoverableJournal
  <2> SUFFICES ASSUME IInv, SInv PROVE RecoverableJournal
    OBVIOUS
  <2>1. txn.pc \in {"restore", "undo"} => ~Committed(journal)
    BY DEF SInv, UndoableOK, InFlight, Committed
  <2>2. QED BY <2>1 DEF RecoverableJournal, SInv, Sealed
<1>2. IInv /\ SInv /\ [Next]_vars => IInv' /\ SInv'
  BY StepOK, StepSound
<1>3. Init => IInv /\ SInv
  BY InitOK, InitSound
<1>4. QED BY <1>1, <1>2, <1>3, PTL DEF Spec

\* delete_backup_entries, finish: a backup of a secret is never in the keyring without a
\* journal that names it, so the removal of the journal leaves no copy behind.
THEOREM LeavesNoBackup == Covered => (Spec => []NoOrphanBackup)
<1> SUFFICES ASSUME Covered PROVE Spec => []NoOrphanBackup
  OBVIOUS
<1>1. IInv /\ SInv => NoOrphanBackup
  BY DEF SInv
<1>2. IInv /\ SInv /\ [Next]_vars => IInv' /\ SInv'
  BY StepOK, StepSound
<1>3. Init => IInv /\ SInv
  BY InitOK, InitSound
<1>4. QED BY <1>1, <1>2, <1>3, PTL DEF Spec

\* KeyringTransaction: the profile and the accounts behind it change together or not at
\* all, as recovery would leave them, and a save that returns success has changed them.
THEOREM SavesAtomically == Covered => (Spec => ImplementsAtomicSave)
<1> SUFFICES ASSUME Covered PROVE Spec => ImplementsAtomicSave
  OBVIOUS
<1>1. IInv /\ SInv /\ [Next]_vars => IInv' /\ SInv' /\ [Atomic!Next]_(Atomic!vars)
  BY StepOK, StepSound DEF Simulates
<1>2. Init => IInv /\ SInv /\ Atomic!Init
  BY InitOK, InitSound
<1>3. QED BY <1>1, <1>2, PTL DEF Spec, ImplementsAtomicSave, Atomic!Spec

---------------------------------------------------------------------------
(* One process: the profile keeps no reference to an empty account *)

Alone == \A p, q \in Procs : p = q

\* What a request refers to it stores or the profile refers to already, and it
\* deletes none of it.
Supported(r, refs) ==
    /\ r.body.refs \subseteq Written(r) \cup refs
    /\ r.deletes \cap r.body.refs = {}

ViewsOK ==
    \A p \in Procs : view[p] # None => stage[p] \in {"resolve", "loaded"} /\ view[p].body = profile

SupportOK == \A p \in Procs : req[p] # None => Supported(req[p], profile.refs)

Grounded == NoDanglingRef /\ ViewsOK /\ SupportOK

\* What the lock holder leaves alone: views, and processes without a request.
Asks == view' = view /\ \A p \in Procs : req[p] = None => req'[p] = None

LEMMA EndAsks ==
    ASSUME IInv, Owner # None, NEW result, NEW rolledBack, End(result, rolledBack)
    PROVE  Asks
<1>1. CASE stage[Owner] = "recovering"
  BY <1>1 DEF End, Asks
<1>2. CASE stage[Owner] # "recovering"
  <2>1. req[Owner] # None /\ view' = view
    BY <1>2 DEF End, IInv, ControlOK, TypeOK, Txns, Owner, Maybe
  <2>2. PICK next : req' = [req EXCEPT ![Owner] = next]
    BY <1>2 DEF End
  <2>3. QED BY <2>1, <2>2 DEF Asks, IInv, TypeOK
<1>3. QED BY <1>1, <1>2

LEMMA FailAsks ==
    ASSUME IInv, Owner # None, NEW t, Fail(t)
    PROVE  Asks
BY EndAsks DEF Fail, Backout, Leave, Continue, clients, Asks

LEMMA PersistAsks ==
    ASSUME IInv, Owner # None, NEW t, Persist(t)
    PROVE  Asks
<1>1. CASE Continue(t)
  BY <1>1 DEF Continue, clients, Asks
<1>2. CASE Fail([t EXCEPT !.pc = txn.pc])
  BY <1>2, FailAsks
<1>3. QED BY <1>1, <1>2 DEF Persist

LEMMA HolderAsks == ASSUME IInv, HolderStep PROVE Asks
<1>0. Owner # None
  BY HolderOK DEF HolderStep, Recover, RestoreDone, MarkRestored, CleanDone, RemoveJournal, StoreBackup,
     PersistReady, DeleteKeyringSecret, StoreKeyringSecret, LoopDone, CheckConflict, SetTargetDigest,
     WriteProfile, Undo, RestoreChange, CleanBackup, DeleteAccount, StoreAccount
<1>1. \A t : Continue(t) => Asks
  BY DEF Continue, clients, Asks
<1>2. \A t : Fail(t) => Asks
  BY <1>0, FailAsks
<1>3. \A t : Persist(t) => Asks
  BY <1>0, PersistAsks
<1>4. \A result, rolledBack : End(result, rolledBack) => Asks
  BY <1>0, EndAsks
<1>5. (KeyringFails => Asks) /\ (StoreRefused => Asks)
  BY <1>2 DEF KeyringFails, StoreRefused
<1>6. \A t : Begin(t) => Asks
  BY <1>1, <1>4 DEF Begin, Leave
<1>7. \A t : Backout(t) => Asks
  BY <1>1 DEF Backout
<1>8. \A a, previous : RecordChange(a, previous) => Asks
  BY <1>1, <1>3 DEF RecordChange
<1>9. CASE Recover \/ RestoreDone \/ MarkRestored \/ CleanDone \/ RemoveJournal
  BY <1>1, <1>2, <1>3, <1>4, <1>6, <1>9 DEF Recover, RestoreDone, MarkRestored, CleanDone, RemoveJournal, Leave
<1>10. CASE StoreBackup \/ PersistReady \/ DeleteKeyringSecret \/ LoopDone
  BY <1>1, <1>3, <1>5, <1>10 DEF StoreBackup, PersistReady, DeleteKeyringSecret, LoopDone
<1>11. CASE CheckConflict \/ SetTargetDigest \/ WriteProfile \/ Undo
  BY <1>1, <1>3, <1>4, <1>7, <1>11 DEF CheckConflict, SetTargetDigest, WriteProfile, Undo, Leave
<1>12. CASE StoreKeyringSecret
  <2>1. req[Owner] # None
    BY <1>12, ForwardOK, SavingOK DEF StoreKeyringSecret, ForwardPcs, SavePcs
  <2>2. CASE \E t : Continue(t)
    BY <1>1, <2>2
  <2>3. CASE StoreRefused
    BY <1>5, <2>3
  <2>4. CASE \E r : req' = [req EXCEPT ![Owner] = r] /\ view' = view
    BY <2>1, <2>4 DEF Asks, IInv, TypeOK
  <2>5. QED BY <1>12, <2>2, <2>3, <2>4 DEF StoreKeyringSecret
<1>13. ASSUME NEW a \in Accounts, RestoreChange(a) \/ CleanBackup(a) \/ DeleteAccount(a) \/ StoreAccount(a)
       PROVE  Asks
  BY <1>1, <1>4, <1>5, <1>8, <1>13 DEF RestoreChange, CleanBackup, DeleteAccount, StoreAccount, Leave
<1>14. QED BY <1>9, <1>10, <1>11, <1>12, <1>13 DEF HolderStep

\* The saves of a view refer to what they store or to what the profile refers to.
LEMMA SavesSupported ==
    ASSUME NEW v \in Views, NEW r \in Saves(v)
    PROVE  Supported(r, v.body.refs)
<1>0. /\ v.body.refs \subseteq Accounts /\ v.secrets \in [Accounts -> Maybe(Secrets)]
      /\ \A fields : \A a \in Accounts : Cleared(v, fields)[a] = IF a \in fields THEN None ELSE v.secrets[a]
  BY DEF Views, Bodies, Cleared
<1>1. ASSUME NEW a \in Accounts, NEW s \in Secrets, r = SetRequest(v, a, s)
      PROVE  Supported(r, v.body.refs)
  <2>1. s # None
    BY ConstantsOK
  <2>2. r.body = [v.body EXCEPT !.refs = @ \cup {a}, !.inline[a] = None] /\ r.deletes = {}
        /\ r.stores = [NoStores EXCEPT ![a] = s]
    BY <1>1 DEF SetRequest
  <2>3. r.body.refs = v.body.refs \cup {a} /\ a \in Written(r)
    BY <2>1, <2>2 DEF Views, Bodies, Written, NoStores
  <2>4. QED BY <2>2, <2>3 DEF Supported
<1>2. ASSUME NEW a \in Accounts, r = UnsetRequest(v, a)
      PROVE  Supported(r, v.body.refs)
  <2>1. r.body = [v.body EXCEPT !.refs = @ \ {a}, !.inline[a] = None] /\ r.deletes = {a} \cap v.body.refs
    BY <1>2 DEF UnsetRequest
  <2>2. r.body.refs = v.body.refs \ {a}
    BY <2>1 DEF Views, Bodies
  <2>3. QED BY <2>1, <2>2 DEF Supported
<1>3. ASSUME NEW op, NEW settings, NEW secrets, NEW cleared, NEW allow, NEW deletes,
             \A a \in deletes : a \in cleared /\ secrets[a] = None,
             r = BulkRequest(op, v, settings, secrets, cleared, allow, deletes)
      PROVE  Supported(r, v.body.refs)
  BY <1>3 DEF BulkRequest, Supported, Written
<1>4. ASSUME NEW settings \in Settings, NEW allow \in BOOLEAN, r = ResaveRequest(v, settings, allow)
      PROVE  Supported(r, v.body.refs)
  BY <1>3, <1>4 DEF ResaveRequest
<1>5. ASSUME NEW a \in Accounts, NEW s \in Secrets, NEW superseded \in SUBSET v.body.refs,
             NEW allow \in BOOLEAN, r = LoginRequest(v, a, s, superseded, allow)
      PROVE  Supported(r, v.body.refs)
  <2> DEFINE secrets == [Cleared(v, superseded) EXCEPT ![a] = s]
  <2>1. \A b \in superseded \ {a} : b \in superseded /\ secrets[b] = None
    BY <1>0
  <2>2. r = BulkRequest("login", v, v.body.settings, secrets, superseded, allow, superseded \ {a})
    BY <1>5 DEF LoginRequest
  <2> HIDE DEF secrets
  <2>3. QED BY <1>3, <2>1, <2>2
<1>6. ASSUME NEW fields \in SUBSET Accounts, r = LogoutRequest(v, fields)
      PROVE  Supported(r, v.body.refs)
  <2>1. r = BulkRequest("logout", v, v.body.settings, Cleared(v, fields), fields, FALSE,
                        fields \cap v.body.refs)
    BY <1>6 DEF LogoutRequest
  <2>2. \A a \in fields \cap v.body.refs : a \in fields /\ Cleared(v, fields)[a] = None
    BY <1>0
  <2>3. QED BY <1>3, <2>1, <2>2
<1>7. \/ \E a \in Accounts, s \in Secrets : r = SetRequest(v, a, s)
      \/ \E a \in Accounts : r = UnsetRequest(v, a)
      \/ \E settings \in Settings, allow \in BOOLEAN : r = ResaveRequest(v, settings, allow)
      \/ \E a \in Accounts, s \in Secrets, superseded \in SUBSET v.body.refs, allow \in BOOLEAN :
            r = LoginRequest(v, a, s, superseded, allow)
      \/ \E fields \in SUBSET Accounts : r = LogoutRequest(v, fields)
  BY DEF Saves
<1>8. QED BY <1>1, <1>2, <1>4, <1>5, <1>6, <1>7

\* A save with some of its secrets kept inline still needs no more than it stores.
LEMMA DowngradeSupported ==
    ASSUME NEW r \in Requests, NEW refs, Supported(r, refs), NEW next
    PROVE  next \in Atomic!Downgrades(r) => Supported(next, refs)
<1> DEFINE Kept == SUBSET {a \in Accounts : r.stores[a] # None}
           Allow == {r.allow, TRUE}
           down(k, al) ==
              [r EXCEPT !.allow = al,
               !.stores = [a \in Accounts |-> IF a \in k THEN None ELSE @[a]],
               !.body.refs = @ \ k,
               !.body.inline = [a \in Accounts |-> IF a \in k THEN r.stores[a] ELSE @[a]]]
<1>1. Atomic!Downgrades(r) = {down(k, al) : k \in Kept, al \in Allow}
  BY DEF Atomic!Downgrades
<1>2. \A k, al : /\ down(k, al).deletes = r.deletes /\ down(k, al).body.refs = r.body.refs \ k
                 /\ down(k, al).stores = [a \in Accounts |-> IF a \in k THEN None ELSE r.stores[a]]
  BY DEF Requests, Bodies
<1> HIDE DEF down, Kept, Allow
<1> HAVE next \in Atomic!Downgrades(r)
<1>5. PICK kept, allow : next = down(kept, allow)
  BY SMT, <1>1
<1>6. /\ next.deletes = r.deletes /\ next.body.refs = r.body.refs \ kept
      /\ next.stores = [a \in Accounts |-> IF a \in kept THEN None ELSE r.stores[a]]
  BY <1>2, <1>5
<1>3. r.body.refs \subseteq Accounts
  BY DEF Requests, Bodies
<1>4. QED BY <1>3, <1>6 DEF Supported, Written

\* A step of a process that is not the lock holder's leaves the profile alone, and
\* only Submit asks for a save.
LEMMA ProcessAsks ==
    ASSUME IInv, NEW p \in Procs, ProcessStep(p)
    PROVE  profile' = profile /\ (Submit(p) \/ \A q \in Procs : req[q] = None => req'[q] = None)
BY DEF ProcessStep, StartLoad, Lock, RemoveTmp, ReadProfile, Loaded, Quit, Submit, Crash, ResolveRef,
   disk, IInv, TypeOK

LEMMA ViewsStep == ASSUME Alone, IInv, ViewsOK, [Next]_vars PROVE ViewsOK'
<1>1. CASE HolderStep
  <2>1. Owner \in Procs /\ stage[Owner] \in {"recovering", "saving"}
    BY <1>1, HolderOK DEF HolderStep, Recover, RestoreDone, MarkRestored, CleanDone, RemoveJournal, StoreBackup,
     PersistReady, DeleteKeyringSecret, StoreKeyringSecret, LoopDone, CheckConflict, SetTargetDigest,
     WriteProfile, Undo, RestoreChange, CleanBackup, DeleteAccount, StoreAccount, IInv, ControlOK
  <2>2. \A p \in Procs : view[p] = None
    BY <2>1 DEF Alone, ViewsOK
  <2>3. QED BY <1>1, <2>2, HolderAsks DEF Asks, ViewsOK
<1>2. ASSUME NEW p \in Procs, ProcessStep(p) PROVE ViewsOK'
  <2>1. /\ stage \in [Procs -> Stages] /\ view \in [Procs -> Maybe(Views)] /\ profile' = profile
        /\ \A q \in Procs : view[q] # None => stage[q] \in {"resolve", "loaded"} /\ view[q].body = profile
        /\ stage[p] \in {"resolve", "loaded"} => view[p] # None
    BY <1>2, ProcessAsks DEF ViewsOK, IInv, TypeOK, ControlOK
  <2>2. CASE StartLoad(p) \/ Lock(p) \/ RemoveTmp(p) \/ Loaded(p)
    BY <2>1, <2>2 DEF StartLoad, Lock, RemoveTmp, Loaded, ViewsOK
  <2>3. CASE Quit(p) \/ Submit(p) \/ Crash(p)
    BY <2>1, <2>3 DEF Quit, Submit, Crash, ViewsOK
  <2>4. CASE ReadProfile(p)
    BY <2>1, <2>4 DEF ReadProfile, ViewsOK
  <2>5. ASSUME NEW a \in Accounts, ResolveRef(p, a) PROVE ViewsOK'
    <3>1. PICK value : view' = [view EXCEPT ![p].unread = @ \ {a}, ![p].secrets[a] = value]
      BY <2>5 DEF ResolveRef
    <3>2. view[p] \in Views
      BY <2>1, <2>5 DEF ResolveRef, Maybe
    <3>3. view'[p].body = view[p].body /\ \A q \in Procs \ {p} : view'[q] = view[q]
      BY <2>1, <3>1, <3>2 DEF Views
    <3>4. QED BY <2>1, <2>5, <3>2, <3>3 DEF ResolveRef, ViewsOK
  <2>6. QED BY <1>2, <2>2, <2>3, <2>4, <2>5 DEF ProcessStep
<1>3. CASE UNCHANGED vars
  BY <1>3 DEF vars, ViewsOK
<1>4. QED BY <1>1, <1>2, <1>3 DEF Next

\* The saves that are asked for are supported by the profile, and stay so.
LEMMA GroundedStep ==
    ASSUME Alone, Covered, IInv, SInv, Grounded, [Next]_vars
    PROVE  Grounded'
<1>1. Simulates /\ ViewsOK'
  BY StepSound, ViewsStep DEF Grounded
<1>2. /\ req \in [Procs -> Maybe(Requests)] /\ view \in [Procs -> Maybe(Views)] /\ profile \in Bodies
      /\ \A p \in Procs : req[p] # None => Supported(req[p], profile.refs)
      /\ \A a \in profile.refs : Recovered(a) # None
  BY DEF IInv, TypeOK, DiskTypeOK, Grounded, SupportOK, NoDanglingRef
<1>3. ASSUME NEW p \in Procs, req[p] = None, req'[p] # None
      PROVE  Supported(req'[p], profile'.refs)
  <2>1. Submit(p)
    <3>1. CASE HolderStep
      BY <1>3, <3>1, HolderAsks DEF Asks
    <3>2. ASSUME NEW q \in Procs, ProcessStep(q) PROVE Submit(p)
      BY <1>3, <3>2, ProcessAsks DEF Alone
    <3>3. CASE UNCHANGED vars
      BY <1>3, <3>3 DEF vars
    <3>4. QED BY <3>1, <3>2, <3>3 DEF Next
  <2>2. PICK r \in Saves(view[p]) : req' = [req EXCEPT ![p] = r]
    BY <2>1 DEF Submit
  <2>3. view[p] \in Views /\ view[p].body = profile /\ profile' = profile
    BY <1>2, <2>1 DEF Submit, IInv, ControlOK, Grounded, ViewsOK, Maybe, disk
  <2>4. QED BY <1>2, <2>2, <2>3, SavesSupported
<1>4. ASSUME profile' = profile, \A a \in Accounts : Recovered(a)' = Recovered(a),
             \A p \in Procs : req'[p] \in {req[p], None} \cup Atomic!Downgrades(req[p]) \/ req[p] = None
      PROVE  NoDanglingRef' /\ SupportOK'
  <2>1. NoDanglingRef'
    BY <1>2, <1>4 DEF NoDanglingRef, Bodies
  <2>2. ASSUME NEW p \in Procs, req'[p] # None, req[p] # None
        PROVE  Supported(req'[p], profile'.refs)
    <3>1. req[p] \in Requests /\ Supported(req[p], profile.refs)
      BY <1>2, <2>2 DEF Maybe
    <3>2. CASE req'[p] \in Atomic!Downgrades(req[p])
      BY <1>4, <3>1, <3>2, DowngradeSupported
    <3>3. QED BY <1>4, <2>2, <3>1, <3>2
  <2>3. QED BY <1>3, <2>1, <2>2 DEF SupportOK
<1>5. ASSUME NEW p \in Procs, req[p] # None, profile' = req[p].body, req' = req,
             \A a \in Accounts : Recovered(a)' = Wanted(req[p], a)
      PROVE  NoDanglingRef' /\ SupportOK'
  <2>1. /\ req[p] \in Requests /\ Supported(req[p], profile.refs) /\ profile'.refs \subseteq Accounts
        /\ \A q \in Procs : q = p
    BY <1>2, <1>5 DEF Maybe, Requests, Bodies, Alone
  <2>2. NoDanglingRef'
    BY <1>2, <1>5, <2>1 DEF NoDanglingRef, Wanted, Supported, Written
  <2>3. SupportOK'
    BY <1>5, <2>1 DEF SupportOK, Supported
  <2>4. QED BY <2>2, <2>3
<1> DEFINE Entries == [a \in Accounts |-> Recovered(a)]
<1>6. (Entries' = Entries => \A a \in Accounts : Recovered(a)' = Recovered(a))
  <2>1. \A a \in Accounts : Entries[a] = Recovered(a) /\ Entries'[a] = Recovered(a)'
    OBVIOUS
  <2> HIDE DEF Entries
  <2>2. QED BY <2>1
<1>7. ASSUME UNCHANGED Atomic!vars PROVE NoDanglingRef' /\ SupportOK'
  <2>1. profile' = profile /\ Entries' = Entries /\ req' = req
    BY <1>7 DEF Atomic!vars
  <2>2. QED BY <1>4, <1>6, <2>1
<1>8. ASSUME NEW p \in Procs, Atomic!Start(p) \/ Atomic!Submit(p) \/ Atomic!Downgrade(p) \/ Atomic!Vanish(p)
      PROVE  NoDanglingRef' /\ SupportOK'
  <2>1. CASE Atomic!Start(p)
    BY <1>4, <1>6, <2>1 DEF Atomic!Start
  <2>2. CASE Atomic!Submit(p)
    BY <1>2, <1>4, <1>6, <2>2 DEF Atomic!Submit
  <2>3. CASE Atomic!Downgrade(p)
    BY <1>2, <1>4, <1>6, <2>3 DEF Atomic!Downgrade
  <2>4. CASE Atomic!Vanish(p)
    BY <1>2, <1>4, <1>6, <2>4 DEF Atomic!Vanish
  <2>5. QED BY <1>8, <2>1, <2>2, <2>3, <2>4
<1>9. ASSUME NEW p \in Procs, NEW result \in {"ok", "err"}, Atomic!Return(p, result)
      PROVE  NoDanglingRef' /\ SupportOK'
  BY <1>2, <1>4, <1>6, <1>9 DEF Atomic!Return
<1>10. ASSUME NEW p \in Procs, Atomic!Apply(p)
       PROVE  NoDanglingRef' /\ SupportOK'
  <2>1. req[p] # None /\ profile' = req[p].body /\ req' = req
    BY <1>10 DEF Atomic!Apply
  <2>2. Entries' = [a \in Accounts |-> IF req[p].stores[a] # None THEN req[p].stores[a]
                                      ELSE IF a \in req[p].deletes THEN None
                                      ELSE Entries[a]]
    BY <1>10 DEF Atomic!Apply
  <2>3. \A a \in Accounts : Entries[a] = Recovered(a) /\ Entries'[a] = Recovered(a)'
    OBVIOUS
  <2> HIDE DEF Entries
  <2>4. \A a \in Accounts : Recovered(a)' = Wanted(req[p], a)
    BY <2>2, <2>3 DEF Wanted
  <2>5. QED BY <1>5, <2>1, <2>4
<1>11. NoDanglingRef' /\ SupportOK'
  <2>1. Atomic!Next \/ UNCHANGED Atomic!vars
    BY <1>1 DEF Simulates
  <2>2. ASSUME Atomic!Next PROVE NoDanglingRef' /\ SupportOK'
    BY <1>8, <1>9, <1>10, <2>2 DEF Atomic!Next
  <2>3. QED BY <1>7, <2>1, <2>2
<1>12. QED BY <1>1, <1>11 DEF Grounded

\* write_config_exact and the bulk path: a single process never leaves a profile that
\* refers to an account without a secret, even after a crash.
THEOREM NoReferenceDangles == Covered /\ Alone => (Spec => []NoDanglingRef)
<1> SUFFICES ASSUME Covered, Alone PROVE Spec => []NoDanglingRef
  OBVIOUS
<1>1. Init => IInv /\ SInv /\ Grounded
  <2> SUFFICES ASSUME Init PROVE Grounded
    BY InitOK, InitSound
  <2>1. NoDanglingRef
    BY DEF Init, NoDanglingRef, Recovered, InFlight
  <2>2. ViewsOK /\ SupportOK
    BY DEF Init, ViewsOK, SupportOK
  <2>3. QED BY <2>1, <2>2 DEF Grounded
<1>2. IInv /\ SInv /\ Grounded /\ [Next]_vars => IInv' /\ SInv' /\ Grounded'
  BY StepOK, StepSound, GroundedStep
<1>3. Grounded => NoDanglingRef
  BY DEF Grounded
<1>4. QED BY <1>1, <1>2, <1>3, PTL DEF Spec
=============================================================================
