--------------------------- MODULE MongoMutation ---------------------------
(***************************************************************************)
(* ayx mongo mutate and ayx mongo undo (ayx-server/src/mongo.rs and        *)
(* ayx-rs/src/cmd/mongo.rs): a preview reads the documents and writes an   *)
(* approval artifact; --apply validates artifacts, asks a person, writes   *)
(* a prepared execution artifact, lets mongosh run one transaction and     *)
(* records how it ended. Processes run side by side and die; mongosh       *)
(* outlives them; the server and other clients write the same documents.   *)
(*                                                                         *)
(* One field of each document stands for the fields of a $set. A template  *)
(* stands for a template with its parameters bound.                        *)
(***************************************************************************)
EXTENDS Naturals, FiniteSets

CONSTANTS
    Procs,          \* invocations of ayx that may run at the same time
    Profiles,       \* profiles, each with a deployment of its own
    Docs,           \* documents of the target collection
    PlainIds,       \* those whose _id is the same after JSON.stringify and back
    Values,         \* values of the field
    Json,           \* what JSON.stringify leaves of a value: a date becomes a string
    Templates,      \* resolved templates
    ApprovalNames,  \* file names of preview artifacts
    RunNames,       \* file names of execution artifacts
    ExpiryCap,      \* MONGO_MUTATION_PREVIEW_MAX_EXPIRY_MINUTES
    MaxTime,        \* bound: the clock
    MaxForeign,     \* bound: writes of others
    InitialData,    \* bound: what the collection holds at first
    None            \* an absent field, a missing file

Field == Values \cup {None}

ASSUME NoneIsNone == None \notin Values /\ None \notin RunNames \cup ApprovalNames \cup Templates
ASSUME JsonOK ==
    /\ Json \in [Field -> Field]
    /\ \A v \in Field : Json[Json[v]] = Json[v] /\ (Json[v] = None <=> v = None)
ASSUME TemplatesOK ==
    Templates \subseteq [mode : {"executable", "preview_only"}, match : SUBSET Field,
                         set : {v \in Values : Json[v] = v}, cap : Nat \ {0}, age : Nat \ {0}]
ASSUME BoundsOK ==
    ExpiryCap \in Nat /\ MaxTime \in Nat /\ MaxForeign \in Nat /\ PlainIds \subseteq Docs
    /\ InitialData \subseteq [Docs -> Field]

VARIABLES
    data,           \* the field of each document, in the deployment of each profile
    transactional,  \* the deployments that are a replica set or behind a mongos
    now,
    foreign,        \* how often others wrote
    backup,         \* the newest backup artifact of each profile
    approvals,      \* preview artifacts
    runs,           \* execution artifacts
    inflight,       \* transactions a mongosh may still commit
    committed,      \* transactions that committed
    changed,        \* those of them with a modified_count above zero
    overwritten,    \* those of them whose documents were written since
    proc            \* what each process is doing

vars == <<data, transactional, now, foreign, backup, approvals, runs, inflight, committed,
          changed, overwritten, proc>>

\* What was, or is expected to be, in some documents; and what is written to them.
Snapshots == UNION {[D -> Field] : D \in SUBSET Docs}

Approvals ==
    [kind : {"mutate", "undo"}, status : {"previewed", "cap_exceeded"}, profile : Profiles,
     template : Templates \cup {None}, of : RunNames \cup {None},
     expect : Snapshots, write : Snapshots, expires : Nat]
Outcomes == {"prepared", "applied", "aborted", "failed", "failed_or_unknown"}
Runs ==
    [kind : {"mutate", "undo"}, profile : Profiles, template : Templates \cup {None},
     of : RunNames \cup {None}, approval : ApprovalNames, expect : Snapshots, write : Snapshots,
     outcome : Outcomes, modified : BOOLEAN, undo_artifact : RunNames \cup {None}]
Processes ==
    [pc : {"idle"}] \cup [pc : {"confirm"}, job : Runs] \cup [pc : {"running"}, run : RunNames]
        \cup [pc : {"finalize"}, run : RunNames, result : Outcomes \ {"prepared"}]
        \cup [pc : {"backlink"}, run : RunNames]
Idle == [pc |-> "idle"]

ASSUME NoneIsNoRecord == None \notin Runs \cup Approvals

\* Every variable has its type.
TypeOK ==
    /\ data \in [Profiles -> [Docs -> Field]] /\ transactional \subseteq Profiles
    /\ now \in 0..MaxTime /\ foreign \in 0..MaxForeign
    /\ backup \in [Profiles -> [at : 0..MaxTime, applied : BOOLEAN] \cup {None}]
    /\ approvals \in [ApprovalNames -> Approvals \cup {None}]
    /\ runs \in [RunNames -> Runs \cup {None}]
    /\ inflight \subseteq RunNames /\ committed \subseteq RunNames
    /\ changed \subseteq committed /\ overwritten \subseteq committed
    /\ proc \in [Procs -> Processes]

Init ==
    /\ data \in [Profiles -> InitialData] /\ transactional \in SUBSET Profiles
    /\ now = 0 /\ foreign = 0
    /\ backup = [f \in Profiles |-> None]
    /\ approvals = [a \in ApprovalNames |-> None]
    /\ runs = [r \in RunNames |-> None]
    /\ inflight = {} /\ committed = {} /\ changed = {} /\ overwritten = {}
    /\ proc = [p \in Procs |-> Idle]

---------------------------------------------------------------------------
(* The documents *)

Matching(f, t) == {d \in Docs : data[f][d] \in t.match}

\* What a query of these documents prints.
Shown(f, D) == [d \in D |-> Json[data[f][d]]]

\* Mutant of MutationHolds: the values are not compared, only the documents.
HoldsByIdentity(run) ==
    /\ Matching(run.profile, run.template) = DOMAIN run.expect
    /\ Cardinality(DOMAIN run.expect) \in 1..run.template.cap

\* The transaction of a mutation: the filter still finds the approved documents, no others,
\* with the approved values.
MutationHolds(run) ==
    /\ Matching(run.profile, run.template) = DOMAIN run.expect
    /\ Cardinality(DOMAIN run.expect) \in 1..run.template.cap
    /\ Shown(run.profile, DOMAIN run.expect) = run.expect

\* The check of an undo, in the preview, the preparation and the transaction: each document
\* is found by its recorded _id and holds what the mutation wrote.
UndoHolds(f, expect) ==
    DOMAIN expect \subseteq PlainIds /\ Shown(f, DOMAIN expect) = expect

Holds(run) ==
    IF run.kind = "mutate" THEN MutationHolds(run) ELSE UndoHolds(run.profile, run.expect)

Overlay(docs, write) == [d \in Docs |-> IF d \in DOMAIN write THEN write[d] ELSE docs[d]]

\* Those that committed on documents of D in the deployment of f.
Writers(f, D) == {r \in committed : runs[r].profile = f /\ DOMAIN runs[r].write \cap D # {}}

---------------------------------------------------------------------------
(* Time, other writers, mongo backup *)

Tick ==
    /\ now < MaxTime
    /\ now' = now + 1
    /\ UNCHANGED <<data, transactional, foreign, backup, approvals, runs, inflight, committed,
                   changed, overwritten, proc>>

OthersWrite(f, d, v) ==
    /\ foreign < MaxForeign /\ data[f][d] # v
    /\ foreign' = foreign + 1
    /\ data' = [data EXCEPT ![f][d] = v]
    /\ overwritten' = overwritten \cup Writers(f, {d})
    /\ UNCHANGED <<transactional, now, backup, approvals, runs, inflight, committed, changed,
                   proc>>

Backup(f, apply) ==
    /\ backup[f] = None     \* bound: one artifact
    /\ backup' = [backup EXCEPT ![f] = [at |-> now, applied |-> apply]]
    /\ UNCHANGED <<data, transactional, now, foreign, approvals, runs, inflight, committed,
                   changed, overwritten, proc>>

---------------------------------------------------------------------------
(* Previews: one read of the documents, one artifact *)

SaveApproval(a, approval) ==
    /\ approvals[a] = None
    /\ approvals' = [approvals EXCEPT ![a] = approval]
    /\ UNCHANGED <<data, transactional, now, foreign, backup, runs, inflight, committed, changed,
                   overwritten, proc>>

Smaller(a, b) == IF a < b THEN a ELSE b

PreviewMutation(f, t, a) ==
    /\ t.mode = "executable"
    /\ LET found == Matching(f, t)
           fits == Cardinality(found) <= t.cap
           D == IF fits THEN found ELSE {}
       IN SaveApproval(a, [kind |-> "mutate", profile |-> f, template |-> t, of |-> None,
                           status |-> IF fits THEN "previewed" ELSE "cap_exceeded",
                           expect |-> Shown(f, D), write |-> [d \in D |-> t.set],
                           expires |-> IF fits THEN now + Smaller(t.age, ExpiryCap) ELSE 0])

\* The artifact of a mutation that can be undone.
Undoable(f, m) ==
    /\ runs[m] # None
    /\ runs[m].kind = "mutate" /\ runs[m].profile = f
    /\ runs[m].undo_artifact = None
    /\ runs[m].outcome = "applied" /\ runs[m].modified

PreviewUndo(f, m, a) ==
    /\ Undoable(f, m)
    /\ UndoHolds(f, runs[m].write)
    /\ SaveApproval(a, [kind |-> "undo", profile |-> f, template |-> None, of |-> m,
                        status |-> "previewed",
                        expect |-> runs[m].write, write |-> runs[m].expect,
                        expires |-> now + ExpiryCap])

---------------------------------------------------------------------------
(* Apply: prepare, confirm, execute *)

BackupIsCurrent(f, t) ==
    /\ backup[f] # None
    /\ backup[f].applied
    /\ now - backup[f].at <= t.age

\* Mutant of ApprovedFor: template and parameters are not compared.
ApprovedForAny(a, t) ==
    /\ approvals[a] # None
    /\ approvals[a].kind = "mutate" /\ approvals[a].status = "previewed"
    /\ approvals[a].expires > now
    /\ DOMAIN approvals[a].expect # {}

\* Everything the approval of a mutation is compared with. The digest that --approve repeats
\* covers the template and the documents, which are those of this very artifact.
ApprovedFor(a, t) ==
    /\ approvals[a] # None
    /\ approvals[a].kind = "mutate" /\ approvals[a].status = "previewed"
    /\ approvals[a].expires > now
    /\ approvals[a].template = t
    /\ DOMAIN approvals[a].expect # {}

\* The hash of the source artifact stands for its name: no two artifacts are alike, and the
\* only change to one that is applied is the one Undoable refuses.
ApprovedUndo(a, m) ==
    /\ approvals[a] # None
    /\ approvals[a].kind = "undo" /\ approvals[a].of = m
    /\ approvals[a].expires > now

Prepared(p, job) ==
    /\ proc[p].pc = "idle"
    /\ proc' = [proc EXCEPT ![p] = [pc |-> "confirm", job |-> job]]
    /\ UNCHANGED <<data, transactional, now, foreign, backup, approvals, runs, inflight,
                   committed, changed, overwritten>>

PrepareMutation(p, f, t, a) ==
    /\ t.mode = "executable"
    /\ BackupIsCurrent(f, t)
    /\ ApprovedFor(a, t)
    /\ Prepared(p, [kind |-> "mutate", profile |-> f, template |-> t, of |-> None, approval |-> a,
                    expect |-> approvals[a].expect,
                    write |-> [d \in DOMAIN approvals[a].expect |-> t.set],
                    outcome |-> "prepared", modified |-> FALSE, undo_artifact |-> None])

PrepareUndo(p, f, m, a) ==
    /\ Undoable(f, m)
    /\ UndoHolds(f, runs[m].write)
    /\ ApprovedUndo(a, m)
    /\ Prepared(p, [kind |-> "undo", profile |-> f, template |-> None, of |-> m, approval |-> a,
                    expect |-> runs[m].write, write |-> runs[m].expect,
                    outcome |-> "prepared", modified |-> FALSE, undo_artifact |-> None])

\* The person says no, or the prepared artifact cannot be written.
Decline(p) ==
    /\ proc[p].pc = "confirm"
    /\ proc' = [proc EXCEPT ![p] = Idle]
    /\ UNCHANGED <<data, transactional, now, foreign, backup, approvals, runs, inflight,
                   committed, changed, overwritten>>

\* The person agrees, the prepared artifact is on disk, mongosh is started.
Execute(p, r) ==
    /\ proc[p].pc = "confirm"
    /\ runs[r] = None
    /\ runs' = [runs EXCEPT ![r] = proc[p].job]
    /\ inflight' = inflight \cup {r}
    /\ proc' = [proc EXCEPT ![p] = [pc |-> "running", run |-> r]]
    /\ UNCHANGED <<data, transactional, now, foreign, backup, approvals, committed, changed,
                   overwritten>>

---------------------------------------------------------------------------
(* The transaction: mongosh and the deployment *)

Commit(r) ==
    /\ r \in inflight
    /\ runs[r].profile \in transactional
    /\ Holds(runs[r])
    /\ LET f == runs[r].profile
           docs == Overlay(data[f], runs[r].write)
       IN /\ data' = [data EXCEPT ![f] = docs]
          /\ changed' = IF docs # data[f] THEN changed \cup {r} ELSE changed
          /\ overwritten' = overwritten \cup Writers(f, DOMAIN runs[r].write)
    /\ committed' = committed \cup {r}
    /\ inflight' = inflight \ {r}
    /\ UNCHANGED <<transactional, now, foreign, backup, approvals, runs, proc>>

Conclude(p, result) ==
    /\ proc' = [proc EXCEPT ![p] = [pc |-> "finalize", run |-> proc[p].run, result |-> result]]
    /\ UNCHANGED <<data, transactional, now, foreign, backup, approvals, runs, committed, changed,
                   overwritten>>

SaysApplied(p) ==
    /\ proc[p].pc = "running" /\ proc[p].run \in committed
    /\ Conclude(p, "applied") /\ UNCHANGED inflight

SaysAborted(p) ==
    /\ proc[p].pc = "running" /\ proc[p].run \in inflight
    /\ \/ runs[proc[p].run].profile \notin transactional
       \/ ~Holds(runs[proc[p].run])
    /\ Conclude(p, "aborted") /\ inflight' = inflight \ {proc[p].run}

\* mongosh could not be started.
NotStarted(p) ==
    /\ proc[p].pc = "running" /\ proc[p].run \in inflight
    /\ Conclude(p, "failed") /\ inflight' = inflight \ {proc[p].run}

\* Mutant of SaysNothing: it is taken for a failure to start.
SaysFailed(p) ==
    /\ proc[p].pc = "running"
    /\ Conclude(p, "failed") /\ UNCHANGED inflight

\* mongosh failed, or did not say what happened: a commit may have been or be under way.
SaysNothing(p) ==
    /\ proc[p].pc = "running"
    /\ Conclude(p, "failed_or_unknown") /\ UNCHANGED inflight

---------------------------------------------------------------------------
(* The record *)

\* The final update of the artifact; when it fails the artifact stays prepared and the
\* command ends there.
Finalize(p, saved) ==
    /\ proc[p].pc = "finalize"
    /\ LET r == proc[p].run
           applied == proc[p].result = "applied"
       IN /\ runs' = IF saved
                     THEN [runs EXCEPT ![r].outcome = proc[p].result,
                                       ![r].modified = applied /\ r \in changed]
                     ELSE runs
          /\ proc' = [proc EXCEPT ![p] =
                         IF saved /\ applied /\ runs[r].kind = "undo"
                         THEN [pc |-> "backlink", run |-> r] ELSE Idle]
    /\ UNCHANGED <<data, transactional, now, foreign, backup, approvals, inflight, committed,
                   changed, overwritten>>

\* The artifact of the mutation is read, given the name of the undo and written back, or not.
Backlink(p, saved) ==
    /\ proc[p].pc = "backlink"
    /\ runs' = IF saved THEN [runs EXCEPT ![runs[proc[p].run].of].undo_artifact = proc[p].run]
                ELSE runs
    /\ proc' = [proc EXCEPT ![p] = Idle]
    /\ UNCHANGED <<data, transactional, now, foreign, backup, approvals, inflight, committed,
                   changed, overwritten>>

Crash(p) ==
    /\ proc[p].pc # "idle"
    /\ proc' = [proc EXCEPT ![p] = Idle]
    /\ UNCHANGED <<data, transactional, now, foreign, backup, approvals, runs, inflight,
                   committed, changed, overwritten>>

---------------------------------------------------------------------------

Preview ==
    \E f \in Profiles, a \in ApprovalNames :
       \/ \E t \in Templates : PreviewMutation(f, t, a)
       \/ \E m \in RunNames : PreviewUndo(f, m, a)

Apply(p) ==
    \/ \E f \in Profiles, a \in ApprovalNames :
          \/ \E t \in Templates : PrepareMutation(p, f, t, a)
          \/ \E m \in RunNames : PrepareUndo(p, f, m, a)
    \/ Decline(p)
    \/ \E r \in RunNames : Execute(p, r)
    \/ SaysApplied(p) \/ SaysAborted(p) \/ NotStarted(p) \/ SaysNothing(p)
    \/ \E saved \in BOOLEAN : Finalize(p, saved) \/ Backlink(p, saved)
    \/ Crash(p)

Environment ==
    \/ Tick
    \/ \E f \in Profiles, d \in Docs, v \in Field : OthersWrite(f, d, v)
    \/ \E f \in Profiles, apply \in BOOLEAN : Backup(f, apply)
    \/ \E r \in RunNames : Commit(r)

Next == Preview \/ (\E p \in Procs : Apply(p)) \/ Environment

Spec == Init /\ [][Next]_vars

---------------------------------------------------------------------------
(* Properties *)

\* What an execution artifact says, whenever it is read, is so: there is no transaction without
\* an artifact; one that is applied has committed; one that is aborted or failed has not and
\* never will, though mongosh may outlive the process; and a mutation that names an undo was
\* undone. (execute_mutation_apply and execute_undo_apply, through failures and crashes.)
ArtifactIsTrue ==
    \A r \in RunNames :
       /\ r \in committed \cup inflight => runs[r] # None
       /\ runs[r] # None =>
             /\ runs[r].outcome = "applied" => r \in committed
             /\ runs[r].outcome \in {"aborted", "failed"} => r \notin committed \cup inflight
             /\ runs[r].undo_artifact # None =>
                   \E u \in committed : /\ u = runs[r].undo_artifact
                                        /\ runs[u].of = r /\ runs[u].outcome = "applied"

\* A transaction writes exactly what the preview artifact shows, to exactly its documents, and
\* what it overwrites reads as the preview shows it, whatever was written between the preview,
\* the confirmation and the transaction. (The approval artifact, the two transactions.)
WritesWhatWasSeen ==
    [][\A r \in committed' \ committed :
          LET a == approvals[runs[r].approval]
              f == runs[r].profile
          IN /\ \A d \in DOMAIN a.expect : Json[data[f][d]] = a.expect[d]
             /\ data'[f] = Overlay(data[f], a.write)]_vars

SameChange(r, s) ==
    /\ runs[r].kind = runs[s].kind /\ runs[r].profile = runs[s].profile
    /\ runs[r].expect = runs[s].expect /\ runs[r].write = runs[s].write

\* An approval can be used again, after an unknown outcome or a crash above all: still no change
\* is made again on top of itself, unless somebody has written those documents meanwhile.
NeverRepeated ==
    [][\A r \in committed' \ committed, s \in committed :
          SameChange(r, s) /\ runs[r].expect # runs[r].write => s \in overwritten]_vars

\* A mutation is applied in the deployment its preview read. It is not: an approval does not
\* have to be of the profile it is used with (load_and_validate_preview_approval).
ApprovedWhereApplied ==
    \A r \in committed : runs[r].kind = "mutate" =>
       approvals[runs[r].approval].profile = runs[r].profile

\* An undo overwrites no change made since the mutation. It does when the field came to hold
\* the value of the mutation again: values are compared, not versions.
UndoKeepsLaterWrites ==
    [][\A r \in committed' \ committed :
          runs[r].kind = "undo" => runs[r].of \notin overwritten]_vars
=============================================================================
