----------------------- MODULE MongoMutation_proofs ------------------------
(***************************************************************************)
(* mongo mutate and mongo undo, for any number of processes, profiles,     *)
(* documents, templates and artifacts, with all failures.                  *)
(*                                                                         *)
(* The invariant has three further parts. Recorded: every artifact and     *)
(* every prepared job repeats what its approval shows, and an undo is the  *)
(* inverse of its mutation. Owned: the artifact a process is about to      *)
(* finish is still prepared and no other process's. Stands: what a         *)
(* transaction wrote is there until somebody writes those documents.       *)
(***************************************************************************)
EXTENDS MongoMutation, TLAPS

---------------------------------------------------------------------------
(* The invariant *)

\* What was expected and what is to be written speak of the same documents, in values that
\* JSON.stringify leaves alone.
Paired(x) ==
    /\ DOMAIN x.write = DOMAIN x.expect
    /\ \A d \in DOMAIN x.expect : Json[x.expect[d]] = x.expect[d] /\ Json[x.write[d]] = x.write[d]

Inverse(x) ==
    /\ x.of \in RunNames /\ runs[x.of] # None
    /\ x.expect = runs[x.of].write /\ x.write = runs[x.of].expect

ApprovalOK(y) ==
    /\ Paired(y)
    /\ y.kind = "mutate" =>
          /\ y.template \in Templates
          /\ y.write = [d \in DOMAIN y.expect |-> y.template.set]
    /\ y.kind = "undo" => Inverse(y)

RunOK(x) ==
    /\ Paired(x)
    /\ approvals[x.approval] # None
    /\ approvals[x.approval].expect = x.expect /\ approvals[x.approval].write = x.write
    /\ x.kind = "undo" => Inverse(x)

Recorded ==
    /\ \A y \in ApprovalNames : approvals[y] # None => ApprovalOK(approvals[y])
    /\ \A r \in RunNames : runs[r] # None => RunOK(runs[r])
    /\ \A p \in Procs : proc[p].pc = "confirm" =>
          RunOK(proc[p].job) /\ proc[p].job.outcome = "prepared" /\ proc[p].job.undo_artifact = None

Owner(p) ==
    /\ proc[p].pc \in {"running", "finalize"} =>
          runs[proc[p].run] # None /\ runs[proc[p].run].outcome = "prepared"
    /\ proc[p].pc = "finalize" =>
          /\ proc[p].result = "applied" => proc[p].run \in committed
          /\ proc[p].result \in {"aborted", "failed"} => proc[p].run \notin committed \cup inflight
    /\ proc[p].pc = "backlink" =>
          /\ proc[p].run \in committed /\ runs[proc[p].run] # None
          /\ runs[proc[p].run].kind = "undo" /\ runs[proc[p].run].outcome = "applied"

Owned ==
    /\ \A p \in Procs : Owner(p)
    /\ \A p, q \in Procs :
          /\ p # q
          /\ proc[p].pc \in {"running", "finalize"} /\ proc[q].pc \in {"running", "finalize"}
          => proc[p].run # proc[q].run
    /\ committed \cap inflight = {}

Stands ==
    \A s \in committed \ overwritten : \A d \in DOMAIN runs[s].write :
       data[runs[s].profile][d] = runs[s].write[d]

IInv == TypeOK /\ ArtifactIsTrue /\ Recorded /\ Owned /\ Stands

---------------------------------------------------------------------------
(* Types *)

LEMMA SnapshotOK ==
    ASSUME NEW s
    PROVE  s \in Snapshots <=> DOMAIN s \subseteq Docs /\ s \in [DOMAIN s -> Field]
<1>1. ASSUME s \in Snapshots
      PROVE  DOMAIN s \subseteq Docs /\ s \in [DOMAIN s -> Field]
  <2>1. PICK D \in SUBSET Docs : s \in [D -> Field]
    BY <1>1 DEF Snapshots
  <2>2. QED BY <2>1
<1>2. ASSUME DOMAIN s \subseteq Docs, s \in [DOMAIN s -> Field]
      PROVE  s \in Snapshots
  BY <1>2 DEF Snapshots
<1>3. QED BY <1>1, <1>2

LEMMA ShownOK ==
    ASSUME TypeOK, NEW f \in Profiles, NEW D \in SUBSET Docs
    PROVE  /\ Shown(f, D) \in Snapshots /\ DOMAIN Shown(f, D) = D
           /\ \A d \in D : /\ Shown(f, D)[d] = Json[data[f][d]]
                          /\ Json[Shown(f, D)[d]] = Shown(f, D)[d]
<1>1. \A d \in D : data[f][d] \in Field
  BY DEF TypeOK
<1>2. \A d \in D : Json[data[f][d]] \in Field /\ Json[Json[data[f][d]]] = Json[data[f][d]]
  BY <1>1, JsonOK
<1>3. DOMAIN Shown(f, D) = D /\ Shown(f, D) \in [D -> Field]
  BY <1>2 DEF Shown
<1>4. QED BY <1>2, <1>3, SnapshotOK DEF Shown

LEMMA TemplateOK ==
    ASSUME NEW t \in Templates, NEW D \in SUBSET Docs
    PROVE  /\ [d \in D |-> t.set] \in Snapshots
           /\ t.set \in Field /\ Json[t.set] = t.set
           /\ t.age \in Nat /\ t.cap \in Nat /\ t.mode \in {"executable", "preview_only"}
<1>1. /\ t.set \in Values /\ Json[t.set] = t.set
      /\ t.age \in Nat /\ t.cap \in Nat /\ t.mode \in {"executable", "preview_only"}
  BY TemplatesOK
<1>2. [d \in D |-> t.set] \in [D -> Field]
  BY <1>1 DEF Field
<1>3. QED BY <1>1, <1>2 DEF Snapshots, Field

LEMMA OverlayOK ==
    ASSUME NEW docs \in [Docs -> Field], NEW w \in Snapshots
    PROVE  Overlay(docs, w) \in [Docs -> Field]
BY SnapshotOK DEF Overlay

\* What a process is, from where it is.
LEMMA ProcOK ==
    ASSUME TypeOK, NEW p \in Procs
    PROVE  /\ proc[p].pc \in {"idle", "confirm", "running", "finalize", "backlink"}
           /\ proc[p].pc = "confirm" => proc[p].job \in Runs
           /\ proc[p].pc \in {"running", "finalize", "backlink"} => proc[p].run \in RunNames
           /\ proc[p].pc = "finalize" => proc[p].result \in Outcomes \ {"prepared"}
<1>1. proc[p] \in Processes
  BY DEF TypeOK
<1>2. CASE proc[p] \in [pc : {"idle"}]
  BY <1>2
<1>3. CASE proc[p] \in [pc : {"confirm"}, job : Runs]
  BY <1>3
<1>4. CASE proc[p] \in [pc : {"running"}, run : RunNames]
  BY <1>4
<1>5. CASE proc[p] \in [pc : {"finalize"}, run : RunNames, result : Outcomes \ {"prepared"}]
  BY <1>5
<1>6. CASE proc[p] \in [pc : {"backlink"}, run : RunNames]
  BY <1>6
<1>7. QED BY <1>1, <1>2, <1>3, <1>4, <1>5, <1>6 DEF Processes

LEMMA IdleOK == Idle \in Processes /\ Idle.pc = "idle"
BY DEF Idle, Processes

LEMMA RunFields ==
    ASSUME NEW x \in Runs
    PROVE  /\ x.kind \in {"mutate", "undo"} /\ x.profile \in Profiles
           /\ x.template \in Templates \cup {None} /\ x.of \in RunNames \cup {None}
           /\ x.approval \in ApprovalNames
           /\ x.expect \in Snapshots /\ x.write \in Snapshots
           /\ x.outcome \in Outcomes /\ x.modified \in BOOLEAN
           /\ x.undo_artifact \in RunNames \cup {None}
BY DEF Runs

LEMMA ApprovalFields ==
    ASSUME NEW y \in Approvals
    PROVE  /\ y.kind \in {"mutate", "undo"} /\ y.profile \in Profiles
           /\ y.expect \in Snapshots /\ y.write \in Snapshots /\ y.expires \in Nat
           /\ y.template \in Templates \cup {None} /\ y.of \in RunNames \cup {None}
BY DEF Approvals

---------------------------------------------------------------------------
(* A record keeps what it says *)

\* Artifacts that exist keep their content: all of it, or all but how they ended.
KeepsApprovals == \A y \in ApprovalNames : approvals[y] # None => approvals'[y] = approvals[y]
KeepsRuns ==
    \A r \in RunNames : runs[r] # None =>
       /\ runs'[r] # None
       /\ runs'[r].kind = runs[r].kind /\ runs'[r].profile = runs[r].profile
       /\ runs'[r].of = runs[r].of /\ runs'[r].approval = runs[r].approval
       /\ runs'[r].expect = runs[r].expect /\ runs'[r].write = runs[r].write

LEMMA RunKept ==
    ASSUME TypeOK, KeepsApprovals, KeepsRuns, NEW x \in Runs, RunOK(x)
    PROVE  RunOK(x)'
<1>1. x.approval \in ApprovalNames
  BY RunFields
<1>2. approvals'[x.approval] = approvals[x.approval]
  BY <1>1 DEF RunOK, KeepsApprovals
<1>3. ASSUME Inverse(x)
      PROVE  Inverse(x)'
  BY <1>3 DEF Inverse, KeepsRuns
<1>4. QED BY <1>2, <1>3 DEF RunOK, Paired

LEMMA ApprovalKept ==
    ASSUME TypeOK, KeepsRuns, NEW y \in Approvals, ApprovalOK(y)
    PROVE  ApprovalOK(y)'
<1>1. ASSUME Inverse(y)
      PROVE  Inverse(y)'
  BY <1>1 DEF Inverse, KeepsRuns
<1>2. QED BY <1>1 DEF ApprovalOK, Paired

LEMMA RunAlike ==
    ASSUME NEW x \in Runs, NEW z \in Runs, RunOK(x), z.kind = x.kind, z.of = x.of,
           z.approval = x.approval, z.expect = x.expect, z.write = x.write
    PROVE  RunOK(z)
BY DEF RunOK, Paired, Inverse

LEMMA RecordedKept ==
    ASSUME TypeOK, TypeOK', Recorded, KeepsApprovals, KeepsRuns,
           \A y \in ApprovalNames :
              approvals'[y] # None => approvals[y] # None \/ ApprovalOK(approvals[y])',
           \A r \in RunNames : runs'[r] # None => runs[r] # None \/ RunOK(runs[r])',
           \A p \in Procs : proc'[p].pc = "confirm" =>
              \/ proc'[p] = proc[p]
              \/ /\ RunOK(proc[p].job)' /\ proc'[p].job.outcome = "prepared"
                 /\ proc'[p].job.undo_artifact = None
    PROVE  Recorded'
<1>1. ASSUME NEW y \in ApprovalNames, approvals'[y] # None
      PROVE  ApprovalOK(approvals[y])'
  <2>1. CASE approvals[y] # None
    <3>1. approvals'[y] = approvals[y] /\ approvals[y] \in Approvals /\ ApprovalOK(approvals[y])
      BY <2>1 DEF KeepsApprovals, TypeOK, Recorded
    <3>2. QED BY <3>1, ApprovalKept DEF ApprovalOK, Paired, Inverse
  <2>2. QED BY <1>1, <2>1
<1>2. ASSUME NEW r \in RunNames, runs'[r] # None
      PROVE  RunOK(runs[r])'
  <2>1. CASE runs[r] # None
    <3>1. runs[r] \in Runs /\ runs'[r] \in Runs /\ RunOK(runs[r])
      BY <1>2, <2>1 DEF TypeOK, Recorded
    <3>2. PICK x \in Runs : x = runs[r]
      BY <3>1
    <3>3. RunOK(x)'
      BY <3>1, <3>2, RunKept
    <3>4. /\ runs'[r].kind = x.kind /\ runs'[r].of = x.of /\ runs'[r].approval = x.approval
          /\ runs'[r].expect = x.expect /\ runs'[r].write = x.write
      BY <2>1, <3>2 DEF KeepsRuns
    <3>5. QED BY <3>3, <3>4 DEF RunOK, Paired, Inverse
  <2>2. QED BY <1>2, <2>1
<1>3. ASSUME NEW p \in Procs, proc'[p].pc = "confirm"
      PROVE  /\ RunOK(proc[p].job)' /\ proc'[p].job.outcome = "prepared"
             /\ proc'[p].job.undo_artifact = None
  <2>1. CASE proc'[p] = proc[p]
    <3>1. /\ proc[p].job \in Runs /\ RunOK(proc[p].job)
          /\ proc[p].job.outcome = "prepared" /\ proc[p].job.undo_artifact = None
      BY <1>3, <2>1, ProcOK DEF Recorded
    <3>2. PICK x \in Runs : x = proc[p].job
      BY <3>1
    <3>3. RunOK(x)'
      BY <3>1, <3>2, RunKept
    <3>4. proc'[p].job = x /\ x.outcome = "prepared" /\ x.undo_artifact = None
      BY <2>1, <3>1, <3>2
    <3>5. RunOK(proc[p].job)'
      BY <3>3, <3>4 DEF RunOK, Paired, Inverse
    <3>6. QED BY <3>4, <3>5
  <2>2. QED BY <1>3, <2>1
<1>4. QED BY <1>1, <1>2, <1>3 DEF Recorded

\* Steps that neither write documents nor touch an artifact of a run.
LEMMA CalmOK ==
    ASSUME IInv, UNCHANGED <<data, runs, committed, overwritten>>, inflight' \subseteq inflight
    PROVE  ArtifactIsTrue' /\ Stands' /\ KeepsRuns
<1>1. ArtifactIsTrue'
  BY DEF IInv, ArtifactIsTrue
<1>2. Stands'
  BY DEF IInv, Stands
<1>3. KeepsRuns
  BY DEF KeepsRuns
<1>4. QED BY <1>1, <1>2, <1>3

LEMMA IdleStepOK ==
    ASSUME IInv, NEW p \in Procs, proc' = [proc EXCEPT ![p] = Idle],
           UNCHANGED <<data, transactional, now, foreign, backup, approvals, runs, inflight,
                       committed, changed, overwritten>>
    PROVE  IInv'
<1>1. TypeOK'
  BY IdleOK DEF IInv, TypeOK
<1>2. proc'[p].pc = "idle" /\ \A q \in Procs \ {p} : proc'[q] = proc[q]
  BY IdleOK DEF IInv, TypeOK
<1>3. Recorded'
  BY <1>1, <1>2, CalmOK, RecordedKept DEF IInv, KeepsApprovals
<1>4. Owned'
  BY <1>2 DEF IInv, Owned, Owner
<1>5. QED BY <1>1, <1>3, <1>4, CalmOK DEF IInv

LEMMA TickOK ==
    ASSUME IInv, Tick
    PROVE  IInv'
<1>1. TypeOK'
  BY BoundsOK DEF IInv, TypeOK, Tick
<1>2. UNCHANGED <<data, approvals, runs, inflight, committed, overwritten, proc>>
  BY DEF Tick
<1>3. Recorded' /\ Owned'
  BY <1>2 DEF IInv, Recorded, RunOK, ApprovalOK, Paired, Inverse, Owned, Owner
<1>4. QED BY <1>1, <1>2, <1>3, CalmOK DEF IInv

LEMMA BackupOK ==
    ASSUME IInv, NEW f \in Profiles, NEW apply \in BOOLEAN, Backup(f, apply)
    PROVE  IInv'
<1>1. TypeOK'
  BY DEF IInv, TypeOK, Backup
<1>2. UNCHANGED <<data, approvals, runs, inflight, committed, overwritten, proc>>
  BY DEF Backup
<1>3. Recorded' /\ Owned'
  BY <1>2 DEF IInv, Recorded, RunOK, ApprovalOK, Paired, Inverse, Owned, Owner
<1>4. QED BY <1>1, <1>2, <1>3, CalmOK DEF IInv

LEMMA OthersWriteOK ==
    ASSUME IInv, NEW f \in Profiles, NEW d \in Docs, NEW v \in Field, OthersWrite(f, d, v)
    PROVE  IInv'
<1>1. TypeOK'
  BY BoundsOK DEF IInv, TypeOK, OthersWrite, Writers
<1>2. UNCHANGED <<approvals, runs, inflight, committed, proc>>
  BY DEF OthersWrite
<1>3. ArtifactIsTrue' /\ Recorded' /\ Owned'
  BY <1>2 DEF IInv, ArtifactIsTrue, Recorded, RunOK, ApprovalOK, Paired, Inverse, Owned, Owner
<1>4. ASSUME NEW s \in committed' \ overwritten', NEW e \in DOMAIN runs'[s].write
      PROVE  data'[runs'[s].profile][e] = runs'[s].write[e]
  <2>1. s \in committed \ overwritten /\ s \notin Writers(f, {d}) /\ s \in RunNames
    BY <1>2 DEF OthersWrite, IInv, TypeOK
  <2>2. runs[s] \in Runs
    BY <2>1 DEF IInv, ArtifactIsTrue, TypeOK
  <2>3. runs[s].profile \in Profiles /\ DOMAIN runs[s].write \subseteq Docs
    BY <2>2, RunFields, SnapshotOK
  <2>4. data[runs[s].profile][e] = runs[s].write[e]
    BY <1>2, <2>1 DEF IInv, Stands
  <2>5. runs[s].profile # f \/ e # d
    BY <1>2, <2>1 DEF Writers
  <2>6. QED BY <1>2, <2>3, <2>4, <2>5 DEF OthersWrite, IInv, TypeOK
<1>5. QED BY <1>1, <1>3, <1>4 DEF IInv, Stands

---------------------------------------------------------------------------
(* Previews *)

LEMMA SaveOK ==
    ASSUME IInv, NEW a \in ApprovalNames, NEW y \in Approvals, SaveApproval(a, y), ApprovalOK(y)
    PROVE  IInv'
<1>1. TypeOK'
  BY DEF IInv, TypeOK, SaveApproval
<1>2. UNCHANGED <<data, runs, inflight, committed, overwritten, proc>>
  BY DEF SaveApproval
<1>3. ArtifactIsTrue' /\ Stands' /\ KeepsRuns
  BY <1>2, CalmOK
<1>4. KeepsApprovals
  BY DEF KeepsApprovals, SaveApproval, IInv, TypeOK
<1>5. ASSUME NEW z \in ApprovalNames, approvals'[z] # None, approvals[z] = None
      PROVE  ApprovalOK(approvals[z])'
  <2>1. approvals'[z] = y
    BY <1>5 DEF SaveApproval, IInv, TypeOK
  <2>2. QED BY <1>2, <2>1 DEF ApprovalOK, Paired, Inverse
<1>6. Recorded'
  BY <1>1, <1>2, <1>3, <1>4, <1>5, RecordedKept DEF IInv
<1>7. Owned'
  BY <1>2 DEF IInv, Owned, Owner
<1>8. QED BY <1>1, <1>3, <1>6, <1>7 DEF IInv

LEMMA PreviewMutationOK ==
    ASSUME IInv, NEW f \in Profiles, NEW t \in Templates, NEW a \in ApprovalNames,
           PreviewMutation(f, t, a)
    PROVE  IInv'
<1> DEFINE found == Matching(f, t)
           fits == Cardinality(found) <= t.cap
           D == IF fits THEN found ELSE {}
           y == [kind |-> "mutate", profile |-> f, template |-> t, of |-> None,
                 status |-> IF fits THEN "previewed" ELSE "cap_exceeded",
                 expect |-> Shown(f, D), write |-> [d \in D |-> t.set],
                 expires |-> IF fits THEN now + Smaller(t.age, ExpiryCap) ELSE 0]
<1>1. D \in SUBSET Docs
  BY DEF Matching
<1>2. Smaller(t.age, ExpiryCap) \in Nat /\ now \in Nat
  <2>1. t.age \in Nat /\ ExpiryCap \in Nat
    BY <1>1, TemplateOK, BoundsOK
  <2>2. Smaller(t.age, ExpiryCap) \in Nat
    BY <2>1 DEF Smaller
  <2>3. now \in 0..MaxTime /\ MaxTime \in Nat
    BY BoundsOK DEF IInv, TypeOK
  <2>4. QED BY <2>2, <2>3
<1>3. now + Smaller(t.age, ExpiryCap) \in Nat
  BY <1>2
<1>4. Shown(f, D) \in Snapshots /\ [d \in D |-> t.set] \in Snapshots
  BY <1>1, ShownOK, TemplateOK DEF IInv
<1>5. y \in Approvals
  BY <1>3, <1>4 DEF Approvals
<1>6. DOMAIN Shown(f, D) = D /\ \A d \in D : Json[Shown(f, D)[d]] = Shown(f, D)[d]
  BY <1>1, ShownOK DEF IInv
<1>7. Json[t.set] = t.set
  BY TemplateOK
<1>8. ApprovalOK(y)
  BY <1>6, <1>7 DEF ApprovalOK, Paired
<1>9. SaveApproval(a, y)
  BY DEF PreviewMutation
<1>10. QED BY <1>5, <1>8, <1>9, SaveOK

\* The artifact an undo is derived from.
LEMMA SourceOK ==
    ASSUME IInv, NEW f \in Profiles, NEW m \in RunNames, Undoable(f, m)
    PROVE  /\ runs[m] \in Runs /\ Paired(runs[m])
           /\ runs[m].expect \in Snapshots /\ runs[m].write \in Snapshots
<1>1. runs[m] \in Runs /\ RunOK(runs[m])
  BY DEF Undoable, IInv, TypeOK, Recorded
<1>2. QED BY <1>1, RunFields DEF RunOK

LEMMA PreviewUndoOK ==
    ASSUME IInv, NEW f \in Profiles, NEW m \in RunNames, NEW a \in ApprovalNames,
           PreviewUndo(f, m, a)
    PROVE  IInv'
<1> DEFINE y == [kind |-> "undo", profile |-> f, template |-> None, of |-> m,
                 status |-> "previewed",
                 expect |-> runs[m].write, write |-> runs[m].expect,
                 expires |-> now + ExpiryCap]
<1>1. /\ Undoable(f, m) /\ SaveApproval(a, y)
  BY DEF PreviewUndo
<1>2. /\ runs[m] \in Runs /\ Paired(runs[m])
      /\ runs[m].expect \in Snapshots /\ runs[m].write \in Snapshots
  BY <1>1, SourceOK
<1>3. now + ExpiryCap \in Nat
  BY BoundsOK DEF IInv, TypeOK
<1>4. y \in Approvals
  BY <1>2, <1>3 DEF Approvals
<1>5. runs[m] # None
  BY <1>1 DEF Undoable
<1>6. ApprovalOK(y)
  BY <1>2, <1>5 DEF ApprovalOK, Paired, Inverse
<1>7. QED BY <1>1, <1>4, <1>6, SaveOK

---------------------------------------------------------------------------
(* Preparation and execution *)

LEMMA PreparedOK ==
    ASSUME IInv, NEW p \in Procs, NEW x \in Runs, Prepared(p, x), RunOK(x),
           x.outcome = "prepared", x.undo_artifact = None
    PROVE  IInv'
<1>1. [pc |-> "confirm", job |-> x] \in Processes
  BY DEF Processes
<1>2. TypeOK'
  BY <1>1 DEF IInv, TypeOK, Prepared
<1>3. UNCHANGED <<data, approvals, runs, inflight, committed, overwritten>>
  BY DEF Prepared
<1>4. proc'[p] = [pc |-> "confirm", job |-> x] /\ \A q \in Procs \ {p} : proc'[q] = proc[q]
  BY DEF Prepared, IInv, TypeOK
<1>5. RunOK(x)'
  BY <1>3 DEF RunOK, Paired, Inverse
<1>6. RunOK(proc[p].job)'
  BY <1>4, <1>5 DEF RunOK, Paired, Inverse
<1>7. ArtifactIsTrue' /\ Stands' /\ KeepsRuns
  BY <1>3, CalmOK
<1>8. Recorded'
  BY <1>2, <1>3, <1>4, <1>6, <1>7, RecordedKept DEF IInv, KeepsApprovals
<1>9. Owned'
  BY <1>3, <1>4 DEF IInv, Owned, Owner
<1>10. QED BY <1>2, <1>7, <1>8, <1>9 DEF IInv

LEMMA PrepareMutationOK ==
    ASSUME IInv, NEW p \in Procs, NEW f \in Profiles, NEW t \in Templates,
           NEW a \in ApprovalNames, PrepareMutation(p, f, t, a)
    PROVE  IInv'
<1> DEFINE x == [kind |-> "mutate", profile |-> f, template |-> t, of |-> None, approval |-> a,
                 expect |-> approvals[a].expect,
                 write |-> [d \in DOMAIN approvals[a].expect |-> t.set],
                 outcome |-> "prepared", modified |-> FALSE, undo_artifact |-> None]
<1>1. Prepared(p, x) /\ ApprovedFor(a, t)
  BY DEF PrepareMutation
<1>2. /\ approvals[a] # None /\ approvals[a].kind = "mutate" /\ approvals[a].template = t
      /\ approvals[a] \in Approvals /\ ApprovalOK(approvals[a])
  BY <1>1 DEF ApprovedFor, IInv, TypeOK, Recorded
<1>3. x.write = approvals[a].write /\ Paired(approvals[a])
  BY <1>2 DEF ApprovalOK
<1>4. approvals[a].expect \in Snapshots /\ approvals[a].write \in Snapshots
  BY <1>2, ApprovalFields
<1>5. x \in Runs
  BY <1>3, <1>4 DEF Runs, Outcomes
<1>6. RunOK(x)
  BY <1>2, <1>3 DEF RunOK, Paired
<1>7. QED BY <1>1, <1>5, <1>6, PreparedOK

LEMMA PrepareUndoOK ==
    ASSUME IInv, NEW p \in Procs, NEW f \in Profiles, NEW m \in RunNames,
           NEW a \in ApprovalNames, PrepareUndo(p, f, m, a)
    PROVE  IInv'
<1> DEFINE x == [kind |-> "undo", profile |-> f, template |-> None, of |-> m, approval |-> a,
                 expect |-> runs[m].write, write |-> runs[m].expect,
                 outcome |-> "prepared", modified |-> FALSE, undo_artifact |-> None]
<1>1. Prepared(p, x) /\ ApprovedUndo(a, m) /\ Undoable(f, m)
  BY DEF PrepareUndo
<1>2. /\ runs[m] \in Runs /\ Paired(runs[m])
      /\ runs[m].expect \in Snapshots /\ runs[m].write \in Snapshots
  BY <1>1, SourceOK
<1>3. /\ approvals[a] # None /\ approvals[a].kind = "undo" /\ approvals[a].of = m
      /\ ApprovalOK(approvals[a])
  BY <1>1 DEF ApprovedUndo, IInv, Recorded
<1>4. approvals[a].expect = runs[m].write /\ approvals[a].write = runs[m].expect
  BY <1>3 DEF ApprovalOK, Inverse
<1>5. x \in Runs
  BY <1>2 DEF Runs, Outcomes
<1>6. runs[m] # None
  BY <1>1 DEF Undoable
<1>7. RunOK(x)
  BY <1>2, <1>3, <1>4, <1>6 DEF RunOK, Paired, Inverse
<1>8. QED BY <1>1, <1>5, <1>7, PreparedOK

LEMMA ExecuteOK ==
    ASSUME IInv, NEW p \in Procs, NEW r \in RunNames, Execute(p, r)
    PROVE  IInv'
<1>1. /\ proc[p].job \in Runs /\ RunOK(proc[p].job)
      /\ proc[p].job.outcome = "prepared" /\ proc[p].job.undo_artifact = None
  BY ProcOK DEF Execute, IInv, Recorded
<1>2. [pc |-> "running", run |-> r] \in Processes
  BY DEF Processes
<1>3. TypeOK'
  BY <1>1, <1>2 DEF IInv, TypeOK, Execute
<1>4. /\ UNCHANGED <<data, approvals, committed, overwritten>> /\ inflight' = inflight \cup {r}
      /\ runs[r] = None /\ r \notin committed \cup inflight
      /\ runs'[r] = proc[p].job /\ \A s \in RunNames \ {r} : runs'[s] = runs[s]
      /\ proc'[p] = [pc |-> "running", run |-> r]
      /\ \A q \in Procs \ {p} : proc'[q] = proc[q]
  BY DEF Execute, IInv, TypeOK, ArtifactIsTrue
<1>5. KeepsRuns /\ KeepsApprovals
  BY <1>4 DEF KeepsRuns, KeepsApprovals
<1>6. runs'[r] # None
  BY <1>1, <1>4, NoneIsNoRecord
<1>7. Recorded'
  <2>1. RunOK(runs[r])'
    <3>1. PICK x \in Runs : x = proc[p].job
      BY <1>1
    <3>2. RunOK(x)'
      BY <1>1, <1>5, <3>1, RunKept DEF IInv
    <3>3. QED BY <1>4, <3>1, <3>2 DEF RunOK, Paired, Inverse
  <2>2. QED BY <1>3, <1>4, <1>5, <2>1, RecordedKept DEF IInv
<1>8. ArtifactIsTrue'
  <2>1. ASSUME NEW s \in RunNames, s # r
        PROVE  /\ s \in committed' \cup inflight' => runs'[s] # None
               /\ runs'[s] # None =>
                    /\ runs'[s].outcome = "applied" => s \in committed'
                    /\ runs'[s].outcome \in {"aborted", "failed"} =>
                          s \notin committed' \cup inflight'
                    /\ runs'[s].undo_artifact # None =>
                          \E u \in committed' : /\ u = runs'[s].undo_artifact
                                                /\ runs'[u].of = s /\ runs'[u].outcome = "applied"
    <3>1. runs'[s] = runs[s] /\ committed' = committed
      BY <1>4, <2>1
    <3>2. \A u \in committed : runs'[u] = runs[u]
      BY <1>4 DEF IInv, TypeOK
    <3>3. QED BY <1>4, <2>1, <3>1, <3>2 DEF IInv, ArtifactIsTrue
  <2>2. /\ runs'[r] # None /\ runs'[r].outcome = "prepared" /\ runs'[r].undo_artifact = None
    BY <1>1, <1>4, <1>6
  <2>3. QED BY <2>1, <2>2 DEF ArtifactIsTrue
<1>9. Owned'
  <2>1. ASSUME NEW q \in Procs \ {p}
        PROVE  /\ Owner(q)'
               /\ proc[q].pc \in {"running", "finalize"} => proc[q].run # r
    <3>1. Owner(q) /\ proc'[q] = proc[q]
      BY <1>4 DEF IInv, Owned
    <3>2. proc[q].pc \in {"running", "finalize", "backlink"} =>
             proc[q].run \in RunNames /\ proc[q].run # r
      BY <1>4, <3>1, ProcOK DEF IInv, Owner
    <3>3. QED BY <1>4, <3>1, <3>2 DEF Owner
  <2>2. Owner(p)'
    BY <1>1, <1>4, <1>6 DEF Owner
  <2>3. QED BY <1>4, <2>1, <2>2 DEF IInv, Owned
<1>10. Stands'
  <2>1. \A s \in committed : runs'[s] = runs[s]
    BY <1>4 DEF IInv, TypeOK
  <2>2. QED BY <1>4, <2>1 DEF IInv, Stands
<1>11. QED BY <1>3, <1>7, <1>8, <1>9, <1>10 DEF IInv

---------------------------------------------------------------------------
(* The transaction *)

\* What the guards of a commit say, of either kind.
LEMMA CommitSees ==
    ASSUME IInv, NEW r \in RunNames, Commit(r)
    PROVE  /\ r \in inflight /\ r \notin committed
           /\ runs[r] \in Runs /\ RunOK(runs[r])
           /\ runs[r].profile \in Profiles
           /\ runs[r].expect \in Snapshots /\ runs[r].write \in Snapshots
           /\ \A d \in DOMAIN runs[r].expect :
                 d \in Docs /\ Json[data[runs[r].profile][d]] = runs[r].expect[d]
           /\ data'[runs[r].profile] = Overlay(data[runs[r].profile], runs[r].write)
           /\ \A f \in Profiles \ {runs[r].profile} : data'[f] = data[f]
<1>1. r \in inflight /\ r \notin committed /\ runs[r] # None
  BY DEF Commit, IInv, Owned, ArtifactIsTrue
<1>2. runs[r] \in Runs /\ RunOK(runs[r])
  BY <1>1 DEF IInv, TypeOK, Recorded
<1>3. /\ runs[r].profile \in Profiles
      /\ runs[r].expect \in Snapshots /\ runs[r].write \in Snapshots
  BY <1>2, RunFields
<1>4. Shown(runs[r].profile, DOMAIN runs[r].expect) = runs[r].expect
  BY DEF Commit, Holds, MutationHolds, UndoHolds
<1>5. DOMAIN runs[r].expect \subseteq Docs
  BY <1>3, SnapshotOK
<1>6. \A d \in DOMAIN runs[r].expect : Json[data[runs[r].profile][d]] = runs[r].expect[d]
  BY <1>3, <1>4, <1>5, ShownOK DEF IInv
<1>7. QED BY <1>1, <1>2, <1>3, <1>5, <1>6 DEF Commit, IInv, TypeOK

LEMMA CommitOK ==
    ASSUME IInv, NEW r \in RunNames, Commit(r)
    PROVE  IInv'
<1> DEFINE f == runs[r].profile
           w == runs[r].write
<1>1. /\ r \in inflight /\ r \notin committed
      /\ runs[r] \in Runs /\ f \in Profiles /\ w \in Snapshots
      /\ data'[f] = Overlay(data[f], w) /\ \A g \in Profiles \ {f} : data'[g] = data[g]
  BY CommitSees
<1>2. /\ UNCHANGED <<approvals, runs, proc>> /\ committed' = committed \cup {r}
      /\ inflight' = inflight \ {r} /\ overwritten' = overwritten \cup Writers(f, DOMAIN w)
      /\ changed' \subseteq changed \cup {r}
  BY DEF Commit
<1>3. TypeOK'
  <2>1. data[f] \in [Docs -> Field]
    BY <1>1 DEF IInv, TypeOK
  <2>2. data' \in [Profiles -> [Docs -> Field]]
    BY <1>1, <2>1, OverlayOK DEF Commit, IInv, TypeOK
  <2>3. Writers(f, DOMAIN w) \subseteq committed
    BY DEF Writers
  <2>4. UNCHANGED <<transactional, now, foreign, backup>>
    BY DEF Commit
  <2>5. QED BY <1>2, <2>2, <2>3, <2>4 DEF IInv, TypeOK
<1>4. ArtifactIsTrue'
  BY <1>1, <1>2 DEF IInv, ArtifactIsTrue
<1>5. Recorded'
  BY <1>2 DEF IInv, Recorded, RunOK, ApprovalOK, Paired, Inverse
<1>6. Owned'
  <2>1. ASSUME NEW p \in Procs
        PROVE  Owner(p)'
    <3>1. Owner(p)
      BY DEF IInv, Owned
    <3>2. QED BY <1>1, <1>2, <3>1 DEF Owner
  <2>2. QED BY <1>2, <2>1 DEF IInv, Owned
<1>7. ASSUME NEW s \in committed' \ overwritten', NEW e \in DOMAIN runs'[s].write
      PROVE  data'[runs'[s].profile][e] = runs'[s].write[e]
  <2>1. CASE s = r
    <3>1. e \in DOMAIN w /\ DOMAIN w \subseteq Docs
      BY <1>1, <1>2, <1>7, <2>1, SnapshotOK
    <3>2. QED BY <1>1, <1>2, <2>1, <3>1 DEF Overlay
  <2>2. CASE s # r
    <3>1. s \in committed \ overwritten /\ s \notin Writers(f, DOMAIN w) /\ s \in RunNames
      BY <1>2, <1>7, <2>2 DEF IInv, TypeOK
    <3>2. runs[s] \in Runs
      BY <3>1 DEF IInv, ArtifactIsTrue, TypeOK
    <3>3. runs[s].profile \in Profiles /\ DOMAIN runs[s].write \subseteq Docs
      BY <3>2, RunFields, SnapshotOK
    <3>4. data[runs[s].profile][e] = runs[s].write[e]
      BY <1>2, <1>7, <3>1 DEF IInv, Stands
    <3>5. runs[s].profile # f \/ e \notin DOMAIN w
      BY <1>2, <1>7, <3>1 DEF Writers
    <3>6. e \in Docs
      BY <1>2, <1>7, <3>3
    <3>7. CASE runs[s].profile # f
      BY <1>1, <1>2, <3>3, <3>4, <3>7
    <3>8. CASE runs[s].profile = f /\ e \notin DOMAIN w
      BY <1>1, <1>2, <3>4, <3>6, <3>8 DEF Overlay
    <3>9. QED BY <3>5, <3>7, <3>8
  <2>3. QED BY <2>1, <2>2
<1>8. QED BY <1>3, <1>4, <1>5, <1>6, <1>7 DEF IInv, Stands

---------------------------------------------------------------------------
(* What mongosh said *)

LEMMA ConcludeOK ==
    ASSUME IInv, NEW p \in Procs, NEW result \in Outcomes \ {"prepared"},
           proc[p].pc = "running", Conclude(p, result), inflight' \subseteq inflight,
           result = "applied" => proc[p].run \in committed,
           result \in {"aborted", "failed"} => proc[p].run \notin committed \cup inflight'
    PROVE  IInv'
<1>1. UNCHANGED <<data, approvals, runs, committed, overwritten>>
  BY DEF Conclude
<1>2. proc[p].run \in RunNames
  BY ProcOK DEF IInv
<1>3. [pc |-> "finalize", run |-> proc[p].run, result |-> result] \in Processes
  BY <1>2 DEF Processes
<1>4. TypeOK'
  BY <1>3 DEF IInv, TypeOK, Conclude
<1>5. /\ proc'[p].pc = "finalize" /\ proc'[p].run = proc[p].run /\ proc'[p].result = result
      /\ \A q \in Procs \ {p} : proc'[q] = proc[q]
  BY DEF Conclude, IInv, TypeOK
<1>6. ArtifactIsTrue' /\ Stands' /\ KeepsRuns
  BY <1>1, CalmOK
<1>7. Recorded'
  BY <1>1, <1>4, <1>5, <1>6, RecordedKept DEF IInv, KeepsApprovals
<1>8. Owned'
  <2>1. ASSUME NEW q \in Procs \ {p}
        PROVE  Owner(q)'
    <3>1. Owner(q) /\ proc'[q] = proc[q]
      BY <1>5 DEF IInv, Owned
    <3>2. QED BY <1>1, <3>1 DEF Owner
  <2>2. runs[proc[p].run] # None /\ runs[proc[p].run].outcome = "prepared"
    BY DEF IInv, Owned, Owner
  <2>3. Owner(p)'
    BY <1>1, <1>5, <2>2 DEF Owner
  <2>4. QED BY <1>1, <1>5, <2>1, <2>3 DEF IInv, Owned
<1>9. QED BY <1>4, <1>6, <1>7, <1>8 DEF IInv

LEMMA AnswerOK ==
    ASSUME IInv, NEW p \in Procs,
           SaysApplied(p) \/ SaysAborted(p) \/ NotStarted(p) \/ SaysNothing(p)
    PROVE  IInv'
<1>1. \A x : x \in inflight => x \notin committed
  BY DEF IInv, Owned
<1>2. CASE SaysApplied(p)
  BY <1>2, ConcludeOK DEF SaysApplied, Outcomes
<1>3. CASE SaysAborted(p)
  BY <1>1, <1>3, ConcludeOK DEF SaysAborted, Outcomes
<1>4. CASE NotStarted(p)
  BY <1>1, <1>4, ConcludeOK DEF NotStarted, Outcomes
<1>5. CASE SaysNothing(p)
  BY <1>5, ConcludeOK DEF SaysNothing, Outcomes
<1>6. QED BY <1>2, <1>3, <1>4, <1>5

---------------------------------------------------------------------------
(* The record *)

\* One artifact gets an outcome or the name of an undo; nothing else is written.
LEMMA RecordOK ==
    ASSUME IInv, NEW r \in RunNames, NEW x \in Runs, NEW p \in Procs,
           UNCHANGED <<data, transactional, now, foreign, backup, approvals, inflight, committed,
                       changed, overwritten>>,
           runs[r] # None, runs' = [runs EXCEPT ![r] = x],
           x.kind = runs[r].kind, x.profile = runs[r].profile, x.of = runs[r].of,
           x.approval = runs[r].approval, x.expect = runs[r].expect, x.write = runs[r].write,
           x.outcome = "applied" => r \in committed,
           x.outcome \in {"aborted", "failed"} => r \notin committed \cup inflight,
           runs[r].outcome = "applied" => x.outcome = "applied",
           \/ x.undo_artifact \in {None, runs[r].undo_artifact}
           \/ /\ x.undo_artifact \in committed
              /\ runs[x.undo_artifact].of = r /\ runs[x.undo_artifact].outcome = "applied",
           proc'[p] \in Processes, proc' = [proc EXCEPT ![p] = proc'[p]],
           proc'[p].pc \in {"idle", "backlink"}
    PROVE  TypeOK' /\ ArtifactIsTrue' /\ Recorded' /\ Stands'
<1>1. x # None
  BY NoneIsNoRecord
<1>2. runs'[r] = x /\ \A s \in RunNames \ {r} : runs'[s] = runs[s]
  BY DEF IInv, TypeOK
<1>3. \A q \in Procs \ {p} : proc'[q] = proc[q]
  BY DEF IInv, TypeOK
<1>4. TypeOK'
  <2>1. proc' \in [Procs -> Processes]
    BY DEF IInv, TypeOK
  <2>2. runs' \in [RunNames -> Runs \cup {None}]
    BY DEF IInv, TypeOK
  <2>3. QED BY <2>1, <2>2 DEF IInv, TypeOK
<1>5. KeepsRuns /\ KeepsApprovals
  BY <1>1, <1>2 DEF KeepsRuns, KeepsApprovals
<1>6. \A s \in RunNames : runs'[s] # None => runs[s] # None
  BY <1>2
<1>7. Recorded'
  BY <1>3, <1>4, <1>5, <1>6, RecordedKept DEF IInv
<1>8. ASSUME NEW u \in RunNames, runs[u] # None, runs[u].outcome = "applied"
      PROVE  runs'[u].outcome = "applied" /\ runs'[u].of = runs[u].of
  BY <1>2, <1>8
<1>9. ASSUME NEW s \in RunNames
      PROVE  /\ s \in committed' \cup inflight' => runs'[s] # None
             /\ runs'[s] # None =>
                   /\ runs'[s].outcome = "applied" => s \in committed'
                   /\ runs'[s].outcome \in {"aborted", "failed"} =>
                         s \notin committed' \cup inflight'
                   /\ runs'[s].undo_artifact # None =>
                         \E u \in committed' : /\ u = runs'[s].undo_artifact
                                               /\ runs'[u].of = s /\ runs'[u].outcome = "applied"
  <2>1. s \in committed' \cup inflight' => runs'[s] # None
    BY <1>1, <1>2 DEF IInv, ArtifactIsTrue
  <2>2. ASSUME runs'[s] # None
        PROVE  /\ runs'[s].outcome = "applied" => s \in committed'
               /\ runs'[s].outcome \in {"aborted", "failed"} => s \notin committed' \cup inflight'
    <3>1. CASE s = r
      BY <1>2, <3>1
    <3>2. CASE s # r
      BY <1>2, <2>2, <3>2 DEF IInv, ArtifactIsTrue
    <3>3. QED BY <3>1, <3>2
  <2>3. ASSUME runs'[s] # None, runs'[s].undo_artifact # None
        PROVE  \E u \in committed' : /\ u = runs'[s].undo_artifact
                                     /\ runs'[u].of = s /\ runs'[u].outcome = "applied"
    <3>1. \E u \in committed : /\ u = runs'[s].undo_artifact
                               /\ runs[u].of = s /\ runs[u].outcome = "applied"
      <4>1. CASE s = r
        <5>1. CASE runs[r].undo_artifact # None /\ x.undo_artifact = runs[r].undo_artifact
          BY <1>2, <4>1, <5>1 DEF IInv, ArtifactIsTrue
        <5>2. CASE /\ x.undo_artifact \in committed
                   /\ runs[x.undo_artifact].of = r /\ runs[x.undo_artifact].outcome = "applied"
          BY <1>2, <4>1, <5>2
        <5>3. QED BY <1>2, <2>3, <4>1, <5>1, <5>2
      <4>2. CASE s # r
        BY <1>2, <2>3, <4>2 DEF IInv, ArtifactIsTrue
      <4>3. QED BY <4>1, <4>2
    <3>2. PICK u \in committed : /\ u = runs'[s].undo_artifact
                                 /\ runs[u].of = s /\ runs[u].outcome = "applied"
      BY <3>1
    <3>3. u \in RunNames /\ runs[u] # None
      BY <3>2 DEF IInv, TypeOK, ArtifactIsTrue
    <3>4. QED BY <1>8, <3>2, <3>3
  <2>4. QED BY <2>1, <2>2, <2>3
<1>10. ArtifactIsTrue'
  BY <1>9 DEF ArtifactIsTrue
<1>11. Stands'
  <2>1. \A s \in committed : runs'[s].profile = runs[s].profile /\ runs'[s].write = runs[s].write
    BY <1>2 DEF IInv, TypeOK
  <2>2. QED BY <2>1 DEF IInv, Stands
<1>12. QED BY <1>4, <1>7, <1>10, <1>11

LEMMA FinalizeOK ==
    ASSUME IInv, NEW p \in Procs, NEW saved \in BOOLEAN, Finalize(p, saved)
    PROVE  IInv'
<1> DEFINE r == proc[p].run
           result == proc[p].result
           x == [runs[r] EXCEPT !.outcome = result,
                                !.modified = (result = "applied") /\ r \in changed]
<1>1. /\ UNCHANGED <<data, transactional, now, foreign, backup, approvals, inflight, committed,
                     changed, overwritten>>
      /\ proc[p].pc = "finalize"
  BY DEF Finalize
<1>2. CASE ~saved
  <2>1. runs' = runs /\ proc' = [proc EXCEPT ![p] = Idle]
    BY <1>2 DEF Finalize
  <2>2. QED BY <1>1, <2>1, IdleStepOK
<1>3. CASE saved
  <2>1. /\ r \in RunNames /\ result \in Outcomes \ {"prepared"}
        /\ runs[r] # None /\ runs[r].outcome = "prepared"
        /\ result = "applied" => r \in committed
        /\ result \in {"aborted", "failed"} => r \notin committed \cup inflight
    BY <1>1, ProcOK DEF IInv, Owned, Owner
  <2>2. runs[r] \in Runs
    BY <2>1 DEF IInv, TypeOK
  <2>3. /\ x \in Runs /\ x.outcome = result
        /\ x.kind = runs[r].kind /\ x.profile = runs[r].profile /\ x.of = runs[r].of
        /\ x.approval = runs[r].approval /\ x.expect = runs[r].expect /\ x.write = runs[r].write
        /\ x.undo_artifact = runs[r].undo_artifact
    <3>1. ((result = "applied") /\ r \in changed) \in BOOLEAN
      OBVIOUS
    <3>2. result \in Outcomes
      BY <2>1
    <3>3. QED BY <2>2, <3>1, <3>2 DEF Runs
  <2>4. runs' = [runs EXCEPT ![r] = x]
    BY <1>3, <2>2 DEF Finalize, Runs
  <2>5. /\ proc' = [proc EXCEPT ![p] = proc'[p]]
        /\ \/ proc'[p] = Idle
           \/ /\ result = "applied" /\ runs[r].kind = "undo"
              /\ proc'[p] = [pc |-> "backlink", run |-> r]
    BY DEF Finalize, IInv, TypeOK
  <2>6. proc'[p] \in Processes /\ proc'[p].pc \in {"idle", "backlink"}
    BY <2>1, <2>5, IdleOK DEF Processes
  <2>7. TypeOK' /\ ArtifactIsTrue' /\ Recorded' /\ Stands'
    <3>1. x.outcome = "applied" => r \in committed
      BY <2>1, <2>3
    <3>2. x.outcome \in {"aborted", "failed"} => r \notin committed \cup inflight
      BY <2>1, <2>3
    <3>3. runs[r].outcome = "applied" => x.outcome = "applied"
      BY <2>1
    <3>4. QED BY <1>1, <2>1, <2>3, <2>4, <2>5, <2>6, <3>1, <3>2, <3>3, RecordOK
  <2>8. /\ runs'[r] = x /\ \A s \in RunNames \ {r} : runs'[s] = runs[s]
        /\ \A q \in Procs \ {p} : proc'[q] = proc[q]
    BY <2>1, <2>4, <2>5 DEF IInv, TypeOK
  <2>9. ASSUME NEW q \in Procs \ {p}
        PROVE  Owner(q)'
    <3>1. Owner(q) /\ proc'[q] = proc[q]
      BY <2>8 DEF IInv, Owned
    <3>2. /\ proc[q].pc \in {"running", "finalize"} => proc[q].run # r
          /\ proc[q].pc = "backlink" => proc[q].run # r
      BY <1>1, <2>1, <3>1 DEF IInv, Owned, Owner
    <3>3. proc[q].pc \in {"running", "finalize", "backlink"} => proc[q].run \in RunNames
      BY ProcOK DEF IInv
    <3>4. QED BY <1>1, <2>8, <3>1, <3>2, <3>3 DEF Owner
  <2>10. Owner(p)'
    <3>1. CASE proc'[p] = Idle
      BY <3>1, IdleOK DEF Owner
    <3>2. CASE /\ result = "applied" /\ runs[r].kind = "undo"
               /\ proc'[p] = [pc |-> "backlink", run |-> r]
      <4>1. proc'[p].pc = "backlink" /\ proc'[p].run = r
        BY <3>2
      <4>2. r \in committed' /\ runs'[r] # None
        BY <1>1, <2>1, <2>3, <2>8, <3>2, NoneIsNoRecord
      <4>3. runs'[r].kind = "undo" /\ runs'[r].outcome = "applied"
        BY <2>3, <2>8, <3>2
      <4>4. QED BY <4>1, <4>2, <4>3 DEF Owner
    <3>3. QED BY <2>5, <3>1, <3>2
  <2>11. Owned'
    BY <1>1, <2>6, <2>8, <2>9, <2>10 DEF IInv, Owned
  <2>12. QED BY <2>7, <2>11 DEF IInv
<1>4. QED BY <1>2, <1>3

LEMMA BacklinkOK ==
    ASSUME IInv, NEW p \in Procs, NEW saved \in BOOLEAN, Backlink(p, saved)
    PROVE  IInv'
<1> DEFINE u == proc[p].run
           m == runs[u].of
           x == [runs[m] EXCEPT !.undo_artifact = u]
<1>1. /\ UNCHANGED <<data, transactional, now, foreign, backup, approvals, inflight, committed,
                     changed, overwritten>>
      /\ proc[p].pc = "backlink" /\ proc' = [proc EXCEPT ![p] = Idle]
  BY DEF Backlink
<1>2. CASE ~saved
  <2>1. runs' = runs
    BY <1>2 DEF Backlink
  <2>2. QED BY <1>1, <2>1, IdleStepOK
<1>3. CASE saved
  <2>1. /\ u \in RunNames /\ u \in committed /\ runs[u] # None
        /\ runs[u].kind = "undo" /\ runs[u].outcome = "applied"
    BY <1>1, ProcOK DEF IInv, Owned, Owner
  <2>2. m \in RunNames /\ runs[m] # None
    BY <2>1 DEF IInv, Recorded, RunOK, Inverse
  <2>3. runs[m] \in Runs
    BY <2>2 DEF IInv, TypeOK
  <2>4. /\ x \in Runs /\ x.outcome = runs[m].outcome
        /\ x.kind = runs[m].kind /\ x.profile = runs[m].profile /\ x.of = runs[m].of
        /\ x.approval = runs[m].approval /\ x.expect = runs[m].expect /\ x.write = runs[m].write
        /\ x.undo_artifact = u
    BY <2>1, <2>3 DEF Runs
  <2>5. runs' = [runs EXCEPT ![m] = x]
    BY <1>3 DEF Backlink
  <2>6. proc'[p] = Idle /\ \A q \in Procs \ {p} : proc'[q] = proc[q]
    BY <1>1 DEF IInv, TypeOK
  <2>7. TypeOK' /\ ArtifactIsTrue' /\ Recorded' /\ Stands'
    <3>1. /\ x.outcome = "applied" => m \in committed
          /\ x.outcome \in {"aborted", "failed"} => m \notin committed \cup inflight
      BY <2>2, <2>4 DEF IInv, ArtifactIsTrue
    <3>2. proc'[p] \in Processes /\ proc'[p].pc \in {"idle", "backlink"}
      BY <2>6, IdleOK
    <3>3. proc' = [proc EXCEPT ![p] = proc'[p]]
      BY <1>1, <2>6
    <3>4. /\ x.undo_artifact \in committed
          /\ runs[x.undo_artifact].of = m /\ runs[x.undo_artifact].outcome = "applied"
      BY <2>1, <2>4
    <3>5. runs[m].outcome = "applied" => x.outcome = "applied"
      BY <2>4
    <3>6. QED BY <1>1, <2>2, <2>4, <2>5, <3>1, <3>2, <3>3, <3>4, <3>5, RecordOK
  <2>8. \A s \in RunNames : runs[s] # None =>
           runs'[s] # None /\ runs'[s].outcome = runs[s].outcome /\ runs'[s].kind = runs[s].kind
    BY <2>2, <2>4, <2>5, NoneIsNoRecord DEF IInv, TypeOK
  <2>9. ASSUME NEW q \in Procs
        PROVE  Owner(q)'
    <3>1. CASE q = p
      BY <2>6, <3>1, IdleOK DEF Owner
    <3>2. CASE q # p
      <4>1. Owner(q) /\ proc'[q] = proc[q]
        BY <2>6, <3>2 DEF IInv, Owned
      <4>2. proc[q].pc \in {"running", "finalize", "backlink"} => proc[q].run \in RunNames
        BY ProcOK DEF IInv
      <4>3. QED BY <1>1, <2>8, <4>1, <4>2 DEF Owner
    <3>3. QED BY <3>1, <3>2
  <2>10. Owned'
    BY <1>1, <2>6, <2>9, IdleOK DEF IInv, Owned
  <2>11. QED BY <2>7, <2>10 DEF IInv
<1>4. QED BY <1>2, <1>3

---------------------------------------------------------------------------
(* The invariant holds *)

LEMMA InitOK == Init => IInv
<1> SUFFICES ASSUME Init PROVE IInv
  OBVIOUS
<1>1. TypeOK
  <2>1. data \in [Profiles -> [Docs -> Field]]
    BY BoundsOK DEF Init
  <2>2. now \in 0..MaxTime /\ foreign \in 0..MaxForeign
    BY BoundsOK DEF Init
  <2>3. QED BY <2>1, <2>2, IdleOK DEF Init, TypeOK
<1>2. /\ \A y \in ApprovalNames : approvals[y] = None
      /\ \A r \in RunNames : runs[r] = None
      /\ \A p \in Procs : proc[p].pc = "idle"
      /\ committed = {} /\ inflight = {}
  BY IdleOK DEF Init
<1>3. QED BY <1>1, <1>2 DEF IInv, ArtifactIsTrue, Recorded, Owned, Owner, Stands

LEMMA StutterOK ==
    ASSUME IInv, UNCHANGED vars
    PROVE  IInv'
BY DEF vars, IInv, TypeOK, ArtifactIsTrue, Recorded, RunOK, ApprovalOK, Paired, Inverse, Owned,
       Owner, Stands

LEMMA ApplyOK ==
    ASSUME IInv, NEW p \in Procs, Apply(p)
    PROVE  IInv'
<1>1. CASE \E f \in Profiles, a \in ApprovalNames, t \in Templates : PrepareMutation(p, f, t, a)
  BY <1>1, PrepareMutationOK
<1>2. CASE \E f \in Profiles, a \in ApprovalNames, m \in RunNames : PrepareUndo(p, f, m, a)
  BY <1>2, PrepareUndoOK
<1>3. CASE Decline(p) \/ Crash(p)
  BY <1>3, IdleStepOK DEF Decline, Crash
<1>4. CASE \E r \in RunNames : Execute(p, r)
  BY <1>4, ExecuteOK
<1>5. CASE SaysApplied(p) \/ SaysAborted(p) \/ NotStarted(p) \/ SaysNothing(p)
  BY <1>5, AnswerOK
<1>6. CASE \E saved \in BOOLEAN : Finalize(p, saved)
  BY <1>6, FinalizeOK
<1>7. CASE \E saved \in BOOLEAN : Backlink(p, saved)
  BY <1>7, BacklinkOK
<1>8. QED BY <1>1, <1>2, <1>3, <1>4, <1>5, <1>6, <1>7 DEF Apply

LEMMA NextOK == IInv /\ [Next]_vars => IInv'
<1> SUFFICES ASSUME IInv, [Next]_vars PROVE IInv'
  OBVIOUS
<1>1. CASE Preview
  BY <1>1, PreviewMutationOK, PreviewUndoOK DEF Preview
<1>2. CASE \E p \in Procs : Apply(p)
  BY <1>2, ApplyOK
<1>3. CASE Environment
  BY <1>3, TickOK, OthersWriteOK, BackupOK, CommitOK DEF Environment
<1>4. CASE UNCHANGED vars
  BY <1>4, StutterOK
<1>5. QED BY <1>1, <1>2, <1>3, <1>4 DEF Next

LEMMA Invariant == Spec => []IInv
BY InitOK, NextOK, PTL DEF Spec

\* Every variable keeps its type, whatever the instance.
THEOREM TypeCorrect == Spec => []TypeOK
<1>1. IInv => TypeOK
  BY DEF IInv
<1>2. QED BY <1>1, Invariant, PTL

\* What an execution artifact says is so, for any number of processes that die at any point
\* and of transactions that outlive them.
THEOREM ArtifactsTrue == Spec => []ArtifactIsTrue
<1>1. IInv => ArtifactIsTrue
  BY DEF IInv
<1>2. QED BY <1>1, Invariant, PTL

---------------------------------------------------------------------------
(* What a transaction does *)

\* Only a commit makes a transaction committed, and it makes one.
LEMMA OneCommits ==
    ASSUME [Next]_vars, NEW r, r \in committed', r \notin committed
    PROVE  r \in RunNames /\ Commit(r) /\ UNCHANGED <<runs, approvals>>
<1>1. CASE \E s \in RunNames : Commit(s)
  BY <1>1 DEF Commit
<1>2. CASE Preview
  BY <1>2 DEF Preview, PreviewMutation, PreviewUndo, SaveApproval
<1>3. CASE \E p \in Procs : Apply(p)
  <2>1. PICK p \in Procs : Apply(p)
    BY <1>3
  <2>2. committed' = committed
    BY <2>1 DEF Apply, PrepareMutation, PrepareUndo, Prepared, Decline, Execute, SaysApplied,
                SaysAborted, NotStarted, SaysNothing, Conclude, Finalize, Backlink, Crash
  <2>3. QED BY <2>2
<1>4. CASE Environment /\ ~\E s \in RunNames : Commit(s)
  BY <1>4 DEF Environment, Tick, OthersWrite, Backup
<1>5. CASE UNCHANGED vars
  BY <1>5 DEF vars
<1>6. QED BY <1>1, <1>2, <1>3, <1>4, <1>5 DEF Next

\* A transaction writes exactly what its preview shows over exactly what it shows, whatever is
\* written between the preview, the confirmation and the transaction.
THEOREM WritesSeen == Spec => WritesWhatWasSeen
<1>1. ASSUME IInv, [Next]_vars, NEW r \in committed' \ committed
      PROVE  LET a == approvals[runs[r].approval]
                 f == runs[r].profile
             IN /\ \A d \in DOMAIN a.expect : Json[data[f][d]] = a.expect[d]
                /\ data'[f] = Overlay(data[f], a.write)
  <2>1. r \in RunNames /\ Commit(r)
    BY <1>1, OneCommits
  <2>2. /\ RunOK(runs[r])
        /\ \A d \in DOMAIN runs[r].expect :
              d \in Docs /\ Json[data[runs[r].profile][d]] = runs[r].expect[d]
        /\ data'[runs[r].profile] = Overlay(data[runs[r].profile], runs[r].write)
    BY <1>1, <2>1, CommitSees
  <2>3. /\ approvals[runs[r].approval].expect = runs[r].expect
        /\ approvals[runs[r].approval].write = runs[r].write
    BY <2>2 DEF RunOK
  <2>4. QED BY <2>2, <2>3
<1>2. IInv /\ [Next]_vars =>
         [\A r \in committed' \ committed :
             LET a == approvals[runs[r].approval]
                 f == runs[r].profile
             IN /\ \A d \in DOMAIN a.expect : Json[data[f][d]] = a.expect[d]
                /\ data'[f] = Overlay(data[f], a.write)]_vars
  BY <1>1
<1>3. QED BY <1>2, Invariant, PTL DEF Spec, WritesWhatWasSeen

\* No change is made again on top of itself, however often an approval is used.
THEOREM RepeatsNothing == Spec => NeverRepeated
<1>1. ASSUME IInv, [Next]_vars, NEW r \in committed' \ committed, NEW s \in committed,
             SameChange(r, s), runs[r].expect # runs[r].write, s \notin overwritten
      PROVE  FALSE
  <2>1. r \in RunNames /\ Commit(r)
    BY <1>1, OneCommits
  <2>2. /\ RunOK(runs[r]) /\ runs[r].profile \in Profiles
        /\ runs[r].expect \in Snapshots /\ runs[r].write \in Snapshots
        /\ \A d \in DOMAIN runs[r].expect :
              d \in Docs /\ Json[data[runs[r].profile][d]] = runs[r].expect[d]
    BY <1>1, <2>1, CommitSees
  <2>3. \A d \in DOMAIN runs[r].write : data[runs[r].profile][d] = runs[r].write[d]
    BY <1>1 DEF IInv, Stands, SameChange
  <2>4. /\ DOMAIN runs[r].write = DOMAIN runs[r].expect
        /\ \A d \in DOMAIN runs[r].expect : Json[runs[r].write[d]] = runs[r].write[d]
    BY <2>2 DEF RunOK, Paired
  <2>5. \A d \in DOMAIN runs[r].expect : runs[r].expect[d] = runs[r].write[d]
    BY <2>2, <2>3, <2>4
  <2>6. /\ runs[r].expect \in [DOMAIN runs[r].expect -> Field]
        /\ runs[r].write \in [DOMAIN runs[r].write -> Field]
    BY <2>2, SnapshotOK
  <2>7. runs[r].expect = runs[r].write
    BY <2>4, <2>5, <2>6
  <2>8. QED BY <1>1, <2>7
<1>2. IInv /\ [Next]_vars =>
         [\A r \in committed' \ committed, s \in committed :
             SameChange(r, s) /\ runs[r].expect # runs[r].write => s \in overwritten]_vars
  BY <1>1
<1>3. QED BY <1>2, Invariant, PTL DEF Spec, NeverRepeated
=============================================================================
