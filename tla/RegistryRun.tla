---------------------------- MODULE RegistryRun ----------------------------
(***************************************************************************)
(* The executor of actions and workflows (ayx-registry/src/executor.rs)    *)
(* over every registry that loads (Registry::finalize in lib.rs): input    *)
(* contracts, the gate of --apply, steps that run commands or expand       *)
(* another action, fail-stop and audit.                                    *)
(***************************************************************************)
EXTENDS Naturals, Sequences, SequencesExt, FiniteSets

CONSTANTS
    ActionIds,
    MissingId,      \* an id no action has
    Workflow,       \* the actions of the workflow, in order
    Params,         \* names of parameters
    Bodies,         \* the step lists an action may have
    None

ASSUME ConstantsOK ==
    /\ MissingId \notin ActionIds
    /\ Workflow \in Seq(ActionIds) /\ Workflow # <<>>
    /\ Bodies \subseteq Seq([kind : {"note"}] \cup [kind : {"command"}, uses : SUBSET Params]
                            \cup [kind : {"action"}, id : ActionIds \cup {MissingId}])

VARIABLES
    reg,        \* the loaded Registry: the actions and the workflow's schema
    run,        \* what the user runs, with which parameters
    queue,      \* actions of the workflow that are still to come
    frames,     \* the calls of run_steps, the innermost last
    outcomes,   \* the StepOutcomes
    ran,        \* commands that were spawned
    audits,     \* audit files written
    result

vars == <<reg, run, queue, frames, outcomes, ran, audits, result>>

\* An input_schema: which parameters are properties, which of them required, and whether
\* their definition is that of any string or admits "good" only. A schema that is not
\* declared is inferred, and then has no more than a required set.
Schemas ==
    {s \in [origin : {"explicit"}, props : SUBSET Params, required : SUBSET Params,
            def : [Params -> {"any", "enum"}]] :
        /\ s.required \subseteq s.props
        /\ \A p \in Params \ s.props : s.def[p] = "any"}
Inferred(required) ==
    [origin |-> "inferred", props |-> Params, required |-> required,
     def |-> [p \in Params |-> "any"]]

Values == {"good", "bad", None}
Actions == [steps : Bodies, mutating : BOOLEAN, declared : Schemas \cup {None}]
Frames == [action : ActionIds, i : Nat, params : [Params -> Values]]
Outcomes == [action : ActionIds, i : Nat, status : {"skipped", "expanded", "planned", "ok", "failed"}]
Results == {"ok", "missing", "contract", "not_found", "failed", "broken", "audit", "output"}

ASSUME NoneIsNoResult == None \notin Results

\* Every variable has its type, and a call is at one of its steps or behind the last.
TypeOK ==
    /\ reg.actions \in [ActionIds -> Actions] /\ reg.workflow \in Schemas \cup {None}
    /\ run \in [target : {"action", "workflow"}, params : [Params -> Values],
                apply : BOOLEAN, audit : BOOLEAN]
    /\ queue \in Seq(ActionIds) /\ frames \in Seq(Frames) /\ outcomes \in Seq(Outcomes)
    /\ \A k \in DOMAIN frames : frames[k].i \in 1..(Len(reg.actions[frames[k].action].steps) + 1)
    /\ ran \in Seq([action : ActionIds, uses : SUBSET Params, given : SUBSET Params])
    /\ audits \in Nat
    /\ result \in Results \cup {None}

---------------------------------------------------------------------------
(* The registry *)

StepsOf(actions, a) == actions[a].steps
Children(actions, a) ==
    {StepsOf(actions, a)[i].id : i \in {j \in DOMAIN StepsOf(actions, a) :
                                          StepsOf(actions, a)[j].kind = "action"}} \cap ActionIds

\* The actions a composes, directly or not: the least set that has its children and theirs.
HasChildren(actions, S) == \A b \in S : Children(actions, b) \subseteq S
Below(actions, a) ==
    {c \in ActionIds : \A S \in SUBSET ActionIds :
                          Children(actions, a) \subseteq S /\ HasChildren(actions, S) => c \in S}

\* The placeholders of its own commands and of those it composes.
Uses(actions, a) ==
    UNION {s.uses : s \in {t \in Range(StepsOf(actions, a)) : t.kind = "command"}}
Placeholders(actions, a) ==
    UNION {Uses(actions, b) : b \in {a} \cup Below(actions, a)}

\* effective_action_input_schema
Effective(actions, a) ==
    IF actions[a].declared # None THEN actions[a].declared
    ELSE Inferred(Placeholders(actions, a))

IsExplicit(s) == s.origin = "explicit"

\* What finalize asks of an action: no cycle; a declared schema requires every placeholder
\* and defines it as the composed action does that uses it and declares it too.
ActionContract(actions, a) ==
    LET s == Effective(actions, a)
    IN  /\ a \notin Below(actions, a)
        /\ IsExplicit(s) =>
             /\ Placeholders(actions, a) \subseteq s.required
             /\ \A b \in Children(actions, a), p \in Params :
                  IsExplicit(Effective(actions, b)) /\ p \in Placeholders(actions, b)
                      /\ p \in Effective(actions, b).props
                  => s.def[p] = Effective(actions, b).def[p]

InWorkflow == {Workflow[i] : i \in DOMAIN Workflow}

\* The parameters some action of the workflow requires, and those whose schema defines one.
Union(actions) == UNION {Effective(actions, a).required : a \in InWorkflow}
Definers(actions, p) ==
    {a \in InWorkflow : LET s == Effective(actions, a) IN IsExplicit(s) /\ p \in s.required}

\* effective_workflow_input_schema: actions that define a parameter agree; a declared
\* schema requires the union, defined as the actions define it.
WorkflowContract(actions, declared) ==
    /\ declared # None => declared.required = Union(actions)
    /\ \A p \in Params :
         LET defs == {Effective(actions, a).def[p] : a \in Definers(actions, p)}
         IN  /\ Cardinality(defs) <= 1
             /\ declared # None /\ p \in Union(actions) =>
                  {declared.def[p]} = IF defs = {} THEN {"any"} ELSE defs

EffectiveWorkflow ==
    IF reg.workflow # None THEN reg.workflow ELSE Inferred(Union(reg.actions))

\* Registries that load_default accepts.
Finalized(actions, workflow) ==
    /\ \A a \in ActionIds : ActionContract(actions, a)
    /\ WorkflowContract(actions, workflow)

Init ==
    /\ \E actions \in [ActionIds -> Actions], target \in {"action", "workflow"} :
       /\ \A a \in ActionIds : ActionContract(actions, a)
       /\ \E workflow \in IF target = "workflow" THEN Schemas \cup {None} ELSE {None} :
             /\ Finalized(actions, workflow)
             /\ reg = [actions |-> actions, workflow |-> workflow]
       /\ \E params \in [Params -> Values], apply, audit \in BOOLEAN :
             /\ audit => apply    \* bound: a plan is not audited here
             /\ run = [target |-> target, params |-> params, apply |-> apply, audit |-> audit]
    /\ queue = <<>> /\ frames = <<>> /\ outcomes = <<>> /\ ran = <<>>
    /\ audits = 0 /\ result = None

---------------------------------------------------------------------------
(* Contracts *)

Given(params) == {p \in Params : params[p] # None}

\* Mutant of Fails: what is given has the right values, and that is enough.
FailsOnValues(s, params) ==
    IF IsExplicit(s) /\ \E p \in Given(params) : params[p] = "bad" /\ s.def[p] = "enum"
    THEN "contract" ELSE None

\* validate_input_contract: MissingParams, InputContractViolation, or None.
Fails(s, params) ==
    IF ~IsExplicit(s)
    THEN IF s.required \subseteq Given(params) THEN None ELSE "missing"
    ELSE IF /\ s.required \subseteq Given(params) /\ Given(params) \subseteq s.props
            /\ \A p \in Given(params) : s.def[p] = "enum" => params[p] = "good"
         THEN None ELSE "contract"

\* filter_params_for_schema
Filtered(s, params) ==
    [p \in Params |-> IF IsExplicit(s) /\ p \notin s.props THEN None ELSE params[p]]

---------------------------------------------------------------------------
(* Execution *)

Running == result = None
Top == Last(frames)
Steps == StepsOf(reg.actions, Top.action)
Step == Steps[Top.i]
AtStep(kind) == Running /\ frames # <<>> /\ Top.i <= Len(Steps) /\ Step.kind = kind

\* Mutant of Advanced: one step too far.
AdvancedTwice == [frames EXCEPT ![Len(frames)].i = @ + 2]

Advanced == [frames EXCEPT ![Len(frames)].i = @ + 1]
Noted(status) == Append(outcomes, [action |-> Top.action, i |-> Top.i, status |-> status])

\* run_action and run_workflow: a workflow's contract first.
Begin ==
    /\ Running /\ queue = <<>> /\ frames = <<>> /\ outcomes = <<>>
    /\ LET fails == IF run.target = "workflow" THEN Fails(EffectiveWorkflow, run.params) ELSE None
       IN  IF fails # None THEN result' = fails /\ UNCHANGED <<queue, frames>>
           ELSE /\ queue' = IF run.target = "workflow" THEN Workflow ELSE <<Workflow[1]>>
                /\ UNCHANGED <<frames, result>>
    /\ UNCHANGED <<reg, run, outcomes, ran, audits>>

\* run_action_inner: the action's own contract, before its steps. Only a workflow filters.
StartAction ==
    /\ Running /\ queue # <<>> /\ frames = <<>>
    /\ LET a == Head(queue)
           s == Effective(reg.actions, a)
           params == IF run.target = "workflow" THEN Filtered(s, run.params) ELSE run.params
       IN  IF Fails(s, params) # None THEN result' = Fails(s, params) /\ UNCHANGED frames
           ELSE frames' = <<[action |-> a, i |-> 1, params |-> params]>> /\ UNCHANGED result
    /\ UNCHANGED <<reg, run, queue, outcomes, ran, audits>>

Note ==
    /\ AtStep("note")
    /\ outcomes' = Noted("skipped")
    /\ frames' = Advanced
    /\ UNCHANGED <<reg, run, queue, ran, audits, result>>

\* Step::Action: the action is looked up, its contract checked, and its steps come next.
Expand ==
    /\ AtStep("action")
    /\ IF Step.id = MissingId
       THEN result' = "not_found" /\ UNCHANGED <<frames, outcomes>>
       ELSE LET s == Effective(reg.actions, Step.id)
                params == Filtered(s, Top.params)
            IN  IF Fails(s, params) # None
                THEN result' = Fails(s, params) /\ UNCHANGED <<frames, outcomes>>
                ELSE /\ outcomes' = Noted(IF run.apply THEN "expanded" ELSE "planned")
                     /\ frames' = Append(Advanced, [action |-> Step.id, i |-> 1, params |-> params])
                     /\ UNCHANGED result
    /\ UNCHANGED <<reg, run, queue, ran, audits>>

\* Mutant of Blocked: the action the user runs decides for those it composes.
BlockedByOuter == reg.actions[frames[1].action].mutating /\ ~run.apply

\* safety_blocks: the action the step belongs to.
Blocked == reg.actions[Top.action].mutating /\ ~run.apply

Plan ==
    /\ AtStep("command") /\ Blocked
    /\ outcomes' = Noted("planned")
    /\ frames' = Advanced
    /\ UNCHANGED <<reg, run, queue, ran, audits, result>>

\* No command: an unmatched quote, no binary, no process.
NotSpawned ==
    /\ AtStep("command") /\ ~Blocked
    /\ result' = "broken"
    /\ UNCHANGED <<reg, run, queue, frames, outcomes, ran, audits>>

Spawned == Append(ran, [action |-> Top.action, uses |-> Step.uses, given |-> Given(Top.params)])

\* Mutant of Audited: only a step that succeeds is audited.
AuditedIfOk(status) == IF run.audit /\ status = "ok" THEN audits + 1 ELSE audits

Audited(status) == IF run.audit THEN audits + 1 ELSE audits

\* Mutant of Outcome: what failed is noted and the next step comes.
OutcomeNoted(status) == UNCHANGED result

\* Fail-stop: a failed process, or an envelope that is not ok.
Outcome(status) == IF status = "failed" THEN result' = "failed" ELSE UNCHANGED result

\* execute_command_step: spawn, wait, write the audit file, then judge.
Execute ==
    /\ AtStep("command") /\ ~Blocked
    /\ ran' = Spawned
    /\ \E status \in {"ok", "failed"} :
          /\ outcomes' = Noted(status)
          /\ audits' = Audited(status)
          /\ Outcome(status)
    /\ frames' = Advanced
    /\ UNCHANGED <<reg, run, queue>>

\* The command ran, its audit file cannot be written, and its outcome is lost.
AuditFails ==
    /\ AtStep("command") /\ ~Blocked /\ run.audit
    /\ ran' = Spawned
    /\ result' = "audit"
    /\ UNCHANGED <<reg, run, queue, frames, outcomes, audits>>

AtEnd == Running /\ frames # <<>> /\ Top.i > Len(Steps)

Return ==
    /\ AtEnd /\ Len(frames) > 1
    /\ frames' = Front(frames)
    /\ UNCHANGED <<reg, run, queue, outcomes, ran, audits, result>>

\* The record is built. Its output contract, and that of the workflow, may be violated.
FinishAction ==
    /\ AtEnd /\ Len(frames) = 1
    /\ frames' = <<>> /\ queue' = Tail(queue)
    /\ result' \in {IF Len(queue) = 1 THEN "ok" ELSE None, "output"}
    /\ UNCHANGED <<reg, run, outcomes, ran, audits>>

\* The program has ended.
Done == ~Running /\ UNCHANGED vars

Next ==
    \/ Begin \/ StartAction \/ Note \/ Expand \/ Plan
    \/ NotSpawned \/ Execute \/ AuditFails \/ Return \/ FinishAction
    \/ Done

Spec == Init /\ [][Next]_vars

---------------------------------------------------------------------------
(* Properties *)

\* Without --apply no command of a mutating action runs, however deep the composition:
\* not one that an action composes which is called read-only.
UnappliedRunsReadOnly ==
    ~run.apply => \A i \in DOMAIN ran : ~reg.actions[ran[i].action].mutating

\* No command is started with a placeholder left in it ("Should be unreachable
\* post-validation"): what the contracts of every level require, and what is filtered
\* between them, leaves each command all its parameters. "Unknown placeholders are
\* reported up-front, before anything runs."
NoPlaceholderLeft ==
    /\ \A i \in DOMAIN ran : ran[i].uses \subseteq ran[i].given
    /\ result = "missing" => outcomes = <<>> /\ ran = <<>>

Taken == [k \in DOMAIN outcomes |-> <<outcomes[k].action, outcomes[k].i>>]
Program == IF run.target = "workflow" THEN Workflow ELSE <<Workflow[1]>>

\* rest: what an action lists from one of its steps on, with what the step composes in its
\* place. all: what the run lists from one of its actions on.
IsComposition(step) == step.kind = "action" /\ step.id # MissingId
RestFrom(rest, a, i) ==
    LET steps == StepsOf(reg.actions, a)
    IN  IF i > Len(steps) THEN <<>>
        ELSE <<<<a, i>>>> \o ((IF IsComposition(steps[i]) THEN rest[steps[i].id][1] ELSE <<>>)
                              \o rest[a][i + 1])
Flattens(rest, all) ==
    /\ \A a \in ActionIds : \A i \in 1..(Len(StepsOf(reg.actions, a)) + 1) :
          rest[a][i] \in Seq(ActionIds \X Nat) /\ rest[a][i] = RestFrom(rest, a, i)
    /\ \A j \in 1..(Len(Program) + 1) :
          /\ all[j] \in Seq(ActionIds \X Nat)
          /\ all[j] = IF j > Len(Program) THEN <<>> ELSE rest[Program[j]][1] \o all[j + 1]

\* Compositions are no deeper than there are actions.
Rest == LET rest[n \in 0..Cardinality(ActionIds)] ==
              [a \in ActionIds |->
                 LET steps == StepsOf(reg.actions, a)
                     from[i \in 1..(Len(steps) + 1)] ==
                        IF i > Len(steps) THEN <<>>
                        ELSE <<<<a, i>>>> \o (IF n > 0 /\ IsComposition(steps[i])
                                              THEN rest[n - 1][steps[i].id][1] ELSE <<>>) \o from[i + 1]
                 IN  from]
        IN  rest[Cardinality(ActionIds)]
All == LET all[j \in 1..(Len(Program) + 1)] ==
             IF j > Len(Program) THEN <<>> ELSE Rest[Program[j]][1] \o all[j + 1]
       IN  all

InOrder(expected) ==
    /\ IsPrefix(Taken, expected)
    /\ result = "ok" => Taken = expected

NothingAfterFailure ==
    \A i \in DOMAIN outcomes :
        outcomes[i].status = "failed" => i = Len(outcomes) /\ result = "failed"

CommandsAudited == run.audit => audits = Len(ran) - (IF result = "audit" THEN 1 ELSE 0)

\* The record lists the steps in their order, none left out and none twice, also across
\* composed actions; a run is ok only when it lists them all, and nothing comes behind a
\* command that failed. With an audit directory every command that ran has its file, those
\* that failed too, unless the result is that a file could not be written.
RecordIsTrue ==
    /\ Flattens(Rest, All) /\ InOrder(All[1])
    /\ NothingAfterFailure /\ CommandsAudited

\* "Surfaced before a read-only command, mutating plan, or `--apply` subprocess can start"
\* (ExecutorError::InputContractViolation).
ContractIsUpFront == result = "contract" => ran = <<>>
=============================================================================
