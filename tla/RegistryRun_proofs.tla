------------------------ MODULE RegistryRun_proofs ------------------------
(***************************************************************************)
(* Proofs about RegistryRun, for every registry that loads. The step that  *)
(* says most is the composition: an action's contract requires what the    *)
(* actions below it require (BelowGrows), so a call that passed its own    *)
(* contract leaves each call it makes all its parameters (ChildHasAll),    *)
(* and a workflow that passed its own leaves them to each of its actions.  *)
(***************************************************************************)
EXTENDS RegistryRun, TLAPS

Required(a) == Effective(reg.actions, a).required

Loaded ==
    /\ Finalized(reg.actions, reg.workflow)
    /\ \A i \in DOMAIN queue : queue[i] \in InWorkflow

\* A call has passed its contract, whatever it is nested in.
Satisfied == \A k \in DOMAIN frames : Required(frames[k].action) \subseteq Given(frames[k].params)

\* Where the run stands: before the first action, in a workflow that passed its contract, or
\* in the one action that is run.
Placed ==
    /\ frames # <<>> => queue # <<>>
    /\ Running /\ queue = <<>> => outcomes = <<>> /\ ran = <<>>
    /\ queue # <<>> /\ run.target = "workflow" => Union(reg.actions) \subseteq Given(run.params)
    /\ queue # <<>> /\ run.target = "action" =>
           Len(queue) = 1 /\ (Running /\ frames = <<>> => outcomes = <<>> /\ ran = <<>>)

IInv ==
    /\ TypeOK /\ Loaded /\ Satisfied /\ Placed
    /\ UnappliedRunsReadOnly /\ NoPlaceholderLeft /\ NothingAfterFailure /\ CommandsAudited

---------------------------------------------------------------------------
(* Contracts *)

StepRecords == [kind : {"note"}] \cup [kind : {"command"}, uses : SUBSET Params]
               \cup [kind : {"action"}, id : ActionIds \cup {MissingId}]

LEMMA StepsTyped ==
  ASSUME NEW actions \in [ActionIds -> Actions], NEW a \in ActionIds
  PROVE  StepsOf(actions, a) \in Seq(StepRecords)
<1>1. actions[a].steps \in Bodies
  BY DEF Actions
<1> QED
  BY <1>1, ConstantsOK DEF StepsOf, StepRecords

LEMMA ChildOfStep ==
  ASSUME NEW actions \in [ActionIds -> Actions], NEW a \in ActionIds,
         NEW i \in DOMAIN StepsOf(actions, a), StepsOf(actions, a)[i].kind = "action"
  PROVE  /\ StepsOf(actions, a)[i].id \in ActionIds \cup {MissingId}
         /\ StepsOf(actions, a)[i].id # MissingId => StepsOf(actions, a)[i].id \in Children(actions, a)
<1>1. StepsOf(actions, a)[i] \in StepRecords
  BY StepsTyped
<1>2. StepsOf(actions, a)[i].id \in ActionIds \cup {MissingId}
  BY <1>1 DEF StepRecords
<1> QED
  BY <1>2 DEF Children

\* What is below an action that another one composes is below that one too.
LEMMA BelowGrows ==
  ASSUME NEW actions, NEW a, NEW b \in Children(actions, a)
  PROVE  b \in Below(actions, a) /\ Below(actions, b) \subseteq Below(actions, a)
<1>1. b \in ActionIds
  BY DEF Children
<1>2. ASSUME NEW c \in ActionIds, \A S \in SUBSET ActionIds :
                 Children(actions, b) \subseteq S /\ HasChildren(actions, S) => c \in S,
             NEW S \in SUBSET ActionIds, Children(actions, a) \subseteq S, HasChildren(actions, S)
      PROVE  c \in S
  <2>1. b \in S
    BY <1>2
  <2>2. Children(actions, b) \subseteq S
    BY <1>2, <2>1 DEF HasChildren
  <2> QED
    BY <1>2, <2>2
<1>3. b \in Below(actions, a)
  BY <1>1 DEF Below
<1>4. Below(actions, b) \subseteq Below(actions, a)
  BY <1>2 DEF Below
<1> QED
  BY <1>3, <1>4

LEMMA PlaceholdersGrow ==
  ASSUME NEW actions, NEW a, NEW b \in Children(actions, a)
  PROVE  Placeholders(actions, b) \subseteq Placeholders(actions, a)
<1>1. {b} \cup Below(actions, b) \subseteq {a} \cup Below(actions, a)
  BY BelowGrows
<1> QED
  BY <1>1 DEF Placeholders

\* The contract of an action that loads requires its placeholders, declared or inferred.
LEMMA PlaceholdersRequired ==
  ASSUME NEW actions, NEW a, ActionContract(actions, a), actions \in [ActionIds -> Actions],
         a \in ActionIds
  PROVE  Placeholders(actions, a) \subseteq Effective(actions, a).required
<1>1. CASE actions[a].declared # None
  <2>1. Effective(actions, a) = actions[a].declared
    BY <1>1 DEF Effective
  <2>2. actions[a].declared \in Schemas
    BY <1>1 DEF Actions
  <2>3. IsExplicit(Effective(actions, a))
    BY <2>1, <2>2 DEF Schemas, IsExplicit
  <2> QED
    BY <2>3 DEF ActionContract
<1>2. CASE actions[a].declared = None
  BY <1>2 DEF Effective, Inferred
<1> QED
  BY <1>1, <1>2

\* validate_input_contract lets nothing through that lacks a required parameter, and calls a
\* parameter missing only of an action whose schema is inferred.
LEMMA PassedIsGiven ==
  ASSUME NEW s, NEW params, Fails(s, params) = None
  PROVE  s.required \subseteq Given(params)
  BY NoneIsNoResult DEF Fails, Results

LEMMA MissingIsInferred ==
  ASSUME NEW s, NEW params, Fails(s, params) = "missing"
  PROVE  ~IsExplicit(s) /\ ~(s.required \subseteq Given(params))
  BY NoneIsNoResult DEF Fails, Results

LEMMA FailsTyped ==
  ASSUME NEW s, NEW params
  PROVE  Fails(s, params) \in {None, "missing", "contract"}
  BY DEF Fails

LEMMA FilteredTyped ==
  ASSUME NEW s, NEW params \in [Params -> Values]
  PROVE  Filtered(s, params) \in [Params -> Values]
  BY DEF Filtered, Values

LEMMA FilteredIfInferred ==
  ASSUME NEW s, NEW params \in [Params -> Values], ~IsExplicit(s)
  PROVE  Given(Filtered(s, params)) = Given(params)
<1>1. Filtered(s, params) = params
  BY DEF Filtered
<1> QED
  BY <1>1

\* A call whose contract is met misses nothing that a call it makes requires.
LEMMA ChildHasAll ==
  ASSUME NEW actions \in [ActionIds -> Actions], NEW a \in ActionIds, ActionContract(actions, a),
         NEW b \in Children(actions, a), NEW params \in [Params -> Values],
         Effective(actions, a).required \subseteq Given(params)
  PROVE  Fails(Effective(actions, b), Filtered(Effective(actions, b), params)) # "missing"
<1> DEFINE s == Effective(actions, b)
<1>1. SUFFICES ASSUME Fails(s, Filtered(s, params)) = "missing" PROVE FALSE
  OBVIOUS
<1> HIDE DEF s
<1>2. ~IsExplicit(s) /\ ~(s.required \subseteq Given(Filtered(s, params)))
  BY <1>1, MissingIsInferred
<1>3. Given(Filtered(s, params)) = Given(params)
  BY <1>2, FilteredIfInferred
<1>4. s.required \subseteq Placeholders(actions, b)
  <2>1. b \in ActionIds
    BY DEF Children
  <2>2. CASE actions[b].declared # None
    <3>1. s = actions[b].declared /\ actions[b].declared \in Schemas
      BY <2>1, <2>2 DEF s, Effective, Actions
    <3> QED
      BY <1>2, <3>1 DEF IsExplicit, Schemas
  <2>3. CASE actions[b].declared = None
    BY <2>3 DEF s, Effective, Inferred
  <2> QED
    BY <2>2, <2>3
<1>5. Placeholders(actions, b) \subseteq Placeholders(actions, a)
  BY PlaceholdersGrow
<1>6. Placeholders(actions, a) \subseteq Effective(actions, a).required
  BY PlaceholdersRequired
<1> QED
  BY <1>2, <1>3, <1>4, <1>5, <1>6

\* A workflow requires what one of its actions requires.
LEMMA WorkflowRequires ==
  ASSUME NEW workflow \in Schemas \cup {None}, workflow = reg.workflow,
         WorkflowContract(reg.actions, workflow),
         NEW params, EffectiveWorkflow.required \subseteq Given(params)
  PROVE  Union(reg.actions) \subseteq Given(params)
<1>1. CASE workflow # None
  <2>1. EffectiveWorkflow = workflow
    BY <1>1 DEF EffectiveWorkflow
  <2> QED
    BY <1>1, <2>1 DEF WorkflowContract
<1>2. CASE workflow = None
  BY <1>2 DEF EffectiveWorkflow, Inferred
<1> QED
  BY <1>1, <1>2

---------------------------------------------------------------------------
(* The calls *)

LEMMA TopIsCall ==
  ASSUME TypeOK, frames # <<>>
  PROVE  /\ Len(frames) \in DOMAIN frames /\ Top = frames[Len(frames)] /\ Top \in Frames
         /\ Steps = StepsOf(reg.actions, Top.action) /\ Steps \in Seq(StepRecords)
         /\ Top.i \in 1..(Len(Steps) + 1)
<1>1. frames \in Seq(Frames) /\ Len(frames) \in DOMAIN frames
  BY DEF TypeOK
<1>2. Top = frames[Len(frames)] /\ Top \in Frames
  BY <1>1 DEF Top, Last
<1>3. Top.action \in ActionIds /\ reg.actions \in [ActionIds -> Actions]
  BY <1>2 DEF Frames, TypeOK
<1>4. Steps \in Seq(StepRecords)
  BY <1>3, StepsTyped DEF Steps
<1>5. Top.i \in 1..(Len(Steps) + 1)
  BY <1>1, <1>2 DEF TypeOK, Steps, StepsOf
<1> QED
  BY <1>1, <1>2, <1>4, <1>5 DEF Steps

\* The innermost call is one step further, the others are where they were.
LEMMA AdvancedCalls ==
  ASSUME TypeOK, frames # <<>>, Top.i <= Len(Steps)
  PROVE  /\ Advanced \in Seq(Frames) /\ DOMAIN Advanced = DOMAIN frames /\ Advanced # <<>>
         /\ Len(Advanced) = Len(frames) /\ Advanced[Len(frames)].i = Top.i + 1
         /\ \A k \in DOMAIN frames : k # Len(frames) => Advanced[k] = frames[k]
         /\ \A k \in DOMAIN frames : /\ Advanced[k].action = frames[k].action
                                     /\ Advanced[k].params = frames[k].params
                                     /\ Advanced[k].i \in 1..(Len(StepsOf(reg.actions, frames[k].action)) + 1)
<1> DEFINE n == Len(frames)
<1> DEFINE f == [frames[n] EXCEPT !.i = @ + 1]
<1>1. frames \in Seq(Frames) /\ n \in DOMAIN frames /\ DOMAIN frames = 1..n /\ n \in Nat
  BY TopIsCall DEF TypeOK
<1>2. frames[n] \in Frames /\ frames[n] = Top
  BY TopIsCall
<1>3. /\ f \in Frames /\ f.action = frames[n].action /\ f.params = frames[n].params
      /\ f.i = frames[n].i + 1
  BY <1>2 DEF Frames
<1> HIDE DEF f
<1>4. Advanced = [frames EXCEPT ![n] = f]
  BY DEF Advanced, f
<1>5. /\ Advanced \in Seq(Frames) /\ DOMAIN Advanced = DOMAIN frames /\ Advanced[n] = f
      /\ \A k \in DOMAIN frames : k # n => Advanced[k] = frames[k]
      /\ Len(Advanced) = n
  BY <1>1, <1>3, <1>4
<1>6. f.i \in 1..(Len(StepsOf(reg.actions, frames[n].action)) + 1)
  <2>1. Steps = StepsOf(reg.actions, frames[n].action) /\ Len(Steps) \in Nat
        /\ Top.i \in 1..(Len(Steps) + 1)
    BY <1>2, TopIsCall
  <2> QED
    BY <1>2, <1>3, <2>1
<1>7. ASSUME NEW k \in DOMAIN frames
      PROVE  /\ Advanced[k].action = frames[k].action /\ Advanced[k].params = frames[k].params
             /\ Advanced[k].i \in 1..(Len(StepsOf(reg.actions, frames[k].action)) + 1)
  <2>1. CASE k = n
    BY <1>3, <1>5, <1>6, <2>1
  <2>2. CASE k # n
    BY <1>5, <2>2 DEF TypeOK, StepsOf
  <2> QED
    BY <2>1, <2>2
<1> QED
  BY <1>1, <1>2, <1>3, <1>5, <1>7

LEMMA NotedOutcome ==
  ASSUME TypeOK, frames # <<>>,
         NEW status \in {"skipped", "expanded", "planned", "ok", "failed"}
  PROVE  /\ Noted(status) \in Seq(Outcomes) /\ Len(Noted(status)) = Len(outcomes) + 1
         /\ DOMAIN Noted(status) = 1..(Len(outcomes) + 1)
         /\ \A i \in DOMAIN outcomes : Noted(status)[i] = outcomes[i]
         /\ Noted(status)[Len(outcomes) + 1].status = status
<1> DEFINE o == [action |-> Top.action, i |-> Top.i, status |-> status]
<1>1. o \in Outcomes /\ o.status = status
  BY TopIsCall DEF Frames, Outcomes
<1> HIDE DEF o
<1>2. Noted(status) = Append(outcomes, o) /\ outcomes \in Seq(Outcomes)
  BY DEF Noted, o, TypeOK
<1> QED
  BY <1>1, <1>2

Runs == [action : ActionIds, uses : SUBSET Params, given : SUBSET Params]

\* The command that is spawned has all its parameters: the call's contract requires them.
LEMMA SpawnedCommand ==
  ASSUME IInv, AtStep("command")
  PROVE  /\ Spawned \in Seq(Runs) /\ Len(Spawned) = Len(ran) + 1
         /\ DOMAIN Spawned = 1..(Len(ran) + 1)
         /\ \A i \in DOMAIN ran : Spawned[i] = ran[i]
         /\ Spawned[Len(ran) + 1].action = Top.action
         /\ Spawned[Len(ran) + 1].uses \subseteq Spawned[Len(ran) + 1].given
<1> DEFINE x == [action |-> Top.action, uses |-> Step.uses, given |-> Given(Top.params)]
<1>1. frames # <<>> /\ Top.i \in DOMAIN Steps /\ Step = Steps[Top.i] /\ Step.kind = "command"
      /\ Top \in Frames /\ Steps = StepsOf(reg.actions, Top.action) /\ Steps \in Seq(StepRecords)
      /\ Top = frames[Len(frames)] /\ Len(frames) \in DOMAIN frames
  BY TopIsCall DEF AtStep, IInv, Step
<1>2. Step \in [kind : {"command"}, uses : SUBSET Params]
  BY <1>1 DEF StepRecords
<1>3. Given(Top.params) \subseteq Params /\ Top.action \in ActionIds
  BY <1>1 DEF Given, Frames
<1>4. x \in Runs /\ x.action = Top.action /\ x.uses = Step.uses /\ x.given = Given(Top.params)
  BY <1>2, <1>3 DEF Runs
<1> HIDE DEF x
<1>5. Step.uses \subseteq Given(Top.params)
  <2>1. Step.uses \subseteq Uses(reg.actions, Top.action)
    <3>1. Step \in Range(StepsOf(reg.actions, Top.action))
      BY <1>1 DEF Range
    <3> QED
      BY <1>1, <3>1 DEF Uses
  <2>2. Uses(reg.actions, Top.action) \subseteq Placeholders(reg.actions, Top.action)
    BY DEF Placeholders
  <2>3. Placeholders(reg.actions, Top.action) \subseteq Required(Top.action)
    BY <1>3, PlaceholdersRequired DEF IInv, Loaded, Finalized, TypeOK, Required
  <2>4. Required(Top.action) \subseteq Given(Top.params)
    BY <1>1 DEF IInv, Satisfied
  <2> QED
    BY <2>1, <2>2, <2>3, <2>4
<1>6. Spawned = Append(ran, x) /\ ran \in Seq(Runs)
  BY DEF Spawned, x, IInv, TypeOK, Runs
<1> QED
  BY <1>4, <1>5, <1>6
---------------------------------------------------------------------------
(* The steps *)

\* What each step has to show of the calls it leaves.
LEMMA CallsKept ==
  ASSUME TypeOK, Satisfied, reg' = reg, frames' \in Seq(Frames),
         \A k \in DOMAIN frames' :
             /\ frames'[k].i \in 1..(Len(StepsOf(reg.actions, frames'[k].action)) + 1)
             /\ Required(frames'[k].action) \subseteq Given(frames'[k].params)
  PROVE  Satisfied' /\ (\A k \in DOMAIN frames :
                            frames[k].i \in 1..(Len(reg.actions[frames[k].action].steps) + 1))'
<1>1. \A a : Required(a)' = Required(a)
  BY DEF Required
<1>2. \A k \in DOMAIN frames' : Given(frames[k].params)' = Given(frames'[k].params)
  BY DEF Given
<1>3. Satisfied'
  BY <1>1, <1>2 DEF Satisfied
<1> QED
  BY <1>3 DEF StepsOf

LEMMA InitIInv == Init => IInv
<1> SUFFICES ASSUME Init PROVE IInv
  OBVIOUS
<1>1. /\ queue = <<>> /\ frames = <<>> /\ outcomes = <<>> /\ ran = <<>> /\ audits = 0
      /\ result = None
  BY DEF Init
<1>2. PICK actions \in [ActionIds -> Actions], workflow \in Schemas \cup {None} :
          Finalized(actions, workflow) /\ reg = [actions |-> actions, workflow |-> workflow]
  BY DEF Init
<1>3. reg.actions = actions /\ reg.workflow = workflow
  BY <1>2
<1>4. /\ run \in [target : {"action", "workflow"}, params : [Params -> Values],
                  apply : BOOLEAN, audit : BOOLEAN]
  BY DEF Init
<1>5. TypeOK
  BY <1>1, <1>2, <1>3, <1>4 DEF TypeOK
<1>6. Loaded /\ Satisfied
  BY <1>1, <1>2, <1>3 DEF Loaded, Satisfied
<1>7. Placed
  BY <1>1 DEF Placed
<1>8. UnappliedRunsReadOnly /\ NoPlaceholderLeft /\ NothingAfterFailure /\ CommandsAudited
  BY <1>1, NoneIsNoResult DEF UnappliedRunsReadOnly, NoPlaceholderLeft, NothingAfterFailure,
     CommandsAudited, Results
<1> QED
  BY <1>5, <1>6, <1>7, <1>8 DEF IInv

LEMMA BeginIInv ==
  ASSUME IInv, Begin
  PROVE  IInv'
<1> DEFINE fails == IF run.target = "workflow" THEN Fails(EffectiveWorkflow, run.params) ELSE None
<1>1. /\ Running /\ queue = <<>> /\ frames = <<>> /\ outcomes = <<>> /\ ran = <<>>
      /\ reg' = reg /\ run' = run /\ outcomes' = outcomes /\ ran' = ran /\ audits' = audits
      /\ frames' = frames
      /\ \/ fails # None /\ result' = fails /\ queue' = queue
         \/ /\ fails = None /\ result' = result
            /\ queue' = IF run.target = "workflow" THEN Workflow ELSE <<Workflow[1]>>
  BY DEF Begin, IInv, Placed
<1>2. fails \in {None, "missing", "contract"}
  BY FailsTyped
<1>3. fails = None /\ run.target = "workflow" => Union(reg.actions) \subseteq Given(run.params)
  <2>1. SUFFICES ASSUME fails = None, run.target = "workflow"
                 PROVE  Union(reg.actions) \subseteq Given(run.params)
    OBVIOUS
  <2>2. EffectiveWorkflow.required \subseteq Given(run.params)
    BY <2>1, PassedIsGiven
  <2>3. reg.workflow \in Schemas \cup {None} /\ WorkflowContract(reg.actions, reg.workflow)
    BY DEF IInv, TypeOK, Loaded, Finalized
  <2> QED
    BY <2>2, <2>3, WorkflowRequires
<1> HIDE DEF fails
<1>4. Workflow \in Seq(ActionIds) /\ Workflow[1] \in ActionIds /\ Workflow[1] \in InWorkflow
      /\ 1 \in DOMAIN Workflow
  BY ConstantsOK DEF InWorkflow
<1>5. <<Workflow[1]>> \in Seq(ActionIds) /\ Len(<<Workflow[1]>>) = 1
      /\ DOMAIN <<Workflow[1]>> = {1} /\ <<Workflow[1]>>[1] = Workflow[1]
  BY <1>4
<1>6. TypeOK'
  BY <1>1, <1>2, <1>4, <1>5 DEF IInv, TypeOK, Results
<1>7. Loaded'
  <2>1. \A i \in DOMAIN queue' : queue'[i] \in InWorkflow
    BY <1>1, <1>4, <1>5 DEF InWorkflow
  <2> QED
    BY <1>1, <2>1 DEF IInv, Loaded
<1>8. Satisfied'
  BY <1>1 DEF Satisfied
<1>9. Placed'
  <2>1. /\ (frames # <<>> => queue # <<>>)'
        /\ (Running /\ queue = <<>> => outcomes = <<>> /\ ran = <<>>)'
    BY <1>1
  <2>2. queue' # <<>> => fails = None /\ queue' = IF run.target = "workflow" THEN Workflow ELSE <<Workflow[1]>>
    BY <1>1
  <2>3. (queue # <<>> /\ run.target = "workflow" => Union(reg.actions) \subseteq Given(run.params))'
    BY <1>1, <1>3, <2>2
  <2>4. (queue # <<>> /\ run.target = "action" =>
             Len(queue) = 1 /\ (Running /\ frames = <<>> => outcomes = <<>> /\ ran = <<>>))'
    BY <1>1, <1>5, <2>2
  <2> QED
    BY <2>1, <2>3, <2>4 DEF Placed
<1>10. UnappliedRunsReadOnly' /\ NoPlaceholderLeft' /\ NothingAfterFailure' /\ CommandsAudited'
  <2>1. NoPlaceholderLeft' /\ NothingAfterFailure' /\ UnappliedRunsReadOnly'
    BY <1>1 DEF NoPlaceholderLeft, NothingAfterFailure, UnappliedRunsReadOnly
  <2>2. CommandsAudited'
    BY <1>1, <1>2, NoneIsNoResult DEF IInv, CommandsAudited, Running, Results
  <2> QED
    BY <2>1, <2>2
<1> QED
  BY <1>6, <1>7, <1>8, <1>9, <1>10 DEF IInv

\* A parameter can be missing only of the action the user runs: nothing has run then. An
\* action of a workflow has all the workflow's contract required.
LEMMA StartActionIInv ==
  ASSUME IInv, StartAction
  PROVE  IInv'
<1> DEFINE a == Head(queue)
           s == Effective(reg.actions, a)
           params == IF run.target = "workflow" THEN Filtered(s, run.params) ELSE run.params
           call == [action |-> a, i |-> 1, params |-> params]
<1>1. /\ Running /\ queue # <<>> /\ frames = <<>>
      /\ reg' = reg /\ run' = run /\ queue' = queue /\ outcomes' = outcomes /\ ran' = ran
      /\ audits' = audits
      /\ \/ Fails(s, params) # None /\ result' = Fails(s, params) /\ frames' = frames
         \/ Fails(s, params) = None /\ frames' = <<call>> /\ result' = result
  BY DEF StartAction
<1>2. a \in ActionIds /\ a \in InWorkflow
  <2>1. queue \in Seq(ActionIds) /\ 1 \in DOMAIN queue /\ a = queue[1]
    BY <1>1 DEF IInv, TypeOK
  <2> QED
    BY <2>1 DEF IInv, Loaded
<1>3. params \in [Params -> Values]
  BY FilteredTyped DEF IInv, TypeOK
<1>4. Fails(s, params) \in {None, "missing", "contract"}
  BY FailsTyped
<1>5. Fails(s, params) = None => s.required \subseteq Given(params)
  BY PassedIsGiven
<1>6. Fails(s, params) = "missing" => outcomes = <<>> /\ ran = <<>>
  <2>1. SUFFICES ASSUME Fails(s, params) = "missing" PROVE outcomes = <<>> /\ ran = <<>>
    OBVIOUS
  <2>2. ~IsExplicit(s) /\ ~(s.required \subseteq Given(params))
    BY <2>1, MissingIsInferred
  <2>3. CASE run.target = "workflow"
    <3>1. Given(params) = Given(run.params)
      BY <2>2, <2>3, FilteredIfInferred DEF IInv, TypeOK
    <3>2. s.required \subseteq Union(reg.actions)
      BY <1>2 DEF Union
    <3>3. Union(reg.actions) \subseteq Given(run.params)
      BY <1>1, <2>3 DEF IInv, Placed
    <3> QED
      BY <2>2, <3>1, <3>2, <3>3
  <2>4. CASE run.target = "action"
    BY <1>1, <2>4 DEF IInv, Placed
  <2> QED
    BY <2>3, <2>4 DEF IInv, TypeOK
<1>7. call \in Frames /\ call.action = a /\ call.i = 1 /\ call.params = params
  BY <1>2, <1>3 DEF Frames
<1>8. Len(StepsOf(reg.actions, a)) \in Nat /\ s.required = Required(a)
  BY <1>2, StepsTyped DEF IInv, TypeOK, Required
<1> HIDE DEF a, s, params, call
<1>9. /\ frames' \in Seq(Frames)
      /\ \A k \in DOMAIN frames' :
             /\ frames'[k].i \in 1..(Len(StepsOf(reg.actions, frames'[k].action)) + 1)
             /\ Required(frames'[k].action) \subseteq Given(frames'[k].params)
  <2>1. CASE frames' = frames
    BY <1>1, <2>1
  <2>2. CASE Fails(s, params) = None /\ frames' = <<call>>
    <3>1. <<call>> \in Seq(Frames) /\ DOMAIN <<call>> = {1} /\ <<call>>[1] = call
      BY <1>7
    <3>2. 1 \in 1..(Len(StepsOf(reg.actions, a)) + 1)
      BY <1>8
    <3>3. call.i \in 1..(Len(StepsOf(reg.actions, call.action)) + 1)
      BY <1>7, <3>2
    <3>4. Required(call.action) \subseteq Given(call.params)
      BY <1>5, <1>7, <1>8, <2>2
    <3> QED
      BY <2>2, <3>1, <3>3, <3>4
  <2> QED
    BY <1>1, <2>1, <2>2
<1>10. TypeOK' /\ Satisfied'
  BY <1>1, <1>4, <1>9, CallsKept DEF IInv, TypeOK, Results
<1>11. Loaded'
  BY <1>1 DEF IInv, Loaded
<1>12. Placed'
  BY <1>1 DEF IInv, Placed, Running
<1>13. NoPlaceholderLeft'
  BY <1>1, <1>6, NoneIsNoResult DEF IInv, NoPlaceholderLeft, Running, Results
<1>14. NothingAfterFailure'
  BY <1>1, NoneIsNoResult DEF IInv, NothingAfterFailure, Running, Results
<1>15. UnappliedRunsReadOnly' /\ CommandsAudited'
  BY <1>1, <1>4, NoneIsNoResult DEF IInv, UnappliedRunsReadOnly, CommandsAudited, Running, Results
<1> QED
  BY <1>10, <1>11, <1>12, <1>13, <1>14, <1>15 DEF IInv

\* A step that runs nothing: it is noted, and the call goes on.
LEMMA PassedOver ==
  ASSUME IInv, NEW status \in {"skipped", "planned"}, Running, frames # <<>>, Top.i <= Len(Steps),
         outcomes' = Noted(status), frames' = Advanced,
         UNCHANGED <<reg, run, queue, ran, audits, result>>
  PROVE  IInv'
<1>1. /\ Advanced \in Seq(Frames) /\ DOMAIN Advanced = DOMAIN frames /\ Advanced # <<>>
      /\ \A k \in DOMAIN frames : /\ Advanced[k].action = frames[k].action
                                  /\ Advanced[k].params = frames[k].params
                                  /\ Advanced[k].i \in 1..(Len(StepsOf(reg.actions, frames[k].action)) + 1)
  BY AdvancedCalls DEF IInv
<1>2. \A k \in DOMAIN frames' :
          /\ frames'[k].i \in 1..(Len(StepsOf(reg.actions, frames'[k].action)) + 1)
          /\ Required(frames'[k].action) \subseteq Given(frames'[k].params)
  BY <1>1 DEF IInv, Satisfied
<1>3. /\ Noted(status) \in Seq(Outcomes) /\ DOMAIN Noted(status) = 1..(Len(outcomes) + 1)
      /\ \A i \in DOMAIN outcomes : Noted(status)[i] = outcomes[i]
      /\ Noted(status)[Len(outcomes) + 1].status = status
      /\ DOMAIN outcomes = 1..Len(outcomes) /\ Len(outcomes) \in Nat
  BY NotedOutcome DEF IInv, TypeOK
<1>4. TypeOK' /\ Satisfied'
  BY <1>1, <1>2, <1>3, CallsKept DEF IInv, TypeOK
<1>5. Loaded' /\ UnappliedRunsReadOnly' /\ CommandsAudited'
  BY DEF IInv, Loaded, UnappliedRunsReadOnly, CommandsAudited
<1>6. Placed'
  BY <1>1 DEF IInv, Placed
<1>7. NoPlaceholderLeft'
  BY NoneIsNoResult DEF IInv, NoPlaceholderLeft, Running, Results
<1>8. NothingAfterFailure'
  <2>1. \A i \in DOMAIN outcomes : outcomes[i].status # "failed"
    BY NoneIsNoResult DEF IInv, NothingAfterFailure, Running, Results
  <2>2. \A i \in DOMAIN Noted(status) : Noted(status)[i].status # "failed"
    BY <1>3, <2>1
  <2> QED
    BY <2>2 DEF NothingAfterFailure
<1> QED
  BY <1>4, <1>5, <1>6, <1>7, <1>8 DEF IInv

LEMMA NoteIInv ==
  ASSUME IInv, Note
  PROVE  IInv'
  BY PassedOver DEF Note, AtStep

LEMMA PlanIInv ==
  ASSUME IInv, Plan
  PROVE  IInv'
  BY PassedOver DEF Plan, AtStep

\* A composed action is called with what its contract requires, or the run ends; missing it
\* cannot be.
LEMMA ExpandIInv ==
  ASSUME IInv, Expand
  PROVE  IInv'
<1> DEFINE s == Effective(reg.actions, Step.id)
           params == Filtered(s, Top.params)
           call == [action |-> Step.id, i |-> 1, params |-> params]
           status == IF run.apply THEN "expanded" ELSE "planned"
<1>1. /\ Running /\ frames # <<>> /\ Top.i <= Len(Steps) /\ Step.kind = "action"
      /\ reg' = reg /\ run' = run /\ queue' = queue /\ ran' = ran /\ audits' = audits
      /\ \/ Step.id = MissingId /\ result' = "not_found" /\ frames' = frames /\ outcomes' = outcomes
         \/ /\ Step.id # MissingId /\ Fails(s, params) # None /\ result' = Fails(s, params)
            /\ frames' = frames /\ outcomes' = outcomes
         \/ /\ Step.id # MissingId /\ Fails(s, params) = None /\ outcomes' = Noted(status)
            /\ frames' = Append(Advanced, call) /\ result' = result
  BY DEF Expand, AtStep
<1>2. /\ Top \in Frames /\ Len(frames) \in DOMAIN frames /\ Top = frames[Len(frames)]
      /\ Top.i \in DOMAIN Steps /\ Step = Steps[Top.i] /\ Steps = StepsOf(reg.actions, Top.action)
  BY <1>1, TopIsCall DEF IInv, Step
<1>3. Top.action \in ActionIds /\ Top.params \in [Params -> Values]
  BY <1>2 DEF Frames
<1>4. reg.actions \in [ActionIds -> Actions] /\ ActionContract(reg.actions, Top.action)
  BY <1>3 DEF IInv, TypeOK, Loaded, Finalized
<1>5. Step.id # MissingId => Step.id \in Children(reg.actions, Top.action) /\ Step.id \in ActionIds
  BY <1>1, <1>2, <1>3, <1>4, ChildOfStep DEF Children
<1>6. Effective(reg.actions, Top.action).required \subseteq Given(Top.params)
  BY <1>2 DEF IInv, Satisfied, Required
<1>7. Step.id # MissingId => Fails(s, params) # "missing"
  BY <1>3, <1>4, <1>5, <1>6, ChildHasAll
<1>8. params \in [Params -> Values] /\ Fails(s, params) \in {None, "missing", "contract"}
  BY <1>3, FilteredTyped, FailsTyped
<1>9. Fails(s, params) = None => s.required \subseteq Given(params)
  BY PassedIsGiven
<1>10. status \in {"expanded", "planned"} /\ s.required = Required(Step.id)
  BY DEF Required
<1>11. Step.id # MissingId => /\ call \in Frames /\ call.action = Step.id /\ call.i = 1
                              /\ call.params = params
                              /\ Len(StepsOf(reg.actions, Step.id)) \in Nat
  BY <1>4, <1>5, <1>8, StepsTyped DEF Frames
<1> HIDE DEF s, params, call, status
<1>12. /\ Noted(status) \in Seq(Outcomes) /\ DOMAIN Noted(status) = 1..(Len(outcomes) + 1)
       /\ \A i \in DOMAIN outcomes : Noted(status)[i] = outcomes[i]
       /\ Noted(status)[Len(outcomes) + 1].status = status
       /\ DOMAIN outcomes = 1..Len(outcomes) /\ Len(outcomes) \in Nat
  <2>1. status \in {"skipped", "expanded", "planned", "ok", "failed"}
    BY <1>10
  <2>2. TypeOK /\ frames # <<>>
    BY <1>1 DEF IInv
  <2>3. DOMAIN outcomes = 1..Len(outcomes) /\ Len(outcomes) \in Nat
    BY <2>2 DEF TypeOK
  <2> QED
    BY <2>1, <2>2, <2>3, NotedOutcome
<1>13. /\ frames' \in Seq(Frames) /\ frames' # <<>>
       /\ \A k \in DOMAIN frames' :
              /\ frames'[k].i \in 1..(Len(StepsOf(reg.actions, frames'[k].action)) + 1)
              /\ Required(frames'[k].action) \subseteq Given(frames'[k].params)
  <2>1. CASE frames' = frames
    BY <1>1, <2>1 DEF IInv, TypeOK, Satisfied, StepsOf
  <2>2. CASE Step.id # MissingId /\ Fails(s, params) = None /\ frames' = Append(Advanced, call)
    <3>1. /\ Advanced \in Seq(Frames) /\ DOMAIN Advanced = DOMAIN frames
          /\ \A k \in DOMAIN frames :
               /\ Advanced[k].action = frames[k].action
               /\ Advanced[k].params = frames[k].params
               /\ Advanced[k].i \in 1..(Len(StepsOf(reg.actions, frames[k].action)) + 1)
      BY <1>1, AdvancedCalls DEF IInv
    <3>2. /\ Append(Advanced, call) \in Seq(Frames) /\ Append(Advanced, call) # <<>>
          /\ \A k \in DOMAIN Append(Advanced, call) :
                 \/ k \in DOMAIN Advanced /\ Append(Advanced, call)[k] = Advanced[k]
                 \/ Append(Advanced, call)[k] = call
      BY <1>11, <2>2, <3>1
    <3>3. \A k \in DOMAIN Advanced :
              /\ Advanced[k].i \in 1..(Len(StepsOf(reg.actions, Advanced[k].action)) + 1)
              /\ Required(Advanced[k].action) \subseteq Given(Advanced[k].params)
      BY <3>1 DEF IInv, Satisfied
    <3>4. call.i \in 1..(Len(StepsOf(reg.actions, call.action)) + 1)
      BY <1>11, <2>2
    <3>5. Required(call.action) \subseteq Given(call.params)
      BY <1>9, <1>10, <1>11, <2>2
    <3> QED
      BY <2>2, <3>2, <3>3, <3>4, <3>5
  <2> QED
    BY <1>1, <2>1, <2>2
<1>14. TypeOK' /\ Satisfied'
  BY <1>1, <1>8, <1>12, <1>13, CallsKept DEF IInv, TypeOK, Results
<1>15. Loaded' /\ UnappliedRunsReadOnly'
  BY <1>1 DEF IInv, Loaded, UnappliedRunsReadOnly
<1>16. Placed'
  BY <1>1, <1>13 DEF IInv, Placed
<1>17. NoPlaceholderLeft' /\ CommandsAudited'
  BY <1>1, <1>7, <1>8, NoneIsNoResult DEF IInv, NoPlaceholderLeft, CommandsAudited, Running, Results
<1>18. NothingAfterFailure'
  <2>1. \A i \in DOMAIN outcomes : outcomes[i].status # "failed"
    BY <1>1, NoneIsNoResult DEF IInv, NothingAfterFailure, Running, Results
  <2>2. \A i \in DOMAIN Noted(status) : Noted(status)[i].status # "failed"
    BY <1>10, <1>12, <2>1
  <2> QED
    BY <1>1, <2>1, <2>2 DEF NothingAfterFailure
<1> QED
  BY <1>14, <1>15, <1>16, <1>17, <1>18 DEF IInv

LEMMA NotSpawnedIInv ==
  ASSUME IInv, NotSpawned
  PROVE  IInv'
<1>1. /\ Running /\ frames # <<>> /\ result' = "broken"
      /\ UNCHANGED <<reg, run, queue, frames, outcomes, ran, audits>>
  BY DEF NotSpawned, AtStep
<1>2. TypeOK' /\ Loaded'
  BY <1>1 DEF IInv, TypeOK, Loaded, Results
<1>3. Satisfied'
  BY <1>1 DEF IInv, Satisfied, Required
<1>4. Placed'
  BY <1>1 DEF IInv, Placed
<1>5. UnappliedRunsReadOnly' /\ NoPlaceholderLeft' /\ CommandsAudited'
  BY <1>1, NoneIsNoResult DEF IInv, UnappliedRunsReadOnly, NoPlaceholderLeft, CommandsAudited,
     Running, Results
<1>6. NothingAfterFailure'
  BY <1>1, NoneIsNoResult DEF IInv, NothingAfterFailure, Running, Results
<1> QED
  BY <1>2, <1>3, <1>4, <1>5, <1>6 DEF IInv

\* A command that is spawned belongs to an action that the gate lets run, with all its
\* parameters.
LEMMA SpawnedKept ==
  ASSUME IInv, AtStep("command"), ~Blocked, reg' = reg, run' = run, ran' = Spawned
  PROVE  /\ (ran \in Seq(Runs))' /\ Len(ran') = Len(ran) + 1 /\ Len(ran) \in Nat
         /\ UnappliedRunsReadOnly'
         /\ \A i \in DOMAIN ran' : ran'[i].uses \subseteq ran'[i].given
<1>1. /\ Spawned \in Seq(Runs) /\ Len(Spawned) = Len(ran) + 1
      /\ DOMAIN Spawned = 1..(Len(ran) + 1)
      /\ \A i \in DOMAIN ran : Spawned[i] = ran[i]
      /\ Spawned[Len(ran) + 1].action = Top.action
      /\ Spawned[Len(ran) + 1].uses \subseteq Spawned[Len(ran) + 1].given
  BY SpawnedCommand
<1>2. DOMAIN ran = 1..Len(ran) /\ Len(ran) \in Nat
  BY DEF IInv, TypeOK
<1>3. ASSUME NEW i \in DOMAIN Spawned
      PROVE  /\ Spawned[i].uses \subseteq Spawned[i].given
             /\ ~run.apply => ~reg.actions[Spawned[i].action].mutating
  <2>1. CASE i = Len(ran) + 1
    BY <1>1, <2>1 DEF Blocked
  <2>2. CASE i \in DOMAIN ran
    BY <1>1, <2>2 DEF IInv, NoPlaceholderLeft, UnappliedRunsReadOnly
  <2> QED
    BY <1>1, <1>2, <2>1, <2>2
<1> QED
  BY <1>1, <1>2, <1>3 DEF UnappliedRunsReadOnly, Runs

LEMMA ExecuteIInv ==
  ASSUME IInv, Execute
  PROVE  IInv'
<1>1. /\ AtStep("command") /\ ~Blocked /\ ran' = Spawned /\ frames' = Advanced
      /\ Running /\ frames # <<>> /\ Top.i <= Len(Steps)
      /\ reg' = reg /\ run' = run /\ queue' = queue
  BY DEF Execute, AtStep
<1>2. PICK status \in {"ok", "failed"} :
          outcomes' = Noted(status) /\ audits' = Audited(status) /\ Outcome(status)
  BY DEF Execute
<1>3. result' = IF status = "failed" THEN "failed" ELSE result
  BY <1>2 DEF Outcome
<1>4. /\ Advanced \in Seq(Frames) /\ DOMAIN Advanced = DOMAIN frames /\ Advanced # <<>>
      /\ \A k \in DOMAIN frames : /\ Advanced[k].action = frames[k].action
                                  /\ Advanced[k].params = frames[k].params
                                  /\ Advanced[k].i \in 1..(Len(StepsOf(reg.actions, frames[k].action)) + 1)
  BY <1>1, AdvancedCalls DEF IInv
<1>5. \A k \in DOMAIN frames' :
          /\ frames'[k].i \in 1..(Len(StepsOf(reg.actions, frames'[k].action)) + 1)
          /\ Required(frames'[k].action) \subseteq Given(frames'[k].params)
  BY <1>1, <1>4 DEF IInv, Satisfied
<1>6. /\ Noted(status) \in Seq(Outcomes) /\ DOMAIN Noted(status) = 1..(Len(outcomes) + 1)
      /\ Len(Noted(status)) = Len(outcomes) + 1
      /\ \A i \in DOMAIN outcomes : Noted(status)[i] = outcomes[i]
      /\ Noted(status)[Len(outcomes) + 1].status = status
      /\ DOMAIN outcomes = 1..Len(outcomes) /\ Len(outcomes) \in Nat
  BY <1>1, NotedOutcome DEF IInv, TypeOK
<1>7. /\ ran' \in Seq(Runs) /\ Len(ran') = Len(ran) + 1 /\ Len(ran) \in Nat
      /\ UnappliedRunsReadOnly'
      /\ \A i \in DOMAIN ran' : ran'[i].uses \subseteq ran'[i].given
  BY <1>1, SpawnedKept
<1>8. audits' \in Nat
  BY <1>2 DEF Audited, IInv, TypeOK
<1>9. TypeOK' /\ Satisfied'
  BY <1>1, <1>2, <1>3, <1>4, <1>5, <1>6, <1>7, <1>8, CallsKept DEF IInv, TypeOK, Results, Runs
<1>10. Loaded'
  BY <1>1 DEF IInv, Loaded
<1>11. Placed'
  BY <1>1, <1>4 DEF IInv, Placed
<1>12. NoPlaceholderLeft'
  BY <1>1, <1>3, <1>7, NoneIsNoResult DEF NoPlaceholderLeft, Running, Results
<1>13. NothingAfterFailure'
  <2>1. \A i \in DOMAIN outcomes : outcomes[i].status # "failed"
    BY <1>1, NoneIsNoResult DEF IInv, NothingAfterFailure, Running, Results
  <2> QED
    BY <1>2, <1>3, <1>6, <2>1 DEF NothingAfterFailure
<1>14. CommandsAudited'
  <2>1. run.audit => audits = Len(ran)
    BY <1>1, NoneIsNoResult DEF IInv, CommandsAudited, Running, Results, TypeOK
  <2> QED
    BY <1>1, <1>2, <1>3, <1>7, <2>1, NoneIsNoResult DEF CommandsAudited, Audited, Running, Results
<1> QED
  BY <1>7, <1>9, <1>10, <1>11, <1>12, <1>13, <1>14 DEF IInv

LEMMA AuditFailsIInv ==
  ASSUME IInv, AuditFails
  PROVE  IInv'
<1>1. /\ AtStep("command") /\ ~Blocked /\ ran' = Spawned /\ result' = "audit"
      /\ Running /\ frames # <<>> /\ run.audit
      /\ UNCHANGED <<reg, run, queue, frames, outcomes, audits>>
  BY DEF AuditFails, AtStep
<1>2. /\ ran' \in Seq(Runs) /\ Len(ran') = Len(ran) + 1 /\ Len(ran) \in Nat
      /\ UnappliedRunsReadOnly'
      /\ \A i \in DOMAIN ran' : ran'[i].uses \subseteq ran'[i].given
  BY <1>1, SpawnedKept
<1>3. TypeOK' /\ Loaded'
  BY <1>1, <1>2 DEF IInv, TypeOK, Loaded, Results, Runs
<1>4. Satisfied'
  BY <1>1 DEF IInv, Satisfied, Required
<1>5. Placed' /\ NoPlaceholderLeft'
  BY <1>1, <1>2, NoneIsNoResult DEF IInv, Placed, NoPlaceholderLeft, Running, Results
<1>6. NothingAfterFailure'
  BY <1>1, NoneIsNoResult DEF IInv, NothingAfterFailure, Running, Results
<1>7. CommandsAudited'
  <2>1. audits = Len(ran)
    BY <1>1, NoneIsNoResult DEF IInv, CommandsAudited, Running, Results, TypeOK
  <2> QED
    BY <1>1, <1>2, <2>1 DEF CommandsAudited
<1> QED
  BY <1>2, <1>3, <1>4, <1>5, <1>6, <1>7 DEF IInv

LEMMA ReturnIInv ==
  ASSUME IInv, Return
  PROVE  IInv'
<1>1. /\ Running /\ frames # <<>> /\ Len(frames) > 1 /\ frames' = Front(frames)
      /\ UNCHANGED <<reg, run, queue, outcomes, ran, audits, result>>
  BY DEF Return, AtEnd
<1>2. frames \in Seq(Frames)
  BY DEF IInv, TypeOK
<1>3. /\ frames' \in Seq(Frames) /\ frames' # <<>>
      /\ \A k \in DOMAIN frames' : k \in DOMAIN frames /\ frames'[k] = frames[k]
  <2> DEFINE n == Len(frames) - 1
  <2>0. Len(frames) \in Nat /\ Len(frames) > 1
    BY <1>1, <1>2
  <2>1. n \in Nat /\ n > 0 /\ n <= Len(frames)
    BY <2>0
  <2> HIDE DEF n
  <2>2. /\ SubSeq(frames, 1, n) \in Seq(Frames) /\ Len(SubSeq(frames, 1, n)) = n
        /\ \A k \in 1..n : SubSeq(frames, 1, n)[k] = frames[k]
    BY <1>2, <2>1
  <2>3. frames' = SubSeq(frames, 1, n)
    BY <1>1 DEF Front, n
  <2>4. DOMAIN frames' = 1..n /\ 1..n \subseteq DOMAIN frames
    BY <1>2, <2>1, <2>2, <2>3
  <2> QED
    BY <2>1, <2>2, <2>3, <2>4
<1>4. \A k \in DOMAIN frames' :
          /\ frames'[k].i \in 1..(Len(StepsOf(reg.actions, frames'[k].action)) + 1)
          /\ Required(frames'[k].action) \subseteq Given(frames'[k].params)
  BY <1>3 DEF IInv, TypeOK, Satisfied, StepsOf
<1>5. TypeOK' /\ Satisfied'
  BY <1>1, <1>3, <1>4, CallsKept DEF IInv, TypeOK
<1>6. Loaded' /\ Placed'
  BY <1>1, <1>3 DEF IInv, Loaded, Placed
<1>7. UnappliedRunsReadOnly' /\ NoPlaceholderLeft' /\ NothingAfterFailure' /\ CommandsAudited'
  BY <1>1 DEF IInv, UnappliedRunsReadOnly, NoPlaceholderLeft, NothingAfterFailure, CommandsAudited
<1> QED
  BY <1>5, <1>6, <1>7 DEF IInv

LEMMA FinishActionIInv ==
  ASSUME IInv, FinishAction
  PROVE  IInv'
<1>1. /\ Running /\ frames # <<>> /\ frames' = <<>> /\ queue' = Tail(queue)
      /\ result' \in {IF Len(queue) = 1 THEN "ok" ELSE None, "output"}
      /\ UNCHANGED <<reg, run, outcomes, ran, audits>>
  BY DEF FinishAction, AtEnd
<1>2. queue \in Seq(ActionIds) /\ queue # <<>>
  BY <1>1 DEF IInv, TypeOK, Placed
<1>3. /\ queue' \in Seq(ActionIds) /\ (Len(queue) = 1 <=> queue' = <<>>)
      /\ \A i \in DOMAIN queue' : i + 1 \in DOMAIN queue /\ queue'[i] = queue[i + 1]
  <2>1. /\ Tail(queue) \in Seq(ActionIds) /\ Len(queue) \in Nat \ {0}
        /\ Len(Tail(queue)) = Len(queue) - 1
        /\ \A i \in 1..(Len(queue) - 1) : Tail(queue)[i] = queue[i + 1]
    BY <1>2
  <2>2. \A i \in DOMAIN Tail(queue) : i \in 1..(Len(queue) - 1) /\ i + 1 \in DOMAIN queue
    BY <1>2, <2>1
  <2>3. Len(queue) = 1 <=> Len(Tail(queue)) = 0
    BY <2>1
  <2>4. Len(Tail(queue)) = 0 <=> Tail(queue) = <<>>
    <3>1. \A q \in Seq(ActionIds) : Len(q) = 0 <=> q = <<>>
      OBVIOUS
    <3> QED
      BY <2>1, <3>1
  <2> QED
    BY <1>1, <2>1, <2>2, <2>3, <2>4
<1>4. frames' \in Seq(Frames) /\ DOMAIN frames' = {}
  BY <1>1
<1>5. TypeOK' /\ Satisfied'
  BY <1>1, <1>3, <1>4, CallsKept DEF IInv, TypeOK, Results
<1>6. Loaded'
  BY <1>1, <1>3 DEF IInv, Loaded
<1>7. Placed'
  BY <1>1, <1>3, NoneIsNoResult DEF IInv, Placed, Running, Results
<1>8. UnappliedRunsReadOnly' /\ NoPlaceholderLeft' /\ CommandsAudited'
  BY <1>1, NoneIsNoResult DEF IInv, UnappliedRunsReadOnly, NoPlaceholderLeft, CommandsAudited,
     Running, Results
<1>9. NothingAfterFailure'
  BY <1>1, NoneIsNoResult DEF IInv, NothingAfterFailure, Running, Results
<1> QED
  BY <1>5, <1>6, <1>7, <1>8, <1>9 DEF IInv

LEMMA NextIInv ==
  ASSUME IInv, [Next]_vars
  PROVE  IInv'
<1>1. CASE Done \/ UNCHANGED vars
  <2>1. UNCHANGED <<reg, run, queue, frames, outcomes, ran, audits, result>>
    BY <1>1 DEF Done, vars
  <2>2. TypeOK' /\ Loaded'
    BY <2>1 DEF IInv, TypeOK, Loaded
  <2>3. Satisfied'
    BY <2>1 DEF IInv, Satisfied, Required
  <2>4. Placed'
    BY <2>1 DEF IInv, Placed, Running
  <2>5. UnappliedRunsReadOnly' /\ NoPlaceholderLeft' /\ NothingAfterFailure' /\ CommandsAudited'
    BY <2>1 DEF IInv, UnappliedRunsReadOnly, NoPlaceholderLeft, NothingAfterFailure, CommandsAudited
  <2> QED
    BY <2>2, <2>3, <2>4, <2>5 DEF IInv
<1> QED
  BY <1>1, BeginIInv, StartActionIInv, NoteIInv, ExpandIInv, PlanIInv, NotSpawnedIInv, ExecuteIInv,
     AuditFailsIInv, ReturnIInv, FinishActionIInv DEF Next

LEMMA InvariantHolds == Spec => []IInv
  BY InitIInv, NextIInv, PTL DEF Spec

---------------------------------------------------------------------------
(* The order of the record. A call has a listing of what is to come behind *)
(* it: cont[k] for the k innermost frames but Len(frames) - k, cont[0] for *)
(* the actions that are still in the queue. What the record lists and what *)
(* is to come are together the listing of the whole run.                   *)

Listings == Seq(ActionIds \X Nat)

\* Concatenation, with a name of its own where no more is needed of it than ThenListed and
\* ThenAssociates say.
Then(p, q) == p \o q

\* The queue is the end of the program.
Suffix ==
    /\ Len(queue) <= Len(Program)
    /\ \A i \in DOMAIN queue : queue[i] = Program[Len(Program) - Len(queue) + i]

Pending(all, m) == all[Len(Program) - m + 1]

Continues(cont, rest, all) ==
    /\ cont[0] = Pending(all, IF frames = <<>> THEN Len(queue) ELSE Len(queue) - 1)
    /\ \A k \in DOMAIN frames : cont[k] = Then(rest[frames[k].action][frames[k].i], cont[k - 1])
    /\ Then(Taken, cont[Len(frames)]) = all[1]

OnCourse(rest, all) ==
    /\ queue = <<>> /\ Running => outcomes = <<>>
    /\ queue = <<>> /\ ~Running => (outcomes = <<>> /\ result # "ok") \/ Taken = all[1]
    /\ queue # <<>> => /\ result # "ok"
                       /\ \E cont \in [0..Len(frames) -> Listings] : Continues(cont, rest, all)

LEMMA ThenListed ==
  ASSUME NEW p \in Listings, NEW q \in Listings
  PROVE  /\ Then(p, q) \in Listings /\ Then(<<>>, p) = p /\ Then(p, <<>>) = p
         /\ <<>> \in Listings /\ IsPrefix(p, Then(p, q)) /\ IsPrefix(p, p)
<1>1. /\ p \o q \in Listings /\ Len(p \o q) = Len(p) + Len(q) /\ <<>> \in Listings
      /\ \A i \in 1..Len(p) : (p \o q)[i] = p[i]
  BY DEF Listings
<1>2. <<>> \o p = p /\ p \o <<>> = p
  BY DEF Listings
<1>3. SubSeq(p \o q, 1, Len(p)) = SubSeq(p, 1, Len(p))
  BY <1>1 DEF Listings
<1> QED
  BY <1>1, <1>2, <1>3 DEF IsPrefix, Listings, Then

LEMMA SequencesAssociate ==
  \A S : \A p, q, r \in Seq(S) : Then(Then(p, q), r) = Then(p, Then(q, r))
BY SMTT(40) DEF Then

LEMMA ThenAssociates ==
  ASSUME NEW p \in Listings, NEW q \in Listings, NEW r \in Listings
  PROVE  Then(Then(p, q), r) = Then(p, Then(q, r))
<1>1. \A u, v, w \in Listings : Then(Then(u, v), w) = Then(u, Then(v, w))
  BY SequencesAssociate DEF Listings
<1> QED
  BY <1>1

LEMMA OneListed ==
  ASSUME NEW x \in ActionIds \X Nat
  PROVE  <<x>> \in Listings
<1>1. \A S : \A y \in S : <<y>> \in Seq(S)
  OBVIOUS
<1> QED
  BY <1>1 DEF Listings

LEMMA AppendsOne ==
  ASSUME NEW p \in Listings, NEW x \in ActionIds \X Nat
  PROVE  Append(p, x) = Then(p, <<x>>)
<1>1. p \in Seq(ActionIds \X Nat)
  BY DEF Listings
<1>2. Append(p, x) = p \o <<x>>
  BY <1>1
<1> QED
  BY <1>2 DEF Then

LEMMA TakenTyped ==
  ASSUME TypeOK
  PROVE  Taken \in Listings /\ (outcomes = <<>> => Taken = <<>>)
<1>1. outcomes \in Seq(Outcomes)
  BY DEF TypeOK
<1>2. ASSUME NEW k \in DOMAIN outcomes
      PROVE  <<outcomes[k].action, outcomes[k].i>> \in ActionIds \X Nat
  <2>1. outcomes[k] \in Outcomes
    BY <1>1
  <2>2. outcomes[k].action \in ActionIds /\ outcomes[k].i \in Nat
    BY <2>1 DEF Outcomes
  <2> QED
    BY <2>2
<1> QED
  BY <1>1, <1>2 DEF Taken, Listings

\* A step that is noted is the next of the record.
LEMMA NotedTaken ==
  ASSUME TypeOK, frames # <<>>, NEW status \in {"skipped", "expanded", "planned", "ok", "failed"},
         outcomes' = Noted(status)
  PROVE  /\ <<Top.action, Top.i>> \in ActionIds \X Nat
         /\ <<<<Top.action, Top.i>>>> \in Listings
         /\ Taken' = Then(Taken, <<<<Top.action, Top.i>>>>)
<1> DEFINE o == [action |-> Top.action, i |-> Top.i, status |-> status]
           x == <<Top.action, Top.i>>
<1>1. o \in Outcomes /\ o.action = Top.action /\ o.i = Top.i /\ x \in ActionIds \X Nat
  BY TopIsCall DEF Frames, Outcomes
<1>2. outcomes' = Append(outcomes, o) /\ outcomes \in Seq(Outcomes)
  BY DEF Noted, TypeOK
<1> HIDE DEF o
<1>3. /\ DOMAIN outcomes' = 1..(Len(outcomes) + 1) /\ DOMAIN outcomes = 1..Len(outcomes)
      /\ Len(outcomes) \in Nat
      /\ \A k \in 1..Len(outcomes) : outcomes'[k] = outcomes[k]
      /\ outcomes'[Len(outcomes) + 1] = o
  BY <1>1, <1>2
<1>4. Taken' = [k \in 1..(Len(outcomes) + 1) |-> <<outcomes'[k].action, outcomes'[k].i>>]
  BY <1>3 DEF Taken
<1>5. Taken = [k \in 1..Len(outcomes) |-> <<outcomes[k].action, outcomes[k].i>>]
  BY <1>3 DEF Taken
<1>6. Taken \in Seq(ActionIds \X Nat) /\ Len(Taken) = Len(outcomes)
  BY <1>3, <1>5, TakenTyped DEF Listings
<1>7. /\ DOMAIN Append(Taken, x) = 1..(Len(outcomes) + 1)
      /\ Append(Taken, x)[Len(outcomes) + 1] = x
      /\ \A k \in 1..Len(outcomes) : Append(Taken, x)[k] = Taken[k]
  BY <1>1, <1>6
<1>8. Append(Taken, x) = [k \in 1..(Len(outcomes) + 1) |-> Append(Taken, x)[k]]
  BY <1>1, <1>6, <1>7
<1>9. ASSUME NEW k \in 1..(Len(outcomes) + 1)
      PROVE  Append(Taken, x)[k] = <<outcomes'[k].action, outcomes'[k].i>>
  <2>1. CASE k = Len(outcomes) + 1
    BY <1>1, <1>3, <1>7, <2>1
  <2>2. CASE k \in 1..Len(outcomes)
    BY <1>3, <1>5, <1>7, <2>2
  <2>3. k = Len(outcomes) + 1 \/ k \in 1..Len(outcomes)
    BY <1>3
  <2> QED
    BY <2>1, <2>2, <2>3
<1>10. Taken' = Append(Taken, x)
  BY <1>4, <1>8, <1>9
<1>11. <<x>> \in Listings /\ Append(Taken, x) = Then(Taken, <<x>>)
  BY <1>1, OneListed, AppendsOne, TakenTyped
<1> QED
  BY <1>1, <1>10, <1>11

\* A listing of the innermost call: its step, what the step composes, and the steps behind.
LEMMA ListingOfTop ==
  ASSUME TypeOK, frames # <<>>, NEW rest, NEW all, Flattens(rest, all)
  PROVE  /\ rest[Top.action][Top.i] \in Listings
         /\ Top.i > Len(Steps) => rest[Top.action][Top.i] = <<>>
         /\ Top.i <= Len(Steps) =>
              /\ rest[Top.action][Top.i + 1] \in Listings
              /\ rest[Top.action][Top.i] =
                   Then(<<<<Top.action, Top.i>>>>,
                        Then(IF IsComposition(Step) THEN rest[Step.id][1] ELSE <<>>,
                             rest[Top.action][Top.i + 1]))
<1>1. Top \in Frames /\ Steps = StepsOf(reg.actions, Top.action) /\ Steps \in Seq(StepRecords)
      /\ Top.i \in 1..(Len(Steps) + 1)
  BY TopIsCall
<1>2. Top.action \in ActionIds /\ Len(Steps) \in Nat
  BY <1>1 DEF Frames
<1>3. \A i \in 1..(Len(Steps) + 1) :
          rest[Top.action][i] \in Listings /\ rest[Top.action][i] = RestFrom(rest, Top.action, i)
  BY <1>1, <1>2 DEF Flattens, Listings
<1>4. Top.i <= Len(Steps) => Top.i + 1 \in 1..(Len(Steps) + 1)
  BY <1>1, <1>2
<1>5. Top.i > Len(Steps) => RestFrom(rest, Top.action, Top.i) = <<>>
  BY <1>1 DEF RestFrom
<1>6. Top.i <= Len(Steps) =>
        RestFrom(rest, Top.action, Top.i) =
                   Then(<<<<Top.action, Top.i>>>>,
                        Then(IF IsComposition(Step) THEN rest[Step.id][1] ELSE <<>>,
                             rest[Top.action][Top.i + 1]))
  <2>1. Top.i <= Len(Steps) => ~(Top.i > Len(Steps))
    BY <1>1, <1>2
  <2> QED
    BY <1>1, <2>1 DEF RestFrom, Step, Then
<1> QED
  BY <1>1, <1>3, <1>4, <1>5, <1>6

LEMMA ListingOfProgram ==
  ASSUME NEW rest, NEW all, Flattens(rest, all)
  PROVE  /\ Program \in Seq(ActionIds) /\ Len(Program) \in Nat \ {0}
         /\ all[Len(Program) + 1] = <<>>
         /\ \A j \in 1..(Len(Program) + 1) : all[j] \in Listings
         /\ \A j \in 1..Len(Program) : all[j] = Then(rest[Program[j]][1], all[j + 1])
<1>1. Program \in Seq(ActionIds) /\ Program # <<>>
  BY ConstantsOK DEF Program
<1>2. Len(Program) \in Nat \ {0}
  BY <1>1
<1>3. Len(Program) + 1 \in 1..(Len(Program) + 1) /\ Len(Program) + 1 > Len(Program)
  BY <1>2
<1>4. \A j \in 1..Len(Program) : j \in 1..(Len(Program) + 1) /\ ~(j > Len(Program))
  BY <1>2
<1> QED
  BY <1>1, <1>2, <1>3, <1>4 DEF Flattens, Listings, Then

LEMMA ListingOfAction ==
  ASSUME TypeOK, NEW rest, NEW all, Flattens(rest, all), NEW a \in ActionIds
  PROVE  rest[a][1] \in Listings
<1>1. Len(StepsOf(reg.actions, a)) \in Nat
  BY StepsTyped DEF TypeOK
<1>2. 1 \in 1..(Len(StepsOf(reg.actions, a)) + 1)
  BY <1>1
<1> QED
  BY <1>2 DEF Flattens, Listings

LEMMA InitCourse ==
  ASSUME Init, NEW rest, NEW all
  PROVE  Suffix /\ OnCourse(rest, all)
<1>1. queue = <<>> /\ outcomes = <<>> /\ result = None
  BY DEF Init
<1>2. Len(Program) \in Nat
  BY ConstantsOK DEF Program
<1> QED
  BY <1>1, <1>2 DEF Suffix, OnCourse, Running

\* The queue is the program at first, and only loses its head.
LEMMA NextSuffix ==
  ASSUME IInv, Suffix, [Next]_vars
  PROVE  Suffix'
<1>1. run' = run /\ Program' = Program
  BY DEF Next, vars, Begin, StartAction, Note, Expand, Plan, NotSpawned, Execute, AuditFails,
     Return, FinishAction, Done, Program
<1>2. Program \in Seq(ActionIds) /\ Len(Program) \in Nat
  BY ConstantsOK DEF Program
<1>3. Len(queue) <= Len(Program) /\ \A i \in DOMAIN queue : queue[i] = Program[Len(Program) - Len(queue) + i]
  BY DEF Suffix
<1>4. CASE queue' = queue
  BY <1>1, <1>4 DEF Suffix
<1>5. CASE Begin
  <2>1. queue' = queue \/ queue' = Program
    BY <1>5 DEF Begin, Program
  <2>2. CASE queue' = Program
    BY <1>1, <1>2, <2>2 DEF Suffix
  <2> QED
    BY <1>4, <2>1, <2>2
<1>6. CASE FinishAction
  <2>1. queue # <<>> /\ queue' = Tail(queue)
    BY <1>6 DEF FinishAction, AtEnd, IInv, Placed
  <2>2. queue \in Seq(ActionIds) /\ Len(queue) \in Nat \ {0} /\ DOMAIN queue = 1..Len(queue)
    BY <2>1 DEF IInv, TypeOK
  <2>3. /\ Len(queue') = Len(queue) - 1 /\ DOMAIN queue' = 1..(Len(queue) - 1)
        /\ \A i \in 1..(Len(queue) - 1) : queue'[i] = queue[i + 1]
    BY <2>1, <2>2
  <2>4. ASSUME NEW i \in DOMAIN queue'
        PROVE  queue'[i] = Program[Len(Program) - Len(queue') + i]
    <3>1. i \in 1..(Len(queue) - 1) /\ i + 1 \in DOMAIN queue
          /\ Len(Program) - Len(queue') + i = Len(Program) - Len(queue) + (i + 1)
      BY <1>2, <2>2, <2>3, <2>4
    <3> QED
      BY <1>3, <2>3, <3>1
  <2>5. Len(queue') <= Len(Program)
    BY <1>2, <1>3, <2>2, <2>3
  <2> QED
    BY <1>1, <2>4, <2>5 DEF Suffix
<1> QED
  BY <1>4, <1>5, <1>6 DEF Next, vars, StartAction, Note, Expand, Plan, NotSpawned, Execute,
     AuditFails, Return, Done

LEMMA BeginCourse ==
  ASSUME IInv, Suffix, NEW rest, NEW all, Flattens(rest, all), OnCourse(rest, all), Begin
  PROVE  Suffix' /\ OnCourse(rest, all)'
<1> DEFINE fails == IF run.target = "workflow" THEN Fails(EffectiveWorkflow, run.params) ELSE None
<1>1. /\ Running /\ queue = <<>> /\ frames = <<>> /\ outcomes = <<>>
      /\ run' = run /\ outcomes' = outcomes /\ frames' = frames
      /\ \/ fails # None /\ result' = fails /\ queue' = queue
         \/ fails = None /\ result' = result /\ queue' = Program
  BY DEF Begin, Program
<1>2. fails \in {None, "missing", "contract"}
  BY FailsTyped
<1> HIDE DEF fails
<1>3. Program' = Program
  BY <1>1 DEF Program
<1>4. /\ Program \in Seq(ActionIds) /\ Len(Program) \in Nat \ {0}
      /\ \A j \in 1..(Len(Program) + 1) : all[j] \in Listings
  BY ListingOfProgram
<1>5. Taken = <<>> /\ Taken' = Taken
  BY <1>1, TakenTyped DEF IInv, Taken
<1>a. CASE fails # None /\ result' = fails /\ queue' = queue
  <2>1. Suffix'
    BY <1>1, <1>3, <1>a DEF Suffix
  <2>2. queue' = <<>> /\ ~Running' /\ outcomes' = <<>> /\ result' # "ok"
    BY <1>1, <1>2, <1>a, NoneIsNoResult DEF Running, Results
  <2> QED
    BY <2>1, <2>2 DEF OnCourse
<1>b. CASE fails = None /\ result' = result /\ queue' = Program
  <2>1. Suffix'
    BY <1>3, <1>4, <1>b DEF Suffix
  <2> DEFINE cont == [k \in 0..0 |-> all[1]]
  <2>2. cont \in [0..Len(frames') -> Listings]
    BY <1>1, <1>4
  <2>3. Pending(all, Len(queue))' = all[1]
    <3>1. Len(Program) - Len(Program) + 1 = 1
      BY <1>4
    <3> QED
      BY <1>3, <1>b, <3>1 DEF Pending
  <2>4. Then(Taken', all[1]) = all[1]
    BY <1>4, <1>5, ThenListed
  <2>5. Continues(cont, rest, all)'
    BY <1>1, <2>3, <2>4 DEF Continues
  <2>6. queue' # <<>> /\ result' # "ok"
    BY <1>1, <1>4, <1>b, NoneIsNoResult DEF Running, Results
  <2> QED
    BY <2>1, <2>2, <2>5, <2>6 DEF OnCourse
<1> QED
  BY <1>1, <1>a, <1>b

LEMMA StoppedCourse ==
  ASSUME NEW rest, NEW all, OnCourse(rest, all), Suffix, queue # <<>>, result' # "ok",
         UNCHANGED <<run, queue, frames, outcomes>>
  PROVE  Suffix' /\ OnCourse(rest, all)'
<1>1. Program' = Program /\ Taken' = Taken
  BY DEF Program, Taken
<1>2. Suffix'
  BY <1>1 DEF Suffix
<1>3. PICK cont \in [0..Len(frames) -> Listings] : Continues(cont, rest, all)
  BY DEF OnCourse
<1>4. Continues(cont, rest, all)'
  BY <1>1, <1>3 DEF Continues, Pending
<1> QED
  BY <1>2, <1>3, <1>4 DEF OnCourse

LEMMA StartActionCourse ==
  ASSUME IInv, Suffix, NEW rest, NEW all, Flattens(rest, all), OnCourse(rest, all), StartAction
  PROVE  Suffix' /\ OnCourse(rest, all)'
<1> DEFINE a == Head(queue)
           s == Effective(reg.actions, a)
           params == IF run.target = "workflow" THEN Filtered(s, run.params) ELSE run.params
           call == [action |-> a, i |-> 1, params |-> params]
           j == Len(Program) - Len(queue) + 1
<1>1. /\ Running /\ queue # <<>> /\ frames = <<>>
      /\ reg' = reg /\ run' = run /\ queue' = queue /\ outcomes' = outcomes
      /\ \/ Fails(s, params) # None /\ result' = Fails(s, params) /\ frames' = frames
         \/ frames' = <<call>> /\ result' = result
  BY DEF StartAction
<1>2. Fails(s, params) \in {None, "missing", "contract"}
  BY FailsTyped
<1>3. result # "ok"
  BY <1>1 DEF OnCourse
<1>4. call.action = a /\ call.i = 1
  OBVIOUS
<1>5. /\ Program \in Seq(ActionIds) /\ Len(Program) \in Nat \ {0}
      /\ \A k \in 1..(Len(Program) + 1) : all[k] \in Listings
      /\ \A k \in 1..Len(Program) : all[k] = Then(rest[Program[k]][1], all[k + 1])
  BY ListingOfProgram
<1>6. queue \in Seq(ActionIds) /\ Len(queue) \in Nat \ {0} /\ a = queue[1] /\ 1 \in DOMAIN queue
  BY <1>1 DEF IInv, TypeOK
<1>7. /\ j \in 1..Len(Program) /\ j \in 1..(Len(Program) + 1) /\ j + 1 \in 1..(Len(Program) + 1)
      /\ Len(Program) - (Len(queue) - 1) + 1 = j + 1
  BY <1>5, <1>6 DEF Suffix
<1>8. Program[j] = a
  <2>1. queue[1] = Program[Len(Program) - Len(queue) + 1]
    BY <1>6 DEF Suffix
  <2> QED
    BY <1>6, <2>1
<1> HIDE DEF a, s, params, call, j
<1>a. CASE Fails(s, params) # None /\ result' = Fails(s, params) /\ frames' = frames
  BY <1>1, <1>2, <1>a, StoppedCourse
<1>b. CASE frames' = <<call>> /\ result' = result
  <2>1. Program' = Program /\ Taken' = Taken
    BY <1>1 DEF Program, Taken
  <2>2. Suffix'
    BY <1>1, <2>1 DEF Suffix
  <2>3. PICK before \in [0..Len(frames) -> Listings] : Continues(before, rest, all)
    BY <1>1 DEF OnCourse
  <2>4. before[0] = all[j] /\ Then(Taken, all[j]) = all[1]
    <3>1. Pending(all, Len(queue)) = all[j]
      BY DEF Pending, j
    <3>2. Len(frames) = 0
      BY <1>1
    <3> QED
      BY <1>1, <2>3, <3>1, <3>2 DEF Continues
  <2>5. PICK cont \in [0..1 -> Listings] : cont[0] = all[j + 1] /\ cont[1] = all[j]
    <3> DEFINE f == [k \in 0..1 |-> IF k = 0 THEN all[j + 1] ELSE all[j]]
    <3>1. f \in [0..1 -> Listings] /\ f[0] = all[j + 1] /\ f[1] = all[j]
      BY <1>5, <1>7
    <3> QED
      BY <3>1
  <2>6. Len(frames') = 1 /\ DOMAIN frames' = {1} /\ frames'[1] = call /\ frames' # <<>>
    BY <1>b
  <2>7. Pending(all, Len(queue) - 1)' = all[j + 1]
    BY <1>1, <1>7, <2>1 DEF Pending
  <2>8. cont[1] = Then(rest[call.action][call.i], cont[0])
    BY <1>4, <1>5, <1>7, <1>8, <2>5
  <2>9. Continues(cont, rest, all)'
    <3>1. \A k \in DOMAIN frames' : cont[k] = Then(rest[frames'[k].action][frames'[k].i], cont[k - 1])
      <4>1. SUFFICES ASSUME NEW k \in DOMAIN frames'
                     PROVE  cont[k] = Then(rest[frames'[k].action][frames'[k].i], cont[k - 1])
        OBVIOUS
      <4>2. k = 1 /\ k - 1 = 0
        BY <2>6
      <4> QED
        BY <2>6, <2>8, <4>2
    <3>2. Then(Taken', cont[Len(frames')]) = all[1]
      BY <2>1, <2>4, <2>5, <2>6
    <3>3. cont[0] = Pending(all, Len(queue) - 1)'
      BY <2>5, <2>7
    <3> QED
      BY <2>6, <3>1, <3>2, <3>3 DEF Continues
  <2> QED
    BY <1>1, <1>3, <1>b, <2>2, <2>5, <2>6, <2>9 DEF OnCourse
<1> QED
  BY <1>1, <1>a, <1>b

\* What the listing says of the innermost call, taken apart at its step.
LEMMA TakesNext ==
  ASSUME NEW taken \in Listings, NEW one \in Listings, NEW composed \in Listings,
         NEW behind \in Listings, NEW outer \in Listings
  PROVE  Then(Then(taken, one), Then(composed, Then(behind, outer)))
            = Then(taken, Then(Then(one, Then(composed, behind)), outer))
<1>1. /\ Then(behind, outer) \in Listings /\ Then(composed, behind) \in Listings
      /\ Then(one, Then(composed, behind)) \in Listings
  BY ThenListed
<1>2. Then(composed, Then(behind, outer)) = Then(Then(composed, behind), outer)
  BY ThenAssociates
<1>3. Then(composed, Then(behind, outer)) \in Listings
  BY <1>1, ThenListed
<1>4. Then(Then(taken, one), Then(composed, Then(behind, outer)))
        = Then(taken, Then(one, Then(composed, Then(behind, outer))))
  BY <1>3, ThenAssociates
<1>5. Then(one, Then(Then(composed, behind), outer)) = Then(Then(one, Then(composed, behind)), outer)
  BY <1>1, ThenAssociates
<1> QED
  BY <1>1, <1>2, <1>3, <1>4, <1>5

LEMMA NotedCourse ==
  ASSUME IInv, Suffix, NEW rest, NEW all, Flattens(rest, all), OnCourse(rest, all),
         Running, frames # <<>>, Top.i <= Len(Steps), ~IsComposition(Step),
         NEW status \in {"skipped", "expanded", "planned", "ok", "failed"},
         outcomes' = Noted(status), frames' = Advanced, result' # "ok",
         UNCHANGED <<reg, run, queue>>
  PROVE  Suffix' /\ OnCourse(rest, all)'
<1> DEFINE n == Len(frames)
           one == <<<<Top.action, Top.i>>>>
           behind == rest[Top.action][Top.i + 1]
<1>1. queue # <<>>
  BY DEF IInv, Placed
<1>2. Suffix'
  BY DEF Suffix, Program
<1>3. PICK before \in [0..n -> Listings] : Continues(before, rest, all)
  BY <1>1 DEF OnCourse
<1>4. /\ n \in DOMAIN frames /\ Top = frames[n] /\ DOMAIN frames = 1..n /\ n \in Nat \ {0}
  BY TopIsCall DEF IInv, TypeOK
<1>5. /\ DOMAIN frames' = DOMAIN frames /\ frames' # <<>> /\ Len(frames') = n
      /\ frames'[n].action = Top.action /\ frames'[n].i = Top.i + 1
      /\ \A k \in DOMAIN frames : k # n => frames'[k] = frames[k]
  BY <1>4, AdvancedCalls DEF IInv
<1>6. one \in Listings /\ Taken' = Then(Taken, one) /\ Taken \in Listings
  BY NotedTaken, TakenTyped DEF IInv
<1>7. behind \in Listings /\ rest[Top.action][Top.i] = Then(one, Then(<<>>, behind))
  BY ListingOfTop DEF IInv
<1>8. before[n - 1] \in Listings /\ before[n] = Then(rest[Top.action][Top.i], before[n - 1])
      /\ Then(Taken, before[n]) = all[1]
  <2>1. n - 1 \in 0..n /\ n \in DOMAIN frames
    BY <1>4
  <2>2. before[n - 1] \in Listings
    BY <1>3, <2>1
  <2>3. before[n] = Then(rest[frames[n].action][frames[n].i], before[n - 1])
        /\ Then(Taken, before[n]) = all[1]
    BY <1>3, <2>1 DEF Continues
  <2> QED
    BY <1>4, <2>2, <2>3
<1> HIDE DEF n, one, behind
<1>9. <<>> \in Listings
  BY <1>7, ThenListed
<1>10. Then(behind, before[n - 1]) \in Listings /\ Then(Taken', Then(behind, before[n - 1])) = all[1]
  <2>1. Then(behind, before[n - 1]) \in Listings
    BY <1>7, <1>8, ThenListed
  <2>3. Then(Then(Taken, one), Then(<<>>, Then(behind, before[n - 1])))
             = Then(Taken, Then(Then(one, Then(<<>>, behind)), before[n - 1]))
    BY <1>6, <1>7, <1>8, <1>9, TakesNext
  <2>2. Then(<<>>, Then(behind, before[n - 1])) = Then(behind, before[n - 1])
    BY <2>1, ThenListed
  <2> QED
    BY <1>6, <1>7, <1>8, <2>1, <2>2, <2>3
<1>12. PICK cont \in [0..n -> Listings] :
          /\ cont[n] = Then(behind, before[n - 1])
          /\ \A k \in 0..n : k # n => cont[k] = before[k]
  <2> DEFINE f == [before EXCEPT ![n] = Then(behind, before[n - 1])]
  <2>1. f \in [0..n -> Listings] /\ f[n] = Then(behind, before[n - 1])
        /\ \A k \in 0..n : k # n => f[k] = before[k]
    BY <1>3, <1>4, <1>10
  <2> QED
    BY <2>1
<1>13. ASSUME NEW k \in DOMAIN frames'
       PROVE  cont[k] = Then(rest[frames'[k].action][frames'[k].i], cont[k - 1])
  <2>1. k \in 1..n /\ k - 1 \in 0..n /\ k - 1 # n /\ k \in 0..n
    BY <1>4, <1>5
  <2>2. CASE k = n
    BY <1>5, <1>12, <2>1, <2>2 DEF behind
  <2>3. CASE k # n
    BY <1>3, <1>4, <1>5, <1>12, <2>1, <2>3 DEF Continues
  <2> QED
    BY <2>2, <2>3
<1>14. cont[0] = Pending(all, Len(queue) - 1)'
  <2>1. cont[0] = before[0]
    BY <1>4, <1>12
  <2>2. before[0] = Pending(all, Len(queue) - 1)
    BY <1>3 DEF Continues
  <2> QED
    BY <2>1, <2>2 DEF Pending, Program
<1>15. Continues(cont, rest, all)'
  BY <1>5, <1>10, <1>12, <1>13, <1>14 DEF Continues
<1>16. \E c \in [0..Len(frames') -> Listings] : Continues(c, rest, all)'
  BY <1>5, <1>12, <1>15
<1> QED
  BY <1>1, <1>2, <1>16 DEF OnCourse

LEMMA ExpandCourse ==
  ASSUME IInv, Suffix, NEW rest, NEW all, Flattens(rest, all), OnCourse(rest, all), Expand
  PROVE  Suffix' /\ OnCourse(rest, all)'
<1> DEFINE s == Effective(reg.actions, Step.id)
           params == Filtered(s, Top.params)
           call == [action |-> Step.id, i |-> 1, params |-> params]
           status == IF run.apply THEN "expanded" ELSE "planned"
           n == Len(frames)
           one == <<<<Top.action, Top.i>>>>
           composed == rest[Step.id][1]
           behind == rest[Top.action][Top.i + 1]
<1>1. /\ Running /\ frames # <<>> /\ Top.i <= Len(Steps) /\ Step.kind = "action"
      /\ reg' = reg /\ run' = run /\ queue' = queue
      /\ \/ Step.id = MissingId /\ result' = "not_found" /\ frames' = frames /\ outcomes' = outcomes
         \/ /\ Step.id # MissingId /\ Fails(s, params) # None /\ result' = Fails(s, params)
            /\ frames' = frames /\ outcomes' = outcomes
         \/ /\ Step.id # MissingId /\ Fails(s, params) = None /\ outcomes' = Noted(status)
            /\ frames' = Append(Advanced, call) /\ result' = result
  BY DEF Expand, AtStep
<1>2. queue # <<>> /\ result # "ok"
  BY <1>1 DEF IInv, Placed, OnCourse
<1>3. Fails(s, params) \in {None, "missing", "contract"}
  BY FailsTyped
<1>4. call.action = Step.id /\ call.i = 1
  OBVIOUS
<1>5. status \in {"skipped", "expanded", "planned", "ok", "failed"}
  OBVIOUS
<1> HIDE DEF s, params, call, status
<1>a. CASE result' # "ok" /\ frames' = frames /\ outcomes' = outcomes
  BY <1>1, <1>2, <1>a, StoppedCourse
<1>b. CASE /\ Step.id # MissingId /\ outcomes' = Noted(status)
           /\ frames' = Append(Advanced, call) /\ result' = result
  <2>1. Suffix'
    BY <1>1 DEF Suffix, Program
  <2>2. PICK before \in [0..n -> Listings] : Continues(before, rest, all)
    BY <1>2 DEF OnCourse
  <2>3. n \in DOMAIN frames /\ Top = frames[n] /\ DOMAIN frames = 1..n /\ n \in Nat \ {0}
        /\ Top \in Frames /\ Top.i \in DOMAIN Steps /\ Steps = StepsOf(reg.actions, Top.action)
    BY <1>1, TopIsCall DEF IInv, TypeOK
  <2>4. /\ DOMAIN frames' = 1..(n + 1) /\ frames' # <<>> /\ Len(frames') = n + 1
        /\ frames'[n].action = Top.action /\ frames'[n].i = Top.i + 1
        /\ \A k \in DOMAIN frames : k # n => frames'[k] = frames[k]
        /\ frames'[n + 1] = call
    <3>1. /\ Advanced \in Seq(Frames) /\ DOMAIN Advanced = DOMAIN frames /\ Len(Advanced) = n
          /\ Advanced[n].action = Top.action /\ Advanced[n].i = Top.i + 1
          /\ \A k \in DOMAIN frames : k # n => Advanced[k] = frames[k]
      BY <1>1, <2>3, AdvancedCalls DEF IInv
    <3>2. /\ DOMAIN Append(Advanced, call) = 1..(n + 1) /\ Len(Append(Advanced, call)) = n + 1
          /\ \A k \in 1..n : Append(Advanced, call)[k] = Advanced[k]
          /\ Append(Advanced, call)[n + 1] = call
      BY <2>3, <3>1
    <3>3. frames' # <<>>
      BY <1>b, <2>3, <3>2
    <3> QED
      BY <1>b, <2>3, <3>1, <3>2, <3>3
  <2>5. one \in Listings /\ Taken' = Then(Taken, one) /\ Taken \in Listings
    BY <1>1, <1>5, <1>b, NotedTaken, TakenTyped DEF IInv
  <2>6. Step.id \in ActionIds /\ IsComposition(Step)
    <3>1. Top.action \in ActionIds /\ reg.actions \in [ActionIds -> Actions]
      BY <2>3 DEF Frames, IInv, TypeOK
    <3>2. Step = StepsOf(reg.actions, Top.action)[Top.i] /\ Top.i \in DOMAIN StepsOf(reg.actions, Top.action)
      BY <2>3 DEF Step
    <3>3. Step.id \in ActionIds \cup {MissingId}
      BY <1>1, <3>1, <3>2, ChildOfStep
    <3> QED
      BY <1>1, <1>b, <3>3 DEF IsComposition
  <2>7. composed \in Listings
    BY <2>6, ListingOfAction DEF IInv
  <2>8. behind \in Listings /\ rest[Top.action][Top.i] = Then(one, Then(composed, behind))
    BY <1>1, <2>6, ListingOfTop DEF IInv
  <2>9. before[n - 1] \in Listings /\ before[n] = Then(rest[Top.action][Top.i], before[n - 1])
        /\ Then(Taken, before[n]) = all[1]
    <3>1. n - 1 \in 0..n /\ n \in DOMAIN frames
      BY <2>3
    <3>2. before[n - 1] \in Listings
      BY <2>2, <3>1
    <3>3. before[n] = Then(rest[frames[n].action][frames[n].i], before[n - 1])
          /\ Then(Taken, before[n]) = all[1]
      BY <2>2, <3>1 DEF Continues
    <3> QED
      BY <2>3, <3>2, <3>3
  <2> HIDE DEF n, one, composed, behind
  <2>10. Then(behind, before[n - 1]) \in Listings
    BY <2>8, <2>9, ThenListed
  <2>11. Then(composed, Then(behind, before[n - 1])) \in Listings
    BY <2>7, <2>10, ThenListed
  <2>12. Then(Taken', Then(composed, Then(behind, before[n - 1]))) = all[1]
    <3>1. Then(Then(Taken, one), Then(composed, Then(behind, before[n - 1])))
            = Then(Taken, Then(Then(one, Then(composed, behind)), before[n - 1]))
      BY <2>5, <2>7, <2>8, <2>9, TakesNext
    <3> QED
      BY <2>5, <2>8, <2>9, <3>1
  <2>13. PICK cont \in [0..(n + 1) -> Listings] :
            /\ cont[n] = Then(behind, before[n - 1])
            /\ cont[n + 1] = Then(composed, Then(behind, before[n - 1]))
            /\ \A k \in 0..(n - 1) : cont[k] = before[k]
    <3> DEFINE here == Then(behind, before[n - 1])
               inner == Then(composed, here)
               f == [k \in 0..(n + 1) |-> IF k = n + 1 THEN inner ELSE IF k = n THEN here ELSE before[k]]
    <3>1. here \in Listings /\ inner \in Listings
      BY <2>10, <2>11
    <3>2. /\ n \in 0..(n + 1) /\ n + 1 \in 0..(n + 1) /\ n # n + 1
          /\ \A k \in 0..(n + 1) : k \in {n, n + 1} \cup 0..(n - 1)
          /\ \A k \in 0..(n - 1) : k # n /\ k # n + 1 /\ k \in 0..n /\ k \in 0..(n + 1)
      BY <2>3
    <3> HIDE DEF here, inner
    <3>3. f \in [0..(n + 1) -> Listings] /\ f[n] = here /\ f[n + 1] = inner
          /\ \A k \in 0..(n - 1) : f[k] = before[k]
      BY <2>2, <3>1, <3>2
    <3> QED
      BY <3>3 DEF here, inner
  <2>14. ASSUME NEW k \in DOMAIN frames'
         PROVE  cont[k] = Then(rest[frames'[k].action][frames'[k].i], cont[k - 1])
    <3>1. k = n + 1 \/ k = n \/ (k \in 1..(n - 1) /\ k - 1 \in 0..(n - 1) /\ k \in 0..(n - 1))
      BY <2>3, <2>4
    <3>2. CASE k = n + 1
      <4>1. k - 1 = n
        BY <2>3, <3>2
      <4>2. rest[frames'[k].action][frames'[k].i] = composed
        BY <1>4, <2>4, <3>2 DEF composed
      <4> QED
        BY <2>13, <3>2, <4>1, <4>2
    <3>3. CASE k = n
      <4>1. n - 1 \in 0..(n - 1)
        BY <2>3
      <4>2. rest[frames'[k].action][frames'[k].i] = behind
        BY <2>4, <3>3 DEF behind
      <4> QED
        BY <2>13, <3>3, <4>1, <4>2
    <3>4. CASE k \in 1..(n - 1) /\ k - 1 \in 0..(n - 1) /\ k \in 0..(n - 1)
      <4>1. k \in DOMAIN frames /\ k # n
        BY <2>3, <3>4
      <4>2. before[k] = Then(rest[frames[k].action][frames[k].i], before[k - 1])
        BY <2>2, <4>1 DEF Continues
      <4> QED
        BY <2>4, <2>13, <3>4, <4>1, <4>2
    <3> QED
      BY <3>1, <3>2, <3>3, <3>4
  <2>15. cont[0] = Pending(all, Len(queue) - 1)'
    <3>1. 0 \in 0..(n - 1)
      BY <2>3
    <3>2. before[0] = Pending(all, Len(queue) - 1)
      BY <1>1, <2>2 DEF Continues
    <3> QED
      BY <1>1, <2>13, <3>1, <3>2 DEF Pending, Program
  <2>16. Continues(cont, rest, all)'
    BY <2>4, <2>12, <2>13, <2>14, <2>15 DEF Continues
  <2> QED
    BY <1>1, <1>2, <1>b, <2>1, <2>4, <2>13, <2>16 DEF OnCourse
<1>6. result' = "not_found" => result' # "ok"
  OBVIOUS
<1>7. Fails(s, params) # None /\ result' = Fails(s, params) => result' # "ok"
  BY <1>3
<1> QED
  BY <1>1, <1>6, <1>7, <1>a, <1>b

\* The innermost call is at its end: nothing is listed behind it.
LEMMA ReturnCourse ==
  ASSUME IInv, Suffix, NEW rest, NEW all, Flattens(rest, all), OnCourse(rest, all), Return
  PROVE  Suffix' /\ OnCourse(rest, all)'
<1> DEFINE n == Len(frames)
<1>1. /\ Running /\ frames # <<>> /\ Top.i > Len(Steps) /\ n > 1 /\ frames' = Front(frames)
      /\ UNCHANGED <<reg, run, queue, outcomes, result>>
  BY DEF Return, AtEnd
<1>2. queue # <<>> /\ result # "ok"
  BY <1>1 DEF IInv, Placed, OnCourse
<1>3. Suffix' /\ Taken' = Taken
  BY <1>1 DEF Suffix, Program, Taken
<1>4. PICK before \in [0..n -> Listings] : Continues(before, rest, all)
  BY <1>2 DEF OnCourse
<1>5. frames \in Seq(Frames) /\ n \in Nat /\ DOMAIN frames = 1..n
  BY DEF IInv, TypeOK
<1>6. n \in DOMAIN frames /\ n - 1 \in 0..n /\ n - 1 > 0 /\ n - 1 \in Nat
  BY <1>1, <1>5
<1>7. /\ DOMAIN frames' = 1..(n - 1) /\ Len(frames') = n - 1 /\ frames' # <<>>
      /\ \A k \in 1..(n - 1) : frames'[k] = frames[k]
  <2>1. /\ SubSeq(frames, 1, n - 1) \in Seq(Frames) /\ Len(SubSeq(frames, 1, n - 1)) = n - 1
        /\ \A k \in 1..(n - 1) : SubSeq(frames, 1, n - 1)[k] = frames[k]
    BY <1>1, <1>5, <1>6
  <2>2. DOMAIN frames' = 1..(n - 1) /\ Len(frames') = n - 1
    BY <1>1, <2>1 DEF Front
  <2> QED
    BY <1>1, <1>6, <2>1, <2>2 DEF Front
<1>8. before[n - 1] = before[n]
  <2>1. before[n] = Then(rest[frames[n].action][frames[n].i], before[n - 1])
    BY <1>4, <1>6 DEF Continues
  <2>2. rest[frames[n].action][frames[n].i] = <<>>
    BY <1>1, ListingOfTop, TopIsCall DEF IInv
  <2>3. before[n - 1] \in Listings
    BY <1>4, <1>6
  <2> QED
    BY <2>1, <2>2, <2>3, ThenListed
<1> HIDE DEF n
<1>9. PICK cont \in [0..(n - 1) -> Listings] : \A k \in 0..(n - 1) : cont[k] = before[k]
  <2> DEFINE f == [k \in 0..(n - 1) |-> before[k]]
  <2>1. \A k \in 0..(n - 1) : k \in 0..n
    BY <1>5
  <2>2. f \in [0..(n - 1) -> Listings] /\ \A k \in 0..(n - 1) : f[k] = before[k]
    BY <1>4, <2>1
  <2> QED
    BY <2>2
<1>10. ASSUME NEW k \in DOMAIN frames'
       PROVE  cont[k] = Then(rest[frames'[k].action][frames'[k].i], cont[k - 1])
  <2>1. k \in 1..(n - 1) /\ k \in 0..(n - 1) /\ k - 1 \in 0..(n - 1) /\ k \in DOMAIN frames
    BY <1>5, <1>6, <1>7
  <2>2. before[k] = Then(rest[frames[k].action][frames[k].i], before[k - 1])
    BY <1>4, <2>1 DEF Continues
  <2> QED
    BY <1>7, <1>9, <2>1, <2>2
<1>11. cont[0] = Pending(all, Len(queue) - 1)'
  <2>1. 0 \in 0..(n - 1)
    BY <1>6
  <2>2. before[0] = Pending(all, Len(queue) - 1)
    BY <1>1, <1>4 DEF Continues
  <2> QED
    BY <1>1, <1>9, <2>1, <2>2 DEF Pending, Program
<1>12. Then(Taken', cont[Len(frames')]) = all[1]
  <2>1. n - 1 \in 0..(n - 1)
    BY <1>6
  <2>2. Then(Taken, before[n]) = all[1]
    BY <1>4 DEF Continues, n
  <2> QED
    BY <1>3, <1>7, <1>8, <1>9, <2>1, <2>2
<1>13. Continues(cont, rest, all)'
  BY <1>7, <1>10, <1>11, <1>12 DEF Continues
<1> QED
  BY <1>1, <1>2, <1>3, <1>7, <1>9, <1>13 DEF OnCourse

LEMMA FinishActionCourse ==
  ASSUME IInv, Suffix, NEW rest, NEW all, Flattens(rest, all), OnCourse(rest, all), FinishAction
  PROVE  Suffix' /\ OnCourse(rest, all)'
<1>1. /\ Running /\ frames # <<>> /\ Top.i > Len(Steps) /\ Len(frames) = 1 /\ frames' = <<>>
      /\ queue' = Tail(queue)
      /\ result' \in {IF Len(queue) = 1 THEN "ok" ELSE None, "output"}
      /\ UNCHANGED <<reg, run, outcomes>>
  BY DEF FinishAction, AtEnd
<1>2. queue # <<>>
  BY <1>1 DEF IInv, Placed
<1>3. Taken' = Taken /\ Program' = Program /\ Taken \in Listings
  BY <1>1, TakenTyped DEF Taken, Program, IInv
<1>4. PICK before \in [0..Len(frames) -> Listings] : Continues(before, rest, all)
  BY <1>2 DEF OnCourse
<1>5. queue \in Seq(ActionIds) /\ Len(queue) \in Nat \ {0} /\ DOMAIN queue = 1..Len(queue)
  BY <1>2 DEF IInv, TypeOK
<1>6. /\ Len(queue') = Len(queue) - 1 /\ DOMAIN queue' = 1..(Len(queue) - 1)
      /\ \A i \in 1..(Len(queue) - 1) : queue'[i] = queue[i + 1]
      /\ queue' \in Seq(ActionIds)
  BY <1>1, <1>2, <1>5
<1>7. /\ Len(Program) \in Nat \ {0} /\ all[Len(Program) + 1] = <<>>
      /\ \A k \in 1..(Len(Program) + 1) : all[k] \in Listings
  BY ListingOfProgram
<1>8. Suffix'
  BY NextSuffix DEF Next
<1>9. before[0] = Pending(all, Len(queue) - 1) /\ Then(Taken, before[0]) = all[1]
      /\ before[0] \in Listings
  <2>1. 1 \in DOMAIN frames /\ 0 \in 0..Len(frames) /\ 1 - 1 = 0 /\ Top = frames[1]
    BY <1>1, TopIsCall DEF IInv
  <2>2. before[0] = Pending(all, Len(queue) - 1) /\ Then(Taken, before[1]) = all[1]
        /\ before[1] = Then(rest[frames[1].action][frames[1].i], before[0])
    BY <1>1, <1>4, <2>1 DEF Continues
  <2>3. rest[frames[1].action][frames[1].i] = <<>>
    BY <1>1, <2>1, ListingOfTop DEF IInv
  <2>4. before[0] \in Listings
    BY <1>4, <2>1
  <2> QED
    BY <2>2, <2>3, <2>4, ThenListed
<1>a. CASE Len(queue) = 1
  <2>1. queue' = <<>>
    <3>1. \A q \in Seq(ActionIds) : Len(q) = 0 <=> q = <<>>
      OBVIOUS
    <3> QED
      BY <1>6, <1>a, <3>1
  <2>2. Pending(all, Len(queue) - 1) = <<>>
    <3>1. Len(Program) - (Len(queue) - 1) + 1 = Len(Program) + 1
      BY <1>7, <1>a
    <3> QED
      BY <1>7, <3>1 DEF Pending
  <2>3. Taken' = all[1]
    BY <1>3, <1>9, <2>2, ThenListed
  <2>4. ~Running'
    BY <1>1, <1>a, NoneIsNoResult DEF Running, Results
  <2> QED
    BY <1>8, <2>1, <2>3, <2>4 DEF OnCourse
<1>b. CASE Len(queue) # 1
  <2>1. result' # "ok"
    BY <1>1, <1>b, NoneIsNoResult DEF Results
  <2>2. queue' # <<>>
    BY <1>5, <1>6, <1>b
  <2>3. PICK cont \in [0..0 -> Listings] : cont[0] = before[0]
    <3> DEFINE f == [k \in 0..0 |-> before[0]]
    <3>1. f \in [0..0 -> Listings] /\ f[0] = before[0]
      BY <1>9
    <3> QED
      BY <3>1
  <2>4. Len(frames') = 0 /\ DOMAIN frames' = {}
    BY <1>1
  <2>5. cont[0] = Pending(all, Len(queue))'
    BY <1>3, <1>6, <1>9, <2>3 DEF Pending
  <2>6. Then(Taken', cont[Len(frames')]) = all[1]
    BY <1>3, <1>9, <2>3, <2>4
  <2>7. Continues(cont, rest, all)'
    BY <1>1, <2>4, <2>5, <2>6 DEF Continues
  <2> QED
    BY <1>8, <2>1, <2>2, <2>3, <2>4, <2>7 DEF OnCourse
<1> QED
  BY <1>a, <1>b

LEMMA NextCourse ==
  ASSUME IInv, Suffix, NEW rest, NEW all, Flattens(rest, all), OnCourse(rest, all), [Next]_vars
  PROVE  Suffix' /\ OnCourse(rest, all)'
<1>1. CASE Note \/ Plan
  <2>1. /\ Running /\ frames # <<>> /\ Top.i <= Len(Steps) /\ Step.kind # "action"
        /\ frames' = Advanced /\ result' = result /\ UNCHANGED <<reg, run, queue>>
    BY <1>1 DEF Note, Plan, AtStep
  <2>2. PICK status \in {"skipped", "planned"} : outcomes' = Noted(status)
    BY <1>1 DEF Note, Plan
  <2>3. ~IsComposition(Step) /\ result' # "ok"
    BY <2>1 DEF IsComposition, OnCourse, IInv, Placed
  <2> QED
    BY <2>1, <2>2, <2>3, NotedCourse
<1>2. CASE Execute
  <2>1. /\ Running /\ frames # <<>> /\ Top.i <= Len(Steps) /\ Step.kind # "action"
        /\ frames' = Advanced /\ UNCHANGED <<reg, run, queue>>
    BY <1>2 DEF Execute, AtStep
  <2>2. PICK status \in {"ok", "failed"} : outcomes' = Noted(status) /\ Outcome(status)
    BY <1>2 DEF Execute
  <2>3. ~IsComposition(Step) /\ result' # "ok"
    BY <2>1, <2>2 DEF IsComposition, OnCourse, IInv, Placed, Outcome
  <2> QED
    BY <2>1, <2>2, <2>3, NotedCourse
<1>3. CASE NotSpawned \/ AuditFails
  <2>1. queue # <<>> /\ result' # "ok" /\ UNCHANGED <<run, queue, frames, outcomes>>
    BY <1>3 DEF NotSpawned, AuditFails, AtStep, IInv, Placed
  <2> QED
    BY <2>1, StoppedCourse
<1>4. CASE Done \/ UNCHANGED vars
  <2>1. UNCHANGED <<run, queue, frames, outcomes, result>>
    BY <1>4 DEF Done, vars
  <2>2. Program' = Program /\ Taken' = Taken
    BY <2>1 DEF Program, Taken
  <2>3. Suffix'
    BY <2>1, <2>2 DEF Suffix
  <2>4. CASE queue = <<>>
    BY <2>1, <2>2, <2>3, <2>4 DEF OnCourse, Running
  <2>5. CASE queue # <<>>
    BY <2>1, <2>5, StoppedCourse DEF OnCourse
  <2> QED
    BY <2>4, <2>5
<1> QED
  BY <1>1, <1>2, <1>3, <1>4, BeginCourse, StartActionCourse, ExpandCourse, ReturnCourse,
     FinishActionCourse DEF Next

\* The record is a beginning of what is listed, and all of it when the run is ok.
LEMMA CourseIsInOrder ==
  ASSUME TypeOK, NEW rest, NEW all, Flattens(rest, all), OnCourse(rest, all)
  PROVE  InOrder(all[1])
<1>1. Taken \in Listings /\ (outcomes = <<>> => Taken = <<>>)
  BY TakenTyped
<1>2. Len(Program) \in Nat \ {0} /\ \A j \in 1..(Len(Program) + 1) : all[j] \in Listings
  BY ListingOfProgram
<1>3. all[1] \in Listings
  BY <1>2
<1>4. Then(<<>>, all[1]) = all[1] /\ IsPrefix(<<>>, Then(<<>>, all[1])) /\ IsPrefix(Taken, Taken)
  BY <1>1, <1>3, ThenListed
<1>5. CASE queue = <<>>
  BY <1>1, <1>4, <1>5, NoneIsNoResult DEF OnCourse, InOrder, Running, Results
<1>6. CASE queue # <<>>
  <2>1. result # "ok"
    BY <1>6 DEF OnCourse
  <2>2. PICK cont \in [0..Len(frames) -> Listings] : Continues(cont, rest, all)
    BY <1>6 DEF OnCourse
  <2>3. Len(frames) \in 0..Len(frames)
    BY DEF TypeOK
  <2>4. Then(Taken, cont[Len(frames)]) = all[1] /\ cont[Len(frames)] \in Listings
    BY <2>2, <2>3 DEF Continues
  <2>5. IsPrefix(Taken, Then(Taken, cont[Len(frames)]))
    BY <1>1, <2>4, ThenListed
  <2> QED
    BY <2>1, <2>4, <2>5 DEF InOrder
<1> QED
  BY <1>5, <1>6

Course == Suffix /\ \A rest, all : Flattens(rest, all) => OnCourse(rest, all)

LEMMA CourseHolds == Spec => []Course
<1>1. Init => Course
  BY InitCourse DEF Course
<1>2. IInv /\ Course /\ [Next]_vars => Course'
  <2>1. SUFFICES ASSUME IInv, Course, [Next]_vars PROVE Course'
    OBVIOUS
  <2>2. reg' = reg /\ run' = run
    BY <2>1 DEF Next, vars, Begin, StartAction, Note, Expand, Plan, NotSpawned, Execute, AuditFails,
       Return, FinishAction, Done
  <2>3. ASSUME NEW rest, NEW all, Flattens(rest, all)' PROVE Flattens(rest, all)
    BY <2>2, <2>3 DEF Flattens, Program, RestFrom
  <2>4. ASSUME NEW rest, NEW all, Flattens(rest, all)' PROVE OnCourse(rest, all)'
    BY <2>1, <2>3, <2>4, NextCourse DEF Course
  <2>5. Suffix'
    BY <2>1, NextSuffix DEF Course
  <2> QED
    BY <2>4, <2>5 DEF Course
<1> QED
  BY <1>1, <1>2, InvariantHolds, PTL DEF Spec

---------------------------------------------------------------------------
(* The theorems *)

\* Every variable has its type, and a call is at one of its steps or behind the last.
THEOREM TypeCorrect == Spec => []TypeOK
<1>1. IInv => TypeOK
  BY DEF IInv
<1> QED
  BY <1>1, InvariantHolds, PTL

\* Without --apply no command of a mutating action runs, in whatever registry, however deep
\* the action is composed.
THEOREM ReadOnlyUnapplied == Spec => []UnappliedRunsReadOnly
<1>1. IInv => UnappliedRunsReadOnly
  BY DEF IInv
<1> QED
  BY <1>1, InvariantHolds, PTL

\* The contracts that finalize demands are enough: in whatever registry that loads, a command
\* is started with all its parameters, and a parameter that is missing is reported before
\* anything runs.
THEOREM ParametersComplete == Spec => []NoPlaceholderLeft
<1>1. IInv => NoPlaceholderLeft
  BY DEF IInv
<1> QED
  BY <1>1, InvariantHolds, PTL

\* Nothing comes behind a command that failed, and each command that ran is audited, those
\* that failed too: what RecordIsTrue says beside the order of the steps.
THEOREM FailuresAndAudits == Spec => [](NothingAfterFailure /\ CommandsAudited)
<1>1. IInv => NothingAfterFailure /\ CommandsAudited
  BY DEF IInv
<1> QED
  BY <1>1, InvariantHolds, PTL

\* Whatever solves the equations of what an action lists, Flattens, the record is a beginning
\* of it, and all of it when the run is ok.
THEOREM OrderKept == Spec => [](\A rest, all : Flattens(rest, all) => InOrder(all[1]))
<1>1. IInv /\ Course => \A rest, all : Flattens(rest, all) => InOrder(all[1])
  BY CourseIsInOrder DEF IInv, Course
<1> QED
  BY <1>1, InvariantHolds, CourseHolds, PTL

\* The record is true, as long as Rest and All, which a recursion computes, solve those
\* equations.
THEOREM RecordTrue == Spec => [](Flattens(Rest, All) => RecordIsTrue)
<1>1. ASSUME IInv, Course PROVE Flattens(Rest, All) => RecordIsTrue
  <2>1. NothingAfterFailure /\ CommandsAudited
    BY <1>1 DEF IInv
  <2>2. Flattens(Rest, All) => OnCourse(Rest, All)
    BY <1>1 DEF Course
  <2>3. Flattens(Rest, All) => InOrder(All[1])
    BY <1>1, <2>2, CourseIsInOrder DEF IInv
  <2> QED
    BY <2>1, <2>3 DEF RecordIsTrue
<1> QED
  BY <1>1, InvariantHolds, CourseHolds, PTL
=============================================================================
