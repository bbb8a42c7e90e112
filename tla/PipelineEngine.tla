--------------------------- MODULE PipelineEngine ---------------------------
(***************************************************************************)
(* The pure half of the pipeline service (src/services/pipeline): what a   *)
(* published pipeline document may say (validate.ts and the validate half  *)
(* of effects/), and what taking one configured action does to a file      *)
(* (engine.ts and the plan half of effects/).                              *)
(*                                                                         *)
(* A pipeline document p is a record                                       *)
(*   stages, initial      the stage keys and the one files enter at        *)
(*   onSubmit             the flags a file gains when it is submitted      *)
(*   flags                every declared status flag, of which             *)
(*   terminal, editing    end the journey / unlock the applicant's form    *)
(*   outcome              are of kind OUTCOME                              *)
(*   presence             [stages -> SUBSET flags]                         *)
(*   recorded             the declared recorded values                     *)
(*   actions              [stages -> the set of actions configured there]  *)
(* and an action a is a record                                             *)
(*   key, inputs          inputs[k] is the set of values that the form     *)
(*                        engine accepts for input k (Null: left empty)    *)
(*   availableWhen        a condition                                      *)
(*   effects              a sequence of effects, each with its type, its   *)
(*                        parameters and its own condition "when".         *)
(* A condition is a set of alternative groups, and a group a set of        *)
(* comparisons that must all hold; a comparison accepts a set of operand   *)
(* values, which is what an operator and its configured value amount to.   *)
(***************************************************************************)
EXTENDS FormEngine

(***************************************************************************)
(* The scope x of a decision: what one read of the file returned, and the  *)
(* officer's validated inputs:                                             *)
(*   [flags, recorded, trail, answers, ceiling, inputs]                    *)
(***************************************************************************)

\* condition-sources.ts: presence is a flag's value, so a held flag reads 1.
Operand(c, x) ==
  CASE c.source = "ANSWER"         -> x.answers[c.key]
    [] c.source = "STATUS_FLAG"    -> IF c.key \in x.flags THEN 1 ELSE Null
    [] c.source = "RECORDED_VALUE" -> x.recorded[c.key]
    [] c.source = "INPUT"          -> x.inputs[c.key]

conditionsHold(conditions, x) ==
  \/ conditions = {}
  \/ \E group \in conditions : \A c \in group : Operand(c, x) \in c.accepts

awaitsApplicant(p, flags) == p.editing \cap flags # {}

actionIsAvailable(p, a, stage, x) ==
  /\ stage # Null
  /\ ~awaitsApplicant(p, x.flags)
  /\ conditionsHold(a.availableWhen, x)

-----------------------------------------------------------------------------
(* What each effect type costs, and what it excludes.                      *)

EndTypes      == {"COMPLETE_PIPELINE", "CLOSE_APPLICATION"}
AdvanceTypes  == {"MOVE_TO_STAGE", "MOVE_BY_CHOICE"}
StageTypes    == AdvanceTypes \cup EndTypes \cup {"RETURN_TO_PREVIOUS"}
RevisionTypes == {"REQUEST_REVISION"}
StatusTypes   == {"ADD_STATUS", "REMOVE_STATUS"}
FlagTypes     == StatusTypes \cup EndTypes \cup RevisionTypes
EffectTypes   == StageTypes \cup FlagTypes
                   \cup {"SET_RECORDED_VALUE", "NOTIFY_APPLICANT", "ADD_INTERNAL_NOTE"}

flagPermission(p, flag) ==
  IF flag \in p.outcome THEN "stage:decide" ELSE "stage:advance"

EffectPermissions(p, e) ==
  CASE e.type \in StatusTypes                          -> {flagPermission(p, e.flag)}
    [] e.type = "SET_RECORDED_VALUE"                   -> {"stage:decide"}
    [] e.type = "REQUEST_REVISION"                     -> {"stage:request_revision"}
    [] e.type = "ADD_INTERNAL_NOTE"                    -> {"application:note"}
    [] e.type \in AdvanceTypes \cup {"COMPLETE_PIPELINE"} -> {"stage:advance"}
    [] e.type = "RETURN_TO_PREVIOUS"                   -> {"stage:return"}
    [] e.type = "CLOSE_APPLICATION"                    -> {"stage:close"}
    [] OTHER                                           -> {}

permissionsFor(p, a) ==
  UNION {EffectPermissions(p, a.effects[i]) : i \in DOMAIN a.effects}

-----------------------------------------------------------------------------
(* Planning one action at a stage.                                         *)

\* The inputs an officer may send: exactly what the form engine accepts.
ValidInputs(a) ==
  {inputs \in [DOMAIN a.inputs -> UNION {a.inputs[k] : k \in DOMAIN a.inputs}] :
      \A k \in DOMAIN a.inputs : inputs[k] \in a.inputs[k]}

firedEffects(a, x) ==
  {i \in DOMAIN a.effects : conditionsHold(a.effects[i].when, x)}

FiredOf(types, a, x) == {i \in firedEffects(a, x) : a.effects[i].type \in types}

\* SET_RECORDED_VALUE's bounds: a bound answer that was never given refuses,
\* a cycle with no resolved ceiling bounds nothing.
OverBound(e, x) ==
  LET value == x.inputs[e.input]
  IN  /\ value # Null
      /\ \/ /\ e.atMostAnswer # Null
            /\ \/ x.answers[e.atMostAnswer] = Null
               \/ value > x.answers[e.atMostAnswer]
         \/ e.atMostCycleCeiling /\ x.ceiling # Null /\ value > x.ceiling

EffectRefuses(e, x) ==
  \/ e.type = "SET_RECORDED_VALUE" /\ OverBound(e, x)
  \/ e.type = "MOVE_BY_CHOICE" /\ x.inputs[e.input] \notin DOMAIN e.routes
  \/ e.type = "RETURN_TO_PREVIOUS" /\ x.trail = <<>>

planRefused(a, x) ==
  LET moves     == FiredOf(StageTypes, a, x)
      revisions == FiredOf(RevisionTypes, a, x)
  IN  \/ \E i \in firedEffects(a, x) : EffectRefuses(a.effects[i], x)
      \/ \E i, j \in moves : i # j
      \/ \E i, j \in revisions : i # j
      \/ moves # {} /\ revisions # {}

MoveTarget(e, x) ==
  CASE e.type = "MOVE_TO_STAGE"      -> e.target
    [] e.type = "MOVE_BY_CHOICE"     -> e.routes[x.inputs[e.input]]
    [] e.type = "RETURN_TO_PREVIOUS" -> x.trail[Len(x.trail)]
    [] OTHER                         -> Null

FiredMove(a, x) == a.effects[CHOOSE i \in FiredOf(StageTypes, a, x) : TRUE]

\* Mutant of toStageKey: a closed file is marked and stays where it is.
toStageKeyUnlessClosed(stage, a, x) ==
  IF FiredOf(StageTypes \ {"CLOSE_APPLICATION"}, a, x) = {} THEN stage
  ELSE MoveTarget(FiredMove(a, x), x)

toStageKey(stage, a, x) ==
  IF FiredOf(StageTypes, a, x) = {} THEN stage ELSE MoveTarget(FiredMove(a, x), x)

\* Mutant of trailAfter: going back leaves the stage gone back to on the trail.
trailAfterKept(stage, a, x) ==
  IF FiredOf(AdvanceTypes, a, x) # {} THEN Append(x.trail, stage) ELSE x.trail

trailAfter(stage, a, x) ==
  CASE FiredOf(AdvanceTypes, a, x) # {}           -> Append(x.trail, stage)
    [] FiredOf({"RETURN_TO_PREVIOUS"}, a, x) # {} -> SubSeq(x.trail, 1, Len(x.trail) - 1)
    [] OTHER                                      -> x.trail

FlagsNamed(types, a, x) == {a.effects[i].flag : i \in FiredOf(types, a, x)}

requestsRevision(a, x) == FiredOf(RevisionTypes, a, x) # {}

\* Leaving a stage takes its presence flags along and arriving adds the next
\* stage's; a flag both added and removed ends up removed.
FlagsRemoved(p, stage, a, x) ==
  FlagsNamed({"REMOVE_STATUS"}, a, x)
    \cup (IF toStageKey(stage, a, x) # stage THEN p.presence[stage] ELSE {})

FlagsAdded(p, stage, a, x) ==
  LET to == toStageKey(stage, a, x)
  IN  (FlagsNamed({"ADD_STATUS"} \cup EndTypes \cup RevisionTypes, a, x)
         \cup (IF to \notin {stage, Null} THEN p.presence[to] ELSE {}))
        \ FlagsRemoved(p, stage, a, x)

flagsAfter(p, stage, a, x) ==
  (x.flags \ FlagsRemoved(p, stage, a, x)) \cup FlagsAdded(p, stage, a, x)

\* Object.assign over the fired fragments: the last one to name a key wins.
\* An input left empty records nothing.
RecordedBy(key, a, x) ==
  {i \in FiredOf({"SET_RECORDED_VALUE"}, a, x) :
      a.effects[i].target = key /\ x.inputs[a.effects[i].input] # Null}

recordedAfter(p, a, x) ==
  [key \in p.recorded |->
     LET setters == RecordedBy(key, a, x)
     IN  IF setters = {} THEN x.recorded[key]
         ELSE x.inputs[a.effects[CHOOSE i \in setters : \A j \in setters : j <= i].input]]

-----------------------------------------------------------------------------
(* What publishing a document checks: pipelineProblems(p) is empty.        *)

OrdinaryFlags(p) == p.flags \ (p.terminal \cup p.editing)

EffectValid(p, stage, a, e) ==
  /\ e.type \in EffectTypes
  /\ e.type \in FlagTypes => e.flag \in p.flags
  /\ e.type = "ADD_STATUS" => e.flag \in OrdinaryFlags(p)
  /\ e.type = "REMOVE_STATUS" => e.flag \notin p.editing
  /\ e.type = "REQUEST_REVISION" => e.flag \in p.editing \ p.terminal
  /\ e.type \in EndTypes => e.flag \in p.terminal
  /\ e.type = "RETURN_TO_PREVIOUS" => stage # p.initial
  /\ e.type = "MOVE_TO_STAGE" => e.target \in p.stages \ {stage}
  /\ e.type = "MOVE_BY_CHOICE" =>
       /\ e.input \in DOMAIN a.inputs
       /\ DOMAIN e.routes = a.inputs[e.input] \ {Null}
       /\ \A option \in DOMAIN e.routes : e.routes[option] \in p.stages \ {stage}
  /\ e.type = "SET_RECORDED_VALUE" => e.input \in DOMAIN a.inputs /\ e.target \in p.recorded

EffectsOf(types, a) == {i \in DOMAIN a.effects : a.effects[i].type \in types}

actionValid(p, stage, a) ==
  /\ a.effects # <<>>
  /\ \A i \in DOMAIN a.effects : EffectValid(p, stage, a, a.effects[i])
  /\ \A i, j \in EffectsOf(StageTypes, a) : i = j
  /\ \A i, j \in EffectsOf(RevisionTypes, a) : i = j
  /\ EffectsOf(StageTypes, a) = {} \/ EffectsOf(RevisionTypes, a) = {}
  /\ permissionsFor(p, a) # {}

EffectTargets(e) ==
  CASE e.type = "MOVE_TO_STAGE"  -> {e.target}
    [] e.type = "MOVE_BY_CHOICE" -> {e.routes[option] : option \in DOMAIN e.routes}
    [] OTHER                     -> {}

moveTargets(p, stage) ==
  UNION {UNION {EffectTargets(a.effects[i]) : i \in DOMAIN a.effects} : a \in p.actions[stage]}

\* Every stage is reached: no proper part of the pipeline holds the initial
\* stage and is closed under the configured moves.
everyStageReachable(p) ==
  \A reached \in SUBSET p.stages :
    (p.initial \in reached /\ \A s \in reached : moveTargets(p, s) \subseteq reached)
      => reached = p.stages

\* A journey: stages from where files enter, each a configured move from the last.
IsJourney(p, stages) ==
  /\ stages[1] = p.initial
  /\ \A i \in 1..(Len(stages) - 1) : stages[i + 1] \in moveTargets(p, stages[i])

pipelineValid(p) ==
  /\ p.initial \in p.stages
  /\ Null \notin p.stages
  /\ p.terminal \subseteq p.flags /\ p.editing \subseteq p.flags
  /\ p.onSubmit \subseteq OrdinaryFlags(p)
  /\ \A s \in p.stages :
       /\ p.presence[s] \subseteq OrdinaryFlags(p)
       /\ \A a \in p.actions[s] : actionValid(p, s, a)
       /\ \E a \in p.actions[s] : EffectsOf(StageTypes, a) # {}
  /\ everyStageReachable(p)
  /\ \E s \in p.stages : \E a \in p.actions[s] : EffectsOf(EndTypes, a) # {}

\* What it does not check: an action that ends a journey may also remove the flag
\* it ends it with, and removal wins.
KeepsItsEnding(a) ==
  \A i \in EffectsOf(EndTypes, a), j \in EffectsOf({"REMOVE_STATUS"}, a) :
    a.effects[i].flag # a.effects[j].flag

=============================================================================
