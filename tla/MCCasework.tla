----------------------------- MODULE MCCasework -----------------------------
(***************************************************************************)
(* Small pipelines, forms and staff for model-checking Casework.           *)
(***************************************************************************)
EXTENDS CaseworkRefinement, AtomicCasework, TLC

Always == {}
FlagIs(flag, held) ==
  {{[source |-> "STATUS_FLAG", key |-> flag, accepts |-> IF held THEN {1} ELSE {Null}]}}

Effect(type)        == [type |-> type, when |-> Always]
OnFlag(type, flag)  == [type |-> type, flag |-> flag, when |-> Always]
MoveTo(stage)       == [type |-> "MOVE_TO_STAGE", target |-> stage, when |-> Always]

NoInputs == [k \in {} |-> {}]
Action(key, available, inputs, effects) ==
  [key |-> key, availableWhen |-> available, inputs |-> inputs, effects |-> effects]

\* The shipped example, cut to one bank and with the checks of TTC folded into
\* the stage where Industries and Commerce approves the grant and routes on.
ExamplePipeline ==
  [stages |-> {"IC", "BANK"}, initial |-> "IC",
   flags |-> {"IN_REVIEW", "REVISION_REQUIRED", "GRANT_APPROVED", "BANKING", "COMPLETED", "REJECTED"},
   onSubmit |-> {"IN_REVIEW"}, terminal |-> {"COMPLETED", "REJECTED"},
   editing |-> {"REVISION_REQUIRED"}, outcome |-> {"GRANT_APPROVED", "COMPLETED", "REJECTED"},
   presence |-> [IC |-> {}, BANK |-> {"BANKING"}],
   recorded |-> {"GRANT"},
   actions |->
    [IC   |-> {Action("ASK_REVISION", Always, NoInputs,
                 <<OnFlag("REQUEST_REVISION", "REVISION_REQUIRED"), Effect("NOTIFY_APPLICANT")>>),
               Action("APPROVE", FlagIs("GRANT_APPROVED", FALSE), [AMOUNT |-> {1}],
                 <<OnFlag("ADD_STATUS", "GRANT_APPROVED"),
                   [type |-> "SET_RECORDED_VALUE", input |-> "AMOUNT", target |-> "GRANT",
                    atMostAnswer |-> "GRANT", atMostCycleCeiling |-> TRUE, when |-> Always]>>),
               Action("TO_BANK", Always, [BANK |-> {1}],
                 <<[type |-> "MOVE_BY_CHOICE", input |-> "BANK", routes |-> <<"BANK">>,
                    when |-> Always]>>),
               Action("COMPLETE", FlagIs("GRANT_APPROVED", TRUE), NoInputs,
                 <<OnFlag("COMPLETE_PIPELINE", "COMPLETED"), OnFlag("REMOVE_STATUS", "IN_REVIEW")>>),
               Action("REJECT", Always, NoInputs,
                 <<OnFlag("CLOSE_APPLICATION", "REJECTED"), OnFlag("REMOVE_STATUS", "IN_REVIEW")>>)},
     BANK |-> {Action("SEND_BACK", Always, NoInputs,
                 <<Effect("RETURN_TO_PREVIOUS"), Effect("ADD_INTERNAL_NOTE")>>),
               Action("FULFIL", Always, NoInputs, <<OnFlag("COMPLETE_PIPELINE", "COMPLETED")>>)}]]

\* Two stages that pass a file round in a ring by moves, each asking for
\* corrections; the second asks only while its presence flag is held.
RingPipeline ==
  [stages |-> {"S1", "S2"}, initial |-> "S1",
   flags |-> {"FIX", "HERE", "DONE"}, onSubmit |-> {}, terminal |-> {"DONE"},
   editing |-> {"FIX"}, outcome |-> {"DONE"},
   presence |-> [S1 |-> {}, S2 |-> {"HERE"}], recorded |-> {},
   actions |->
    [S1 |-> {Action("FIX", Always, NoInputs, <<OnFlag("REQUEST_REVISION", "FIX")>>),
             Action("ON", Always, NoInputs, <<MoveTo("S2")>>)},
     S2 |-> {Action("FIX", FlagIs("HERE", TRUE), NoInputs, <<OnFlag("REQUEST_REVISION", "FIX")>>),
             Action("ROUND", Always, NoInputs, <<MoveTo("S1")>>),
             Action("BACK", Always, NoInputs, <<Effect("RETURN_TO_PREVIOUS")>>),
             Action("END", Always, NoInputs, <<OnFlag("CLOSE_APPLICATION", "DONE")>>)}]]

\* One stage, with the two endings that publishing lets through: one that its
\* action takes back, and one that is also a flag that unlocks the form.
BluntPipeline ==
  [stages |-> {"S1"}, initial |-> "S1",
   flags |-> {"FIX", "DONE", "VOID"}, onSubmit |-> {}, terminal |-> {"DONE", "VOID"},
   editing |-> {"FIX", "VOID"}, outcome |-> {"DONE"},
   presence |-> [S1 |-> {}], recorded |-> {},
   actions |->
    [S1 |-> {Action("FIX", Always, NoInputs, <<OnFlag("REQUEST_REVISION", "FIX")>>),
             Action("END", Always, NoInputs,
               <<OnFlag("COMPLETE_PIPELINE", "DONE"), OnFlag("REMOVE_STATUS", "DONE")>>),
             Action("VOID", Always, NoInputs, <<OnFlag("CLOSE_APPLICATION", "VOID")>>)}]]

AllPermissions == {"stage:advance", "stage:return", "stage:request_revision", "stage:decide",
                   "stage:close", "application:note"}

RingOnly    == {RingPipeline}
AnyPipeline == {RingPipeline, BluntPipeline, ExamplePipeline}

OnAnswer(key, accepted) == {{[source |-> key, accepts |-> accepted]}}

Question(stage, choices, requirement, visibleWhen) ==
  [stage |-> stage, choices |-> choices, enough |-> choices \cup {Null},
   requirement |-> requirement, visibleWhen |-> visibleWhen, requiredWhen |-> Always]

\* Whether a grant is applied for, the amount asked of whoever does and, in the
\* other section, what it is for: each asked only because of the one before.
GrantForm ==
  [stages |-> {"FUNDING", "PLAN"}, order |-> <<"APPLIES", "GRANT", "PURPOSE">>,
   fields |->
    [APPLIES     |-> Question("FUNDING", {1}, "OPTIONAL", Always),
     GRANT       |-> [Question("FUNDING", {1}, "REQUIRED", OnAnswer("APPLIES", {1}))
                        EXCEPT !.enough = {1}],
     PURPOSE     |-> [Question("PLAN", {1}, "CONDITIONAL", OnAnswer("GRANT", {1}))
                        EXCEPT !.requiredWhen = OnAnswer("GRANT", {1})]],
   requested |-> "GRANT", rules |-> {}]

\* Two sections that do not depend on each other; in the first, an amount only
\* asked of whoever wants a loan.  What is asked for adds up to three at most.
LoanForm ==
  [stages |-> {"FUNDING", "TEAM"}, order |-> <<"WANTS_LOAN", "WAGES", "LOAN">>,
   fields |-> [WANTS_LOAN |-> Question("FUNDING", {0, 1}, "REQUIRED", Always),
               LOAN       |-> Question("FUNDING", {2}, "REQUIRED", OnAnswer("WANTS_LOAN", {1})),
               WAGES      |-> Question("TEAM", {1, 2}, "REQUIRED", Always)],
   requested |-> Null,
   rules |-> {[type |-> "SUM_AT_MOST", operands |-> <<"LOAN", "WAGES">>, limit |-> 3]}]

AllStages  == {"IC", "BANK", "S1", "S2"}
EveryStage == [o \in Officers |-> AllStages]
EveryPower == [o \in Officers |-> AllPermissions]

\* Officers hold the same stages and powers, and tabs have none.
Alike == Permutations(Officers) \cup Permutations(Tabs)

=============================================================================
