----------------------------- MODULE FormEngine -----------------------------
(***************************************************************************)
(* The form engine (src/services/application/form): which questions of a   *)
(* cycle's form are asked, which answers a save keeps, and when a set of   *)
(* answers may be submitted.                                               *)
(*                                                                         *)
(* A resolved template t is a record                                       *)
(*   stages      the sections of the form                                  *)
(*   order       its questions, every one after those it depends on        *)
(*   fields      [questions -> field]                                      *)
(*   requested   the question bound to the requested amount, or Null       *)
(*   rules       the cross-field rules                                     *)
(* and a field is a record                                                 *)
(*   stage         the section it is in                                    *)
(*   choices       the answers a save accepts (type and declared bounds)   *)
(*   enough        those a submission accepts, Null among them when the    *)
(*                 question may be left: an attestation wants its tick, a  *)
(*                 role-bound amount more than zero, a choice its minimum  *)
(*   requirement   "REQUIRED" | "OPTIONAL" | "CONDITIONAL"                 *)
(*   visibleWhen, requiredWhen   its conditions of each effect: a set of   *)
(*                 alternative groups of comparisons that must all hold,   *)
(*                 each with its source and the answers it accepts.        *)
(* A yes reads 1 and a no 0.                                               *)
(***************************************************************************)
EXTENDS Integers, Sequences

LOCAL F == INSTANCE Functions

CONSTANT Null   \* SQL's NULL and JavaScript's undefined: no value

-----------------------------------------------------------------------------
Fields(t) == DOMAIN t.fields

\* The sets of answers normalizeAnswers lets through: the whole form, every
\* key present, each answer of its question's type and within its bounds.
AnswerMaps(t) ==
  {answers \in [Fields(t) -> (UNION {t.fields[k].choices : k \in Fields(t)}) \cup {Null}] :
     \A k \in Fields(t) : answers[k] \in t.fields[k].choices \cup {Null}}

\* Rule 1: conditions sharing a group must all hold, groups are alternatives.
holdsGroups(groups, read) ==
  \E group \in groups : \A c \in group : read[c.source] \in c.accepts

\* Rule 3: the answer to a question that is not asked reads as unanswered.
readVisible(answers, visible) ==
  [k \in DOMAIN answers |-> IF k \in visible THEN answers[k] ELSE Null]

isVisible(t, k, read) ==
  t.fields[k].visibleWhen = {} \/ holdsGroups(t.fields[k].visibleWhen, read)

\* One walk down the evaluation order.
visibleFields(t, answers) ==
  LET walk[i \in 0..Len(t.order)] ==
        IF i = 0 THEN {}
        ELSE LET decided == walk[i - 1]
             IN  IF isVisible(t, t.order[i], readVisible(answers, decided))
                 THEN decided \cup {t.order[i]} ELSE decided
  IN  walk[Len(t.order)]

isRequiredWhenVisible(t, k, read) ==
  \/ t.fields[k].requirement = "REQUIRED"
  \/ /\ t.fields[k].requirement = "CONDITIONAL"
     /\ holdsGroups(t.fields[k].requiredWhen, read)

-----------------------------------------------------------------------------
(* answers.ts                                                              *)

clearHidden(t, answers) == readVisible(answers, visibleFields(t, answers))

\* Mutant of pruneHidden: one pass that reads the answers it is clearing.
pruneHiddenAsRead(t, answers) ==
  [k \in DOMAIN answers |-> IF isVisible(t, k, answers) THEN answers[k] ELSE Null]

\* As many passes as the form has questions, and one; a pass that clears
\* nothing is the last the code makes, and changes nothing if made again.
pruneHidden(t, answers) ==
  LET passes[n \in 0..(Len(t.order) + 1)] ==
        IF n = 0 THEN answers ELSE clearHidden(t, passes[n - 1])
  IN  passes[Len(t.order) + 1]

changedStageKeys(t, previous, next) ==
  {t.fields[k].stage : k \in {f \in Fields(t) : previous[f] # next[f]}}

-----------------------------------------------------------------------------
(* The rules over several answers.  One that reads no question asked of    *)
(* this applicant refuses nothing.                                         *)

formRuleHolds(rule, answers, visible) ==
  LET asked == {i \in DOMAIN rule.operands : rule.operands[i] \in visible}
      given == {i \in asked : answers[rule.operands[i]] # Null}
      value == [i \in given |-> answers[rule.operands[i]]]
  IN  CASE rule.type = "AT_LEAST_ONE_TRUE" -> asked = {} \/ \E i \in given : value[i] = 1
        [] rule.type = "DIFFERENT_VALUES"  -> \A i, j \in given : value[i] = value[j] => i = j
        [] rule.type = "AT_MOST_FIELD"     -> given = {1, 2} => value[1] <= value[2]
        [] rule.type = "SUM_AT_MOST"       ->
               rule.limit # Null => F!SumFunctionOnSet(value, given) <= rule.limit

\* validateAnswersForSubmission: every question asked is answered well enough,
\* none that is not asked is answered, the requested amount is within what one
\* application may be given, and the cross-field rules hold.
validForSubmission(t, ceiling, answers) ==
  LET visible == visibleFields(t, answers)
      read    == readVisible(answers, visible)
  IN  /\ \A k \in visible :
           /\ isRequiredWhenVisible(t, k, read) => answers[k] # Null
           /\ answers[k] \in t.fields[k].enough
      /\ \A k \in Fields(t) \ visible : answers[k] = Null
      /\ (t.requested # Null /\ ceiling # Null) =>
           answers[t.requested] = Null \/ answers[t.requested] <= ceiling
      /\ \A rule \in t.rules : formRuleHolds(rule, answers, visible)

-----------------------------------------------------------------------------
\* What resolveFormTemplate refuses: a question of no section, a condition or
\* a rule on a question that is not there, and an order in which a question
\* comes before one it depends on.
Sources(field) == {c.source : c \in UNION (field.visibleWhen \cup field.requiredWhen)}

templateValid(t) ==
  /\ t.order \in Seq(Fields(t))
  /\ \A k \in Fields(t) : \E i \in DOMAIN t.order : t.order[i] = k
  /\ \A i, j \in DOMAIN t.order : t.order[i] = t.order[j] => i = j
  /\ \A i \in DOMAIN t.order : \A k \in Sources(t.fields[t.order[i]]) :
       \E j \in 1..(i - 1) : t.order[j] = k
  /\ \A k \in Fields(t) : t.fields[k].stage \in t.stages
  /\ t.requested \in Fields(t) \cup {Null}
  /\ \A rule \in t.rules : \A i \in DOMAIN rule.operands : rule.operands[i] \in Fields(t)

=============================================================================
