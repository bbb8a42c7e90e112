---------------------------- MODULE EngineProofs ----------------------------
(***************************************************************************)
(* What the two engines compute, for every valid template and pipeline:    *)
(* the lemmas that CaseworkProofs builds on.  None of them is about a run  *)
(* of the system.  Those about the form engine say which answers a save    *)
(* keeps; those about the pipeline engine say what planAction returns for  *)
(* one file and one action of the stage the file is at.                    *)
(***************************************************************************)
EXTENDS PipelineEngine, SequenceTheorems, WellFoundedInduction, TLAPS

-----------------------------------------------------------------------------
(* The form engine                                                         *)

\* A set of naturals that is not empty has a least element.
LEMMA LeastNatural ==
  ASSUME NEW T \in SUBSET Nat, T # {}
  PROVE  \E n \in T : \A m \in T : n <= m
<1>1. PICK n \in T : \A m \in T : ~(<<m, n>> \in OpToRel(<, Nat))
  BY NatLessThanWellFounded, WFMin
<1>2. \A m \in T : ~(m < n)
  BY <1>1 DEF OpToRel
<1>3. QED BY <1>2

\* One step of the walk of visibleFields: question i of the order.
walkStep(t, answers, i, decided) ==
  IF isVisible(t, t.order[i], readVisible(answers, decided))
  THEN decided \cup {t.order[i]} ELSE decided

\* The function that visibleFields chooses, down to question n.
IsWalk(t, answers, n, walk) ==
  walk = [i \in 0..n |-> IF i = 0 THEN {} ELSE walkStep(t, answers, i, walk[i - 1])]

\* There is such a function: recursion on the naturals, which the provers do
\* not assume.
LEMMA WalkExists ==
  ASSUME NEW t, NEW answers, NEW n \in Nat
  PROVE  \E walk : IsWalk(t, answers, n, walk)
<1> DEFINE T == {m \in Nat : ~\E walk : IsWalk(t, answers, m, walk)}
<1> SUFFICES ASSUME T # {} PROVE FALSE
  OBVIOUS
<1>1. PICK m \in T : \A k \in T : m <= k
  BY LeastNatural
<1>2. m # 0
  <2>1. IsWalk(t, answers, 0, [i \in 0..0 |-> {}])
    BY DEF IsWalk
  <2>2. QED BY <2>1
<1>3. m - 1 \in Nat /\ m - 1 \notin T
  BY <1>1, <1>2
<1>4. PICK g : IsWalk(t, answers, m - 1, g)
  BY <1>3
<1> DEFINE h == [i \in 0..m |-> IF i = m THEN walkStep(t, answers, m, g[m - 1]) ELSE g[i]]
<1>5. IsWalk(t, answers, m, h)
  <2>1. DOMAIN g = 0..(m - 1)
        /\ \A i \in 0..(m - 1) : g[i] = IF i = 0 THEN {} ELSE walkStep(t, answers, i, g[i - 1])
    BY <1>4, <1>3 DEF IsWalk
  <2>2. ASSUME NEW i \in 0..m
        PROVE  h[i] = IF i = 0 THEN {} ELSE walkStep(t, answers, i, h[i - 1])
    <3>1. CASE i = m
      <4>1. m - 1 \in 0..m /\ m - 1 # m
        BY <1>2, <1>3
      <4>2. h[m - 1] = g[m - 1]
        BY <4>1
      <4>3. QED BY <3>1, <4>2, <1>2
    <3>2. CASE i = 0
      BY <3>2, <2>1, <1>2, <1>3
    <3>3. CASE i # m /\ i # 0
      <4>1. i \in 0..(m - 1) /\ i - 1 \in 0..m /\ i - 1 # m
        BY <3>3
      <4>2. h[i] = g[i] /\ h[i - 1] = g[i - 1]
        BY <4>1, <3>3
      <4>3. g[i] = walkStep(t, answers, i, g[i - 1])
        BY <4>1, <2>1, <3>3
      <4>4. QED BY <4>2, <4>3, <3>3
    <3>4. QED BY <3>1, <3>2, <3>3
  <2>3. h = [i \in 0..m |-> IF i = 0 THEN {} ELSE walkStep(t, answers, i, h[i - 1])]
    BY <2>2
  <2>4. QED BY <2>3 DEF IsWalk
<1>6. QED BY <1>1, <1>5

\* What every proof below uses of the walk.
Walked(t, answers, walk) ==
  /\ visibleFields(t, answers) = walk[Len(t.order)]
  /\ walk[0] = {}
  /\ \A i \in 1..Len(t.order) : walk[i] = walkStep(t, answers, i, walk[i - 1])

\* The definition, read at each place.
LEMMA WalkUnfolds ==
  ASSUME NEW t, NEW answers, NEW n \in Nat, n = Len(t.order),
         NEW walk, IsWalk(t, answers, n, walk), visibleFields(t, answers) = walk[n]
  PROVE  Walked(t, answers, walk)
<1> DEFINE e(i) == IF i = 0 THEN {} ELSE walkStep(t, answers, i, walk[i - 1])
<1>1. walk = [i \in 0..n |-> e(i)]
  BY DEF IsWalk
<1> HIDE DEF e
<1>2. \A i \in 0..n : walk[i] = e(i)
  BY <1>1
<1>3. QED BY <1>2 DEF e, Walked

\* What the walk of visibleFields is.
LEMMA WalkOf ==
  ASSUME NEW t, NEW answers, Len(t.order) \in Nat
  PROVE  \E walk : Walked(t, answers, walk)
<1> DEFINE n == Len(t.order)
           W == CHOOSE walk : IsWalk(t, answers, n, walk)
<1>1. IsWalk(t, answers, n, W)
  BY WalkExists
<1>2. visibleFields(t, answers) = W[n]
  BY DEF visibleFields, IsWalk, walkStep
<1>3. n \in Nat /\ n = Len(t.order)
  OBVIOUS
<1> HIDE DEF n, W
<1>4. Walked(t, answers, W)
  BY <1>1, <1>2, <1>3, WalkUnfolds
<1>5. QED BY <1>4

\* A question once decided visible stays so.
LEMMA WalkGrows ==
  ASSUME NEW t, NEW answers, Len(t.order) \in Nat, NEW walk, Walked(t, answers, walk),
         NEW i \in 0..Len(t.order), NEW n \in i..Len(t.order)
  PROVE  walk[i] \subseteq walk[n]
<1> DEFINE T == {j \in Nat : j \in i..n /\ ~(walk[i] \subseteq walk[j])}
<1>1. T = {}
  <2> SUFFICES ASSUME T # {} PROVE FALSE
    OBVIOUS
  <2>1. PICK m \in T : \A j \in T : m <= j
    BY LeastNatural
  <2>2. m # i
    OBVIOUS
  <2>3. m - 1 \in i..n /\ m \in 1..Len(t.order) /\ m - 1 \in Nat
    BY <2>2
  <2>4. walk[i] \subseteq walk[m - 1]
    BY <2>1, <2>3
  <2>5. walk[m - 1] \subseteq walk[m]
    BY <2>3 DEF walkStep, Walked
  <2>6. QED BY <2>4, <2>5
<1>2. QED BY <1>1

\* A question that ends visible became so at its own place in the order.
LEMMA BecameVisible ==
  ASSUME NEW t, NEW answers, Len(t.order) \in Nat, NEW walk, Walked(t, answers, walk),
         NEW k \in visibleFields(t, answers)
  PROVE  \E m \in 1..Len(t.order) :
           /\ t.order[m] = k /\ k \in walk[m]
           /\ isVisible(t, k, readVisible(answers, walk[m - 1]))
<1> DEFINE N == Len(t.order)
           T == {j \in Nat : j \in 0..N /\ k \in walk[j]}
<1>1. N \in T
  BY DEF Walked
<1>2. PICK m \in T : \A j \in T : m <= j
  BY <1>1, LeastNatural
<1>3. m # 0
  BY DEF Walked
<1>4. m \in 1..N /\ m - 1 \in Nat /\ m - 1 \in 0..N
  BY <1>3
<1>5. k \in walk[m] /\ k \notin walk[m - 1]
  BY <1>2, <1>4
<1>6. walk[m] = walkStep(t, answers, m, walk[m - 1])
  BY <1>4 DEF Walked
<1>7. t.order[m] = k /\ isVisible(t, k, readVisible(answers, walk[m - 1]))
  BY <1>5, <1>6 DEF walkStep
<1>8. QED BY <1>4, <1>5, <1>7

\* Clearing what is not asked changes nothing of what is asked.
THEOREM ClearingKeepsVisible ==
  ASSUME NEW t, NEW answers, Len(t.order) \in Nat
  PROVE  visibleFields(t, clearHidden(t, answers)) = visibleFields(t, answers)
<1> DEFINE N == Len(t.order)
           kept == clearHidden(t, answers)
           asked == visibleFields(t, answers)
<1>1. PICK a : Walked(t, answers, a)
  BY WalkOf
<1>2. PICK b : Walked(t, kept, b)
  BY WalkOf
<1>3. ASSUME NEW D, D \subseteq asked PROVE readVisible(kept, D) = readVisible(answers, D)
  BY <1>3 DEF readVisible, clearHidden
<1> DEFINE T == {i \in Nat : i \in 0..N /\ a[i] # b[i]}
<1>4. T = {}
  <2> SUFFICES ASSUME T # {} PROVE FALSE
    OBVIOUS
  <2>1. PICK m \in T : \A i \in T : m <= i
    BY LeastNatural
  <2>2. m # 0
    BY <1>1, <1>2 DEF Walked
  <2>3. m \in 1..N /\ m - 1 \in 0..N /\ m - 1 \in Nat
    BY <2>2
  <2>4. a[m - 1] = b[m - 1]
    BY <2>1, <2>3
  <2>5. a[m - 1] \subseteq asked
    <3>1. N \in (m - 1)..N
      BY <2>3
    <3>2. a[m - 1] \subseteq a[N]
      BY <1>1, <2>3, <3>1, WalkGrows
    <3>3. QED BY <1>1, <3>2 DEF Walked
  <2>6. walkStep(t, kept, m, a[m - 1]) = walkStep(t, answers, m, a[m - 1])
    BY <2>5, <1>3 DEF walkStep
  <2>7. QED BY <1>1, <1>2, <2>3, <2>4, <2>6 DEF Walked
<1>5. a[N] = b[N]
  BY <1>4
<1>6. QED BY <1>1, <1>2, <1>5 DEF Walked

\* A pass over what a pass has cleared clears nothing.
LEMMA ClearingSettles ==
  ASSUME NEW t, NEW answers, Len(t.order) \in Nat
  PROVE  clearHidden(t, clearHidden(t, answers)) = clearHidden(t, answers)
<1> DEFINE visible == visibleFields(t, answers)
<1>1. clearHidden(t, answers) = readVisible(answers, visible)
  BY DEF clearHidden
<1>2. clearHidden(t, clearHidden(t, answers)) = readVisible(readVisible(answers, visible), visible)
  BY <1>1, ClearingKeepsVisible DEF clearHidden
<1>3. QED BY <1>1, <1>2 DEF readVisible

\* The function that pruneHidden chooses.
IsPasses(t, answers, n, passes) ==
  passes = [i \in 0..n |-> IF i = 0 THEN answers ELSE clearHidden(t, passes[i - 1])]

\* The loop of pruneHidden, having made one pass and then none that changes anything.
LEMMA PassesExist ==
  ASSUME NEW t, NEW answers, Len(t.order) \in Nat, NEW n \in Nat
  PROVE  IsPasses(t, answers, n, [i \in 0..n |-> IF i = 0 THEN answers ELSE clearHidden(t, answers)])
<1> DEFINE kept == clearHidden(t, answers)
           g == [i \in 0..n |-> IF i = 0 THEN answers ELSE kept]
<1>1. clearHidden(t, kept) = kept
  BY ClearingSettles
<1> HIDE DEF kept
<1>2. ASSUME NEW i \in 0..n, i # 0
      PROVE  clearHidden(t, g[i - 1]) = IF i = 1 THEN clearHidden(t, answers) ELSE clearHidden(t, kept)
  BY <1>2
<1>3. \A i \in 0..n : g[i] = IF i = 0 THEN answers ELSE clearHidden(t, g[i - 1])
  BY <1>1, <1>2 DEF kept
<1>4. g = [i \in 0..n |-> IF i = 0 THEN answers ELSE clearHidden(t, g[i - 1])]
  BY <1>3
<1>5. QED BY <1>4 DEF IsPasses, kept

\* What the proof of OnePassIsEnough uses of the passes.
Passed(t, answers, n, passes) ==
  /\ passes[0] = answers
  /\ \A i \in 1..n : passes[i] = clearHidden(t, passes[i - 1])

\* The definition, read at each pass.
LEMMA PassesUnfold ==
  ASSUME NEW t, NEW answers, NEW n \in Nat, NEW passes, IsPasses(t, answers, n, passes)
  PROVE  Passed(t, answers, n, passes)
<1> DEFINE e(i) == IF i = 0 THEN answers ELSE clearHidden(t, passes[i - 1])
<1>1. passes = [i \in 0..n |-> e(i)]
  BY DEF IsPasses
<1> HIDE DEF e
<1>2. \A i \in 0..n : passes[i] = e(i)
  BY <1>1
<1>3. QED BY <1>2 DEF e, Passed

\* Every pass but the one before the first leaves what the first has left.
LEMMA PassesAgree ==
  ASSUME NEW t, NEW answers, Len(t.order) \in Nat, NEW n \in Nat, NEW passes,
         Passed(t, answers, n, passes), NEW i \in 1..n
  PROVE  passes[i] = clearHidden(t, answers)
<1> DEFINE kept == clearHidden(t, answers)
           T == {j \in Nat : j \in 1..n /\ passes[j] # kept}
<1>1. clearHidden(t, kept) = kept
  BY ClearingSettles
<1>2. T = {}
  <2> SUFFICES ASSUME T # {} PROVE FALSE
    OBVIOUS
  <2>1. PICK m \in T : \A j \in T : m <= j
    BY LeastNatural
  <2>2. m # 1
    BY DEF Passed
  <2>3. m - 1 \in Nat /\ m - 1 \in 1..n
    BY <2>2
  <2>4. passes[m - 1] = kept
    BY <2>1, <2>3
  <2> HIDE DEF kept
  <2>5. passes[m] = kept
    BY <1>1, <2>4 DEF Passed
  <2>6. QED BY <2>5
<1>3. QED BY <1>2

\* The loop of pruneHidden never needs its second pass, whatever the form and
\* however long its chain of questions that hide one another (answers.ts
\* 131-148, where the loop stays in case some effect breaks this).
THEOREM OnePassIsEnough ==
  ASSUME NEW t, NEW answers, Len(t.order) \in Nat
  PROVE  pruneHidden(t, answers) = clearHidden(t, answers)
<1> DEFINE n == Len(t.order) + 1
           W == CHOOSE passes : IsPasses(t, answers, n, passes)
<1>1. n \in Nat /\ n \in 1..n
  OBVIOUS
<1>2. IsPasses(t, answers, n, W)
  BY <1>1, PassesExist
<1>3. pruneHidden(t, answers) = W[n]
  BY DEF pruneHidden, IsPasses
<1> HIDE DEF n, W
<1>4. Passed(t, answers, n, W)
  BY <1>1, <1>2, PassesUnfold
<1>5. QED BY <1>1, <1>3, <1>4, PassesAgree

\* A save keeps no answer to a question that is not asked of what it keeps.
THEOREM NothingHiddenIsKept ==
  ASSUME NEW t, NEW answers \in AnswerMaps(t), Len(t.order) \in Nat,
         NEW k \in Fields(t), k \notin visibleFields(t, pruneHidden(t, answers))
  PROVE  pruneHidden(t, answers)[k] = Null
<1>1. k \notin visibleFields(t, answers)
  BY OnePassIsEnough, ClearingKeepsVisible
<1>2. QED BY <1>1, OnePassIsEnough DEF clearHidden, readVisible, AnswerMaps

\* What a save keeps of answers that normalizeAnswers lets through is again
\* such a map of answers.
LEMMA PruningKeepsType ==
  ASSUME NEW t, NEW answers \in AnswerMaps(t), Len(t.order) \in Nat
  PROVE  pruneHidden(t, answers) \in AnswerMaps(t)
<1> DEFINE choices(k) == t.fields[k].choices
           all == (UNION {choices(k) : k \in Fields(t)}) \cup {Null}
           kept == readVisible(answers, visibleFields(t, answers))
<1>1. pruneHidden(t, answers) = kept
  BY OnePassIsEnough DEF clearHidden
<1>2. answers \in [Fields(t) -> all] /\ \A k \in Fields(t) : answers[k] \in choices(k) \cup {Null}
  BY DEF AnswerMaps
<1> HIDE DEF all, choices
<1>3. DOMAIN answers = Fields(t)
  BY <1>2
<1>4. kept = [k \in Fields(t) |-> IF k \in visibleFields(t, answers) THEN answers[k] ELSE Null]
  BY <1>3 DEF readVisible
<1> HIDE DEF kept
<1>5. \A k \in Fields(t) : kept[k] \in all /\ kept[k] \in choices(k) \cup {Null}
  BY <1>2, <1>4 DEF all
<1>6. kept \in [Fields(t) -> all]
  BY <1>4, <1>5
<1>7. QED BY <1>1, <1>5, <1>6 DEF AnswerMaps, all, choices

\* When a question is decided, what it reads already has been.
LEMMA SourcesAreDecided ==
  ASSUME NEW t, templateValid(t), NEW answers, NEW walk, Walked(t, answers, walk),
         NEW m \in 1..Len(t.order), NEW q \in Sources(t.fields[t.order[m]])
  PROVE  /\ q \in Fields(t)
         /\ q \in walk[m - 1] <=> q \in visibleFields(t, answers)
<1>1. Len(t.order) \in Nat /\ DOMAIN t.order = 1..Len(t.order)
  BY DEF templateValid
<1>2. PICK j \in 1..(m - 1) : t.order[j] = q
  BY <1>1 DEF templateValid
<1>3. q \in Fields(t)
  BY <1>1, <1>2 DEF templateValid
<1>4. q \in walk[m - 1] => q \in visibleFields(t, answers)
  <2>1. m - 1 \in 0..Len(t.order) /\ Len(t.order) \in (m - 1)..Len(t.order)
    BY <1>1
  <2>2. walk[m - 1] \subseteq walk[Len(t.order)]
    BY <1>1, <2>1, WalkGrows
  <2>3. QED BY <2>2 DEF Walked
<1>5. ASSUME q \in visibleFields(t, answers) PROVE q \in walk[m - 1]
  <2>1. PICK i \in 1..Len(t.order) : t.order[i] = q /\ q \in walk[i]
    BY <1>1, <1>5, BecameVisible
  <2>2. i = j
    <3>1. i \in DOMAIN t.order /\ j \in DOMAIN t.order /\ t.order[i] = t.order[j]
      BY <1>1, <1>2, <2>1
    <3>2. QED BY <3>1 DEF templateValid
  <2>3. m - 1 \in i..Len(t.order) /\ i \in 0..Len(t.order)
    BY <1>1, <1>2, <2>2
  <2>4. walk[i] \subseteq walk[m - 1]
    BY <1>1, <2>3, WalkGrows
  <2>5. QED BY <2>1, <2>4
<1>6. QED BY <1>3, <1>4, <1>5

\* A condition reads its sources and nothing else.
LEMMA ConditionsReadSources ==
  ASSUME NEW t, NEW k, NEW read, NEW other,
         \A q \in Sources(t.fields[k]) : read[q] = other[q]
  PROVE  isVisible(t, k, read) <=> isVisible(t, k, other)
BY DEF isVisible, holdsGroups, Sources

\* What is asked is asked because of what is asked: the walk, which decides each
\* question once, ends where deciding again would change nothing.
LEMMA AskedExactlyWhenVisible ==
  ASSUME NEW t, templateValid(t), NEW answers \in AnswerMaps(t), NEW k \in Fields(t)
  PROVE  k \in visibleFields(t, answers)
           <=> isVisible(t, k, readVisible(answers, visibleFields(t, answers)))
<1> DEFINE asked == visibleFields(t, answers)
<1>1. Len(t.order) \in Nat /\ DOMAIN t.order = 1..Len(t.order) /\ DOMAIN answers = Fields(t)
  BY DEF templateValid, AnswerMaps
<1>2. PICK walk : Walked(t, answers, walk)
  BY <1>1, WalkOf
<1>3. PICK m \in 1..Len(t.order) : t.order[m] = k
  BY <1>1 DEF templateValid
<1>4. isVisible(t, k, readVisible(answers, walk[m - 1])) <=> isVisible(t, k, readVisible(answers, asked))
  <2>1. \A q \in Sources(t.fields[k]) :
          readVisible(answers, walk[m - 1])[q] = readVisible(answers, asked)[q]
    BY <1>1, <1>2, <1>3, SourcesAreDecided DEF readVisible
  <2> HIDE DEF asked
  <2>2. QED BY <2>1, ConditionsReadSources
<1>5. ASSUME k \in asked PROVE isVisible(t, k, readVisible(answers, walk[m - 1]))
  <2>1. PICK i \in 1..Len(t.order) :
          t.order[i] = k /\ isVisible(t, k, readVisible(answers, walk[i - 1]))
    BY <1>1, <1>2, <1>5, BecameVisible
  <2>2. i = m
    BY <1>1, <1>3, <2>1 DEF templateValid
  <2>3. QED BY <2>1, <2>2
<1>6. ASSUME isVisible(t, k, readVisible(answers, walk[m - 1])) PROVE k \in asked
  <2>1. k \in walk[m]
    BY <1>2, <1>3, <1>6 DEF Walked, walkStep
  <2>2. m \in 0..Len(t.order) /\ Len(t.order) \in m..Len(t.order)
    BY <1>1
  <2>3. walk[m] \subseteq walk[Len(t.order)]
    BY <1>1, <1>2, <2>2, WalkGrows
  <2>4. QED BY <1>2, <2>1, <2>3 DEF Walked
<1>7. QED BY <1>4, <1>5, <1>6

\* conditions.ts states its rules because "two implementations guess differently
\* -- the server's and the client's". Rules 1 and 3 leave nothing to guess: only
\* one set of questions has each in it exactly when its conditions hold, those on
\* questions outside it reading as unanswered, whatever walk finds it and in
\* whichever evaluation order the template lists them.
THEOREM VisibilityIsDetermined ==
  ASSUME NEW t, templateValid(t), NEW answers \in AnswerMaps(t), NEW V \in SUBSET Fields(t)
  PROVE  V = visibleFields(t, answers)
           <=> \A k \in Fields(t) : k \in V <=> isVisible(t, k, readVisible(answers, V))
<1> DEFINE asked == visibleFields(t, answers)
           Agree(k) == k \in V <=> k \in asked
<1>1. Len(t.order) \in Nat /\ DOMAIN t.order = 1..Len(t.order) /\ DOMAIN answers = Fields(t)
  BY DEF templateValid, AnswerMaps
<1>2. asked \subseteq Fields(t)
  <2>1. PICK walk : Walked(t, answers, walk)
    BY <1>1, WalkOf
  <2>2. ASSUME NEW k \in asked PROVE k \in Fields(t)
    <3>1. PICK i \in 1..Len(t.order) : t.order[i] = k
      BY <1>1, <2>1, <2>2, BecameVisible
    <3>2. QED BY <1>1, <3>1 DEF templateValid
  <2>3. QED BY <2>2
<1>3. ASSUME \A k \in Fields(t) : k \in V <=> isVisible(t, k, readVisible(answers, V))
      PROVE  \A k \in Fields(t) : Agree(k)
  <2> DEFINE T == {i \in Nat : i \in 1..Len(t.order) /\ ~Agree(t.order[i])}
  <2>1. ASSUME T # {} PROVE FALSE
    <3>1. PICK m \in T : \A i \in T : m <= i
      BY <2>1, LeastNatural
    <3>2. m \in 1..Len(t.order) /\ t.order[m] \in Fields(t) /\ ~Agree(t.order[m])
      BY <1>1, <3>1 DEF templateValid
    <3> DEFINE k == t.order[m]
    <3>3. ASSUME NEW q \in Sources(t.fields[k])
          PROVE  readVisible(answers, V)[q] = readVisible(answers, asked)[q]
      <4>1. PICK j \in 1..(m - 1) : t.order[j] = q
        BY <1>1, <3>2, <3>3 DEF templateValid
      <4>2. j \in Nat /\ j \in 1..Len(t.order) /\ ~(m <= j)
        BY <1>1, <3>2, <4>1
      <4>3. Agree(q)
        BY <3>1, <4>1, <4>2
      <4>4. q \in DOMAIN answers
        BY <1>1, <4>1, <4>2 DEF templateValid
      <4> HIDE DEF asked
      <4>5. QED BY <4>3, <4>4 DEF readVisible
    <3> HIDE DEF asked
    <3>4. isVisible(t, k, readVisible(answers, V)) <=> isVisible(t, k, readVisible(answers, asked))
      BY <3>3, ConditionsReadSources
    <3>5. QED BY <1>3, <3>2, <3>4, AskedExactlyWhenVisible DEF asked
  <2>2. ASSUME NEW k \in Fields(t) PROVE Agree(k)
    <3>1. PICK i \in 1..Len(t.order) : t.order[i] = k
      BY <1>1 DEF templateValid
    <3>2. QED BY <1>1, <2>1, <3>1
  <2>3. QED BY <2>2
<1>4. ASSUME V = asked
      PROVE  \A k \in Fields(t) : k \in V <=> isVisible(t, k, readVisible(answers, V))
  BY <1>4, AskedExactlyWhenVisible
<1>5. QED BY <1>2, <1>3, <1>4

\* An answer a save keeps is to a question whose conditions hold of the
\* answers kept beside it, with nothing left to hide.
THEOREM KeptIsAsked ==
  ASSUME NEW t, templateValid(t), NEW answers \in AnswerMaps(t),
         NEW k \in Fields(t), pruneHidden(t, answers)[k] # Null
  PROVE  isVisible(t, k, pruneHidden(t, answers))
<1>1. Len(t.order) \in Nat
  BY DEF templateValid
<1>2. pruneHidden(t, answers) = readVisible(answers, visibleFields(t, answers))
  BY <1>1, OnePassIsEnough DEF clearHidden
<1>3. k \in visibleFields(t, answers)
  BY <1>1, NothingHiddenIsKept, OnePassIsEnough, ClearingKeepsVisible
<1>4. QED BY <1>2, <1>3, AskedExactlyWhenVisible

-----------------------------------------------------------------------------
(* The pipeline engine                                                     *)

\* An accepted plan: action a of a stage of the valid pipeline p, on scope x.
Accepted(p, stage, a, x) ==
  /\ pipelineValid(p)
  /\ stage \in p.stages /\ a \in p.actions[stage]
  /\ x.trail \in Seq(p.stages) /\ x.flags \subseteq p.flags
  /\ ~planRefused(a, x)

-----------------------------------------------------------------------------
\* Every effect of an action of a valid pipeline is a valid effect.
LEMMA EffectsAreValid ==
  ASSUME NEW p, NEW stage \in p.stages, NEW a \in p.actions[stage], pipelineValid(p),
         NEW i \in DOMAIN a.effects
  PROVE  EffectValid(p, stage, a, a.effects[i])
BY DEF pipelineValid, actionValid

\* At most one fired effect moves the file (engine.ts, rule 1).
LEMMA OneMove ==
  ASSUME NEW a, NEW x, ~planRefused(a, x),
         NEW i \in FiredOf(StageTypes, a, x)
  PROVE  /\ FiredOf(StageTypes, a, x) = {i}
         /\ FiredMove(a, x) = a.effects[i]
         /\ ~requestsRevision(a, x)
<1>1. FiredOf(StageTypes, a, x) = {i}
  BY DEF planRefused
<1>2. FiredMove(a, x) = a.effects[i]
  <2>1. (CHOOSE j \in {i} : TRUE) = i
    OBVIOUS
  <2>2. QED BY <1>1, <2>1 DEF FiredMove
<1>3. ~requestsRevision(a, x)
  BY <1>1 DEF planRefused, requestsRevision
<1>4. QED BY <1>1, <1>2, <1>3

\* Where an accepted action takes the file, by the effect that moves it.
LEMMA Destination ==
  ASSUME NEW p, NEW stage, NEW a, NEW x, Accepted(p, stage, a, x),
         NEW i \in FiredOf(StageTypes, a, x)
  PROVE  LET e == a.effects[i] to == toStageKey(stage, a, x) IN
         /\ e.type \in AdvanceTypes => to \in moveTargets(p, stage) \cap (p.stages \ {stage})
         /\ e.type = "RETURN_TO_PREVIOUS" => /\ x.trail # <<>>
                                             /\ to = x.trail[Len(x.trail)]
                                             /\ to \in p.stages
         /\ e.type \in EndTypes => to = Null
<1> DEFINE e == a.effects[i]
<1> USE DEF Accepted
<1>1. /\ toStageKey(stage, a, x) = MoveTarget(e, x)
      /\ i \in DOMAIN a.effects /\ i \in firedEffects(a, x)
  BY OneMove DEF toStageKey, FiredOf, firedEffects
<1>2. EffectValid(p, stage, a, e)
  BY <1>1, EffectsAreValid
<1>3. ~EffectRefuses(e, x)
  BY <1>1 DEF planRefused
<1>4. EffectTargets(e) \subseteq moveTargets(p, stage)
  BY <1>1 DEF moveTargets
<1>5. CASE e.type = "MOVE_TO_STAGE"
  BY <1>1, <1>2, <1>4, <1>5 DEF MoveTarget, EffectValid, EffectTargets, AdvanceTypes, EndTypes
<1>6. CASE e.type = "MOVE_BY_CHOICE"
  BY <1>1, <1>2, <1>3, <1>4, <1>6
     DEF MoveTarget, EffectValid, EffectTargets, EffectRefuses, AdvanceTypes, EndTypes
<1>7. CASE e.type = "RETURN_TO_PREVIOUS"
  BY <1>1, <1>3, <1>7 DEF MoveTarget, EffectRefuses, AdvanceTypes, EndTypes
<1>8. CASE e.type \in EndTypes
  BY <1>1, <1>8 DEF MoveTarget, AdvanceTypes, EndTypes
<1>9. QED BY <1>5, <1>6, <1>7, <1>8 DEF FiredOf, StageTypes, AdvanceTypes

\* A file goes to a stage of its pipeline or leaves it; it leaves exactly when
\* the fired move ends the pipeline.
LEMMA DestinationType ==
  ASSUME NEW p, NEW stage, NEW a, NEW x, Accepted(p, stage, a, x)
  PROVE  /\ toStageKey(stage, a, x) \in p.stages \cup {Null}
         /\ toStageKey(stage, a, x) = Null <=> FiredOf(EndTypes, a, x) # {}
<1>1. Null \notin p.stages /\ stage \in p.stages
  BY DEF Accepted, pipelineValid
<1>2. FiredOf(EndTypes, a, x) \subseteq FiredOf(StageTypes, a, x)
  BY DEF FiredOf, StageTypes
<1>3. CASE FiredOf(StageTypes, a, x) = {}
  BY <1>1, <1>2, <1>3 DEF toStageKey
<1>4. CASE FiredOf(StageTypes, a, x) # {}
  <2>1. PICK i \in FiredOf(StageTypes, a, x) : TRUE
    BY <1>4
  <2>2. FiredOf(StageTypes, a, x) = {i}
    BY <2>1, OneMove DEF Accepted
  <2>3. FiredOf(EndTypes, a, x) # {} <=> a.effects[i].type \in EndTypes
    BY <2>2, <1>2 DEF FiredOf
  <2>4. a.effects[i].type \in EndTypes \cup AdvanceTypes \cup {"RETURN_TO_PREVIOUS"}
    BY <2>1 DEF FiredOf, StageTypes
  <2>5. a.effects[i].type \in EndTypes => a.effects[i].type \notin AdvanceTypes \cup {"RETURN_TO_PREVIOUS"}
    BY DEF EndTypes, AdvanceTypes
  <2>6. QED BY <1>1, <2>1, <2>3, <2>4, <2>5, Destination
<1>5. QED BY <1>3, <1>4

\* Asking for a correction leaves the file where it is.
LEMMA AskingStays ==
  ASSUME NEW p, NEW stage, NEW a, NEW x, Accepted(p, stage, a, x), requestsRevision(a, x)
  PROVE  toStageKey(stage, a, x) = stage /\ stage # Null
<1>1. FiredOf(StageTypes, a, x) = {}
  BY OneMove DEF Accepted
<1>2. QED BY <1>1 DEF toStageKey, Accepted, pipelineValid

-----------------------------------------------------------------------------
\* Every flag that an action adds or removes is one the pipeline declares, and
\* only the effects meant to do so touch terminal and editing flags.
LEMMA FlagsTouched ==
  ASSUME NEW p, NEW stage, NEW a, NEW x, Accepted(p, stage, a, x)
  PROVE  /\ FlagsNamed({"ADD_STATUS"}, a, x) \subseteq OrdinaryFlags(p)
         /\ FlagsNamed(EndTypes, a, x) \subseteq p.terminal
         /\ FlagsNamed(RevisionTypes, a, x) \subseteq p.editing \ p.terminal
         /\ FlagsNamed({"REMOVE_STATUS"}, a, x) \cap p.editing = {}
         /\ p.presence[stage] \subseteq OrdinaryFlags(p)
         /\ toStageKey(stage, a, x) # Null
              => p.presence[toStageKey(stage, a, x)] \subseteq OrdinaryFlags(p)
<1> USE DEF Accepted
<1>1. \A i \in firedEffects(a, x) : EffectValid(p, stage, a, a.effects[i])
  BY EffectsAreValid DEF firedEffects
<1>2. FlagsNamed({"ADD_STATUS"}, a, x) \subseteq OrdinaryFlags(p)
  BY <1>1 DEF FlagsNamed, FiredOf, EffectValid
<1>3. FlagsNamed(EndTypes, a, x) \subseteq p.terminal
  BY <1>1 DEF FlagsNamed, FiredOf, EffectValid
<1>4. FlagsNamed(RevisionTypes, a, x) \subseteq p.editing \ p.terminal
  BY <1>1 DEF FlagsNamed, FiredOf, EffectValid, RevisionTypes
<1>5. FlagsNamed({"REMOVE_STATUS"}, a, x) \cap p.editing = {}
  BY <1>1 DEF FlagsNamed, FiredOf, EffectValid
<1>6. \A s \in p.stages : p.presence[s] \subseteq OrdinaryFlags(p)
  BY DEF pipelineValid
<1>7. toStageKey(stage, a, x) \in p.stages \cup {Null}
  BY DestinationType
<1>8. QED BY <1>2, <1>3, <1>4, <1>5, <1>6, <1>7

\* What the added flags are made of.
LEMMA FlagsNamedSplit ==
  ASSUME NEW a, NEW x
  PROVE  FlagsNamed({"ADD_STATUS"} \cup EndTypes \cup RevisionTypes, a, x)
           = FlagsNamed({"ADD_STATUS"}, a, x) \cup FlagsNamed(EndTypes, a, x)
               \cup FlagsNamed(RevisionTypes, a, x)
BY DEF FlagsNamed, FiredOf

\* A plan leaves a file only flags that its pipeline declares.
LEMMA FlagsStayDeclared ==
  ASSUME NEW p, NEW stage, NEW a, NEW x, Accepted(p, stage, a, x)
  PROVE  flagsAfter(p, stage, a, x) \subseteq p.flags
<1>1. FlagsAdded(p, stage, a, x) \subseteq OrdinaryFlags(p) \cup p.terminal \cup p.editing
  BY FlagsTouched, FlagsNamedSplit DEF FlagsAdded
<1>2. p.terminal \subseteq p.flags /\ p.editing \subseteq p.flags /\ x.flags \subseteq p.flags
  BY DEF Accepted, pipelineValid
<1>3. QED BY <1>1, <1>2 DEF flagsAfter, OrdinaryFlags

\* An action gives a file no terminal flag but by ending its journey, and then it
\* leaves one unless it takes that one back, given that none was held.
LEMMA OnlyEndingsMark ==
  ASSUME NEW p, NEW stage, NEW a, NEW x, Accepted(p, stage, a, x),
         x.flags \cap p.terminal = {}
  PROVE  /\ toStageKey(stage, a, x) # Null => flagsAfter(p, stage, a, x) \cap p.terminal = {}
         /\ (toStageKey(stage, a, x) = Null /\ KeepsItsEnding(a))
              => flagsAfter(p, stage, a, x) \cap p.terminal # {}
<1> DEFINE ends == FlagsNamed(EndTypes, a, x)
<1>1. FlagsAdded(p, stage, a, x) \cap p.terminal = ends \ FlagsRemoved(p, stage, a, x)
  <2>1. FlagsNamed({"ADD_STATUS"}, a, x) \cap p.terminal = {}
    BY FlagsTouched DEF OrdinaryFlags
  <2>2. FlagsNamed(RevisionTypes, a, x) \cap p.terminal = {} /\ ends \subseteq p.terminal
    BY FlagsTouched
  <2>3. toStageKey(stage, a, x) # Null => p.presence[toStageKey(stage, a, x)] \cap p.terminal = {}
    BY FlagsTouched DEF OrdinaryFlags
  <2>4. QED BY <2>1, <2>2, <2>3, FlagsNamedSplit DEF FlagsAdded
<1>2. flagsAfter(p, stage, a, x) \cap p.terminal = ends \ FlagsRemoved(p, stage, a, x)
  BY <1>1 DEF flagsAfter
<1>3. ends # {} <=> toStageKey(stage, a, x) = Null
  <2>1. ends # {} <=> FiredOf(EndTypes, a, x) # {}
    BY DEF FlagsNamed
  <2>2. QED BY <2>1, DestinationType
<1>4. KeepsItsEnding(a) => ends \cap FlagsRemoved(p, stage, a, x) = {}
  <2>1. ends \cap p.presence[stage] = {}
    BY FlagsTouched DEF OrdinaryFlags
  <2>2. KeepsItsEnding(a) => ends \cap FlagsNamed({"REMOVE_STATUS"}, a, x) = {}
    BY DEF KeepsItsEnding, FlagsNamed, FiredOf, firedEffects, EffectsOf
  <2>3. QED BY <2>1, <2>2 DEF FlagsRemoved
<1>5. QED BY <1>2, <1>3, <1>4

\* A move takes the flags of the stage it leaves along and brings those of the
\* stage it reaches, but for one that the action removes or that both stages have.
THEOREM PresenceFollowsMoves ==
  ASSUME NEW p, NEW stage, NEW a, NEW x, Accepted(p, stage, a, x),
         toStageKey(stage, a, x) # stage
  PROVE  LET to == toStageKey(stage, a, x)
             gone == FlagsNamed({"REMOVE_STATUS"}, a, x)
         IN  /\ p.presence[stage] \cap flagsAfter(p, stage, a, x) = {}
             /\ to # Null => p.presence[to] \ (p.presence[stage] \cup gone)
                               \subseteq flagsAfter(p, stage, a, x)
BY DEF flagsAfter, FlagsAdded, FlagsRemoved

\* An action that does not end the journey unlocks the applicant's form exactly
\* when it asks for a correction.
LEMMA UnlocksExactlyWhenAsked ==
  ASSUME NEW p, NEW stage, NEW a, NEW x, Accepted(p, stage, a, x),
         x.flags \cap p.editing = {}, toStageKey(stage, a, x) # Null
  PROVE  requestsRevision(a, x) <=> awaitsApplicant(p, flagsAfter(p, stage, a, x))
<1>1. FlagsRemoved(p, stage, a, x) \cap p.editing = {}
  BY FlagsTouched DEF FlagsRemoved, OrdinaryFlags
<1>2. FlagsAdded(p, stage, a, x) \cap p.editing = FlagsNamed(RevisionTypes, a, x)
  <2>1. FlagsNamed({"ADD_STATUS"}, a, x) \cap p.editing = {}
    BY FlagsTouched DEF OrdinaryFlags
  <2>2. /\ FlagsNamed(EndTypes, a, x) = {}
        /\ FlagsNamed(RevisionTypes, a, x) \subseteq p.editing
    BY FlagsTouched, DestinationType DEF FlagsNamed
  <2>3. toStageKey(stage, a, x) # Null => p.presence[toStageKey(stage, a, x)] \cap p.editing = {}
    BY FlagsTouched DEF OrdinaryFlags
  <2>4. QED BY <1>1, <2>1, <2>2, <2>3, FlagsNamedSplit DEF FlagsAdded
<1>3. flagsAfter(p, stage, a, x) \cap p.editing = FlagsNamed(RevisionTypes, a, x)
  BY <1>1, <1>2 DEF flagsAfter
<1>4. FlagsNamed(RevisionTypes, a, x) # {} <=> requestsRevision(a, x)
  BY DEF FlagsNamed, requestsRevision
<1>5. QED BY <1>3, <1>4 DEF awaitsApplicant

-----------------------------------------------------------------------------
\* What an accepted action does to the trail, by the kind of its move.
LEMMA TrailCases ==
  ASSUME NEW p, NEW stage, NEW a, NEW x, Accepted(p, stage, a, x)
  PROVE  \/ /\ toStageKey(stage, a, x) \in moveTargets(p, stage) \cap p.stages
            /\ trailAfter(stage, a, x) = Append(x.trail, stage)
         \/ /\ x.trail # <<>> /\ toStageKey(stage, a, x) = x.trail[Len(x.trail)]
            /\ toStageKey(stage, a, x) \in p.stages
            /\ trailAfter(stage, a, x) = SubSeq(x.trail, 1, Len(x.trail) - 1)
         \/ /\ toStageKey(stage, a, x) \in {stage, Null}
            /\ trailAfter(stage, a, x) = x.trail
<1>1. CASE FiredOf(StageTypes, a, x) = {}
  <2>1. /\ FiredOf(AdvanceTypes, a, x) = {}
        /\ FiredOf({"RETURN_TO_PREVIOUS"}, a, x) = {}
    BY <1>1 DEF FiredOf, StageTypes
  <2>2. QED BY <1>1, <2>1, Zenon DEF toStageKey, trailAfter
<1>2. CASE FiredOf(StageTypes, a, x) # {}
  <2>1. PICK i \in FiredOf(StageTypes, a, x) : TRUE
    BY <1>2
  <2>2. FiredOf(StageTypes, a, x) = {i} /\ i \in firedEffects(a, x)
    BY <2>1, OneMove DEF Accepted, FiredOf
  <2>3. /\ FiredOf(AdvanceTypes, a, x) # {} <=> a.effects[i].type \in AdvanceTypes
        /\ FiredOf({"RETURN_TO_PREVIOUS"}, a, x) # {}
             <=> a.effects[i].type = "RETURN_TO_PREVIOUS"
    BY <2>2 DEF FiredOf, StageTypes
  <2>4. CASE a.effects[i].type \in AdvanceTypes
    <3>1. a.effects[i].type # "RETURN_TO_PREVIOUS"
      BY <2>4 DEF AdvanceTypes
    <3>2. trailAfter(stage, a, x) = Append(x.trail, stage)
      BY <2>3, <2>4, <3>1, Zenon DEF trailAfter
    <3>3. QED BY <2>1, <2>4, <3>2, Destination
  <2>5. CASE a.effects[i].type = "RETURN_TO_PREVIOUS"
    <3>1. a.effects[i].type \notin AdvanceTypes
      BY <2>5 DEF AdvanceTypes
    <3>2. trailAfter(stage, a, x) = SubSeq(x.trail, 1, Len(x.trail) - 1)
      BY <2>3, <2>5, <3>1, Zenon DEF trailAfter
    <3>3. QED BY <2>1, <2>5, <3>2, Destination
  <2>6. CASE a.effects[i].type \in EndTypes
    <3>1. a.effects[i].type \notin AdvanceTypes \cup {"RETURN_TO_PREVIOUS"}
      BY <2>6 DEF AdvanceTypes, EndTypes
    <3>2. trailAfter(stage, a, x) = x.trail
      BY <2>3, <3>1, Zenon DEF trailAfter
    <3>3. QED BY <2>1, <2>6, <3>2, Destination
  <2>7. QED BY <2>1, <2>4, <2>5, <2>6 DEF FiredOf, StageTypes
<1>3. QED BY <1>1, <1>2

\* Sequences: one more element, and one fewer.
LEMMA AppendFacts ==
  ASSUME NEW S, NEW t \in Seq(S), NEW e \in S
  PROVE  /\ Append(t, e) \in Seq(S)
         /\ Len(Append(t, e)) = Len(t) + 1
         /\ \A i \in 1..Len(t) : Append(t, e)[i] = t[i]
         /\ Append(t, e)[Len(t) + 1] = e
OBVIOUS

\* What a proper prefix of a sequence holds.
LEMMA PrefixFacts ==
  ASSUME NEW S, NEW t \in Seq(S), NEW n \in Nat, n < Len(t)
  PROVE  /\ SubSeq(t, 1, n) \in Seq(S)
         /\ Len(SubSeq(t, 1, n)) = n
         /\ \A i \in 1..n : SubSeq(t, 1, n)[i] = t[i]
OBVIOUS

\* A sequence is its front and its last element.
LEMMA FrontFacts ==
  ASSUME NEW S, NEW t \in Seq(S), t # <<>>
  PROVE  /\ SubSeq(t, 1, Len(t) - 1) \in Seq(S)
         /\ Append(SubSeq(t, 1, Len(t) - 1), t[Len(t)]) = t
<1>1. PICK n \in Nat : Len(t) = n + 1
  <2>1. Len(t) \in Nat \ {0}
    BY EmptySeq
  <2>2. Len(t) - 1 \in Nat /\ Len(t) = (Len(t) - 1) + 1
    BY <2>1
  <2>3. QED BY <2>2
<1> DEFINE front == SubSeq(t, 1, n)
<1>2. /\ front \in Seq(S) /\ Len(front) = n
      /\ \A i \in 1..n : front[i] = t[i]
  BY <1>1, PrefixFacts
<1>3. t[n + 1] \in S
  BY <1>1, ElementOfSeq
<1>4. front = SubSeq(t, 1, Len(t) - 1)
  BY <1>1
<1> HIDE DEF front
<1>5. /\ Append(front, t[n + 1]) \in Seq(S)
      /\ Len(Append(front, t[n + 1])) = n + 1
      /\ \A i \in 1..(n + 1) : Append(front, t[n + 1])[i] = t[i]
  BY <1>2, <1>3, AppendFacts
<1>6. Append(front, t[n + 1]) = t
  BY <1>1, <1>5, SeqEqual
<1>7. QED BY <1>1, <1>2, <1>4, <1>6

\* The trail an action leaves is made of the pipeline's stages.
LEMMA TrailStaysInPipeline ==
  ASSUME NEW p, NEW stage, NEW a, NEW x, Accepted(p, stage, a, x)
  PROVE  trailAfter(stage, a, x) \in Seq(p.stages)
<1>1. x.trail \in Seq(p.stages) /\ stage \in p.stages
  BY DEF Accepted
<1>2. Append(x.trail, stage) \in Seq(p.stages)
  BY <1>1, AppendFacts
<1>3. x.trail # <<>> => SubSeq(x.trail, 1, Len(x.trail) - 1) \in Seq(p.stages)
  BY <1>1, FrontFacts
<1>4. \/ trailAfter(stage, a, x) = Append(x.trail, stage)
      \/ x.trail # <<>> /\ trailAfter(stage, a, x) = SubSeq(x.trail, 1, Len(x.trail) - 1)
      \/ trailAfter(stage, a, x) = x.trail
  BY TrailCases
<1>5. QED BY <1>1, <1>2, <1>3, <1>4, Zenon

\* A journey that goes on by a configured move, or back by one, is a journey.
LEMMA JourneyExtends ==
  ASSUME NEW p, NEW t \in Seq(p.stages), NEW s \in p.stages, NEW to \in p.stages,
         IsJourney(p, Append(t, s)), to \in moveTargets(p, s)
  PROVE  IsJourney(p, Append(Append(t, s), to))
<1> DEFINE before == Append(t, s)
           after  == Append(before, to)
<1>1. /\ before \in Seq(p.stages) /\ Len(before) = Len(t) + 1 /\ before[Len(before)] = s
      /\ Len(t) \in Nat
  BY AppendFacts, LenProperties
<1>2. IsJourney(p, before)
  OBVIOUS
<1> HIDE DEF before
<1>3. /\ Len(after) = Len(before) + 1 /\ after[Len(before) + 1] = to
      /\ \A i \in 1..Len(before) : after[i] = before[i]
  BY <1>1, AppendFacts
<1> HIDE DEF after
<1>4. ASSUME NEW i \in 1..(Len(after) - 1)
      PROVE  after[i + 1] \in moveTargets(p, after[i])
  <2>1. CASE i = Len(before)
    BY <1>1, <1>3, <2>1
  <2>2. CASE i # Len(before)
    <3>1. i \in 1..(Len(before) - 1) /\ i \in 1..Len(before) /\ i + 1 \in 1..Len(before)
      BY <1>1, <1>3, <2>2
    <3>2. before[i + 1] \in moveTargets(p, before[i])
      BY <1>2, <3>1 DEF IsJourney
    <3>3. QED BY <1>3, <3>1, <3>2
  <2>3. QED BY <2>1, <2>2
<1>5. after[1] = p.initial
  BY <1>1, <1>2, <1>3 DEF IsJourney
<1>6. IsJourney(p, after)
  BY <1>4, <1>5 DEF IsJourney
<1>7. QED BY <1>6 DEF after, before

\* A journey without its last stage is a journey.
LEMMA JourneyShortens ==
  ASSUME NEW p, NEW t \in Seq(p.stages), NEW s \in p.stages,
         IsJourney(p, Append(t, s)), t # <<>>
  PROVE  IsJourney(p, t)
<1> DEFINE before == Append(t, s)
<1>1. /\ Len(before) = Len(t) + 1 /\ \A i \in 1..Len(t) : before[i] = t[i]
      /\ Len(t) \in Nat \ {0}
  BY AppendFacts, EmptySeq
<1>2. IsJourney(p, before)
  OBVIOUS
<1> HIDE DEF before
<1>3. QED BY <1>1, <1>2 DEF IsJourney

\* A file whose trail and stage are a journey is left with one, unless it ends.
LEMMA JourneyContinues ==
  ASSUME NEW p, NEW stage, NEW a, NEW x, Accepted(p, stage, a, x),
         IsJourney(p, Append(x.trail, stage)), toStageKey(stage, a, x) # Null
  PROVE  IsJourney(p, Append(trailAfter(stage, a, x), toStageKey(stage, a, x)))
<1>1. x.trail \in Seq(p.stages) /\ stage \in p.stages
  BY DEF Accepted
<1>2. x.trail # <<>> =>
        Append(SubSeq(x.trail, 1, Len(x.trail) - 1), x.trail[Len(x.trail)]) = x.trail
  BY <1>1, FrontFacts
<1>3. x.trail # <<>> => IsJourney(p, x.trail)
  BY <1>1, JourneyShortens
<1>4. toStageKey(stage, a, x) \in p.stages =>
        (toStageKey(stage, a, x) \in moveTargets(p, stage) =>
           IsJourney(p, Append(Append(x.trail, stage), toStageKey(stage, a, x))))
  BY <1>1, JourneyExtends
<1>5. CASE /\ toStageKey(stage, a, x) \in moveTargets(p, stage) \cap p.stages
           /\ trailAfter(stage, a, x) = Append(x.trail, stage)
  BY <1>4, <1>5, Zenon
<1>6. CASE /\ x.trail # <<>> /\ toStageKey(stage, a, x) = x.trail[Len(x.trail)]
           /\ trailAfter(stage, a, x) = SubSeq(x.trail, 1, Len(x.trail) - 1)
  BY <1>2, <1>3, <1>6, Zenon
<1>7. CASE toStageKey(stage, a, x) \in {stage, Null} /\ trailAfter(stage, a, x) = x.trail
  BY <1>7, Zenon
<1>8. QED BY <1>5, <1>6, <1>7, TrailCases

=============================================================================
