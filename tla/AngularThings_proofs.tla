------------------------ MODULE AngularThings_proofs -------------------------
(***************************************************************************)
(* Proofs about AngularThings and ProviderRoutes, for every set of modules *)
(* and components and all that their files may say.                        *)
(*                                                                         *)
(* The first invariant is ListedKnown, DeclaringModulesKnown for the lists *)
(* as the references have them, with the shape of what it reads.  Modules  *)
(* are told to components by several handlers and forgotten by one; each   *)
(* forgetting is followed, in the same handler, by the postprocessing of   *)
(* all modules that depend on the component.                               *)
(*                                                                         *)
(* The second, Held, is about the answers.  They recurse over exports as   *)
(* deep as there are modules; a walk that would go deeper has met a module *)
(* twice, as Chain(k) of the next module has fewer elements each time.     *)
(*                                                                         *)
(* The third is WalkInv, about the routes: who may share an array with     *)
(* whom, and what its places then hold.  The fourth, ReportInv, is about   *)
(* which classes the walk has met: where a call leads is met or pending,   *)
(* and a module whose call is over is on a route found since it began.     *)
(***************************************************************************)
EXTENDS ProviderRoutes, SequenceTheorems, FiniteSetTheorems, WellFoundedInduction, TLAPS

Shape ==
    /\ source \in [Edited -> ModuleSource \cup ComponentSource]
    /\ declaredIn \in [Components -> SUBSET Modules]
    /\ DOMAIN held = Modules

\* Listed(m) is what m declares as its references were resolved.
ListedKnown ==
    \A m \in Modules \ left : \A c \in Components : c \in Listed(m) => m \in declaredIn[c]

Inv == Shape /\ ListedKnown

LEMMA DeclaredListed == \A m : Declared(m) \subseteq Listed(m)
BY DEF Declared, Behind, Listed

-----------------------------------------------------------------------------
\* Telling modules to components keeps the shape and takes nothing away.
LEMMA ToldGrows ==
    ASSUME NEW declared \in [Components -> SUBSET Modules], NEW some \in SUBSET Modules
    PROVE  /\ Told(declared, some) \in [Components -> SUBSET Modules]
           /\ \A c \in Components : declared[c] \subseteq Told(declared, some)[c]
           /\ \A c \in Components : \A m \in some :
                 c \in Listed(m)' => m \in Told(declared, some)[c]
BY DEF Told, Listed

LEMMA InitInv == Init => Inv
<1> SUFFICES ASSUME Init PROVE Inv
    OBVIOUS
<1> USE AngularAssumption
<1>1. source \in [Edited -> ModuleSource \cup ComponentSource]
  BY DEF Init
<1>2. declaredIn \in [Components -> SUBSET Modules]
  BY DEF Init
<1>3. DOMAIN held = Modules /\ ListedKnown
  BY DEF Init, ListedKnown
<1> QED
  BY <1>1, <1>2, <1>3 DEF Inv, Shape

\* What the files say keeps its shape when one of them is edited.
LEMMA EditedShape ==
    ASSUME Shape, NEW k \in Edited, NEW text \in Sources[k],
           source' = [source EXCEPT ![k] = text]
    PROVE  /\ source' \in [Edited -> ModuleSource \cup ComponentSource]
           /\ \A m \in Modules \ {k} : source'[m] = source[m]
<1>1. text \in ModuleSource \cup ComponentSource
  BY AngularAssumption
<1> QED
  BY <1>1 DEF Shape, Edited

\* A list of a module that is not indexed again lists what it did.
LEMMA ListedStays ==
    ASSUME NEW m \in Modules, source'[m] = source[m], held'[m] = held[m]
    PROVE  Listed(m)' = Listed(m)
BY DEF Listed

\* An edit that takes nothing from DeclaredIn, and postprocesses every module
\* whose text is new, keeps the invariant.
LEMMA RetoldKeeps ==
    ASSUME Inv, NEW some \in SUBSET Modules,
           source' \in [Edited -> ModuleSource \cup ComponentSource],
           DOMAIN held' = Modules,
           \A m \in Modules \ some : source'[m] = source[m] /\ held'[m] = held[m],
           declaredIn' = Told(declaredIn, some), left' \subseteq left,
           left \ left' \subseteq some
    PROVE  Inv'
<1>1. declaredIn' \in [Components -> SUBSET Modules]
  BY ToldGrows DEF Inv, Shape
<1>2. ASSUME NEW m \in Modules \ left', NEW c \in Components, c \in Listed(m)'
      PROVE  m \in declaredIn'[c]
  <2>1. CASE m \in some
    BY <1>2, <2>1, ToldGrows DEF Inv, Shape
  <2>2. CASE m \notin some
    <3>1. m \notin left /\ c \in Listed(m)
      BY <1>2, <2>2, ListedStays
    <3>2. m \in declaredIn[c]
      BY <3>1 DEF Inv, ListedKnown
    <3> QED
      BY <3>2, ToldGrows DEF Inv, Shape
  <2> QED
    BY <2>1, <2>2
<1> QED
  BY <1>1, <1>2 DEF Inv, Shape, ListedKnown

-----------------------------------------------------------------------------
LEMMA DependenciesAreModules == \A k : Dependencies(k) \in SUBSET Modules
BY DEF Dependencies

LEMMA StepInv == Inv /\ [Next]_vars => Inv'
<1> SUFFICES ASSUME Inv, [Next]_vars PROVE Inv'
    OBVIOUS
<1>1. ASSUME NEW m \in Modules, PostprocessFile(m) PROVE Inv'
  <2>1. /\ left' = left \ {m} /\ source' = source /\ held' = held
        /\ declaredIn' = Told(declaredIn, {m})
    BY <1>1 DEF PostprocessFile
  <2> QED
    BY <2>1, RetoldKeeps DEF Inv, Shape
<1>2. ASSUME NEW m \in Modules, EditModule(m) PROVE Inv'
  <2> DEFINE again == {m} \cup Dependencies(m)
  <2>1. PICK text \in Sources[m] : source' = [source EXCEPT ![m] = text]
    BY <1>2 DEF EditModule
  <2>2. /\ source' \in [Edited -> ModuleSource \cup ComponentSource]
        /\ \A k \in Modules \ {m} : source'[k] = source[k]
    BY <2>1, EditedShape DEF Inv, Edited
  <2>3. declaredIn' = Told(declaredIn, again \cap Modules) /\ left' = left
    BY <1>2 DEF EditModule, Edit
  <2>4. DOMAIN held' = Modules /\ \A k \in Modules \ {m} : held'[k] = held[k]
    BY <1>2 DEF EditModule, Inv, Shape
  <2> QED
    BY <2>2, <2>3, <2>4, RetoldKeeps
<1>3. ASSUME NEW c \in Components, EditComponent(c) PROVE Inv'
  <2> DEFINE again  == Dependencies(c)
             before == [declaredIn EXCEPT ![c] = {}]
  <2>1. PICK text \in Sources[c] : source' = [source EXCEPT ![c] = text]
    BY <1>3 DEF EditComponent
  <2>2. /\ source' \in [Edited -> ModuleSource \cup ComponentSource]
        /\ \A k \in Modules : source'[k] = source[k]
    BY <2>1, EditedShape, AngularAssumption DEF Inv, Edited
  <2>3. declaredIn' = Told(before, again) /\ left' = left /\ held' = held
    BY <1>3 DEF EditComponent, Edit
  <2>4. before \in [Components -> SUBSET Modules]
    BY DEF Inv, Shape
  <2>5. again \in SUBSET Modules
    BY DependenciesAreModules
  <2> HIDE DEF before, again
  <2>6. declaredIn' \in [Components -> SUBSET Modules]
    BY <2>3, <2>4, <2>5, ToldGrows
  <2>7. ASSUME NEW m \in Modules \ left', NEW k \in Components, k \in Listed(m)'
        PROVE  m \in declaredIn'[k]
    <3>1. CASE k = c
      <4>1. m \in again
        BY <2>7, <3>1 DEF again, Dependencies, Listed
      <4> QED
        BY <2>3, <2>4, <2>5, <2>7, <4>1, ToldGrows
    <3>2. CASE k # c
      <4>1. m \in declaredIn[k]
        BY <2>2, <2>3, <2>7, ListedStays DEF Inv, ListedKnown
      <4>2. before[k] = declaredIn[k]
        BY <3>2 DEF before, Inv, Shape
      <4> QED
        BY <2>3, <2>4, <2>5, <4>1, <4>2, ToldGrows
    <3> QED
      BY <3>1, <3>2
  <2> QED
    BY <2>2, <2>3, <2>6, <2>7 DEF Inv, Shape, ListedKnown
<1>4. ASSUME NEW c \in Components, EditTemplate(c) PROVE Inv'
  <2>1. PICK text \in Sources[c] : source' = [source EXCEPT ![c] = text]
    BY <1>4 DEF EditTemplate
  <2>2. /\ source' \in [Edited -> ModuleSource \cup ComponentSource]
        /\ \A k \in Modules : source'[k] = source[k]
    BY <2>1, EditedShape, AngularAssumption DEF Inv, Edited
  <2>3. declaredIn' = Told(declaredIn, Dependencies(c)) /\ left' = left /\ held' = held
    BY <1>4 DEF EditTemplate, Edit
  <2>4. DOMAIN held' = Modules
    BY <2>3 DEF Inv, Shape
  <2> QED
    BY <2>2, <2>3, <2>4, RetoldKeeps, DependenciesAreModules
<1>5. ASSUME UNCHANGED <<source, held, declaredIn, left>> PROVE Inv'
  BY <1>5 DEF Inv, Shape, ListedKnown, Listed
<1>6. ASSUME NEW c \in Components, Ask(c) PROVE UNCHANGED <<source, held, declaredIn, left>>
  BY <1>6 DEF Ask
<1>7. ASSUME NEW a \in ArrayFiles, EditArray(a)
      PROVE  UNCHANGED <<source, held, declaredIn, left>>
  BY <1>7 DEF EditArray, Edit
<1>8. ASSUME UNCHANGED vars PROVE UNCHANGED <<source, held, declaredIn, left>>
  BY <1>8 DEF vars
<1> QED
  BY <1>1, <1>2, <1>3, <1>4, <1>5, <1>6, <1>7, <1>8 DEF Next

\* After the start every component knows the modules that declare it by name,
\* by an array of their own file or by one of another file that was not edited
\* since theirs was indexed, whatever is edited and asked: Module.Postprocess
\* and Class.Reset between them never lose such a module.  What is added to an
\* array of another file is told only once the module's own file is edited.
THEOREM DeclaringKnown == Spec => []DeclaringModulesKnown
<1>1. Inv => DeclaringModulesKnown
  BY DeclaredListed DEF Inv, ListedKnown, DeclaringModulesKnown
<1> QED
  BY <1>1, InitInv, StepInv, PTL DEF Spec

-----------------------------------------------------------------------------
\* What a component gathers holds the things that stand in the names.
LEMMA GatheredHasThings == \A names : names \cap Things \subseteq Gathered(names)
BY DEF Gathered

LEMMA AnswerFields ==
    ASSUME NEW c, NEW got, Answer(c, got)
    PROVE  /\ answer'.of = c
           /\ answer'.got = got
           /\ answer'.first = (things[c] = None)
BY DEF Answer

\* A step of Ask that answers, answers the question that was asked.
LEMMA AskAnswers ==
    ASSUME NEW k \in Components, Ask(k), answer' # answer
    PROVE  \/ AnswerCached(k) /\ Answer(k, things[k])
           \/ AnswerAnew(k) /\ Answer(k, Gathered(GatheredFrom(k, declaredIn[k])))
           \/ AnswerPanics(k) /\ Answer(k, Panicked)
<1>1. CASE AnswerCached(k)
  BY <1>1 DEF AnswerCached
<1>2. CASE AnswerAnew(k)
  BY <1>2 DEF AnswerAnew
<1>3. CASE AnswerPanics(k)
  BY <1>3 DEF AnswerPanics
<1> QED
  BY <1>1, <1>2, <1>3 DEF Ask

\* A question answered for the first time since a reset is worked out anew,
\* from every module the component is declared in.
LEMMA FirstAnswerHasOwn ==
    ASSUME Inv, NEW c \in Components, Ask(c), Answers(c),
           answer'.first, answer'.got # Panicked, NEW m \in Modules, c \in Listed(m)
    PROVE  (source[m].declared \cup source[m].imports \cup source[c].imports) \cap Things
               \subseteq answer'.got
<1> DEFINE names == GatheredFrom(c, declaredIn[c])
<1>1. ~(AnswerPanics(c) /\ Answer(c, Panicked))
  BY AnswerFields
<1>2. ~(AnswerCached(c) /\ Answer(c, things[c]))
  BY AnswerFields DEF AnswerCached
<1>3. Answer(c, Gathered(names))
  BY <1>1, <1>2, AskAnswers DEF Answers
<1>4. answer'.got = Gathered(names)
  BY <1>3, AnswerFields
<1>5. m \in declaredIn[c]
  BY DEF Inv, ListedKnown, Ask, Serving
<1>6. source[m].declared \cup source[m].imports \cup source[c].imports \subseteq names
  BY <1>5 DEF GatheredFrom, Named
<1> HIDE DEF names
<1>7. names \cap Things \subseteq Gathered(names)
  BY GatheredHasThings
<1> QED
  BY <1>4, <1>6, <1>7

\* The first answer after an edit misses nothing that the modules declaring the
\* component name or import themselves, with ExperimentalThingCaching too.
THEOREM FirstAnswerSeesOwn == Spec => EditedSeesOwn
<1> DEFINE Sees ==
       \A c \in Components : Answers(c) /\ answer'.first /\ answer'.got # Panicked =>
          \A m \in {k \in Modules : c \in Declared(k)} :
              (source[m].declared \cup source[m].imports \cup source[c].imports) \cap Things
                  \subseteq answer'.got
<1>1. Inv /\ [Next]_vars => [Sees]_vars
  <2> SUFFICES ASSUME Inv, Next, NEW c \in Components, Answers(c), answer'.first,
                      answer'.got # Panicked, NEW m \in Modules, c \in Declared(m)
               PROVE  (source[m].declared \cup source[m].imports \cup source[c].imports)
                          \cap Things \subseteq answer'.got
      OBVIOUS
  <2>1. \E k \in Components : Ask(k)
    BY DEF Next, PostprocessFile, EditModule, EditComponent, EditTemplate, EditArray, Edit, Answers
  <2>2. ASSUME NEW k \in Components, Ask(k) PROVE k = c
    BY <2>2, AskAnswers, AnswerFields DEF Answers
  <2>3. c \in Listed(m)
    BY DeclaredListed
  <2> QED
    BY <2>1, <2>2, <2>3, FirstAnswerHasOwn
<1> QED
  BY <1>1, InitInv, StepInv, PTL DEF Spec, EditedSeesOwn

-----------------------------------------------------------------------------
(* Chains of exports.                                                      *)

\* A set of numbers up to n that has 0, and with each number the next, has all.
LEMMA UpTo ==
    ASSUME NEW n \in Nat, NEW T, 0 \in T, \A i \in 1 .. n : i - 1 \in T => i \in T
    PROVE  \A i \in 0 .. n : i \in T
<1> DEFINE rest == {i \in 0 .. n : i \notin T}
<1>1. rest \in SUBSET Nat
  OBVIOUS
<1>2. rest = {}
  <2> SUFFICES ASSUME rest # {} PROVE FALSE
    OBVIOUS
  <2>1. PICK m \in rest : \A y \in rest : <<y, m>> \notin OpToRel(<, Nat)
    <3> HIDE DEF rest
    <3> QED
      BY <1>1, NatLessThanWellFounded, WFMin
  <2>2. m \in 1 .. n /\ m \notin T
    OBVIOUS
  <2>3. m - 1 \in 0 .. n /\ m - 1 \in Nat /\ m - 1 < m /\ m \in Nat
    BY <2>2
  <2>4. m - 1 \notin T
    BY <2>2, <2>3
  <2>5. m - 1 \in rest
    BY <2>3, <2>4
  <2> HIDE DEF rest
  <2> QED
    BY <2>1, <2>3, <2>5 DEF OpToRel
<1> QED
  BY <1>2

\* What comes of x when g is applied again and again.
Applied(f, V, g, x, n) ==
    /\ f \in [0 .. n -> V]
    /\ f[0] = x
    /\ \A i \in 1 .. n : f[i] = g[f[i - 1]]

LEMMA Iterated ==
    ASSUME NEW V, NEW g \in [V -> V], NEW x \in V, NEW n \in Nat
    PROVE  \E f : Applied(f, V, g, x, n)
<1> DEFINE T == {i \in 0 .. n : \E f : Applied(f, V, g, x, i)}
<1>1. 0 \in T
  <2>1. Applied([i \in 0 .. 0 |-> x], V, g, x, 0)
    BY DEF Applied
  <2> QED
    BY <2>1
<1>2. ASSUME NEW m \in 1 .. n, m - 1 \in T PROVE m \in T
  <2>1. PICK f : Applied(f, V, g, x, m - 1)
    BY <1>2
  <2> DEFINE h == [i \in 0 .. m |-> IF i = m THEN g[f[m - 1]] ELSE f[i]]
  <2>2. m \in Nat /\ m >= 1 /\ m - 1 \in 0 .. m - 1
    OBVIOUS
  <2>3. f[m - 1] \in V /\ g[f[m - 1]] \in V /\ \A i \in 0 .. m - 1 : f[i] \in V
    BY <2>1, <2>2 DEF Applied
  <2>4. h \in [0 .. m -> V]
    <3> SUFFICES ASSUME NEW i \in 0 .. m PROVE (IF i = m THEN g[f[m - 1]] ELSE f[i]) \in V
      OBVIOUS
    <3>1. i # m => i \in 0 .. m - 1
      BY <2>2
    <3> QED
      BY <2>3, <3>1
  <2>5. \A i \in 0 .. m - 1 : h[i] = f[i]
    BY <2>2
  <2>6. h[m] = g[f[m - 1]]
    BY <2>2
  <2> HIDE DEF h
  <2>7. h[0] = x
    BY <2>1, <2>2, <2>5 DEF Applied
  <2>8. ASSUME NEW i \in 1 .. m PROVE h[i] = g[h[i - 1]]
    <3>1. i - 1 \in 0 .. m - 1 /\ (i # m => i \in 1 .. m - 1 /\ i \in 0 .. m - 1)
      BY <2>2
    <3>2. h[i - 1] = f[i - 1]
      BY <2>5, <3>1
    <3>3. CASE i = m
      BY <2>6, <3>2, <3>3
    <3>4. CASE i # m
      BY <2>1, <2>5, <3>1, <3>2, <3>4 DEF Applied
    <3> QED
      BY <3>3, <3>4
  <2>9. Applied(h, V, g, x, m)
    BY <2>4, <2>7, <2>8 DEF Applied
  <2> QED
    BY <2>2, <2>9
<1> HIDE DEF T
<1>3. n \in T
  <2>1. \A i \in 0 .. n : i \in T
    BY <1>1, <1>2, UpTo
  <2> QED
    BY <2>1
<1> QED
  BY <1>3 DEF T

Count == Cardinality(Modules)
Onward(k) == source[k].exports \cap Modules
Further(some) == some \cup UNION {Onward(k) : k \in some}
IsClosed(some) == \A k \in some : Onward(k) \subseteq some

LEMMA ModulesCount == Count \in Nat /\ IsFiniteSet(Modules)
BY AngularAssumption, FS_CardinalityType DEF Count

LEMMA ChainGrows ==
    ASSUME NEW m \in Modules
    PROVE  \E far \in [0 .. Count -> SUBSET Modules] :
              /\ far[0] = {m} /\ Chain(m) = far[Count]
              /\ \A n \in 1 .. Count : far[n] = Further(far[n - 1])
<1> DEFINE Is(f) == f = [n \in 0 .. Count |->
               IF n = 0 THEN {m}
               ELSE f[n - 1] \cup UNION {source[k].exports \cap Modules : k \in f[n - 1]}]
           g == [some \in SUBSET Modules |-> Further(some)]
<1>1. g \in [SUBSET Modules -> SUBSET Modules]
  BY DEF Further, Onward
<1>2. PICK f : Applied(f, SUBSET Modules, g, {m}, Count)
  BY <1>1, Iterated, ModulesCount
<1>3. \A n \in 1 .. Count : n - 1 \in 0 .. Count /\ n # 0
  BY ModulesCount
<1>4. \A n \in 1 .. Count : f[n] = Further(f[n - 1])
  BY <1>2, <1>3 DEF Applied
<1>5. Is(f)
  <2>1. f = [n \in 0 .. Count |-> f[n]] /\ f[0] = {m}
    BY <1>2 DEF Applied
  <2>2. ASSUME NEW n \in 0 .. Count
        PROVE  f[n] = IF n = 0 THEN {m}
                      ELSE f[n - 1] \cup UNION {source[k].exports \cap Modules : k \in f[n - 1]}
    <3>1. n # 0 => n \in 1 .. Count
      BY ModulesCount
    <3> QED
      BY <1>4, <2>1, <3>1 DEF Further, Onward
  <2> QED
    BY <2>1, <2>2
<1>6. PICK h : h = CHOOSE f1 : Is(f1)
  OBVIOUS
<1>7. Is(h)
  BY <1>5, <1>6
<1>8. Chain(m) = h[Count]
  BY <1>6 DEF Chain, Count
<1>9. \A n \in 1 .. Count : n \in 0 .. Count /\ n # 0 /\ 0 \in 0 .. Count
  BY ModulesCount
<1>10. h[0] = {m} /\ \A n \in 1 .. Count : h[n] = Further(h[n - 1])
  <2>1. 0 \in 0 .. Count
    BY ModulesCount
  <2> QED
    BY <1>7, <1>9, <2>1 DEF Further, Onward
<1>11. \A n \in 0 .. Count : h[n] \in SUBSET Modules
  <2> DEFINE T == {n \in 0 .. Count : h[n] \in SUBSET Modules}
  <2>1. 0 \in T
    BY <1>10, ModulesCount
  <2>2. \A n \in 1 .. Count : n - 1 \in T => n \in T
    BY <1>9, <1>10 DEF Further, Onward
  <2> HIDE DEF T
  <2>3. \A n \in 0 .. Count : n \in T
    BY <2>1, <2>2, ModulesCount, UpTo
  <2> QED
    BY <2>3 DEF T
<1>12. h \in [0 .. Count -> SUBSET Modules]
  BY <1>7, <1>11
<1> QED
  BY <1>8, <1>10, <1>12

\* More of a set of modules.
LEMMA MoreModules ==
    ASSUME NEW some \in SUBSET Modules, NEW more \in SUBSET Modules, some \subseteq more
    PROVE  /\ Cardinality(some) \in Nat /\ Cardinality(more) \in Nat /\ Cardinality(more) <= Count
           /\ some # more => Cardinality(some) < Cardinality(more)
<1>1. IsFiniteSet(more) /\ IsFiniteSet(some) /\ Cardinality(more) <= Count
  BY ModulesCount, FS_Subset DEF Count
<1>2. Cardinality(some) \in Nat /\ Cardinality(more) \in Nat
  BY <1>1, FS_CardinalityType
<1>3. Cardinality(some) <= Cardinality(more)
      /\ (Cardinality(some) = Cardinality(more) => some = more)
  BY <1>1, FS_Subset
<1> QED
  BY <1>1, <1>2, <1>3

\* A chain that has not come to its end has gone to one module more with each
\* step; there are not that many.
LEMMA ChainFacts ==
    ASSUME NEW m \in Modules
    PROVE  /\ m \in Chain(m) /\ Chain(m) \in SUBSET Modules /\ IsClosed(Chain(m))
           /\ \A some : m \in some /\ IsClosed(some) => Chain(m) \subseteq some
<1>1. PICK far \in [0 .. Count -> SUBSET Modules] :
          /\ far[0] = {m} /\ Chain(m) = far[Count]
          /\ \A n \in 1 .. Count : far[n] = Further(far[n - 1])
  BY ChainGrows
<1>2. \A n \in 1 .. Count : n - 1 \in 0 .. Count /\ n \in 0 .. Count
  BY ModulesCount
<1>3. Count \in Nat /\ 0 \in 0 .. Count /\ Count \in 0 .. Count
  BY ModulesCount
<1>4. m \in Chain(m)
  <2> DEFINE T == {n \in 0 .. Count : m \in far[n]}
  <2>1. 0 \in T
    BY <1>1, <1>3
  <2>2. \A n \in 1 .. Count : n - 1 \in T => n \in T
    BY <1>1, <1>2 DEF Further
  <2> HIDE DEF T
  <2>3. Count \in T
    BY <1>3, <2>1, <2>2, UpTo
  <2> QED
    BY <1>1, <2>3 DEF T
<1>5. IsClosed(Chain(m))
  <2> DEFINE T == {n \in 0 .. Count : IsClosed(far[n]) \/ Cardinality(far[n]) > n}
  <2>1. 0 \in T
    <3>1. Cardinality(far[0]) = 1
      BY <1>1, FS_Singleton
    <3> QED
      BY <1>3, <3>1
  <2>2. ASSUME NEW n \in 1 .. Count, n - 1 \in T PROVE n \in T
    <3>1. far[n - 1] \in SUBSET Modules /\ far[n] \in SUBSET Modules
      BY <1>1, <1>2
    <3>2. far[n] = Further(far[n - 1])
      BY <1>1
    <3>3. CASE IsClosed(far[n - 1])
      <4>1. far[n] = far[n - 1]
        BY <3>2, <3>3 DEF Further, IsClosed
      <4> QED
        BY <1>2, <3>3, <4>1
    <3>4. CASE ~IsClosed(far[n - 1])
      <4>1. far[n - 1] \subseteq far[n] /\ far[n - 1] # far[n]
        BY <3>2, <3>4 DEF Further, IsClosed
      <4>2. Cardinality(far[n - 1]) > n - 1
        BY <2>2, <3>4
      <4>3. Cardinality(far[n - 1]) < Cardinality(far[n])
            /\ Cardinality(far[n - 1]) \in Nat /\ Cardinality(far[n]) \in Nat
        BY <3>1, <4>1, MoreModules
      <4>4. Cardinality(far[n]) > n
        BY <1>3, <4>2, <4>3
      <4> QED
        BY <1>2, <4>4
    <3> QED
      BY <3>3, <3>4
  <2> HIDE DEF T
  <2>3. Count \in T
    BY <1>3, <2>1, <2>2, UpTo
  <2>4. IsClosed(far[Count]) \/ Cardinality(far[Count]) > Count
    BY <2>3 DEF T
  <2>5. Cardinality(far[Count]) <= Count /\ Cardinality(far[Count]) \in Nat
    BY <1>1, <1>3, MoreModules
  <2> QED
    BY <1>1, <1>3, <2>4, <2>5
<1>6. ASSUME NEW some, m \in some, IsClosed(some) PROVE Chain(m) \subseteq some
  <2> DEFINE T == {n \in 0 .. Count : far[n] \subseteq some}
  <2>1. 0 \in T
    BY <1>1, <1>3, <1>6
  <2>2. \A n \in 1 .. Count : n - 1 \in T => n \in T
    BY <1>1, <1>2, <1>6 DEF Further, IsClosed
  <2> HIDE DEF T
  <2>3. Count \in T
    BY <1>3, <2>1, <2>2, UpTo
  <2> QED
    BY <1>1, <2>3 DEF T
<1> QED
  BY <1>1, <1>3, <1>4, <1>5, <1>6

LEMMA ChainFurther ==
    ASSUME NEW m \in Modules
    PROVE  /\ \A k \in Onward(m) : k \in Modules /\ Chain(k) \subseteq Chain(m)
           /\ Chain(m) = {m} \cup UNION {Chain(k) : k \in Onward(m)}
<1>1. \A k \in Onward(m) : k \in Modules
  BY DEF Onward
<1>2. \A k \in Onward(m) : k \in Chain(m)
  BY ChainFacts DEF IsClosed
<1>3. \A k \in Onward(m) : Chain(k) \subseteq Chain(m)
  BY <1>1, <1>2, ChainFacts
<1> DEFINE all == {m} \cup UNION {Chain(k) : k \in Onward(m)}
<1>4. IsClosed(all)
  <2> SUFFICES ASSUME NEW k \in all, NEW j \in Onward(k) PROVE j \in all
    BY DEF IsClosed
  <2>1. CASE k = m
    <3>1. j \in Chain(j)
      BY <1>1, <2>1, ChainFacts
    <3> QED
      BY <2>1, <3>1
  <2>2. CASE k # m
    <3>1. PICK i \in Onward(m) : k \in Chain(i)
      BY <2>2
    <3>2. j \in Chain(i)
      BY <1>1, <3>1, ChainFacts DEF IsClosed
    <3> QED
      BY <3>2
  <2> QED
    BY <2>1, <2>2
<1>5. Chain(m) \subseteq all
  <2>1. m \in all
    OBVIOUS
  <2> HIDE DEF all
  <2> QED
    BY <1>4, <2>1, ChainFacts
<1>6. all \subseteq Chain(m)
  BY <1>3, ChainFacts
<1> QED
  BY <1>1, <1>3, <1>5, <1>6

-----------------------------------------------------------------------------
(* What GetExportedThings finds.                                           *)

Found == (SUBSET Things) \cup {Endless}
Kept == exported \in [Modules -> (SUBSET Things) \cup {None}]

\* What a module not cached exports, if a call for another gives what is in row.
Of(row, m) ==
    LET inner == {row[k] : k \in PassedOn(m) \cap Modules}
    IN  IF Endless \in inner THEN Endless
        ELSE (PassedOn(m) \cap Things) \cup UNION inner

\* What calls nested at most n deep find.
Rows(row) ==
    /\ row \in [0 .. Count -> [Modules -> Found]]
    /\ \A m \in Modules : row[0][m] = IF Cached(m) THEN exported[m] ELSE Endless
    /\ \A n \in 1 .. Count : \A m \in Modules :
          row[n][m] = IF Cached(m) THEN exported[m] ELSE Of(row[n - 1], m)
    /\ \A m \in Modules : Exported(m) = row[Count][m]

LEMMA FoundDistinct == Endless \notin SUBSET Things /\ None \notin SUBSET Things
BY AngularAssumption

LEMMA OfFound ==
    ASSUME NEW row \in [Modules -> Found], NEW m \in Modules
    PROVE  Of(row, m) \in Found
<1>1. \A k \in PassedOn(m) \cap Modules : row[k] \in Found
  OBVIOUS
<1> QED
  BY <1>1 DEF Of, Found

LEMMA RowsExist == ASSUME Kept PROVE \E row : Rows(row)
<1> DEFINE Turned(f, n, m) ==
               IF Cached(m) THEN exported[m] ELSE IF n = 0 THEN Endless ELSE Of(f[n - 1], m)
           Is(f) == f = [n \in 0 .. Cardinality(Modules) |-> [m \in Modules |-> Turned(f, n, m)]]
           g == [row \in [Modules -> Found] |->
                    [m \in Modules |-> IF Cached(m) THEN exported[m] ELSE Of(row, m)]]
           first == [m \in Modules |-> IF Cached(m) THEN exported[m] ELSE Endless]
<1>1. \A m \in Modules : Cached(m) => exported[m] \in Found
  BY DEF Cached, Kept, Found
<1>2. first \in [Modules -> Found]
  BY <1>1 DEF Found
<1>3. g \in [[Modules -> Found] -> [Modules -> Found]]
  BY <1>1, OfFound
<1>4. PICK f : Applied(f, [Modules -> Found], g, first, Count)
  <2> HIDE DEF g, first
  <2> QED
    BY <1>2, <1>3, Iterated, ModulesCount
<1>5. f \in [0 .. Count -> [Modules -> Found]] /\ f[0] = first
  BY <1>4 DEF Applied
<1>6. ASSUME NEW n \in 1 .. Count, NEW m \in Modules
      PROVE  f[n][m] = IF Cached(m) THEN exported[m] ELSE Of(f[n - 1], m)
  <2>1. n - 1 \in 0 .. Count
    BY ModulesCount
  <2>2. f[n - 1] \in [Modules -> Found]
    BY <1>5, <2>1
  <2>3. f[n] = g[f[n - 1]]
    BY <1>4 DEF Applied
  <2> QED
    BY <2>2, <2>3
<1>7. ASSUME NEW n \in 0 .. Count, NEW m \in Modules
      PROVE  f[n][m] = Turned(f, n, m)
  <2>1. CASE n = 0
    BY <1>5, <2>1
  <2>2. CASE n # 0
    <3>1. n \in 1 .. Count
      BY <2>2, ModulesCount
    <3> QED
      BY <1>6, <2>2, <3>1
  <2> QED
    BY <2>1, <2>2
<1> HIDE DEF Turned, first, g
<1>8. Is(f)
  <2>1. ASSUME NEW n \in 0 .. Count PROVE f[n] = [m \in Modules |-> Turned(f, n, m)]
    <3>1. f[n] = [m \in Modules |-> f[n][m]]
      BY <1>5
    <3> QED
      BY <1>7, <3>1
  <2>2. f = [n \in 0 .. Count |-> f[n]]
    BY <1>5
  <2> QED
    BY <2>1, <2>2 DEF Count
<1>9. PICK h : h = CHOOSE f1 : Is(f1)
  OBVIOUS
<1>10. Is(h)
  BY <1>8, <1>9
<1>11. \A m \in Modules : Exported(m) = h[Count][m]
  BY <1>9 DEF Exported, ExportedWithin, Count, Turned, Of
<1>12. 0 \in 0 .. Count /\ Count \in 0 .. Count
       /\ \A n \in 1 .. Count : n - 1 \in 0 .. Count /\ n \in 0 .. Count /\ n # 0
  BY ModulesCount
<1>13. \A n \in 0 .. Count : \A m \in Modules :
           h[n][m] = Turned(h, n, m)
  <2> SUFFICES ASSUME NEW n \in 0 .. Count PROVE \A m \in Modules : h[n][m] = Turned(h, n, m)
    OBVIOUS
  <2>1. h[n] = [m \in Modules |-> Turned(h, n, m)]
    BY <1>10 DEF Count
  <2> QED
    BY <2>1
<1>14. /\ \A m \in Modules : h[0][m] = IF Cached(m) THEN exported[m] ELSE Endless
       /\ \A n \in 1 .. Count : \A m \in Modules :
             h[n][m] = IF Cached(m) THEN exported[m] ELSE Of(h[n - 1], m)
  BY <1>12, <1>13 DEF Turned
<1>15. \A n \in 0 .. Count : h[n] \in [Modules -> Found]
  <2> DEFINE T == {n \in 0 .. Count : h[n] \in [Modules -> Found]}
  <2>0. \A n \in 0 .. Count : h[n] = [k \in Modules |-> h[n][k]]
    BY <1>10 DEF Count
  <2>1. 0 \in T
    <3>1. \A m \in Modules : h[0][m] \in Found
      BY <1>1, <1>14 DEF Found
    <3> QED
      BY <1>12, <2>0, <3>1
  <2>2. ASSUME NEW n \in 1 .. Count, n - 1 \in T PROVE n \in T
    <3>1. h[n - 1] \in [Modules -> Found]
      BY <2>2
    <3>2. \A m \in Modules : h[n][m] \in Found
      BY <1>1, <1>14, <3>1, OfFound
    <3> QED
      BY <1>12, <2>0, <3>2
  <2> HIDE DEF T
  <2>3. \A n \in 0 .. Count : n \in T
    BY <2>1, <2>2, ModulesCount, UpTo
  <2> QED
    BY <2>3 DEF T
<1>16. h \in [0 .. Count -> [Modules -> Found]]
  <2>1. h = [n \in 0 .. Count |-> h[n]]
    BY <1>10 DEF Count
  <2> QED
    BY <1>15, <2>1
<1> QED
  BY <1>11, <1>14, <1>16 DEF Rows

LEMMA OfEndless ==
    ASSUME NEW row \in [Modules -> Found], NEW m \in Modules
    PROVE  /\ Of(row, m) = Endless <=> \E k \in Onward(m) : row[k] = Endless
           /\ Of(row, m) # Endless =>
                  Of(row, m) = (source[m].exports \cap Things) \cup UNION {row[k] : k \in Onward(m)}
<1>1. PassedOn(m) \cap Modules = Onward(m) /\ PassedOn(m) = source[m].exports
  BY DEF PassedOn, Onward
<1>2. PICK inner : inner = {row[k] : k \in Onward(m)}
  OBVIOUS
<1>3. Of(row, m) = IF Endless \in inner THEN Endless
                   ELSE (source[m].exports \cap Things) \cup UNION inner
  BY <1>1, <1>2 DEF Of
<1>4. \A k \in Onward(m) : row[k] \in Found
  BY DEF Onward
<1>5. Endless \notin inner => (source[m].exports \cap Things) \cup UNION inner \in SUBSET Things
  BY <1>2, <1>4 DEF Found
<1> QED
  BY <1>2, <1>3, <1>5, FoundDistinct

\* A call that ends finds the same however much deeper it might go.
LEMMA DeeperSame ==
    ASSUME Kept, NEW row, Rows(row), NEW n \in 1 .. Count, NEW m \in Modules,
           row[n - 1][m] # Endless
    PROVE  row[n][m] = row[n - 1][m]
<1> DEFINE T == {i \in 0 .. Count : i = Count \/
                   \A k \in Modules : row[i][k] # Endless => row[i + 1][k] = row[i][k]}
<1>1. \A i \in 0 .. Count : row[i] \in [Modules -> Found]
  BY DEF Rows
<1>2. 0 \in T
  <2>1. 0 \in 0 .. Count /\ (0 # Count => 0 + 1 \in 1 .. Count /\ (0 + 1) - 1 = 0)
    BY ModulesCount
  <2>2. ASSUME 0 # Count, NEW k \in Modules, row[0][k] # Endless PROVE row[0 + 1][k] = row[0][k]
    <3>1. Cached(k) /\ row[0][k] = exported[k]
      BY <2>2 DEF Rows
    <3> QED
      BY <2>1, <2>2, <3>1 DEF Rows
  <2> QED
    BY <2>1, <2>2
<1>3. ASSUME NEW i \in 1 .. Count, i - 1 \in T PROVE i \in T
  <2>1. i \in 0 .. Count /\ i - 1 \in 0 .. Count /\ i - 1 # Count /\ (i - 1) + 1 = i
        /\ (i # Count => i + 1 \in 1 .. Count /\ (i + 1) - 1 = i)
    BY ModulesCount
  <2>2. \A k \in Modules : row[i - 1][k] # Endless => row[i][k] = row[i - 1][k]
    BY <1>3, <2>1
  <2>3. ASSUME i # Count, NEW k \in Modules, row[i][k] # Endless PROVE row[i + 1][k] = row[i][k]
    <3>1. CASE Cached(k)
      BY <2>1, <2>3, <3>1 DEF Rows
    <3>2. CASE ~Cached(k)
      <4>1. row[i][k] = Of(row[i - 1], k) /\ row[i + 1][k] = Of(row[i], k)
        BY <2>1, <2>3, <3>2 DEF Rows
      <4>2. row[i - 1] \in [Modules -> Found] /\ row[i] \in [Modules -> Found]
        BY <1>1, <2>1
      <4>3. \A j \in Onward(k) : row[i - 1][j] # Endless
        BY <2>3, <4>1, <4>2, OfEndless
      <4>4. \A j \in Onward(k) : row[i][j] = row[i - 1][j]
        BY <2>2, <4>3 DEF Onward
      <4>5. \A j \in PassedOn(k) \cap Modules : row[i][j] = row[i - 1][j]
        BY <4>4 DEF Onward, PassedOn
      <4>6. {row[i][j] : j \in PassedOn(k) \cap Modules} = {row[i - 1][j] : j \in PassedOn(k) \cap Modules}
        BY <4>5
      <4> QED
        BY <4>1, <4>6 DEF Of
    <3> QED
      BY <3>1, <3>2
  <2> QED
    BY <2>1, <2>3
<1> HIDE DEF T
<1>4. n - 1 \in 0 .. Count /\ n - 1 # Count /\ (n - 1) + 1 = n
  BY ModulesCount
<1>5. n - 1 \in T
  BY <1>2, <1>3, <1>4, ModulesCount, UpTo
<1> QED
  BY <1>4, <1>5 DEF T

\* The modules that a call goes on to end when it does.
LEMMA ExportedFacts ==
    ASSUME Kept, NEW m \in Modules
    PROVE  /\ Exported(m) \in Found
           /\ Cached(m) => Exported(m) = exported[m] /\ Exported(m) # Endless
           /\ ~Cached(m) /\ Exported(m) # Endless => \A k \in Onward(m) : Exported(k) # Endless
<1>1. PICK row : Rows(row)
  BY RowsExist
<1>2. Count \in 0 .. Count
  BY ModulesCount
<1>3. Exported(m) = row[Count][m] /\ row[Count] \in [Modules -> Found]
  BY <1>1, <1>2 DEF Rows
<1>4. Count \in 1 .. Count /\ Count - 1 \in 0 .. Count
  <2>1. Count # 0
    BY ModulesCount, FS_EmptySet DEF Count
  <2> QED
    BY <2>1, ModulesCount
<1>5. row[Count][m] = IF Cached(m) THEN exported[m] ELSE Of(row[Count - 1], m)
  BY <1>1, <1>4 DEF Rows
<1>6. Cached(m) => exported[m] \in SUBSET Things
  BY DEF Kept, Cached
<1>7. ASSUME ~Cached(m), Exported(m) # Endless, NEW k \in Onward(m) PROVE Exported(k) # Endless
  <2>1. row[Count - 1] \in [Modules -> Found]
    BY <1>1, <1>4 DEF Rows
  <2>2. row[Count - 1][k] # Endless /\ k \in Modules
    BY <1>3, <1>5, <1>7, <2>1, OfEndless DEF Onward
  <2>3. row[Count][k] = row[Count - 1][k]
    BY <1>1, <1>4, <2>2, DeeperSame
  <2> QED
    BY <1>1, <2>2, <2>3 DEF Rows
<1> QED
  BY <1>3, <1>5, <1>6, <1>7, FoundDistinct

\* A call that does not end has gone in a circle.
Circle == \E m \in Modules : \E k \in source[m].exports \cap Modules : m \in Chain(k)

LEMMA EndlessInCircle ==
    ASSUME Kept, NEW m \in Modules, Exported(m) = Endless
    PROVE  Circle
<1> SUFFICES ASSUME ~Circle PROVE FALSE
  OBVIOUS
<1>1. PICK row : Rows(row)
  BY RowsExist
<1>2. Count \in 0 .. Count /\ 0 \in 0 .. Count /\ Count \in Nat
  BY ModulesCount
<1>3. \A k \in Modules : Cached(k) => exported[k] # Endless
  BY FoundDistinct DEF Kept, Cached
<1> DEFINE T == {n \in 0 .. Count :
                   \A k \in Modules : row[n][k] = Endless => Cardinality(Chain(k)) > n}
<1>4. 0 \in T
  <2>1. ASSUME NEW k \in Modules PROVE Cardinality(Chain(k)) > 0
    <3>1. k \in Chain(k) /\ Chain(k) \in SUBSET Modules
      BY ChainFacts
    <3>2. {k} \in SUBSET Modules /\ {k} \subseteq Chain(k) /\ Cardinality({k}) = 1
      BY <3>1, FS_Singleton
    <3>3. {k} # Chain(k) => Cardinality({k}) < Cardinality(Chain(k))
      BY <3>1, <3>2, MoreModules
    <3>4. Cardinality(Chain(k)) \in Nat
      BY <3>1, MoreModules
    <3> QED
      BY <3>2, <3>3, <3>4
  <2> QED
    BY <1>2, <2>1
<1>5. ASSUME NEW n \in 1 .. Count, n - 1 \in T PROVE n \in T
  <2>1. n \in 0 .. Count /\ n - 1 \in 0 .. Count
    BY <1>2
  <2>2. ASSUME NEW k \in Modules, row[n][k] = Endless PROVE Cardinality(Chain(k)) > n
    <3>1. ~Cached(k) /\ Of(row[n - 1], k) = Endless
      BY <1>1, <1>3, <2>2 DEF Rows
    <3>2. row[n - 1] \in [Modules -> Found]
      BY <1>1, <2>1 DEF Rows
    <3>3. PICK j \in Onward(k) : row[n - 1][j] = Endless
      BY <3>1, <3>2, OfEndless
    <3>4. j \in Modules /\ Chain(j) \subseteq Chain(k)
      BY ChainFurther
    <3>5. k \notin Chain(j)
      BY <3>3 DEF Circle, Onward
    <3>6. k \in Chain(k) /\ Chain(j) \in SUBSET Modules /\ Chain(k) \in SUBSET Modules
      BY <3>4, ChainFacts
    <3>7. Cardinality(Chain(j)) < Cardinality(Chain(k))
          /\ Cardinality(Chain(j)) \in Nat /\ Cardinality(Chain(k)) \in Nat
      BY <3>4, <3>5, <3>6, MoreModules
    <3>8. Cardinality(Chain(j)) > n - 1
      BY <1>5, <3>3, <3>4
    <3> QED
      BY <1>2, <3>7, <3>8
  <2> QED
    BY <2>1, <2>2
<1> HIDE DEF T
<1>6. Count \in T
  BY <1>2, <1>4, <1>5, UpTo
<1>7. Cardinality(Chain(m)) > Count
  BY <1>1, <1>6 DEF T, Rows
<1>8. Chain(m) \in SUBSET Modules
  BY ChainFacts
<1>9. Cardinality(Chain(m)) <= Count /\ Cardinality(Chain(m)) \in Nat
  BY <1>8, MoreModules
<1> QED
  BY <1>2, <1>7, <1>9

\* Without the cache, a call that ends finds what a chain of exports leads to.
Led(m) == (UNION {source[k].exports : k \in Chain(m)}) \cap Things

LEMMA LedFurther ==
    ASSUME NEW m \in Modules
    PROVE  Led(m) = (source[m].exports \cap Things) \cup UNION {Led(k) : k \in Onward(m)}
<1>1. Chain(m) = {m} \cup UNION {Chain(k) : k \in Onward(m)}
  BY ChainFurther
<1> HIDE DEF Onward
<1>2. ASSUME NEW x PROVE x \in Led(m) <=> x \in (source[m].exports \cap Things) \cup UNION {Led(k) : k \in Onward(m)}
  <2>1. x \in Led(m) <=> x \in Things /\ \E k \in Chain(m) : x \in source[k].exports
    BY DEF Led
  <2>2. (\E k \in Chain(m) : x \in source[k].exports) <=>
            x \in source[m].exports \/ \E j \in Onward(m) : \E k \in Chain(j) : x \in source[k].exports
    BY <1>1
  <2>3. \A j : x \in Led(j) <=> x \in Things /\ \E k \in Chain(j) : x \in source[k].exports
    BY DEF Led
  <2> QED
    BY <2>1, <2>2, <2>3
<1> QED
  BY <1>2

LEMMA ExportedLed ==
    ASSUME Kept, ~caching, NEW m \in Modules, Exported(m) # Endless
    PROVE  Exported(m) = Led(m)
<1>1. PICK row : Rows(row)
  BY RowsExist
<1>2. Count \in 0 .. Count /\ 0 \in 0 .. Count /\ Count \in Nat
  BY ModulesCount
<1>3. \A k \in Modules : ~Cached(k)
  BY DEF Cached
<1> DEFINE T == {n \in 0 .. Count : \A k \in Modules : row[n][k] # Endless => row[n][k] = Led(k)}
<1>4. 0 \in T
  BY <1>1, <1>2, <1>3 DEF Rows
<1>5. ASSUME NEW n \in 1 .. Count, n - 1 \in T PROVE n \in T
  <2>1. n \in 0 .. Count /\ n - 1 \in 0 .. Count
    BY <1>2
  <2>2. ASSUME NEW k \in Modules, row[n][k] # Endless PROVE row[n][k] = Led(k)
    <3>1. row[n][k] = Of(row[n - 1], k) /\ row[n - 1] \in [Modules -> Found]
      BY <1>1, <1>3, <2>1 DEF Rows
    <3>2. \A j \in Onward(k) : row[n - 1][j] # Endless
      BY <2>2, <3>1, OfEndless
    <3>3. \A j \in Onward(k) : row[n - 1][j] = Led(j)
      BY <1>5, <3>2 DEF Onward
    <3>4. row[n][k] = (source[k].exports \cap Things) \cup UNION {row[n - 1][j] : j \in Onward(k)}
      BY <2>2, <3>1, OfEndless
    <3>5. {row[n - 1][j] : j \in Onward(k)} = {Led(j) : j \in Onward(k)}
      BY <3>3
    <3> QED
      BY <3>4, <3>5, LedFurther
  <2> QED
    BY <2>1, <2>2
<1> HIDE DEF T
<1>6. Count \in T
  BY <1>2, <1>4, <1>5, UpTo
<1> QED
  BY <1>1, <1>6 DEF T, Rows

-----------------------------------------------------------------------------
(* What is kept of a question that ends, and where one that does not was.   *)

\* The modules that a question goes to are led to by those it ends for.
LEMMA WalkedEnds ==
    ASSUME Kept, NEW roots \in SUBSET Modules, \A m \in roots : Exported(m) # Endless
    PROVE  \A m \in Walked(roots) : m \in Modules /\ Exported(m) # Endless
<1> DEFINE More(some) == some \cup UNION {PassedOn(m) \cap Modules : m \in {k \in some : ~Cached(k)}}
           Is(f) == f = [n \in 0 .. Cardinality(Modules) |->
                            IF n = 0 THEN roots ELSE More(f[n - 1])]
           g == [some \in SUBSET Modules |-> More(some)]
<1>1. g \in [SUBSET Modules -> SUBSET Modules]
  OBVIOUS
<1>2. PICK f : Applied(f, SUBSET Modules, g, roots, Count)
  <2> HIDE DEF g
  <2> QED
    BY <1>1, Iterated, ModulesCount
<1>3. f \in [0 .. Count -> SUBSET Modules] /\ f[0] = roots
  BY <1>2 DEF Applied
<1>4. \A n \in 1 .. Count : n - 1 \in 0 .. Count /\ n \in 0 .. Count /\ n # 0
  BY ModulesCount
<1>5. 0 \in 0 .. Count /\ Count \in 0 .. Count /\ \A n \in 0 .. Count : n # 0 => n \in 1 .. Count
  BY ModulesCount
<1>6. ASSUME NEW n \in 1 .. Count PROVE f[n] = More(f[n - 1])
  <2>1. f[n] = g[f[n - 1]] /\ f[n - 1] \in SUBSET Modules
    BY <1>2, <1>3, <1>4 DEF Applied
  <2> HIDE DEF More
  <2> QED
    BY <2>1
<1> HIDE DEF More, g
<1>7. Is(f)
  <2>1. ASSUME NEW n \in 0 .. Count PROVE f[n] = IF n = 0 THEN roots ELSE More(f[n - 1])
    BY <1>3, <1>5, <1>6
  <2>2. f = [n \in 0 .. Count |-> f[n]]
    BY <1>3
  <2> QED
    BY <2>1, <2>2 DEF Count
<1>8. PICK h : h = CHOOSE f1 : Is(f1)
  OBVIOUS
<1>9. Is(h)
  BY <1>7, <1>8
<1>10. Walked(roots) = h[Count]
  BY <1>8 DEF Walked, Count, More
<1>11. h[0] = roots /\ \A n \in 1 .. Count : h[n] = More(h[n - 1])
  <2> SUFFICES ASSUME NEW n \in 0 .. Count
               PROVE  h[n] = IF n = 0 THEN roots ELSE More(h[n - 1])
    BY <1>4, <1>5
  <2> QED
    BY <1>9 DEF Count
<1> DEFINE T == {n \in 0 .. Count : \A m \in h[n] : m \in Modules /\ Exported(m) # Endless}
<1>12. 0 \in T
  BY <1>5, <1>11
<1>13. ASSUME NEW n \in 1 .. Count, n - 1 \in T PROVE n \in T
  <2>1. ASSUME NEW m \in h[n] PROVE m \in Modules /\ Exported(m) # Endless
    <3>1. \A k \in h[n - 1] : k \in Modules /\ Exported(k) # Endless
      BY <1>13
    <3>2. m \in h[n - 1] \/ \E k \in h[n - 1] : ~Cached(k) /\ m \in PassedOn(k) \cap Modules
      BY <1>11 DEF More
    <3>3. CASE m \in h[n - 1]
      BY <3>1, <3>3
    <3>4. CASE m \notin h[n - 1]
      <4>1. PICK k \in h[n - 1] : ~Cached(k) /\ m \in PassedOn(k) \cap Modules
        BY <3>2, <3>4
      <4>2. m \in Onward(k)
        BY <4>1 DEF Onward, PassedOn
      <4> QED
        BY <3>1, <4>1, <4>2, ExportedFacts
    <3> QED
      BY <3>3, <3>4
  <2> QED
    BY <1>4, <2>1
<1> HIDE DEF T
<1>14. Count \in T
  BY <1>5, <1>12, <1>13, ModulesCount, UpTo
<1> QED
  BY <1>10, <1>14 DEF T

LEMMA KeepingKeeps ==
    ASSUME Kept, NEW roots \in SUBSET Modules, \A m \in roots : Exported(m) # Endless,
           KeepExported(roots)
    PROVE  Kept'
<1>1. \A m \in Walked(roots) : Exported(m) # Endless
  BY WalkedEnds
<1>2. ASSUME NEW m \in Modules, m \in Walked(roots) PROVE Exported(m) \in SUBSET Things
  BY <1>1, <1>2, ExportedFacts DEF Found
<1>3. exported' = [m \in Modules |->
          IF m \in Walked(roots) /\ ~Cached(m) THEN Exported(m) ELSE exported[m]]
  BY DEF KeepExported
<1>4. ASSUME NEW m \in Modules
      PROVE  (IF m \in Walked(roots) /\ ~Cached(m) THEN Exported(m) ELSE exported[m])
                 \in (SUBSET Things) \cup {None}
  BY <1>2 DEF Kept
<1> QED
  BY <1>3, <1>4 DEF Kept

\* A circle does not depend on what is cached.
ChainsLeast ==
    \A m \in Modules :
        /\ m \in Chain(m) /\ IsClosed(Chain(m))
        /\ \A some : m \in some /\ IsClosed(some) => Chain(m) \subseteq some

LEMMA ChainsAreLeast == ChainsLeast
BY ChainFacts DEF ChainsLeast

LEMMA CircleStays == source' = source => (Circle' <=> Circle)
<1>1. ChainsLeast /\ ChainsLeast'
  BY ChainsAreLeast, PTL
<1> SUFFICES ASSUME source' = source PROVE Circle' <=> Circle
  OBVIOUS
<1>2. ASSUME NEW some PROVE IsClosed(some)' <=> IsClosed(some)
  BY DEF IsClosed, Onward
<1>3. ASSUME NEW m \in Modules PROVE Chain(m)' = Chain(m)
  <2>1. PICK old : old = Chain(m)
    OBVIOUS
  <2>2. PICK new : new = Chain(m)'
    OBVIOUS
  <2>3. m \in old /\ IsClosed(old) /\ \A some : m \in some /\ IsClosed(some) => old \subseteq some
    BY <1>1, <2>1 DEF ChainsLeast
  <2>4. m \in new /\ IsClosed(new) /\ \A some : m \in some /\ IsClosed(some) => new \subseteq some
    BY <1>1, <1>2, <2>2 DEF ChainsLeast
  <2> QED
    BY <2>1, <2>2, <2>3, <2>4
<1> QED
  BY <1>3 DEF Circle

-----------------------------------------------------------------------------
\* What the answers rest on: caches hold sets of things, files say what they
\* may, and the process has not ended but in a circle.
Held ==
    /\ Kept
    /\ \A k \in Edited : source[k] \in Sources[k]
    /\ ended => Circle

LEMMA InitHeld == Init => Held
<1> SUFFICES ASSUME Init PROVE Held
  OBVIOUS
<1>1. Kept /\ ~ended
  BY DEF Init, Kept
<1>2. \A k \in Edited : source[k] \in Sources[k]
  BY AngularAssumption DEF Init
<1> QED
  BY <1>1, <1>2 DEF Held

LEMMA ResetKeeps ==
    ASSUME Kept, NEW some, ResetThings(some)
    PROVE  Kept'
BY DEF Kept, ResetThings

LEMMA EditHolds ==
    ASSUME Inv, Held, Edit, NEW k \in Edited, NEW text \in Sources[k],
           source' = [source EXCEPT ![k] = text], NEW some, ResetThings(some)
    PROVE  Held'
<1>1. ~ended'
  BY DEF Edit, Idle, Serving
<1>2. Kept'
  BY ResetKeeps DEF Held
<1>3. \A j \in Edited : source'[j] \in Sources[j]
  BY DEF Inv, Shape, Held
<1> QED
  BY <1>1, <1>2, <1>3 DEF Held

\* The names that a component gathers from modules hold modules, some of them
\* in a circle if a question about them does not end.
LEMMA AskHolds ==
    ASSUME Held, NEW c \in Components, Ask(c)
    PROVE  Held'
<1>1. source' = source /\ (Circle' <=> Circle)
  BY CircleStays DEF Ask
<1>2. \A k \in Edited : source'[k] \in Sources[k]
  BY <1>1 DEF Held
<1>3. CASE AnswerCached(c)
  BY <1>1, <1>2, <1>3 DEF AnswerCached, caches, Held, Kept
<1>4. CASE AnswerAnew(c)
  <2> DEFINE roots == GatheredFrom(c, declaredIn[c]) \cap Modules
  <2>1. roots \in SUBSET Modules
    OBVIOUS
  <2>2. CASE \E m \in roots : Exported(m) = Endless
    <3>1. exported' = exported
      BY <1>4, <2>2 DEF AnswerAnew, caches
    <3>2. Circle
      BY <2>2, EndlessInCircle DEF Held
    <3> QED
      BY <1>1, <1>2, <3>1, <3>2 DEF Held, Kept
  <2>3. CASE ~\E m \in roots : Exported(m) = Endless
    <3>1. KeepExported(roots) /\ ended' = ended
      BY <1>4, <2>3 DEF AnswerAnew
    <3> HIDE DEF roots
    <3>2. Kept'
      BY <2>1, <2>3, <3>1, KeepingKeeps DEF Held
    <3> QED
      BY <1>1, <1>2, <3>1, <3>2 DEF Held
  <2> QED
    BY <2>2, <2>3
<1>5. CASE AnswerPanics(c)
  <2>1. PICK before \in SUBSET {m \in declaredIn[c] : source[m].lists} :
            LET roots == (UNION {Named(m) \cup source[m].imports : m \in before}) \cap Modules
            IN  IF \E m \in roots : Exported(m) = Endless
                THEN /\ ended' = TRUE
                     /\ UNCHANGED <<caches, resolved, answer>>
                ELSE /\ KeepExported(roots)
                     /\ resolved' = resolved \cup before
                     /\ Answer(c, Panicked)
                     /\ UNCHANGED <<things, ended>>
    BY <1>5 DEF AnswerPanics
  <2> DEFINE roots == (UNION {Named(m) \cup source[m].imports : m \in before}) \cap Modules
  <2>2. CASE \E m \in roots : Exported(m) = Endless
    <3>1. exported' = exported
      BY <2>1, <2>2 DEF caches
    <3>2. Circle
      BY <2>2, EndlessInCircle DEF Held
    <3> QED
      BY <1>1, <1>2, <3>1, <3>2 DEF Held, Kept
  <2>3. CASE ~\E m \in roots : Exported(m) = Endless
    <3>1. KeepExported(roots) /\ ended' = ended
      BY <2>1, <2>3
    <3>2. roots \in SUBSET Modules
      OBVIOUS
    <3> HIDE DEF roots
    <3>3. Kept'
      BY <2>3, <3>1, <3>2, KeepingKeeps DEF Held
    <3> QED
      BY <1>1, <1>2, <3>1, <3>3 DEF Held
  <2> QED
    BY <2>2, <2>3
<1> QED
  BY <1>3, <1>4, <1>5 DEF Ask

LEMMA StepHeld == Inv /\ Held /\ [Next]_vars => Held'
<1> SUFFICES ASSUME Inv, Held, [Next]_vars PROVE Held'
  OBVIOUS
<1>1. ASSUME NEW m \in Modules, PostprocessFile(m) PROVE Held'
  <2>1. source' = source /\ exported' = exported /\ ended' = ended
    BY <1>1 DEF PostprocessFile
  <2> QED
    BY <2>1, CircleStays DEF Held, Kept
<1>2. ASSUME NEW m \in Modules, EditModule(m) PROVE Held'
  <2>1. PICK text \in Sources[m] : source' = [source EXCEPT ![m] = text]
    BY <1>2 DEF EditModule
  <2>2. Edit /\ m \in Edited /\ ResetThings({m} \cup Dependencies(m))
    BY <1>2 DEF EditModule, Edited
  <2> QED
    BY <2>1, <2>2, EditHolds
<1>3. ASSUME NEW c \in Components, EditComponent(c) PROVE Held'
  <2>1. PICK text \in Sources[c] : source' = [source EXCEPT ![c] = text]
    BY <1>3 DEF EditComponent
  <2>2. Edit /\ c \in Edited /\ ResetThings({c} \cup Dependencies(c))
    BY <1>3 DEF EditComponent, Edited
  <2> QED
    BY <2>1, <2>2, EditHolds
<1>4. ASSUME NEW c \in Components, EditTemplate(c) PROVE Held'
  <2>1. PICK text \in Sources[c] : source' = [source EXCEPT ![c] = text]
    BY <1>4 DEF EditTemplate
  <2>2. Edit /\ c \in Edited /\ ResetThings({c} \cup Dependencies(c))
    BY <1>4 DEF EditTemplate, Edited
  <2> QED
    BY <2>1, <2>2, EditHolds
<1>5. ASSUME NEW c \in Components, Ask(c) PROVE Held'
  BY <1>5, AskHolds
<1>6. CASE UNCHANGED vars
  <2>1. source' = source /\ exported' = exported /\ ended' = ended
    BY <1>6 DEF vars
  <2> QED
    BY <2>1, CircleStays DEF Held, Kept
<1>7. ASSUME NEW a \in ArrayFiles, EditArray(a) PROVE Held'
  <2>1. source' = source /\ exported' = exported /\ ended' = ended
    BY <1>7 DEF EditArray, Edit, caches
  <2> QED
    BY <2>1, CircleStays DEF Held, Kept
<1> QED
  BY <1>1, <1>2, <1>3, <1>4, <1>5, <1>6, <1>7 DEF Next

\* A question overflows the stack only when modules export each other in a
\* circle, with ExperimentalThingCaching or without it: GetExportedThings
\* looks for no circle, but nothing else sends it deeper than there are
\* modules.
THEOREM OnlyCirclesEnd == Spec => []EndsOnlyOnCycle
<1>1. Held => EndsOnlyOnCycle
  BY DEF Held, Circle, EndsOnlyOnCycle
<1> QED
  BY <1>1, InitInv, StepInv, InitHeld, StepHeld, PTL DEF Spec

-----------------------------------------------------------------------------
LEMMA GatheredUsable ==
    ASSUME Kept, ~caching, NEW names, \A m \in names \cap Modules : Exported(m) # Endless
    PROVE  Gathered(names) = Usable(names)
<1>1. \A m \in names \cap Modules : Exported(m) = Led(m)
  BY ExportedLed
<1>2. {Exported(m) : m \in names \cap Modules} = {Led(m) : m \in names \cap Modules}
  BY <1>1
<1>3. UNION {Led(m) : m \in names \cap Modules} =
        (UNION {UNION {source[k].exports : k \in Chain(m)} : m \in names \cap Modules}) \cap Things
  BY DEF Led
<1> QED
  BY <1>2, <1>3 DEF Gathered, Usable

LEMMA AskRight ==
    ASSUME Held, ~caching, NEW c \in Components, Ask(c), Answers(c),
           NEW mine, mine = {m \in Modules : c \in Declared(m)}, declaredIn[c] = mine
    PROVE  answer'.got =
              Usable((UNION {source[m].declared \cup source[m].imports : m \in mine})
                        \cup source[c].imports)
<1> DEFINE names == GatheredFrom(c, declaredIn[c])
<1>1. \A m \in declaredIn[c] : source[m].lists
  <2>1. ASSUME NEW m \in Modules, c \in Declared(m) PROVE source[m].lists
    <3>1. source[m] \in Sources[m]
      BY DEF Held, Edited
    <3>2. source[m].declared \cup source[m].spread # {} \/ source[m].borrows # {}
      BY <2>1 DEF Declared, Borrowed
    <3> QED
      BY <3>1, <3>2, AngularAssumption
  <2> QED
    BY <2>1
<1>2. ~AnswerPanics(c) /\ ~AnswerCached(c)
  BY <1>1 DEF AnswerPanics, AnswerCached
<1>3. AnswerAnew(c) /\ answer' # answer
  BY <1>2 DEF Ask, Answers
<1>4. \A m \in names \cap Modules : Exported(m) # Endless
  BY <1>3 DEF AnswerAnew
<1>5. Answer(c, Gathered(names))
  BY <1>3 DEF AnswerAnew
<1>6. answer'.got = Gathered(names)
  BY <1>5, AnswerFields
<1>7. names = (UNION {source[m].declared \cup source[m].imports : m \in mine})
                  \cup source[c].imports
  BY DEF GatheredFrom, Named
<1> HIDE DEF names
<1>8. Gathered(names) = Usable(names)
  BY <1>4, GatheredUsable DEF Held
<1> QED
  BY <1>6, <1>7, <1>8

\* Without ExperimentalThingCaching a component is answered with just what
\* Angular lets its template use, however long the chains of exports, and
\* whatever was edited and asked before.
THEOREM UncachedAnswersRight == Spec => AnswersRight
<1> DEFINE Right ==
       ~caching => \A c \in Components : Answers(c) =>
          LET mine == {m \in Modules : c \in Declared(m)}
          IN  declaredIn[c] = mine /\ (\A m \in mine : NamesAll(m)) =>
                 answer'.got =
                    Usable((UNION {source[m].declared \cup source[m].imports : m \in mine})
                              \cup source[c].imports)
<1>1. Held /\ [Next]_vars => [Right]_vars
  <2> SUFFICES ASSUME Held, Next, ~caching, NEW c \in Components, Answers(c),
                      NEW mine, mine = {m \in Modules : c \in Declared(m)}, declaredIn[c] = mine
               PROVE  answer'.got =
                        Usable((UNION {source[m].declared \cup source[m].imports : m \in mine})
                                  \cup source[c].imports)
    OBVIOUS
  <2>1. \E k \in Components : Ask(k)
    BY DEF Next, PostprocessFile, EditModule, EditComponent, EditTemplate, EditArray, Edit, Answers
  <2>2. ASSUME NEW k \in Components, Ask(k) PROVE k = c
    BY <2>2, AskAnswers, AnswerFields DEF Answers
  <2> QED
    BY <2>1, <2>2, AskRight
<1> QED
  BY <1>1, InitInv, StepInv, InitHeld, StepHeld, PTL DEF Spec, AnswersRight

-----------------------------------------------------------------------------
\* The walk of "Calculate all providers" leaves the state it reads alone, so
\* that the results above hold with it as well.
THEOREM WalkReadsOnly == SpecAll => Spec
<1>1. InitAll => Init
  BY DEF InitAll
<1>2. [NextAll]_allVars => [Next]_vars
  BY DEF NextAll, allVars, Start, Visit, TurnToDeclarers, Return, PrintProviders
<1> QED
  BY <1>1, <1>2, PTL DEF SpecAll, Spec

-----------------------------------------------------------------------------
(* The routes.  Slices of one array are written by the calls that are under *)
(* way, so what they hold is told from the stack.                           *)

\* An array is made when a slice outgrows another one, so its slices are
\* longer than half of it.
Fits(s, arr) ==
    /\ s \in Slice
    /\ s.array \in 1 .. Len(arr)
    /\ s.len \in 1 .. Len(arr[s.array])
    /\ Len(arr[s.array]) = 1 \/ Len(arr[s.array]) <= 2 * (s.len - 1)

Sizes(arr) == \A a \in 1 .. Len(arr) : Len(arr[a]) \in {1, 2, 4, 8} \/ Len(arr[a]) >= 16

\* The path of the call at depth n leads through the classes of the calls
\* around it.
PathAt(s, n, arr, st) ==
    /\ s.len = n - 1
    /\ IF n = 1 THEN s = NoPath ELSE Fits(s, arr)
    /\ \A j \in 1 .. n - 1 : arr[s.array][j] = st[j].class

Paths(arr, st) == \A n \in 1 .. Len(st) : PathAt(st[n].path, n, arr, st)

\* Each call was made for a class that its caller leads to.
Leads(st) ==
    /\ \A n \in 1 .. Len(st) - 1 : Link(st[n].class, st[n + 1].class)
    /\ \A n \in 1 .. Len(st) : /\ \A b \in st[n].todo : Link(st[n].class, b)
                               /\ st[n].declarers => st[n].class \in Components

Way(s, arr, st) ==
    /\ arr[s.array][1] = st[1].class
    /\ \A j \in 1 .. s.len - 1 : Link(arr[s.array][j], arr[s.array][j + 1])

Ways(arr, st, rs) ==
    \A i \in 1 .. Len(rs) : Fits(rs[i], arr) /\ (rs[i].len < 8 => Way(rs[i], arr, st))

\* Routes in the array that the call at depth six writes into have its class
\* in the sixth place: only the seventh may change under a route of seven.
Sixth(arr, st, rs) ==
    Len(st) >= 6 =>
        \A i \in 1 .. Len(rs) :
            rs[i].array = st[6].path.array /\ rs[i].len >= 6 => arr[rs[i].array][6] = st[6].class

Array == Seq(Classes \cup {None})
Call  == [class : Classes, path : Slice, todo : SUBSET Classes, declarers : BOOLEAN, found : Nat]

Walk(arr, st, rs) ==
    /\ arr \in Seq(Array) /\ Sizes(arr)
    /\ st \in Seq(Call)
    /\ rs \in Seq(Slice)
    /\ Paths(arr, st) /\ Leads(st) /\ Ways(arr, st, rs) /\ Sixth(arr, st, rs)
    /\ st = <<>> => rs = <<>>

WalkInv == Walk(arrays, stack, routes)

\* What append does.
Grown(s, class, p) ==
    /\ p.slice.len = s.len + 1
    /\ p.arrays \in Seq(Array) /\ Sizes(p.arrays) /\ Fits(p.slice, p.arrays)
    /\ Len(arrays) <= Len(p.arrays)
    /\ \A a \in 1 .. Len(arrays) : Len(p.arrays[a]) = Len(arrays[a])
    /\ \A j \in 1 .. s.len : p.arrays[p.slice.array][j] = arrays[s.array][j]
    /\ p.arrays[p.slice.array][s.len + 1] = class
    /\ IF s.len < Room(s)
       THEN /\ p.slice.array = s.array
            /\ \A a \in 1 .. Len(arrays) : \A j \in 1 .. Len(arrays[a]) :
                  p.arrays[a][j] = arrays[a][j] \/ (a = s.array /\ j = s.len + 1)
       ELSE /\ p.slice.array = Len(arrays) + 1
            /\ \A a \in 1 .. Len(arrays) : p.arrays[a] = arrays[a]

LEMMA LongerSlice ==
    ASSUME NEW s \in Slice
    PROVE  /\ [s EXCEPT !.len = @ + 1] \in Slice
           /\ [s EXCEPT !.len = @ + 1].array = s.array
           /\ [s EXCEPT !.len = @ + 1].len = s.len + 1
  BY DEF Slice

LEMMA AppendGrows ==
    ASSUME arrays \in Seq(Array), Sizes(arrays), NEW s, s = NoPath \/ Fits(s, arrays),
           NEW class \in Classes
    PROVE  Grown(s, class, Appended(s, class))
  <1> DEFINE p == Appended(s, class)
  <1>1. CASE s.len < Room(s)
    <2>1. /\ s \in Slice /\ s.array \in 1 .. Len(arrays) /\ s.len \in 1 .. Len(arrays[s.array])
          /\ s.len < Len(arrays[s.array])
          /\ Len(arrays[s.array]) = 1 \/ Len(arrays[s.array]) <= 2 * (s.len - 1)
      BY <1>1 DEF Room, Fits, NoPath
    <2> DEFINE a == s.array
               row == [arrays[a] EXCEPT ![s.len + 1] = class]
               arr == [arrays EXCEPT ![a] = row]
    <2>2. p.slice = [s EXCEPT !.len = @ + 1] /\ p.arrays = arr
      BY <1>1 DEF Appended
    <2> HIDE DEF p
    <2>3. p.slice \in Slice /\ p.slice.array = a /\ p.slice.len = s.len + 1
      BY <2>1, <2>2, LongerSlice
    <2>4. arrays[a] \in Array /\ Len(arrays[a]) \in Nat /\ s.len + 1 \in 1 .. Len(arrays[a])
      BY <2>1 DEF Slice, Array
    <2>5. /\ row \in Array /\ Len(row) = Len(arrays[a]) /\ row[s.len + 1] = class
          /\ \A j \in 1 .. Len(arrays[a]) : j # s.len + 1 => row[j] = arrays[a][j]
      BY <2>4 DEF Array
    <2> HIDE DEF row
    <2>6. /\ arr \in Seq(Array) /\ Len(arr) = Len(arrays) /\ arr[a] = row
          /\ \A b \in 1 .. Len(arrays) : b # a => arr[b] = arrays[b]
      BY <2>1, <2>5
    <2> HIDE DEF arr
    <2>7. Sizes(p.arrays)
      BY <2>2, <2>5, <2>6 DEF Sizes
    <2>8. Fits(p.slice, p.arrays)
      <3>1. Len(p.arrays[a]) = Len(arrays[a]) /\ Len(p.arrays) = Len(arrays)
        BY <2>2, <2>5, <2>6
      <3>2. s.len \in Nat
        BY <2>1 DEF Slice
      <3>3. Len(arrays[a]) = 1 \/ Len(arrays[a]) <= 2 * (s.len + 1 - 1)
        BY <2>1, <2>4, <3>2
      <3> QED
        BY <2>1, <2>3, <2>4, <3>1, <3>3 DEF Fits
    <2>9. \A j \in 1 .. s.len : p.arrays[p.slice.array][j] = arrays[s.array][j]
      <3> SUFFICES ASSUME NEW j \in 1 .. s.len PROVE row[j] = arrays[a][j]
        BY <2>2, <2>3, <2>6
      <3>1. s.len \in Nat /\ j # s.len + 1 /\ j \in 1 .. Len(arrays[a])
        BY <2>1, <2>4 DEF Slice
      <3> QED
        BY <2>5, <3>1
    <2>10. \A b \in 1 .. Len(arrays) : \A j \in 1 .. Len(arrays[b]) :
              p.arrays[b][j] = arrays[b][j] \/ (b = s.array /\ j = s.len + 1)
      BY <2>2, <2>5, <2>6
    <2>11. p.arrays[p.slice.array][s.len + 1] = class
      BY <2>2, <2>3, <2>5, <2>6
    <2>12. p.arrays \in Seq(Array) /\ Len(p.arrays) = Len(arrays)
           /\ \A b \in 1 .. Len(arrays) : Len(p.arrays[b]) = Len(arrays[b])
      BY <2>2, <2>5, <2>6
    <2>13. Grown(s, class, p)
      BY <1>1, <2>3, <2>7, <2>8, <2>9, <2>10, <2>11, <2>12 DEF Grown
    <2> QED
      BY <2>13 DEF p
  <1>2. CASE ~(s.len < Room(s))
    <2> DEFINE size == IF s.len = 0 THEN 1 ELSE 2 * s.len
               new  == [i \in 1 .. size |-> IF i <= s.len THEN arrays[s.array][i]
                                            ELSE IF i = s.len + 1 THEN class ELSE None]
               n == Len(arrays)
    <2>1. p.slice = [array |-> n + 1, len |-> s.len + 1] /\ p.arrays = Append(arrays, new)
      BY <1>2 DEF Appended
    <2>2. /\ s.len \in Nat /\ n \in Nat
          /\ s.len # 0 => /\ s.array \in 1 .. n /\ Len(arrays[s.array]) = s.len
                          /\ arrays[s.array] \in Array
      BY <1>2 DEF Room, Fits, NoPath, Slice, Array
    <2>3. size \in Nat /\ s.len + 1 \in 1 .. size /\ (s.len # 0 => size = 2 * s.len)
      BY <2>2
    <2>4. size \in {1, 2, 4, 8} \/ size >= 16
      <3>1. CASE s.len = 0
        BY <3>1
      <3>2. CASE s.len # 0
        <4>1. s.len \in {1, 2, 4, 8} \/ s.len >= 16
          BY <2>2, <3>2 DEF Sizes
        <4>2. size = 2 * s.len
          BY <3>2
        <4> QED
          BY <2>2, <4>1, <4>2
      <3> QED
        BY <3>1, <3>2
    <2> HIDE DEF size
    <2>5. \A i \in 1 .. s.len : arrays[s.array][i] \in Classes \cup {None}
      BY <2>2 DEF Array
    <2>6. /\ new \in Array /\ Len(new) = size /\ new[s.len + 1] = class
          /\ \A i \in 1 .. s.len : new[i] = arrays[s.array][i]
      <3>1. \A i \in 1 .. size : new[i] \in Classes \cup {None}
        BY <2>2, <2>3, <2>5
      <3>2. new \in [1 .. size -> Classes \cup {None}]
        BY <3>1
      <3> QED
        BY <2>2, <2>3, <3>2 DEF Array
    <2> HIDE DEF new
    <2>7. /\ p.arrays \in Seq(Array) /\ Len(p.arrays) = n + 1 /\ p.arrays[n + 1] = new
          /\ \A a \in 1 .. n : p.arrays[a] = arrays[a]
      BY <2>1, <2>2, <2>6
    <2>8. p.slice \in Slice /\ p.slice.array = n + 1 /\ p.slice.len = s.len + 1
      BY <2>1, <2>2 DEF Slice
    <2> HIDE DEF p
    <2>9. Sizes(p.arrays)
      <3> SUFFICES ASSUME NEW a \in 1 .. n + 1
                   PROVE  Len(p.arrays[a]) \in {1, 2, 4, 8} \/ Len(p.arrays[a]) >= 16
        BY <2>7 DEF Sizes
      <3>1. CASE a = n + 1
        BY <2>4, <2>6, <2>7, <3>1
      <3>2. CASE a \in 1 .. n
        BY <2>7, <3>2 DEF Sizes
      <3> QED
        BY <2>2, <3>1, <3>2
    <2>10. size = 1 \/ size <= 2 * (s.len + 1 - 1)
      <3>1. CASE s.len = 0
        BY <3>1 DEF size
      <3>2. CASE s.len # 0
        BY <2>2, <2>3, <3>2
      <3> QED
        BY <3>1, <3>2
    <2>11. Fits(p.slice, p.arrays)
      <3>1. Len(p.arrays[n + 1]) = size
        BY <2>6, <2>7
      <3>2. n + 1 \in 1 .. Len(p.arrays)
        BY <2>2, <2>7
      <3>3. p.slice.len \in 1 .. Len(p.arrays[p.slice.array])
        BY <2>3, <2>8, <3>1
      <3>4. Len(p.arrays[p.slice.array]) <= 2 * (p.slice.len - 1) \/ Len(p.arrays[p.slice.array]) = 1
        BY <2>2, <2>8, <2>10, <3>1
      <3> QED
        BY <2>8, <3>2, <3>3, <3>4 DEF Fits
    <2>12. Grown(s, class, p)
      BY <1>2, <2>2, <2>6, <2>7, <2>8, <2>9, <2>11 DEF Grown
    <2> QED
      BY <2>12 DEF p
  <1> QED
    BY <1>1, <1>2

\* What the call on top appends to its path disturbs no path and no route
\* shorter than eight: in the array of a longer route it can only write what
\* is there, or the seventh class anew.
LEMMA AppendKeeps ==
    ASSUME WalkInv, stack # <<>>, NEW p, Grown(Top.path, Top.class, p)
    PROVE  /\ Walk(p.arrays, stack, routes)
           /\ PathAt(p.slice, Len(stack) + 1, p.arrays, stack)
           /\ Len(stack) = 5 => \A i \in 1 .. Len(routes) : routes[i].array # p.slice.array
  <1> DEFINE n == Len(stack)
             s == Top.path
  <1>1. n \in Nat \ {0} /\ Top = stack[n] /\ Top.class \in Classes
    <2>1. stack \in Seq(Call)
      BY DEF WalkInv, Walk
    <2>2. n \in Nat \ {0} /\ stack[n] \in Call
      BY <2>1
    <2> QED
      BY <2>2 DEF Top, Call
  <1>2. PathAt(s, n, arrays, stack)
    BY <1>1 DEF WalkInv, Walk, Paths
  <1>3. s.len = n - 1
    BY <1>2 DEF PathAt
  <1>4. \A a \in 1 .. Len(arrays) : a \in 1 .. Len(p.arrays) /\ Len(p.arrays[a]) = Len(arrays[a])
        /\ Len(arrays[a]) \in Nat
    <2>1. \A a \in 1 .. Len(arrays) : arrays[a] \in Array
      BY DEF WalkInv, Walk
    <2>2. Len(arrays) \in Nat /\ Len(p.arrays) \in Nat /\ Len(arrays) <= Len(p.arrays)
      BY DEF WalkInv, Walk, Grown
    <2>3. \A a \in 1 .. Len(arrays) : Len(p.arrays[a]) = Len(arrays[a])
      BY DEF Grown
    <2> QED
      BY <2>1, <2>2, <2>3 DEF Array
  <1>5. \A r : Fits(r, arrays) => Fits(r, p.arrays)
    BY <1>4 DEF Fits
  \* Only the place after the path changes, and that only in its own array.
  <1>6. ASSUME NEW a \in 1 .. Len(arrays), NEW j \in 1 .. Len(arrays[a])
        PROVE  \/ p.arrays[a][j] = arrays[a][j]
               \/ a = s.array /\ j = n /\ s.len < Room(s) /\ p.arrays[a][j] = Top.class
    BY <1>1, <1>3, <1>6 DEF Grown
  <1>7. \A m \in 1 .. n : PathAt(stack[m].path, m, p.arrays, stack)
    <2> SUFFICES ASSUME NEW m \in 1 .. n PROVE PathAt(stack[m].path, m, p.arrays, stack)
      OBVIOUS
    <2> DEFINE q == stack[m].path
    <2>1. PathAt(q, m, arrays, stack)
      BY DEF WalkInv, Walk, Paths
    <2>2. CASE m = 1
      BY <2>1, <2>2 DEF PathAt
    <2>3. CASE m # 1
      <3>1. Fits(q, arrays) /\ q.len = m - 1
        BY <2>1, <2>3 DEF PathAt
      <3>2. \A j \in 1 .. m - 1 : p.arrays[q.array][j] = arrays[q.array][j]
        <4> TAKE j \in 1 .. m - 1
        <4>1. q.array \in 1 .. Len(arrays) /\ j \in 1 .. Len(arrays[q.array]) /\ j # n
          BY <1>1, <1>4, <3>1 DEF Fits
        <4> QED
          BY <1>6, <4>1
      <3> QED
        BY <1>5, <2>1, <2>3, <3>1, <3>2 DEF PathAt
    <2> QED
      BY <2>2, <2>3
  <1>8. PathAt(p.slice, n + 1, p.arrays, stack)
    <2>1. p.slice.len = n /\ Fits(p.slice, p.arrays)
      BY <1>1, <1>3 DEF Grown
    <2>2. \A j \in 1 .. n : p.arrays[p.slice.array][j] = stack[j].class
      <3> TAKE j \in 1 .. n
      <3>1. CASE j = n
        BY <1>1, <1>3, <3>1 DEF Grown
      <3>2. CASE j \in 1 .. n - 1
        <4>1. arrays[s.array][j] = stack[j].class
          BY <1>2, <3>2 DEF PathAt
        <4> QED
          BY <1>3, <3>2, <4>1 DEF Grown
      <3> QED
        BY <1>1, <3>1, <3>2
    <2> QED
      BY <1>1, <2>1, <2>2 DEF PathAt
  <1>9. ASSUME NEW i \in 1 .. Len(routes), NEW j \in 1 .. routes[i].len, routes[i].len < 8,
               p.arrays[routes[i].array][j] # arrays[routes[i].array][j]
        PROVE  /\ j = n /\ routes[i].array = s.array /\ j = routes[i].len
               /\ p.arrays[routes[i].array][j] = Top.class
    <2> DEFINE r == routes[i]
               L == Len(arrays[r.array])
    <2>1. Fits(r, arrays)
      BY DEF WalkInv, Walk, Ways
    <2>2. r.array \in 1 .. Len(arrays) /\ j \in 1 .. L /\ r.len \in 1 .. L /\ L \in Nat
      BY <1>4, <2>1 DEF Fits
    <2>3. r.array = s.array /\ j = n /\ s.len < Room(s) /\ p.arrays[r.array][j] = Top.class
      BY <1>6, <1>9, <2>2
    <2>4. n - 1 < L
      BY <1>3, <2>2, <2>3 DEF Room
    <2>5. n # 1
      BY <1>2, <2>2, <2>3 DEF PathAt, NoPath
    <2>6. L = 1 \/ L <= 2 * (n - 2)
      BY <1>2, <1>3, <2>3, <2>5 DEF PathAt, Fits
    <2>7. L \in {1, 2, 4, 8} \/ L >= 16
      BY <2>2 DEF WalkInv, Walk, Sizes
    <2>8. n = r.len \/ (n = 6 /\ r.len = 7)
      <3>1. n <= r.len /\ r.len <= L /\ r.len < 8
        BY <1>9, <2>2, <2>3
      <3> HIDE DEF n, r, L
      <3> QED
        BY <1>1, <2>2, <2>4, <2>5, <2>6, <2>7, <3>1
    <2>9. ~(n = 6 /\ r.len = 7)
      <3> SUFFICES ASSUME n = 6, r.len = 7 PROVE FALSE
        OBVIOUS
      <3>1. arrays[r.array][6] = stack[6].class
        BY <1>1, <2>3 DEF WalkInv, Walk, Sixth
      <3> QED
        BY <1>1, <1>9, <2>3, <3>1
    <2> QED
      BY <2>3, <2>8, <2>9
  <1>10. Ways(p.arrays, stack, routes)
    <2> SUFFICES ASSUME NEW i \in 1 .. Len(routes)
                 PROVE  /\ Fits(routes[i], p.arrays)
                        /\ routes[i].len < 8 => Way(routes[i], p.arrays, stack)
      BY DEF Ways
    <2> DEFINE r == routes[i]
    <2>1. Fits(r, arrays) /\ (r.len < 8 => Way(r, arrays, stack))
      BY DEF WalkInv, Walk, Ways
    <2>2. Fits(r, p.arrays)
      BY <1>5, <2>1
    <2>3. ASSUME r.len < 8 PROVE Way(r, p.arrays, stack)
      <3>1. Way(r, arrays, stack) /\ r.len \in Nat \ {0}
        BY <2>1, <2>3 DEF Fits, Slice
      <3>2. CASE \A j \in 1 .. r.len : p.arrays[r.array][j] = arrays[r.array][j]
        BY <3>1, <3>2 DEF Way
      <3>3. CASE \E j \in 1 .. r.len : p.arrays[r.array][j] # arrays[r.array][j]
        <4>1. r.len = n /\ r.array = s.array /\ p.arrays[r.array][n] = Top.class
          BY <1>9, <2>3, <3>3
        <4>2. \A j \in 1 .. r.len - 1 : p.arrays[r.array][j] = arrays[r.array][j]
          BY <1>9, <2>3, <3>1, <4>1
        <4>3. n # 1
          BY <1>2, <2>1, <4>1 DEF PathAt, NoPath, Fits
        <4>4. p.arrays[r.array][n - 1] = stack[n - 1].class
          <5>1. n - 1 \in 1 .. n - 1
            <6> HIDE DEF n
            <6> QED
              BY <1>1, <4>3
          <5>2. arrays[s.array][n - 1] = stack[n - 1].class
            BY <1>2, <5>1 DEF PathAt
          <5> QED
            BY <4>1, <4>2, <5>1, <5>2
        <4>5. Link(stack[n - 1].class, stack[n].class)
          <5>1. n - 1 \in 1 .. n - 1 /\ n - 1 + 1 = n
            <6> HIDE DEF n
            <6> QED
              BY <1>1, <4>3
          <5> QED
            BY <5>1 DEF WalkInv, Walk, Leads
        <4>6. ASSUME NEW j \in 1 .. r.len - 1
              PROVE  Link(p.arrays[r.array][j], p.arrays[r.array][j + 1])
          <5>1. CASE j = n - 1
            BY <1>1, <4>1, <4>4, <4>5, <5>1
          <5>2. CASE j # n - 1
            BY <3>1, <4>1, <4>2, <5>2 DEF Way
          <5> QED
            BY <5>1, <5>2
        <4>7. p.arrays[r.array][1] = stack[1].class
          <5>1. 1 \in 1 .. r.len - 1
            <6> HIDE DEF n, r
            <6> QED
              BY <1>1, <4>1, <4>3
          <5> QED
            BY <3>1, <4>2, <5>1 DEF Way
        <4> QED
          BY <4>6, <4>7 DEF Way
      <3> QED
        BY <3>2, <3>3
    <2> QED
      BY <2>2, <2>3
  <1>11. Sixth(p.arrays, stack, routes)
    <2> SUFFICES ASSUME n >= 6, NEW i \in 1 .. Len(routes),
                        routes[i].array = stack[6].path.array, routes[i].len >= 6
                 PROVE  p.arrays[routes[i].array][6] = stack[6].class
      BY DEF Sixth
    <2>1. arrays[routes[i].array][6] = stack[6].class
      BY DEF WalkInv, Walk, Sixth
    <2>2. Fits(routes[i], arrays)
      BY DEF WalkInv, Walk, Ways
    <2>3. routes[i].array \in 1 .. Len(arrays) /\ 6 \in 1 .. Len(arrays[routes[i].array])
      BY <1>4, <2>2 DEF Fits
    <2> QED
      BY <1>1, <1>6, <2>1, <2>3
  <1>12. ASSUME n = 5 PROVE \A i \in 1 .. Len(routes) : routes[i].array # p.slice.array
    <2>1. Fits(s, arrays) /\ s.len = 4
      BY <1>2, <1>3, <1>12 DEF PathAt
    <2>2. Room(s) = 4
      <3>1. /\ s.array \in 1 .. Len(arrays) /\ s.len \in 1 .. Len(arrays[s.array])
            /\ Len(arrays[s.array]) = 1 \/ Len(arrays[s.array]) <= 2 * (s.len - 1)
        BY <2>1 DEF Fits
      <3>2. PICK L \in Nat : L = Len(arrays[s.array])
        BY <1>4, <3>1
      <3>3. L \in {1, 2, 4, 8} \/ L >= 16
        BY <3>1, <3>2 DEF WalkInv, Walk, Sizes
      <3>4. 4 \in 1 .. L /\ (L = 1 \/ L <= 2 * (4 - 1))
        BY <2>1, <3>1, <3>2
      <3>5. L >= 4 /\ L <= 6
        BY <3>4
      <3>6. L = 4
        BY <3>3, <3>5
      <3>7. Room(s) = L
        BY <3>1, <3>2 DEF Room
      <3> QED
        BY <3>6, <3>7
    <2>3. p.slice.array = Len(arrays) + 1
      BY <2>1, <2>2 DEF Grown
    <2>4. \A i \in 1 .. Len(routes) : routes[i].array \in 1 .. Len(arrays)
      BY DEF WalkInv, Walk, Ways, Fits
    <2> QED
      BY <2>3, <2>4 DEF WalkInv, Walk
  <1>13. Walk(p.arrays, stack, routes)
    BY <1>7, <1>10, <1>11 DEF Walk, WalkInv, Paths, Grown
  <1> QED
    BY <1>8, <1>12, <1>13

-----------------------------------------------------------------------------
LEMMA BelowTop ==
    ASSUME stack \in Seq(Call), stack # <<>>
    PROVE  /\ Below \in Seq(Call) /\ Len(Below) = Len(stack) - 1
           /\ \A n \in 1 .. Len(stack) - 1 : Below[n] = stack[n]
  <1>1. Len(stack) \in Nat \ {0} /\ \A n \in 1 .. Len(stack) : stack[n] \in Call
    OBVIOUS
  <1>2. /\ 1 \in Int /\ Len(stack) - 1 \in Int
        /\ \A i \in 1 .. Len(stack) - 1 : stack[i] \in Call
    BY <1>1
  <1>3. Below \in Seq(Call) /\ Len(Below) = Len(stack) - 1
        /\ \A n \in 1 .. Len(stack) - 1 : Below[n] = stack[1 + n - 1]
    <2> DEFINE last == Len(stack) - 1
    <2>1. last \in Int /\ \A i \in 1 .. last : stack[i] \in Call
      BY <1>2
    <2>2. last \in Nat /\ last - 1 + 1 = last
      BY <1>1
    <2>3. (IF 1 <= last THEN last - 1 + 1 ELSE 0) = last
      BY <2>2
    <2> HIDE DEF last
    <2>4. /\ SubSeq(stack, 1, last) \in Seq(Call)
          /\ Len(SubSeq(stack, 1, last))
                = IF 1 <= last THEN last - 1 + 1 ELSE 0
          /\ \A n \in 1 .. last - 1 + 1 :
                SubSeq(stack, 1, last)[n] = stack[1 + n - 1]
      BY <1>2, <2>1, SubSeqProperties
    <2> QED
      BY <2>2, <2>3, <2>4 DEF Below, last
  <1>4. \A n \in 1 .. Len(stack) - 1 : 1 + n - 1 = n
    BY <1>1
  <1> QED
    BY <1>3, <1>4

\* Only the call on top is replaced.
LEMMA OnTop ==
    ASSUME stack \in Seq(Call), stack # <<>>, NEW call \in Call
    PROVE  LET st == Append(Below, call)
           IN  /\ st \in Seq(Call) /\ st # <<>> /\ Len(st) = Len(stack)
               /\ st[Len(stack)] = call
               /\ \A n \in 1 .. Len(stack) - 1 : st[n] = stack[n]
  <1>1. Len(stack) \in Nat \ {0}
    OBVIOUS
  <1>2. /\ Below \in Seq(Call) /\ Len(Below) = Len(stack) - 1
        /\ \A n \in 1 .. Len(stack) - 1 : Below[n] = stack[n]
    BY BelowTop
  <1> DEFINE b == Below
  <1> HIDE DEF b
  <1>3. /\ b \in Seq(Call) /\ Len(b) = Len(stack) - 1
        /\ \A n \in 1 .. Len(stack) - 1 : b[n] = stack[n]
    BY <1>2 DEF b
  <1>4. /\ Append(b, call) \in Seq(Call) /\ Append(b, call) # <<>>
        /\ Len(Append(b, call)) = Len(stack)
        /\ Append(b, call)[Len(stack)] = call
        /\ \A n \in 1 .. Len(stack) - 1 : Append(b, call)[n] = stack[n]
    BY <1>1, <1>3
  <1> QED
    BY <1>4 DEF b

\* The call on top takes another turn.
LEMMA TurnWalk ==
    ASSUME NEW arr, NEW rs, Walk(arr, stack, rs), stack # <<>>,
           NEW call \in Call, call.class = Top.class, call.path = Top.path,
           \A b \in call.todo : Link(call.class, b),
           call.declarers => call.class \in Components
    PROVE  Walk(arr, Append(Below, call), rs)
  <1> DEFINE st == Append(Below, call)
  <1>1. /\ st \in Seq(Call) /\ st # <<>> /\ Len(st) = Len(stack) /\ st[Len(stack)] = call
        /\ \A n \in 1 .. Len(stack) - 1 : st[n] = stack[n]
    BY OnTop DEF Walk
  <1>2. stack \in Seq(Call) /\ Len(stack) \in Nat \ {0}
    BY DEF Walk
  <1> HIDE DEF st
  <1>3. \A n \in 1 .. Len(stack) : st[n].class = stack[n].class /\ st[n].path = stack[n].path
    BY <1>1, <1>2 DEF Top
  <1>4. Paths(arr, st)
    <2> SUFFICES ASSUME NEW n \in 1 .. Len(stack) PROVE PathAt(st[n].path, n, arr, st)
      BY <1>1 DEF Paths
    <2>1. PathAt(stack[n].path, n, arr, stack)
      BY DEF Walk, Paths
    <2>2. \A j \in 1 .. n - 1 : st[j].class = stack[j].class
      BY <1>2, <1>3
    <2> QED
      BY <1>3, <2>1, <2>2 DEF PathAt
  <1>5. Leads(st)
    <2>1. \A n \in 1 .. Len(st) - 1 : Link(st[n].class, st[n + 1].class)
      <3> TAKE n \in 1 .. Len(st) - 1
      <3>1. n \in 1 .. Len(stack) /\ n + 1 \in 1 .. Len(stack) /\ n \in 1 .. Len(stack) - 1
        BY <1>1, <1>2
      <3> QED
        BY <1>3, <3>1 DEF Walk, Leads
    <2>2. \A n \in 1 .. Len(st) : /\ \A b \in st[n].todo : Link(st[n].class, b)
                                  /\ st[n].declarers => st[n].class \in Components
      <3> TAKE n \in 1 .. Len(st)
      <3>1. CASE n = Len(stack)
        BY <1>1, <3>1
      <3>2. CASE n \in 1 .. Len(stack) - 1
        BY <1>1, <3>2 DEF Walk, Leads
      <3> QED
        BY <1>1, <1>2, <3>1, <3>2
    <2> QED
      BY <2>1, <2>2 DEF Leads
  <1>6. st[1].class = stack[1].class
    BY <1>2, <1>3
  <1>7. Ways(arr, st, rs)
    BY <1>6 DEF Walk, Ways, Way
  <1>8. Sixth(arr, st, rs)
    <2>1. CASE Len(stack) >= 6
      <3>1. st[6].class = stack[6].class /\ st[6].path = stack[6].path
        BY <1>2, <1>3, <2>1
      <3> QED
        BY <2>1, <3>1 DEF Walk, Sixth
    <2>2. CASE ~(Len(stack) >= 6)
      BY <1>1, <2>2 DEF Sixth
    <2> QED
      BY <2>1, <2>2
  <1>9. Walk(arr, st, rs)
    BY <1>1, <1>4, <1>5, <1>7, <1>8 DEF Walk
  <1> QED
    BY <1>9 DEF st

\* A call is made.
LEMMA PushWalk ==
    ASSUME NEW arr, NEW st, NEW rs, Walk(arr, st, rs), st # <<>>,
           NEW call \in Call, PathAt(call.path, Len(st) + 1, arr, st),
           Link(st[Len(st)].class, call.class),
           \A b \in call.todo : Link(call.class, b),
           call.declarers => call.class \in Components,
           Len(st) = 5 => \A i \in 1 .. Len(rs) : rs[i].array # call.path.array
    PROVE  Walk(arr, Append(st, call), rs)
  <1> DEFINE up == Append(st, call)
             n == Len(st)
  <1>1. /\ up \in Seq(Call) /\ up # <<>> /\ Len(up) = n + 1 /\ up[n + 1] = call
        /\ \A m \in 1 .. n : up[m] = st[m]
        /\ n \in Nat \ {0}
    BY DEF Walk
  <1> HIDE DEF up, n
  <1>2. Paths(arr, up)
    <2> SUFFICES ASSUME NEW m \in 1 .. n + 1 PROVE PathAt(up[m].path, m, arr, up)
      BY <1>1 DEF Paths
    <2>1. PathAt(up[m].path, m, arr, st)
      <3>1. CASE m = n + 1
        BY <1>1, <3>1 DEF n
      <3>2. CASE m \in 1 .. n
        BY <1>1, <3>2 DEF Walk, Paths, n
      <3> QED
        BY <1>1, <3>1, <3>2
    <2>2. \A j \in 1 .. m - 1 : up[j].class = st[j].class
      BY <1>1
    <2> QED
      BY <2>1, <2>2 DEF PathAt
  <1>3. Leads(up)
    <2>1. \A m \in 1 .. Len(up) - 1 : Link(up[m].class, up[m + 1].class)
      <3> TAKE m \in 1 .. Len(up) - 1
      <3>1. CASE m = n
        BY <1>1, <3>1 DEF n
      <3>2. CASE m \in 1 .. n - 1
        <4>1. m \in 1 .. n /\ m + 1 \in 1 .. n
          BY <1>1, <3>2
        <4> QED
          BY <1>1, <3>2, <4>1 DEF Walk, Leads, n
      <3> QED
        BY <1>1, <3>1, <3>2
    <2>2. \A m \in 1 .. Len(up) : /\ \A b \in up[m].todo : Link(up[m].class, b)
                                  /\ up[m].declarers => up[m].class \in Components
      <3> TAKE m \in 1 .. Len(up)
      <3>1. CASE m = n + 1
        BY <1>1, <3>1
      <3>2. CASE m \in 1 .. n
        BY <1>1, <3>2 DEF Walk, Leads, n
      <3> QED
        BY <1>1, <3>1, <3>2
    <2> QED
      BY <2>1, <2>2 DEF Leads
  <1>4. Ways(arr, up, rs)
    BY <1>1 DEF Walk, Ways, Way
  <1>5. Sixth(arr, up, rs)
    <2>1. CASE n >= 6
      BY <1>1, <2>1 DEF Walk, Sixth, n
    <2>2. CASE n = 5
      BY <1>1, <2>2 DEF Sixth, n
    <2>3. CASE n < 5
      BY <1>1, <2>3 DEF Sixth
    <2> QED
      BY <1>1, <2>1, <2>2, <2>3
  <1>6. Walk(arr, up, rs)
    BY <1>1, <1>2, <1>3, <1>4, <1>5 DEF Walk
  <1> QED
    BY <1>6 DEF up

\* A call returns.
LEMMA PopWalk ==
    ASSUME NEW arr, NEW rs, Walk(arr, stack, rs), Len(stack) > 1
    PROVE  Walk(arr, Below, rs)
  <1> DEFINE n == Len(stack) - 1
             st == Below
  <1>1. /\ st \in Seq(Call) /\ st # <<>> /\ Len(st) = n /\ n \in Nat \ {0}
        /\ \A m \in 1 .. n : st[m] = stack[m] /\ m \in 1 .. Len(stack)
        /\ \A m \in 1 .. n - 1 : m \in 1 .. Len(stack) - 1 /\ m \in 1 .. n /\ m + 1 \in 1 .. n
    <2>1. stack \in Seq(Call) /\ stack # <<>> /\ Len(stack) \in Nat
      BY DEF Walk
    <2>2. st \in Seq(Call) /\ Len(st) = n /\ \A m \in 1 .. n : st[m] = stack[m]
      BY <2>1, BelowTop
    <2> QED
      BY <2>1, <2>2
  <1> HIDE DEF st, n
  <1>2. Paths(arr, st)
    <2> SUFFICES ASSUME NEW m \in 1 .. n PROVE PathAt(st[m].path, m, arr, st)
      BY <1>1 DEF Paths
    <2>1. PathAt(st[m].path, m, arr, stack)
      BY <1>1 DEF Walk, Paths
    <2>2. \A j \in 1 .. m - 1 : st[j].class = stack[j].class
      BY <1>1
    <2> QED
      BY <2>1, <2>2 DEF PathAt
  <1>3. Leads(st)
    BY <1>1 DEF Walk, Leads
  <1>4. Ways(arr, st, rs)
    BY <1>1 DEF Walk, Ways, Way
  <1>5. Sixth(arr, st, rs)
    <2> SUFFICES ASSUME n >= 6 PROVE Sixth(arr, st, rs)
      BY <1>1 DEF Sixth
    <2>1. st[6] = stack[6] /\ Len(stack) >= 6
      BY <1>1 DEF n
    <2> QED
      BY <2>1 DEF Walk, Sixth
  <1>6. Walk(arr, st, rs)
    BY <1>1, <1>2, <1>3, <1>4, <1>5 DEF Walk
  <1> QED
    BY <1>6 DEF st

\* The path that a call would pass on is a route.
LEMMA RouteWalk ==
    ASSUME NEW arr, NEW rs, Walk(arr, stack, rs), stack # <<>>,
           NEW s, PathAt(s, Len(stack) + 1, arr, stack)
    PROVE  Walk(arr, stack, Append(rs, s))
  <1> DEFINE n == Len(stack)
             more == Append(rs, s)
  <1>1. n \in Nat \ {0}
    BY DEF Walk
  <1>2. s.len = n /\ Fits(s, arr) /\ s \in Slice /\ \A j \in 1 .. n : arr[s.array][j] = stack[j].class
    BY <1>1 DEF PathAt, Fits
  <1>3. /\ more \in Seq(Slice) /\ Len(more) = Len(rs) + 1 /\ Len(rs) \in Nat
        /\ more[Len(rs) + 1] = s /\ \A i \in 1 .. Len(rs) : more[i] = rs[i]
    BY <1>2 DEF Walk
  <1> HIDE DEF more
  <1>4. Way(s, arr, stack)
    <2>1. arr[s.array][1] = stack[1].class
      BY <1>1, <1>2
    <2>2. \A j \in 1 .. n - 1 : Link(stack[j].class, stack[j + 1].class)
      BY DEF Walk, Leads
    <2>3. \A j \in 1 .. n - 1 : j \in 1 .. n /\ j + 1 \in 1 .. n
      BY <1>1
    <2> HIDE DEF n
    <2> QED
      BY <1>2, <2>1, <2>2, <2>3 DEF Way
  <1>5. Ways(arr, stack, more)
    <2> SUFFICES ASSUME NEW i \in 1 .. Len(rs) + 1
                 PROVE  Fits(more[i], arr) /\ (more[i].len < 8 => Way(more[i], arr, stack))
      BY <1>3 DEF Ways
    <2>1. CASE i = Len(rs) + 1
      BY <1>2, <1>3, <1>4, <2>1
    <2>2. CASE i \in 1 .. Len(rs)
      BY <1>3, <2>2 DEF Walk, Ways
    <2> QED
      BY <1>3, <2>1, <2>2
  <1>6. Sixth(arr, stack, more)
    <2> SUFFICES ASSUME n >= 6, NEW i \in 1 .. Len(rs) + 1,
                        more[i].array = stack[6].path.array, more[i].len >= 6
                 PROVE  arr[more[i].array][6] = stack[6].class
      BY <1>3 DEF Sixth
    <2>1. CASE i = Len(rs) + 1
      BY <1>1, <1>2, <1>3, <2>1
    <2>2. CASE i \in 1 .. Len(rs)
      BY <1>3, <2>2 DEF Walk, Sixth
    <2> QED
      BY <1>3, <2>1, <2>2
  <1>7. Walk(arr, stack, more)
    BY <1>3, <1>5, <1>6 DEF Walk
  <1> QED
    BY <1>7 DEF more

-----------------------------------------------------------------------------
\* While the walk is under way nothing that links classes changes.
LEMMA WalkStays ==
    ASSUME UNCHANGED vars, Walk(arrays', stack', routes')
    PROVE  WalkInv'
  <1>1. \A a, b : Link(a, b)' <=> Link(a, b)
    BY DEF vars, Link, Places, Importers, Users, Declarers, Listed
  <1>2. Leads(stack)' <=> Leads(stack')
    BY <1>1 DEF Leads
  <1>3. Ways(arrays, stack, routes)' <=> Ways(arrays', stack', routes')
    BY <1>1 DEF Ways, Way, Fits
  <1>4. Paths(arrays, stack)' <=> Paths(arrays', stack')
    BY DEF Paths, PathAt, Fits
  <1>5. Sixth(arrays, stack, routes)' <=> Sixth(arrays', stack', routes')
    BY DEF Sixth
  <1>6. Sizes(arrays)' <=> Sizes(arrays')
    BY DEF Sizes
  <1> QED
    BY <1>2, <1>3, <1>4, <1>5, <1>6 DEF Walk, WalkInv

\* What the call on top appends.
LEMMA TopGrows ==
    ASSUME WalkInv, stack # <<>>
    PROVE  /\ Grown(Top.path, Top.class, Appended(Top.path, Top.class))
           /\ Top \in Call /\ Top = stack[Len(stack)] /\ Len(stack) \in Nat \ {0}
           /\ \A b \in Top.todo : Link(Top.class, b)
           /\ Top.declarers => Top.class \in Components
  <1>1. stack \in Seq(Call)
    BY DEF WalkInv, Walk
  <1>2. Top \in Call /\ Top = stack[Len(stack)] /\ Len(stack) \in Nat \ {0}
    BY <1>1 DEF Top
  <1>3. Top.path = NoPath \/ Fits(Top.path, arrays)
    BY <1>2 DEF WalkInv, Walk, Paths, PathAt
  <1>4. Top.class \in Classes
    BY <1>2 DEF Call
  <1>5. Grown(Top.path, Top.class, Appended(Top.path, Top.class))
    BY <1>3, <1>4, AppendGrows DEF WalkInv, Walk
  <1>6. /\ \A b \in Top.todo : Link(Top.class, b)
        /\ Top.declarers => Top.class \in Components
    BY <1>2 DEF WalkInv, Walk, Leads
  <1> QED
    BY <1>2, <1>5, <1>6

\* References are resolved for modules.
Settled == resolved \in SUBSET Modules

LEMMA PlacesClasses ==
    ASSUME Settled, NEW class \in Classes
    PROVE  Places(class) \in SUBSET Classes /\ \A b \in Places(class) : Link(class, b)
  BY DEF Settled, Places, Importers, Users, Classes, Things, Link

LEMMA VisitWalk ==
    ASSUME WalkInv, Settled, NEW next \in Classes, Visit(next)
    PROVE  WalkInv'
  <1> DEFINE p == Appended(Top.path, Top.class)
             turn == [Top EXCEPT !.todo = @ \ {next}]
             turned == Append(Below, turn)
             call == Frame(next, p.slice, Places(next), next \in Components /\ Users(next) # {})
  <1>1. /\ stack # <<>> /\ next \in Top.todo /\ UNCHANGED vars /\ UNCHANGED routes
        /\ arrays' = p.arrays
        /\ \/ stack' = turned
           \/ stack' = Append(turned, call)
    BY DEF Visit, Walking
  <1>2. /\ Top \in Call /\ Top = stack[Len(stack)] /\ Len(stack) \in Nat \ {0}
        /\ \A b \in Top.todo : Link(Top.class, b)
        /\ Top.declarers => Top.class \in Components
        /\ Grown(Top.path, Top.class, p)
    BY <1>1, TopGrows
  <1> HIDE DEF p
  <1>3. /\ Walk(p.arrays, stack, routes)
        /\ PathAt(p.slice, Len(stack) + 1, p.arrays, stack)
        /\ Len(stack) = 5 => \A i \in 1 .. Len(routes) : routes[i].array # p.slice.array
    BY <1>1, <1>2, AppendKeeps
  <1>4. turn \in Call /\ turn.class = Top.class /\ turn.path = Top.path
        /\ turn.todo = Top.todo \ {next} /\ turn.declarers = Top.declarers
    BY <1>2 DEF Call
  <1> HIDE DEF turn
  <1>5. Walk(p.arrays, turned, routes)
    BY <1>1, <1>2, <1>3, <1>4, TurnWalk
  <1>6. /\ turned # <<>> /\ Len(turned) = Len(stack) /\ turned[Len(stack)] = turn
        /\ \A n \in 1 .. Len(stack) - 1 : turned[n] = stack[n]
    BY <1>1, <1>4, OnTop DEF WalkInv, Walk
  <1>7. \A n \in 1 .. Len(stack) : turned[n].class = stack[n].class
    BY <1>2, <1>4, <1>6
  <1> HIDE DEF turned
  <1>8. PathAt(p.slice, Len(turned) + 1, p.arrays, turned)
    <2>1. \A j \in 1 .. Len(turned) + 1 - 1 : turned[j].class = stack[j].class
      BY <1>2, <1>6, <1>7
    <2> QED
      BY <1>3, <1>6, <2>1 DEF PathAt
  <1>9. p.slice \in Slice /\ Len(routes) \in Nat
    BY <1>2 DEF Grown, Fits, WalkInv, Walk
  <1>10. /\ call \in Call /\ call.class = next /\ call.path = p.slice
         /\ call.todo = Places(next) /\ (call.declarers => next \in Components)
    BY <1>9, PlacesClasses DEF Frame, Call
  <1> HIDE DEF call
  <1>11. Link(turned[Len(turned)].class, call.class)
    BY <1>1, <1>2, <1>4, <1>6, <1>10
  <1>12. \A b \in call.todo : Link(call.class, b)
    BY <1>10, PlacesClasses
  <1>13. Walk(p.arrays, Append(turned, call), routes)
    BY <1>3, <1>5, <1>6, <1>8, <1>10, <1>11, <1>12, PushWalk
  <1>14. Walk(arrays', stack', routes')
    BY <1>1, <1>5, <1>13
  <1> QED
    BY <1>1, <1>14, WalkStays

LEMMA TurnToDeclarersWalk ==
    ASSUME WalkInv, TurnToDeclarers
    PROVE  WalkInv'
  <1> DEFINE turn == [Top EXCEPT !.todo = Declarers(Top.class), !.declarers = FALSE]
  <1>1. /\ stack # <<>> /\ Top.declarers /\ UNCHANGED vars /\ UNCHANGED <<routes, arrays>>
        /\ stack' = Append(Below, turn)
    BY DEF TurnToDeclarers, Walking
  <1>2. Top \in Call /\ (Top.declarers => Top.class \in Components)
    BY <1>1, TopGrows
  <1>3. Declarers(Top.class) \in SUBSET Classes
    BY DEF Declarers, Classes
  <1>4. /\ turn \in Call /\ turn.class = Top.class /\ turn.path = Top.path
        /\ turn.todo = Declarers(Top.class) /\ ~turn.declarers
    BY <1>2, <1>3 DEF Call
  <1> HIDE DEF turn
  <1>5. \A b \in turn.todo : Link(turn.class, b)
    BY <1>1, <1>2, <1>4 DEF Link
  <1>6. Walk(arrays, Append(Below, turn), routes)
    BY <1>1, <1>4, <1>5, TurnWalk DEF WalkInv
  <1> QED
    BY <1>1, <1>6, WalkStays

LEMMA ReturnWalk ==
    ASSUME WalkInv, Return
    PROVE  WalkInv'
  <1> DEFINE p == Appended(Top.path, Top.class)
  <1>1. /\ Len(stack) > 1 /\ stack' = Below /\ UNCHANGED vars
        /\ \/ UNCHANGED <<routes, arrays>>
           \/ routes' = Append(routes, p.slice) /\ arrays' = p.arrays
    BY DEF Return
  <1>2. stack # <<>>
    BY <1>1
  <1>3. Grown(Top.path, Top.class, p)
    BY <1>2, TopGrows
  <1> HIDE DEF p
  <1>4. Walk(p.arrays, stack, routes) /\ PathAt(p.slice, Len(stack) + 1, p.arrays, stack)
    BY <1>2, <1>3, AppendKeeps
  <1>5. Walk(p.arrays, stack, Append(routes, p.slice))
    BY <1>2, <1>4, RouteWalk
  <1>6. Walk(p.arrays, Below, Append(routes, p.slice)) /\ Walk(arrays, Below, routes)
    BY <1>1, <1>5, PopWalk DEF WalkInv
  <1> QED
    BY <1>1, <1>6, WalkStays

LEMMA StartWalk ==
    ASSUME WalkInv, NEW c \in Components, Start(c)
    PROVE  WalkInv'
  <1> DEFINE call == Frame(c, NoPath, Users(c), TRUE)
  <1>1. stack' = <<call>> /\ arrays' = <<>> /\ UNCHANGED vars /\ routes' = <<>>
    BY DEF Start, Walking, WalkInv, Walk
  <1>2. /\ call.class = c /\ call.path = NoPath /\ call.todo = Users(c) /\ call.declarers
        /\ call \in Call
    <2>1. Len(routes) \in Nat
      BY DEF WalkInv, Walk
    <2> QED
      BY <2>1 DEF Frame, Call, Users, NoPath, Slice, Classes, Things
  <1> HIDE DEF call
  <1>3. \A b \in Users(c) : Link(c, b)
    BY AngularAssumption DEF Link, Places, Classes, Things, Users
  <1>4. /\ stack' \in Seq(Call) /\ Len(stack') = 1 /\ stack'[1] = call
        /\ arrays' \in Seq(Array) /\ Len(arrays') = 0 /\ Len(routes') = 0 /\ routes' \in Seq(Slice)
    BY <1>1, <1>2
  <1>5. Paths(arrays', stack')
    BY <1>2, <1>4 DEF Paths, PathAt, NoPath
  <1>6. Leads(stack')
    BY <1>2, <1>3, <1>4 DEF Leads
  <1>7. Ways(arrays', stack', routes') /\ Sixth(arrays', stack', routes') /\ Sizes(arrays')
    BY <1>4 DEF Ways, Sixth, Sizes
  <1>8. Walk(arrays', stack', routes')
    BY <1>1, <1>4, <1>5, <1>6, <1>7 DEF Walk
  <1> QED
    BY <1>1, <1>8, WalkStays

\* Between two walks there is none.
LEMMA NoWalk == stack = <<>> /\ routes = <<>> /\ arrays = <<>> => WalkInv
  <1> SUFFICES ASSUME stack = <<>>, routes = <<>>, arrays = <<>> PROVE WalkInv
    OBVIOUS
  <1>1. Len(stack) = 0 /\ Len(routes) = 0 /\ Len(arrays) = 0
        /\ stack \in Seq(Call) /\ routes \in Seq(Slice) /\ arrays \in Seq(Array)
    OBVIOUS
  <1>2. Paths(arrays, stack) /\ Leads(stack) /\ Ways(arrays, stack, routes)
        /\ Sixth(arrays, stack, routes) /\ Sizes(arrays)
    BY <1>1 DEF Paths, Leads, Ways, Sixth, Sizes
  <1> QED
    BY <1>1, <1>2 DEF WalkInv, Walk

-----------------------------------------------------------------------------
LEMMA InitWalk == InitAll => WalkInv /\ Settled
  BY NoWalk DEF InitAll, Init, Settled

LEMMA SettledStep ==
    ASSUME Inv, Settled, [Next]_vars
    PROVE  Settled'
  <1>1. ASSUME NEW m \in Modules, PostprocessFile(m) \/ EditModule(m) PROVE Settled'
    BY <1>1 DEF PostprocessFile, EditModule, Settled
  <1>2. ASSUME NEW c \in Components, EditComponent(c) \/ EditTemplate(c) PROVE Settled'
    BY <1>2 DEF EditComponent, EditTemplate, Settled
  <1>3. ASSUME NEW c \in Components, Ask(c) PROVE Settled'
    <2>1. declaredIn[c] \subseteq Modules
      BY DEF Inv, Shape
    <2>2. CASE AnswerCached(c)
      BY <2>2 DEF AnswerCached, Settled
    <2>3. CASE AnswerAnew(c)
      BY <2>1, <2>3 DEF AnswerAnew, Settled
    <2>4. CASE AnswerPanics(c)
      BY <2>1, <2>4 DEF AnswerPanics, Settled
    <2> QED
      BY <1>3, <2>2, <2>3, <2>4 DEF Ask
  <1>4. ASSUME NEW a \in ArrayFiles, EditArray(a) PROVE Settled'
    BY <1>4 DEF EditArray, Settled
  <1>5. ASSUME UNCHANGED vars PROVE Settled'
    BY <1>5 DEF vars, Settled
  <1> QED
    BY <1>1, <1>2, <1>3, <1>4, <1>5 DEF Next

\* An edit or a question comes between two walks, when there are no routes
\* that what it changes could take a link from.
LEMMA BetweenWalks ==
    ASSUME WalkInv, ~Walking, UNCHANGED walk
    PROVE  WalkInv'
  <1>1. /\ stack' = <<>> /\ routes' = <<>> /\ arrays' = arrays
        /\ arrays \in Seq(Array) /\ Sizes(arrays)
    BY DEF WalkInv, Walk, Walking, walk
  <1>2. /\ Len(stack') = 0 /\ Len(routes') = 0
        /\ stack' \in Seq(Call) /\ routes' \in Seq(Slice)
    BY <1>1
  <1>3. Sizes(arrays')
    BY <1>1
  <1>4. Paths(arrays', stack') /\ Leads(stack)'
    BY <1>2 DEF Paths, Leads
  <1>5. Ways(arrays, stack, routes)' /\ Sixth(arrays', stack', routes')
    BY <1>2 DEF Ways, Sixth
  <1> QED
    BY <1>1, <1>2, <1>3, <1>4, <1>5 DEF WalkInv, Walk

LEMMA NextAllKeepsWalk ==
    ASSUME Inv, Settled, WalkInv, [NextAll]_allVars
    PROVE  WalkInv'
  <1>1. CASE ~Walking /\ Next /\ UNCHANGED walk
    BY <1>1, BetweenWalks
  <1>2. ASSUME NEW c \in Components, Start(c) PROVE WalkInv'
    BY <1>2, StartWalk
  <1>3. ASSUME NEW k \in Classes, Visit(k) PROVE WalkInv'
    BY <1>3, VisitWalk
  <1>4. CASE TurnToDeclarers
    BY <1>4, TurnToDeclarersWalk
  <1>5. CASE Return
    BY <1>5, ReturnWalk
  <1>6. CASE PrintProviders
    <2>1. stack' = <<>> /\ routes' = <<>> /\ arrays' = <<>>
      BY <1>6 DEF PrintProviders
    <2>2. (stack = <<>> /\ routes = <<>> /\ arrays = <<>>)' => WalkInv'
      BY NoWalk, PTL
    <2> QED
      BY <2>1, <2>2
  <1>7. CASE UNCHANGED allVars
    <2>1. UNCHANGED vars /\ UNCHANGED walk
      BY <1>7 DEF allVars
    <2> QED
      BY <2>1, WalkStays DEF walk, WalkInv
  <1> QED
    BY <1>1, <1>2, <1>3, <1>4, <1>5, <1>6, <1>7 DEF NextAll

\* What the routes hold is told from the arrays.
LEMMA WaysAreRoutes == WalkInv => RoutesFollowLinks
  <1> SUFFICES ASSUME WalkInv, NEW i \in 1 .. Len(routes), routes[i].len < 8
               PROVE  /\ Contents(routes[i])[1] = stack[1].class
                      /\ \A j \in 1 .. Len(Contents(routes[i])) - 1 :
                            Link(Contents(routes[i])[j], Contents(routes[i])[j + 1])
    BY DEF RoutesFollowLinks
  <1> DEFINE s == routes[i]
             row == arrays[s.array]
  <1>1. Fits(s, arrays) /\ Way(s, arrays, stack) /\ arrays \in Seq(Array)
    BY DEF WalkInv, Walk, Ways
  <1>2. /\ s.len \in 1 .. Len(row) /\ row \in Array
    BY <1>1 DEF Fits
  <1>3. PICK n \in Nat : n = s.len
    BY <1>1 DEF Fits, Slice
  <1>4. Contents(s) = SubSeq(row, 1, n)
    BY <1>3 DEF Contents
  <1>5. row \in Seq(Classes \cup {None}) /\ n \in 1 .. Len(row)
    BY <1>2, <1>3 DEF Array
  <1>6. row[1] = stack[1].class /\ \A j \in 1 .. n - 1 : Link(row[j], row[j + 1])
    BY <1>1, <1>3 DEF Way
  <1> HIDE DEF s, row
  <1>7. Len(SubSeq(row, 1, n)) = n /\ \A j \in 1 .. n : SubSeq(row, 1, n)[j] = row[j]
    BY <1>5
  <1> DEFINE way == SubSeq(row, 1, n)
  <1>8. 1 \in 1 .. n /\ \A j \in 1 .. n - 1 : j \in 1 .. n /\ j + 1 \in 1 .. n
    BY <1>5
  <1>9. Len(way) = n /\ way[1] = stack[1].class /\ \A j \in 1 .. n - 1 : Link(way[j], way[j + 1])
    BY <1>6, <1>7, <1>8
  <1> HIDE DEF way
  <1>10. Contents(routes[i]) = way
    BY <1>4 DEF s, way
  <1> QED
    BY <1>9, <1>10

\* Routes of fewer than eight classes stay ways from the component asked
\* about to classes that use, declare or import one another, whatever later
\* appends write into the arrays they share with the paths of the calls.
THEOREM RoutesFollow == SpecAll => []RoutesFollowLinks
  <1>1. SpecAll => [][Next]_vars /\ Init
    BY WalkReadsOnly, PTL DEF Spec
  <1>2. InitAll => Inv /\ Settled /\ WalkInv
    BY InitInv, InitWalk DEF InitAll
  <1>3. Inv /\ Settled /\ WalkInv /\ [Next]_vars /\ [NextAll]_allVars
           => (Inv /\ Settled /\ WalkInv)'
    BY StepInv, SettledStep, NextAllKeepsWalk
  <1> QED
    BY <1>1, <1>2, <1>3, WaysAreRoutes, PTL DEF SpecAll

-----------------------------------------------------------------------------
(* The modules on the routes.                                              *)

\* Where a call for a class goes, unless it is the outermost.
Goal(a) == Places(a) \cup (IF a \in Components /\ Users(a) # {} THEN Declarers(a) ELSE {})
Goals(st, n) ==
    IF n = 1 THEN Users(st[1].class) \cup Declarers(st[1].class) ELSE Goal(st[n].class)
Pending(f) == f.todo \cup (IF f.declarers THEN Declarers(f.class) ELSE {})
On(a, st) == \E n \in 2 .. Len(st) : st[n].class = a

\* A class that a call leads to has been met or the call will still go there;
\* that is so of the classes in begun, whether their calls are over or not.
Closing(st, begun, met) ==
    /\ met \in SUBSET Edited
    /\ st # <<>> => st[1].class \in Components
    /\ \A n \in 1 .. Len(st) :
          st[n].todo \subseteq Edited /\ Goals(st, n) \subseteq met \cup Pending(st[n])
    /\ \A a \in begun : On(a, st) \/ Goal(a) \subseteq met

\* What the walk reaches is in every set that has what c leads to and is
\* closed under where calls go.
LEMMA ReachableLeast ==
    ASSUME Settled, NEW c \in Components, IsFiniteSet(Classes), NEW met \in SUBSET Edited,
           Users(c) \cup Declarers(c) \subseteq met, \A a \in met : Goal(a) \subseteq met
    PROVE  Reachable(c) \subseteq met
<1> DEFINE Up(a) == IF a \in Modules THEN Importers(a)
                    ELSE IF a # c /\ Users(a) = {} THEN {} ELSE Users(a) \cup Declarers(a)
           N == Cardinality(Classes)
           More(some) == some \cup UNION {Up(a) : a \in some}
           Is(f) == f = [n \in 0 .. N |-> IF n = 0 THEN Up(c) ELSE More(f[n - 1])]
           g == [some \in SUBSET Edited |-> More(some)]
<1>1. N \in Nat
  BY FS_CardinalityType
<1>2. \A a : Up(a) \in SUBSET Edited
  BY DEF Settled, Users, Declarers, Importers, Edited
<1>3. Up(c) \subseteq met /\ \A a \in met : Up(a) \subseteq met
  BY AngularAssumption DEF Goal, Places, Edited, Things, Classes
<1> HIDE DEF N
<1>4. g \in [SUBSET Edited -> SUBSET Edited]
  <2> HIDE DEF Up
  <2> QED
    BY <1>2
<1>5. PICK f : Applied(f, SUBSET Edited, g, Up(c), N)
  <2> HIDE DEF g, Up
  <2> QED
    BY <1>1, <1>2, <1>4, Iterated
<1> HIDE DEF Up
<1>6. f \in [0 .. N -> SUBSET Edited] /\ f[0] = Up(c)
  BY <1>5 DEF Applied
<1>7. /\ \A n \in 1 .. N : n - 1 \in 0 .. N /\ n \in 0 .. N /\ n # 0
      /\ 0 \in 0 .. N /\ N \in 0 .. N /\ \A n \in 0 .. N : n # 0 => n \in 1 .. N
  BY <1>1
<1>8. ASSUME NEW n \in 1 .. N PROVE f[n] = More(f[n - 1])
  <2>1. f[n] = g[f[n - 1]] /\ f[n - 1] \in SUBSET Edited
    BY <1>5, <1>6, <1>7 DEF Applied
  <2> HIDE DEF More
  <2> QED
    BY <2>1
<1> HIDE DEF More, g
<1>9. Is(f)
  <2>1. ASSUME NEW n \in 0 .. N PROVE f[n] = IF n = 0 THEN Up(c) ELSE More(f[n - 1])
    BY <1>6, <1>7, <1>8
  <2>2. f = [n \in 0 .. N |-> f[n]]
    BY <1>6
  <2> QED
    BY <2>1, <2>2
<1>10. PICK h : h = CHOOSE f1 : Is(f1)
  OBVIOUS
<1>11. Is(h)
  BY <1>9, <1>10
<1>12. Reachable(c) = h[N]
  BY <1>10 DEF Reachable, Ascent, N, More, Up
<1>13. h[0] = Up(c) /\ \A n \in 1 .. N : h[n] = More(h[n - 1])
  <2> SUFFICES ASSUME NEW n \in 0 .. N
               PROVE  h[n] = IF n = 0 THEN Up(c) ELSE More(h[n - 1])
    BY <1>7
  <2> QED
    BY <1>11
<1> DEFINE T == {n \in 0 .. N : h[n] \subseteq met}
<1>14. 0 \in T
  BY <1>3, <1>7, <1>13
<1>15. \A n \in 1 .. N : n - 1 \in T => n \in T
  BY <1>3, <1>7, <1>13 DEF More
<1> HIDE DEF T
<1>16. N \in T
  BY <1>1, <1>7, <1>14, <1>15, UpTo
<1> QED
  BY <1>12, <1>16 DEF T

-----------------------------------------------------------------------------
\* A class is in the array of one of the routes.
Met(m, arr, rs) == \E i \in 1 .. Len(rs) : \E j \in 1 .. rs[i].len : arr[rs[i].array][j] = m

Brief(rs) == \A i \in 1 .. Len(rs) : rs[i].len < 7

\* Routes of four that end in the array which the call at depth four writes
\* into end with its class.
Fourth(arr, st, rs) ==
    Len(st) >= 4 =>
        \A i \in 1 .. Len(rs) :
            rs[i].array = st[4].path.array /\ rs[i].len = 4 => arr[rs[i].array][4] = st[4].class

\* The routes found since a call began lead through its class.
Since(arr, st, rs) ==
    \A n \in 1 .. Len(st) :
        /\ st[n].found <= Len(rs)
        /\ Brief(rs) => \A i \in st[n].found + 1 .. Len(rs) :
                           rs[i].len >= n /\ arr[rs[i].array][n] = st[n].class

\* A module whose call is over is on a route.
Over(arr, st, rs, met) ==
    Brief(rs) => \A m \in met \cap Modules : On(m, st) \/ Met(m, arr, rs)

Noting(arr, st, rs, met) == Fourth(arr, st, rs) /\ Since(arr, st, rs) /\ Over(arr, st, rs, met)

\* What the call on top appends changes nothing of a route shorter than seven.
LEMMA RoutesSame ==
    ASSUME WalkInv, stack # <<>>, Fourth(arrays, stack, routes),
           NEW p, Grown(Top.path, Top.class, p),
           NEW i \in 1 .. Len(routes), routes[i].len < 7, NEW j \in 1 .. routes[i].len
    PROVE  p.arrays[routes[i].array][j] = arrays[routes[i].array][j]
<1> DEFINE n == Len(stack)
           s == Top.path
           r == routes[i]
           L == Len(arrays[r.array])
<1>1. n \in Nat \ {0} /\ Top = stack[n]
  BY DEF WalkInv, Walk, Top
<1>2. PathAt(s, n, arrays, stack)
  BY <1>1 DEF WalkInv, Walk, Paths
<1>3. s.len = n - 1
  BY <1>2 DEF PathAt
<1>4. Fits(r, arrays)
  BY DEF WalkInv, Walk, Ways
<1>5. r.array \in 1 .. Len(arrays) /\ j \in 1 .. L /\ r.len \in 1 .. L /\ L \in Nat
  <2>1. r.array \in 1 .. Len(arrays) /\ r.len \in 1 .. L
    BY <1>4 DEF Fits
  <2>2. arrays[r.array] \in Array
    BY <2>1 DEF WalkInv, Walk
  <2>3. L \in Nat
    BY <2>2 DEF Array
  <2> QED
    BY <2>1, <2>3
<1>6. CASE r.array = s.array /\ j = n /\ s.len < Room(s)
  <2>1. n - 1 < L
    BY <1>3, <1>5, <1>6 DEF Room
  <2>2. n # 1
    BY <1>2, <1>5, <1>6 DEF PathAt, NoPath
  <2>3. L = 1 \/ L <= 2 * (n - 2)
    BY <1>2, <1>3, <1>6, <2>2 DEF PathAt, Fits
  <2>4. L \in {1, 2, 4, 8} \/ L >= 16
    BY <1>5 DEF WalkInv, Walk, Sizes
  <2>5. (n = 4 /\ r.len = 4) \/ (n = 6 /\ r.len = 6)
    <3>1. n <= r.len /\ r.len <= L /\ r.len < 7
      BY <1>5, <1>6
    <3> HIDE DEF n, r, L
    <3> QED
      BY <1>1, <1>5, <2>1, <2>2, <2>3, <2>4, <3>1
  <2>6. arrays[r.array][n] = stack[n].class
    <3>1. CASE n = 4 /\ r.len = 4
      BY <1>1, <1>6, <3>1 DEF Fourth
    <3>2. CASE n = 6 /\ r.len = 6
      BY <1>1, <1>6, <3>2 DEF WalkInv, Walk, Sixth
    <3> QED
      BY <2>5, <3>1, <3>2
  <2>7. p.arrays[r.array][n] = Top.class
    <3>1. p.slice.array = s.array /\ p.arrays[p.slice.array][s.len + 1] = Top.class
      BY <1>6 DEF Grown
    <3>2. s.len + 1 = n
      BY <1>1, <1>3
    <3> QED
      BY <1>6, <3>1, <3>2
  <2> QED
    BY <1>1, <1>6, <2>6, <2>7
<1>7. CASE ~(r.array = s.array /\ j = n /\ s.len < Room(s))
  <2>1. s.len + 1 = n
    BY <1>1, <1>3
  <2> HIDE DEF s, r, n
  <2>2. CASE s.len < Room(s)
    BY <1>5, <1>7, <2>1, <2>2 DEF Grown, r, s
  <2>3. CASE ~(s.len < Room(s))
    BY <1>5, <2>3 DEF Grown, r, s
  <2> QED
    BY <2>2, <2>3 DEF r
<1> QED
  BY <1>6, <1>7

\* The call at depth three moves to a new array with each turn.
LEMMA FourthAnew ==
    ASSUME WalkInv, Len(stack) = 3, NEW p, Grown(Top.path, Top.class, p)
    PROVE  \A i \in 1 .. Len(routes) : routes[i].array # p.slice.array
<1> DEFINE s == Top.path
<1>1. Top = stack[3]
  BY DEF Top
<1>2. PathAt(s, 3, arrays, stack)
  BY <1>1 DEF WalkInv, Walk, Paths
<1>3. Fits(s, arrays) /\ s.len = 2
  BY <1>2 DEF PathAt
<1>4. Len(arrays[s.array]) \in Nat
  <2>1. arrays[s.array] \in Array
    BY <1>3 DEF Fits, WalkInv, Walk
  <2> QED
    BY <2>1 DEF Array
<1>5. ~(s.len < Room(s))
  <2>1. Len(arrays[s.array]) <= 2
    <3>1. PICK L \in Nat : L = Len(arrays[s.array])
      BY <1>4
    <3>2. L = 1 \/ L <= 2 * (s.len - 1)
      BY <1>3, <3>1 DEF Fits
    <3>3. L = 1 \/ L <= 2 * (2 - 1)
      BY <1>3, <3>2
    <3> QED
      BY <3>1, <3>3
  <2>2. Room(s) = 0 \/ Room(s) = Len(arrays[s.array])
    BY DEF Room
  <2>3. Room(s) \in Nat /\ Room(s) <= 2
    BY <1>4, <2>1, <2>2
  <2>4. s.len = 2
    BY <1>3
  <2> QED
    BY <2>3, <2>4
<1>6. p.slice.array = Len(arrays) + 1 /\ Len(arrays) \in Nat
  BY <1>5 DEF Grown, WalkInv, Walk
<1>7. \A i \in 1 .. Len(routes) : routes[i].array \in 1 .. Len(arrays)
  BY DEF WalkInv, Walk, Ways, Fits
<1> QED
  BY <1>6, <1>7

LEMMA AppendNotes ==
    ASSUME WalkInv, stack # <<>>, NEW met, Noting(arrays, stack, routes, met),
           NEW p, Grown(Top.path, Top.class, p)
    PROVE  Noting(p.arrays, stack, routes, met)
<1>1. \A i \in 1 .. Len(routes) : routes[i].len < 7 =>
          \A j \in 1 .. routes[i].len : p.arrays[routes[i].array][j] = arrays[routes[i].array][j]
  BY RoutesSame DEF Noting
<1>2. Fourth(p.arrays, stack, routes)
  BY <1>1 DEF Fourth, Noting
<1>3. Since(p.arrays, stack, routes)
  <2> SUFFICES ASSUME NEW n \in 1 .. Len(stack), Brief(routes),
                      NEW i \in stack[n].found + 1 .. Len(routes)
               PROVE  routes[i].len >= n /\ p.arrays[routes[i].array][n] = stack[n].class
    BY DEF Since, Noting
  <2>1. routes[i].len >= n /\ arrays[routes[i].array][n] = stack[n].class
    BY DEF Since, Noting
  <2>2. stack[n].found \in Nat /\ Len(routes) \in Nat /\ n \in Nat /\ n >= 1
    <3>1. stack \in Seq(Call) /\ routes \in Seq(Slice)
      BY DEF WalkInv, Walk
    <3>2. stack[n] \in Call
      BY <3>1
    <3> QED
      BY <3>1, <3>2 DEF Call
  <2>3. i \in 1 .. Len(routes)
    BY <2>2
  <2>4. routes[i].len \in Nat
    <3>1. routes[i] \in Slice
      BY <2>3 DEF WalkInv, Walk
    <3> QED
      BY <3>1 DEF Slice
  <2>5. n \in 1 .. routes[i].len /\ routes[i].len < 7
    BY <2>1, <2>2, <2>3, <2>4 DEF Brief
  <2> QED
    BY <1>1, <2>1, <2>3, <2>5
<1>4. Over(p.arrays, stack, routes, met)
  <2> SUFFICES ASSUME Brief(routes), NEW m, Met(m, arrays, routes) PROVE Met(m, p.arrays, routes)
    BY DEF Over, Noting
  <2>1. PICK i \in 1 .. Len(routes) : \E j \in 1 .. routes[i].len : arrays[routes[i].array][j] = m
    BY DEF Met
  <2>2. routes[i].len < 7
    BY DEF Brief
  <2> QED
    BY <1>1, <2>1, <2>2 DEF Met
<1> QED
  BY <1>2, <1>3, <1>4 DEF Noting

\* The call on top takes another turn.
LEMMA TurnNotes ==
    ASSUME NEW arr, NEW rs, NEW met, Noting(arr, stack, rs, met),
           stack \in Seq(Call), stack # <<>>,
           NEW call \in Call, call.class = Top.class, call.path = Top.path, call.found = Top.found
    PROVE  Noting(arr, Append(Below, call), rs, met)
<1> DEFINE st == Append(Below, call)
<1>1. /\ Len(st) = Len(stack) /\ st[Len(stack)] = call /\ Len(stack) \in Nat \ {0}
      /\ \A n \in 1 .. Len(stack) - 1 : st[n] = stack[n]
  BY OnTop
<1> HIDE DEF st
<1>2. \A n \in 1 .. Len(stack) :
          st[n].class = stack[n].class /\ st[n].path = stack[n].path /\ st[n].found = stack[n].found
  <2> TAKE n \in 1 .. Len(stack)
  <2>1. CASE n = Len(stack)
    BY <1>1, <2>1 DEF Top
  <2>2. CASE n # Len(stack)
    BY <1>1, <2>2
  <2> QED
    BY <2>1, <2>2
<1>3. Fourth(arr, st, rs)
  BY <1>1, <1>2 DEF Fourth, Noting
<1>4. Since(arr, st, rs)
  BY <1>1, <1>2 DEF Since, Noting
<1>5. Over(arr, st, rs, met)
  <2>1. \A m : On(m, stack) => On(m, st)
    BY <1>1, <1>2 DEF On
  <2> QED
    BY <2>1 DEF Over, Noting
<1> QED
  BY <1>3, <1>4, <1>5 DEF Noting, st

\* A call for a class not met before begins.
LEMMA PushNotes ==
    ASSUME NEW arr, NEW st \in Seq(Call), NEW rs \in Seq(Slice), NEW met, Noting(arr, st, rs, met),
           st # <<>>, NEW call \in Call, call.found = Len(rs),
           Len(st) = 3 => \A i \in 1 .. Len(rs) : rs[i].array # call.path.array
    PROVE  Noting(arr, Append(st, call), rs, met \cup {call.class})
<1> DEFINE up == Append(st, call)
           n == Len(st)
<1>1. /\ Len(up) = n + 1 /\ up[n + 1] = call /\ n \in Nat \ {0}
      /\ \A m \in 1 .. n : up[m] = st[m]
  OBVIOUS
<1> HIDE DEF up, n
<1>2. Fourth(arr, up, rs)
  <2>1. CASE n >= 4
    BY <1>1, <2>1 DEF Fourth, Noting, n
  <2>2. CASE n = 3
    BY <1>1, <2>2 DEF Fourth, n
  <2>3. CASE n < 3
    BY <1>1, <2>3 DEF Fourth
  <2> QED
    BY <1>1, <2>1, <2>2, <2>3
<1>3. Since(arr, up, rs)
  <2> SUFFICES ASSUME NEW m \in 1 .. n + 1
               PROVE  /\ up[m].found <= Len(rs)
                      /\ Brief(rs) => \A i \in up[m].found + 1 .. Len(rs) :
                                         rs[i].len >= m /\ arr[rs[i].array][m] = up[m].class
    BY <1>1 DEF Since
  <2>1. CASE m = n + 1
    BY <1>1, <2>1
  <2>2. CASE m # n + 1
    BY <1>1, <2>2 DEF Since, Noting, n
  <2> QED
    BY <2>1, <2>2
<1>4. Over(arr, up, rs, met \cup {call.class})
  <2>1. \A m : On(m, st) => On(m, up)
    BY <1>1 DEF On, n
  <2>2. On(call.class, up)
    BY <1>1 DEF On
  <2> QED
    BY <2>1, <2>2 DEF Over, Noting
<1> QED
  BY <1>2, <1>3, <1>4 DEF Noting, up

\* The path to the class on top becomes a route.
LEMMA RouteNotes ==
    ASSUME NEW arr, NEW rs \in Seq(Slice), NEW met, Noting(arr, stack, rs, met),
           stack \in Seq(Call), stack # <<>>,
           NEW s, PathAt(s, Len(stack) + 1, arr, stack)
    PROVE  Noting(arr, stack, Append(rs, s), met) /\ Met(Top.class, arr, Append(rs, s))
<1> DEFINE n == Len(stack)
           more == Append(rs, s)
<1>1. n \in Nat \ {0}
  OBVIOUS
<1>2. s.len = n /\ s \in Slice /\ \A j \in 1 .. n : arr[s.array][j] = stack[j].class
  BY <1>1 DEF PathAt, Fits
<1>3. /\ Len(more) = Len(rs) + 1 /\ Len(rs) \in Nat
      /\ more[Len(rs) + 1] = s /\ \A i \in 1 .. Len(rs) : more[i] = rs[i]
  BY <1>2
<1> HIDE DEF more
<1>4. Brief(more) => Brief(rs)
  BY <1>3 DEF Brief
<1>5. Fourth(arr, stack, more)
  <2> SUFFICES ASSUME n >= 4, NEW i \in 1 .. Len(rs) + 1,
                      more[i].array = stack[4].path.array, more[i].len = 4
               PROVE  arr[more[i].array][4] = stack[4].class
    BY <1>3 DEF Fourth
  <2>1. CASE i = Len(rs) + 1
    BY <1>1, <1>2, <1>3, <2>1
  <2>2. CASE i \in 1 .. Len(rs)
    BY <1>3, <2>2 DEF Fourth, Noting
  <2> QED
    BY <1>3, <2>1, <2>2
<1>6. Since(arr, stack, more)
  <2> SUFFICES ASSUME NEW m \in 1 .. n
               PROVE  /\ stack[m].found <= Len(more)
                      /\ Brief(more) => \A i \in stack[m].found + 1 .. Len(more) :
                                         more[i].len >= m /\ arr[more[i].array][m] = stack[m].class
    BY DEF Since
  <2>1. stack[m].found \in Nat
    <3>1. stack[m] \in Call
      OBVIOUS
    <3> QED
      BY <3>1 DEF Call
  <2>2. stack[m].found <= Len(rs)
    BY DEF Since, Noting
  <2>3. ASSUME Brief(more), NEW i \in stack[m].found + 1 .. Len(rs) + 1
        PROVE  more[i].len >= m /\ arr[more[i].array][m] = stack[m].class
    <3>1. CASE i = Len(rs) + 1
      BY <1>1, <1>2, <1>3, <3>1
    <3>2. CASE i # Len(rs) + 1
      <4>1. i \in stack[m].found + 1 .. Len(rs) /\ i \in 1 .. Len(rs)
        BY <1>3, <2>1, <3>2
      <4>2. rs[i].len >= m /\ arr[rs[i].array][m] = stack[m].class
        BY <1>4, <2>3, <4>1 DEF Since, Noting
      <4> QED
        BY <1>3, <4>1, <4>2
    <3> QED
      BY <3>1, <3>2
  <2> QED
    BY <1>3, <2>1, <2>2, <2>3
<1>7. Over(arr, stack, more, met)
  <2>1. \A m : Met(m, arr, rs) => Met(m, arr, more)
    BY <1>3 DEF Met
  <2> QED
    BY <1>4, <2>1 DEF Over, Noting
<1>8. Met(Top.class, arr, more)
  <2>1. Len(rs) + 1 \in 1 .. Len(more) /\ n \in 1 .. more[Len(rs) + 1].len
    BY <1>1, <1>2, <1>3
  <2>2. arr[more[Len(rs) + 1].array][n] = Top.class
    BY <1>1, <1>2, <1>3 DEF Top
  <2> QED
    BY <2>1, <2>2 DEF Met
<1> QED
  BY <1>5, <1>6, <1>7, <1>8 DEF Noting, more

\* A call that returns leaves a route with its class, if that is a module.
LEMMA PopNotes ==
    ASSUME NEW arr, NEW rs, NEW met, Noting(arr, stack, rs, met),
           stack \in Seq(Call), Len(stack) > 1,
           Brief(rs) /\ Top.class \in Modules => Met(Top.class, arr, rs)
    PROVE  Noting(arr, Below, rs, met)
<1> DEFINE st == Below
<1>1. /\ Len(st) = Len(stack) - 1 /\ Len(stack) \in Nat
      /\ \A n \in 1 .. Len(stack) - 1 : st[n] = stack[n]
  BY BelowTop
<1> HIDE DEF st
<1>2. Fourth(arr, st, rs)
  BY <1>1 DEF Fourth, Noting
<1>3. Since(arr, st, rs)
  BY <1>1 DEF Since, Noting
<1>4. Over(arr, st, rs, met)
  <2>1. \A m : On(m, stack) => On(m, st) \/ m = Top.class
    BY <1>1 DEF On, Top
  <2> QED
    BY <2>1 DEF Over, Noting
<1> QED
  BY <1>2, <1>3, <1>4 DEF Noting, st

-----------------------------------------------------------------------------
LEMMA TurnCloses ==
    ASSUME NEW begun, NEW met, Closing(stack, begun, met), stack \in Seq(Call), stack # <<>>,
           NEW call \in Call, call.class = Top.class, call.todo \subseteq Edited,
           NEW more \in SUBSET Edited, met \subseteq more,
           Pending(Top) \subseteq more \cup Pending(call)
    PROVE  Closing(Append(Below, call), begun, more)
<1> DEFINE st == Append(Below, call)
<1>1. /\ Len(st) = Len(stack) /\ st[Len(stack)] = call /\ Len(stack) \in Nat \ {0}
      /\ st # <<>> /\ \A n \in 1 .. Len(stack) - 1 : st[n] = stack[n]
  BY OnTop
<1> HIDE DEF st
<1>2. \A n \in 1 .. Len(stack) : st[n].class = stack[n].class
  BY <1>1 DEF Top
<1>3. 1 \in 1 .. Len(stack) /\ st[1].class = stack[1].class
  BY <1>1, <1>2
<1>4. \A n \in 1 .. Len(stack) : Goals(st, n) = Goals(stack, n)
  BY <1>2, <1>3 DEF Goals
<1>5. ASSUME NEW n \in 1 .. Len(st)
      PROVE  st[n].todo \subseteq Edited /\ Goals(st, n) \subseteq more \cup Pending(st[n])
  <2>1. Goals(stack, n) \subseteq met \cup Pending(stack[n])
    BY <1>1 DEF Closing
  <2>2. CASE n = Len(stack)
    BY <1>1, <1>4, <2>1, <2>2 DEF Top
  <2>3. CASE n # Len(stack)
    BY <1>1, <1>4, <2>1, <2>3 DEF Closing
  <2> QED
    BY <2>2, <2>3
<1>6. \A a : On(a, stack) => On(a, st)
  BY <1>1, <1>2 DEF On
<1> QED
  BY <1>1, <1>3, <1>5, <1>6 DEF Closing, st

LEMMA PushCloses ==
    ASSUME NEW begun, NEW met, NEW st \in Seq(Call), Closing(st, begun, met), st # <<>>,
           NEW call \in Call, call.todo \subseteq Edited,
           Goal(call.class) \subseteq Pending(call)
    PROVE  Closing(Append(st, call), begun \cup {call.class}, met)
<1> DEFINE up == Append(st, call)
           n == Len(st)
<1>1. /\ Len(up) = n + 1 /\ up[n + 1] = call /\ n \in Nat \ {0} /\ up # <<>>
      /\ \A m \in 1 .. n : up[m] = st[m]
  OBVIOUS
<1> HIDE DEF up
<1>2. up[1] = st[1]
  BY <1>1
<1>3. ASSUME NEW m \in 1 .. n + 1
      PROVE  up[m].todo \subseteq Edited
             /\ Goals(up, m) \subseteq met \cup Pending(up[m])
  <2>1. CASE m = n + 1
    BY <1>1, <2>1 DEF Goals
  <2>2. CASE m # n + 1
    <3>1. m \in 1 .. n
      BY <1>1, <2>2
    <3>2. Goals(up, m) = Goals(st, m)
      BY <1>1, <1>2, <3>1 DEF Goals
    <3> QED
      BY <1>1, <3>1, <3>2 DEF Closing
  <2> QED
    BY <2>1, <2>2
<1>4. \A a : On(a, st) => On(a, up)
  BY <1>1 DEF On
<1>5. On(call.class, up)
  BY <1>1 DEF On
<1> QED
  BY <1>1, <1>2, <1>3, <1>4, <1>5 DEF Closing, up

LEMMA PopCloses ==
    ASSUME NEW begun, NEW met, Closing(stack, begun, met), stack \in Seq(Call), Len(stack) > 1, Pending(Top) = {}
    PROVE  Closing(Below, begun, met)
<1> DEFINE st == Below
<1>1. /\ Len(st) = Len(stack) - 1 /\ Len(stack) \in Nat
      /\ \A n \in 1 .. Len(stack) - 1 : st[n] = stack[n] /\ n \in 1 .. Len(stack)
  BY BelowTop
<1> HIDE DEF st
<1>2. st[1] = stack[1]
  BY <1>1
<1>3. \A n \in 1 .. Len(st) : Goals(st, n) = Goals(stack, n)
  BY <1>1, <1>2 DEF Goals
<1>4. \A n \in 1 .. Len(st) :
          st[n].todo \subseteq Edited /\ Goals(st, n) \subseteq met \cup Pending(st[n])
  BY <1>1, <1>3 DEF Closing
<1>5. Goal(Top.class) \subseteq met
  <2>1. Len(stack) \in 1 .. Len(stack) /\ Len(stack) # 1
    BY <1>1
  <2>2. Goals(stack, Len(stack)) \subseteq met \cup Pending(Top)
    BY <2>1 DEF Closing, Top
  <2> QED
    BY <2>1, <2>2 DEF Goals, Top
<1>6. \A a : On(a, stack) => On(a, st) \/ a = Top.class
  BY <1>1 DEF On, Top
<1> QED
  BY <1>1, <1>2, <1>4, <1>5, <1>6 DEF Closing, st

-----------------------------------------------------------------------------
\* The walk has met what its calls are over with, and has routes through it.
ReportInv ==
    /\ Closing(stack, visited, visited)
    /\ Noting(arrays, stack, routes, visited)

LEMMA ReportStays ==
    ASSUME UNCHANGED vars, Closing(stack', visited', visited'), Noting(arrays', stack', routes', visited')
    PROVE  ReportInv'
<1>1. /\ \A a : Users(a)' = Users(a) /\ Declarers(a)' = Declarers(a)
      /\ \A a : Places(a)' = Places(a)
  BY DEF vars, Places, Importers, Users, Declarers, Listed
<1>2. \A a : Goal(a)' = Goal(a)
  BY <1>1 DEF Goal
<1>3. Closing(stack, visited, visited)' <=> Closing(stack', visited', visited')
  BY <1>1, <1>2 DEF Closing, Goals, Pending, On
<1>4. Noting(arrays, stack, routes, visited)' <=> Noting(arrays', stack', routes', visited')
  BY DEF Noting, Fourth, Since, Over, Brief, Met, On
<1> QED
  BY <1>3, <1>4 DEF ReportInv

LEMMA PlacesEdited ==
    ASSUME Settled, NEW a
    PROVE  Places(a) \subseteq Edited /\ Declarers(a) \subseteq Edited /\ Users(a) \subseteq Edited
BY DEF Settled, Places, Importers, Users, Declarers, Edited

LEMMA VisitReports ==
    ASSUME WalkInv, Settled, ReportInv, NEW next \in Classes, Visit(next)
    PROVE  ReportInv'
<1> DEFINE p == Appended(Top.path, Top.class)
           turn == [Top EXCEPT !.todo = @ \ {next}]
           turned == Append(Below, turn)
           call == Frame(next, p.slice, Places(next), next \in Components /\ Users(next) # {})
<1>1. /\ stack # <<>> /\ next \in Top.todo /\ UNCHANGED vars /\ UNCHANGED routes
      /\ arrays' = p.arrays
      /\ \/ next \in visited /\ stack' = turned /\ visited' = visited
         \/ stack' = Append(turned, call) /\ visited' = visited \cup {next}
  BY DEF Visit, Walking
<1>2. /\ Top \in Call /\ Top = stack[Len(stack)] /\ Len(stack) \in Nat \ {0}
      /\ Grown(Top.path, Top.class, p) /\ stack \in Seq(Call) /\ routes \in Seq(Slice)
  BY <1>1, TopGrows DEF WalkInv, Walk
<1> HIDE DEF p
<1>3. Noting(p.arrays, stack, routes, visited)
  BY <1>1, <1>2, AppendNotes DEF ReportInv
<1>4. turn \in Call /\ turn.class = Top.class /\ turn.path = Top.path /\ turn.found = Top.found
      /\ turn.todo = Top.todo \ {next} /\ turn.declarers = Top.declarers
  BY <1>2 DEF Call
<1> HIDE DEF turn
<1>5. Top.todo \subseteq Edited
  BY <1>2 DEF ReportInv, Closing
<1>6. /\ turned \in Seq(Call) /\ turned # <<>> /\ Len(turned) = Len(stack)
  BY <1>1, <1>2, <1>4, OnTop
<1>7. Noting(p.arrays, turned, routes, visited)
  BY <1>1, <1>2, <1>3, <1>4, TurnNotes
<1>8. CASE next \in visited /\ stack' = turned /\ visited' = visited
  <2>1. Pending(Top) \subseteq visited \cup Pending(turn)
    BY <1>4, <1>8 DEF Pending
  <2>2. visited \in SUBSET Edited
    BY DEF ReportInv, Closing
  <2>3. Closing(turned, visited, visited)
    BY <1>1, <1>2, <1>4, <1>5, <2>1, <2>2, TurnCloses DEF ReportInv
  <2> QED
    BY <1>1, <1>7, <1>8, <2>3, ReportStays
<1>9. CASE stack' = Append(turned, call) /\ visited' = visited \cup {next}
  <2>1. p.slice \in Slice /\ Len(routes) \in Nat
    BY <1>2 DEF Grown, Fits
  <2>2. /\ call \in Call /\ call.class = next /\ call.path = p.slice /\ call.found = Len(routes)
        /\ call.todo = Places(next) /\ (call.declarers <=> next \in Components /\ Users(next) # {})
    BY <2>1, PlacesClasses DEF Frame, Call
  <2> HIDE DEF call
  <2>3. Len(turned) = 3 => \A i \in 1 .. Len(routes) : routes[i].array # call.path.array
    BY <1>2, <1>6, <2>2, FourthAnew
  <2>4. Noting(p.arrays, Append(turned, call), routes, visited \cup {next})
    <3> HIDE DEF turned
    <3> QED
      BY <1>2, <1>6, <1>7, <2>2, <2>3, PushNotes
  <2>5. Closing(turned, visited, visited \cup {next})
    <3>1. Pending(Top) \subseteq (visited \cup {next}) \cup Pending(turn)
      BY <1>4 DEF Pending
    <3>2. visited \cup {next} \in SUBSET Edited
      BY <1>1, <1>5 DEF ReportInv, Closing
    <3> QED
      BY <1>1, <1>2, <1>4, <1>5, <3>1, <3>2, TurnCloses DEF ReportInv
  <2>6. Goal(next) \subseteq Pending(call)
    BY <2>2 DEF Goal, Pending
  <2>7. Closing(Append(turned, call), visited \cup {next}, visited \cup {next})
    <3>1. call.todo \subseteq Edited
      BY <2>2, PlacesEdited
    <3> HIDE DEF turned
    <3> QED
      BY <1>6, <2>2, <2>5, <2>6, <3>1, PushCloses
  <2> QED
    BY <1>1, <1>9, <2>4, <2>7, ReportStays
<1> QED
  BY <1>1, <1>8, <1>9

LEMMA TurnToDeclarersReports ==
    ASSUME WalkInv, Settled, ReportInv, TurnToDeclarers
    PROVE  ReportInv'
<1> DEFINE turn == [Top EXCEPT !.todo = Declarers(Top.class), !.declarers = FALSE]
<1>1. /\ stack # <<>> /\ Top.todo = {} /\ Top.declarers
      /\ UNCHANGED vars /\ UNCHANGED <<visited, routes, arrays>>
      /\ stack' = Append(Below, turn)
  BY DEF TurnToDeclarers, Walking
<1>2. Top \in Call /\ stack \in Seq(Call)
  BY <1>1, TopGrows DEF WalkInv, Walk
<1>3. Declarers(Top.class) \in SUBSET Classes
  BY DEF Declarers, Classes
<1>4. /\ turn \in Call /\ turn.class = Top.class /\ turn.path = Top.path /\ turn.found = Top.found
      /\ turn.todo = Declarers(Top.class) /\ ~turn.declarers
  BY <1>2, <1>3 DEF Call
<1> HIDE DEF turn
<1>5. Noting(arrays, Append(Below, turn), routes, visited)
  BY <1>1, <1>2, <1>4, TurnNotes DEF ReportInv
<1>6. turn.todo \subseteq Edited
  BY <1>4, PlacesEdited
<1>7. Pending(Top) \subseteq visited \cup Pending(turn) /\ visited \in SUBSET Edited
  BY <1>1, <1>4 DEF Pending, ReportInv, Closing
<1>8. Closing(Append(Below, turn), visited, visited)
  BY <1>1, <1>2, <1>4, <1>6, <1>7, TurnCloses DEF ReportInv
<1> QED
  BY <1>1, <1>5, <1>8, ReportStays

LEMMA ReturnReports ==
    ASSUME WalkInv, ReportInv, Return
    PROVE  ReportInv'
<1> DEFINE p == Appended(Top.path, Top.class)
           n == Len(stack)
<1>1. /\ Len(stack) > 1 /\ stack' = Below /\ UNCHANGED vars /\ visited' = visited
      /\ Top.todo = {} /\ ~Top.declarers
      /\ IF EndsRoute(Top) THEN routes' = Append(routes, p.slice) /\ arrays' = p.arrays
                           ELSE UNCHANGED <<routes, arrays>>
  BY DEF Return
<1>2. /\ stack # <<>> /\ stack \in Seq(Call) /\ routes \in Seq(Slice)
      /\ n \in Nat \ {0} /\ n \in 1 .. n
  BY <1>1 DEF WalkInv, Walk
<1>3. Top \in Call /\ Top = stack[n] /\ Grown(Top.path, Top.class, p)
  BY <1>2, TopGrows
<1> HIDE DEF p
<1>4. Closing(Below, visited, visited)
  <2>1. Pending(Top) = {}
    BY <1>1 DEF Pending
  <2> QED
    BY <1>1, <1>2, <2>1, PopCloses DEF ReportInv
<1>5. CASE EndsRoute(Top)
  <2>1. Noting(p.arrays, stack, routes, visited)
    BY <1>2, <1>3, AppendNotes DEF ReportInv
  <2>2. PathAt(p.slice, n + 1, p.arrays, stack)
    BY <1>2, <1>3, AppendKeeps
  <2>3. /\ Noting(p.arrays, stack, Append(routes, p.slice), visited)
        /\ Met(Top.class, p.arrays, Append(routes, p.slice))
    BY <1>2, <2>1, <2>2, RouteNotes
  <2>4. Noting(p.arrays, Below, Append(routes, p.slice), visited)
    BY <1>1, <1>2, <2>3, PopNotes
  <2> QED
    BY <1>1, <1>4, <1>5, <2>4, ReportStays
<1>6. CASE ~EndsRoute(Top)
  <2>1. ASSUME Brief(routes), Top.class \in Modules PROVE Met(Top.class, arrays, routes)
    <3>1. Len(routes) # Top.found
      BY <1>6, <2>1 DEF EndsRoute
    <3>2. Top.found \in Nat /\ Len(routes) \in Nat /\ Top.found <= Len(routes)
      BY <1>2, <1>3 DEF Call, ReportInv, Noting, Since
    <3>3. Len(routes) \in Top.found + 1 .. Len(routes) /\ Len(routes) \in 1 .. Len(routes)
      BY <3>1, <3>2
    <3>4. routes[Len(routes)].len >= n /\ arrays[routes[Len(routes)].array][n] = Top.class
      BY <1>2, <1>3, <2>1, <3>3 DEF ReportInv, Noting, Since
    <3>5. routes[Len(routes)].len \in Nat
      <4>1. routes[Len(routes)] \in Slice
        BY <1>2, <3>3
      <4> QED
        BY <4>1 DEF Slice
    <3>6. n \in 1 .. routes[Len(routes)].len
      BY <1>2, <3>4, <3>5
    <3> QED
      BY <3>3, <3>4, <3>6 DEF Met
  <2>2. Noting(arrays, Below, routes, visited)
    BY <1>1, <1>2, <2>1, PopNotes DEF ReportInv
  <2> QED
    BY <1>1, <1>4, <1>6, <2>2, ReportStays
<1> QED
  BY <1>5, <1>6

LEMMA StartReports ==
    ASSUME WalkInv, NEW c \in Components, Start(c)
    PROVE  ReportInv'
<1> DEFINE call == Frame(c, NoPath, Users(c), TRUE)
<1>1. /\ stack' = <<call>> /\ visited' = {} /\ UNCHANGED vars /\ routes' = <<>>
  BY DEF Start, Walking, WalkInv, Walk
<1>2. call.class = c /\ call.todo = Users(c) /\ call.declarers /\ call.found = Len(routes)
  BY DEF Frame
<1>3. Len(routes) = 0
  BY DEF Start, Walking, WalkInv, Walk
<1> HIDE DEF call
<1>4. /\ Len(stack') = 1 /\ stack'[1] = call /\ stack' # <<>> /\ Len(routes') = 0
  BY <1>1
<1>5. Users(c) \subseteq Edited
  BY DEF Users, Edited
<1>6. Closing(stack', visited', visited')
  BY <1>1, <1>2, <1>4, <1>5 DEF Closing, Goals, Pending
<1>7. Noting(arrays', stack', routes', visited')
  BY <1>1, <1>2, <1>3, <1>4 DEF Noting, Fourth, Since, Over
<1> QED
  BY <1>1, <1>6, <1>7, ReportStays

\* Between two walks nothing has been met.
Quiet == stack = <<>> => visited = {}

LEMMA NoReport == stack = <<>> /\ visited = {} => ReportInv
<1> SUFFICES ASSUME stack = <<>>, visited = {} PROVE ReportInv
  OBVIOUS
<1>1. Len(stack) = 0
  OBVIOUS
<1> QED
  BY <1>1 DEF ReportInv, Closing, Noting, Fourth, Since, Over

LEMMA NextAllReports ==
    ASSUME WalkInv, Settled, ReportInv, Quiet, [NextAll]_allVars
    PROVE  ReportInv' /\ Quiet'
<1>1. (stack = <<>> /\ visited = {})' => ReportInv' /\ Quiet'
  BY NoReport, PTL DEF Quiet
<1>2. CASE ~Walking /\ Next /\ UNCHANGED walk
  BY <1>1, <1>2 DEF Walking, walk, Quiet
<1>3. ASSUME NEW c \in Components, Start(c) PROVE ReportInv' /\ Quiet'
  BY <1>3, StartReports DEF Start, Quiet
<1>4. ASSUME NEW k \in Classes, Visit(k) PROVE ReportInv' /\ Quiet'
  <2>1. ReportInv'
    BY <1>4, VisitReports
  <2>2. Len(stack') > 0
    <3>1. stack \in Seq(Call) /\ stack # <<>>
      BY <1>4 DEF Visit, Walking, WalkInv, Walk
    <3>2. Below \in Seq(Call)
      BY <3>1, BelowTop
    <3> HIDE DEF Below
    <3>3. \A x, y : Len(Append(Below, x)) > 0 /\ Len(Append(Append(Below, x), y)) > 0
      BY <3>2
    <3> QED
      BY <1>4, <3>3 DEF Visit
  <2> QED
    BY <2>1, <2>2 DEF Quiet
<1>5. CASE TurnToDeclarers
  <2>1. Len(stack') > 0
    <3>1. stack \in Seq(Call) /\ stack # <<>>
      BY <1>5 DEF TurnToDeclarers, Walking, WalkInv, Walk
    <3>2. Below \in Seq(Call)
      BY <3>1, BelowTop
    <3> HIDE DEF Below
    <3> QED
      BY <1>5, <3>2 DEF TurnToDeclarers
  <2> QED
    BY <1>5, <2>1, TurnToDeclarersReports DEF Quiet
<1>6. CASE Return
  <2>1. Len(stack') > 0
    BY <1>6, BelowTop DEF Return, WalkInv, Walk
  <2> QED
    BY <1>6, <2>1, ReturnReports DEF Quiet
<1>7. CASE PrintProviders
  BY <1>1, <1>7 DEF PrintProviders
<1>8. CASE UNCHANGED allVars
  BY <1>8, ReportStays DEF allVars, walk, ReportInv, Quiet
<1> QED
  BY <1>2, <1>3, <1>4, <1>5, <1>6, <1>7, <1>8 DEF NextAll

LEMMA WalkReports ==
    ASSUME WalkInv, Settled, ReportInv, IsFiniteSet(Classes)
    PROVE  ModulesReported
<1> SUFFICES ASSUME Complete, \A i \in 1 .. Len(routes) : routes[i].len < 7,
                    NEW m \in Reachable(stack[1].class) \cap Modules
             PROVE  m \in OnRoutes
  BY DEF ModulesReported
<1>1. /\ Len(stack) = 1 /\ Top = stack[1] /\ Top.todo = {} /\ ~Top.declarers
      /\ stack # <<>> /\ 1 \in 1 .. Len(stack)
  <2>1. Len(stack) = 1 /\ Top.todo = {} /\ ~Top.declarers
    BY DEF Complete
  <2>2. Top = stack[1]
    BY <2>1 DEF Top
  <2>3. stack # <<>> /\ 1 \in 1 .. Len(stack)
    BY <2>1
  <2> QED
    BY <2>1, <2>2, <2>3
<1>2. \A a : ~On(a, stack)
  BY <1>1 DEF On
<1>3. /\ visited \in SUBSET Edited /\ stack[1].class \in Components
      /\ Goals(stack, 1) \subseteq visited \cup Pending(stack[1])
      /\ \A a \in visited : Goal(a) \subseteq visited
  BY <1>1, <1>2 DEF ReportInv, Closing
<1>4. Users(stack[1].class) \cup Declarers(stack[1].class) \subseteq visited
  BY <1>1, <1>3 DEF Goals, Pending
<1>5. m \in visited
  BY <1>3, <1>4, ReachableLeast
<1>6. Met(m, arrays, routes)
  BY <1>2, <1>5 DEF ReportInv, Noting, Over, Brief
<1>7. PICK i \in 1 .. Len(routes) : \E j \in 1 .. routes[i].len : arrays[routes[i].array][j] = m
  BY <1>6 DEF Met
<1>8. PICK j \in 1 .. routes[i].len : arrays[routes[i].array][j] = m
  BY <1>7
<1> DEFINE s == routes[i]
           row == arrays[s.array]
<1>9. Fits(s, arrays) /\ arrays \in Seq(Array)
  BY DEF WalkInv, Walk, Ways
<1>10. row \in Seq(Classes \cup {None}) /\ s.len \in 1 .. Len(row)
  BY <1>9 DEF Fits, Array
<1>11. SubSeq(row, 1, s.len)[j] = row[j]
  <2>1. PICK n \in Nat : n = s.len
    BY <1>10
  <2>2. n \in 1 .. Len(row) /\ j \in 1 .. n
    BY <1>10, <2>1
  <2> HIDE DEF row
  <2>3. SubSeq(row, 1, n)[j] = row[j]
    BY <1>10, <2>2
  <2> QED
    BY <2>1, <2>3
<1>12. Contents(routes[i])[j] = m
  BY <1>8, <1>11 DEF Contents
<1> QED
  BY <1>12 DEF OnRoutes

\* The providers of every module that can be reached from a component are
\* printed, for every project, in whatever order the places come: the walk
\* enters a class once, but a route goes through each module it has entered.
THEOREM ReachableReported == SpecAll => []ModulesReported
<1>1. SpecAll => [][Next]_vars /\ Init
  BY WalkReadsOnly, PTL DEF Spec
<1>2. InitAll => Inv /\ Settled /\ WalkInv /\ ReportInv /\ Quiet
  BY InitInv, InitWalk, NoReport DEF InitAll, Quiet
<1>3. Inv /\ Settled /\ WalkInv /\ ReportInv /\ Quiet /\ [Next]_vars /\ [NextAll]_allVars
         => (Inv /\ Settled /\ WalkInv /\ ReportInv /\ Quiet)'
  BY StepInv, SettledStep, NextAllKeepsWalk, NextAllReports
<1>4. WalkInv /\ Settled /\ ReportInv => ModulesReported
  BY WalkReports, RoutesAssumption
<1> QED
  BY <1>1, <1>2, <1>3, <1>4, PTL DEF SpecAll
=============================================================================
