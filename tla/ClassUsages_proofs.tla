------------------------- MODULE ClassUsages_proofs -------------------------
(***************************************************************************)
(* Proofs about ClassUsages, for any classes and names, any hierarchy that *)
(* has no cycle and any number of edits.                                   *)
(*                                                                         *)
(* Above is defined by recursion along Extends.  That it is what its       *)
(* definition says is shown by a function that is one; what holds of all   *)
(* classes above is shown of a class of the lowest rank that would lack    *)
(* it, ranks being what the assumption about cycles gives.                 *)
(***************************************************************************)
EXTENDS ClassUsages, WellFoundedInduction, TLAPS

-----------------------------------------------------------------------------
(* Definitions                                                             *)

Covered == {d \in Definition : \A u \in d.uses : u.access <= d.access}

LEMMA MaxOfAccesses ==
    ASSUME NEW S \in SUBSET (0 .. 3), S # {}
    PROVE  Max(S) \in S /\ \A x \in S : x <= Max(S)
  <1>1. \E x \in S : \A y \in S : x >= y
    <2>1. CASE 3 \in S
      BY <2>1
    <2>2. CASE 3 \notin S /\ 2 \in S
      BY <2>2
    <2>3. CASE 3 \notin S /\ 2 \notin S /\ 1 \in S
      BY <2>3
    <2>4. CASE 3 \notin S /\ 2 \notin S /\ 1 \notin S
      <3>1. \A y \in S : y = 0
        BY <2>4
      <3>2. PICK x \in S : TRUE
        OBVIOUS
      <3> QED
        BY <3>1, <3>2
    <2> QED
      BY <2>1, <2>2, <2>3, <2>4
  <1> QED
    BY <1>1 DEF Max

\* A use that is appended raises the access if it must.
LEMMA AppendKeeps ==
    ASSUME NEW d \in Definition, NEW added \in SUBSET Instance
    PROVE  /\ Appended(d, added) \in Definition
           /\ d \in Covered => Appended(d, added) \in Covered
  <1> DEFINE S == {d.access} \cup {u.access : u \in added}
  <1>1. S \in SUBSET (0 .. 3) /\ S # {}
    BY DEF Definition, Instance, Accesses
  <1>2. Max(S) \in S /\ \A x \in S : x <= Max(S)
    <2> HIDE DEF S
    <2> QED
      BY <1>1, MaxOfAccesses
  <1>3. Appended(d, added) = [access |-> Max(S), uses |-> d.uses \cup added]
    BY DEF Appended
  <1>4. Max(S) \in 0 .. 3
    BY <1>1, <1>2
  <1>5. d.uses \cup added \in SUBSET Instance
    BY DEF Definition
  <1>6. Appended(d, added) \in Definition
    BY <1>3, <1>4, <1>5 DEF Definition
  <1>7. ASSUME d \in Covered, NEW u \in d.uses \cup added
        PROVE  u.access <= Max(S)
    <2>1. d.access <= Max(S) /\ \A v \in added : v.access <= Max(S)
      BY <1>2
    <2>2. CASE u \in d.uses
      <3>1. u.access <= d.access
        BY <1>7, <2>2 DEF Covered
      <3>2. u.access \in Int /\ d.access \in Int /\ Max(S) \in Int
        BY <1>4, <2>2 DEF Definition, Instance, Accesses
      <3> QED
        BY <2>1, <3>1, <3>2
    <2>3. CASE u \in added
      BY <2>1, <2>3
    <2> QED
      BY <1>7, <2>2, <2>3
  <1> QED
    BY <1>3, <1>6, <1>7 DEF Covered

LEMMA NewDefinitionCovered == NewDefinition \in Covered
  BY DEF NewDefinition, Covered, Definition

\* Uses taken out leave the access where it was.
LEMMA FilterKeeps ==
    ASSUME NEW d \in Definition, NEW seen \in Definition, NEW k
    PROVE  /\ Filtered(d, seen, k) \in Definition
           /\ d \in Covered /\ d = seen => Filtered(d, seen, k) \in Covered
  BY DEF Filtered, Definition, Covered

LEMMA DropKeeps ==
    ASSUME NEW d \in Definition, NEW k \in Classes, NEW own \in SUBSET Accesses
    PROVE  /\ Dropped(d, k, own) \in Definition
           /\ d \in Covered => Dropped(d, k, own) \in Covered
  <1> DEFINE kept == {a \in own : a # TemplateAccess}
             new == [access |-> Max({0} \cup kept),
                     uses   |-> {[class |-> k, access |-> a] : a \in kept}]
  <1>1. {0} \cup kept \in SUBSET (0 .. 3) /\ {0} \cup kept # {}
    <2>1. own \subseteq 0 .. 3
      BY DEF Accesses
    <2>2. kept \subseteq 0 .. 3
      BY <2>1
    <2>3. 0 \in 0 .. 3
      OBVIOUS
    <2> HIDE DEF kept
    <2> QED
      BY <2>2, <2>3
  <1>2. Max({0} \cup kept) \in 0 .. 3 /\ \A a \in kept : a <= Max({0} \cup kept)
    <2> DEFINE S == {0} \cup kept
    <2>1. S \in SUBSET (0 .. 3) /\ S # {}
      BY <1>1
    <2>2. Max(S) \in S /\ \A a \in S : a <= Max(S)
      <3> HIDE DEF S
      <3> QED
        BY <2>1, MaxOfAccesses
    <2> QED
      BY <2>1, <2>2
  <1>3. kept \in SUBSET Accesses
    OBVIOUS
  <1> HIDE DEF kept
  <1>4. new \in Covered
    <2>1. \A a \in kept : a \in Accesses /\ [class |-> k, access |-> a] \in Instance
      BY <1>3 DEF Instance
    <2>2. new.uses \in SUBSET Instance
      BY <2>1
    <2>3. new \in Definition
      BY <1>2, <2>2 DEF Definition
    <2>4. \A u \in new.uses : u.access <= new.access
      <3> SUFFICES ASSUME NEW a \in kept
                   PROVE  a <= Max({0} \cup kept)
        OBVIOUS
      <3> QED
        BY <1>2
    <2> QED
      BY <2>3, <2>4 DEF Covered
  <1>5. Dropped(d, k, own) = IF own = {} THEN d ELSE new
    BY DEF Dropped, kept
  <1> QED
    BY <1>4, <1>5 DEF Covered

-----------------------------------------------------------------------------
(* The definitions of all classes                                          *)

Uses == [Classes -> SUBSET (Names \X Accesses)]

Typed(defs) == \A c \in Classes : defs[c] \in [Declared[c] -> Definition]
AllCovered(defs) == \A c \in Classes : \A n \in Declared[c] : defs[c][n] \in Covered

LEMMA InstancesTyped ==
    ASSUME NEW use, NEW k \in Classes, NEW n
    PROVE  Instances(use, k, n) \in SUBSET Instance
  <1>1. \A u \in Instances(use, k, n) :
          \E a \in Accesses : u = [class |-> k, access |-> a]
    BY DEF Instances
  <1> QED
    BY <1>1 DEF Instance

LEMMA IndexKeeps ==
    ASSUME NEW use, NEW k \in Classes
    PROVE  /\ Indexed(use, k) \in [Declared[k] -> Definition]
           /\ \A n \in Declared[k] : Indexed(use, k)[n] \in Covered
  <1>1. \A n \in Declared[k] :
          Appended(NewDefinition, Instances(use, k, n)) \in Covered
    BY AppendKeeps, InstancesTyped, NewDefinitionCovered DEF Covered
  <1> QED
    BY <1>1 DEF Indexed, Covered

\* Postprocessing any classes, in any hierarchy.
LEMMA PostprocessKeeps ==
    ASSUME NEW some \in SUBSET Classes, NEW defs, NEW ext, NEW use, Typed(defs)
    PROVE  LET new == Postprocessed(some, defs, ext, use)
           IN  /\ new = [c \in Classes |-> new[c]]
               /\ Typed(new)
               /\ AllCovered(defs) => AllCovered(new)
  <1> DEFINE under(a) == {k \in some : a \in Above(ext)[k]}
             kept(a, n) == [defs[a][n] EXCEPT
                              !.uses = {u \in @ : u.class \notin under(a)}]
             added(a, n) == UNION {Instances(use, k, n) : k \in under(a)}
             new == Postprocessed(some, defs, ext, use)
  <1>1. new = [a \in Classes |-> [n \in Declared[a] |->
                 Appended(kept(a, n), added(a, n))]]
    BY DEF Postprocessed
  <1>2. ASSUME NEW a \in Classes, NEW n \in Declared[a]
        PROVE  /\ kept(a, n) \in Definition
               /\ defs[a][n] \in Covered => kept(a, n) \in Covered
               /\ added(a, n) \in SUBSET Instance
    <2>1. defs[a][n] \in Definition
      BY DEF Typed
    <2>2. added(a, n) \in SUBSET Instance
      BY InstancesTyped
    <2> HIDE DEF under
    <2> QED
      BY <2>1, <2>2 DEF Definition, Covered
  <1>3. ASSUME NEW a \in Classes, NEW n \in Declared[a]
        PROVE  /\ Appended(kept(a, n), added(a, n)) \in Definition
               /\ defs[a][n] \in Covered => Appended(kept(a, n), added(a, n)) \in Covered
    <2> HIDE DEF kept, added
    <2> QED
      BY <1>2, <1>3, AppendKeeps
  <1> HIDE DEF kept, added
  <1> QED
    BY <1>1, <1>3 DEF Typed, AllCovered

-----------------------------------------------------------------------------
(* Type correctness                                                        *)

Removing  == {"removing", "write filtered"}
Appending == {"appending", "write appended"}
Writing   == {"write filtered", "write appended"}

Types ==
    /\ source \in [Classes -> Source]
    /\ usages \in Uses
    /\ definitions = [c \in Classes |-> definitions[c]]
    /\ Typed(definitions)
    /\ extends \in [Classes -> Classes \cup {NoClass}]
    /\ pc \in [Classes -> {"ready", "resolve", "remove", "cloning", "removing",
                           "write filtered", "propagate", "appending",
                           "write appended", "done"}]
    /\ at \in [Classes -> Classes]
    /\ clone = [c \in Classes |-> clone[c]]
    /\ left = [c \in Classes |-> left[c]]
    /\ member \in [Classes -> Names]
    /\ got \in [Classes -> Definition]
    /\ crashed \in BOOLEAN
    /\ open \subseteq Classes
    /\ edits \in 0 .. MaxEdits

\* What the goroutine of k works on.
Holds(k) ==
    /\ pc[k] \in Removing =>
          /\ clone[k] \in [Declared[at[k]] -> Definition]
          /\ left[k] \subseteq Declared[at[k]]
    /\ pc[k] \in Appending =>
          \A u \in left[k] : u \in Names \X Accesses /\ u[1] \in Declared[at[k]]
    /\ pc[k] \in Writing => member[k] \in Declared[at[k]]

TypeInv == Types /\ \A k \in Classes : Holds(k)

LEMMA Constants ==
    /\ Declared \in [Classes -> SUBSET Names]
    /\ Sources \in [Classes -> SUBSET Source]
    /\ MaxEdits \in Nat
  BY UsagesAssumption

\* The setting is read when the server starts.
LEMMA SettingStays ==
    /\ Init => concurrency \in BOOLEAN
    /\ [Next]_vars => concurrency' = concurrency
  BY UsagesAssumption DEF Init, Next, vars

LEMMA TypeInit == Init => TypeInv
  <1> SUFFICES ASSUME Init PROVE TypeInv
    OBVIOUS
  <1>1. source \in [Classes -> Source]
    <2>1. \A c \in Classes : source[c] \in Source
      BY Constants DEF Init
    <2> QED
      BY <2>1 DEF Init
  <1>2. usages \in Uses
    <2>1. \A c \in Classes : UsesIn(source[c]) \in SUBSET (Names \X Accesses)
      BY <1>1 DEF UsesIn, Source, Accesses, ConstructorAccess, LocalAccess, TemplateAccess
    <2> QED
      BY <2>1 DEF Init, Uses
  <1>3. /\ definitions = [c \in Classes |-> definitions[c]]
        /\ Typed(definitions)
    BY IndexKeeps DEF Init, Typed
  <1>4. (CHOOSE n \in Names : TRUE) \in Names
    BY UsagesAssumption
  <1>5. NewDefinition \in Definition
    BY NewDefinitionCovered DEF Covered
  <1>6. member \in [Classes -> Names] /\ got \in [Classes -> Definition]
    BY <1>4, <1>5 DEF Init
  <1>8. /\ extends \in [Classes -> Classes \cup {NoClass}]
        /\ at \in [Classes -> Classes]
        /\ clone = [c \in Classes |-> clone[c]]
        /\ left = [c \in Classes |-> left[c]]
        /\ edits \in 0 .. MaxEdits
        /\ crashed \in BOOLEAN /\ open \subseteq Classes
    <2>1. edits \in 0 .. MaxEdits
      BY Constants DEF Init
    <2>2. clone = [c \in Classes |-> clone[c]]
      BY Zenon DEF Init
    <2>3. left = [c \in Classes |-> left[c]]
      BY Zenon DEF Init
    <2> QED
      BY <2>1, <2>2, <2>3 DEF Init
  <1>9. Types
    BY <1>1, <1>2, <1>3, <1>6, <1>8 DEF Init, Types
  <1>7. ASSUME NEW k \in Classes PROVE Holds(k)
    BY DEF Init, Holds, Removing, Appending, Writing
  <1> QED
    BY <1>7, <1>9 DEF TypeInv

\* A goroutine that the step leaves alone holds what it held.
LEMMA HoldsStays ==
    ASSUME NEW j, Holds(j), pc'[j] = pc[j], at'[j] = at[j], left'[j] = left[j],
           clone'[j] = clone[j], member'[j] = member[j]
    PROVE  Holds(j)'
  BY DEF Holds

\* What a step of the goroutine of k leaves alone.
Frame(k) ==
    \A j \in Classes \ {k} :
        /\ pc'[j] = pc[j] /\ at'[j] = at[j] /\ left'[j] = left[j]
        /\ clone'[j] = clone[j] /\ member'[j] = member[j] /\ got'[j] = got[j]

LEMMA GoroutineFrame ==
    ASSUME Types, NEW k \in Classes, Goroutine(k)
    PROVE  Frame(k) /\ UNCHANGED <<source, usages, open, edits>>
  <1> USE DEF Types, Frame, classVars
  <1>1. CASE Spawn(k)
    BY <1>1 DEF Spawn
  <1>2. CASE Resolve(k)
    BY <1>2 DEF Resolve
  <1>3. CASE RemoveAbove(k)
    BY <1>3 DEF RemoveAbove
  <1>4. CASE Cloned(k)
    BY <1>4 DEF Cloned
  <1>5. CASE GetToRemove(k)
    BY <1>5 DEF GetToRemove
  <1>6. CASE Removed(k)
    BY <1>6 DEF Removed
  <1>7. CASE PropagateAbove(k)
    BY <1>7 DEF PropagateAbove
  <1>8. CASE GetToAppend(k)
    BY <1>8 DEF GetToAppend
  <1>9. CASE Propagated(k)
    BY <1>9 DEF Propagated
  <1>10. CASE Set(k)
    BY <1>10 DEF Set
  <1> QED
    BY <1>1, <1>2, <1>3, <1>4, <1>5, <1>6, <1>7, <1>8, <1>9, <1>10 DEF Goroutine

LEMMA TypeGoroutine ==
    ASSUME TypeInv, NEW k \in Classes, Goroutine(k)
    PROVE  Types' /\ Holds(k)'
  <1> USE Constants DEF Types, Holds, Removing, Appending, Writing, classVars, Typed
  <1>0. Types /\ Holds(k)
    BY DEF TypeInv
  <1>1. CASE Spawn(k)
    BY <1>0, <1>1 DEF Spawn
  <1>2. CASE Resolve(k)
    <2>1. source[k].base \in Classes \cup {NoClass}
      BY <1>0 DEF Source
    <2> QED
      BY <1>0, <1>2, <2>1 DEF Resolve
  <1>3. CASE RemoveAbove(k)
    <2>1. CASE extends[at[k]] = NoClass
      <3>1. /\ pc' = [pc EXCEPT ![k] = "propagate"]
            /\ at' = [at EXCEPT ![k] = k]
            /\ UNCHANGED <<source, usages, definitions, extends>>
            /\ UNCHANGED <<clone, left, member, got, crashed, open, edits>>
        BY <1>3, <2>1 DEF RemoveAbove
      <3> QED
        BY <1>0, <3>1
    <2>2. CASE extends[at[k]] # NoClass
      <3>1. extends[at[k]] \in Classes
        BY <1>0, <2>2
      <3>2. /\ pc' = [pc EXCEPT ![k] = "cloning"]
            /\ at' = [at EXCEPT ![k] = extends[at[k]]]
            /\ UNCHANGED <<source, usages, definitions, extends>>
            /\ UNCHANGED <<clone, left, member, got, crashed, open, edits>>
        BY <1>3, <2>2 DEF RemoveAbove
      <3> QED
        BY <1>0, <3>1, <3>2
    <2> QED
      BY <2>1, <2>2
  <1>4. CASE Cloned(k)
    BY <1>0, <1>4 DEF Cloned
  <1>5. CASE GetToRemove(k)
    <2>1. PICK n \in left[k] :
            /\ member' = [member EXCEPT ![k] = n]
            /\ got' = [got EXCEPT ![k] = Filtered(definitions[at[k]][n], clone[k][n], k)]
            /\ left' = [left EXCEPT ![k] = @ \ {n}]
      BY <1>5 DEF GetToRemove
    <2>2. left[k] \subseteq Declared[at[k]] /\ clone[k] \in [Declared[at[k]] -> Definition]
      BY <1>0, <1>5 DEF GetToRemove
    <2>3. /\ n \in Declared[at[k]] /\ n \in Names
          /\ definitions[at[k]][n] \in Definition
          /\ clone[k][n] \in Definition
      BY <1>0, <2>2
    <2>4. Filtered(definitions[at[k]][n], clone[k][n], k) \in Definition
      BY <2>3, FilterKeeps
    <2>5. Types'
      BY <1>0, <1>5, <2>1, <2>3, <2>4 DEF GetToRemove
    <2>6. Holds(k)'
      BY <1>0, <1>5, <2>1, <2>2, <2>3 DEF GetToRemove
    <2> QED
      BY <2>5, <2>6
  <1>6. CASE Removed(k)
    BY <1>0, <1>6 DEF Removed
  <1>7. CASE PropagateAbove(k)
    <2>1. usages[k] \subseteq Names \X Accesses
      BY <1>0 DEF Uses
    <2>2. CASE extends[at[k]] = NoClass
      BY <1>0, <1>7, <2>2 DEF PropagateAbove
    <2>3. CASE extends[at[k]] # NoClass
      <3>1. extends[at[k]] \in Classes
        BY <1>0, <2>3
      <3>2. /\ pc' = [pc EXCEPT ![k] = "appending"]
            /\ at' = [at EXCEPT ![k] = extends[at[k]]]
            /\ left' = [left EXCEPT ![k] =
                           {u \in usages[k] : u[1] \in Declared[extends[at[k]]]}]
            /\ UNCHANGED <<source, usages, definitions, extends>>
            /\ UNCHANGED <<clone, member, got, crashed, open, edits>>
        BY <1>7, <2>3 DEF PropagateAbove
      <3>3. Types'
        BY <1>0, <3>1, <3>2
      <3>4. Holds(k)'
        BY <1>0, <2>1, <3>1, <3>2
      <3> QED
        BY <3>3, <3>4
    <2> QED
      BY <2>2, <2>3
  <1>8. CASE GetToAppend(k)
    <2>1. PICK u \in left[k] :
            /\ member' = [member EXCEPT ![k] = u[1]]
            /\ got' = [got EXCEPT ![k] = Appended(definitions[at[k]][u[1]],
                                                 {[class |-> k, access |-> u[2]]})]
            /\ left' = [left EXCEPT ![k] = @ \ {u}]
      BY <1>8 DEF GetToAppend
    <2>2. u \in Names \X Accesses /\ u[1] \in Declared[at[k]]
      BY <1>0, <1>8, <2>1 DEF GetToAppend
    <2>3. u[1] \in Names /\ u[2] \in Accesses /\ definitions[at[k]][u[1]] \in Definition
      BY <1>0, <2>2
    <2>4. {[class |-> k, access |-> u[2]]} \in SUBSET Instance
      BY <2>3 DEF Instance
    <2>5. Appended(definitions[at[k]][u[1]], {[class |-> k, access |-> u[2]]}) \in Definition
      BY <2>3, <2>4, AppendKeeps
    <2>6. Types'
      BY <1>0, <1>8, <2>1, <2>3, <2>5 DEF GetToAppend
    <2>7. Holds(k)'
      BY <1>0, <1>8, <2>1, <2>2 DEF GetToAppend
    <2> QED
      BY <2>6, <2>7
  <1>9. CASE Propagated(k)
    BY <1>0, <1>9 DEF Propagated
  <1>10. CASE Set(k)
    BY <1>0, <1>10 DEF Set
  <1> QED
    BY <1>1, <1>2, <1>3, <1>4, <1>5, <1>6, <1>7, <1>8, <1>9, <1>10 DEF Goroutine

\* What every edit keeps.
Keeps ==
    /\ source' \in [Classes -> Source] /\ usages' \in Uses
    /\ definitions' = [c \in Classes |-> definitions'[c]]
    /\ Typed(definitions')
    /\ AllCovered(definitions) => AllCovered(definitions')
    /\ extends' \in [Classes -> Classes \cup {NoClass}]
    /\ open' \subseteq Classes

LEMMA CodeEditKeeps ==
    ASSUME Types, NEW class \in Classes, NEW text \in Source, EditCode(class, text)
    PROVE  Keeps
  <1> DEFINE use    == [usages EXCEPT ![class] = UsesIn(text)]
             fresh  == [definitions EXCEPT ![class] = Indexed(use, class)]
             cut    == [extends EXCEPT ![class] = NoClass]
             joined == [extends EXCEPT ![class] = text.base]
             mended == Postprocessed(Below(cut, class), fresh, cut, use)
  <1>1. /\ source' = [source EXCEPT ![class] = text]
        /\ usages' = use /\ extends' = joined
        /\ definitions' = Postprocessed({class}, mended, joined, use)
        /\ open' = open \cup {class}
    BY DEF EditCode
  <1>2. Typed(fresh) /\ (AllCovered(definitions) => AllCovered(fresh))
    <2>1. /\ Indexed(use, class) \in [Declared[class] -> Definition]
          /\ \A n \in Declared[class] : Indexed(use, class)[n] \in Covered
      <3> HIDE DEF use
      <3> QED
        BY IndexKeeps
    <2>2. definitions = [c \in Classes |-> definitions[c]] /\ Typed(definitions)
      BY DEF Types
    <2>3. \A c \in Classes :
            fresh[c] = IF c = class THEN Indexed(use, class) ELSE definitions[c]
      BY <2>2
    <2> HIDE DEF use, fresh
    <2> QED
      BY <2>1, <2>2, <2>3 DEF Typed, AllCovered
  <1>3. Below(cut, class) \in SUBSET Classes
    BY DEF Below
  <1>4. Typed(mended) /\ (AllCovered(fresh) => AllCovered(mended))
    <2> HIDE DEF use, fresh, cut
    <2> QED
      BY <1>2, <1>3, PostprocessKeeps
  <1>5. /\ definitions' = [c \in Classes |-> definitions'[c]]
        /\ Typed(definitions') /\ (AllCovered(mended) => AllCovered(definitions'))
    <2> HIDE DEF use, mended, joined
    <2> QED
      BY <1>1, <1>4, PostprocessKeeps
  <1>6. text.base \in Classes \cup {NoClass} /\ UsesIn(text) \subseteq Names \X Accesses
    BY DEF Source, UsesIn, Accesses, ConstructorAccess, LocalAccess, TemplateAccess
  <1>7. source' \in [Classes -> Source] /\ usages' \in Uses
    BY <1>1, <1>6 DEF Types, Uses
  <1>8. extends' \in [Classes -> Classes \cup {NoClass}] /\ open' \subseteq Classes
    BY <1>1, <1>6 DEF Types
  <1> HIDE DEF use, fresh, cut, joined, mended
  <1> QED
    BY <1>2, <1>4, <1>5, <1>7, <1>8 DEF Keeps

LEMMA TemplateEditKeeps ==
    ASSUME Types, NEW class \in Classes, NEW text \in Source, EditTemplate(class, text)
    PROVE  Keeps
  <1> DEFINE own(n)  == {a \in Accesses : <<n, a>> \in usages[class]}
             use     == [usages EXCEPT ![class] =
                           {u \in @ : u[2] # TemplateAccess} \cup text.template]
             dropped == [n \in Declared[class] |->
                           Dropped(definitions[class][n], class, own(n))]
             new(n)  == {[class |-> class, access |-> u[2]] :
                           u \in {v \in text.template : v[1] = n}}
             indexed == [n \in Declared[class] |-> Appended(dropped[n], new(n))]
             again   == {class} \cup (IF class \in InModule THEN Bases(extends, class) ELSE {})
             fresh   == [definitions EXCEPT ![class] = indexed]
  <1>1. /\ source' = [source EXCEPT ![class] = text] /\ usages' = use
        /\ definitions' = Postprocessed(again, fresh, extends, use)
        /\ UNCHANGED <<extends, open>>
    BY DEF EditTemplate
  <1>2. text.template \subseteq Names \X Accesses
    BY DEF Source, Accesses, TemplateAccess
  <1>3. ASSUME NEW n \in Declared[class]
        PROVE  /\ indexed[n] \in Definition
               /\ definitions[class][n] \in Covered => indexed[n] \in Covered
    <2>1. definitions[class][n] \in Definition /\ own(n) \in SUBSET Accesses
      BY DEF Types, Typed
    <2>2. /\ dropped[n] \in Definition
          /\ definitions[class][n] \in Covered => dropped[n] \in Covered
      <3> HIDE DEF own
      <3> QED
        BY <2>1, DropKeeps
    <2>3. \A u \in {v \in text.template : v[1] = n} : u[2] \in Accesses
      BY <1>2
    <2>4. new(n) \in SUBSET Instance
      BY <2>3 DEF Instance
    <2>5. indexed[n] = Appended(dropped[n], new(n))
      OBVIOUS
    <2> HIDE DEF dropped, new, indexed
    <2> QED
      BY <2>2, <2>4, <2>5, AppendKeeps
  <1>4. Typed(fresh) /\ (AllCovered(definitions) => AllCovered(fresh))
    <2>1. indexed \in [Declared[class] -> Definition]
      <3>1. indexed = [n \in Declared[class] |-> indexed[n]]
        OBVIOUS
      <3> HIDE DEF indexed
      <3> QED
        BY <1>3, <3>1
    <2>2. definitions = [c \in Classes |-> definitions[c]] /\ Typed(definitions)
      BY DEF Types
    <2> HIDE DEF indexed
    <2>3. \A c \in Classes : fresh[c] = IF c = class THEN indexed ELSE definitions[c]
      BY <2>2
    <2> HIDE DEF fresh
    <2> QED
      BY <1>3, <2>1, <2>2, <2>3 DEF Typed, AllCovered
  <1>5. /\ definitions' = [c \in Classes |-> definitions'[c]]
        /\ Typed(definitions') /\ (AllCovered(fresh) => AllCovered(definitions'))
    <2>1. again \in SUBSET Classes
      BY DEF Bases
    <2> HIDE DEF use, fresh, again
    <2> QED
      BY <1>1, <1>4, <2>1, PostprocessKeeps
  <1>6. source' \in [Classes -> Source] /\ usages' \in Uses
    BY <1>1, <1>2 DEF Types, Uses
  <1>7. extends' \in [Classes -> Classes \cup {NoClass}] /\ open' \subseteq Classes
    BY <1>1 DEF Types
  <1> HIDE DEF own, use, dropped, new, indexed, again, fresh
  <1> QED
    BY <1>4, <1>5, <1>6, <1>7 DEF Keeps

LEMMA EditKeeps ==
    ASSUME Types, Edit
    PROVE  Keeps /\ edits' \in 0 .. MaxEdits /\ UNCHANGED <<goVars, crashed>>
  <1>0. PICK class \in Classes : \E text \in Sources[class] :
          EditCode(class, text) \/ EditTemplate(class, text)
    BY DEF Edit
  <1>1. PICK text \in Sources[class] :
          EditCode(class, text) \/ EditTemplate(class, text)
    BY <1>0
  <1>2. text \in Source
    BY Constants
  <1>3. Keeps
    BY <1>1, <1>2, CodeEditKeeps, TemplateEditKeeps
  <1>4. edits' = edits + 1 /\ edits < MaxEdits /\ UNCHANGED <<goVars, crashed>>
    BY DEF Edit
  <1>5. edits' \in 0 .. MaxEdits
    <2>1. edits \in 0 .. MaxEdits
      BY DEF Types
    <2>2. MaxEdits \in Nat
      BY Constants
    <2> QED
      BY <1>4, <2>1, <2>2
  <1> QED
    BY <1>3, <1>4, <1>5

LEMMA TypeStep == TypeInv /\ [Next]_vars => TypeInv'
  <1> SUFFICES ASSUME TypeInv, [Next]_vars PROVE TypeInv'
    OBVIOUS
  <1>1. ASSUME NEW k \in Classes, Goroutine(k) PROVE TypeInv'
    <2>1. Types' /\ Holds(k)'
      BY <1>1, TypeGoroutine
    <2>2. Frame(k)
      BY <1>1, GoroutineFrame DEF TypeInv
    <2>3. ASSUME NEW j \in Classes PROVE Holds(j)'
      <3>1. CASE j = k
        BY <2>1, <3>1
      <3>2. CASE j # k
        BY <2>2, <3>2, HoldsStays DEF Frame, TypeInv
      <3> QED
        BY <3>1, <3>2
    <2> QED
      BY <2>1, <2>3 DEF TypeInv
  <1>2. CASE Edit
    <2>1. Keeps /\ edits' \in 0 .. MaxEdits /\ UNCHANGED <<goVars, crashed>>
      BY <1>2, EditKeeps DEF TypeInv
    <2>2. Types'
      BY <2>1 DEF TypeInv, Types, Keeps, goVars, Typed
    <2>3. \A k \in Classes : Holds(k)'
      BY <2>1, HoldsStays DEF TypeInv, goVars
    <2> QED
      BY <2>2, <2>3 DEF TypeInv
  <1>3. CASE UNCHANGED vars
    <2>1. Types'
      BY <1>3 DEF TypeInv, Types, vars, classVars, goVars, Typed
    <2>2. \A k \in Classes : Holds(k)'
      BY <1>3, HoldsStays DEF TypeInv, vars, goVars
    <2> QED
      BY <2>1, <2>2 DEF TypeInv
  <1> QED
    BY <1>1, <1>2, <1>3 DEF Next

\* Every definition keeps its type, in any hierarchy and whatever the
\* goroutines write over each other.
THEOREM TypeCorrect == Spec => []TypeOK
  <1>1. TypeInv /\ concurrency \in BOOLEAN => TypeOK
    BY DEF TypeInv, Types, TypeOK, Uses, Typed
  <1>2. concurrency \in BOOLEAN /\ [Next]_vars => (concurrency \in BOOLEAN)'
    BY SettingStays
  <1>3. Init => concurrency \in BOOLEAN
    BY SettingStays
  <1> QED
    BY <1>1, <1>2, <1>3, TypeInit, TypeStep, PTL DEF Spec

LEMMA TypeInvariant == Spec => []TypeInv
  BY TypeInit, TypeStep, PTL DEF Spec

-----------------------------------------------------------------------------
(* One goroutine at a time                                                 *)

Alone ==
    ~concurrency =>
        /\ ~crashed
        /\ \A i, j \in Classes : Running(i) /\ Running(j) => i = j

LEMMA AloneInit == Init => Alone
  BY DEF Init, Alone, Running

LEMMA AloneStep == TypeInv /\ Alone /\ [Next]_vars => Alone'
  <1> SUFFICES ASSUME TypeInv, Alone, [Next]_vars, ~concurrency PROVE Alone'
    BY SettingStays DEF Alone
  <1>1. ASSUME NEW k \in Classes, Goroutine(k), ~Spawn(k) PROVE Alone'
    <2>1. Running(k)
      BY <1>1 DEF Goroutine, Running, Resolve, RemoveAbove, Cloned, GetToRemove,
         Removed, PropagateAbove, GetToAppend, Propagated, Set
    <2>2. \A j \in Classes \ {k} : ~Running(j) /\ pc'[j] = pc[j]
      BY <1>1, <2>1, GoroutineFrame DEF TypeInv, Alone, Frame
    <2>3. ~crashed'
      <3>1. CASE Set(k)
        BY <2>1, <2>2, <3>1 DEF Set, Alone, Running
      <3>2. CASE ~Set(k)
        BY <1>1, <3>2 DEF Alone, Goroutine, Resolve, RemoveAbove, Cloned, GetToRemove,
           Removed, PropagateAbove, GetToAppend, Propagated
      <3> QED
        BY <3>1, <3>2
    <2> QED
      BY <2>2, <2>3 DEF Alone, Running
  <1>2. ASSUME NEW k \in Classes, Spawn(k) PROVE Alone'
    <2>1. \A j \in Classes \ {k} : pc'[j] = pc[j] /\ ~Running(j)
      BY <1>2, GoroutineFrame DEF TypeInv, Frame, Goroutine, Spawn
    <2>2. ~crashed'
      BY <1>2 DEF Spawn, Alone
    <2> QED
      BY <2>1, <2>2 DEF Alone, Running
  <1>3. CASE Edit
    BY <1>3 DEF Edit, goVars, Alone, Running
  <1>4. CASE UNCHANGED vars
    BY <1>4 DEF vars, goVars, Alone, Running
  <1> QED
    BY <1>1, <1>2, <1>3, <1>4 DEF Next

\* With concurrency off no goroutine meets another in a map, however many
\* files there are.
THEOREM NoMeeting == Spec => []OneAtATime
  <1>1. Alone => OneAtATime
    BY DEF Alone, OneAtATime
  <1> QED
    BY <1>1, TypeInvariant, AloneInit, AloneStep, PTL DEF Spec

-----------------------------------------------------------------------------
(* The access covers the uses                                              *)

\* What a goroutine will write is right, and the clone it goes through agrees
\* with the map it was made from, in what is left of it.
Sound(k) ==
    /\ pc[k] \in Writing => got[k] \in Covered
    /\ pc[k] \in Removing => \A n \in left[k] : clone[k][n] = definitions[at[k]][n]
    /\ pc[k] = "write filtered" => member[k] \notin left[k]

CoverInv ==
    ~concurrency => AllCovered(definitions) /\ \A k \in Classes : Sound(k)

LEMMA CoverInit == Init => CoverInv
  BY IndexKeeps DEF Init, CoverInv, AllCovered, Sound, Writing, Removing

LEMMA CoverGoroutine ==
    ASSUME TypeInv, Alone, ~concurrency, CoverInv, NEW k \in Classes, Goroutine(k)
    PROVE  AllCovered(definitions)' /\ Sound(k)'
  <1>0. Types /\ Holds(k) /\ AllCovered(definitions) /\ Sound(k)
    BY DEF TypeInv, CoverInv
  <1> USE DEF Sound, Writing, Removing, Types, classVars
  <1>1. CASE Spawn(k)
    BY <1>0, <1>1 DEF Spawn, AllCovered
  <1>2. CASE Resolve(k)
    BY <1>0, <1>2 DEF Resolve, AllCovered
  <1>3. CASE RemoveAbove(k)
    BY <1>0, <1>3 DEF RemoveAbove, AllCovered
  <1>4. CASE Cloned(k)
    BY <1>0, <1>4 DEF Cloned, AllCovered
  <1>5. CASE GetToRemove(k)
    <2>1. PICK n \in left[k] :
            /\ member' = [member EXCEPT ![k] = n]
            /\ got' = [got EXCEPT ![k] = Filtered(definitions[at[k]][n], clone[k][n], k)]
            /\ left' = [left EXCEPT ![k] = @ \ {n}]
      BY <1>5 DEF GetToRemove
    <2>2. n \in Declared[at[k]] /\ clone[k][n] = definitions[at[k]][n]
      BY <1>0, <1>5, <2>1 DEF GetToRemove, Holds
    <2>3. clone[k][n] \in Definition /\ definitions[at[k]][n] \in Covered
      BY <1>0, <2>2 DEF AllCovered, Covered
    <2>4. Filtered(definitions[at[k]][n], clone[k][n], k) \in Covered
      BY <2>2, <2>3, FilterKeeps
    <2> QED
      BY <1>0, <1>5, <2>1, <2>2, <2>4 DEF GetToRemove, AllCovered
  <1>6. CASE Removed(k)
    BY <1>0, <1>6 DEF Removed, AllCovered
  <1>7. CASE PropagateAbove(k)
    BY <1>0, <1>7 DEF PropagateAbove, AllCovered
  <1>8. CASE GetToAppend(k)
    <2>1. PICK u \in left[k] :
            got' = [got EXCEPT ![k] = Appended(definitions[at[k]][u[1]],
                                               {[class |-> k, access |-> u[2]]})]
      BY <1>8 DEF GetToAppend
    <2>2. u \in Names \X Accesses /\ u[1] \in Declared[at[k]]
      BY <1>0, <1>8, <2>1 DEF GetToAppend, Holds, Appending
    <2>3. definitions[at[k]][u[1]] \in Covered /\ u[2] \in Accesses
      BY <1>0, <2>2 DEF AllCovered
    <2>4. {[class |-> k, access |-> u[2]]} \in SUBSET Instance
      BY <2>3 DEF Instance
    <2>5. Appended(definitions[at[k]][u[1]], {[class |-> k, access |-> u[2]]}) \in Covered
      BY <2>3, <2>4, AppendKeeps DEF Covered
    <2> QED
      BY <1>0, <1>8, <2>1, <2>5 DEF GetToAppend, AllCovered
  <1>9. CASE Propagated(k)
    BY <1>0, <1>9 DEF Propagated, AllCovered
  <1>10. CASE Set(k)
    <2>1. got[k] \in Covered /\ member[k] \in Declared[at[k]] /\ at[k] \in Classes
      BY <1>0, <1>10 DEF Set, Holds
    <2>2. definitions' = [definitions EXCEPT ![at[k]][member[k]] = got[k]]
      BY <1>10 DEF Set
    <2>3. AllCovered(definitions)'
      BY <1>0, <2>1, <2>2 DEF AllCovered, Typed
    <2>4. Sound(k)'
      <3>1. CASE pc[k] = "write filtered"
        <4>1. pc'[k] = "removing" /\ UNCHANGED <<at, clone, left, member>>
          BY <1>0, <1>10, <3>1 DEF Set
        <4>2. \A n \in left[k] : definitions'[at[k]][n] = definitions[at[k]][n]
          <5>1. left[k] \subseteq Declared[at[k]] /\ member[k] \notin left[k]
            BY <1>0, <3>1 DEF Holds
          <5>2. definitions[at[k]] \in [Declared[at[k]] -> Definition]
            BY <1>0, <2>1 DEF Typed
          <5>3. definitions'[at[k]] = [definitions[at[k]] EXCEPT ![member[k]] = got[k]]
            BY <1>0, <2>1, <2>2
          <5> QED
            BY <5>1, <5>2, <5>3
        <4> QED
          BY <1>0, <3>1, <4>1, <4>2
      <3>2. CASE pc[k] = "write appended"
        BY <1>0, <1>10, <3>2 DEF Set
      <3> QED
        BY <1>10, <3>1, <3>2 DEF Set
    <2> QED
      BY <2>3, <2>4
  <1> QED
    BY <1>1, <1>2, <1>3, <1>4, <1>5, <1>6, <1>7, <1>8, <1>9, <1>10 DEF Goroutine

LEMMA CoverStep == TypeInv /\ Alone /\ CoverInv /\ [Next]_vars => CoverInv'
  <1> SUFFICES ASSUME TypeInv, Alone, ~concurrency, CoverInv, [Next]_vars
               PROVE  AllCovered(definitions)' /\ \A k \in Classes : Sound(k)'
    BY SettingStays DEF CoverInv
  <1>1. ASSUME NEW k \in Classes, Goroutine(k)
        PROVE  AllCovered(definitions)' /\ \A j \in Classes : Sound(j)'
    <2>1. AllCovered(definitions)' /\ Sound(k)'
      BY <1>1, CoverGoroutine
    <2>2. ASSUME NEW j \in Classes \ {k} PROVE Sound(j)'
      <3>1. ~Running(j) /\ pc'[j] = pc[j]
        <4>1. CASE Spawn(k)
          BY <4>1, <1>1, GoroutineFrame DEF Spawn, Frame, TypeInv
        <4>2. CASE ~Spawn(k)
          <5>1. Running(k)
            BY <1>1, <4>2 DEF Goroutine, Running, Resolve, RemoveAbove, Cloned, GetToRemove,
               Removed, PropagateAbove, GetToAppend, Propagated, Set
          <5> QED
            BY <1>1, <5>1, GoroutineFrame DEF Alone, Frame, TypeInv
        <4> QED
          BY <4>1, <4>2
      <3> QED
        BY <3>1 DEF Sound, Running, Writing, Removing
    <2> QED
      BY <2>1, <2>2
  <1>2. CASE Edit
    <2>1. Keeps /\ UNCHANGED <<goVars, crashed>> /\ \A k \in Classes : pc[k] = "done"
      BY <1>2, EditKeeps DEF TypeInv, Edit, Serving
    <2>2. AllCovered(definitions)'
      BY <2>1 DEF Keeps, CoverInv, AllCovered
    <2>3. \A k \in Classes : Sound(k)'
      BY <2>1 DEF goVars, Sound, Writing, Removing
    <2> QED
      BY <2>2, <2>3
  <1>3. CASE UNCHANGED vars
    BY <1>3 DEF vars, classVars, goVars, CoverInv, AllCovered, Sound
  <1> QED
    BY <1>1, <1>2, <1>3 DEF Next

\* With concurrency off the access that the diagnostics read is never below
\* that of a use they count, for any classes, names and number of edits.
THEOREM AccessCovers == Spec => []AccessCoversUses
  <1>1. CoverInv => AccessCoversUses
    BY DEF CoverInv, AllCovered, Covered, AccessCoversUses
  <1>2. Spec => []Alone
    BY TypeInvariant, AloneInit, AloneStep, PTL DEF Spec
  <1> QED
    BY <1>1, <1>2, TypeInvariant, CoverInit, CoverStep, PTL DEF Spec

-----------------------------------------------------------------------------
(* The classes above                                                       *)

Hierarchies == [Classes -> Classes \cup {NoClass}]

\* Sets of classes that a walk along Extends does not leave.
Closed(ext, S) == \A c \in S \cap Classes : ext[c] # NoClass => ext[c] \in S

\* Above(ext) is defined by recursion; whether such a function exists has
\* to be shown.  The classes in every closed set around ext[c] are one.
Upwards(ext) ==
    [c \in Classes |->
        {a \in Classes : ext[c] # NoClass /\ \A S \in SUBSET Classes :
            ext[c] \in S /\ Closed(ext, S) => a \in S}]

LEMMA UpwardsStep ==
    ASSUME NEW ext \in Hierarchies
    PROVE  Upwards(ext) = [c \in Classes |-> IF ext[c] = NoClass THEN {}
                              ELSE {ext[c]} \cup Upwards(ext)[ext[c]]]
  <1> DEFINE up == Upwards(ext)
  <1>1. ASSUME NEW c \in Classes, ext[c] = NoClass PROVE up[c] = {}
    BY <1>1 DEF Upwards
  <1>2. ASSUME NEW c \in Classes, ext[c] # NoClass
        PROVE  up[c] = {ext[c]} \cup up[ext[c]]
    <2> DEFINE b == ext[c]
    <2>1. b \in Classes
      BY <1>2 DEF Hierarchies
    <2>2. up[c] = {a \in Classes : \A S \in SUBSET Classes : b \in S /\ Closed(ext, S) => a \in S}
      BY <1>2 DEF Upwards
    <2>3. up[b] = {a \in Classes : ext[b] # NoClass /\ \A S \in SUBSET Classes :
                      ext[b] \in S /\ Closed(ext, S) => a \in S}
      BY <2>1 DEF Upwards
    <2> HIDE DEF b, up
    <2>4. b \in up[c]
      BY <2>1, <2>2
    <2>5. up[b] \subseteq up[c]
      <3> SUFFICES ASSUME NEW a \in up[b], NEW S \in SUBSET Classes, b \in S, Closed(ext, S)
                   PROVE  a \in S
        BY <2>2, <2>3
      <3>1. ext[b] \in S
        BY <2>3, <2>1 DEF Closed
      <3> QED
        BY <2>3, <3>1
    <2>6. Closed(ext, {b} \cup up[b])
      <3> SUFFICES ASSUME NEW d \in ({b} \cup up[b]) \cap Classes, ext[d] # NoClass
                   PROVE  ext[d] \in up[b]
        BY DEF Closed
      <3>1. ext[d] \in Classes
        BY DEF Hierarchies
      <3>2. CASE d = b
        BY <2>3, <3>1, <3>2
      <3>3. CASE d \in up[b]
        <4> SUFFICES ASSUME NEW S \in SUBSET Classes, ext[b] \in S, Closed(ext, S)
                     PROVE  ext[d] \in S
          BY <2>3, <3>1, <3>3
        <4>1. d \in S
          BY <2>3, <3>3
        <4> QED
          BY <4>1 DEF Closed
      <3> QED
        BY <3>2, <3>3
    <2>7. up[c] \subseteq {b} \cup up[b]
      <3>1. {b} \cup up[b] \in SUBSET Classes
        BY <2>1, <2>3
      <3> QED
        BY <2>2, <2>6, <3>1
    <2>8. up[c] = {b} \cup up[b]
      BY <2>4, <2>5, <2>7
    <2> QED
      BY <2>8 DEF b
  <1>3. up = [c \in Classes |-> up[c]]
    BY DEF Upwards
  <1>4. \A c \in Classes : up[c] = IF ext[c] = NoClass THEN {} ELSE {ext[c]} \cup up[ext[c]]
    BY <1>1, <1>2
  <1> HIDE DEF up
  <1>5. up = [c \in Classes |-> IF ext[c] = NoClass THEN {} ELSE {ext[c]} \cup up[ext[c]]]
    BY <1>3, <1>4
  <1> QED
    BY <1>5 DEF up

\* Above is what its definition says.
LEMMA AboveStep ==
    ASSUME NEW ext \in Hierarchies, NEW c \in Classes
    PROVE  Above(ext)[c] = IF ext[c] = NoClass THEN {} ELSE {ext[c]} \cup Above(ext)[ext[c]]
  <1> DEFINE Is(up) == up = [d \in Classes |-> IF ext[d] = NoClass THEN {}
                                               ELSE {ext[d]} \cup up[ext[d]]]
  <1>1. Is(Upwards(ext))
    BY UpwardsStep
  <1>2. Above(ext) = CHOOSE up : Is(up)
    BY DEF Above
  <1> HIDE DEF Is
  <1>3. Is(Above(ext))
    BY <1>1, <1>2
  <1> QED
    BY <1>3 DEF Is

\* Every class extends one of lower rank.
Descends(ext, rank) ==
    /\ ext \in Hierarchies /\ rank \in [Classes -> Nat]
    /\ \A c \in Classes : ext[c] # NoClass => rank[ext[c]] < rank[c]

\* A set of classes has one of the lowest rank: what every class has that
\* extends a class that has it, every class has.
LEMMA LowestRank ==
    ASSUME NEW rank \in [Classes -> Nat], NEW T \in SUBSET Classes, T # {}
    PROVE  \E c \in T : \A d \in T : ~(rank[d] < rank[c])
  <1> DEFINE ranks == {rank[c] : c \in T}
  <1>1. ranks \subseteq Nat /\ ranks # {}
    OBVIOUS
  <1> HIDE DEF ranks
  <1>2. PICK low \in ranks : \A y \in ranks : <<y, low>> \notin OpToRel(<, Nat)
    BY <1>1, NatLessThanWellFounded, WFMin
  <1>3. \A y \in ranks : ~(y < low)
    BY <1>1, <1>2 DEF OpToRel
  <1> QED
    BY <1>2, <1>3 DEF ranks

LEMMA AboveLower ==
    ASSUME NEW ext, NEW rank, Descends(ext, rank), NEW c \in Classes, NEW a \in Above(ext)[c]
    PROVE  a \in Classes /\ rank[a] < rank[c]
  <1> DEFINE Good(k) == \A b \in Above(ext)[k] : b \in Classes /\ rank[b] < rank[k]
             bad == {k \in Classes : ~Good(k)}
  <1>1. SUFFICES ASSUME bad # {} PROVE FALSE
    OBVIOUS
  <1>2. PICK k \in bad : \A d \in bad : ~(rank[d] < rank[k])
    <2> HIDE DEF bad, Good
    <2>1. bad \in SUBSET Classes
      BY DEF bad
    <2> QED
      BY <1>1, <2>1, LowestRank DEF Descends
  <1> HIDE DEF Good
  <1>3. k \in Classes /\ ~Good(k)
    OBVIOUS
  <1>4. Above(ext)[k] = IF ext[k] = NoClass THEN {} ELSE {ext[k]} \cup Above(ext)[ext[k]]
    BY <1>3, AboveStep DEF Descends
  <1>5. CASE ext[k] = NoClass
    BY <1>3, <1>4, <1>5 DEF Good
  <1>6. CASE ext[k] # NoClass
    <2>1. ext[k] \in Classes /\ rank[ext[k]] < rank[k]
      BY <1>3, <1>6 DEF Descends, Hierarchies
    <2>2. Good(ext[k])
      BY <1>2, <2>1
    <2>3. ASSUME NEW b \in Above(ext)[k] PROVE b \in Classes /\ rank[b] < rank[k]
      <3>1. CASE b = ext[k]
        BY <2>1, <3>1
      <3>2. CASE b \in Above(ext)[ext[k]]
        <4>1. b \in Classes /\ rank[b] < rank[ext[k]]
          BY <2>2, <3>2 DEF Good
        <4>2. rank[b] \in Nat /\ rank[k] \in Nat /\ rank[ext[k]] \in Nat
          BY <1>3, <2>1, <4>1 DEF Descends
        <4> QED
          BY <2>1, <4>1, <4>2
      <3> QED
        BY <1>4, <1>6, <2>3, <3>1, <3>2
    <2> QED
      BY <1>3, <2>3 DEF Good
  <1> QED
    BY <1>5, <1>6

\* Cut off its base, a class stays above all the classes that it was above.
LEMMA CutKeepsBelow ==
    ASSUME NEW ext, NEW rank, Descends(ext, rank), NEW a \in Classes,
           NEW k \in Classes, a \in Above(ext)[k]
    PROVE  a \in Above([ext EXCEPT ![a] = NoClass])[k]
  <1> DEFINE cut == [ext EXCEPT ![a] = NoClass]
             bad == {c \in Classes : a \in Above(ext)[c] /\ a \notin Above(cut)[c]}
  <1>0. cut \in Hierarchies /\ \A c \in Classes : c # a => cut[c] = ext[c]
    BY DEF Descends, Hierarchies
  <1> HIDE DEF cut
  <1>1. SUFFICES ASSUME bad # {} PROVE FALSE
    BY DEF cut
  <1>2. PICK c \in bad : \A d \in bad : ~(rank[d] < rank[c])
    <2>1. bad \in SUBSET Classes
      OBVIOUS
    <2> HIDE DEF bad
    <2> QED
      BY <1>1, <2>1, LowestRank DEF Descends
  <1>3. c \in Classes /\ a \in Above(ext)[c] /\ a \notin Above(cut)[c]
    OBVIOUS
  <1>4. rank[a] < rank[c] /\ rank[a] \in Nat
    BY <1>3, AboveLower DEF Descends
  <1>5. c # a
    BY <1>4
  <1>6. /\ Above(ext)[c] = IF ext[c] = NoClass THEN {} ELSE {ext[c]} \cup Above(ext)[ext[c]]
        /\ Above(cut)[c] = IF ext[c] = NoClass THEN {} ELSE {ext[c]} \cup Above(cut)[ext[c]]
    <2>1. cut[c] = ext[c] /\ ext \in Hierarchies
      BY <1>0, <1>3, <1>5 DEF Descends
    <2> QED
      BY <1>0, <1>3, <2>1, AboveStep
  <1>7. ext[c] # NoClass /\ ext[c] # a /\ a \in Above(ext)[ext[c]] /\ a \notin Above(cut)[ext[c]]
    BY <1>3, <1>6
  <1>8. ext[c] \in Classes /\ rank[ext[c]] < rank[c]
    BY <1>3, <1>7 DEF Descends, Hierarchies
  <1> QED
    BY <1>2, <1>7, <1>8

-----------------------------------------------------------------------------
(* The hierarchy of the files                                              *)

\* A class extends what its text says, from the resolution of its Extends on,
\* and nothing before.
Sourced ==
    \A c \in Classes :
        /\ source[c] \in Sources[c]
        /\ extends[c] \in {NoClass, source[c].base}
        /\ pc[c] \notin {"ready", "resolve"} => extends[c] = source[c].base

LEMMA SourcedInit == Init => Sourced
  BY DEF Init, Sourced

LEMMA SourcedStep == TypeInv /\ Sourced /\ [Next]_vars => Sourced'
  <1> SUFFICES ASSUME TypeInv, Sourced, [Next]_vars PROVE Sourced'
    OBVIOUS
  <1>0. Types
    BY DEF TypeInv
  <1>1. ASSUME NEW k \in Classes, Goroutine(k) PROVE Sourced'
    <2>1. Frame(k) /\ source' = source
      BY <1>0, <1>1, GoroutineFrame
    <2>2. CASE Resolve(k)
      <3>1. extends' = [extends EXCEPT ![k] = source[k].base]
        BY <2>2 DEF Resolve
      <3> QED
        BY <1>0, <2>1, <3>1 DEF Types, Sourced, Frame
    <2>3. CASE ~Resolve(k)
      <3>1. extends' = extends
        BY <1>1, <2>3 DEF Goroutine, Spawn, RemoveAbove, Cloned, GetToRemove, Removed,
           PropagateAbove, GetToAppend, Propagated, Set, classVars
      <3>2. pc'[k] \notin {"ready", "resolve"} => pc[k] \notin {"ready", "resolve"}
        BY <1>0, <1>1, <2>3 DEF Goroutine, Spawn, RemoveAbove, Cloned, GetToRemove, Removed,
           PropagateAbove, GetToAppend, Propagated, Set, Types
      <3> QED
        BY <2>1, <3>1, <3>2 DEF Sourced, Frame
    <2> QED
      BY <2>2, <2>3
  <1>2. CASE Edit
    <2>0. PICK class \in Classes : \E text \in Sources[class] :
            EditCode(class, text) \/ EditTemplate(class, text)
      BY <1>2 DEF Edit
    <2>1. PICK text \in Sources[class] : EditCode(class, text) \/ EditTemplate(class, text)
      BY <2>0
    <2>2. pc' = pc /\ \A c \in Classes : pc[c] = "done"
      BY <1>2 DEF Edit, goVars, Serving
    <2>3. source' = [source EXCEPT ![class] = text]
      BY <2>1 DEF EditCode, EditTemplate
    <2>4. CASE EditCode(class, text)
      <3>1. extends' = [extends EXCEPT ![class] = text.base]
        BY <2>4 DEF EditCode
      <3> QED
        BY <1>0, <2>2, <2>3, <3>1 DEF Sourced, Types
    <2>5. CASE EditTemplate(class, text)
      <3>1. extends' = extends /\ text.base = source[class].base
        BY <2>5 DEF EditTemplate
      <3> QED
        BY <1>0, <2>2, <2>3, <3>1 DEF Sourced, Types
    <2> QED
      BY <2>1, <2>4, <2>5
  <1>3. CASE UNCHANGED vars
    BY <1>3 DEF vars, classVars, goVars, Sourced
  <1> QED
    BY <1>1, <1>2, <1>3 DEF Next

LEMMA ExtendsDescend ==
    ASSUME Types, Sourced
    PROVE  \E rank : Descends(extends, rank)
  <1>1. PICK rank \in [Classes -> 1 .. Cardinality(Classes)] :
          \A c \in Classes : \A text \in Sources[c] :
              text.base # NoClass => rank[text.base] < rank[c]
    BY UsagesAssumption
  <1>2. rank \in [Classes -> Nat]
    BY <1>1
  <1>3. \A c \in Classes : extends[c] # NoClass => rank[extends[c]] < rank[c]
    BY <1>1 DEF Sourced
  <1> QED
    BY <1>2, <1>3 DEF Descends, Hierarchies, Types

-----------------------------------------------------------------------------
(* What postprocessing leaves                                              *)

Of(d, k) == {u \in d.uses : u.class = k}

LEMMA AppendedUses == \A d, added : Appended(d, added).uses = d.uses \cup added
  BY DEF Appended

LEMMA InstancesOf ==
    ASSUME NEW use, NEW k, NEW n, NEW u \in Instances(use, k, n)
    PROVE  u.class = k
  <1>1. PICK a \in Accesses : u = [class |-> k, access |-> a]
    BY DEF Instances
  <1> QED
    BY <1>1

\* A class that is postprocessed leaves its present uses, and no others of
\* its own, in the classes above it.
LEMMA PostprocessLeaves ==
    ASSUME NEW some \in SUBSET Classes, NEW defs, NEW ext, NEW use, Typed(defs),
           NEW a \in Classes, NEW n \in Declared[a], NEW k
    PROVE  Of(Postprocessed(some, defs, ext, use)[a][n], k) =
              IF k \in some /\ a \in Above(ext)[k] THEN Instances(use, k, n)
                                                  ELSE Of(defs[a][n], k)
  <1> DEFINE under == {j \in some : a \in Above(ext)[j]}
             kept == [defs[a][n] EXCEPT !.uses = {u \in @ : u.class \notin under}]
             added == UNION {Instances(use, j, n) : j \in under}
             new == Postprocessed(some, defs, ext, use)
  <1>1. new[a][n] = Appended(kept, added)
    BY DEF Postprocessed
  <1>2. defs[a][n] \in Definition
    BY DEF Typed
  <1>3. kept.uses = {u \in defs[a][n].uses : u.class \notin under}
    BY <1>2 DEF Definition
  <1> HIDE DEF kept, added
  <1>4. new[a][n].uses = kept.uses \cup added
    BY <1>1, AppendedUses
  <1>5. \A j : \A u \in Instances(use, j, n) : u.class = j
    BY InstancesOf
  <1> HIDE DEF new
  <1>6. \A u : (u \in added /\ u.class = k) <=> (k \in under /\ u \in Instances(use, k, n))
    <2> HIDE DEF under
    <2> QED
      BY <1>5 DEF added
  <1>7. CASE k \in under
    <2>1. Of(new[a][n], k) = Instances(use, k, n)
      <3> HIDE DEF under
      <3> QED
        BY <1>3, <1>4, <1>5, <1>6, <1>7 DEF Of
    <2> QED
      BY <1>7, <2>1 DEF new
  <1>8. CASE k \notin under
    <2>1. Of(new[a][n], k) = Of(defs[a][n], k)
      <3> HIDE DEF under
      <3> QED
        BY <1>3, <1>4, <1>6, <1>8 DEF Of
    <2> QED
      BY <1>8, <2>1 DEF new
  <1> QED
    BY <1>7, <1>8

LEMMA KnownIsOf == \A a, n, k : Known(a, n, k) = Of(definitions[a][n], k)
  BY DEF Known, Of

LEMMA KnownIsOfNext == \A a, n, k : Known(a, n, k)' = Of(definitions'[a][n], k)
  BY DEF Known, Of

LEMMA IndexLeaves ==
    ASSUME NEW use, NEW c \in Classes, NEW n \in Declared[c], NEW k
    PROVE  Of(Indexed(use, c)[n], k) = IF k = c THEN Instances(use, c, n) ELSE {}
  <1>1. Indexed(use, c)[n].uses = {} \cup Instances(use, c, n)
    <2>1. Indexed(use, c)[n] = Appended(NewDefinition, Instances(use, c, n))
      BY DEF Indexed
    <2>2. NewDefinition.uses = {}
      BY DEF NewDefinition
    <2> QED
      BY <2>1, <2>2, AppendedUses
  <1> QED
    BY <1>1, InstancesOf DEF Of

\* The uses that other classes make stay the same.
LEMMA OtherInstances ==
    ASSUME NEW c \in Classes, NEW uses, usages' = [usages EXCEPT ![c] = uses],
           NEW k \in Classes \ {c}, NEW n, usages \in Uses
    PROVE  Instances(usages', k, n) = Instances(usages, k, n)
  <1>1. usages'[k] = usages[k]
    BY DEF Uses
  <1> QED
    BY <1>1 DEF Instances

-----------------------------------------------------------------------------
(* What an edit leaves of the uses of k in the definition of n in a        *)

LEMMA CodeEditLeaves ==
    ASSUME Types, Sourced', Types', NEW class \in Classes, NEW text \in Source,
           EditCode(class, text),
           NEW a \in Classes, NEW n \in Declared[a], NEW k \in Classes
    PROVE  /\ k = class /\ (a = class \/ a \in Above(extends')[class]) =>
                 Of(definitions'[a][n], k) = Instances(usages', k, n)
           /\ (a = class /\ class \in Above(extends')[k]) =>
                 Of(definitions'[a][n], k) = Instances(usages', k, n)
           /\ k # class =>
                 Of(definitions'[a][n], k) \in {Instances(usages', k, n), Of(definitions[a][n], k), {}}
  <1> DEFINE use    == [usages EXCEPT ![class] = UsesIn(text)]
             fresh  == [definitions EXCEPT ![class] = Indexed(use, class)]
             cut    == [extends EXCEPT ![class] = NoClass]
             joined == [extends EXCEPT ![class] = text.base]
             mended == Postprocessed(Below(cut, class), fresh, cut, use)
  <1>1. /\ usages' = use /\ extends' = joined
        /\ definitions' = Postprocessed({class}, mended, joined, use)
    BY DEF EditCode
  <1>2. Typed(fresh) /\ fresh[a][n] = IF a = class THEN Indexed(use, class)[n] ELSE definitions[a][n]
    <2>1. Indexed(use, class) \in [Declared[class] -> Definition]
      <3> HIDE DEF use
      <3> QED
        BY IndexKeeps
    <2>2. definitions = [c \in Classes |-> definitions[c]] /\ Typed(definitions)
      BY DEF Types
    <2>3. \A c \in Classes :
            fresh[c] = IF c = class THEN Indexed(use, class) ELSE definitions[c]
      BY <2>2
    <2> HIDE DEF use, fresh
    <2> QED
      BY <2>1, <2>2, <2>3 DEF Typed
  <1>3. Below(cut, class) \in SUBSET Classes
    BY DEF Below
  <1>4. cut = [joined EXCEPT ![class] = NoClass]
    BY DEF Types
  <1> HIDE DEF use, fresh, cut, joined
  <1>5. Typed(mended)
    <2> QED
      BY <1>2, <1>3, PostprocessKeeps
  <1>6. Of(mended[a][n], k) = IF class \in Above(cut)[k] /\ a \in Above(cut)[k]
                              THEN Instances(use, k, n) ELSE Of(fresh[a][n], k)
    <2>1. k \in Below(cut, class) <=> class \in Above(cut)[k]
      BY DEF Below
    <2> QED
      BY <1>2, <1>3, <2>1, PostprocessLeaves
  <1> HIDE DEF mended
  <1>7. Of(definitions'[a][n], k) = IF k = class /\ a \in Above(joined)[k]
                                    THEN Instances(use, k, n) ELSE Of(mended[a][n], k)
    BY <1>1, <1>5, PostprocessLeaves
  <1>8. a = class => Of(fresh[a][n], k) = IF k = class THEN Instances(use, class, n) ELSE {}
    BY <1>2, IndexLeaves
  <1>9. a # class => Of(fresh[a][n], k) = Of(definitions[a][n], k)
    BY <1>2
  <1>10. (a = class /\ class \in Above(extends')[k]) =>
            Of(definitions'[a][n], k) = Instances(usages', k, n)
    <2> SUFFICES ASSUME a = class, class \in Above(joined)[k]
                 PROVE  Of(definitions'[a][n], k) = Instances(use, k, n)
      BY <1>1
    <2>1. PICK rank : Descends(joined, rank)
      <3>1. (\E rank : Descends(extends, rank))'
        BY ExtendsDescend, PTL
      <3> QED
        BY <1>1, <3>1 DEF Descends, Hierarchies
    <2>2. class \in Above(cut)[k]
      BY <1>4, <2>1, CutKeepsBelow
    <2> QED
      BY <1>6, <1>7, <2>2
  <1>11. k = class /\ (a = class \/ a \in Above(extends')[class]) =>
            Of(definitions'[a][n], k) = Instances(usages', k, n)
    BY <1>1, <1>6, <1>7, <1>8
  <1>12. k # class =>
            Of(definitions'[a][n], k) \in {Instances(usages', k, n), Of(definitions[a][n], k), {}}
    BY <1>1, <1>6, <1>7, <1>8, <1>9
  <1> QED
    BY <1>10, <1>11, <1>12

LEMMA TemplateEditLeaves ==
    ASSUME Types, NEW class \in Classes, NEW text \in Source, EditTemplate(class, text),
           NEW a \in Classes, NEW n \in Declared[a], NEW k \in Classes
    PROVE  /\ k = class /\ a \in Above(extends')[class] =>
                 Of(definitions'[a][n], k) = Instances(usages', k, n)
           /\ k = class /\ a = class /\ Of(definitions[a][n], k) \subseteq Instances(usages, k, n) =>
                 Of(definitions'[a][n], k) \subseteq Instances(usages', k, n)
           /\ k # class =>
                 Of(definitions'[a][n], k) \in {Instances(usages', k, n), Of(definitions[a][n], k), {}}
  <1> DEFINE own(m)  == {b \in Accesses : <<m, b>> \in usages[class]}
             use     == [usages EXCEPT ![class] =
                           {u \in @ : u[2] # TemplateAccess} \cup text.template]
             dropped == [m \in Declared[class] |->
                           Dropped(definitions[class][m], class, own(m))]
             new(m)  == {[class |-> class, access |-> u[2]] :
                           u \in {v \in text.template : v[1] = m}}
             indexed == [m \in Declared[class] |-> Appended(dropped[m], new(m))]
             again   == {class} \cup (IF class \in InModule THEN Bases(extends, class) ELSE {})
             fresh   == [definitions EXCEPT ![class] = indexed]
  <1>1. /\ usages' = use /\ extends' = extends
        /\ definitions' = Postprocessed(again, fresh, extends, use)
    BY DEF EditTemplate
  <1>2. Typed(fresh)
    <2>1. ASSUME NEW m \in Declared[class] PROVE indexed[m] \in Definition
      <3>1. text.template \subseteq Names \X Accesses
        BY DEF Source, Accesses, TemplateAccess
      <3>2. definitions[class][m] \in Definition /\ own(m) \in SUBSET Accesses
        BY <2>1 DEF Types, Typed
      <3>3. dropped[m] \in Definition
        <4>1. dropped[m] = Dropped(definitions[class][m], class, own(m))
          BY <2>1
        <4> HIDE DEF own, dropped
        <4> QED
          BY <3>2, <4>1, DropKeeps
      <3>4. \A u \in {v \in text.template : v[1] = m} : u[2] \in Accesses
        BY <3>1
      <3>5. new(m) \in SUBSET Instance
        BY <3>4 DEF Instance
      <3>6. indexed[m] = Appended(dropped[m], new(m))
        BY <2>1
      <3> HIDE DEF dropped, new, indexed
      <3> QED
        BY <3>3, <3>5, <3>6, AppendKeeps
    <2>2. indexed \in [Declared[class] -> Definition]
      <3>1. indexed = [m \in Declared[class] |-> indexed[m]]
        OBVIOUS
      <3> HIDE DEF indexed
      <3> QED
        BY <2>1, <3>1
    <2>3. definitions = [c \in Classes |-> definitions[c]] /\ Typed(definitions)
      BY DEF Types
    <2> HIDE DEF indexed
    <2>4. \A c \in Classes : fresh[c] = IF c = class THEN indexed ELSE definitions[c]
      BY <2>3
    <2> HIDE DEF fresh
    <2> QED
      BY <2>2, <2>3, <2>4 DEF Typed
  <1>3. again \in SUBSET Classes
    BY DEF Bases
  <1>4. fresh[a][n] = IF a = class THEN Appended(dropped[n], new(n)) ELSE definitions[a][n]
    <2>1. definitions = [c \in Classes |-> definitions[c]]
      BY DEF Types
    <2>2. fresh[a] = IF a = class THEN indexed ELSE definitions[a]
      BY <2>1
    <2> HIDE DEF dropped, new, fresh
    <2> QED
      BY <2>2
  <1>5. ASSUME a = class
        PROVE  fresh[a][n].uses = dropped[n].uses \cup new(n)
    <2> HIDE DEF fresh, dropped, new
    <2> QED
      BY <1>4, <1>5, AppendedUses
  <1>6. ASSUME a = class
        PROVE  \/ own(n) = {} /\ dropped[n] = definitions[a][n]
               \/ dropped[n].uses = {[class |-> class, access |-> b] : b \in {x \in own(n) : x # TemplateAccess}}
    <2>1. dropped[n] = Dropped(definitions[a][n], class, own(n))
      BY <1>6
    <2> HIDE DEF dropped, own
    <2> QED
      BY <2>1 DEF Dropped
  <1>7. Of(definitions'[a][n], k) = IF k \in again /\ a \in Above(extends)[k]
                                    THEN Instances(use, k, n) ELSE Of(fresh[a][n], k)
    <2> HIDE DEF fresh, again, use
    <2> QED
      BY <1>1, <1>2, <1>3, PostprocessLeaves
  <1>8. k = class /\ a \in Above(extends')[class] =>
            Of(definitions'[a][n], k) = Instances(usages', k, n)
    <2>1. class \in again
      OBVIOUS
    <2> HIDE DEF fresh, again, use
    <2> QED
      BY <1>1, <1>7, <2>1
  <1>9. ASSUME k = class, a = class, Of(definitions[a][n], k) \subseteq Instances(usages, k, n)
        PROVE  Of(definitions'[a][n], k) \subseteq Instances(usages', k, n)
    <2>1. use[class] = {u \in usages[class] : u[2] # TemplateAccess} \cup text.template
      BY DEF Types, Uses
    <2>2. text.template \subseteq Names \X Accesses
      BY DEF Source, Accesses, TemplateAccess
    <2>3. new(n) \subseteq Instances(use, k, n)
      <3> SUFFICES ASSUME NEW v \in text.template, v[1] = n
                   PROVE  [class |-> class, access |-> v[2]] \in Instances(use, k, n)
        OBVIOUS
      <3>1. v = <<n, v[2]>> /\ v[2] \in Accesses
        BY <2>2
      <3>2. <<n, v[2]>> \in use[class]
        BY <2>1, <3>1
      <3> HIDE DEF use
      <3> QED
        BY <1>9, <3>1, <3>2 DEF Instances
    <2>4. Of(dropped[n], k) \subseteq Instances(use, k, n)
      <3>1. CASE own(n) = {} /\ dropped[n] = definitions[a][n]
        <4>1. Instances(usages, k, n) = {}
          BY <1>9, <3>1 DEF Instances
        <4> HIDE DEF dropped
        <4> QED
          BY <1>9, <3>1, <4>1
      <3>2. CASE dropped[n].uses = {[class |-> class, access |-> b] : b \in {x \in own(n) : x # TemplateAccess}}
        <4>1. ASSUME NEW b \in own(n), b # TemplateAccess
              PROVE  [class |-> class, access |-> b] \in Instances(use, k, n)
          <5>1. b \in Accesses /\ <<n, b>> \in use[class]
            BY <2>1, <4>1
          <5> HIDE DEF use
          <5> QED
            BY <1>9, <5>1 DEF Instances
        <4> HIDE DEF own, dropped, use
        <4> QED
          BY <3>2, <4>1 DEF Of
      <3> QED
        BY <1>6, <1>9, <3>1, <3>2
    <2> HIDE DEF own, use, dropped, new, indexed, again, fresh
    <2>5. Of(fresh[a][n], k) \subseteq Instances(use, k, n)
      BY <1>5, <1>9, <2>3, <2>4 DEF Of
    <2> QED
      BY <1>1, <1>7, <2>5
  <1>10. ASSUME k # class
         PROVE  Of(definitions'[a][n], k) \in {Instances(usages', k, n), Of(definitions[a][n], k), {}}
    <2>1. CASE a # class
      <3> HIDE DEF own, use, dropped, new, indexed, again, fresh
      <3> QED
        BY <1>1, <1>4, <1>7, <2>1
    <2>2. CASE a = class
      <3>1. \A u \in new(n) : u.class = class
        OBVIOUS
      <3>2. Of(dropped[n], k) \in {Of(definitions[a][n], k), {}}
        <4>1. CASE dropped[n] = definitions[a][n]
          <5> HIDE DEF dropped
          <5> QED
            BY <4>1
        <4>2. CASE dropped[n].uses = {[class |-> class, access |-> b] : b \in {x \in own(n) : x # TemplateAccess}}
          <5> HIDE DEF own, dropped
          <5> QED
            BY <1>10, <4>2 DEF Of
        <4> QED
          BY <1>6, <2>2, <4>1, <4>2
      <3> HIDE DEF own, use, dropped, new, indexed, again, fresh
      <3>3. Of(fresh[a][n], k) = Of(dropped[n], k)
        BY <1>5, <1>10, <2>2, <3>1 DEF Of
      <3> QED
        BY <1>1, <1>7, <3>2, <3>3
    <2> QED
      BY <2>1, <2>2
  <1> HIDE DEF own, use, dropped, new, indexed, again, fresh
  <1> QED
    BY <1>8, <1>9, <1>10

-----------------------------------------------------------------------------
(* Edits reach every class above and are restored from every class below   *)

\* Only an edit counts edits.
LEMMA OnlyEditCounts ==
    ASSUME TypeInv, [Next]_vars, edits' # edits
    PROVE  Edit
  <1>1. ASSUME NEW k \in Classes, Goroutine(k) PROVE edits' = edits
    BY <1>1, GoroutineFrame DEF TypeInv
  <1> QED
    BY <1>1 DEF Next, vars

LEMMA EditIsOne ==
    ASSUME Edit
    PROVE  \E class \in Classes : \E text \in Sources[class] :
              /\ EditCode(class, text) \/ EditTemplate(class, text)
              /\ source' = [source EXCEPT ![class] = text]
  BY DEF Edit, EditCode, EditTemplate

LEMMA AboveAreClasses ==
    ASSUME Types', Sourced', NEW k \in Classes
    PROVE  Above(extends')[k] \subseteq Classes /\ k \notin Above(extends')[k]
  <1>1. (\E rank : Descends(extends, rank))'
    BY ExtendsDescend, PTL
  <1>2. PICK rank : Descends(extends', rank)
    BY <1>1 DEF Descends, Hierarchies
  <1>3. rank[k] \in Nat
    BY <1>2 DEF Descends
  <1> QED
    BY <1>2, <1>3, AboveLower

LEMMA EditReaches ==
    ASSUME TypeInv, TypeInv', Sourced', [Next]_vars
    PROVE  \A k \in Classes : EditOf(k) =>
              \A a \in Above(extends')[k] : \A n \in Declared[a] :
                  Known(a, n, k)' = Instances(usages', k, n)
  <1> SUFFICES ASSUME NEW k \in Classes, EditOf(k), NEW a \in Above(extends')[k],
                      NEW n \in Declared[a]
               PROVE  Known(a, n, k)' = Instances(usages', k, n)
    OBVIOUS
  <1>1. Edit /\ Types /\ Types' /\ source'[k] # source[k]
    BY OnlyEditCounts DEF EditOf, TypeInv
  <1>2. PICK class \in Classes : \E text \in Sources[class] :
          /\ EditCode(class, text) \/ EditTemplate(class, text)
          /\ source' = [source EXCEPT ![class] = text]
    BY <1>1, EditIsOne
  <1>3. PICK text \in Sources[class] :
          /\ EditCode(class, text) \/ EditTemplate(class, text)
          /\ source' = [source EXCEPT ![class] = text]
    BY <1>2
  <1>4. k = class /\ text \in Source
    BY <1>1, <1>3, Constants DEF Types
  <1>5. a \in Classes
    BY <1>1, AboveAreClasses
  <1>6. Of(definitions'[a][n], k) = Instances(usages', k, n)
    BY <1>1, <1>3, <1>4, <1>5, CodeEditLeaves, TemplateEditLeaves
  <1> QED
    BY <1>6, KnownIsOfNext

LEMMA EditRestores ==
    ASSUME TypeInv, TypeInv', Sourced', [Next]_vars
    PROVE  \A a \in Classes : CodeEdit(a) =>
              \A k \in {c \in Classes : a \in Above(extends')[c]} : \A n \in Declared[a] :
                  Known(a, n, k)' = Instances(usages', k, n)
  <1> SUFFICES ASSUME NEW a \in Classes, CodeEdit(a),
                      NEW k \in Classes, a \in Above(extends')[k], NEW n \in Declared[a]
               PROVE  Known(a, n, k)' = Instances(usages', k, n)
    OBVIOUS
  <1>1. Types /\ Types' /\ EditCode(a, source'[a])
    BY DEF CodeEdit, TypeInv
  <1>2. source'[a] \in Source
    BY Constants DEF Sourced
  <1>3. Of(definitions'[a][n], k) = Instances(usages', k, n)
    BY <1>1, <1>2, CodeEditLeaves
  <1> QED
    BY <1>3, KnownIsOfNext

LEMMA SourcedInvariant == Spec => []Sourced
  BY TypeInvariant, SourcedInit, SourcedStep, PTL DEF Spec

\* However deep the hierarchy is and whatever was edited before, an edit
\* leaves exactly the uses that the class now makes in every class above it,
\* as the hierarchy is then: removeUsagesFromClassUpwards and
\* propagateUsagesUpwards go through the same classes.
THEOREM EditsReach == Spec => EditReachesAbove
  <1> QED
    BY TypeInvariant, SourcedInvariant, EditReaches, PTL DEF Spec, EditReachesAbove

\* A class that is indexed anew has the uses of every class below it, near or
\* far: those that are postprocessed with it are all that lead up to it.
THEOREM EditsRestore == Spec => EditRestoresBelow
  <1> QED
    BY TypeInvariant, SourcedInvariant, EditRestores, PTL DEF Spec, EditRestoresBelow

-----------------------------------------------------------------------------
(* No use that is not made                                                 *)

\* Every use in the definition d of n is made by its class.
Made(use, d, n) == \A u \in d.uses : u \in Instances(use, u.class, n)

AllMade == \A c \in Classes : \A n \in Declared[c] : Made(usages, definitions[c][n], n)

\* So is every use the goroutine of k has cloned, or will write.
Carries(k) ==
    /\ pc[k] \in Removing => \A n \in left[k] : Made(usages, clone[k][n], n)
    /\ pc[k] \in Appending => left[k] \subseteq usages[k]
    /\ pc[k] \in Writing => Made(usages, got[k], member[k])

AtStart == AllMade /\ \A k \in Classes : Carries(k)

\* What NoPhantomUse says, of all classes at once.
NoneExtra ==
    \A k \in Classes : \A a \in {k, source[k].base} \ {NoClass} : \A n \in Declared[a] :
        Of(definitions[a][n], k) \subseteq Instances(usages, k, n)

\* Edits come when the goroutines are done; they only see to the class itself
\* and to those it extends or extended.
PhantomInv == AtStart \/ (NoneExtra /\ \A k \in Classes : pc[k] = "done")

LEMMA StartHasNoneExtra == Types /\ AtStart => NoneExtra
  <1> SUFFICES ASSUME Types, AllMade, NEW k \in Classes,
                      NEW a \in {k, source[k].base} \ {NoClass}, NEW n \in Declared[a]
               PROVE  Of(definitions[a][n], k) \subseteq Instances(usages, k, n)
    BY DEF AtStart, NoneExtra
  <1>1. a \in Classes
    BY DEF Types, Source
  <1> QED
    BY <1>1 DEF AllMade, Made, Of

LEMMA AtStartInit == Init => AtStart
  <1> SUFFICES ASSUME Init PROVE AtStart
    OBVIOUS
  <1>1. ASSUME NEW c \in Classes, NEW n \in Declared[c], NEW u \in definitions[c][n].uses
        PROVE  u \in Instances(usages, u.class, n)
    <2>1. definitions[c][n] = Indexed(usages, c)[n]
      BY DEF Init
    <2>2. u \in Of(Indexed(usages, c)[n], u.class)
      BY <1>1, <2>1 DEF Of
    <2> QED
      BY <2>2, IndexLeaves
  <1>2. ASSUME NEW k \in Classes PROVE Carries(k)
    BY DEF Init, Carries, Removing, Appending, Writing
  <1> QED
    BY <1>1, <1>2 DEF AtStart, AllMade, Made

LEMMA OneInstance ==
    ASSUME NEW k \in Classes, NEW u \in usages[k], NEW n, NEW acc \in Accesses, u = <<n, acc>>
    PROVE  [class |-> k, access |-> acc] \in Instances(usages, k, n)
  BY DEF Instances

LEMMA CarriesOn ==
    ASSUME TypeInv, AtStart, NEW k \in Classes, Goroutine(k)
    PROVE  AllMade' /\ Carries(k)'
  <1>0. Types /\ Holds(k) /\ AllMade /\ Carries(k) /\ usages' = usages
    BY GoroutineFrame DEF TypeInv, AtStart
  <1> USE DEF Carries, Removing, Appending, Writing, Types, classVars
  <1>1. CASE Spawn(k)
    BY <1>0, <1>1 DEF Spawn, AllMade
  <1>2. CASE Resolve(k)
    BY <1>0, <1>2 DEF Resolve, AllMade
  <1>3. CASE RemoveAbove(k)
    <2>1. definitions' = definitions /\ pc'[k] \in {"propagate", "cloning"}
      BY <1>0, <1>3 DEF RemoveAbove
    <2> QED
      BY <1>0, <2>1 DEF AllMade
  <1>4. CASE Cloned(k)
    BY <1>0, <1>4 DEF Cloned, AllMade
  <1>5. CASE GetToRemove(k)
    <2>1. PICK n \in left[k] :
            /\ member' = [member EXCEPT ![k] = n]
            /\ got' = [got EXCEPT ![k] = Filtered(definitions[at[k]][n], clone[k][n], k)]
            /\ left' = [left EXCEPT ![k] = @ \ {n}]
      BY <1>5 DEF GetToRemove
    <2>2. UNCHANGED <<definitions, clone, at>> /\ pc' = [pc EXCEPT ![k] = "write filtered"]
          /\ pc[k] = "removing"
      BY <1>5 DEF GetToRemove
    <2>3. Made(usages, clone[k][n], n) /\ definitions[at[k]][n] \in Definition
      BY <1>0, <2>1, <2>2 DEF Holds, Typed
    <2>4. Filtered(definitions[at[k]][n], clone[k][n], k).uses \subseteq clone[k][n].uses
      BY <2>3 DEF Filtered, Definition
    <2>5. Made(usages, Filtered(definitions[at[k]][n], clone[k][n], k), n)
      BY <2>3, <2>4 DEF Made
    <2>6. AllMade'
      BY <1>0, <2>2 DEF AllMade
    <2>7. /\ got'[k] = Filtered(definitions[at[k]][n], clone[k][n], k) /\ member'[k] = n
          /\ left'[k] \subseteq left[k] /\ pc'[k] = "write filtered"
      BY <1>0, <2>1, <2>2
    <2>8. \A m \in left'[k] : Made(usages', clone'[k][m], m)
      BY <1>0, <2>2, <2>7
    <2>9. Made(usages', got'[k], member'[k])
      BY <1>0, <2>5, <2>7
    <2>10. Carries(k)'
      BY <2>7, <2>8, <2>9
    <2> QED
      BY <2>6, <2>10
  <1>6. CASE Removed(k)
    BY <1>0, <1>6 DEF Removed, AllMade
  <1>7. CASE PropagateAbove(k)
    <2>1. /\ definitions' = definitions
          /\ \/ pc'[k] = "done"
             \/ pc'[k] = "appending" /\ left'[k] \subseteq usages[k]
      <3>1. CASE extends[at[k]] = NoClass
        BY <1>0, <1>7, <3>1 DEF PropagateAbove
      <3>2. CASE extends[at[k]] # NoClass
        <4>1. /\ pc' = [pc EXCEPT ![k] = "appending"]
              /\ left' = [left EXCEPT ![k] =
                             {u \in usages[k] : u[1] \in Declared[extends[at[k]]]}]
              /\ definitions' = definitions
          BY <1>7, <3>2 DEF PropagateAbove
        <4> QED
          BY <1>0, <4>1
      <3> QED
        BY <3>1, <3>2
    <2> QED
      BY <1>0, <2>1 DEF AllMade
  <1>8. CASE GetToAppend(k)
    <2>1. PICK u \in left[k] :
            /\ member' = [member EXCEPT ![k] = u[1]]
            /\ got' = [got EXCEPT ![k] = Appended(definitions[at[k]][u[1]],
                                               {[class |-> k, access |-> u[2]]})]
            /\ left' = [left EXCEPT ![k] = @ \ {u}]
      BY <1>8 DEF GetToAppend
    <2>2. UNCHANGED <<definitions, clone, at>> /\ pc' = [pc EXCEPT ![k] = "write appended"]
          /\ pc[k] = "appending"
      BY <1>8 DEF GetToAppend
    <2>3. /\ u \in usages[k] /\ left[k] \subseteq usages[k] /\ u \in Names \X Accesses
          /\ u[1] \in Declared[at[k]]
      BY <1>0, <2>1, <2>2 DEF Holds
    <2>4. [class |-> k, access |-> u[2]] \in Instances(usages, k, u[1])
      BY <2>3, OneInstance
    <2>5. Made(usages, definitions[at[k]][u[1]], u[1])
      BY <1>0, <2>3 DEF AllMade
    <2> DEFINE new == Appended(definitions[at[k]][u[1]], {[class |-> k, access |-> u[2]]})
    <2>6. new.uses = definitions[at[k]][u[1]].uses \cup {[class |-> k, access |-> u[2]]}
      BY AppendedUses
    <2> HIDE DEF new
    <2>7. Made(usages, new, u[1])
      BY <2>4, <2>5, <2>6 DEF Made
    <2>8. got'[k] = new /\ member'[k] = u[1] /\ left'[k] \subseteq usages[k]
      BY <1>0, <2>1, <2>3 DEF new
    <2>9. AllMade'
      BY <1>0, <2>2 DEF AllMade
    <2>10. Carries(k)'
      BY <1>0, <2>2, <2>7, <2>8
    <2> QED
      BY <2>9, <2>10
  <1>9. CASE Propagated(k)
    BY <1>0, <1>9 DEF Propagated, AllMade
  <1>10. CASE Set(k)
    <2>1. /\ definitions' = [definitions EXCEPT ![at[k]][member[k]] = got[k]]
          /\ UNCHANGED <<at, clone, left, member, got>>
          /\ pc[k] \in Writing
      BY <1>10 DEF Set
    <2>2. Made(usages, got[k], member[k]) /\ member[k] \in Declared[at[k]]
      BY <1>0, <2>1 DEF Holds
    <2>3. AllMade'
      BY <1>0, <2>1, <2>2 DEF AllMade, Typed
    <2>4. \/ pc[k] = "write filtered" /\ pc'[k] = "removing"
          \/ pc[k] = "write appended" /\ pc'[k] = "appending"
      BY <1>0, <1>10 DEF Set
    <2>5. Carries(k)'
      BY <1>0, <2>1, <2>4
    <2> QED
      BY <2>3, <2>5
  <1> QED
    BY <1>1, <1>2, <1>3, <1>4, <1>5, <1>6, <1>7, <1>8, <1>9, <1>10 DEF Goroutine

\* What the others carry is not disturbed.
LEMMA CarriesStays ==
    ASSUME NEW j, Carries(j), usages' = usages, pc'[j] = pc[j], left'[j] = left[j],
           clone'[j] = clone[j], member'[j] = member[j], got'[j] = got[j]
    PROVE  Carries(j)'
  BY DEF Carries

LEMMA PhantomInit == Init => PhantomInv
  BY AtStartInit DEF PhantomInv

LEMMA PhantomGoroutine ==
    ASSUME TypeInv, PhantomInv, NEW k \in Classes, Goroutine(k)
    PROVE  PhantomInv'
  <1>0. Frame(k) /\ usages' = usages
    BY GoroutineFrame DEF TypeInv
  <1>1. pc[k] # "done"
    BY DEF Goroutine, Spawn, Resolve, RemoveAbove, Cloned, GetToRemove,
       Removed, PropagateAbove, GetToAppend, Propagated, Set
  <1>2. AtStart
    BY <1>1 DEF PhantomInv
  <1>3. AllMade' /\ Carries(k)'
    BY <1>2, CarriesOn
  <1>4. ASSUME NEW j \in Classes \ {k} PROVE Carries(j)'
    BY <1>0, <1>2, <1>4, CarriesStays DEF Frame, AtStart
  <1> QED
    BY <1>3, <1>4 DEF PhantomInv, AtStart

LEMMA PhantomEdit ==
    ASSUME TypeInv, TypeInv', Sourced, Sourced', PhantomInv, Edit
    PROVE  PhantomInv'
  <1>0. /\ Types /\ Types' /\ NoneExtra
        /\ \A k \in Classes : pc[k] = "done" /\ pc'[k] = "done"
    BY StartHasNoneExtra DEF TypeInv, PhantomInv, Edit, Serving, goVars
  <1>1. PICK class \in Classes : \E text \in Sources[class] :
          /\ EditCode(class, text) \/ EditTemplate(class, text)
          /\ source' = [source EXCEPT ![class] = text]
    BY EditIsOne
  <1>2. PICK text \in Sources[class] :
          /\ EditCode(class, text) \/ EditTemplate(class, text)
          /\ source' = [source EXCEPT ![class] = text]
    BY <1>1
  <1>3. text \in Source
    BY Constants
  <1>4. PICK uses : usages' = [usages EXCEPT ![class] = uses]
    BY <1>2 DEF EditCode, EditTemplate
  <1>5. ASSUME NEW k \in Classes, NEW a \in {k, source'[k].base} \ {NoClass}, NEW n \in Declared[a]
        PROVE  Of(definitions'[a][n], k) \subseteq Instances(usages', k, n)
    <2>1. a \in Classes
      BY <1>0 DEF Types, Source
    <2>2. CASE k # class
      <3>1. source'[k] = source[k]
        BY <1>0, <1>2, <2>2 DEF Types
      <3>2. Of(definitions[a][n], k) \subseteq Instances(usages, k, n)
        BY <1>0, <3>1 DEF NoneExtra
      <3>3. Instances(usages', k, n) = Instances(usages, k, n)
        BY <1>0, <1>4, <2>2, OtherInstances DEF Types
      <3>4. Of(definitions'[a][n], k) \in {Instances(usages', k, n), Of(definitions[a][n], k), {}}
        BY <1>0, <1>2, <1>3, <2>1, <2>2, CodeEditLeaves, TemplateEditLeaves
      <3> QED
        BY <3>2, <3>3, <3>4
    <2>3. CASE k = class /\ a = class
      <3>1. Of(definitions[a][n], k) \subseteq Instances(usages, k, n)
        BY <1>0, <2>3, <2>1, UsagesAssumption DEF NoneExtra
      <3> QED
        BY <1>0, <1>2, <1>3, <2>1, <2>3, <3>1, CodeEditLeaves, TemplateEditLeaves
    <2>4. CASE k = class /\ a # class
      <3>1. extends'[k] = source'[k].base /\ a = source'[k].base
        BY <1>0, <1>5, <2>4 DEF Sourced
      <3>2. a \in Above(extends')[k]
        <4>1. extends' \in Hierarchies
          BY <1>0 DEF Types, Hierarchies
        <4> QED
          BY <1>5, <3>1, <4>1, AboveStep
      <3> QED
        BY <1>0, <1>2, <1>3, <2>1, <2>4, <3>2, CodeEditLeaves, TemplateEditLeaves
    <2> QED
      BY <2>2, <2>3, <2>4
  <1>6. NoneExtra'
    BY <1>5 DEF NoneExtra
  <1> QED
    BY <1>0, <1>6 DEF PhantomInv

LEMMA PhantomStep ==
    ASSUME TypeInv, TypeInv', Sourced, Sourced', PhantomInv, [Next]_vars
    PROVE  PhantomInv'
  <1>1. CASE UNCHANGED vars
    <2>1. UNCHANGED <<source, usages, definitions, pc, at, clone, left, member, got>>
      BY <1>1 DEF vars, classVars, goVars
    <2> QED
      BY <2>1 DEF PhantomInv, AtStart, AllMade, Carries, NoneExtra
  <1> QED
    BY <1>1, PhantomGoroutine, PhantomEdit DEF Next

\* No definition of a class, nor of the one it extends, keeps a use that the
\* class does not make, with any number of goroutines and whatever they write
\* over one another: what they carry about was made when they began, and each
\* edit renews both definitions.
THEOREM NoPhantom == Spec => []NoPhantomUse
  <1>1. TypeInv /\ PhantomInv => NoPhantomUse
    <2>1. TypeInv /\ PhantomInv => NoneExtra
      BY StartHasNoneExtra DEF TypeInv, PhantomInv
    <2> QED
      BY <2>1, KnownIsOf DEF NoneExtra, NoPhantomUse
  <1> QED
    BY <1>1, TypeInvariant, SourcedInvariant, PhantomInit, PhantomStep, PTL DEF Spec

-----------------------------------------------------------------------------
(* Every base class is told all the uses                                   *)

Told(k) ==
    source[k].base # NoClass =>
        \A n \in Declared[source[k].base] :
            Instances(usages, k, n) \subseteq definitions[source[k].base][n].uses

InstanceOf(k, u) == [class |-> k, access |-> u[2]]

\* At the class it extends the goroutine of k has dealt with some of the uses.
Telling(k) ==
    /\ at[k] = source[k].base
    /\ \A u \in usages[k] : u[1] \in Declared[at[k]] /\ u \notin left[k] =>
          \/ InstanceOf(k, u) \in definitions[at[k]][u[1]].uses
          \/ pc[k] = "write appended" /\ member[k] = u[1] /\ InstanceOf(k, u) \in got[k].uses

\* The first class above is told first; what the goroutine writes back after
\* that has all the uses that other classes make, and in the end its own.
Progress(k) ==
    /\ pc[k] = "done" => Told(k)
    /\ pc[k] = "propagate" /\ at[k] # k => Told(k)
    /\ pc[k] \in Appending => Told(k) \/ Telling(k)
    /\ pc[k] = "write appended" =>
          definitions[at[k]][member[k]].uses \subseteq got[k].uses
    /\ pc[k] = "write filtered" =>
          {u \in definitions[at[k]][member[k]].uses : u.class # k} \subseteq got[k].uses

KnowInv == ~concurrency /\ edits = 0 => \A k \in Classes : Progress(k)

LEMMA KnowInit == Init => KnowInv
  BY DEF Init, KnowInv, Progress, Appending

\* Uses of k that stay where they are.
LEMMA ToldStays ==
    ASSUME Types, NEW k \in Classes, Told(k), UNCHANGED <<source, usages>>,
           \A c \in Classes : \A n \in Declared[c] :
              {u \in definitions[c][n].uses : u.class = k} \subseteq definitions'[c][n].uses
    PROVE  Told(k)'
  <1> SUFFICES ASSUME source[k].base # NoClass, NEW n \in Declared[source[k].base],
                      NEW u \in Instances(usages, k, n)
               PROVE  u \in definitions'[source[k].base][n].uses
    BY DEF Told
  <1>1. source[k].base \in Classes
    BY DEF Types, Source
  <1>2. u \in definitions[source[k].base][n].uses /\ u.class = k
    BY InstancesOf DEF Told
  <1> QED
    BY <1>1, <1>2

\* What a goroutine writes back.
LEMMA SetKeeps ==
    ASSUME NEW k \in Classes, Types, Holds(k), Progress(k), Set(k),
           NEW c \in Classes, NEW n \in Declared[c], NEW u \in definitions[c][n].uses,
           pc[k] = "write appended" \/ u.class # k
    PROVE  u \in definitions'[c][n].uses
  <1>1. /\ definitions' = [definitions EXCEPT ![at[k]][member[k]] = got[k]]
        /\ pc[k] \in Writing
    BY DEF Set, Writing
  <1>2. at[k] \in Classes /\ member[k] \in Declared[at[k]]
    BY <1>1 DEF Holds, Types
  <1>3. definitions'[c][n] = IF c = at[k] /\ n = member[k] THEN got[k] ELSE definitions[c][n]
    BY <1>1, <1>2 DEF Types, Typed
  <1>4. c = at[k] /\ n = member[k] => u \in got[k].uses
    BY <1>1 DEF Progress, Writing
  <1> QED
    BY <1>3, <1>4

\* A step that writes no definition.
LEMMA SameTold ==
    ASSUME NEW k, UNCHANGED <<source, usages, definitions>>
    PROVE  Told(k)' <=> Told(k)
  BY DEF Told, Instances

LEMMA TellingTells ==
    ASSUME Types, NEW k \in Classes, Telling(k), pc[k] = "appending", left[k] = {}
    PROVE  Told(k)
  <1> SUFFICES ASSUME source[k].base # NoClass, NEW n \in Declared[source[k].base],
                      NEW i \in Instances(usages, k, n)
               PROVE  i \in definitions[source[k].base][n].uses
    BY DEF Told
  <1>1. PICK acc \in Accesses : <<n, acc>> \in usages[k] /\ i = [class |-> k, access |-> acc]
    BY DEF Instances
  <1>2. <<n, acc>>[1] = n /\ InstanceOf(k, <<n, acc>>) = i
    BY <1>1 DEF InstanceOf
  <1> HIDE DEF InstanceOf
  <1>3. at[k] = source[k].base
    BY DEF Telling
  <1> QED
    BY <1>1, <1>2, <1>3 DEF Telling

LEMMA ProgressOn ==
    ASSUME TypeInv, CoverInv, Sourced, ~concurrency, NEW k \in Classes, Progress(k), Goroutine(k)
    PROVE  Progress(k)'
  <1>0. Types /\ Holds(k) /\ source' = source /\ usages' = usages /\ Sound(k)
    BY GoroutineFrame DEF TypeInv, CoverInv
  <1>1. ASSUME pc'[k] \in {"resolve", "remove", "cloning", "removing"} PROVE Progress(k)'
    BY <1>1 DEF Progress, Appending
  <1>2. CASE Spawn(k) \/ Resolve(k) \/ Cloned(k) \/ Removed(k)
    <2>1. pc'[k] \in {"resolve", "remove", "cloning", "removing"}
      BY <1>0, <1>2 DEF Spawn, Resolve, Cloned, Removed, Types
    <2> QED
      BY <1>1, <2>1
  <1>3. CASE RemoveAbove(k)
    <2>1. pc'[k] = "cloning" \/ (pc'[k] = "propagate" /\ at'[k] = k)
      <3>1. CASE extends[at[k]] = NoClass
        <4>1. pc' = [pc EXCEPT ![k] = "propagate"] /\ at' = [at EXCEPT ![k] = k]
          BY <1>3, <3>1 DEF RemoveAbove
        <4> QED
          BY <1>0, <4>1 DEF Types
      <3>2. CASE extends[at[k]] # NoClass
        <4>1. pc' = [pc EXCEPT ![k] = "cloning"]
          BY <1>3, <3>2 DEF RemoveAbove
        <4> QED
          BY <1>0, <4>1 DEF Types
      <3> QED
        BY <3>1, <3>2
    <2> QED
      BY <1>1, <2>1 DEF Progress, Appending
  <1>4. CASE GetToRemove(k)
    <2>1. PICK n \in left[k] :
            /\ member' = [member EXCEPT ![k] = n]
            /\ got' = [got EXCEPT ![k] = Filtered(definitions[at[k]][n], clone[k][n], k)]
      BY <1>4 DEF GetToRemove
    <2>2. UNCHANGED <<definitions, at>> /\ pc'[k] = "write filtered" /\ pc[k] = "removing"
      <3>1. /\ UNCHANGED <<definitions, at>> /\ pc[k] = "removing"
            /\ pc' = [pc EXCEPT ![k] = "write filtered"]
        BY <1>4 DEF GetToRemove, classVars
      <3> QED
        BY <1>0, <3>1 DEF Types
    <2>3. clone[k][n] = definitions[at[k]][n] /\ definitions[at[k]][n] \in Definition
      BY <1>0, <2>1, <2>2 DEF Sound, Holds, Removing, Types, Typed
    <2>4. got'[k].uses = {u \in definitions[at[k]][n].uses : u.class # k}
      <3>1. got'[k] = Filtered(definitions[at[k]][n], clone[k][n], k)
        BY <1>0, <2>1 DEF Types
      <3> QED
        BY <2>3, <3>1 DEF Filtered, Definition
    <2>5. member'[k] = n
      BY <1>0, <2>1 DEF Types
    <2> QED
      BY <2>2, <2>4, <2>5 DEF Progress, Appending
  <1>5. CASE PropagateAbove(k)
    <2>1. pc[k] = "propagate" /\ extends[k] = source[k].base /\ definitions' = definitions
      BY <1>5 DEF PropagateAbove, Sourced, classVars
    <2>2. CASE at[k] # k
      <3>1. Told(k)'
        BY <1>0, <2>1, <2>2, SameTold DEF Progress
      <3>2. pc'[k] \in {"done", "appending"}
        BY <1>0, <1>5 DEF PropagateAbove, Types
      <3> QED
        BY <3>1, <3>2 DEF Progress, Appending
    <2>3. CASE at[k] = k /\ extends[k] = NoClass
      <3>1. Told(k)'
        BY <1>0, <2>1, <2>3 DEF Told
      <3>2. pc'[k] = "done"
        BY <1>0, <1>5, <2>3 DEF PropagateAbove, Types
      <3> QED
        BY <3>1, <3>2 DEF Progress, Appending
    <2>4. CASE at[k] = k /\ extends[k] # NoClass
      <3>1. /\ pc' = [pc EXCEPT ![k] = "appending"]
            /\ at' = [at EXCEPT ![k] = extends[k]]
            /\ left' = [left EXCEPT ![k] = {u \in usages[k] : u[1] \in Declared[extends[k]]}]
        BY <1>5, <2>4 DEF PropagateAbove
      <3>2. /\ pc'[k] = "appending" /\ at'[k] = extends[k]
            /\ left'[k] = {u \in usages[k] : u[1] \in Declared[extends[k]]}
        BY <1>0, <3>1 DEF Types
      <3>3. Telling(k)'
        BY <1>0, <2>1, <3>2 DEF Telling
      <3> QED
        BY <3>2, <3>3 DEF Progress, Appending
    <2> QED
      BY <2>2, <2>3, <2>4
  <1>6. CASE GetToAppend(k)
    <2>1. PICK u \in left[k] :
            /\ member' = [member EXCEPT ![k] = u[1]]
            /\ got' = [got EXCEPT ![k] = Appended(definitions[at[k]][u[1]],
                                               {[class |-> k, access |-> u[2]]})]
            /\ left' = [left EXCEPT ![k] = @ \ {u}]
      BY <1>6 DEF GetToAppend
    <2>2. UNCHANGED <<definitions, at>> /\ pc'[k] = "write appended" /\ pc[k] = "appending"
      <3>1. /\ UNCHANGED <<definitions, at>> /\ pc[k] = "appending"
            /\ pc' = [pc EXCEPT ![k] = "write appended"]
        BY <1>6 DEF GetToAppend, classVars
      <3> QED
        BY <1>0, <3>1 DEF Types
    <2>3. member'[k] = u[1] /\ left'[k] = left[k] \ {u}
      BY <1>0, <2>1 DEF Types
    <2>4. got'[k].uses = definitions[at[k]][u[1]].uses \cup {InstanceOf(k, u)}
      <3>1. got'[k] = Appended(definitions[at[k]][u[1]], {InstanceOf(k, u)})
        BY <1>0, <2>1 DEF Types, InstanceOf
      <3> QED
        BY <3>1, AppendedUses
    <2>5. Told(k) => Told(k)'
      BY <1>0, <2>2, SameTold
    <2>6. ASSUME Telling(k) PROVE Telling(k)'
      <3>1. ASSUME NEW v \in usages[k], v[1] \in Declared[at[k]], v \notin left'[k]
            PROVE  \/ InstanceOf(k, v) \in definitions[at[k]][v[1]].uses
                   \/ u[1] = v[1] /\ InstanceOf(k, v) \in got'[k].uses
        <4>1. CASE v = u
          BY <2>4, <4>1
        <4>2. CASE v # u
          BY <2>2, <2>3, <2>6, <3>1, <4>2 DEF Telling
        <4> QED
          BY <4>1, <4>2
      <3> QED
        BY <1>0, <2>2, <2>3, <2>6, <3>1 DEF Telling, InstanceOf
    <2>7. definitions'[at'[k]][member'[k]].uses \subseteq got'[k].uses
      BY <2>2, <2>3, <2>4
    <2>8. Told(k) \/ Telling(k)
      BY <2>2 DEF Progress, Appending
    <2> QED
      BY <2>2, <2>5, <2>6, <2>7, <2>8 DEF Progress, Appending
  <1>7. CASE Propagated(k)
    <2>1. UNCHANGED <<definitions, at>> /\ pc'[k] = "propagate" /\ pc[k] = "appending" /\ left[k] = {}
      BY <1>0, <1>7 DEF Propagated, Types, classVars
    <2>2. Told(k)
      BY <1>0, <2>1, TellingTells DEF Progress, Appending
    <2>3. Told(k)'
      BY <1>0, <2>1, <2>2, SameTold
    <2> QED
      BY <2>1, <2>3 DEF Progress, Appending
  <1>8. CASE Set(k)
    <2>1. UNCHANGED <<at, left, member, got>>
      BY <1>8 DEF Set
    <2>2. CASE pc[k] = "write filtered"
      <3>1. pc'[k] = "removing"
        BY <1>0, <1>8, <2>2 DEF Set, Types
      <3> QED
        BY <1>1, <3>1
    <2>3. CASE pc[k] = "write appended"
      <3>1. pc'[k] = "appending"
        BY <1>0, <1>8, <2>3 DEF Set, Types
      <3>2. \A c \in Classes : \A n \in Declared[c] :
              definitions[c][n].uses \subseteq definitions'[c][n].uses
        BY <1>0, <1>8, <2>3, SetKeeps
      <3>3. Told(k) => Told(k)'
        BY <1>0, <3>2, ToldStays
      <3>4. definitions'[at[k]][member[k]] = got[k] /\ at[k] \in Classes
        <4>1. at[k] \in Classes /\ member[k] \in Declared[at[k]]
          BY <1>0, <2>3 DEF Types, Holds, Writing
        <4>2. definitions' = [definitions EXCEPT ![at[k]][member[k]] = got[k]]
          BY <1>8 DEF Set
        <4> QED
          BY <1>0, <4>1, <4>2 DEF Types, Typed
      <3>5. ASSUME Telling(k) PROVE Telling(k)'
        <4>1. ASSUME NEW v \in usages[k], v[1] \in Declared[at[k]], v \notin left[k]
              PROVE  InstanceOf(k, v) \in definitions'[at[k]][v[1]].uses
          BY <2>3, <3>2, <3>4, <3>5, <4>1 DEF Telling
        <4> QED
          BY <1>0, <2>1, <3>5, <4>1 DEF Telling, InstanceOf
      <3>6. Told(k) \/ Telling(k)
        BY <2>3 DEF Progress, Appending
      <3> QED
        BY <3>1, <3>3, <3>5, <3>6 DEF Progress, Appending
    <2> QED
      BY <1>8, <2>2, <2>3 DEF Set
  <1> QED
    BY <1>2, <1>3, <1>4, <1>5, <1>6, <1>7, <1>8 DEF Goroutine

\* The goroutine of k leaves what the others have told.
LEMMA OthersToldStays ==
    ASSUME TypeInv, NEW k \in Classes, Progress(k), Goroutine(k),
           NEW j \in Classes \ {k}, Told(j)
    PROVE  Told(j)'
  <1>0. Types /\ Holds(k) /\ source' = source /\ usages' = usages
    BY GoroutineFrame DEF TypeInv
  <1>1. CASE Set(k)
    <2>1. \A c \in Classes : \A n \in Declared[c] :
            {u \in definitions[c][n].uses : u.class = j} \subseteq definitions'[c][n].uses
      BY <1>0, <1>1, SetKeeps
    <2> QED
      BY <1>0, <2>1, ToldStays
  <1>2. CASE ~Set(k)
    <2>1. definitions' = definitions
      BY <1>2 DEF Goroutine, Spawn, Resolve, RemoveAbove, Cloned, GetToRemove, Removed,
         PropagateAbove, GetToAppend, Propagated, classVars
    <2> QED
      BY <1>0, <2>1, SameTold
  <1> QED
    BY <1>1, <1>2

LEMMA KnowStep ==
    ASSUME TypeInv, Alone, CoverInv, Sourced, KnowInv, [Next]_vars
    PROVE  KnowInv'
  <1>1. ASSUME NEW k \in Classes, Goroutine(k) PROVE KnowInv'
    <2> SUFFICES ASSUME ~concurrency, edits = 0, NEW j \in Classes PROVE Progress(j)'
      BY <1>1, SettingStays, GoroutineFrame DEF KnowInv, TypeInv
    <2>1. Progress(k) /\ Progress(j)
      BY DEF KnowInv
    <2>2. CASE j = k
      BY <1>1, <2>1, <2>2, ProgressOn
    <2>3. CASE j # k
      <3>1. ~Running(j) /\ pc'[j] = pc[j]
        <4>1. CASE Spawn(k)
          BY <4>1, <1>1, <2>3, GoroutineFrame DEF Spawn, Frame, TypeInv
        <4>2. CASE ~Spawn(k)
          <5>1. Running(k)
            BY <1>1, <4>2 DEF Goroutine, Running, Resolve, RemoveAbove, Cloned, GetToRemove,
               Removed, PropagateAbove, GetToAppend, Propagated, Set
          <5> QED
            BY <1>1, <2>3, <5>1, GoroutineFrame DEF Alone, Frame, TypeInv
        <4> QED
          BY <4>1, <4>2
      <3>2. pc[j] = "done" => Told(j)'
        BY <1>1, <2>1, <2>3, OthersToldStays DEF Progress
      <3> QED
        BY <3>1, <3>2 DEF Progress, Running, Appending
    <2> QED
      BY <2>2, <2>3
  <1>2. CASE Edit
    <2>1. edits' = edits + 1 /\ edits \in 0 .. MaxEdits /\ MaxEdits \in Nat
      BY <1>2, Constants DEF Edit, TypeInv, Types
    <2>2. edits' # 0
      BY <2>1
    <2> QED
      BY <2>2 DEF KnowInv
  <1>3. CASE UNCHANGED vars
    <2>1. UNCHANGED <<source, usages, definitions, pc, at, left, member, got, edits, concurrency>>
      BY <1>3 DEF vars, classVars, goVars
    <2> QED
      BY <2>1 DEF KnowInv, Progress, Told, Telling, InstanceOf
  <1> QED
    BY <1>1, <1>2, <1>3 DEF Next

\* One goroutine at a time, all the uses that the classes on it make are known
\* to every base class when the server begins to serve: the removal that
\* begins a goroutine takes away none that another one has told.
THEOREM BaseKnows == Spec => []BaseKnowsAfterStart
  <1>1. TypeInv /\ Sourced /\ PhantomInv /\ KnowInv => BaseKnowsAfterStart
    <2> SUFFICES ASSUME TypeInv, PhantomInv, KnowInv, Serving, ~concurrency, edits = 0,
                        NEW k \in Classes, source[k].base # NoClass,
                        NEW n \in Declared[source[k].base]
                 PROVE  Known(source[k].base, n, k) = Instances(usages, k, n)
      BY DEF BaseKnowsAfterStart
    <2> DEFINE d == definitions[source[k].base][n]
    <2>1. Of(d, k) \subseteq Instances(usages, k, n)
      BY StartHasNoneExtra DEF TypeInv, PhantomInv, NoneExtra
    <2>2. Instances(usages, k, n) \subseteq d.uses
      BY DEF KnowInv, Progress, Serving, Told
    <2>3. Known(source[k].base, n, k) = Of(d, k)
      BY KnownIsOf
    <2> HIDE DEF d
    <2> QED
      BY <2>1, <2>2, <2>3, InstancesOf DEF Of
  <1>2. Spec => []Alone
    BY TypeInvariant, AloneInit, AloneStep, PTL DEF Spec
  <1>3. Spec => []CoverInv
    BY <1>2, TypeInvariant, CoverInit, CoverStep, PTL DEF Spec
  <1>4. Spec => []PhantomInv
    BY TypeInvariant, SourcedInvariant, PhantomInit, PhantomStep, PTL DEF Spec
  <1> QED
    BY <1>1, <1>2, <1>3, <1>4, TypeInvariant, SourcedInvariant, KnowInit, KnowStep, PTL DEF Spec
=============================================================================
