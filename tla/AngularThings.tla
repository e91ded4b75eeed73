--------------------------- MODULE AngularThings ----------------------------
(***************************************************************************)
(* What a component's template may use (parser/state_angular.go, the part  *)
(* of state_class.go and state_file.go that resets and postprocesses it).  *)
(*                                                                         *)
(* An NgModule declares components, directives and pipes ("things"),       *)
(* imports modules and exports things and modules.  A component may use    *)
(* what the modules that declare it declare or import, and what it imports *)
(* itself.  Postprocessing a module tells the components it declares;      *)
(* completion, hover, type checking and some analysers then ask for the    *)
(* available things, which are worked out anew or, with the setting        *)
(* ExperimentalThingCaching, taken from what an earlier question left.     *)
(*                                                                         *)
(* After the start one handler at a time runs to its end.                  *)
(*                                                                         *)
(* A list of declarations may spread an array.  One in the module's own    *)
(* file is indexed with it; one in another file is a Variable that the     *)
(* module's reference, once resolved, keeps, though an edit of that file   *)
(* makes a new one.                                                        *)
(*                                                                         *)
(* Left out: inheritance (ClassUsages), references that cannot be          *)
(* resolved, edits whose index fails, imports or exports written as a      *)
(* spread, and classes in a file whose array is spread elsewhere.          *)
(***************************************************************************)
EXTENDS Naturals, FiniteSets

CONSTANTS
    Modules, Components,
    Directives,              \* directives, and pipes, which are alike here
    Sources,                 \* per module or component, what its files may say
    ArrayFiles,              \* other files, with an array each
    ArrayTexts,              \* per such file, the classes that may stand in it
    Projects,                \* what all the files say when the server starts
    None, Endless, Panicked,
    Settings,                \* values of ExperimentalThingCaching
    MaxEdits                 \* bound on the edits after the start

Things  == Components \cup Directives
Classes == Things \cup Modules
Edited  == Components \cup Modules

\* A decorator of a module: has it a list of declarations, the names that
\* stand in the list, those that come by an array of the same file spread into
\* it, and the files whose arrays are.  A component's decorator, and the
\* components whose tags its template has.
ModuleSource == [lists : BOOLEAN, declared : SUBSET Classes, spread : SUBSET Classes,
                 borrows : SUBSET ArrayFiles, imports : SUBSET Classes, exports : SUBSET Classes]
ComponentSource == [imports : SUBSET Classes, tags : SUBSET Components]

ASSUME AngularAssumption ==
    /\ Components \cap Modules = {} /\ Directives \cap (Components \cup Modules) = {}
    /\ IsFiniteSet(Modules)
    /\ Sources \in [Edited -> SUBSET (ModuleSource \cup ComponentSource)]
    /\ \A m \in Modules : \A text \in Sources[m] :
          /\ text \in ModuleSource
          /\ ~text.lists => text.declared \cup text.spread = {} /\ text.borrows = {}
    /\ ArrayTexts \in [ArrayFiles -> SUBSET SUBSET Classes]
    /\ \A c \in Components : Sources[c] \subseteq ComponentSource
    /\ Projects \subseteq [Edited -> ModuleSource \cup ComponentSource]
    /\ \A project \in Projects : \A k \in Edited : project[k] \in Sources[k]
    /\ None \notin Components
    /\ \A some \in SUBSET Things : None # some /\ Endless # some /\ Panicked # some
    /\ Settings \subseteq BOOLEAN
    /\ MaxEdits \in Nat

VARIABLES
    source,     \* what the files say, as indexed last
    elements,   \* what the arrays of other files say, as indexed last
    held,       \* per module, what the arrays it borrows said when its own
                \* file was indexed
    declaredIn, \* Component.DeclaredIn
    things,     \* Component.things, or None
    exported,   \* Module.exportedThings, or None
    resolved,   \* modules whose Imports have been resolved to classes
    left,       \* classes that State.Postprocess has not reached
    analysing,  \* a component whose template's diagnostics are being made
    answer,     \* the last question: whose, what it got, and was it the first
                \* since a handler reset the component's own cache
    caching,    \* the setting
    ended,      \* the stack overflowed and the process is gone
    edits       \* how many edits were handled

caches == <<things, exported>>
vars == <<source, elements, held, declaredIn, things, exported, resolved, left, analysing,
          answer, caching, ended, edits>>

-----------------------------------------------------------------------------
(* Module.GetExportedThings and its callers.                               *)

\* What the arrays that m borrows say, and the list as m's references have it.
Borrowed(m) == UNION {elements[a] : a \in source[m].borrows}
Listed(m) == source[m].declared \cup source[m].spread \cup held[m]

Cached(m) == caching /\ exported[m] # None

\* A bug: imports are passed on as if they were exported.
PassedOnWithImports(m) == source[m].exports \cup source[m].imports

PassedOn(m) == source[m].exports

\* GetExportedThings, calls nested at most n deep: Endless stands for more.
ExportedWithin ==
    LET below[n \in 0 .. Cardinality(Modules)] ==
          [m \in Modules |->
              IF Cached(m) THEN exported[m]
              ELSE IF n = 0 THEN Endless
              ELSE LET inner == {below[n - 1][k] : k \in PassedOn(m) \cap Modules}
                   IN  IF Endless \in inner THEN Endless
                       ELSE (PassedOn(m) \cap Things) \cup UNION inner]
    IN  below

\* Calls nested deeper than there are modules come back to one of them.
Exported(m) == ExportedWithin[Cardinality(Modules)][m]

\* The modules that GetExportedThings goes to, asked about those in roots.
Walked(roots) ==
    LET within[n \in 0 .. Cardinality(Modules)] ==
          IF n = 0 THEN roots
          ELSE LET before == within[n - 1]
               IN  before \cup UNION {PassedOn(m) \cap Modules : m \in {k \in before : ~Cached(k)}}
    IN  within[Cardinality(Modules)]

\* GetDeclaredThings looks at the names in the list only, not into a spread.
Named(m) == source[m].declared

\* What a component gathers classes from: the names of the modules that
\* declare it, their imports, and its own imports.
GatheredFrom(c, some) ==
    (UNION {Named(m) \cup source[m].imports : m \in some}) \cup source[c].imports

\* Things stand for themselves, modules for what they export.
Gathered(names) ==
    (names \cap Things) \cup UNION {Exported(m) : m \in names \cap Modules}

-----------------------------------------------------------------------------
Init ==
    /\ source \in Projects
    /\ elements \in [ArrayFiles -> UNION {ArrayTexts[a] : a \in ArrayFiles}]
    /\ \A a \in ArrayFiles : elements[a] \in ArrayTexts[a]
    /\ held = [m \in Modules |-> Borrowed(m)]
    /\ declaredIn = [c \in Components |-> {}]
    /\ things = [c \in Components |-> None]
    /\ exported = [m \in Modules |-> None]
    /\ resolved = {}
    /\ left = Modules
    /\ analysing = None
    /\ answer = None
    /\ caching \in Settings
    /\ ended = FALSE
    /\ edits = 0

Serving == left = {} /\ ~ended
Idle    == Serving /\ analysing = None

\* A bug: a module that is postprocessed tells the components named in its
\* list, but not those spread into it.
ToldNamed(declared, some) ==
    [c \in Components |-> declared[c] \cup {m \in some : c \in source'[m].declared}]

\* Module.Postprocess of some modules, read from the lists as they now are.
\* Nothing takes a module out of DeclaredIn again.
Told(declared, some) ==
    [c \in Components |-> declared[c] \cup {m \in some : c \in Listed(m)'}]

\* File.Postprocess at the start, in the order of a map.
PostprocessFile(m) ==
    /\ m \in left
    /\ left' = left \ {m}
    /\ UNCHANGED <<source, elements, held, things, exported, resolved, analysing, answer,
                   caching, ended, edits>>
    /\ declaredIn' = Told(declaredIn, {m})

-----------------------------------------------------------------------------
(* The handlers of edits.                                                  *)

\* A bug: the class is indexed and only its own file postprocessed.
DependenciesNone(k) == {}

\* GetDependencies: the modules that list the class.
Dependencies(k) == {m \in Modules : k \in Listed(m)'}

\* File.Postprocess resets what the classes of the file have cached.
ResetThings(some) ==
    /\ things' = [c \in Components |-> IF c \in some THEN None ELSE things[c]]
    /\ exported' = [m \in Modules |-> IF m \in some THEN None ELSE exported[m]]

Edit ==
    /\ Idle /\ edits < MaxEdits
    /\ edits' = edits + 1
    /\ answer' = None
    /\ UNCHANGED <<left, caching, ended>>

\* didChange of a module's file.  Class.Reset drops what the decorator said.
\* Of the new references GetDependencies resolves those of the declarations.
EditModule(m) ==
    /\ Edit
    /\ UNCHANGED elements
    /\ \E text \in Sources[m] : source' = [source EXCEPT ![m] = text]
    /\ held' = [held EXCEPT ![m] = Borrowed(m)']
    /\ resolved' = resolved \ {m}
    /\ LET again == {m} \cup Dependencies(m)
       IN  declaredIn' = Told(declaredIn, again \cap Modules) /\ ResetThings(again)
    /\ UNCHANGED analysing

\* didChange of a component's own file; the components it is declared with
\* are postprocessed no more than those elsewhere.
EditComponent(c) ==
    /\ Edit
    /\ \E text \in Sources[c] :
          text.tags = source[c].tags /\ source' = [source EXCEPT ![c] = text]
    /\ UNCHANGED <<elements, held>>
    /\ LET again == Dependencies(c)
       IN  /\ declaredIn' = Told([declaredIn EXCEPT ![c] = {}], again)
           /\ ResetThings({c} \cup again)
    /\ UNCHANGED <<resolved, analysing>>

\* didOpen or didChange of its template, which the component's file and the
\* modules that declare it depend on.  The analysers then ask, if anything
\* in the template makes them.
EditTemplate(c) ==
    /\ Edit
    /\ \E text \in Sources[c] :
          text.imports = source[c].imports /\ source' = [source EXCEPT ![c] = text]
    /\ UNCHANGED <<elements, held>>
    /\ LET again == Dependencies(c)
       IN  declaredIn' = Told(declaredIn, again) /\ ResetThings({c} \cup again)
    /\ analysing' \in {None, c}
    /\ UNCHANGED resolved

\* didChange of a file with an array that modules borrow.  GetDependencies
\* leads to none of them, and their references keep the former Variable.
EditArray(a) ==
    /\ Edit
    /\ \E text \in ArrayTexts[a] : elements' = [elements EXCEPT ![a] = text]
    /\ UNCHANGED <<source, held, declaredIn, caches, resolved, analysing>>

-----------------------------------------------------------------------------
(* Component.GetAvailableThings.                                           *)

Answer(c, got) == answer' = [of |-> c, got |-> got, first |-> things[c] = None]

\* It has been worked out before.
AnswerCached(c) ==
    /\ caching /\ things[c] # None
    /\ Answer(c, things[c])
    /\ UNCHANGED <<caches, resolved, ended>>

\* GetExportedThings leaves its result with every module it went to.
KeepExported(roots) ==
    exported' = [m \in Modules |->
        IF m \in Walked(roots) /\ ~Cached(m) THEN Exported(m) ELSE exported[m]]

\* The walk comes to its end, or never does.
AnswerAnew(c) ==
    /\ ~(caching /\ things[c] # None)
    /\ \A m \in declaredIn[c] : source[m].lists
    /\ LET names == GatheredFrom(c, declaredIn[c])
           roots == names \cap Modules
       IN  IF \E m \in roots : Exported(m) = Endless
           THEN /\ ended' = TRUE
                /\ UNCHANGED <<caches, resolved, answer>>
           ELSE /\ things' = [things EXCEPT ![c] = Gathered(names)]
                /\ KeepExported(roots)
                /\ resolved' = resolved \cup declaredIn[c]
                /\ Answer(c, Gathered(names))
                /\ UNCHANGED ended

\* A module in DeclaredIn has no list of declarations any more: the handler
\* panics there, after it has asked some of the others.
AnswerPanics(c) ==
    /\ ~(caching /\ things[c] # None)
    /\ \E m \in declaredIn[c] : ~source[m].lists
    /\ \E before \in SUBSET {m \in declaredIn[c] : source[m].lists} :
          LET roots == (UNION {Named(m) \cup source[m].imports : m \in before}) \cap Modules
          IN  IF \E m \in roots : Exported(m) = Endless
              THEN /\ ended' = TRUE
                   /\ UNCHANGED <<caches, resolved, answer>>
              ELSE /\ KeepExported(roots)
                   /\ resolved' = resolved \cup before
                   /\ Answer(c, Panicked)
                   /\ UNCHANGED <<things, ended>>

\* A question of a feature's handler, or of the analysers.
Ask(c) ==
    /\ Serving /\ analysing \in {None, c}
    /\ AnswerCached(c) \/ AnswerAnew(c) \/ AnswerPanics(c)
    /\ analysing' = None
    /\ UNCHANGED <<source, elements, held, declaredIn, left, caching, edits>>

-----------------------------------------------------------------------------
Next ==
    \/ \E m \in Modules : PostprocessFile(m) \/ EditModule(m)
    \/ \E c \in Components : EditComponent(c) \/ EditTemplate(c) \/ Ask(c)
    \/ \E a \in ArrayFiles : EditArray(a)

Spec == Init /\ [][Next]_vars

-----------------------------------------------------------------------------
(* Properties.                                                             *)

\* An array that m borrows was edited since m's file was indexed.
Behind(m) == held[m] # Borrowed(m)

\* What m declares, without the arrays of other files if it is behind.
Declared(m) ==
    source[m].declared \cup source[m].spread \cup (IF Behind(m) THEN {} ELSE Borrowed(m))

\* Once the start is over, every component knows all the modules that declare
\* it, by name, by an array of their own file or by one of another file that
\* was not edited after theirs, though each index of the component forgets
\* them and each module tells it at a time of its own.  (A component added to
\* an array of another file is not told before the module's own file is
\* edited.)  Navigation, provider routes and everything a template may use
\* begin with them.
DeclaringModulesKnown ==
    \A m \in Modules \ left : \A c \in Components : c \in Declared(m) => m \in declaredIn[c]

\* What GetExportedThings stands for, without walks: a thing is exported by
\* a module if a chain of exports leads to it.
Chain(m) ==
    LET far[n \in 0 .. Cardinality(Modules)] ==
          IF n = 0 THEN {m}
          ELSE LET before == far[n - 1]
               IN  before \cup UNION {source[k].exports \cap Modules : k \in before}
    IN  far[Cardinality(Modules)]
Usable(names) ==
    (names \cap Things) \cup
        ((UNION {UNION {source[k].exports : k \in Chain(m)} : m \in names \cap Modules}) \cap Things)

\* The step answers a question about c.
Answers(c) == answer' # None /\ answer'.of = c /\ answer' # answer

\* The list of m names all that it declares.
NamesAll(m) == source[m].spread = {} /\ source[m].borrows = {}

\* Without the cache the answer is what Angular allows the template: nothing
\* of a module far away is missed or stale, as long as the modules the
\* component knows still declare it and name what they declare.  (A module
\* that no longer does stays in DeclaredIn until the component's own file is
\* edited; an array spread into the declarations is not looked into.)
AnswersRight ==
    [][~caching => \A c \in Components : Answers(c) =>
          LET mine == {m \in Modules : c \in Declared(m)}
          IN  declaredIn[c] = mine /\ (\A m \in mine : NamesAll(m)) =>
                 answer'.got =
                    Usable((UNION {source[m].declared \cup source[m].imports : m \in mine})
                              \cup source[c].imports)]_vars

\* With the cache as without it, the first answer after an edit of the
\* component or its template has what the modules that declare it name and
\* what it and they import directly: only what further modules export may be
\* stale.  (Declared by an array of another file: see DeclaringModulesKnown.)
EditedSeesOwn ==
    [][\A c \in Components : Answers(c) /\ answer'.first /\ answer'.got # Panicked =>
          \A m \in {k \in Modules : c \in Declared(k)} :
              (source[m].declared \cup source[m].imports \cup source[c].imports) \cap Things
                  \subseteq answer'.got]_vars

\* A question overflows the stack only when modules export each other in a
\* circle.
EndsOnlyOnCycle ==
    ended => \E m \in Modules : \E k \in source[m].exports \cap Modules : m \in Chain(k)
=============================================================================
