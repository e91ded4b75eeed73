---------------------------- MODULE ClassUsages -----------------------------
(***************************************************************************)
(* Who uses a class member (parser/state_class.go, state_definition.go,    *)
(* State.Postprocess, and the handlers of didOpen and didChange).          *)
(*                                                                         *)
(* Indexing a file finds, for each of its classes, the members it declares *)
(* and the uses its code and its template make of `this`.  A class also    *)
(* uses the members it inherits, so postprocessing a class resolves what   *)
(* it extends, takes its old uses out of every class above it and puts its *)
(* present uses there.  The diagnostics "Unused public variable",          *)
(* "Needlessly public variable" and "Angular property never used" read the *)
(* result.                                                                 *)
(*                                                                         *)
(* State.Postprocess runs one goroutine per file, one after the other      *)
(* unless the setting `concurrency` is on; they work on the definitions of *)
(* the same base classes, reading a definition and writing it back in two  *)
(* steps.  After it, only the scanner loop touches the classes, one        *)
(* handler at a time, so a handler is one action.                          *)
(*                                                                         *)
(* Each file holds one exported class (resolveIdents resolves imported     *)
(* names only), and classes extend without cycles.                         *)
(*                                                                         *)
(* Left out: edits whose index fails.  A text without an AST changes no    *)
(* class; but where the templateUrl names a file of an unknown type, or    *)
(* one deleted between the look and the reading, the class has been reset  *)
(* and nothing is postprocessed: its bases keep its former uses and it     *)
(* has lost those of the classes below, until the next edit that succeeds. *)
(* Neither NoPhantomUse nor EditRestoresBelow holds of such an edit.       *)
(***************************************************************************)
EXTENDS Integers, FiniteSets, FiniteSetsExt

CONSTANTS
    Classes, NoClass,
    Names,          \* names of members
    Sources,        \* per class, what its two files may say
    Declared,       \* per class, the names it declares
    InModule,       \* the components some NgModule declares
    Settings,       \* values of the setting `concurrency`
    MaxEdits        \* bound on the edits after the start

ConstructorAccess == 1
LocalAccess       == 2
TemplateAccess    == 3
Accesses == 1 .. 3

\* What the files of a class say: the class it extends, the uses in its
\* code and the uses in its template.
Source == [base : Classes \cup {NoClass},
           code : SUBSET (Names \X {ConstructorAccess, LocalAccess}),
           template : SUBSET (Names \X {TemplateAccess})]

ASSUME UsagesAssumption ==
    /\ NoClass \notin Classes
    /\ Names # {}
    /\ Sources \in [Classes -> SUBSET Source]
    /\ Declared \in [Classes -> SUBSET Names]
    /\ InModule \subseteq Classes
    /\ Settings \subseteq BOOLEAN
    /\ MaxEdits \in Nat
    /\ \E rank \in [Classes -> 1 .. Cardinality(Classes)] :  \* no cycles
          \A c \in Classes : \A text \in Sources[c] :
              text.base # NoClass => rank[text.base] < rank[c]

VARIABLES
    source,      \* the text of the files, as indexed last
    usages,      \* Class.Usages: pairs of a name and an access
    definitions, \* Class.Definitions: per name, UsageAccess and Usages
    extends,     \* Class.Extends, resolved
    pc,          \* the goroutines of State.Postprocess, one per class
    at,          \* the class whose Extends the goroutine follows
    clone,       \* what Definitions.All gave it
    left,        \* what is left to do at that class
    member, got,   \* the definition it has worked out and will write back
    crashed,     \* the Go runtime found two goroutines in one map
    open,        \* classes whose TypeScript file is open in the editor
    edits,       \* how many edits were handled
    concurrency  \* the setting

classVars == <<source, usages, definitions, extends>>
goVars    == <<pc, at, clone, left, member, got>>
vars      == <<classVars, goVars, crashed, open, edits, concurrency>>

Instance   == [class : Classes, access : Accesses]
Definition == [access : 0 .. 3, uses : SUBSET Instance]

NewDefinition == [access |-> 0, uses |-> {}]

-----------------------------------------------------------------------------
(* Operations on one definition.                                           *)

\* CalculateNewAccessType
NewAccess(new, old) == IF new > old THEN new ELSE old

\* A bug: accesses are added up instead of compared.
AppendedUnranked(def, added) ==
    [access |-> def.access + SumSet({u.access : u \in added}),
     uses   |-> def.uses \cup added]

\* A bug: the access of the definition stays as it was.
AppendedKeepsAccess(def, added) == [def EXCEPT !.uses = @ \cup added]

\* AppendDefinitionUsage, for the instances in added.
Appended(def, added) ==
    [access |-> Max({def.access} \cup {u.access : u \in added}),
     uses   |-> def.uses \cup added]

\* A bug: the uses of every class are removed.
FilteredOfAll(def, seen, class) == [def EXCEPT !.uses = {}]

\* removeUsagesFromClassUpwards keeps, of the uses it saw when it cloned the
\* map, those of other classes; the access it works out is that of a copy.
Filtered(def, seen, class) ==
    [def EXCEPT !.uses = {u \in seen.uses : u.class # class}]

\* DropTemplateUsages writes to each definition that the class itself uses
\* the class's own uses, without those of the template.
Dropped(def, class, own) ==
    LET kept == {a \in own : a # TemplateAccess}
    IN  IF own = {} THEN def
        ELSE [access |-> Max({0} \cup kept),
              uses   |-> {[class |-> class, access |-> a] : a \in kept}]

-----------------------------------------------------------------------------
(* Operations on the classes.                                              *)

\* The classes above each class, following Extends.
Above(ext) ==
    LET up[c \in Classes] == IF ext[c] = NoClass THEN {}
                             ELSE {ext[c]} \cup up[ext[c]]
    IN  up

\* The uses that class makes of name, as instances.
Instances(use, class, name) ==
    {[class |-> class, access |-> a] :
        a \in {b \in Accesses : <<name, b>> \in use[class]}}

\* parseClasses: the class is reset, its members are found and then its own
\* uses of them.
Indexed(use, class) ==
    [n \in Declared[class] |-> Appended(NewDefinition, Instances(use, class, n))]

UsesIn(text) == text.code \cup text.template

\* A bug: the old uses are not removed.
PostprocessedAdds(some, defs, ext, use) ==
    [a \in Classes |-> [n \in Declared[a] |->
        Appended(defs[a][n],
                 UNION {Instances(use, k, n) : k \in {j \in some : a \in Above(ext)[j]}})]]

\* A bug: uses go to the nearest class only.
PostprocessedNearest(some, defs, ext, use) ==
    [a \in Classes |-> [n \in Declared[a] |->
        LET under == {k \in some : a = ext[k]}
            kept  == [defs[a][n] EXCEPT !.uses = {u \in @ : u.class \notin under}]
        IN  Appended(kept, UNION {Instances(use, k, n) : k \in under})]]

\* Class.Postprocess of every class in some: each takes its own old uses out
\* of the classes above it and puts its present ones there.  The classes
\* write instances of their own only, so their order does not matter.
Postprocessed(some, defs, ext, use) ==
    [a \in Classes |-> [n \in Declared[a] |->
        LET under == {k \in some : a \in Above(ext)[k]}
            kept  == [defs[a][n] EXCEPT !.uses = {u \in @ : u.class \notin under}]
        IN  Appended(kept, UNION {Instances(use, k, n) : k \in under})]]

\* A bug: only the classes that extend it directly.
BelowDirectly(ext, class) == {k \in Classes : class = ext[k]}

\* GetExtendsHierarchy
Bases(ext, class) == {a \in Classes : a \in Above(ext)[class]}

\* DoesExtendOrImplement
Below(ext, class) == {k \in Classes : class \in Above(ext)[k]}

-----------------------------------------------------------------------------
Init ==
    /\ source \in {s \in [Classes -> UNION {Sources[c] : c \in Classes}] :
                        \A c \in Classes : s[c] \in Sources[c]}
    /\ usages = [c \in Classes |-> UsesIn(source[c])]
    /\ definitions = [c \in Classes |-> Indexed(usages, c)]
    /\ extends = [c \in Classes |-> NoClass]
    /\ pc = [c \in Classes |-> "ready"]
    /\ at = [c \in Classes |-> c]
    /\ clone = [c \in Classes |-> <<>>]
    /\ left = [c \in Classes |-> {}]
    /\ member = [c \in Classes |-> CHOOSE n \in Names : TRUE]
    /\ got = [c \in Classes |-> NewDefinition]
    /\ crashed = FALSE
    /\ open = {}
    /\ edits = 0
    /\ concurrency \in Settings

Running(k) == pc[k] \notin {"ready", "done"}
Serving == ~crashed /\ \A k \in Classes : pc[k] = "done"

\* State.Postprocess starts the goroutine of the next file, and waits for it
\* unless concurrency is on.
Spawn(k) ==
    /\ pc[k] = "ready"
    /\ concurrency \/ \A j \in Classes : ~Running(j)
    /\ pc' = [pc EXCEPT ![k] = "resolve"]
    /\ UNCHANGED <<classVars, at, clone, left, member, got, crashed, open, edits>>

\* resolveExtendsImplements
Resolve(k) ==
    /\ pc[k] = "resolve"
    /\ extends' = [extends EXCEPT ![k] = source[k].base]
    /\ pc' = [pc EXCEPT ![k] = "remove"]
    /\ UNCHANGED <<source, usages, definitions, at, clone, left, member, got, crashed, open, edits>>

\* removeUsagesFromClassUpwards goes to the next class above, if there is
\* one, and begins to clone its map of definitions, without the lock.
RemoveAbove(k) ==
    /\ pc[k] = "remove"
    /\ IF extends[at[k]] = NoClass
       THEN /\ pc' = [pc EXCEPT ![k] = "propagate"]
            /\ at' = [at EXCEPT ![k] = k]
       ELSE /\ pc' = [pc EXCEPT ![k] = "cloning"]
            /\ at' = [at EXCEPT ![k] = extends[at[k]]]
    /\ UNCHANGED <<classVars, clone, left, member, got, crashed, open, edits>>

\* Definitions.All: the clone is complete.
Cloned(k) ==
    /\ pc[k] = "cloning"
    /\ clone' = [clone EXCEPT ![k] = definitions[at[k]]]
    /\ left' = [left EXCEPT ![k] = Declared[at[k]]]
    /\ pc' = [pc EXCEPT ![k] = "removing"]
    /\ UNCHANGED <<classVars, at, member, got, crashed, open, edits>>

\* Definitions.Get in the loop over the clone, in the order of the map.
GetToRemove(k) ==
    /\ pc[k] = "removing" /\ left[k] # {}
    /\ \E n \in left[k] :
        /\ member' = [member EXCEPT ![k] = n]
        /\ got' = [got EXCEPT ![k] =
                      Filtered(definitions[at[k]][n], clone[k][n], k)]
        /\ left' = [left EXCEPT ![k] = @ \ {n}]
    /\ pc' = [pc EXCEPT ![k] = "write filtered"]
    /\ UNCHANGED <<classVars, at, clone, crashed, open, edits>>

\* Every definition of that class is done: its own Extends come next.
Removed(k) ==
    /\ pc[k] = "removing" /\ left[k] = {}
    /\ pc' = [pc EXCEPT ![k] = "remove"]
    /\ UNCHANGED <<classVars, at, clone, left, member, got, crashed, open, edits>>

\* propagateUsagesUpwards goes to the next class above, if there is one.
PropagateAbove(k) ==
    /\ pc[k] = "propagate"
    /\ LET above == extends[at[k]]
       IN  IF above = NoClass
           THEN pc' = [pc EXCEPT ![k] = "done"] /\ UNCHANGED <<at, left>>
           ELSE /\ pc' = [pc EXCEPT ![k] = "appending"]
                /\ at' = [at EXCEPT ![k] = above]
                /\ left' = [left EXCEPT ![k] =
                               {u \in usages[k] : u[1] \in Declared[above]}]
    /\ UNCHANGED <<classVars, clone, member, got, crashed, open, edits>>

\* AppendDefinitionUsage, up to its Get.
GetToAppend(k) ==
    /\ pc[k] = "appending" /\ left[k] # {}
    /\ \E u \in left[k] :
        /\ member' = [member EXCEPT ![k] = u[1]]
        /\ got' = [got EXCEPT ![k] =
              Appended(definitions[at[k]][u[1]], {[class |-> k, access |-> u[2]]})]
        /\ left' = [left EXCEPT ![k] = @ \ {u}]
    /\ pc' = [pc EXCEPT ![k] = "write appended"]
    /\ UNCHANGED <<classVars, at, clone, crashed, open, edits>>

Propagated(k) ==
    /\ pc[k] = "appending" /\ left[k] = {}
    /\ pc' = [pc EXCEPT ![k] = "propagate"]
    /\ UNCHANGED <<classVars, at, clone, left, member, got, crashed, open, edits>>

\* Definitions.Set.  It holds the lock of the definitions, which All does not
\* take: the runtime may find the map written during a clone and end the
\* process.
Set(k) ==
    /\ pc[k] \in {"write filtered", "write appended"}
    /\ definitions' = [definitions EXCEPT ![at[k]][member[k]] = got[k]]
    /\ pc' = [pc EXCEPT ![k] = IF @ = "write filtered" THEN "removing" ELSE "appending"]
    /\ \/ crashed' = crashed
       \/ (\E j \in Classes : pc[j] = "cloning" /\ at[j] = at[k]) /\ crashed' = TRUE
    /\ UNCHANGED <<source, usages, extends, at, clone, left, member, got, open, edits>>

-----------------------------------------------------------------------------
(* The handlers, once lspReady is set.                                     *)

\* didChange of the TypeScript file of class, or didOpen with version 0, which
\* keeps the text.  The class is reset, its Extends too, and indexed, which is
\* taken to succeed; then the classes below it are postprocessed, and it after
\* them.
EditCode(class, text) ==
    LET use    == [usages EXCEPT ![class] = UsesIn(text)]
        fresh  == [definitions EXCEPT ![class] = Indexed(use, class)]
        cut    == [extends EXCEPT ![class] = NoClass]
        joined == [extends EXCEPT ![class] = text.base]
        mended == Postprocessed(Below(cut, class), fresh, cut, use)
    IN  /\ source' = [source EXCEPT ![class] = text]
        /\ usages' = use
        /\ extends' = joined
        /\ definitions' = Postprocessed({class}, mended, joined, use)
        /\ open' = open \cup {class}

\* The same of its template.  DropTemplateUsages and extractPugUsages renew
\* the class's uses; then the class is postprocessed and, if a module
\* declares it, the classes above it.
EditTemplate(class, text) ==
    LET own(n)  == {a \in Accesses : <<n, a>> \in usages[class]}
        use     == [usages EXCEPT ![class] =
                      {u \in @ : u[2] # TemplateAccess} \cup text.template]
        dropped == [n \in Declared[class] |->
                      Dropped(definitions[class][n], class, own(n))]
        indexed == [n \in Declared[class] |->
                      Appended(dropped[n], {[class |-> class, access |-> u[2]] :
                                               u \in {v \in text.template : v[1] = n}})]
        again   == {class} \cup (IF class \in InModule THEN Bases(extends, class) ELSE {})
    IN  /\ text.base = source[class].base /\ text.code = source[class].code
        /\ source' = [source EXCEPT ![class] = text]
        /\ usages' = use
        /\ definitions' = Postprocessed(again, [definitions EXCEPT ![class] = indexed],
                                        extends, use)
        /\ UNCHANGED <<extends, open>>

Edit ==
    /\ Serving /\ edits < MaxEdits
    /\ edits' = edits + 1
    /\ \E class \in Classes : \E text \in Sources[class] :
        \/ text.template = source[class].template /\ EditCode(class, text)
        \/ EditTemplate(class, text)
    /\ UNCHANGED <<goVars, crashed>>

Goroutine(k) ==
    \/ Spawn(k) \/ Resolve(k)
    \/ RemoveAbove(k) \/ Cloned(k) \/ GetToRemove(k) \/ Removed(k)
    \/ PropagateAbove(k) \/ GetToAppend(k) \/ Propagated(k)
    \/ Set(k)

Next ==
    /\ (~crashed /\ \E k \in Classes : Goroutine(k)) \/ Edit
    /\ UNCHANGED concurrency

Spec == Init /\ [][Next]_vars

-----------------------------------------------------------------------------
(* Properties.                                                             *)

TypeOK ==
    /\ source \in [Classes -> Source]
    /\ usages \in [Classes -> SUBSET (Names \X Accesses)]
    /\ \A c \in Classes : definitions[c] \in [Declared[c] -> Definition]
    /\ extends \in [Classes -> Classes \cup {NoClass}]
    /\ pc \in [Classes -> {"ready", "resolve", "remove", "cloning", "removing",
                           "write filtered", "propagate", "appending",
                           "write appended", "done"}]
    /\ at \in [Classes -> Classes]
    /\ member \in [Classes -> Names]
    /\ got \in [Classes -> Definition]
    /\ crashed \in BOOLEAN
    /\ open \subseteq Classes
    /\ edits \in 0 .. MaxEdits
    /\ concurrency \in BOOLEAN

\* What a's definition of n knows of the uses class k makes of it.
Known(a, n, k) == {u \in definitions[a][n].uses : u.class = k}

\* With concurrency off the access of a definition covers each of its uses,
\* however goroutines and handlers take turns to write it: the diagnostics
\* read the two as one.  (With concurrency on three classes on one base are
\* enough to break it: one writes back a definition it read before another
\* raised the access, and the third pairs it with the uses it cloned between.)
AccessCoversUses ==
    ~concurrency =>
        \A c \in Classes : \A n \in Declared[c] :
            \A u \in definitions[c][n].uses : u.access <= definitions[c][n].access

\* A base class holds no use that the class extending it no longer makes,
\* nor does a class of itself, though goroutines race and edits follow.
NoPhantomUse ==
    Serving =>
        \A k \in Classes : \A a \in {k, source[k].base} \ {NoClass} :
            \A n \in Declared[a] : Known(a, n, k) \subseteq Instances(usages, k, n)

\* With concurrency off no goroutine meets another in a map.
OneAtATime == ~concurrency => ~crashed

\* With concurrency off, when the server begins to serve every base class
\* knows all the uses of the classes that extend it directly.
BaseKnowsAfterStart ==
    Serving /\ ~concurrency /\ edits = 0 =>
        \A k \in Classes : source[k].base # NoClass =>
            \A n \in Declared[source[k].base] :
                Known(source[k].base, n, k) = Instances(usages, k, n)

\* The step handles an edit that changes a file of class.
EditOf(class) == edits' # edits /\ source'[class] # source[class]

\* After an edit of a class every class above it, in the hierarchy as the
\* edit leaves it, knows exactly the uses the class now makes.
EditReachesAbove ==
    [][\A k \in Classes : EditOf(k) =>
          \A a \in Above(extends')[k] : \A n \in Declared[a] :
              Known(a, n, k)' = Instances(usages', k, n)]_vars

\* When a class is indexed anew from its code, all classes below it, near and
\* far, tell it their uses again: it begins with none of them.
CodeEdit(class) == edits' # edits /\ EditCode(class, source'[class])
EditRestoresBelow ==
    [][\A a \in Classes : CodeEdit(a) =>
          \A k \in {c \in Classes : a \in Above(extends')[c]} : \A n \in Declared[a] :
              Known(a, n, k)' = Instances(usages', k, n)]_vars

\* README.md:23 says "Detects when a class property needn't be public", and
\* analysis/unnecessary_public.go says so of a definition whose access is not
\* that of a template: no template of a class below may use it then.  Only
\* files that are open get diagnostics.
NeedlesslyPublic ==
    Serving =>
        \A a \in open : \A n \in Declared[a] :
            definitions[a][n].access # TemplateAccess =>
                \A k \in {c \in Classes : a \in Above(
                              [b \in Classes |-> source[b].base])[c]} :
                    <<n, TemplateAccess>> \notin usages[k]
=============================================================================
