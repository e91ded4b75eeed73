--------------------------- MODULE ProviderRoutes ---------------------------
(***************************************************************************)
(* "Calculate all providers" (commands/printProviders.go, and              *)
(* GetAllProvidedValues and findProviderRoutes* in parser/state_class.go), *)
(* beside the edits and questions of AngularThings.                        *)
(*                                                                         *)
(* From a component the command follows who uses it in a template, which   *)
(* module declares it and which module imports that module, up to classes  *)
(* nobody uses, and keeps each way there as a route; the providers of the  *)
(* classes on the routes are printed.  The walk is recursive: a frame is   *)
(* one call of findProviderRoutes.  Places come in the order of a map.     *)
(*                                                                         *)
(* A route is a Go slice: an array, and how much of it is in use.  Append  *)
(* writes into the array while there is room and moves to one of twice the *)
(* size when there is none, so routes may share an array.                  *)
(*                                                                         *)
(* The command is one handler; it changes nothing of AngularThings, which  *)
(* waits meanwhile.  The routes are what is modelled: of the providers on  *)
(* one, those with the token of an earlier one are dropped, and an element *)
(* of a module's `providers` that is not read as a provider (a spread, a   *)
(* call) is kept as nil, with which the command panics once a route goes   *)
(* through that module, and prints nothing.                                *)
(***************************************************************************)
EXTENDS AngularThings, Sequences

\* The files of a project, and so its classes, can be counted.
ASSUME RoutesAssumption == IsFiniteSet(Classes)

VARIABLES
    stack,   \* the calls under way, the outermost first
    visited, \* the classes that some call has begun with
    routes,  \* the slices found so far, by calls that have found any
    arrays   \* the arrays behind the slices

walk == <<stack, visited, routes, arrays>>
allVars == <<vars, walk>>

-----------------------------------------------------------------------------
(* Slices.                                                                 *)

Slice == [array : Nat, len : Nat]
NoPath == [array |-> 0, len |-> 0]

Contents(s) == SubSeq(arrays[s.array], 1, s.len)
Room(s) == IF s.array = 0 THEN 0 ELSE Len(arrays[s.array])

\* A bug: paths are made with room for eight classes.
AppendedRoomy(s, class) ==
    IF s.array # 0
    THEN [slice  |-> [s EXCEPT !.len = @ + 1],
          arrays |-> [arrays EXCEPT ![s.array][s.len + 1] = class]]
    ELSE [slice  |-> [array |-> Len(arrays) + 1, len |-> 1],
          arrays |-> Append(arrays, [i \in 1 .. 8 |-> IF i = 1 THEN class ELSE None])]

\* append: the slice and the arrays after it.
Appended(s, class) ==
    IF s.len < Room(s)
    THEN [slice  |-> [s EXCEPT !.len = @ + 1],
          arrays |-> [arrays EXCEPT ![s.array][s.len + 1] = class]]
    ELSE LET size == IF s.len = 0 THEN 1 ELSE 2 * s.len
             new  == [i \in 1 .. size |-> IF i <= s.len THEN arrays[s.array][i]
                                          ELSE IF i = s.len + 1 THEN class ELSE None]
         IN  [slice  |-> [array |-> Len(arrays) + 1, len |-> s.len + 1],
              arrays |-> Append(arrays, new)]

-----------------------------------------------------------------------------
(* Where the walk goes from a class.                                       *)

\* FindPlacesThatUseThisClassComponent
Users(c) == {k \in Components : c \in source[k].tags}

\* FindPlacesThatDeclareThisClassComponent
Declarers(c) == {m \in Modules : c \in Listed(m)}

\* FindModulesThatAngularImportThisClass.  DoesImport compares classes and
\* resolves no reference: imports that no question about available things
\* has resolved yet are not found.
Importers(m) == {k \in resolved : m \in source[k].imports}

\* The first loop of a call; a component that nobody uses has no loop.
Places(class) == IF class \in Modules THEN Importers(class) ELSE Users(class)

Frame(class, path, todo, declarers) ==
    [class |-> class, path |-> path, todo |-> todo,
     declarers |-> declarers,     \* the second loop is still to come
     found |-> Len(routes)]       \* the routes there were before

Top == stack[Len(stack)]
Below == SubSeq(stack, 1, Len(stack) - 1)

Walking == stack # <<>>

\* GetAllProvidedValues of c, which is not entered in visited itself.
Start(c) ==
    /\ Idle /\ ~Walking
    /\ stack' = <<Frame(c, NoPath, Users(c), TRUE)>>
    /\ visited' = {} /\ arrays' = <<>>
    /\ UNCHANGED <<vars, routes>>

\* One turn of a loop: the class is appended to the path and the next class
\* is looked at.  If it is new, it ends the route, or its own places follow.
Visit(next) ==
    /\ Walking /\ next \in Top.todo
    /\ LET f     == Top
           path  == Appended(f.path, f.class)
           turned == Append(Below, [f EXCEPT !.todo = @ \ {next}])
       IN  IF next \in visited
           THEN /\ stack' = turned
                /\ arrays' = path.arrays
                /\ UNCHANGED <<visited, routes>>
           ELSE /\ visited' = visited \cup {next}
                /\ stack' = Append(turned, Frame(next, path.slice, Places(next),
                                                 next \in Components /\ Users(next) # {}))
                /\ arrays' = path.arrays
                /\ UNCHANGED routes
    /\ UNCHANGED vars

\* The second loop of a component: the modules that declare it.
TurnToDeclarers ==
    /\ Walking /\ Top.todo = {} /\ Top.declarers
    /\ stack' = Append(Below, [Top EXCEPT !.todo = Declarers(Top.class), !.declarers = FALSE])
    /\ UNCHANGED <<vars, visited, routes, arrays>>

\* A bug: a module all of whose importers were met before is left out.
EndsRouteUnvisited(f) == Places(f.class) = {}

\* The call found no route of its own: of a module, or of a component that
\* nobody uses, the path to it is one.
EndsRoute(f) ==
    IF f.class \in Modules THEN Len(routes) = f.found ELSE Users(f.class) = {}

Return ==
    /\ Len(stack) > 1 /\ Top.todo = {} /\ ~Top.declarers
    /\ stack' = Below
    /\ IF EndsRoute(Top)
       THEN LET path == Appended(Top.path, Top.class)
            IN  routes' = Append(routes, path.slice) /\ arrays' = path.arrays
       ELSE UNCHANGED <<routes, arrays>>
    /\ UNCHANGED <<vars, visited>>

\* The providers on the routes are printed, or the command panics at one that is
\* nil; in either way the walk is over.
PrintProviders ==
    /\ Len(stack) = 1 /\ Top.todo = {} /\ ~Top.declarers
    /\ stack' = <<>> /\ routes' = <<>> /\ arrays' = <<>> /\ visited' = {}
    /\ UNCHANGED vars

InitAll == Init /\ stack = <<>> /\ visited = {} /\ routes = <<>> /\ arrays = <<>>

NextAll ==
    \/ ~Walking /\ Next /\ UNCHANGED walk
    \/ \E c \in Components : Start(c)
    \/ \E k \in Classes : Visit(k)
    \/ TurnToDeclarers \/ Return \/ PrintProviders

SpecAll == InitAll /\ [][NextAll]_allVars
-----------------------------------------------------------------------------
(* Properties.                                                             *)

Complete == Len(stack) = 1 /\ Top.todo = {} /\ ~Top.declarers

OnRoutes == UNION {{Contents(routes[i])[j] : j \in 1 .. routes[i].len} : i \in 1 .. Len(routes)}

\* The class b is where the walk goes from a.
Link(a, b) == b \in Places(a) \/ (a \in Components /\ b \in Declarers(a))

\* Every route begins with the component asked about and each further class
\* uses, declares or imports the one before, though later turns of the loops
\* write into arrays that the route may share.  (From eight classes on they
\* do write over it.)
RoutesFollowLinks ==
    \A i \in 1 .. Len(routes) : routes[i].len < 8 =>
        LET way == Contents(routes[i])
        IN  /\ way[1] = stack[1].class
            /\ \A j \in 1 .. Len(way) - 1 : Link(way[j], way[j + 1])

\* What can be reached from c in steps of up, in at least one step.
Ascent(c, up(_)) ==
    LET within[n \in 0 .. Cardinality(Classes)] ==
          IF n = 0 THEN up(c)
          ELSE LET before == within[n - 1] IN before \cup UNION {up(a) : a \in before}
    IN  within[Cardinality(Classes)]

\* The classes that the walk can reach from c.
Reachable(c) ==
    LET up(a) == IF a \in Modules THEN Importers(a)
                 ELSE IF a # c /\ Users(a) = {} THEN {} ELSE Users(a) \cup Declarers(a)
    IN  Ascent(c, up)

\* The providers of each module that can be reached are printed, in whatever
\* order the places come and though the walk enters a class once only and
\* one way to it may end where another has been.  (Components can be left
\* out so.  Of routes with seven classes or more that share an array, the
\* last written takes the place of the others.)
ModulesReported ==
    Complete /\ (\A i \in 1 .. Len(routes) : routes[i].len < 7) =>
        Reachable(stack[1].class) \cap Modules \subseteq OnRoutes
=============================================================================
