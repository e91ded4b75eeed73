----------------------------- MODULE MCAngular ------------------------------
(***************************************************************************)
(* AngularThings and ProviderRoutes for TLC: two components, three modules *)
(* and a directive, and components nested deep enough for routes to share  *)
(* an array.                                                               *)
(***************************************************************************)
EXTENDS ProviderRoutes, TLC

CONSTANTS A, B, D, M1, M2, M3, K1, K2, K3, K4, K5, K6, K7, K8, K9, K10, X

Module(declared, spread, imports, exports) ==
    [lists |-> TRUE, declared |-> declared, spread |-> spread, borrows |-> {},
     imports |-> imports, exports |-> exports]
Borrowing(text, a) == [text EXCEPT !.borrows = {a}]
NoList(imports) == [Module({}, {}, imports, {}) EXCEPT !.lists = FALSE]
Component(imports, tags) == [imports |-> imports, tags |-> tags]

\* M1 declares A and perhaps B, by an array of X maybe, and imports M2, M2 passes M3 on, M3 the
\* directive D; M3 may export M2 in turn.
ModuleTexts ==
    (M1 :> {Module({A}, {B}, {M2}, {}), Module({A, B}, {}, {M2}, {}), NoList({M2}),
            Borrowing(Module({A}, {}, {M2}, {}), X)})
    @@ (M2 :> {Module({B}, {}, {M1}, {M3}), Module({}, {}, {}, {M3, D})})
    @@ (M3 :> {Module({}, {}, {}, {D}), Module({}, {}, {D}, {}), Module({}, {}, {}, {M2})})

ComponentTexts ==
    (A :> {Component({}, {}), Component({M3}, {})})
    @@ (B :> {Component({}, {A}), Component({}, {})})

\* Components nested in each other's templates, K2 in two of them and K7.
NestedIn(k, n) == k :> {Component({}, {n})}
NestedTexts ==
    (K1 :> {Component({}, {})}) @@ NestedIn(K2, K1) @@ NestedIn(K3, K2) @@ NestedIn(K4, K2)
    @@ NestedIn(K5, K3) @@ NestedIn(K6, K5) @@ NestedIn(K7, K6) @@ NestedIn(K8, K7)
    @@ NestedIn(K9, K7) @@ NestedIn(K10, K8)

MCArrayTexts == X :> {{}, {B}}

MCSources == ModuleTexts @@ ComponentTexts @@ NestedTexts

MCProjects ==
    {(M1 :> m1) @@ (M2 :> m2) @@ (M3 :> m3) @@ (A :> a) @@ (B :> b)
        @@ [k \in DOMAIN NestedTexts |-> CHOOSE text \in NestedTexts[k] : TRUE] :
            m1 \in MCSources[M1], m2 \in MCSources[M2], m3 \in MCSources[M3],
            a \in MCSources[A], b \in MCSources[B]}

\* Edits and questions are about A, B and the modules.  The walk up the nest
\* does not depend on them.
MCNext ==
    /\ NextAll
    /\ answer' # answer /\ answer' # None => answer'.of \in {A, B}
    /\ stack = <<>> /\ stack' # <<>> =>
          stack'[1].class \in IF edits = 0 /\ answer = None THEN {A, B, K1} ELSE {A, B}
    /\ edits' # edits => source' # source \/ elements' # elements \/ analysing' # analysing
MCSpec == InitAll /\ [][MCNext]_allVars
=============================================================================
