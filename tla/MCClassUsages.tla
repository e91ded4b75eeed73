--------------------------- MODULE MCClassUsages ----------------------------
(***************************************************************************)
(* ClassUsages for TLC: a base A, a class B on it and a class C on either. *)
(* One goroutine at a time, edits may move B and C between bases; several  *)
(* at once, a third class D on A has them race for the definitions of A.   *)
(***************************************************************************)
EXTENDS ClassUsages, TLC

CONSTANTS A, B, C, D

Code == Names \X {LocalAccess}
Template == Names \X {TemplateAccess}

Texts(bases) == [base : bases, code : SUBSET Code, template : SUBSET Template]
Templates(bases) == [base : bases, code : {{}}, template : SUBSET Template]

MCDeclared == [c \in Classes |-> IF c \in {A, B} THEN Names ELSE {}]

FixedSources == (A :> Texts({NoClass})) @@ (B :> Texts({A})) @@ (C :> Texts({A, B}))

\* An edit may take B off its base, or put it back.
EditSources == (A :> Texts({NoClass})) @@ (B :> Texts({NoClass, A})) @@ (C :> Texts({A, B}))
               @@ (D :> [base : {NoClass}, code : {{}}, template : {{}}])

\* A has three goroutines on its definitions.
RaceSources == (A :> Templates({NoClass})) @@ (B :> Templates({A}))
               @@ (C :> Templates({A, B})) @@ (D :> Templates({A}))

AllSources == [c \in {A, B, C, D} |-> EditSources[c] \cup RaceSources[c]]

SourcesOf(setting) == IF setting THEN RaceSources ELSE EditSources

MCInit ==
    /\ Init
    /\ \A c \in Classes : source[c] \in SourcesOf(concurrency)[c]

\* With concurrency one edit follows; without it two do, and D, which extends
\* nothing, comes last.
MCNext ==
    /\ Next
    /\ \A c \in Classes : source'[c] \in SourcesOf(concurrency)[c]
    /\ concurrency => edits' <= 1
    /\ pc'[D] # pc[D] /\ ~concurrency => \A c \in Classes \ {D} : pc[c] = "done"

MCSpec == MCInit /\ [][MCNext]_vars
=============================================================================
