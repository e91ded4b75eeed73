-------------------------- MODULE MCDocumentStore ---------------------------
(***************************************************************************)
(* DocumentStore for TLC.  With the parallel index two components may show *)
(* one template; without it one component may show either of two, or, in a *)
(* scene with more notifications, two show one and texts cannot be indexed.*)
(***************************************************************************)
EXTENDS DocumentStore, TLC

CONSTANTS
    c, d, list, form, showsList, showsForm, plain, garbled, foreign,
    MaxInOtherScenes     \* notifications where no index fails

MCNames == (showsList :> list) @@ (showsForm :> form) @@ (plain :> None) @@ (Empty :> None)
           @@ (garbled :> None) @@ (foreign :> None)

InUse      == IF parallel THEN {c, d, list} ELSE {c, list, form}
TextsInUse == {Empty, showsList, IF parallel THEN plain ELSE showsForm}

\* The other files are not there.
InUseOnly ==
    \A f \in Files : IF f \in InUse THEN disk[f] \in TextsInUse \cup {None}
                     ELSE disk[f] = None

\* Two components on one template, one after the other, in which the index of
\* their texts fails at times; nothing is closed or saved.
FailingScene ==
    ~parallel /\ disk = (c :> showsList) @@ (d :> showsList) @@ (list :> plain) @@ (form :> None)

Failing == ~parallel /\ disk[d] # None

TextsOf(f) == CASE ~Failing -> IF f \in InUse THEN TextsInUse ELSE {}
                [] f = list -> {plain, showsList}
                [] f = form -> {}
                [] OTHER    -> {showsList, garbled, foreign}

MCNext ==
    /\ Next
    /\ \A f \in Files : editor'[f] # editor[f] => editor'[f].text \in TextsOf(f)
    /\ IF Failing
       THEN disk' = disk /\ \A f \in Files : editor'[f] # editor[f] => editor'[f].open
       ELSE sent' <= MaxInOtherScenes

MCInit == Init /\ (InUseOnly \/ FailingScene)

MCSpec == MCInit /\ [][MCNext]_vars
=============================================================================
