--------------------------- MODULE DocumentStore ----------------------------
(***************************************************************************)
(* The server's copy of the documents (parser/state_file.go,               *)
(* walk_typescript.go, walk_pug.go, lspHandleInitialise.go and the         *)
(* handlers of didOpen and didChange).                                     *)
(*                                                                         *)
(* State.files maps a filename to a File, an object behind a pointer that  *)
(* holds the text, its version and the classes found in it.  A component   *)
(* names a template; its Class keeps a pointer to the template's File and  *)
(* the uses found in its text.  The initial index makes the objects, a     *)
(* goroutine per file when `experimentalParallelInitialIndexing` is on;    *)
(* looking a file up and entering it are two steps.  Afterwards one        *)
(* handler at a time runs to its end, so a handler is one action.          *)
(*                                                                         *)
(* Left out: base classes and modules, which add further dependencies      *)
(* (ClassUsages has the former), the calls to tsgo (TsGoClient), and a     *)
(* file that is deleted between the test that it exists and its reading.   *)
(* A component's file holds one class, always of the same name, or none.   *)
(***************************************************************************)
EXTENDS Naturals, Sequences

CONSTANTS
    Components, Templates,   \* the files
    Texts, Empty,            \* what a file may say; Empty says nothing
    Garbled,                 \* texts that no AST can be built of
    Foreign,                 \* texts whose template is of no known type
    Names,                   \* per text, the template it names or None
    None,
    Settings,                \* values of experimentalParallelInitialIndexing
    OpenVersion,             \* the version an editor gives an opened document
    MaxMessages              \* bound on the notifications

Files == Components \cup Templates

ASSUME DocumentAssumption ==
    /\ Components \cap Templates = {}
    /\ None \notin Files \cup Texts \cup (Files \X Files)
    /\ Empty \in Texts
    /\ Garbled \cup Foreign \subseteq Texts \ {Empty}
    /\ Names \in [Texts -> Templates \cup {None}]
    /\ \A text \in Garbled \cup Foreign \cup {Empty} : Names[text] = None
    /\ Settings \subseteq BOOLEAN
    /\ OpenVersion \in Nat
    /\ MaxMessages \in Nat

VARIABLES
    disk,       \* the text of each file on disk, or None
    editor,     \* per file: is it open, its text, version, and if it changed
    inbox,      \* notifications not handled yet
    sent,       \* how many were sent
    pc,         \* the tasks of the initial index, one per file
    state,      \* the State: see States
    published,  \* per file, what its last diagnostics were made from
    parallel    \* the setting

vars == <<disk, editor, inbox, sent, pc, state, published, parallel>>

\* A File object: whose it is, and the task that made it.
Objects == Files \X Files
NameOf(o) == o[1]

File == [content : Texts, version : Nat, open : BOOLEAN, classes : SUBSET Components]
Class == [template : Objects \cup {None}, uses : Texts]

NewFile(text, version) ==
    [content |-> text, version |-> version, open |-> FALSE, classes |-> {}]
NewClass == [template |-> None, uses |-> Empty]

States == [files      : [Files -> Objects \cup {None}],   \* State.files
           object     : [Objects -> File],
           registered : SUBSET Components,                \* State.classes
           class      : [Components -> Class],
           lastSeen   : [Files -> Nat]]                   \* lastSeenDocumentVersion

Known(s, f)  == s.files[f] # None
FileAt(s, f) == s.object[s.files[f]]

-----------------------------------------------------------------------------
(* Operations on the State.                                                *)

\* versionFallback; nothing seen counts as version 0.
Fallback(s, f, version) == IF version = 0 THEN s.lastSeen[f] ELSE version

\* createFileIfNotExists of a file not found, without content: by is the task
\* or the message it is done for.  The file is on disk.
Load(s, f, version, by) ==
    LET v == Fallback(s, f, version)
    IN  [s EXCEPT !.files[f] = <<f, by>>,
                  !.object[<<f, by>>] = NewFile(disk[f], v),
                  !.lastSeen[f] = v]

\* SetContent
SetContent(s, f, text, version) ==
    LET v == Fallback(s, f, version)
    IN  [s EXCEPT !.object[s.files[f]].content = text,
                  !.object[s.files[f]].version = v,
                  !.lastSeen[f] = v]

\* IndexPugFromTypeScript, once it has the template's File.
Link(s, c, o) ==
    [s EXCEPT !.object[o].classes = {},
              !.class[c] = [template |-> o, uses |-> s.object[o].content]]

\* A bug: a template that is not on disk is read all the same.
TemplateOfAlways(text) == Names[text]

\* handleTemplateUrlKv: a template that a text names counts if it is on disk.
TemplateOf(text) ==
    IF Names[text] # None /\ disk[Names[text]] # None THEN Names[text] ELSE None

Fetched(s, t, by) == IF Known(s, t) THEN s ELSE Load(s, t, 0, by)

\* Index: if there is an AST of the text, the declarations are reset; the
\* class, if the text has one, is reset and found again with its template;
\* unless the type of the template is not known, it joins the file.
IndexComponent(s, c) ==
    LET o     == s.files[c]
        text  == s.object[o].content
        bare  == [s EXCEPT !.object[o].classes = {}]
        reset == [bare EXCEPT !.class[c] = NewClass]
        t     == TemplateOf(text)
        ready == IF t = None THEN reset
                 ELSE LET have == Fetched(reset, t, c) IN Link(have, c, have.files[t])
    IN  IF text \in Garbled THEN s
        ELSE IF text = Empty THEN bare
        ELSE IF text \in Foreign THEN reset
        ELSE [ready EXCEPT !.object[o].classes = {c}]

\* The same of a File that State.files does not hold: its class is nobody's,
\* the template is fetched and reset all the same.
IndexOrphan(s, c, text) ==
    LET t == TemplateOf(text)
    IN  IF t = None THEN s
        ELSE LET have == Fetched(s, t, c)
             IN  [have EXCEPT !.object[have.files[t]].classes = {}]

\* IndexPugFileFromLsp and indexPug: the classes that point to this File get
\* the uses in its text.
IndexTemplate(s, t) ==
    LET o == s.files[t]
    IN  [s EXCEPT !.object[o].classes = {},
                  !.class = [c \in Components |->
                      IF c \in s.registered /\ s.class[c].template = o
                      THEN [s.class[c] EXCEPT !.uses = s.object[o].content]
                      ELSE s.class[c]]]

Index(s, f) == IF f \in Components THEN IndexComponent(s, f) ELSE IndexTemplate(s, f)

\* A bug: a template gets the classes that point to its File.
PostprocessByPointer(s, some) ==
    LET all == s.registered \cup UNION {FileAt(s, f).classes : f \in some}
    IN  [s EXCEPT !.registered = all,
                  !.object = [o \in Objects |->
                      IF NameOf(o) \in some \cap Templates /\ s.files[NameOf(o)] = o
                      THEN [s.object[o] EXCEPT
                               !.classes = @ \cup {c \in all : s.class[c].template = o}]
                      ELSE s.object[o]]]

\* File.Postprocess of some files, all components or all templates: their
\* classes are registered, and a template gets the classes whose template
\* has its URI.
Postprocess(s, some) ==
    LET all    == s.registered \cup UNION {FileAt(s, f).classes : f \in some}
        of(t)  == {c \in all : s.class[c].template # None /\ NameOf(s.class[c].template) = t}
    IN  [s EXCEPT !.registered = all,
                  !.object = [o \in Objects |->
                      IF NameOf(o) \in some \cap Templates /\ s.files[NameOf(o)] = o
                      THEN [s.object[o] EXCEPT !.classes = @ \cup of(NameOf(o))]
                      ELSE s.object[o]]]

\* A bug: a template has no dependents.
DependenciesOfClasses(s, f) ==
    {NameOf(s.class[c].template) :
        c \in {k \in FileAt(s, f).classes : s.class[k].template # None}}

\* GetDependencies: the components that point to this File, and the templates
\* of its own classes.
Dependencies(s, f) ==
    {c \in s.registered : s.class[c].template = s.files[f]}
        \cup {NameOf(s.class[c].template) :
                 c \in {k \in FileAt(s, f).classes : s.class[k].template # None}}

\* GenerateDiagnosticsForFile: the version, and what the analysers read.
Diagnosed(s, f) ==
    [version |-> FileAt(s, f).version,
     content |-> FileAt(s, f).content,
     uses    |-> [c \in FileAt(s, f).classes |-> s.class[c].uses]]

-----------------------------------------------------------------------------
Init ==
    /\ disk \in [Files -> Texts \cup {None}]
    /\ editor = [f \in Files |-> [open |-> FALSE, text |-> Empty,
                                  version |-> 0, changed |-> FALSE]]
    /\ inbox = <<>>
    /\ sent = 0
    /\ pc = [f \in Files |-> IF disk[f] = None THEN "done" ELSE "ready"]
    /\ state = [files      |-> [f \in Files |-> None],
                object     |-> [o \in Objects |-> NewFile(Empty, 0)],
                registered |-> {},
                class      |-> [c \in Components |-> NewClass],
                lastSeen   |-> [f \in Files |-> 0]]
    /\ published = [f \in Files |-> None]
    /\ parallel \in Settings

-----------------------------------------------------------------------------
(* The initial index, then State.Postprocess.                              *)

\* A task may begin: without the parallel index, when no other is under way.
MayBegin == parallel \/ \A f \in Files : pc[f] \in {"ready", "indexed", "done"}

\* A component's own file is read and entered: only this task looks for it,
\* at this stage.  A template it names is looked up next.
BeginComponent(c) ==
    /\ c \in Components /\ pc[c] = "ready" /\ MayBegin
    /\ LET loaded == Load(state, c, 0, c)
       IN  IF TemplateOf(disk[c]) # None
           THEN /\ state' = loaded
                /\ pc' = [pc EXCEPT ![c] = "look up"]
           ELSE /\ state' = IndexComponent(loaded, c)
                /\ pc' = [pc EXCEPT ![c] = "indexed"]
    /\ UNCHANGED <<disk, editor, inbox, sent, published>>

\* GetFile finds the template, or does not; then it will be read from disk.
LookUpTemplate(c) ==
    /\ pc[c] = "look up" /\ c \in Components
    /\ IF Known(state, Names[disk[c]])
       THEN /\ state' = IndexComponent(state, c)
            /\ pc' = [pc EXCEPT ![c] = "indexed"]
       ELSE /\ pc' = [pc EXCEPT ![c] = "load"]
            /\ UNCHANGED state
    /\ UNCHANGED <<disk, editor, inbox, sent, published>>

\* The template is read and entered, over what another task has entered
\* meanwhile, and the class points to it.
LoadTemplate(c) ==
    /\ pc[c] = "load" /\ c \in Components
    /\ state' = IndexComponent(Load(state, Names[disk[c]], 0, c), c)
    /\ pc' = [pc EXCEPT ![c] = "indexed"]
    /\ UNCHANGED <<disk, editor, inbox, sent, published>>

\* The task of a template: no class is registered yet.
BeginTemplate(t) ==
    /\ t \in Templates /\ pc[t] = "ready" /\ MayBegin
    /\ IF Known(state, t)
       THEN /\ state' = IndexTemplate(state, t)
            /\ pc' = [pc EXCEPT ![t] = "indexed"]
       ELSE /\ pc' = [pc EXCEPT ![t] = "load"]
            /\ UNCHANGED state
    /\ UNCHANGED <<disk, editor, inbox, sent, published>>

LoadOwnTemplate(t) ==
    /\ t \in Templates /\ pc[t] = "load"
    /\ state' = Load(state, t, 0, t)
    /\ pc' = [pc EXCEPT ![t] = "indexed"]
    /\ UNCHANGED <<disk, editor, inbox, sent, published>>

\* State.Postprocess goes over the files in the order of the map.
PostprocessFile(f) ==
    /\ pc[f] = "indexed"
    /\ \A g \in Files : pc[g] \in {"indexed", "done"}
    /\ state' = Postprocess(state, {f})
    /\ pc' = [pc EXCEPT ![f] = "done"]
    /\ UNCHANGED <<disk, editor, inbox, sent, published>>

-----------------------------------------------------------------------------
(* The handlers.                                                           *)

Serving == \A f \in Files : pc[f] = "done"

\* The index of a component's File ends with an error.
IndexFails(s, f) == f \in Components /\ FileAt(s, f).content \in Garbled \cup Foreign

\* The diagnostics of the file are sent, then those of its open dependents.
Publish(s, f) ==
    published' = [g \in Files |->
        IF g = f \/ (g \in Dependencies(s, f) /\ FileAt(s, g).open)
        THEN Diagnosed(s, g) ELSE published[g]]

\* The file is indexed.  If that works, its dependencies are postprocessed,
\* and it after them, and the diagnostics are sent.
Refresh(s, f, opens) ==
    IF IndexFails(s, f) THEN state' = Index(s, f) /\ UNCHANGED published
    ELSE LET indexed == Index(s, f)
             opened  == [indexed EXCEPT !.object[indexed.files[f]].open = @ \/ opens]
             around  == Postprocess(opened, Dependencies(opened, f))
             done    == Postprocess(around, {f})
         IN  state' = done /\ Publish(done, f)

\* A bug: a change that leaves the text empty is not stored.
ReceivedUnlessEmpty(m) ==
    IF m.text # Empty THEN SetContent(state, m.file, m.text, m.version) ELSE state

\* createFileIfNotExists of a file that is found.
Received(m) ==
    IF m.text # Empty \/ m.version # 0
    THEN SetContent(state, m.file, m.text, m.version) ELSE state

\* The version that came with a text is remembered, whatever File it is for.
Seen(s, f, version) == [s EXCEPT !.lastSeen[f] = Fallback(s, f, version)]

\* lspHandleDidOpen and lspHandleDidChange.  The handler of didOpen passes no
\* text.  A text that comes with a file not known goes into a File that is
\* never entered; without a text, the file is read from disk.
Serve ==
    /\ Serving /\ inbox # <<>>
    /\ LET m == Head(inbox)
       IN  CASE Known(state, m.file) -> Refresh(Received(m), m.file, m.opens)
             [] ~Known(state, m.file) /\ m.text # Empty ->
                  /\ LET seen == Seen(state, m.file, m.version)
                     IN  state' = IF m.file \in Components
                                  THEN IndexOrphan(seen, m.file, m.text)
                                  ELSE seen
                  /\ UNCHANGED published
             [] ~Known(state, m.file) /\ m.text = Empty /\ disk[m.file] # None ->
                  Refresh(Load(state, m.file, m.version, m.file), m.file, m.opens)
             [] OTHER -> UNCHANGED <<state, published>>
    /\ inbox' = Tail(inbox)
    /\ UNCHANGED <<disk, editor, sent, pc>>

-----------------------------------------------------------------------------
(* The editor.                                                             *)

Send(f, text, version, opens) ==
    /\ sent < MaxMessages
    /\ sent' = sent + 1
    /\ inbox' = Append(inbox, [file |-> f, text |-> text,
                               version |-> version, opens |-> opens])

\* A file is opened, a new one is empty.  What the handler takes from the
\* notification is the version.
OpenDocument(f) ==
    /\ ~editor[f].open
    /\ editor' = [editor EXCEPT ![f] =
                    [open    |-> TRUE,
                     text    |-> IF disk[f] = None THEN Empty ELSE disk[f],
                     version |-> OpenVersion,
                     changed |-> FALSE]]
    /\ Send(f, Empty, OpenVersion, TRUE)
    /\ UNCHANGED <<disk, pc, state, published>>

ChangeDocument(f, text) ==
    /\ editor[f].open /\ text # editor[f].text
    /\ editor' = [editor EXCEPT ![f] = [open |-> TRUE, text |-> text,
                                        version |-> @.version + 1, changed |-> TRUE]]
    /\ Send(f, text, editor[f].version + 1, FALSE)
    /\ UNCHANGED <<disk, pc, state, published>>

\* The server handles neither didSave nor didClose.
SaveDocument(f) ==
    /\ Serving
    /\ editor[f].open /\ disk[f] # editor[f].text
    /\ disk' = [disk EXCEPT ![f] = editor[f].text]
    /\ UNCHANGED <<editor, inbox, sent, pc, state, published>>

CloseDocument(f) ==
    /\ editor[f].open
    /\ editor' = [editor EXCEPT ![f].open = FALSE, ![f].changed = FALSE]
    /\ UNCHANGED <<disk, inbox, sent, pc, state, published>>

-----------------------------------------------------------------------------
IndexTask(f) ==
    \/ BeginComponent(f) \/ LookUpTemplate(f) \/ LoadTemplate(f)
    \/ BeginTemplate(f) \/ LoadOwnTemplate(f)
    \/ PostprocessFile(f)

Edit(f) ==
    \/ OpenDocument(f) \/ SaveDocument(f) \/ CloseDocument(f)
    \/ \E text \in Texts : ChangeDocument(f, text)

Next ==
    /\ (\E f \in Files : IndexTask(f) \/ Edit(f)) \/ Serve
    /\ UNCHANGED parallel

Spec == Init /\ [][Next]_vars

-----------------------------------------------------------------------------
(* Properties.                                                             *)

TypeOK ==
    /\ disk \in [Files -> Texts \cup {None}]
    /\ editor \in [Files -> [open : BOOLEAN, text : Texts, version : Nat, changed : BOOLEAN]]
    /\ inbox \in Seq([file : Files, text : Texts, version : Nat, opens : BOOLEAN])
    /\ sent \in 0 .. MaxMessages
    /\ pc \in [Files -> {"ready", "look up", "load", "indexed", "done"}]
    /\ state \in States
    /\ parallel \in BOOLEAN
    /\ \A f \in Files : published[f] # None =>
          /\ published[f].version \in Nat /\ published[f].content \in Texts
          /\ \A c \in DOMAIN published[f].uses : published[f].uses[c] \in Texts

\* A document that the server has open and the editor has changed since it
\* opened it: once its notifications are handled, the server's text and
\* version are the editor's, whatever was closed, saved or opened in between.
ServerHasChanges ==
    Serving => \A f \in Files :
        Known(state, f) /\ FileAt(state, f).open /\ editor[f].changed
        /\ (\A i \in 1 .. Len(inbox) : inbox[i].file # f) =>
            /\ FileAt(state, f).content = editor[f].text
            /\ FileAt(state, f).version = editor[f].version

\* The diagnostics of an open component are made from the text the server
\* now has of it and of its template, though each arrives by notifications
\* of its own, unless the index of its text fails.  (A parallel index may
\* leave the class pointing to a File of the template that is not the one in
\* State.files.)
DiagnosticsCurrent ==
    Serving /\ ~parallel => \A c \in Components :
        Known(state, c) /\ FileAt(state, c).open /\ ~IndexFails(state, c) =>
            /\ published[c] = Diagnosed(state, c)
            /\ LET o == state.class[c].template
               IN  c \in FileAt(state, c).classes /\ o # None =>
                      published[c].uses[c] = FileAt(state, NameOf(o)).content

\* The message at the head of the inbox is handled, and it is about f.
Handles(f) == inbox # <<>> /\ inbox' = Tail(inbox) /\ Head(inbox).file = f

\* After a notification about a template the template knows every class that
\* was found in its component's file when the template was on disk, in
\* whatever order State.Postprocess went over the files: type checking the
\* template begins with those classes.  (A component indexed before has no
\* template until its own file is edited.)
TemplateFindsComponents ==
    [][\A t \in Templates : Handles(t) /\ Known(state', t) =>
          {c \in Components : /\ Known(state', c) /\ c \in FileAt(state', c).classes
                              /\ state'.class[c].template # None
                              /\ Names[FileAt(state', c).content] = t}
              \subseteq FileAt(state', t).classes]_vars

\* lspHandleDidOpen.go:18 calls the text it passes "no ContentChanges":
\* opening a document leaves the text that the server has of it.
OpenKeepsContent ==
    [][\A f \in Files : Handles(f) /\ Head(inbox).opens /\ Known(state, f) =>
          FileAt(state', f).content = FileAt(state, f).content]_vars
=============================================================================
