----------------------- MODULE DocumentStore_proofs -------------------------
(* What TLAPS proves of DocumentStore, for any files and any texts.        *)
EXTENDS DocumentStore, SequenceTheorems, TLAPS

-----------------------------------------------------------------------------
(* What holds of the State between any two operations on it.               *)

\* The File of a name is of that name; a class points to a template that has
\* a File; the classes registered or found in a File are of files known.
Entered(s) ==
    /\ \A f \in Files : Known(s, f) => s.files[f] \in {f} \X Files
    /\ \A c \in Components : s.class[c].template # None =>
          NameOf(s.class[c].template) \in Templates /\ Known(s, NameOf(s.class[c].template))
    /\ \A c \in s.registered : Known(s, c)
    /\ \A o \in Objects : \A c \in s.object[o].classes : Known(s, c)

\* The File of a component has its own class or none; if it has it, the class
\* points to no template or, unless the text has no AST, to a File of
\* the template that the text names.
Linked(s, c) ==
    /\ FileAt(s, c).classes \subseteq {c}
    /\ FileAt(s, c).classes # {} =>
          /\ FileAt(s, c).content # Empty
          /\ FileAt(s, c).content \notin Garbled /\ s.class[c].template # None =>
                NameOf(s.class[c].template) = Names[FileAt(s, c).content]

Sound(s) == Entered(s) /\ \A c \in Components : Known(s, c) => Linked(s, c)

\* Without the parallel index: a class points to the File in State.files, and
\* if the class is found in its file, it has the uses of the template's text.
Exact(s) ==
    \A c \in Components : s.class[c].template # None =>
        LET o == s.class[c].template
        IN  /\ s.files[NameOf(o)] = o
            /\ Known(s, c) /\ FileAt(s, c).classes # {} =>
                  s.class[c].uses = s.object[o].content

-----------------------------------------------------------------------------
(* What holds while the files are indexed.                                 *)

Sought(f) == IF f \in Components THEN Names[disk[f]] ELSE f

\* What a task knows of the file it is working on.
Tasks ==
    \A f \in Files :
        /\ pc[f] \in {"ready", "look up", "load"} => disk[f] # None
        /\ pc[f] \in {"look up", "load"} /\ f \in Components =>
              /\ TemplateOf(disk[f]) # None /\ Known(state, f)
              /\ FileAt(state, f).content = disk[f]
        /\ pc[f] = "look up" => f \in Components
        /\ pc[f] = "indexed" => Known(state, f)
        /\ pc[f] = "done" /\ f \in Components /\ Known(state, f) =>
              FileAt(state, f).classes \subseteq state.registered
        /\ pc[f] # "done" => \A o \in Objects : ~state.object[o].open

\* Without the parallel index: one task at a time is between its steps, and
\* nobody has entered the file that it did not find.
Alone ==
    \A f \in Files :
        /\ pc[f] \in {"look up", "load"} =>
              \A g \in Files \ {f} : pc[g] \in {"ready", "indexed", "done"}
        /\ pc[f] = "load" => ~Known(state, Sought(f))

-----------------------------------------------------------------------------
(* The editor's changes and the diagnostics.                               *)

\* The last notification on its way about a changed document brings the
\* editor's text; when none is on its way, the server has that text, if it
\* has the document open.
Delivered ==
    \A f \in Files : editor[f].changed =>
        /\ editor[f].version > 0
        /\ \A i \in 1..Len(inbox) :
              inbox[i].file = f /\ (\A j \in 1..Len(inbox) : j > i => inbox[j].file # f) =>
                /\ inbox[i].text = editor[f].text
                /\ inbox[i].version = editor[f].version
                /\ ~inbox[i].opens
        /\ Known(state, f) /\ FileAt(state, f).open
           /\ (\A i \in 1..Len(inbox) : inbox[i].file # f) =>
                /\ FileAt(state, f).content = editor[f].text
                /\ FileAt(state, f).version = editor[f].version

Shown ==
    \A c \in Components :
        Known(state, c) /\ FileAt(state, c).open /\ ~IndexFails(state, c) =>
            published[c] = Diagnosed(state, c)

IInv ==
    /\ TypeOK /\ Sound(state) /\ Tasks /\ Delivered
    /\ ~parallel => Exact(state) /\ Alone /\ Shown

-----------------------------------------------------------------------------
(* What the operations on the State do, field by field.                    *)

LEMMA StateFields ==
    ASSUME NEW s \in States
    PROVE  /\ s.files \in [Files -> Objects \cup {None}]
           /\ s.object \in [Objects -> File]
           /\ s.registered \subseteq Components
           /\ s.class \in [Components -> Class]
           /\ s.lastSeen \in [Files -> Nat]
           /\ s = [files |-> s.files, object |-> s.object, registered |-> s.registered,
                   class |-> s.class, lastSeen |-> s.lastSeen]
  BY DEF States

LEMMA ObjectName ==
    ASSUME NEW f \in Files, NEW by \in Files
    PROVE  /\ <<f, by>> \in Objects /\ NameOf(<<f, by>>) = f /\ <<f, by>> \in {f} \X Files
           /\ <<f, by>> # None
  BY DocumentAssumption DEF Objects, NameOf

LoadSays(s, f, version, by, r) ==
    /\ r \in States
    /\ r.files = [s.files EXCEPT ![f] = <<f, by>>]
    /\ r.registered = s.registered /\ r.class = s.class
    /\ \A o \in Objects \ {<<f, by>>} : r.object[o] = s.object[o]
    /\ r.object[<<f, by>>].content = disk[f]
    /\ r.object[<<f, by>>].open = FALSE
    /\ r.object[<<f, by>>].classes = {}
    /\ version # 0 => r.object[<<f, by>>].version = version

LEMMA LoadEffect ==
    ASSUME NEW s \in States, NEW f \in Files, NEW by \in Files, NEW version \in Nat,
           disk[f] \in Texts
    PROVE  LoadSays(s, f, version, by, Load(s, f, version, by))
  <1> DEFINE v == Fallback(s, f, version)
             r == Load(s, f, version, by)
             new == NewFile(disk[f], v)
  <1>1. v \in Nat /\ (version # 0 => v = version)
    BY StateFields DEF Fallback
  <1>2. /\ new \in File /\ new.content = disk[f] /\ new.version = v /\ new.open = FALSE
        /\ new.classes = {}
    BY <1>1 DEF File, NewFile
  <1>3. <<f, by>> \in Objects
    BY ObjectName
  <1>4. r = [files      |-> [s.files EXCEPT ![f] = <<f, by>>],
             object     |-> [s.object EXCEPT ![<<f, by>>] = new],
             registered |-> s.registered,
             class      |-> s.class,
             lastSeen   |-> [s.lastSeen EXCEPT ![f] = v]]
    <2> DEFINE one == [s EXCEPT !.files[f] = <<f, by>>]
               two == [one EXCEPT !.object[<<f, by>>] = new]
               three == [two EXCEPT !.lastSeen[f] = v]
    <2>2. one = [files      |-> [s.files EXCEPT ![f] = <<f, by>>],
                 object     |-> s.object,
                 registered |-> s.registered,
                 class      |-> s.class,
                 lastSeen   |-> s.lastSeen]
      BY StateFields
    <2> HIDE DEF one
    <2>3. two = [files      |-> [s.files EXCEPT ![f] = <<f, by>>],
                 object     |-> [s.object EXCEPT ![<<f, by>>] = new],
                 registered |-> s.registered,
                 class      |-> s.class,
                 lastSeen   |-> s.lastSeen]
      BY <2>2
    <2> HIDE DEF two
    <2>4. three = [files      |-> [s.files EXCEPT ![f] = <<f, by>>],
                   object     |-> [s.object EXCEPT ![<<f, by>>] = new],
                   registered |-> s.registered,
                   class      |-> s.class,
                   lastSeen   |-> [s.lastSeen EXCEPT ![f] = v]]
      BY <2>3
    <2>5. r = three
      BY DEF Load, one, two
    <2> QED
      BY <2>4, <2>5
  <1> HIDE DEF r, v, new
  <1>5. /\ r.files = [s.files EXCEPT ![f] = <<f, by>>]
        /\ r.object = [s.object EXCEPT ![<<f, by>>] = new]
        /\ r.registered = s.registered /\ r.class = s.class
    BY <1>4
  <1>6. r \in States
    <2>1. [s.files EXCEPT ![f] = <<f, by>>] \in [Files -> Objects \cup {None}]
      BY <1>3, StateFields
    <2>2. [s.object EXCEPT ![<<f, by>>] = new] \in [Objects -> File]
      BY <1>2, <1>3, StateFields
    <2>3. [s.lastSeen EXCEPT ![f] = v] \in [Files -> Nat]
      BY <1>1, StateFields
    <2> QED
      BY <1>4, <2>1, <2>2, <2>3, StateFields DEF States
  <1>7. /\ \A o \in Objects \ {<<f, by>>} : r.object[o] = s.object[o]
        /\ r.object[<<f, by>>] = new
    BY <1>3, <1>5, StateFields
  <1>8. /\ r.object[<<f, by>>].content = disk[f]
        /\ r.object[<<f, by>>].open = FALSE
        /\ r.object[<<f, by>>].classes = {}
        /\ version # 0 => r.object[<<f, by>>].version = version
    BY <1>1, <1>2, <1>7
  <1>9. LoadSays(s, f, version, by, r)
    BY <1>5, <1>6, <1>7, <1>8 DEF LoadSays
  <1> QED
    BY <1>9 DEF r

SetContentSays(s, f, text, version, r) ==
    LET o == s.files[f]
    IN  /\ r \in States
        /\ r.files = s.files /\ r.registered = s.registered /\ r.class = s.class
        /\ \A p \in Objects \ {o} : r.object[p] = s.object[p]
        /\ r.object[o].content = text
        /\ r.object[o].open = s.object[o].open
        /\ r.object[o].classes = s.object[o].classes
        /\ version # 0 => r.object[o].version = version

LEMMA SetContentEffect ==
    ASSUME NEW s \in States, NEW f \in Files, Known(s, f), NEW text \in Texts,
           NEW version \in Nat
    PROVE  SetContentSays(s, f, text, version, SetContent(s, f, text, version))
  <1> DEFINE v == Fallback(s, f, version)
             o == s.files[f]
             r == SetContent(s, f, text, version)
             new == [s.object[o] EXCEPT !.content = text, !.version = v]
  <1>1. v \in Nat /\ (version # 0 => v = version)
    BY StateFields DEF Fallback
  <1>2. o \in Objects /\ s.object[o] \in File
    BY StateFields DEF Known
  <1>3. /\ new \in File /\ new.content = text /\ new.version = v
        /\ new.open = s.object[o].open /\ new.classes = s.object[o].classes
    BY <1>1, <1>2 DEF File
  <1>4. r = [files      |-> s.files,
             object     |-> [s.object EXCEPT ![o] = new],
             registered |-> s.registered,
             class      |-> s.class,
             lastSeen   |-> [s.lastSeen EXCEPT ![f] = v]]
    <2> DEFINE half == [s.object[o] EXCEPT !.content = text]
               one == [s EXCEPT !.object[o].content = text]
               two == [one EXCEPT !.object[o].version = v]
               three == [two EXCEPT !.lastSeen[f] = v]
    <2>1. one = [files      |-> s.files,
                 object     |-> [s.object EXCEPT ![o] = half],
                 registered |-> s.registered,
                 class      |-> s.class,
                 lastSeen   |-> s.lastSeen]
      BY StateFields
    <2>2. [s.object EXCEPT ![o] = half][o] = half
      BY <1>2, StateFields
    <2>3. [[s.object EXCEPT ![o] = half] EXCEPT ![o] = new] = [s.object EXCEPT ![o] = new]
      BY <1>2, StateFields
    <2>4. [half EXCEPT !.version = v] = new
      OBVIOUS
    <2> HIDE DEF one, half, new
    <2>5. two = [files      |-> s.files,
                 object     |-> [s.object EXCEPT ![o] = new],
                 registered |-> s.registered,
                 class      |-> s.class,
                 lastSeen   |-> s.lastSeen]
      BY <2>1, <2>2, <2>3, <2>4
    <2> HIDE DEF two
    <2>6. three = [files      |-> s.files,
                   object     |-> [s.object EXCEPT ![o] = new],
                   registered |-> s.registered,
                   class      |-> s.class,
                   lastSeen   |-> [s.lastSeen EXCEPT ![f] = v]]
      BY <2>5
    <2>7. r = three
      BY DEF SetContent, one, two
    <2> QED
      BY <2>6, <2>7
  <1> HIDE DEF r, v, new, o
  <1>5. /\ r.files = s.files /\ r.object = [s.object EXCEPT ![o] = new]
        /\ r.registered = s.registered /\ r.class = s.class
    BY <1>4
  <1>6. r \in States
    <2>1. [s.object EXCEPT ![o] = new] \in [Objects -> File]
      BY <1>2, <1>3, StateFields
    <2>2. [s.lastSeen EXCEPT ![f] = v] \in [Files -> Nat]
      BY <1>1, StateFields
    <2> QED
      BY <1>4, <2>1, <2>2, StateFields DEF States
  <1>7. (\A p \in Objects \ {o} : r.object[p] = s.object[p]) /\ r.object[o] = new
    BY <1>2, <1>5, StateFields
  <1>8. /\ r.object[o].content = text /\ r.object[o].open = s.object[o].open
        /\ r.object[o].classes = s.object[o].classes
        /\ version # 0 => r.object[o].version = version
    BY <1>1, <1>3, <1>7
  <1>9. SetContentSays(s, f, text, version, r)
    BY <1>5, <1>6, <1>7, <1>8 DEF SetContentSays, o
  <1> QED
    BY <1>9 DEF r

\* A File gets other classes.
WithClasses(s, o, found) == [s EXCEPT !.object[o].classes = found]

ClassesSays(s, o, found, r) ==
    /\ r \in States
    /\ r.files = s.files /\ r.registered = s.registered /\ r.class = s.class
    /\ \A p \in Objects \ {o} : r.object[p] = s.object[p]
    /\ r.object[o].content = s.object[o].content
    /\ r.object[o].version = s.object[o].version
    /\ r.object[o].open = s.object[o].open
    /\ r.object[o].classes = found

LEMMA ClassesEffect ==
    ASSUME NEW s \in States, NEW o \in Objects, NEW found \in SUBSET Components
    PROVE  ClassesSays(s, o, found, WithClasses(s, o, found))
  <1> DEFINE r == WithClasses(s, o, found)
             new == [s.object[o] EXCEPT !.classes = found]
  <1>1. s.object[o] \in File
    BY StateFields
  <1>2. /\ new \in File /\ new.content = s.object[o].content
        /\ new.version = s.object[o].version /\ new.open = s.object[o].open
        /\ new.classes = found
    BY <1>1 DEF File
  <1>3. r = [files      |-> s.files,
             object     |-> [s.object EXCEPT ![o] = new],
             registered |-> s.registered,
             class      |-> s.class,
             lastSeen   |-> s.lastSeen]
    BY StateFields DEF WithClasses
  <1> HIDE DEF r, new
  <1>4. /\ r.files = s.files /\ r.object = [s.object EXCEPT ![o] = new]
        /\ r.registered = s.registered /\ r.class = s.class
    BY <1>3
  <1>5. r \in States
    <2>1. [s.object EXCEPT ![o] = new] \in [Objects -> File]
      BY <1>2, StateFields
    <2> QED
      BY <1>3, <2>1, StateFields DEF States
  <1>6. (\A p \in Objects \ {o} : r.object[p] = s.object[p]) /\ r.object[o] = new
    BY <1>4, StateFields
  <1>7. /\ r.object[o].content = s.object[o].content
        /\ r.object[o].version = s.object[o].version
        /\ r.object[o].open = s.object[o].open /\ r.object[o].classes = found
    BY <1>2, <1>6
  <1>8. ClassesSays(s, o, found, r)
    BY <1>4, <1>5, <1>6, <1>7 DEF ClassesSays
  <1> QED
    BY <1>8 DEF r

\* Looking a template up, and reading it if nobody has: it is closed then.
Loaded(s, r, t, by) ==
    /\ ~Known(s, t)
    /\ r.files = [s.files EXCEPT ![t] = <<t, by>>]
    /\ \A o \in Objects \ {<<t, by>>} : r.object[o] = s.object[o]
    /\ r.object[<<t, by>>].open = FALSE /\ r.object[<<t, by>>].classes = {}

Found(s, r) == r.files = s.files /\ \A o \in Objects : r.object[o] = s.object[o]

FetchedSays(s, t, by, r) ==
    /\ r \in States /\ r.registered = s.registered /\ r.class = s.class
    /\ Found(s, r) \/ Loaded(s, r, t, by)
    /\ Known(r, t)

LEMMA FetchedEffect ==
    ASSUME disk \in [Files -> Texts \cup {None}],
           NEW s \in States, NEW t \in Templates, NEW by \in Files,
           Known(s, t) \/ disk[t] # None
    PROVE  FetchedSays(s, t, by, Fetched(s, t, by))
  <1>1. CASE Known(s, t)
    BY <1>1 DEF Fetched, Found, FetchedSays
  <1>2. CASE ~Known(s, t)
    <2> DEFINE r == Load(s, t, 0, by)
    <2>1. t \in Files /\ disk[t] \in Texts
      BY <1>2 DEF Files
    <2>2. LoadSays(s, t, 0, by, r)
      BY <2>1, LoadEffect
    <2>3. Fetched(s, t, by) = r
      BY <1>2 DEF Fetched
    <2> HIDE DEF r
    <2>4. /\ r \in States /\ r.registered = s.registered /\ r.class = s.class
          /\ Loaded(s, r, t, by) /\ r.files = [s.files EXCEPT ![t] = <<t, by>>]
      BY <1>2, <2>2 DEF LoadSays, Loaded
    <2>5. Known(r, t)
      BY <2>1, <2>4, ObjectName, StateFields DEF Known
    <2> QED
      BY <2>3, <2>4, <2>5 DEF FetchedSays
  <1> QED
    BY <1>1, <1>2

LinkSays(s, c, o, r) ==
    /\ r \in States /\ r.files = s.files /\ r.registered = s.registered
    /\ \A k \in Components \ {c} : r.class[k] = s.class[k]
    /\ r.class[c].template = o /\ r.class[c].uses = s.object[o].content
    /\ \A p \in Objects \ {o} : r.object[p] = s.object[p]
    /\ r.object[o].content = s.object[o].content
    /\ r.object[o].version = s.object[o].version
    /\ r.object[o].open = s.object[o].open
    /\ r.object[o].classes = {}

LEMMA LinkEffect ==
    ASSUME NEW s \in States, NEW c \in Components, NEW o \in Objects
    PROVE  LinkSays(s, c, o, Link(s, c, o))
  <1> DEFINE bare == WithClasses(s, o, {})
             new == [template |-> o, uses |-> s.object[o].content]
             r == [bare EXCEPT !.class[c] = new]
  <1>1. Link(s, c, o) = r
    BY DEF Link, WithClasses
  <1>0. ClassesSays(s, o, {}, bare)
    BY ClassesEffect
  <1> HIDE DEF bare
  <1>2. /\ bare \in States
        /\ bare.files = s.files /\ bare.registered = s.registered /\ bare.class = s.class
        /\ \A p \in Objects \ {o} : bare.object[p] = s.object[p]
        /\ bare.object[o].content = s.object[o].content
        /\ bare.object[o].version = s.object[o].version
        /\ bare.object[o].open = s.object[o].open
        /\ bare.object[o].classes = {}
    BY <1>0 DEF ClassesSays
  <1>3. new \in Class /\ new.template = o /\ new.uses = s.object[o].content
    BY StateFields DEF Class, File
  <1> HIDE DEF new
  <1>4. /\ r \in States /\ r.files = bare.files /\ r.registered = bare.registered
        /\ r.object = bare.object /\ r.class = [bare.class EXCEPT ![c] = new]
    <2>1. [bare.class EXCEPT ![c] = new] \in [Components -> Class]
      BY <1>2, <1>3, StateFields
    <2>2. r = [files |-> bare.files, object |-> bare.object, registered |-> bare.registered,
               class |-> [bare.class EXCEPT ![c] = new], lastSeen |-> bare.lastSeen]
      BY <1>2, StateFields
    <2> HIDE DEF r
    <2> QED
      BY <1>2, <2>1, <2>2, StateFields DEF States
  <1> HIDE DEF r
  <1>5. r.class[c] = new /\ \A k \in Components \ {c} : r.class[k] = s.class[k]
    BY <1>2, <1>4, StateFields
  <1>6. LinkSays(s, c, o, r)
    BY <1>2, <1>3, <1>4, <1>5 DEF LinkSays
  <1> QED
    BY <1>1, <1>6

\* The declarations of a component are reset.
Reset(s, c) == [WithClasses(s, s.files[c], {}) EXCEPT !.class[c] = NewClass]

ResetSays(s, c, r) ==
    LET o == s.files[c]
    IN  /\ r \in States /\ r.files = s.files /\ r.registered = s.registered
        /\ \A k \in Components \ {c} : r.class[k] = s.class[k]
        /\ r.class[c].template = None
        /\ \A p \in Objects \ {o} : r.object[p] = s.object[p]
        /\ r.object[o].content = s.object[o].content
        /\ r.object[o].version = s.object[o].version
        /\ r.object[o].open = s.object[o].open
        /\ r.object[o].classes = {}

LEMMA ResetEffect ==
    ASSUME NEW s \in States, NEW c \in Components, Known(s, c)
    PROVE  ResetSays(s, c, Reset(s, c))
  <1> DEFINE o == s.files[c]
             bare == WithClasses(s, o, {})
             r == [bare EXCEPT !.class[c] = NewClass]
  <1>1. o \in Objects
    BY StateFields DEF Known, Files
  <1>2. ClassesSays(s, o, {}, bare)
    BY <1>1, ClassesEffect
  <1>3. NewClass \in Class /\ NewClass.template = None
    BY DocumentAssumption DEF Class, NewClass
  <1>4. Reset(s, c) = r
    BY DEF Reset
  <1> HIDE DEF bare, o
  <1>5. /\ r \in States /\ r.files = bare.files /\ r.registered = bare.registered
        /\ r.object = bare.object /\ r.class = [bare.class EXCEPT ![c] = NewClass]
    <2>1. bare \in States
      BY <1>2 DEF ClassesSays
    <2>2. [bare.class EXCEPT ![c] = NewClass] \in [Components -> Class]
      BY <1>3, <2>1, StateFields
    <2>3. r = [files |-> bare.files, object |-> bare.object, registered |-> bare.registered,
               class |-> [bare.class EXCEPT ![c] = NewClass], lastSeen |-> bare.lastSeen]
      BY <2>1, StateFields
    <2> HIDE DEF r
    <2> QED
      BY <2>1, <2>2, <2>3, StateFields DEF States
  <1> HIDE DEF r
  <1>6. r.class[c] = NewClass /\ \A k \in Components \ {c} : r.class[k] = s.class[k]
    BY <1>2, <1>5, StateFields DEF ClassesSays
  <1>7. ResetSays(s, c, r)
    BY <1>2, <1>3, <1>5, <1>6 DEF ClassesSays, ResetSays, o
  <1> QED
    BY <1>4, <1>7

\* What is kept of a File when its classes are found again.
SameText(s, r, o) ==
    /\ r.object[o].content = s.object[o].content
    /\ r.object[o].version = s.object[o].version
    /\ r.object[o].open = s.object[o].open

\* What indexing a component does: to its own File and class, to the template
\* that it may bring in, and to nothing else.
ComponentSays(s, c, r) ==
    LET o    == s.files[c]
        text == s.object[o].content
        t    == TemplateOf(text)
        good == text \notin Garbled \cup Foreign /\ text # Empty
    IN  /\ r \in States /\ r.registered = s.registered
        /\ text \in Garbled => r = s
        /\ \A k \in Components \ {c} : r.class[k] = s.class[k]
        /\ \/ r.files = s.files
           \/ /\ good /\ t # None /\ ~Known(s, t)
              /\ r.files = [s.files EXCEPT ![t] = <<t, c>>]
              /\ r.object[<<t, c>>].open = FALSE
        /\ \A p \in Objects \ {o} :
              \/ r.object[p] = s.object[p]
              \/ /\ NameOf(p) \in Templates /\ r.object[p].classes = {}
                 /\ \/ SameText(s, r, p)
                    \/ good /\ t # None /\ ~Known(s, t) /\ p = <<t, c>>
        /\ SameText(s, r, o)
        /\ text \notin Garbled => r.object[o].classes = IF good THEN {c} ELSE {}
        /\ good /\ t = None => r.class[c].template = None
        /\ good /\ t # None => /\ Known(r, t)
                               /\ r.class[c].template = r.files[t]
                               /\ r.class[c].uses = r.object[r.files[t]].content
        /\ ~good => r.class[c].template = None \/ r.class[c] = s.class[c]

LEMMA ComponentEffect ==
    ASSUME disk \in [Files -> Texts \cup {None}],
           NEW s \in States, Entered(s), NEW c \in Components, Known(s, c)
    PROVE  ComponentSays(s, c, IndexComponent(s, c))
  <1> DEFINE o    == s.files[c]
             text == s.object[o].content
             bare == WithClasses(s, o, {})
             reset == Reset(s, c)
             t    == TemplateOf(text)
  <1>1. /\ o \in Objects /\ NameOf(o) = c /\ text \in Texts
        /\ c \in Files
    <2>1. c \in Files
      BY DEF Files
    <2>2. o \in Objects /\ o \in {c} \X Files
      BY <2>1, StateFields DEF Known, Entered
    <2>3. s.object[o] \in File
      BY <2>2, StateFields
    <2> QED
      BY <2>1, <2>2, <2>3 DEF NameOf, File
  <1>2. t \in Templates \cup {None}
    BY <1>1, DocumentAssumption DEF TemplateOf
  <1>3. CASE text = Empty
    <2>1. IndexComponent(s, c) = bare
      BY <1>3, DocumentAssumption DEF IndexComponent, WithClasses
    <2>2. ClassesSays(s, o, {}, bare)
      BY <1>1, ClassesEffect
    <2> HIDE DEF bare
    <2> QED
      BY <1>3, <2>1, <2>2, DocumentAssumption DEF ClassesSays, ComponentSays, SameText
  <1>4. ResetSays(s, c, reset)
    BY ResetEffect
  <1>5. CASE text \in Garbled
    <2>1. IndexComponent(s, c) = s
      BY <1>5 DEF IndexComponent
    <2>2. text # Empty
      BY <1>5, DocumentAssumption
    <2> QED
      BY <1>5, <2>1, <2>2 DEF ComponentSays, SameText
  <1>6. CASE text \notin Garbled \cup Foreign /\ text # Empty /\ t = None
    <2> DEFINE r == WithClasses(reset, o, {c})
    <2>1. IndexComponent(s, c) = r
      BY <1>6 DEF IndexComponent, WithClasses, Reset
    <2> HIDE DEF reset
    <2>2. ClassesSays(reset, o, {c}, r)
      BY <1>1, <1>4, ClassesEffect DEF ResetSays
    <2> HIDE DEF r
    <2> QED
      BY <1>4, <1>6, <2>1, <2>2 DEF ClassesSays, ResetSays, ComponentSays, SameText
  <1>7. CASE text \notin Garbled \cup Foreign /\ text # Empty /\ t # None
    <2> DEFINE have == Fetched(reset, t, c)
               q    == have.files[t]
               link == Link(have, c, q)
               r    == WithClasses(link, o, {c})
    <2>1. IndexComponent(s, c) = r
      BY <1>7 DEF IndexComponent, WithClasses, Reset
    <2> HIDE DEF reset
    <2>2. t \in Templates /\ disk[t] # None
      BY <1>2, <1>7 DEF TemplateOf
    <2>3. FetchedSays(reset, t, c, have)
      BY <1>1, <1>4, <2>2, FetchedEffect DEF ResetSays
    <2> HIDE DEF have
    <2>4. q \in Objects /\ have \in States /\ t \in Files
      BY <2>2, <2>3, StateFields DEF FetchedSays, Known, Files
    <2>5. LinkSays(have, c, q, link)
      BY <2>4, LinkEffect
    <2> HIDE DEF link
    <2>6. ClassesSays(link, o, {c}, r)
      BY <1>1, <2>5, ClassesEffect DEF LinkSays
    <2> HIDE DEF r
    <2>7. reset.files = s.files /\ reset \in States
      BY <1>4 DEF ResetSays
    <2>8. NameOf(q) = t /\ (Loaded(reset, have, t, c) => q = <<t, c>>)
      <3>1. CASE Found(reset, have)
        <4>1. q = s.files[t] /\ Known(s, t)
          BY <2>3, <2>7, <3>1 DEF Found, FetchedSays, Known
        <4>2. q \in {t} \X Files
          BY <2>4, <4>1 DEF Entered
        <4>3. NameOf(q) = t
          BY <4>2 DEF NameOf
        <4>4. ~Loaded(reset, have, t, c)
          BY <2>7, <4>1 DEF Loaded, Known
        <4> QED
          BY <4>3, <4>4
      <3>2. CASE Loaded(reset, have, t, c)
        <4>1. q = <<t, c>>
          BY <2>4, <2>7, <3>2, StateFields DEF Loaded
        <4>2. NameOf(<<t, c>>) = t
          BY <1>1, <2>4, ObjectName
        <4> QED
          BY <4>1, <4>2
      <3> QED
        BY <2>3, <3>1, <3>2 DEF FetchedSays
    <2> HIDE DEF q
    <2>9. q # o /\ <<t, c>> # o /\ NameOf(<<t, c>>) = t /\ t # c
      <3>1. NameOf(<<t, c>>) = t
        BY <1>1, <2>4, ObjectName
      <3>2. t # c
        BY <2>2, DocumentAssumption
      <3> QED
        BY <1>1, <2>8, <3>1, <3>2
    <2>10. r.files = have.files /\ r \in States /\ r.registered = s.registered
      BY <1>4, <2>3, <2>5, <2>6 DEF ResetSays, FetchedSays, LinkSays, ClassesSays
    <2>11. /\ r.class[c].template = q /\ r.class[c].uses = have.object[q].content
           /\ \A k \in Components \ {c} : r.class[k] = s.class[k]
      <3>1. r.class = link.class
        BY <2>6 DEF ClassesSays
      <3>2. \A k \in Components \ {c} : link.class[k] = reset.class[k]
        BY <2>3, <2>5 DEF LinkSays, FetchedSays
      <3>3. \A k \in Components \ {c} : reset.class[k] = s.class[k]
        BY <1>4 DEF ResetSays
      <3>4. link.class[c].template = q /\ link.class[c].uses = have.object[q].content
        BY <2>5 DEF LinkSays
      <3> QED
        BY <3>1, <3>2, <3>3, <3>4
    <2>12. /\ r.object[o].content = link.object[o].content
           /\ r.object[o].version = link.object[o].version
           /\ r.object[o].open = link.object[o].open
           /\ r.object[o].classes = {c}
           /\ \A p \in Objects \ {o} : r.object[p] = link.object[p]
      BY <2>6 DEF ClassesSays
    <2>13. /\ link.object[q].content = have.object[q].content
           /\ link.object[q].version = have.object[q].version
           /\ link.object[q].open = have.object[q].open
           /\ link.object[q].classes = {}
           /\ \A p \in Objects \ {q} : link.object[p] = have.object[p]
      BY <2>5 DEF LinkSays
    <2>14. /\ \A p \in Objects \ {<<t, c>>} : have.object[p] = reset.object[p]
           /\ \/ r.files = s.files /\ have.object[<<t, c>>] = reset.object[<<t, c>>]
              \/ /\ ~Known(s, t) /\ r.files = [s.files EXCEPT ![t] = <<t, c>>]
                 /\ have.object[<<t, c>>].open = FALSE /\ q = <<t, c>>
      <3>1. CASE Found(reset, have)
        <4>1. <<t, c>> \in Objects
          BY <1>1, <2>4, ObjectName
        <4> QED
          BY <2>7, <2>10, <3>1, <4>1 DEF Found
      <3>2. CASE Loaded(reset, have, t, c)
        BY <2>7, <2>8, <2>10, <3>2 DEF Loaded, Known
      <3> QED
        BY <2>3, <3>1, <3>2 DEF FetchedSays
    <2>15. /\ reset.object[o].content = s.object[o].content
           /\ reset.object[o].version = s.object[o].version
           /\ reset.object[o].open = s.object[o].open
           /\ \A p \in Objects \ {o} : reset.object[p] = s.object[p]
      BY <1>4 DEF ResetSays
    <2>16. SameText(s, r, o)
      <3>1. link.object[o] = have.object[o] /\ have.object[o] = reset.object[o]
        BY <1>1, <2>9, <2>13, <2>14
      <3> QED
        BY <2>12, <2>15, <3>1 DEF SameText
    <2>17. ASSUME NEW p \in Objects \ {o}
           PROVE  \/ r.object[p] = s.object[p]
                  \/ /\ NameOf(p) \in Templates /\ r.object[p].classes = {}
                     /\ SameText(s, r, p) \/ (~Known(s, t) /\ p = <<t, c>>)
      <3>1. r.object[p] = link.object[p] /\ reset.object[p] = s.object[p]
        BY <2>12, <2>15
      <3>2. CASE p = q
        <4>1. NameOf(p) \in Templates /\ r.object[p].classes = {}
          BY <2>2, <2>8, <2>13, <3>1, <3>2
        <4>2. CASE have.object[p] = reset.object[p]
          BY <2>13, <3>1, <3>2, <4>1, <4>2 DEF SameText
        <4>3. CASE have.object[p] # reset.object[p]
          BY <2>14, <4>1, <4>3
        <4> QED
          BY <4>2, <4>3
      <3>3. CASE p # q
        <4>1. r.object[p] = have.object[p]
          BY <2>13, <3>1, <3>3
        <4>2. have.object[p] = reset.object[p]
          BY <2>14, <3>3
        <4> QED
          BY <3>1, <4>1, <4>2
      <3> QED
        BY <3>2, <3>3
    <2>18. /\ Known(r, t) /\ r.class[c].template = r.files[t]
           /\ r.class[c].uses = r.object[r.files[t]].content
      <3>1. r.files[t] = q /\ Known(r, t)
        BY <2>3, <2>10 DEF q, FetchedSays, Known
      <3>2. r.object[q].content = have.object[q].content
        BY <2>4, <2>9, <2>12, <2>13
      <3> QED
        BY <2>11, <3>1, <3>2
    <2>19. \/ r.files = s.files
           \/ /\ ~Known(s, t) /\ r.files = [s.files EXCEPT ![t] = <<t, c>>]
              /\ r.object[<<t, c>>].open = FALSE
      <3>1. r.object[q] = link.object[q]
        BY <2>4, <2>9, <2>12
      <3> QED
        BY <2>13, <2>14, <3>1
    <2>20. ComponentSays(s, c, r)
      BY <1>7, <2>10, <2>11, <2>12, <2>16, <2>17, <2>18, <2>19 DEF ComponentSays
    <2> QED
      BY <2>1, <2>20 DEF r
  <1>8. CASE text \in Foreign /\ text \notin Garbled
    <2>1. IndexComponent(s, c) = reset /\ text # Empty
      BY <1>8, DocumentAssumption DEF IndexComponent, WithClasses, Reset
    <2> HIDE DEF reset
    <2> QED
      BY <1>4, <1>8, <2>1 DEF ResetSays, ComponentSays, SameText
  <1> QED
    BY <1>2, <1>3, <1>5, <1>6, <1>7, <1>8

\* What indexing a template does: its File loses its classes, and the classes
\* that point to it get the uses in its text.
TemplateSays(s, t, r) ==
    LET o == s.files[t]
    IN  /\ r \in States /\ r.files = s.files /\ r.registered = s.registered
        /\ \A p \in Objects \ {o} : r.object[p] = s.object[p]
        /\ SameText(s, r, o) /\ r.object[o].classes = {}
        /\ \A k \in Components :
              /\ r.class[k].template = s.class[k].template
              /\ IF k \in s.registered /\ s.class[k].template = o
                 THEN r.class[k].uses = s.object[o].content
                 ELSE r.class[k] = s.class[k]

LEMMA TemplateEffect ==
    ASSUME NEW s \in States, NEW t \in Templates, Known(s, t)
    PROVE  TemplateSays(s, t, IndexTemplate(s, t))
  <1> DEFINE o == s.files[t]
             bare == WithClasses(s, o, {})
             new == [k \in Components |->
                       IF k \in s.registered /\ s.class[k].template = o
                       THEN [s.class[k] EXCEPT !.uses = s.object[o].content]
                       ELSE s.class[k]]
             r == [bare EXCEPT !.class = new]
  <1>1. o \in Objects /\ s.object[o].content \in Texts
    <2>1. o \in Objects
      BY StateFields DEF Known, Files
    <2>2. s.object[o] \in File
      BY <2>1, StateFields
    <2> QED
      BY <2>1, <2>2 DEF File
  <1>2. ClassesSays(s, o, {}, bare)
    BY <1>1, ClassesEffect
  <1>3. IndexTemplate(s, t) = r
    BY DEF IndexTemplate, WithClasses
  <1>4. ASSUME NEW k \in Components
        PROVE  /\ new[k] \in Class /\ new[k].template = s.class[k].template
               /\ IF k \in s.registered /\ s.class[k].template = o
                  THEN new[k].uses = s.object[o].content
                  ELSE new[k] = s.class[k]
    <2>1. s.class[k] \in Class
      BY StateFields
    <2> HIDE DEF o
    <2> QED
      BY <1>1, <2>1 DEF Class
  <1>5. new \in [Components -> Class]
    BY <1>4
  <1> HIDE DEF bare, new, o
  <1>6. /\ r \in States /\ r.files = bare.files /\ r.registered = bare.registered
        /\ r.object = bare.object /\ r.class = new
    <2>1. bare \in States
      BY <1>2 DEF ClassesSays
    <2>2. r = [files |-> bare.files, object |-> bare.object, registered |-> bare.registered,
               class |-> new, lastSeen |-> bare.lastSeen]
      BY <2>1, StateFields
    <2> HIDE DEF r
    <2> QED
      BY <1>5, <2>1, <2>2, StateFields DEF States
  <1> HIDE DEF r
  <1>7. TemplateSays(s, t, r)
    BY <1>2, <1>4, <1>6 DEF ClassesSays, TemplateSays, SameText, o
  <1> QED
    BY <1>3, <1>7

\* The classes that point to a File of a template.
Showing(s, all, t) ==
    {c \in all : s.class[c].template # None /\ NameOf(s.class[c].template) = t}

\* What Postprocess does: classes are registered, and the Files of the
\* templates among those postprocessed get the classes that show them.
PostprocessSays(s, some, r) ==
    LET all == s.registered \cup UNION {FileAt(s, f).classes : f \in some}
    IN  /\ r \in States /\ r.files = s.files /\ r.class = s.class
        /\ r.registered = all
        /\ \A o \in Objects :
              /\ SameText(s, r, o)
              /\ IF NameOf(o) \in some \cap Templates /\ s.files[NameOf(o)] = o
                 THEN r.object[o].classes = s.object[o].classes \cup Showing(s, all, NameOf(o))
                 ELSE r.object[o] = s.object[o]

LEMMA PostprocessEffect ==
    ASSUME NEW s \in States, NEW some \in SUBSET Files, \A f \in some : Known(s, f)
    PROVE  PostprocessSays(s, some, Postprocess(s, some))
  <1> DEFINE all == s.registered \cup UNION {FileAt(s, f).classes : f \in some}
             new == [o \in Objects |->
                       IF NameOf(o) \in some \cap Templates /\ s.files[NameOf(o)] = o
                       THEN [s.object[o] EXCEPT !.classes = @ \cup Showing(s, all, NameOf(o))]
                       ELSE s.object[o]]
             one == [s EXCEPT !.registered = all]
             r   == [one EXCEPT !.object = new]
  <1>1. all \subseteq Components
    <2>1. \A f \in some : s.files[f] \in Objects
      BY StateFields DEF Known
    <2>2. \A f \in some : FileAt(s, f) \in File
      BY <2>1, StateFields DEF FileAt
    <2>3. \A f \in some : FileAt(s, f).classes \subseteq Components
      BY <2>2 DEF File
    <2> QED
      BY <2>3, StateFields
  <1>2. Postprocess(s, some) = r
    BY DEF Postprocess, Showing
  <1> HIDE DEF all
  <1>3. ASSUME NEW o \in Objects
        PROVE  /\ new[o] \in File
               /\ new[o].content = s.object[o].content
               /\ new[o].version = s.object[o].version
               /\ new[o].open = s.object[o].open
               /\ IF NameOf(o) \in some \cap Templates /\ s.files[NameOf(o)] = o
                  THEN new[o].classes = s.object[o].classes \cup Showing(s, all, NameOf(o))
                  ELSE new[o] = s.object[o]
    <2>1. s.object[o] \in File
      BY StateFields
    <2>2. Showing(s, all, NameOf(o)) \subseteq Components
      BY <1>1 DEF Showing
    <2> QED
      BY <2>1, <2>2 DEF File
  <1>4. new \in [Objects -> File]
    BY <1>3
  <1> HIDE DEF new
  <1>5. /\ r \in States /\ r.files = s.files /\ r.class = s.class
        /\ r.registered = all /\ r.object = new
    <2>1. one = [files |-> s.files, object |-> s.object, registered |-> all,
                 class |-> s.class, lastSeen |-> s.lastSeen]
      BY StateFields
    <2> HIDE DEF one
    <2>2. r = [files |-> s.files, object |-> new, registered |-> all,
               class |-> s.class, lastSeen |-> s.lastSeen]
      BY <2>1
    <2> HIDE DEF r
    <2> QED
      BY <1>1, <1>4, <2>2, StateFields DEF States
  <1> HIDE DEF r
  <1>6. PostprocessSays(s, some, r)
    BY <1>3, <1>5 DEF PostprocessSays, SameText, all
  <1> QED
    BY <1>2, <1>6

\* What the index of a File that is in nobody's hands does: it may bring a
\* template in, and it resets the template.
OrphanSays(s, c, r) ==
    /\ r \in States /\ r.registered = s.registered /\ r.class = s.class
    /\ \/ r.files = s.files
       \/ \E t \in Templates : /\ ~Known(s, t)
                               /\ r.files = [s.files EXCEPT ![t] = <<t, c>>]
                               /\ r.object[<<t, c>>].open = FALSE
    /\ \A p \in Objects :
          \/ r.object[p] = s.object[p]
          \/ /\ NameOf(p) \in Templates /\ r.object[p].classes = {}
             /\ SameText(s, r, p) \/ (~Known(s, NameOf(p)) /\ p = <<NameOf(p), c>>)

LEMMA OrphanEffect ==
    ASSUME disk \in [Files -> Texts \cup {None}],
           NEW s \in States, Entered(s), NEW c \in Components, NEW text \in Texts, text # Empty
    PROVE  OrphanSays(s, c, IndexOrphan(s, c, text))
  <1> DEFINE t == TemplateOf(text)
             have == Fetched(s, t, c)
             q == have.files[t]
             r == WithClasses(have, q, {})
  <1>1. CASE t = None
    BY <1>1 DEF IndexOrphan, OrphanSays
  <1>2. CASE t # None
    <2>1. IndexOrphan(s, c, text) = r
      BY <1>2 DEF IndexOrphan, WithClasses
    <2>2. t \in Templates /\ disk[t] # None /\ t \in Files /\ c \in Files
      BY <1>2, DocumentAssumption DEF TemplateOf, Files
    <2>3. FetchedSays(s, t, c, have)
      BY <2>2, FetchedEffect
    <2> HIDE DEF have, t
    <2>4. q \in Objects
      BY <2>2, <2>3, StateFields DEF FetchedSays, Known
    <2>5. NameOf(q) = t /\ (Loaded(s, have, t, c) => q = <<t, c>>)
      <3>1. CASE Found(s, have)
        <4>1. q = s.files[t] /\ Known(s, t)
          BY <2>3, <3>1 DEF Found, FetchedSays, Known
        <4>2. q \in {t} \X Files
          BY <2>2, <4>1 DEF Entered
        <4>3. NameOf(q) = t
          BY <4>2 DEF NameOf
        <4>4. ~Loaded(s, have, t, c)
          BY <4>1 DEF Loaded
        <4> QED
          BY <4>3, <4>4
      <3>2. CASE Loaded(s, have, t, c)
        <4>1. q = <<t, c>>
          BY <2>2, <3>2, StateFields DEF Loaded
        <4>2. NameOf(<<t, c>>) = t
          BY <2>2, ObjectName
        <4> QED
          BY <4>1, <4>2
      <3> QED
        BY <2>3, <3>1, <3>2 DEF FetchedSays
    <2>6. ClassesSays(have, q, {}, r)
      BY <2>3, <2>4, ClassesEffect DEF FetchedSays
    <2> HIDE DEF q, r
    <2>7. /\ r \in States /\ r.registered = s.registered /\ r.class = s.class
          /\ r.files = have.files
      BY <2>3, <2>6 DEF FetchedSays, ClassesSays
    <2>8. /\ \A p \in Objects \ {q} : r.object[p] = have.object[p]
          /\ SameText(have, r, q) /\ r.object[q].classes = {}
      BY <2>6 DEF ClassesSays, SameText
    <2>9. CASE Found(s, have)
      <3>1. r.files = s.files /\ \A p \in Objects : have.object[p] = s.object[p]
        BY <2>7, <2>9 DEF Found
      <3>2. SameText(s, r, q)
        BY <2>4, <2>8, <3>1 DEF SameText
      <3> QED
        BY <2>1, <2>2, <2>5, <2>7, <2>8, <3>1, <3>2 DEF OrphanSays
    <2>10. CASE Loaded(s, have, t, c)
      <3>1. q = <<t, c>> /\ ~Known(s, t) /\ r.files = [s.files EXCEPT ![t] = <<t, c>>]
        BY <2>5, <2>7, <2>10 DEF Loaded
      <3>2. r.object[q].open = FALSE
        BY <2>8, <2>10, <3>1 DEF Loaded, SameText
      <3>3. \A p \in Objects \ {q} : r.object[p] = s.object[p]
        BY <2>8, <2>10, <3>1 DEF Loaded
      <3> QED
        BY <2>1, <2>2, <2>4, <2>5, <2>7, <2>8, <3>1, <3>2, <3>3 DEF OrphanSays
    <2> QED
      BY <2>3, <2>9, <2>10 DEF FetchedSays
  <1> QED
    BY <1>1, <1>2

-----------------------------------------------------------------------------
(* What the operations keep.                                               *)

\* A file that is known stays the one it is, with its text; one that comes
\* is closed.
Keeps(s, r) ==
    /\ \A f \in Files : Known(s, f) =>
          r.files[f] = s.files[f] /\ SameText(s, r, s.files[f])
    /\ \A f \in Files : Known(r, f) /\ ~Known(s, f) => ~FileAt(r, f).open

\* The Files of all components but one stay as they are.
Others(s, r, f) ==
    \A k \in Components \ {f} :
        /\ Known(r, k) <=> Known(s, k)
        /\ Known(s, k) => r.files[k] = s.files[k] /\ FileAt(r, k) = FileAt(s, k)

Closed(s) == \A o \in Objects : ~s.object[o].open

LEMMA KnownFile ==
    ASSUME NEW s \in States, NEW f \in Files, Known(s, f)
    PROVE  /\ s.files[f] \in Objects /\ FileAt(s, f) = s.object[s.files[f]]
           /\ FileAt(s, f).content \in Texts /\ FileAt(s, f).version \in Nat
           /\ FileAt(s, f).open \in BOOLEAN
           /\ FileAt(s, f).classes \in SUBSET Components
           /\ Entered(s) => NameOf(s.files[f]) = f
  <1>1. s.files[f] \in Objects
    BY StateFields DEF Known
  <1>2. s.object[s.files[f]] \in File /\ FileAt(s, f) = s.object[s.files[f]]
    BY <1>1, StateFields DEF FileAt
  <1>3. ASSUME Entered(s) PROVE NameOf(s.files[f]) = f
    <2>1. s.files[f] \in {f} \X Files
      BY <1>3 DEF Entered
    <2> QED
      BY <2>1 DEF NameOf
  <1> QED
    BY <1>1, <1>2, <1>3 DEF File

LEMMA KeepsTransitive ==
    ASSUME NEW s \in States, NEW r \in States, NEW q \in States, Keeps(s, r), Keeps(r, q)
    PROVE  Keeps(s, q)
  <1>1. ASSUME NEW f \in Files, Known(s, f)
        PROVE  q.files[f] = s.files[f] /\ SameText(s, q, s.files[f])
    <2>1. r.files[f] = s.files[f] /\ SameText(s, r, s.files[f]) /\ Known(r, f)
      BY <1>1 DEF Keeps, Known
    <2>2. q.files[f] = r.files[f] /\ SameText(r, q, r.files[f])
      BY <2>1 DEF Keeps
    <2> QED
      BY <2>1, <2>2 DEF SameText
  <1>2. ASSUME NEW f \in Files, Known(q, f), ~Known(s, f) PROVE ~FileAt(q, f).open
    <2>1. CASE Known(r, f)
      <3>1. ~FileAt(r, f).open
        BY <1>2, <2>1 DEF Keeps
      <3>2. q.files[f] = r.files[f] /\ SameText(r, q, r.files[f])
        BY <2>1 DEF Keeps
      <3> QED
        BY <3>1, <3>2 DEF SameText, FileAt
    <2>2. CASE ~Known(r, f)
      BY <1>2, <2>2 DEF Keeps
    <2> QED
      BY <2>1, <2>2
  <1> QED
    BY <1>1, <1>2 DEF Keeps

LEMMA OthersTransitive ==
    ASSUME NEW s, NEW r, NEW q, NEW f, Others(s, r, f), Others(r, q, f)
    PROVE  Others(s, q, f)
  <1> SUFFICES ASSUME NEW k \in Components \ {f}
               PROVE  /\ Known(q, k) <=> Known(s, k)
                      /\ Known(s, k) => q.files[k] = s.files[k] /\ FileAt(q, k) = FileAt(s, k)
    BY DEF Others
  <1>1. /\ Known(r, k) <=> Known(s, k)
        /\ Known(s, k) => r.files[k] = s.files[k] /\ FileAt(r, k) = FileAt(s, k)
    BY DEF Others
  <1>2. /\ Known(q, k) <=> Known(r, k)
        /\ Known(r, k) => q.files[k] = r.files[k] /\ FileAt(q, k) = FileAt(r, k)
    BY DEF Others
  <1> QED
    BY <1>1, <1>2

LEMMA FilesApart == Components \subseteq Files /\ Templates \subseteq Files
                    /\ \A c \in Components, t \in Templates : c # t
  BY DocumentAssumption DEF Files

-----------------------------------------------------------------------------
(* ... when a file is read ...                                             *)

LEMMA LoadKeeps ==
    ASSUME NEW s \in States, Sound(s), NEW f \in Files, NEW by \in Files,
           NEW version \in Nat, NEW r, LoadSays(s, f, version, by, r)
    PROVE  /\ Sound(r) /\ Others(s, r, f) /\ Known(r, f) /\ r.files[f] = <<f, by>>
           /\ Closed(s) => Closed(r)
           /\ ~Known(s, f) => Keeps(s, r)
           /\ Exact(s) /\ (~Known(s, f) \/ f \in Components) => Exact(r)
  <1>1. /\ r \in States /\ r.files = [s.files EXCEPT ![f] = <<f, by>>]
        /\ r.registered = s.registered /\ r.class = s.class
        /\ \A o \in Objects \ {<<f, by>>} : r.object[o] = s.object[o]
        /\ r.object[<<f, by>>].open = FALSE
        /\ r.object[<<f, by>>].classes = {}
    BY DEF LoadSays
  <1>2. /\ <<f, by>> \in Objects /\ NameOf(<<f, by>>) = f /\ <<f, by>> \in {f} \X Files
        /\ <<f, by>> # None
    BY ObjectName
  <1>3. r.files[f] = <<f, by>> /\ \A g \in Files \ {f} : r.files[g] = s.files[g]
    BY <1>1, StateFields
  <1>4. Known(r, f) /\ \A g \in Files \ {f} : Known(r, g) <=> Known(s, g)
    BY <1>2, <1>3 DEF Known
  <1>5. Entered(s)
    BY DEF Sound
  <1>6. \A g \in Files \ {f} : Known(s, g) =>
            s.files[g] \in Objects /\ s.files[g] # <<f, by>> /\ FileAt(r, g) = FileAt(s, g)
    <2> SUFFICES ASSUME NEW g \in Files \ {f}, Known(s, g)
                 PROVE  s.files[g] \in Objects /\ s.files[g] # <<f, by>>
                        /\ FileAt(r, g) = FileAt(s, g)
      OBVIOUS
    <2>1. s.files[g] \in Objects /\ NameOf(s.files[g]) = g
      BY <1>5, KnownFile
    <2> QED
      BY <1>1, <1>2, <1>3, <2>1 DEF FileAt
  <1>7. Others(s, r, f)
    BY <1>3, <1>4, <1>6, FilesApart DEF Others
  <1>8. Entered(r)
    <2>1. \A g \in Files : Known(r, g) => r.files[g] \in {g} \X Files
      BY <1>2, <1>3, <1>4, <1>5 DEF Entered
    <2>2. \A c \in Components : r.class[c].template # None =>
            NameOf(r.class[c].template) \in Templates /\ Known(r, NameOf(r.class[c].template))
      BY <1>1, <1>4, <1>5, FilesApart DEF Entered
    <2>3. \A c \in r.registered : Known(r, c)
      BY <1>1, <1>4, <1>5, FilesApart, StateFields DEF Entered
    <2>4. ASSUME NEW o \in Objects, NEW c \in r.object[o].classes PROVE Known(r, c)
      <3>1. o # <<f, by>> /\ c \in s.object[o].classes
        BY <1>1, <2>4
      <3>2. s.object[o] \in File
        BY StateFields
      <3>3. c \in Files /\ Known(s, c)
        BY <1>5, <3>1, <3>2, FilesApart DEF Entered, File
      <3> QED
        BY <1>4, <3>3
    <2> QED
      BY <2>1, <2>2, <2>3, <2>4 DEF Entered
  <1>9. \A c \in Components : Known(r, c) => Linked(r, c)
    <2> SUFFICES ASSUME NEW c \in Components, Known(r, c) PROVE Linked(r, c)
      OBVIOUS
    <2>1. CASE c = f
      BY <1>1, <1>3, <2>1 DEF Linked, FileAt
    <2>2. CASE c # f
      BY <1>1, <1>4, <1>6, <2>2, FilesApart DEF Sound, Linked
    <2> QED
      BY <2>1, <2>2
  <1>10. Closed(s) => Closed(r)
    BY <1>1 DEF Closed
  <1>11. ASSUME ~Known(s, f) PROVE Keeps(s, r)
    <2>1. ASSUME NEW g \in Files, Known(s, g)
          PROVE  r.files[g] = s.files[g] /\ SameText(s, r, s.files[g])
      <3>1. g # f
        BY <1>11, <2>1
      <3> QED
        BY <1>1, <1>3, <1>6, <2>1, <3>1 DEF SameText
    <2>2. ASSUME NEW g \in Files, Known(r, g), ~Known(s, g) PROVE ~FileAt(r, g).open
      BY <1>1, <1>3, <1>4, <2>2 DEF FileAt
    <2> QED
      BY <2>1, <2>2 DEF Keeps
  <1>12. ASSUME Exact(s), ~Known(s, f) \/ f \in Components PROVE Exact(r)
    <2> SUFFICES ASSUME NEW c \in Components, r.class[c].template # None
                 PROVE  LET o == r.class[c].template
                        IN  /\ r.files[NameOf(o)] = o
                            /\ Known(r, c) /\ FileAt(r, c).classes # {} =>
                                  r.class[c].uses = r.object[o].content
      BY DEF Exact
    <2> DEFINE o == s.class[c].template
    <2>1. /\ r.class[c] = s.class[c] /\ NameOf(o) \in Templates /\ Known(s, NameOf(o))
          /\ s.files[NameOf(o)] = o
      BY <1>1, <1>5, <1>12 DEF Entered, Exact
    <2>2. NameOf(o) # f /\ NameOf(o) \in Files
      BY <1>12, <2>1, FilesApart
    <2>3. r.files[NameOf(o)] = o /\ r.object[o] = s.object[o]
      BY <1>1, <1>3, <1>6, <2>1, <2>2
    <2>4. ASSUME Known(r, c), FileAt(r, c).classes # {}
          PROVE  Known(s, c) /\ FileAt(s, c).classes # {}
      BY <1>1, <1>3, <1>4, <1>6, <2>4, FilesApart DEF FileAt
    <2> QED
      BY <1>12, <2>1, <2>3, <2>4 DEF Exact
  <1> QED
    BY <1>3, <1>4, <1>7, <1>8, <1>9, <1>10, <1>11, <1>12 DEF Sound

-----------------------------------------------------------------------------
(* ... when a component is indexed ...                                     *)

\* Sound but for the class in a component whose text is new.
SoundBut(s, c) ==
    /\ Entered(s)
    /\ \A k \in Components \ {c} : Known(s, k) => Linked(s, k)
    /\ Known(s, c) => FileAt(s, c).classes \subseteq {c}

\* The Files after a component has been indexed.
LEMMA ComponentFiles ==
    ASSUME NEW s \in States, Entered(s), NEW c \in Components, Known(s, c),
           NEW r, ComponentSays(s, c, r)
    PROVE  /\ Others(s, r, c) /\ Keeps(s, r)
           /\ Closed(s) => Closed(r)
           /\ \A f \in Files : Known(s, f) => Known(r, f)
           /\ \A f \in Files : Known(r, f) => r.files[f] \in {f} \X Files
           /\ \A k \in Components : Known(r, k) => Known(s, k)
           /\ r.files[c] = s.files[c]
  <1> DEFINE o    == s.files[c]
             text == s.object[o].content
             t    == TemplateOf(text)
             good == text \notin Garbled \cup Foreign /\ text # Empty
             new  == <<t, c>>
  <1>1. o \in Objects /\ NameOf(o) = c /\ text \in Texts
    BY KnownFile, FilesApart DEF FileAt
  <1>2. t \in Templates \cup {None}
    BY <1>1, DocumentAssumption DEF TemplateOf
  <1> HIDE DEF o, text, t
  <1>3. /\ \/ r.files = s.files
           \/ /\ good /\ t # None /\ ~Known(s, t)
              /\ r.files = [s.files EXCEPT ![t] = new]
              /\ r.object[new].open = FALSE
        /\ \A p \in Objects \ {o} :
              \/ r.object[p] = s.object[p]
              \/ /\ NameOf(p) \in Templates
                 /\ SameText(s, r, p) \/ (good /\ t # None /\ ~Known(s, t) /\ p = new)
        /\ SameText(s, r, o)
        /\ good /\ t # None => Known(r, t)
    BY DEF ComponentSays, o, text, t
  <1> HIDE DEF good, new
  <1>4. ASSUME r.files # s.files
        PROVE  /\ t \in Templates /\ ~Known(s, t) /\ new \in Objects /\ NameOf(new) = t
               /\ new \in {t} \X Files /\ new # None
               /\ r.files[t] = new /\ \A f \in Files \ {t} : r.files[f] = s.files[f]
               /\ r.object[new].open = FALSE
    <2>1. t \in Templates /\ ~Known(s, t) /\ r.files = [s.files EXCEPT ![t] = new]
          /\ r.object[new].open = FALSE
      BY <1>2, <1>3, <1>4
    <2>2. t \in Files /\ c \in Files
      BY <2>1, FilesApart
    <2>3. new \in Objects /\ NameOf(new) = t /\ new \in {t} \X Files /\ new # None
      BY <2>2, ObjectName DEF new
    <2> QED
      BY <2>1, <2>2, <2>3, StateFields
  <1>5. \A f \in Files : Known(s, f) => r.files[f] = s.files[f] /\ Known(r, f)
    BY <1>4 DEF Known
  <1>6. \A f \in Files : Known(r, f) =>
           \/ r.files[f] = s.files[f] /\ Known(s, f)
           \/ f = t /\ r.files # s.files
    BY <1>4 DEF Known
  <1>7. \A f \in Files : Known(r, f) => r.files[f] \in {f} \X Files
    BY <1>4, <1>6 DEF Entered
  <1>8. \A k \in Components : Known(r, k) => Known(s, k)
    BY <1>4, <1>6, FilesApart
  <1>9. Others(s, r, c)
    <2> SUFFICES ASSUME NEW k \in Components \ {c}, Known(s, k)
                 PROVE  FileAt(r, k) = FileAt(s, k)
      BY <1>5, <1>8, FilesApart DEF Others
    <2>1. s.files[k] \in Objects /\ NameOf(s.files[k]) = k /\ r.files[k] = s.files[k]
      BY <1>5, KnownFile, FilesApart
    <2>2. s.files[k] # o /\ NameOf(s.files[k]) \notin Templates
      BY <1>1, <2>1, FilesApart
    <2> QED
      BY <1>3, <2>1, <2>2 DEF FileAt
  <1>10. Keeps(s, r)
    <2>1. ASSUME NEW f \in Files, Known(s, f) PROVE SameText(s, r, s.files[f])
      <3>1. s.files[f] \in Objects /\ NameOf(s.files[f]) = f
        BY <2>1, KnownFile
      <3>2. ASSUME t # None, ~Known(s, t) PROVE s.files[f] # new
        <4>1. t \in Files /\ c \in Files /\ f # t
          BY <1>2, <2>1, <3>2, FilesApart
        <4>2. NameOf(new) = t
          BY <4>1, ObjectName DEF new
        <4> QED
          BY <3>1, <4>1, <4>2
      <3> QED
        BY <1>3, <3>1, <3>2 DEF SameText
    <2>2. ASSUME NEW f \in Files, Known(r, f), ~Known(s, f) PROVE ~FileAt(r, f).open
      BY <1>4, <1>6, <2>2 DEF FileAt
    <2> QED
      BY <1>5, <2>1, <2>2 DEF Keeps
  <1>11. ASSUME Closed(s) PROVE Closed(r)
    <2> SUFFICES ASSUME NEW p \in Objects PROVE ~r.object[p].open
      BY DEF Closed
    <2>1. ~s.object[p].open
      BY <1>11 DEF Closed
    <2>2. CASE good /\ t # None /\ ~Known(s, t) /\ p = new
      <3>1. Known(r, t)
        BY <1>3, <2>2
      <3>2. r.files # s.files
        BY <2>2, <3>1 DEF Known
      <3> QED
        BY <1>4, <2>2, <3>2
    <2>3. CASE ~(good /\ t # None /\ ~Known(s, t) /\ p = new)
      <3>1. r.object[p] = s.object[p] \/ SameText(s, r, p)
        BY <1>3, <2>3
      <3> QED
        BY <2>1, <3>1 DEF SameText
    <2> QED
      BY <2>2, <2>3
  <1>12. r.files[c] = s.files[c]
    BY <1>5, FilesApart
  <1> QED
    BY <1>5, <1>7, <1>8, <1>9, <1>10, <1>11, <1>12

LEMMA ComponentSound ==
    ASSUME NEW s \in States, NEW c \in Components, SoundBut(s, c), Known(s, c),
           NEW r, ComponentSays(s, c, r)
    PROVE  Sound(r)
  <1> DEFINE o    == s.files[c]
             text == s.object[o].content
             t    == TemplateOf(text)
             good == text \notin Garbled \cup Foreign /\ text # Empty
  <1>1. Entered(s)
    BY DEF SoundBut
  <1>2. /\ Others(s, r, c)
        /\ \A f \in Files : Known(s, f) => Known(r, f)
        /\ \A f \in Files : Known(r, f) => r.files[f] \in {f} \X Files
        /\ \A k \in Components : Known(r, k) => Known(s, k)
        /\ r.files[c] = s.files[c]
    BY <1>1, ComponentFiles
  <1>3. o \in Objects /\ text \in Texts
    BY KnownFile, FilesApart DEF FileAt
  <1>4. t \in Templates \cup {None}
    BY <1>3, DocumentAssumption DEF TemplateOf
  <1>5. /\ r \in States /\ r.registered = s.registered
        /\ \A k \in Components \ {c} : r.class[k] = s.class[k]
        /\ \A p \in Objects \ {o} : r.object[p] = s.object[p] \/ r.object[p].classes = {}
        /\ r.object[o].content = text
        /\ text \notin Garbled => r.object[o].classes = IF good THEN {c} ELSE {}
        /\ text \in Garbled => r = s
        /\ good /\ t = None => r.class[c].template = None
        /\ good /\ t # None => Known(r, t) /\ r.class[c].template = r.files[t]
        /\ ~good => r.class[c].template = None \/ r.class[c] = s.class[c]
    BY DEF ComponentSays, SameText
  <1> HIDE DEF o, text, t, good
  <1>6. \A k \in Components : r.class[k].template # None =>
            NameOf(r.class[k].template) \in Templates /\ Known(r, NameOf(r.class[k].template))
    <2> SUFFICES ASSUME NEW k \in Components, r.class[k].template # None
                 PROVE  NameOf(r.class[k].template) \in Templates
                        /\ Known(r, NameOf(r.class[k].template))
      OBVIOUS
    <2>1. CASE r.class[k] = s.class[k]
      <3>1. NameOf(s.class[k].template) \in Templates /\ Known(s, NameOf(s.class[k].template))
        BY <1>1, <2>1 DEF Entered
      <3> QED
        BY <1>2, <2>1, <3>1, FilesApart
    <2>2. CASE r.class[k] # s.class[k]
      <3>1. k = c /\ good /\ t # None
        BY <1>5, <2>2
      <3>2. t \in Templates /\ Known(r, t) /\ r.class[k].template = r.files[t]
        BY <1>4, <1>5, <3>1
      <3>3. r.files[t] \in {t} \X Files
        BY <1>2, <3>2, FilesApart
      <3>4. NameOf(r.files[t]) = t
        BY <3>3 DEF NameOf
      <3> QED
        BY <3>2, <3>4
    <2> QED
      BY <2>1, <2>2
  <1>7. \A k \in r.registered : Known(r, k)
    BY <1>1, <1>2, <1>5, FilesApart, StateFields DEF Entered
  <1>8. ASSUME NEW p \in Objects, NEW k \in r.object[p].classes PROVE Known(r, k)
    <2>1. CASE k = c
      BY <1>2, <2>1, FilesApart
    <2>2. CASE k # c
      <3>1. k \in s.object[p].classes
        <4>1. CASE p = o /\ text \in Garbled
          BY <1>5, <1>8, <4>1
        <4>2. CASE p = o /\ text \notin Garbled
          BY <1>5, <1>8, <2>2, <4>2
        <4>3. CASE p # o
          BY <1>5, <1>8, <4>3
        <4> QED
          BY <4>1, <4>2, <4>3
      <3>2. s.object[p] \in File
        BY StateFields
      <3>3. k \in Files /\ Known(s, k)
        BY <1>1, <3>1, <3>2, FilesApart DEF Entered, File
      <3> QED
        BY <1>2, <3>3
    <2> QED
      BY <2>1, <2>2
  <1>9. Entered(r)
    BY <1>2, <1>6, <1>7, <1>8 DEF Entered
  <1>10. ASSUME NEW k \in Components, Known(r, k) PROVE Linked(r, k)
    <2>1. CASE k # c
      <3>1. Linked(s, k) /\ FileAt(r, k) = FileAt(s, k) /\ r.class[k] = s.class[k]
        BY <1>2, <1>5, <1>10, <2>1 DEF SoundBut, Others
      <3> QED
        BY <3>1 DEF Linked
    <2>2. CASE k = c /\ text \in Garbled
      BY <1>5, <2>2, DocumentAssumption DEF SoundBut, Linked, FileAt, o, text
    <2>3. CASE k = c /\ text \notin Garbled
      <3>1. FileAt(r, c) = r.object[o]
        BY <1>2 DEF FileAt, o
      <3>2. FileAt(r, c).classes \subseteq {c}
        BY <1>5, <2>3, <3>1
      <3>3. ASSUME FileAt(r, c).classes # {}
            PROVE  /\ good /\ FileAt(r, c).content = text
                   /\ t = None => r.class[c].template = None
                   /\ t # None => NameOf(r.class[c].template) = t
        <4>1. good /\ FileAt(r, c).content = text
          BY <1>5, <2>3, <3>1, <3>3
        <4>2. ASSUME t # None PROVE NameOf(r.class[c].template) = t
          <5>1. t \in Templates /\ Known(r, t) /\ r.class[c].template = r.files[t]
            BY <1>4, <1>5, <4>1, <4>2
          <5>2. r.files[t] \in {t} \X Files
            BY <1>2, <5>1, FilesApart
          <5>3. NameOf(r.files[t]) = t
            BY <5>2 DEF NameOf
          <5> QED
            BY <5>1, <5>3
        <4> QED
          BY <1>5, <4>1, <4>2
      <3> QED
        BY <2>3, <3>2, <3>3 DEF Linked, TemplateOf, t, good
    <2> QED
      BY <2>1, <2>2, <2>3
  <1> QED
    BY <1>9, <1>10 DEF Sound

LEMMA ComponentExact ==
    ASSUME NEW s \in States, NEW c \in Components, SoundBut(s, c), Known(s, c), Exact(s),
           NEW r, ComponentSays(s, c, r)
    PROVE  Exact(r)
  <1> DEFINE o    == s.files[c]
             text == s.object[o].content
             t    == TemplateOf(text)
             good == text \notin Garbled \cup Foreign /\ text # Empty
  <1>1. Entered(s)
    BY DEF SoundBut
  <1>2. /\ Others(s, r, c) /\ Keeps(s, r)
        /\ \A f \in Files : Known(r, f) => r.files[f] \in {f} \X Files
        /\ r.files[c] = s.files[c]
    BY <1>1, ComponentFiles
  <1>3. o \in Objects /\ text \in Texts
    BY KnownFile, FilesApart DEF FileAt
  <1>4. t \in Templates \cup {None}
    BY <1>3, DocumentAssumption DEF TemplateOf
  <1>5. /\ \A k \in Components \ {c} : r.class[k] = s.class[k]
        /\ text \notin Garbled => r.object[o].classes = IF good THEN {c} ELSE {}
        /\ text \in Garbled => r = s
        /\ good /\ t = None => r.class[c].template = None
        /\ good /\ t # None => /\ Known(r, t) /\ r.class[c].template = r.files[t]
                               /\ r.class[c].uses = r.object[r.files[t]].content
        /\ ~good => r.class[c].template = None \/ r.class[c] = s.class[c]
    BY DEF ComponentSays
  <1> HIDE DEF o, text, t, good
  <1> SUFFICES ASSUME NEW k \in Components, r.class[k].template # None
               PROVE  LET p == r.class[k].template
                      IN  /\ r.files[NameOf(p)] = p
                          /\ Known(r, k) /\ FileAt(r, k).classes # {} =>
                                r.class[k].uses = r.object[p].content
    BY DEF Exact
  <1> DEFINE p == r.class[k].template
  <1>6. CASE r.class[k] = s.class[k]
    <2>1. NameOf(p) \in Files /\ Known(s, NameOf(p)) /\ s.files[NameOf(p)] = p
      BY <1>1, <1>6, FilesApart DEF Entered, Exact
    <2>2. r.files[NameOf(p)] = p /\ r.object[p].content = s.object[p].content
      BY <1>2, <2>1 DEF Keeps, SameText
    <2>3. CASE k # c
      <3>1. ASSUME Known(r, k) PROVE Known(s, k) /\ FileAt(r, k) = FileAt(s, k)
        BY <1>2, <2>3, <3>1 DEF Others
      <3> QED
        BY <1>6, <2>2, <3>1 DEF Exact
    <2>4. CASE k = c
      <3> SUFFICES ASSUME text \notin Garbled
                   PROVE  FileAt(r, k).classes # {} => r.class[k].uses = r.object[p].content
        BY <1>5, <2>2 DEF Exact
      <3>1. FileAt(r, c).classes = IF good THEN {c} ELSE {}
        BY <1>2, <1>5 DEF FileAt, o
      <3>2. ASSUME good PROVE r.class[c].uses = r.object[p].content
        BY <1>5, <2>4, <3>2
      <3> QED
        BY <2>2, <2>4, <3>1, <3>2
    <2> QED
      BY <2>3, <2>4
  <1>7. CASE r.class[k] # s.class[k]
    <2>1. k = c /\ good /\ t # None
      BY <1>5, <1>7
    <2>2. /\ t \in Templates /\ Known(r, t) /\ p = r.files[t]
          /\ r.class[k].uses = r.object[p].content
      BY <1>4, <1>5, <2>1
    <2>3. r.files[t] \in {t} \X Files
      BY <1>2, <2>2, FilesApart
    <2>4. NameOf(r.files[t]) = t
      BY <2>3 DEF NameOf
    <2> QED
      BY <2>2, <2>4
  <1> QED
    BY <1>6, <1>7

-----------------------------------------------------------------------------
(* ... when a template is indexed ...                                      *)

\* Exact but for the uses of a template whose text is new.
ExactBut(s, t) ==
    \A c \in Components : s.class[c].template # None =>
        LET o == s.class[c].template
        IN  /\ s.files[NameOf(o)] = o
            /\ Known(s, c) /\ FileAt(s, c).classes # {} /\ NameOf(o) # t =>
                  s.class[c].uses = s.object[o].content

\* The classes found in a component's file are registered.
Registered(s) ==
    \A k \in Components : Known(s, k) => FileAt(s, k).classes \subseteq s.registered

LEMMA TemplateKeeps ==
    ASSUME NEW s \in States, Sound(s), NEW t \in Templates, Known(s, t),
           NEW r, TemplateSays(s, t, r)
    PROVE  /\ Sound(r) /\ Others(s, r, t) /\ Keeps(s, r)
           /\ Closed(s) => Closed(r)
           /\ ExactBut(s, t) /\ Registered(s) => Exact(r)
           /\ Exact(s) => Exact(r)
  <1> DEFINE o == s.files[t]
  <1>1. Entered(s)
    BY DEF Sound
  <1>2. o \in Objects /\ NameOf(o) = t /\ t \in Files
    BY <1>1, KnownFile, FilesApart
  <1>3. /\ r \in States /\ r.files = s.files /\ r.registered = s.registered
        /\ \A p \in Objects \ {o} : r.object[p] = s.object[p]
        /\ SameText(s, r, o) /\ r.object[o].classes = {}
        /\ \A k \in Components :
              /\ r.class[k].template = s.class[k].template
              /\ IF k \in s.registered /\ s.class[k].template = o
                 THEN r.class[k].uses = s.object[o].content
                 ELSE r.class[k] = s.class[k]
    BY DEF TemplateSays
  <1> HIDE DEF o
  <1>4. \A f \in Files : Known(r, f) <=> Known(s, f)
    BY <1>3 DEF Known
  <1>5. \A p \in Objects : SameText(s, r, p) /\ r.object[p].classes \subseteq s.object[p].classes
    BY <1>3 DEF SameText
  <1>6. ASSUME NEW k \in Components, Known(s, k) PROVE FileAt(r, k) = FileAt(s, k)
    <2>1. s.files[k] \in Objects /\ NameOf(s.files[k]) = k /\ k # t
      BY <1>1, <1>6, KnownFile, FilesApart
    <2> QED
      BY <1>2, <1>3, <2>1 DEF FileAt
  <1>7. Others(s, r, t)
    BY <1>3, <1>4, <1>6, FilesApart DEF Others
  <1>8. Keeps(s, r)
    <2>1. ASSUME NEW f \in Files, Known(s, f) PROVE SameText(s, r, s.files[f])
      BY <1>5, <2>1, KnownFile
    <2> QED
      BY <1>3, <1>4, <2>1 DEF Keeps
  <1>9. Closed(s) => Closed(r)
    BY <1>5 DEF Closed, SameText
  <1>10. Entered(r)
    <2>1. \A f \in Files : Known(r, f) => r.files[f] \in {f} \X Files
      BY <1>1, <1>3, <1>4 DEF Entered
    <2>2. \A c \in Components : r.class[c].template # None =>
            NameOf(r.class[c].template) \in Templates /\ Known(r, NameOf(r.class[c].template))
      BY <1>1, <1>3, <1>4, FilesApart DEF Entered
    <2>3. \A c \in r.registered : Known(r, c)
      BY <1>1, <1>3, <1>4, FilesApart, StateFields DEF Entered
    <2>4. ASSUME NEW p \in Objects, NEW c \in r.object[p].classes PROVE Known(r, c)
      <3>1. c \in s.object[p].classes
        BY <1>5, <2>4
      <3>2. s.object[p] \in File
        BY StateFields
      <3> QED
        BY <1>1, <1>4, <3>1, <3>2, FilesApart DEF Entered, File
    <2> QED
      BY <2>1, <2>2, <2>3, <2>4 DEF Entered
  <1>11. \A c \in Components : Known(r, c) => Linked(r, c)
    <2> SUFFICES ASSUME NEW c \in Components, Known(r, c) PROVE Linked(r, c)
      OBVIOUS
    <2>1. Linked(s, c) /\ FileAt(r, c) = FileAt(s, c)
      BY <1>4, <1>6, FilesApart DEF Sound
    <2> QED
      BY <1>3, <2>1 DEF Linked
  <1>12. ASSUME ExactBut(s, t), Registered(s) PROVE Exact(r)
    <2> SUFFICES ASSUME NEW c \in Components, r.class[c].template # None
                 PROVE  LET p == r.class[c].template
                        IN  /\ r.files[NameOf(p)] = p
                            /\ Known(r, c) /\ FileAt(r, c).classes # {} =>
                                  r.class[c].uses = r.object[p].content
      BY DEF Exact
    <2> DEFINE p == s.class[c].template
    <2>1. /\ r.class[c].template = p /\ p # None /\ NameOf(p) \in Files
          /\ Known(s, NameOf(p)) /\ s.files[NameOf(p)] = p
      BY <1>1, <1>3, <1>12, FilesApart DEF Entered, ExactBut
    <2>2. p \in Objects
      BY <2>1, KnownFile
    <2>3. r.object[p].content = s.object[p].content
      BY <1>5, <2>2 DEF SameText
    <2>4. ASSUME Known(r, c), FileAt(r, c).classes # {} PROVE r.class[c].uses = s.object[p].content
      <3>1. Known(s, c) /\ FileAt(s, c).classes # {} /\ FileAt(s, c).classes \subseteq {c}
        BY <1>4, <1>6, <2>4, FilesApart DEF Sound, Linked
      <3>2. c \in s.registered
        BY <1>12, <3>1 DEF Registered
      <3>3. CASE p = o
        BY <1>3, <3>2, <3>3
      <3>4. CASE p # o
        <4>1. NameOf(p) # t
          BY <2>1, <3>4 DEF o
        <4>2. s.class[c].uses = s.object[p].content
          BY <1>12, <2>1, <3>1, <4>1 DEF ExactBut
        <4> QED
          BY <1>3, <3>4, <4>2
      <3> QED
        BY <3>3, <3>4
    <2> QED
      BY <1>3, <2>1, <2>3, <2>4
  <1>13. ASSUME Exact(s) PROVE Exact(r)
    <2> SUFFICES ASSUME NEW c \in Components, r.class[c].template # None
                 PROVE  LET p == r.class[c].template
                        IN  /\ r.files[NameOf(p)] = p
                            /\ Known(r, c) /\ FileAt(r, c).classes # {} =>
                                  r.class[c].uses = r.object[p].content
      BY DEF Exact
    <2> DEFINE p == s.class[c].template
    <2>1. /\ r.class[c].template = p /\ p # None /\ NameOf(p) \in Files
          /\ Known(s, NameOf(p)) /\ s.files[NameOf(p)] = p
      BY <1>1, <1>3, <1>13, FilesApart DEF Entered, Exact
    <2>2. p \in Objects
      BY <2>1, KnownFile
    <2>3. r.object[p].content = s.object[p].content
      BY <1>5, <2>2 DEF SameText
    <2>4. ASSUME Known(r, c), FileAt(r, c).classes # {} PROVE s.class[c].uses = s.object[p].content
      BY <1>4, <1>6, <1>13, <2>1, <2>4, FilesApart DEF Exact
    <2>5. r.class[c] = s.class[c] \/ r.class[c].uses = s.object[p].content
      BY <1>3
    <2> QED
      BY <1>3, <2>1, <2>3, <2>4, <2>5
  <1> QED
    BY <1>7, <1>8, <1>9, <1>10, <1>11, <1>12, <1>13 DEF Sound

-----------------------------------------------------------------------------
(* ... when files are postprocessed ...                                    *)

LEMMA PostprocessKeeps ==
    ASSUME NEW s \in States, Sound(s), NEW some \in SUBSET Files, \A f \in some : Known(s, f),
           NEW r, PostprocessSays(s, some, r)
    PROVE  /\ Sound(r) /\ Keeps(s, r) /\ \A f : Others(s, r, f)
           /\ Closed(s) => Closed(r)
           /\ Exact(s) => Exact(r)
           /\ s.registered \subseteq r.registered
           /\ \A f \in some : FileAt(s, f).classes \subseteq r.registered
  <1> DEFINE all == s.registered \cup UNION {FileAt(s, f).classes : f \in some}
  <1>1. Entered(s)
    BY DEF Sound
  <1>2. /\ r \in States /\ r.files = s.files /\ r.class = s.class /\ r.registered = all
        /\ \A o \in Objects :
              /\ SameText(s, r, o)
              /\ IF NameOf(o) \in some \cap Templates /\ s.files[NameOf(o)] = o
                 THEN r.object[o].classes = s.object[o].classes \cup Showing(s, all, NameOf(o))
                 ELSE r.object[o] = s.object[o]
    BY DEF PostprocessSays
  <1>3. \A f \in some : FileAt(s, f).classes \subseteq all
    OBVIOUS
  <1>4. ASSUME NEW c \in all PROVE c \in Components /\ Known(s, c)
    <2>1. CASE c \in s.registered
      BY <1>1, <2>1, StateFields DEF Entered
    <2>2. CASE \E f \in some : c \in FileAt(s, f).classes
      <3>1. PICK f \in some : c \in FileAt(s, f).classes
        BY <2>2
      <3>2. /\ s.files[f] \in Objects /\ c \in s.object[s.files[f]].classes
            /\ FileAt(s, f).classes \subseteq Components
        BY <3>1, KnownFile
      <3> QED
        BY <1>1, <3>1, <3>2 DEF Entered
    <2> QED
      BY <2>1, <2>2
  <1>5. s.registered \subseteq all
    OBVIOUS
  <1> HIDE DEF all
  <1>6. \A f \in Files : Known(r, f) <=> Known(s, f)
    BY <1>2 DEF Known
  <1>7. \A p \in Objects : SameText(s, r, p) /\ r.object[p].classes \subseteq s.object[p].classes \cup all
    BY <1>2 DEF Showing
  <1>8. ASSUME NEW k \in Components, Known(s, k) PROVE FileAt(r, k) = FileAt(s, k)
    <2>1. s.files[k] \in Objects /\ NameOf(s.files[k]) = k /\ k \notin Templates
      BY <1>1, <1>8, KnownFile, FilesApart
    <2> QED
      BY <1>2, <2>1 DEF FileAt
  <1>9. \A f : Others(s, r, f)
    BY <1>2, <1>6, <1>8, FilesApart DEF Others
  <1>10. Keeps(s, r)
    <2>1. ASSUME NEW f \in Files, Known(s, f) PROVE SameText(s, r, s.files[f])
      BY <1>7, <2>1, KnownFile
    <2> QED
      BY <1>2, <1>6, <2>1 DEF Keeps
  <1>11. Closed(s) => Closed(r)
    BY <1>7 DEF Closed, SameText
  <1>12. Entered(r)
    <2>1. \A f \in Files : Known(r, f) => r.files[f] \in {f} \X Files
      BY <1>1, <1>2, <1>6 DEF Entered
    <2>2. \A c \in Components : r.class[c].template # None =>
            NameOf(r.class[c].template) \in Templates /\ Known(r, NameOf(r.class[c].template))
      BY <1>1, <1>2, <1>6, FilesApart DEF Entered
    <2>3. \A c \in r.registered : Known(r, c)
      BY <1>2, <1>4, <1>6, FilesApart
    <2>4. ASSUME NEW p \in Objects, NEW c \in r.object[p].classes PROVE Known(r, c)
      <3>1. CASE c \in s.object[p].classes
        <4>1. s.object[p] \in File
          BY StateFields
        <4> QED
          BY <1>1, <1>6, <3>1, <4>1, FilesApart DEF Entered, File
      <3>2. CASE c \in all
        BY <1>4, <1>6, <3>2, FilesApart
      <3> QED
        BY <1>7, <2>4, <3>1, <3>2
    <2> QED
      BY <2>1, <2>2, <2>3, <2>4 DEF Entered
  <1>13. \A c \in Components : Known(r, c) => Linked(r, c)
    <2> SUFFICES ASSUME NEW c \in Components, Known(r, c) PROVE Linked(r, c)
      OBVIOUS
    <2>1. Linked(s, c) /\ FileAt(r, c) = FileAt(s, c)
      BY <1>6, <1>8, FilesApart DEF Sound
    <2> QED
      BY <1>2, <2>1 DEF Linked
  <1>14. ASSUME Exact(s) PROVE Exact(r)
    <2> SUFFICES ASSUME NEW c \in Components, r.class[c].template # None
                 PROVE  LET p == r.class[c].template
                        IN  /\ r.files[NameOf(p)] = p
                            /\ Known(r, c) /\ FileAt(r, c).classes # {} =>
                                  r.class[c].uses = r.object[p].content
      BY DEF Exact
    <2> DEFINE p == s.class[c].template
    <2>1. /\ r.class[c] = s.class[c] /\ p # None /\ NameOf(p) \in Files
          /\ Known(s, NameOf(p)) /\ s.files[NameOf(p)] = p
      BY <1>1, <1>2, <1>14, FilesApart DEF Entered, Exact
    <2>2. p \in Objects
      BY <2>1, KnownFile
    <2>3. r.object[p].content = s.object[p].content
      BY <1>7, <2>2 DEF SameText
    <2>4. ASSUME Known(r, c), FileAt(r, c).classes # {} PROVE Known(s, c) /\ FileAt(s, c).classes # {}
      BY <1>6, <1>8, <2>4, FilesApart
    <2> QED
      BY <1>2, <1>14, <2>1, <2>3, <2>4 DEF Exact
  <1> QED
    BY <1>2, <1>3, <1>5, <1>9, <1>10, <1>11, <1>12, <1>13, <1>14 DEF Sound

-----------------------------------------------------------------------------
(* ... when a file that is not in State.files is indexed ...               *)

LEMMA OrphanKeeps ==
    ASSUME NEW s \in States, Sound(s), NEW c \in Components, NEW r, OrphanSays(s, c, r)
    PROVE  /\ Sound(r) /\ Keeps(s, r) /\ \A f : Others(s, r, f)
           /\ r \in States /\ r.registered = s.registered /\ r.class = s.class
           /\ Exact(s) => Exact(r)
           /\ \A f \in Components : Known(r, f) => Known(s, f)
  <1>1. Entered(s) /\ c \in Files
    BY FilesApart DEF Sound
  <1>2. /\ r \in States /\ r.registered = s.registered /\ r.class = s.class
        /\ \/ r.files = s.files
           \/ \E t \in Templates : /\ ~Known(s, t)
                                   /\ r.files = [s.files EXCEPT ![t] = <<t, c>>]
                                   /\ r.object[<<t, c>>].open = FALSE
        /\ \A p \in Objects :
              \/ r.object[p] = s.object[p]
              \/ /\ NameOf(p) \in Templates /\ r.object[p].classes = {}
                 /\ SameText(s, r, p) \/ (~Known(s, NameOf(p)) /\ p = <<NameOf(p), c>>)
    BY DEF OrphanSays
  <1>3. ASSUME NEW f \in Files, Known(s, f) PROVE r.files[f] = s.files[f]
    BY <1>2, <1>3, StateFields
  <1>4. ASSUME NEW f \in Files, Known(r, f), ~Known(s, f)
        PROVE  f \in Templates /\ r.files[f] = <<f, c>> /\ r.object[<<f, c>>].open = FALSE
    <2>1. r.files # s.files
      BY <1>4 DEF Known
    <2>2. PICK t \in Templates : /\ ~Known(s, t)
                                 /\ r.files = [s.files EXCEPT ![t] = <<t, c>>]
                                 /\ r.object[<<t, c>>].open = FALSE
      BY <1>2, <2>1
    <2>3. f = t
      BY <1>4, <2>2, StateFields DEF Known
    <2> QED
      BY <2>2, <2>3, StateFields
  <1>5. \A f \in Files : Known(s, f) => Known(r, f)
    BY <1>3 DEF Known
  <1>6. ASSUME NEW f \in Files, Known(s, f) PROVE SameText(s, r, s.files[f])
    <2>1. s.files[f] \in Objects /\ NameOf(s.files[f]) = f
      BY <1>1, <1>6, KnownFile
    <2> QED
      BY <1>2, <1>6, <2>1 DEF SameText
  <1>7. ASSUME NEW k \in Components, Known(s, k) PROVE FileAt(r, k) = FileAt(s, k)
    <2>1. s.files[k] \in Objects /\ NameOf(s.files[k]) = k /\ k \notin Templates /\ k \in Files
      BY <1>1, <1>7, KnownFile, FilesApart
    <2>2. r.object[s.files[k]] = s.object[s.files[k]]
      BY <1>2, <2>1
    <2> QED
      BY <1>3, <1>7, <2>1, <2>2 DEF FileAt
  <1>8. \A f \in Components : Known(r, f) => Known(s, f)
    BY <1>4, FilesApart
  <1>9. \A f : Others(s, r, f)
    BY <1>3, <1>5, <1>7, <1>8, FilesApart DEF Others
  <1>10. Keeps(s, r)
    BY <1>3, <1>4, <1>6 DEF Keeps, FileAt
  <1>11. Entered(r)
    <2>1. ASSUME NEW f \in Files, Known(r, f) PROVE r.files[f] \in {f} \X Files
      <3>1. CASE Known(s, f)
        BY <1>1, <1>3, <3>1 DEF Entered
      <3>2. CASE ~Known(s, f)
        <4>1. r.files[f] = <<f, c>>
          BY <1>4, <2>1, <3>2
        <4> QED
          BY <1>1, <4>1
      <3> QED
        BY <3>1, <3>2
    <2>2. \A k \in Components : r.class[k].template # None =>
            NameOf(r.class[k].template) \in Templates /\ Known(r, NameOf(r.class[k].template))
      BY <1>1, <1>2, <1>5, FilesApart DEF Entered
    <2>3. \A k \in r.registered : Known(r, k)
      BY <1>1, <1>2, <1>5, FilesApart, StateFields DEF Entered
    <2>4. ASSUME NEW p \in Objects, NEW k \in r.object[p].classes PROVE Known(r, k)
      <3>1. k \in s.object[p].classes
        BY <1>2, <2>4
      <3>2. s.object[p] \in File
        BY StateFields
      <3> QED
        BY <1>1, <1>5, <3>1, <3>2, FilesApart DEF Entered, File
    <2> QED
      BY <2>1, <2>2, <2>3, <2>4 DEF Entered
  <1>12. \A k \in Components : Known(r, k) => Linked(r, k)
    <2> SUFFICES ASSUME NEW k \in Components, Known(r, k) PROVE Linked(r, k)
      OBVIOUS
    <2>1. Linked(s, k) /\ FileAt(r, k) = FileAt(s, k)
      BY <1>7, <1>8 DEF Sound
    <2> QED
      BY <1>2, <2>1 DEF Linked
  <1>13. ASSUME Exact(s) PROVE Exact(r)
    <2> SUFFICES ASSUME NEW k \in Components, r.class[k].template # None
                 PROVE  LET p == r.class[k].template
                        IN  /\ r.files[NameOf(p)] = p
                            /\ Known(r, k) /\ FileAt(r, k).classes # {} =>
                                  r.class[k].uses = r.object[p].content
      BY DEF Exact
    <2> DEFINE p == s.class[k].template
    <2>1. /\ r.class[k] = s.class[k] /\ p # None /\ NameOf(p) \in Files
          /\ Known(s, NameOf(p)) /\ s.files[NameOf(p)] = p
      BY <1>1, <1>2, <1>13, FilesApart DEF Entered, Exact
    <2>2. r.files[NameOf(p)] = p /\ r.object[p].content = s.object[p].content
      BY <1>3, <1>6, <2>1 DEF SameText
    <2>3. ASSUME Known(r, k), FileAt(r, k).classes # {} PROVE Known(s, k) /\ FileAt(s, k).classes # {}
      BY <1>7, <1>8, <2>3
    <2> QED
      BY <1>13, <2>1, <2>2, <2>3 DEF Exact
  <1> QED
    BY <1>2, <1>8, <1>9, <1>10, <1>11, <1>12, <1>13 DEF Sound

-----------------------------------------------------------------------------
(* ... when a file gets a new text or is opened.                           *)

KeepsFile(s, r, f) ==
    /\ Known(s, f) => r.files[f] = s.files[f] /\ SameText(s, r, s.files[f])
    /\ Known(r, f) /\ ~Known(s, f) => ~FileAt(r, f).open

LEMMA KeepsEachFile ==
    ASSUME NEW s, NEW r
    PROVE  Keeps(s, r) <=> \A f \in Files : KeepsFile(s, r, f)
  BY DEF Keeps, KeepsFile

LEMMA KeepsFileTransitive ==
    ASSUME NEW s, NEW r, NEW q, NEW f, KeepsFile(s, r, f), KeepsFile(r, q, f)
    PROVE  KeepsFile(s, q, f)
  <1>1. ASSUME Known(s, f) PROVE q.files[f] = s.files[f] /\ SameText(s, q, s.files[f])
    BY <1>1 DEF KeepsFile, Known, SameText
  <1>2. ASSUME Known(q, f), ~Known(s, f) PROVE ~FileAt(q, f).open
    <2>1. CASE Known(r, f)
      BY <1>2, <2>1 DEF KeepsFile, SameText, FileAt
    <2>2. CASE ~Known(r, f)
      BY <1>2, <2>2 DEF KeepsFile
    <2> QED
      BY <2>1, <2>2
  <1> QED
    BY <1>1, <1>2 DEF KeepsFile

\* One File changes, but for its classes.
Revised(s, r, f) ==
    LET o == s.files[f]
    IN  /\ r \in States
        /\ r.files = s.files /\ r.registered = s.registered /\ r.class = s.class
        /\ \A p \in Objects \ {o} : r.object[p] = s.object[p]
        /\ r.object[o].classes = s.object[o].classes

LEMMA RevisedKeeps ==
    ASSUME NEW s \in States, Sound(s), NEW f \in Files, Known(s, f), NEW r, Revised(s, r, f)
    PROVE  /\ Entered(r) /\ Others(s, r, f) /\ Known(r, f)
           /\ \A k \in Components \ {f} : Known(r, k) => Linked(r, k)
           /\ \A g \in Files \ {f} : KeepsFile(s, r, g)
           /\ Registered(s) => Registered(r)
           /\ f \in Components /\ Exact(s) => Exact(r)
           /\ Exact(s) => ExactBut(r, f)
  <1> DEFINE o == s.files[f]
  <1>1. Entered(s)
    BY DEF Sound
  <1>2. o \in Objects /\ NameOf(o) = f
    BY <1>1, KnownFile
  <1>3. /\ r \in States /\ r.files = s.files
        /\ r.registered = s.registered /\ r.class = s.class
        /\ \A p \in Objects \ {o} : r.object[p] = s.object[p]
        /\ r.object[o].classes = s.object[o].classes
    BY DEF Revised
  <1> HIDE DEF o
  <1>4. /\ \A g \in Files : Known(r, g) <=> Known(s, g)
        /\ \A p \in Objects : r.object[p].classes = s.object[p].classes
    BY <1>3 DEF Known
  <1>5. ASSUME NEW g \in Files \ {f}, Known(s, g)
        PROVE  FileAt(r, g) = FileAt(s, g) /\ s.files[g] # o /\ s.files[g] \in Objects
    <2>1. s.files[g] \in Objects /\ NameOf(s.files[g]) = g
      BY <1>1, <1>5, KnownFile
    <2> QED
      BY <1>2, <1>3, <2>1 DEF FileAt
  <1>6. FileAt(r, f).classes = FileAt(s, f).classes
    BY <1>3 DEF FileAt, o
  <1>7. Others(s, r, f)
    BY <1>3, <1>4, <1>5, FilesApart DEF Others
  <1>8. \A g \in Files \ {f} : KeepsFile(s, r, g)
    BY <1>3, <1>4, <1>5 DEF KeepsFile, SameText
  <1>9. Entered(r)
    <2>1. \A p \in Objects : s.object[p].classes \subseteq Components
      BY StateFields DEF File
    <2> QED
      BY <1>1, <1>3, <1>4, <2>1, FilesApart, StateFields DEF Entered
  <1>10. \A k \in Components \ {f} : Known(r, k) => Linked(r, k)
    BY <1>3, <1>4, <1>5, FilesApart DEF Linked, Sound
  <1>11. Registered(s) => Registered(r)
    BY <1>3, <1>4, <1>5, <1>6, FilesApart DEF Registered
  <1>12. ASSUME Exact(s), NEW c \in Components, r.class[c].template # None
         PROVE  LET p == r.class[c].template
                IN  /\ r.files[NameOf(p)] = p /\ NameOf(p) \in Templates
                    /\ Known(r, c) /\ FileAt(r, c).classes # {} /\ NameOf(p) # f =>
                          r.class[c].uses = r.object[p].content
    <2> DEFINE p == s.class[c].template
    <2>1. /\ r.class[c] = s.class[c] /\ p # None /\ NameOf(p) \in Templates
          /\ NameOf(p) \in Files /\ Known(s, NameOf(p)) /\ s.files[NameOf(p)] = p
      BY <1>1, <1>3, <1>12, FilesApart DEF Entered, Exact
    <2>2. r.files[NameOf(p)] = p
      BY <1>3, <2>1
    <2>3. ASSUME Known(r, c), FileAt(r, c).classes # {}, NameOf(p) # f
          PROVE  s.class[c].uses = r.object[p].content
      <3>1. r.object[p] = s.object[p]
        BY <1>3, <1>5, <2>1, <2>3
      <3>2. Known(s, c) /\ FileAt(s, c).classes # {}
        BY <1>4, <1>5, <1>6, <2>3, FilesApart
      <3> QED
        BY <1>12, <2>1, <3>1, <3>2 DEF Exact
    <2> QED
      BY <2>1, <2>2, <2>3
  <1>13. Exact(s) => ExactBut(r, f)
    BY <1>12 DEF ExactBut
  <1>14. f \in Components /\ Exact(s) => Exact(r)
    BY <1>12, FilesApart DEF Exact
  <1> QED
    BY <1>2, <1>4, <1>7, <1>8, <1>9, <1>10, <1>11, <1>13, <1>14

-----------------------------------------------------------------------------
(* The index of one file, and what is done around it.                      *)

\* The State is as it should be, but for what the index of this file restores.
Basis(s, f) ==
    /\ f \in Components => SoundBut(s, f)
    /\ f \in Templates => Sound(s)

ExactBasis(s, f) ==
    /\ f \in Components => Exact(s)
    /\ f \in Templates => ExactBut(s, f) /\ Registered(s)

\* A class is left as it is, or it shows this file.
Classes(s, r, f) ==
    \A k \in Components \ {f} :
        r.class[k] = s.class[k] \/ (k \in s.registered /\ r.class[k].template = s.files[f])

IndexSays(s, f, r) ==
    /\ r \in States /\ Sound(r) /\ Others(s, r, f) /\ Keeps(s, r)
    /\ r.registered = s.registered
    /\ Closed(s) => Closed(r)
    /\ ExactBasis(s, f) => Exact(r)
    /\ Classes(s, r, f)
    /\ IndexFails(s, f) => FileAt(r, f).classes \subseteq FileAt(s, f).classes

LEMMA IndexEffect ==
    ASSUME disk \in [Files -> Texts \cup {None}],
           NEW s \in States, NEW f \in Files, Known(s, f), Basis(s, f)
    PROVE  IndexSays(s, f, Index(s, f))
  <1>1. CASE f \in Components
    <2> DEFINE r == IndexComponent(s, f)
    <2>1. SoundBut(s, f) /\ Entered(s) /\ Index(s, f) = r
      BY <1>1 DEF Basis, SoundBut, Index
    <2>2. ComponentSays(s, f, r)
      BY <1>1, <2>1, ComponentEffect
    <2> HIDE DEF r
    <2>3. /\ Others(s, r, f) /\ Keeps(s, r) /\ r.files[f] = s.files[f]
          /\ Closed(s) => Closed(r)
      BY <1>1, <2>1, <2>2, ComponentFiles
    <2>4. Sound(r)
      BY <1>1, <2>1, <2>2, ComponentSound
    <2>5. ExactBasis(s, f) => Exact(r)
      BY <1>1, <2>1, <2>2, ComponentExact DEF ExactBasis
    <2>6. /\ r \in States /\ r.registered = s.registered
          /\ \A k \in Components \ {f} : r.class[k] = s.class[k]
      BY <2>2 DEF ComponentSays
    <2>7. IndexFails(s, f) => FileAt(r, f).classes \subseteq FileAt(s, f).classes
      BY <2>2, <2>3 DEF ComponentSays, IndexFails, FileAt
    <2> QED
      BY <2>1, <2>3, <2>4, <2>5, <2>6, <2>7 DEF IndexSays, Classes
  <1>2. CASE f \in Templates
    <2> DEFINE r == IndexTemplate(s, f)
    <2>1. Sound(s) /\ Index(s, f) = r /\ f \notin Components
      BY <1>2, FilesApart DEF Basis, Index
    <2>2. TemplateSays(s, f, r)
      BY <1>2, TemplateEffect
    <2> HIDE DEF r
    <2>3. /\ Sound(r) /\ Others(s, r, f) /\ Keeps(s, r)
          /\ Closed(s) => Closed(r)
          /\ ExactBut(s, f) /\ Registered(s) => Exact(r)
      BY <1>2, <2>1, <2>2, TemplateKeeps
    <2>4. r \in States /\ r.registered = s.registered /\ Classes(s, r, f)
      BY <2>2 DEF TemplateSays, Classes
    <2>5. ExactBasis(s, f) => Exact(r)
      BY <1>2, <2>3 DEF ExactBasis
    <2> QED
      BY <2>1, <2>3, <2>4, <2>5 DEF IndexSays, IndexFails
  <1> QED
    BY <1>1, <1>2 DEF Files

LEMMA DependenciesKnown ==
    ASSUME NEW s \in States, Entered(s), NEW f \in Files, Known(s, f)
    PROVE  Dependencies(s, f) \in SUBSET Files /\ \A g \in Dependencies(s, f) : Known(s, g)
  <1> SUFFICES ASSUME NEW g \in Dependencies(s, f) PROVE g \in Files /\ Known(s, g)
    OBVIOUS
  <1>1. CASE g \in s.registered
    BY <1>1, FilesApart, StateFields DEF Entered
  <1>2. CASE g \notin s.registered
    <2>1. PICK c \in FileAt(s, f).classes :
            s.class[c].template # None /\ g = NameOf(s.class[c].template)
      BY <1>2 DEF Dependencies
    <2>2. c \in Components
      BY <2>1, KnownFile
    <2> QED
      BY <2>1, <2>2, FilesApart DEF Entered
  <1> QED
    BY <1>1, <1>2

\* What didOpen adds: the File is open from now on.
Opened(s, f, opens) == [s EXCEPT !.object[s.files[f]].open = @ \/ opens]

LEMMA OpenedEffect ==
    ASSUME NEW s \in States, NEW f \in Files, Known(s, f), NEW opens \in BOOLEAN, Sound(s)
    PROVE  LET r == Opened(s, f, opens)
           IN  /\ Revised(s, r, f)
               /\ Sound(r)
               /\ FileAt(r, f).content = FileAt(s, f).content
               /\ FileAt(r, f).version = FileAt(s, f).version
               /\ FileAt(r, f).open => FileAt(s, f).open \/ opens
               /\ Exact(s) => Exact(r)
  <1> DEFINE o == s.files[f]
             new == [s.object[o] EXCEPT !.open = s.object[o].open \/ opens]
             r == [s EXCEPT !.object[o] = new]
  <1>1. Opened(s, f, opens) = r
    BY DEF Opened
  <1>2. o \in Objects /\ s.object[o] \in File
    BY KnownFile, StateFields
  <1>3. /\ new \in File /\ new.content = s.object[o].content
        /\ new.version = s.object[o].version /\ new.classes = s.object[o].classes
        /\ new.open => s.object[o].open \/ opens
    BY <1>2 DEF File
  <1> HIDE DEF new
  <1>4. /\ r \in States /\ r.files = s.files /\ r.registered = s.registered
        /\ r.class = s.class /\ r.object = [s.object EXCEPT ![o] = new]
    <2>1. [s.object EXCEPT ![o] = new] \in [Objects -> File]
      BY <1>3, StateFields
    <2>2. r = [files |-> s.files, object |-> [s.object EXCEPT ![o] = new],
               registered |-> s.registered, class |-> s.class, lastSeen |-> s.lastSeen]
      BY StateFields
    <2> HIDE DEF r
    <2> QED
      BY <2>1, <2>2, StateFields DEF States
  <1> HIDE DEF r
  <1>5. r.object[o] = new /\ \A p \in Objects \ {o} : r.object[p] = s.object[p]
    BY <1>2, <1>4, StateFields
  <1>6. FileAt(r, f) = new /\ FileAt(s, f) = s.object[o]
    BY <1>4, <1>5 DEF FileAt
  <1>7. Revised(s, r, f)
    BY <1>3, <1>4, <1>5 DEF Revised
  <1>8. /\ Entered(r) /\ Known(r, f)
        /\ \A k \in Components \ {f} : Known(r, k) => Linked(r, k)
    BY <1>7, RevisedKeeps
  <1>9. ASSUME f \in Components PROVE Linked(r, f)
    <2>1. Linked(s, f)
      BY <1>9 DEF Sound
    <2> QED
      BY <1>3, <1>4, <1>6, <2>1 DEF Linked
  <1>10. Sound(r)
    BY <1>8, <1>9 DEF Sound
  <1>11. /\ \A p \in Objects : r.object[p].content = s.object[p].content
                               /\ r.object[p].classes = s.object[p].classes
         /\ \A g \in Files : Known(r, g) <=> Known(s, g)
    BY <1>3, <1>4, <1>5 DEF Known
  <1>12. ASSUME Exact(s) PROVE Exact(r)
    <2> SUFFICES ASSUME NEW k \in Components, r.class[k].template # None
                 PROVE  LET p == r.class[k].template
                        IN  /\ r.files[NameOf(p)] = p
                            /\ Known(r, k) /\ FileAt(r, k).classes # {} =>
                                  r.class[k].uses = r.object[p].content
      BY DEF Exact
    <2> DEFINE p == s.class[k].template
    <2>1. /\ r.class[k] = s.class[k] /\ p # None /\ NameOf(p) \in Files
          /\ Known(s, NameOf(p)) /\ s.files[NameOf(p)] = p
      BY <1>4, <1>12, FilesApart DEF Entered, Exact, Sound
    <2>2. p \in Objects
      BY <2>1, KnownFile
    <2>3. ASSUME Known(r, k) PROVE Known(s, k) /\ FileAt(r, k).classes = FileAt(s, k).classes
      <3>1. Known(s, k) /\ k \in Files
        BY <1>11, <2>3, FilesApart
      <3>2. s.files[k] \in Objects
        BY <3>1, KnownFile
      <3> QED
        BY <1>4, <1>11, <3>1, <3>2 DEF FileAt
    <2> QED
      BY <1>4, <1>11, <1>12, <2>1, <2>2, <2>3 DEF Exact
  <1> QED
    BY <1>1, <1>3, <1>6, <1>7, <1>10, <1>12

\* What a handler has done to the State when it returns.
RefreshSays(s, f, opens, r) ==
    /\ r \in States /\ Sound(r) /\ Known(r, f) /\ Others(s, r, f)
    /\ \A g \in Files \ {f} : KeepsFile(s, r, g)
    /\ FileAt(r, f).content = FileAt(s, f).content
    /\ FileAt(r, f).version = FileAt(s, f).version
    /\ FileAt(r, f).open => FileAt(s, f).open \/ opens
    /\ ExactBasis(s, f) => Exact(r)
    /\ s.registered \subseteq r.registered
    /\ f \in Components => FileAt(r, f).classes \subseteq r.registered
    /\ \A k \in Components \ {f} :
          r.class[k] = s.class[k] \/ (k \in r.registered /\ r.class[k].template = r.files[f])

LEMMA RefreshEffect ==
    ASSUME disk \in [Files -> Texts \cup {None}],
           NEW s \in States, NEW f \in Files, Known(s, f), Basis(s, f), NEW opens \in BOOLEAN,
           f \in Components => FileAt(s, f).classes \subseteq s.registered
    PROVE  LET indexed == Index(s, f)
               opened  == Opened(indexed, f, opens)
               around  == Postprocess(opened, Dependencies(opened, f))
               done    == Postprocess(around, {f})
           IN  /\ IndexFails(s, f) => RefreshSays(s, f, opens, indexed) /\ IndexFails(indexed, f)
               /\ RefreshSays(s, f, opens, done)
               /\ f \in Templates => Showing(done, done.registered, f) \subseteq FileAt(done, f).classes
  <1> DEFINE indexed == Index(s, f)
             opened  == Opened(indexed, f, opens)
             around  == Postprocess(opened, Dependencies(opened, f))
             done    == Postprocess(around, {f})
  <1>1. IndexSays(s, f, indexed)
    BY IndexEffect
  <1> HIDE DEF indexed
  <1>2. /\ indexed \in States /\ Sound(indexed) /\ Others(s, indexed, f)
        /\ \A g \in Files : KeepsFile(s, indexed, g)
        /\ indexed.registered = s.registered
        /\ ExactBasis(s, f) => Exact(indexed)
        /\ Classes(s, indexed, f)
    BY <1>1, KeepsEachFile DEF IndexSays
  <1>3. Known(indexed, f) /\ indexed.files[f] = s.files[f]
        /\ SameText(s, indexed, s.files[f])
    BY <1>2 DEF KeepsFile, Known
  <1>4. /\ FileAt(indexed, f).content = FileAt(s, f).content
        /\ FileAt(indexed, f).version = FileAt(s, f).version
        /\ FileAt(indexed, f).open = FileAt(s, f).open
    BY <1>3 DEF SameText, FileAt
  <1>5. ASSUME IndexFails(s, f)
        PROVE  RefreshSays(s, f, opens, indexed) /\ IndexFails(indexed, f)
    <2>1. FileAt(indexed, f).classes \subseteq FileAt(s, f).classes /\ f \in Components
      BY <1>1, <1>5 DEF IndexSays, IndexFails
    <2>2. IndexFails(indexed, f)
      BY <1>4, <1>5 DEF IndexFails
    <2> QED
      BY <1>2, <1>3, <1>4, <2>1, <2>2 DEF RefreshSays, Classes
  <1>6. /\ Revised(indexed, opened, f) /\ Sound(opened)
        /\ FileAt(opened, f).content = FileAt(indexed, f).content
        /\ FileAt(opened, f).version = FileAt(indexed, f).version
        /\ FileAt(opened, f).open => FileAt(indexed, f).open \/ opens
        /\ Exact(indexed) => Exact(opened)
    BY <1>2, <1>3, OpenedEffect
  <1>7. /\ opened \in States /\ opened.registered = s.registered
        /\ opened.class = indexed.class /\ opened.files = indexed.files
    BY <1>2, <1>6 DEF Revised
  <1>8. /\ Others(indexed, opened, f) /\ Known(opened, f)
        /\ \A g \in Files \ {f} : KeepsFile(indexed, opened, g)
    BY <1>2, <1>3, <1>6, RevisedKeeps
  <1> HIDE DEF opened
  <1>9. /\ Dependencies(opened, f) \in SUBSET Files
        /\ \A g \in Dependencies(opened, f) : Known(opened, g)
    BY <1>6, <1>7, <1>8, DependenciesKnown DEF Sound
  <1>10. PostprocessSays(opened, Dependencies(opened, f), around)
    BY <1>7, <1>9, PostprocessEffect
  <1> HIDE DEF around
  <1>11. /\ around \in States /\ around.files = opened.files /\ around.class = opened.class
    BY <1>10 DEF PostprocessSays
  <1>12. /\ Sound(around) /\ Keeps(opened, around) /\ Others(opened, around, f)
         /\ Exact(opened) => Exact(around)
         /\ opened.registered \subseteq around.registered
    BY <1>6, <1>7, <1>9, <1>10, PostprocessKeeps
  <1>13. {f} \in SUBSET Files /\ \A g \in {f} : Known(around, g)
    BY <1>8, <1>11 DEF Known
  <1>14. PostprocessSays(around, {f}, done)
    BY <1>11, <1>13, PostprocessEffect
  <1> HIDE DEF done
  <1>15. done \in States /\ done.files = around.files /\ done.class = around.class
    BY <1>14 DEF PostprocessSays
  <1>16. /\ Sound(done) /\ Keeps(around, done) /\ Others(around, done, f)
         /\ Exact(around) => Exact(done)
         /\ around.registered \subseteq done.registered
         /\ FileAt(around, f).classes \subseteq done.registered
    BY <1>11, <1>12, <1>13, <1>14, PostprocessKeeps
  <1>17. Others(s, done, f)
    <2>1. Others(s, opened, f)
      BY <1>2, <1>8, OthersTransitive
    <2>2. Others(s, around, f)
      BY <1>12, <2>1, OthersTransitive
    <2> QED
      BY <1>16, <2>2, OthersTransitive
  <1>18. ASSUME NEW g \in Files \ {f} PROVE KeepsFile(s, done, g)
    <2>1. /\ KeepsFile(s, indexed, g) /\ KeepsFile(indexed, opened, g)
          /\ KeepsFile(opened, around, g) /\ KeepsFile(around, done, g)
      BY <1>2, <1>8, <1>12, <1>16, KeepsEachFile
    <2>2. KeepsFile(s, opened, g)
      BY <2>1, KeepsFileTransitive
    <2>3. KeepsFile(s, around, g)
      BY <2>1, <2>2, KeepsFileTransitive
    <2> QED
      BY <2>1, <2>3, KeepsFileTransitive
  <1>19. /\ Known(done, f) /\ done.files[f] = s.files[f] /\ opened.files[f] = s.files[f]
         /\ FileAt(done, f).content = FileAt(opened, f).content
         /\ FileAt(done, f).version = FileAt(opened, f).version
         /\ FileAt(done, f).open = FileAt(opened, f).open
    <2>1. /\ opened.files[f] = s.files[f] /\ around.files[f] = s.files[f]
          /\ done.files[f] = s.files[f]
      BY <1>3, <1>7, <1>11, <1>15
    <2>2. KeepsFile(opened, around, f) /\ KeepsFile(around, done, f) /\ Known(around, f)
      BY <1>12, <1>13, <1>16, KeepsEachFile
    <2>3. SameText(opened, around, s.files[f]) /\ SameText(around, done, s.files[f])
      BY <1>8, <2>1, <2>2 DEF KeepsFile
    <2>4. Known(done, f)
      BY <1>13, <2>1 DEF Known
    <2> QED
      BY <2>1, <2>3, <2>4 DEF SameText, FileAt
  <1>20. s.registered \subseteq done.registered
    BY <1>7, <1>12, <1>16
  <1>21. ASSUME f \in Components PROVE FileAt(done, f).classes \subseteq done.registered
    <2>1. FileAt(around, f) = around.object[s.files[f]] /\ FileAt(done, f) = done.object[s.files[f]]
      BY <1>3, <1>7, <1>11, <1>15 DEF FileAt
    <2>2. s.files[f] \in Objects /\ NameOf(s.files[f]) = f /\ f \notin Templates
      BY <1>13, <1>11, <1>12, <1>21, <1>3, <1>7, KnownFile, FilesApart DEF Sound
    <2>3. done.object[s.files[f]] = around.object[s.files[f]]
      BY <1>14, <2>2 DEF PostprocessSays
    <2> QED
      BY <1>16, <2>1, <2>3
  <1>22. ASSUME NEW k \in Components \ {f}
         PROVE  done.class[k] = s.class[k]
                \/ (k \in done.registered /\ done.class[k].template = done.files[f])
    <2>1. done.class = indexed.class
      BY <1>7, <1>11, <1>15
    <2> QED
      BY <1>2, <1>19, <1>20, <2>1 DEF Classes
  <1>23. ASSUME f \in Templates
         PROVE  Showing(done, done.registered, f) \subseteq FileAt(done, f).classes
    <2> DEFINE all == around.registered \cup UNION {FileAt(around, g).classes : g \in {f}}
               o   == around.files[f]
    <2>1. done.registered = all /\ done.class = around.class
      BY <1>14 DEF PostprocessSays
    <2>2. o \in Objects /\ NameOf(o) = f
      BY <1>11, <1>12, <1>13, KnownFile DEF Sound
    <2>3. done.object[o].classes = around.object[o].classes \cup Showing(around, all, f)
      BY <1>14, <1>23, <2>2 DEF PostprocessSays
    <2>4. FileAt(done, f) = done.object[o]
      BY <1>15 DEF FileAt
    <2>5. Showing(done, all, f) = Showing(around, all, f)
      BY <2>1 DEF Showing
    <2> QED
      BY <2>1, <2>3, <2>4, <2>5
  <1>24. ExactBasis(s, f) => Exact(done)
    BY <1>2, <1>6, <1>12, <1>16
  <1>25. RefreshSays(s, f, opens, done)
    BY <1>4, <1>6, <1>15, <1>16, <1>17, <1>18, <1>19, <1>20, <1>21, <1>22, <1>24 DEF RefreshSays
  <1> QED
    BY <1>5, <1>23, <1>25 DEF indexed, opened, around, done

-----------------------------------------------------------------------------
(* The handlers.                                                           *)

\* The notification has been taken in, and the file has not been indexed yet.
Prepared(s, f, q) ==
    /\ q \in States /\ Known(q, f) /\ Basis(q, f) /\ Others(s, q, f)
    /\ \A g \in Files \ {f} : KeepsFile(s, q, g)
    /\ Exact(s) => ExactBasis(q, f)
    /\ q.registered = s.registered /\ q.class = s.class
    /\ f \in Components => FileAt(q, f).classes \subseteq q.registered

\* What a handler has done to the State, but for the file it is about.
Around(s, f, r) ==
    /\ r \in States /\ Sound(r) /\ Others(s, r, f)
    /\ \A g \in Files \ {f} : KeepsFile(s, r, g)
    /\ Exact(s) => Exact(r)
    /\ Registered(r)
    /\ \A k \in Components \ {f} :
          r.class[k] = s.class[k]
          \/ (k \in r.registered /\ r.class[k].template = r.files[f] /\ Known(r, f))

LEMMA RefreshAround ==
    ASSUME NEW s \in States, Registered(s), NEW f \in Files, NEW q, Prepared(s, f, q),
           NEW opens \in BOOLEAN, NEW r, RefreshSays(q, f, opens, r)
    PROVE  Around(s, f, r) /\ Known(r, f)
  <1>1. /\ q \in States /\ Others(s, q, f) /\ q.registered = s.registered /\ q.class = s.class
        /\ \A g \in Files \ {f} : KeepsFile(s, q, g)
        /\ Exact(s) => ExactBasis(q, f)
    BY DEF Prepared
  <1>2. /\ r \in States /\ Sound(r) /\ Known(r, f) /\ Others(q, r, f)
        /\ \A g \in Files \ {f} : KeepsFile(q, r, g)
        /\ ExactBasis(q, f) => Exact(r)
        /\ q.registered \subseteq r.registered
        /\ f \in Components => FileAt(r, f).classes \subseteq r.registered
        /\ \A k \in Components \ {f} :
              r.class[k] = q.class[k] \/ (k \in r.registered /\ r.class[k].template = r.files[f])
    BY DEF RefreshSays
  <1>3. Others(s, r, f)
    BY <1>1, <1>2, OthersTransitive
  <1>4. \A g \in Files \ {f} : KeepsFile(s, r, g)
    BY <1>1, <1>2, KeepsFileTransitive
  <1>5. Registered(r)
    <2> SUFFICES ASSUME NEW k \in Components, Known(r, k)
                 PROVE  FileAt(r, k).classes \subseteq r.registered
      BY DEF Registered
    <2>1. CASE k = f
      BY <1>2, <2>1
    <2>2. CASE k # f
      <3>1. Known(s, k) /\ FileAt(r, k) = FileAt(s, k)
        BY <1>3, <2>2 DEF Others
      <3> QED
        BY <1>1, <1>2, <3>1 DEF Registered
    <2> QED
      BY <2>1, <2>2
  <1> QED
    BY <1>1, <1>2, <1>3, <1>4, <1>5 DEF Around

Notices == [file : Files, text : Texts, version : Nat, opens : BOOLEAN]

LEMMA ReceivedEffect ==
    ASSUME state \in States, Sound(state), Registered(state),
           NEW m \in Notices, Known(state, m.file)
    PROVE  LET q == Received(m)
               f == m.file
           IN  /\ Prepared(state, f, q)
               /\ m.text # Empty \/ m.version # 0 => FileAt(q, f).content = m.text
               /\ m.version # 0 => FileAt(q, f).version = m.version
               /\ FileAt(q, f).open = FileAt(state, f).open
  <1> DEFINE f == m.file
             q == Received(m)
  <1>1. f \in Files /\ m.text \in Texts /\ m.version \in Nat /\ Known(state, f)
    BY DEF Notices
  <1>2. CASE m.text # Empty \/ m.version # 0
    <2>1. q = SetContent(state, f, m.text, m.version)
      BY <1>2 DEF Received
    <2>2. SetContentSays(state, f, m.text, m.version, SetContent(state, f, m.text, m.version))
      BY <1>1, SetContentEffect
    <2> HIDE DEF q, f
    <2>3. Revised(state, q, f)
      BY <2>1, <2>2 DEF SetContentSays, Revised
    <2>4. /\ Entered(q) /\ Others(state, q, f) /\ Known(q, f)
          /\ \A k \in Components \ {f} : Known(q, k) => Linked(q, k)
          /\ \A g \in Files \ {f} : KeepsFile(state, q, g)
          /\ Registered(q)
          /\ f \in Components /\ Exact(state) => Exact(q)
          /\ Exact(state) => ExactBut(q, f)
      BY <1>1, <2>3, RevisedKeeps
    <2>5. Basis(q, f)
      <3>1. f \in Components => FileAt(state, f).classes \subseteq {f}
        BY <1>1 DEF Sound, Linked
      <3>2. FileAt(q, f).classes = FileAt(state, f).classes
        BY <2>3 DEF Revised, FileAt
      <3> QED
        BY <2>4, <3>1, <3>2, FilesApart DEF Basis, SoundBut, Sound
    <2>6. Exact(state) => ExactBasis(q, f)
      BY <2>4 DEF ExactBasis
    <2>7. Prepared(state, f, q)
      BY <2>3, <2>4, <2>5, <2>6 DEF Prepared, Revised, Registered
    <2>8. /\ FileAt(q, f).content = m.text
          /\ m.version # 0 => FileAt(q, f).version = m.version
          /\ FileAt(q, f).open = FileAt(state, f).open
      BY <2>1, <2>2 DEF SetContentSays, FileAt
    <2> QED
      BY <2>7, <2>8 DEF q, f
  <1>3. CASE m.text = Empty /\ m.version = 0
    <2>1. q = state
      BY <1>3 DEF Received
    <2>2. Basis(state, f)
      BY DEF Basis, Sound, SoundBut, Linked
    <2>3. Exact(state) => ExactBasis(state, f)
      BY DEF Exact, ExactBut, ExactBasis
    <2>4. Others(state, state, f) /\ \A g \in Files : KeepsFile(state, state, g)
      BY DEF Others, KeepsFile, SameText
    <2>5. Prepared(state, f, state)
      BY <1>1, <2>2, <2>3, <2>4 DEF Prepared, Registered
    <2> QED
      BY <1>3, <2>1, <2>5
  <1> QED
    BY <1>2, <1>3

\* What the handler of m has done to the file that m is about.
Took(s, m, r) ==
    LET f == m.file
    IN  /\ Known(s, f) =>
              /\ Known(r, f)
              /\ m.text # Empty \/ m.version # 0 => FileAt(r, f).content = m.text
              /\ m.version # 0 => FileAt(r, f).version = m.version
              /\ FileAt(r, f).open => FileAt(s, f).open \/ m.opens
        /\ ~Known(s, f) /\ Known(r, f) /\ FileAt(r, f).open => m.opens

\* What it has sent.
Sent(f) ==
    \/ UNCHANGED published /\ (~Known(state', f) \/ IndexFails(state', f))
    \/ /\ Publish(state', f) /\ Known(state', f)
       /\ f \in Templates => Showing(state', state'.registered, f) \subseteq FileAt(state', f).classes

LEMMA RefreshSends ==
    ASSUME disk \in [Files -> Texts \cup {None}], state \in States, Registered(state),
           NEW f \in Files, NEW q, Prepared(state, f, q), NEW opens \in BOOLEAN,
           Refresh(q, f, opens)
    PROVE  Around(state, f, state') /\ RefreshSays(q, f, opens, state') /\ Sent(f)
  <1> DEFINE indexed == Index(q, f)
             opened  == Opened(indexed, f, opens)
             around  == Postprocess(opened, Dependencies(opened, f))
             done    == Postprocess(around, {f})
  <1>1. q \in States /\ Known(q, f) /\ Basis(q, f)
    BY DEF Prepared
  <1>2. /\ IndexFails(q, f) => RefreshSays(q, f, opens, indexed) /\ IndexFails(indexed, f)
        /\ RefreshSays(q, f, opens, done)
        /\ f \in Templates => Showing(done, done.registered, f) \subseteq FileAt(done, f).classes
    <2>1. f \in Components => FileAt(q, f).classes \subseteq q.registered
      BY DEF Prepared
    <2> QED
      BY <1>1, <2>1, RefreshEffect
  <1>3. \/ IndexFails(q, f) /\ state' = indexed /\ UNCHANGED published
        \/ state' = done /\ Publish(done, f)
    BY DEF Refresh, Opened
  <1> HIDE DEF indexed, done
  <1>4. RefreshSays(q, f, opens, state')
    BY <1>2, <1>3
  <1>5. Around(state, f, state') /\ Known(state', f)
    BY <1>4, RefreshAround
  <1>6. CASE IndexFails(q, f) /\ state' = indexed /\ UNCHANGED published
    BY <1>2, <1>4, <1>5, <1>6 DEF Sent
  <1>7. CASE state' = done /\ Publish(done, f)
    BY <1>2, <1>4, <1>5, <1>7 DEF Sent, Publish
  <1> QED
    BY <1>3, <1>6, <1>7

\* A State that differs in the versions seen last, and in nothing else.
SameFiles(s, r) ==
    /\ r \in States /\ r.files = s.files /\ r.object = s.object
    /\ r.registered = s.registered /\ r.class = s.class

LEMMA SeenEffect ==
    ASSUME NEW s \in States, NEW f \in Files, NEW version \in Nat
    PROVE  SameFiles(s, Seen(s, f, version))
  <1> DEFINE v == Fallback(s, f, version)
             seen == [s.lastSeen EXCEPT ![f] = v]
             r == Seen(s, f, version)
  <1>1. v \in Nat
    BY StateFields DEF Fallback
  <1>2. seen \in [Files -> Nat]
    BY <1>1, StateFields
  <1>3. r = [files |-> s.files, object |-> s.object, registered |-> s.registered,
             class |-> s.class, lastSeen |-> seen]
    BY StateFields DEF Seen
  <1> HIDE DEF seen, r
  <1>4. SameFiles(s, r)
    BY <1>2, <1>3, StateFields DEF States, SameFiles
  <1> QED
    BY <1>4 DEF r

LEMMA SameFilesKeep ==
    ASSUME NEW s \in States, Sound(s), NEW r, SameFiles(s, r)
    PROVE  /\ Entered(r) /\ Sound(r)
           /\ Exact(s) => Exact(r)
           /\ Registered(s) => Registered(r)
           /\ \A f : Others(s, r, f)
           /\ \A f \in Files : KeepsFile(s, r, f)
  <1>1. /\ r.files = s.files /\ r.object = s.object
        /\ r.registered = s.registered /\ r.class = s.class
    BY DEF SameFiles
  <1>2. /\ \A f : Known(r, f) <=> Known(s, f)
        /\ \A f : FileAt(r, f) = FileAt(s, f)
    BY <1>1 DEF Known, FileAt
  <1>3. Entered(r)
    BY <1>1, <1>2 DEF Sound, Entered
  <1>4. Sound(r)
    BY <1>1, <1>2, <1>3 DEF Sound, Linked
  <1>5. Exact(s) => Exact(r)
    BY <1>1, <1>2 DEF Exact
  <1>6. /\ Registered(s) => Registered(r)
        /\ \A f : Others(s, r, f)
    BY <1>1, <1>2 DEF Registered, Others
  <1>7. \A f \in Files : KeepsFile(s, r, f)
    BY <1>1, <1>2 DEF KeepsFile, SameText
  <1> QED
    BY <1>3, <1>4, <1>5, <1>6, <1>7

LEMMA ServeEffect ==
    ASSUME disk \in [Files -> Texts \cup {None}], state \in States, Sound(state),
           Registered(state), inbox \in Seq(Notices), Serve
    PROVE  /\ Head(inbox) \in Notices /\ Around(state, Head(inbox).file, state')
           /\ Took(state, Head(inbox), state') /\ Sent(Head(inbox).file)
  <1> DEFINE m == Head(inbox)
             f == m.file
  <1>1. m \in Notices
    BY DEF Serve
  <1>2. f \in Files /\ m.text \in Texts /\ m.version \in Nat /\ m.opens \in BOOLEAN
    BY <1>1 DEF Notices
  <1>3. \/ Known(state, f) /\ Refresh(Received(m), f, m.opens)
        \/ /\ ~Known(state, f) /\ m.text # Empty
           /\ LET seen == Seen(state, f, m.version)
              IN  state' = IF f \in Components THEN IndexOrphan(seen, f, m.text) ELSE seen
           /\ UNCHANGED published
        \/ /\ ~Known(state, f) /\ m.text = Empty /\ disk[f] # None
           /\ Refresh(Load(state, f, m.version, f), f, m.opens)
        \/ ~Known(state, f) /\ UNCHANGED <<state, published>>
    BY DEF Serve
  <1>4. Others(state, state, f) /\ \A g \in Files : KeepsFile(state, state, g)
    BY DEF Others, KeepsFile, SameText
  <1> HIDE DEF m, f
  <1>5. CASE Known(state, f) /\ Refresh(Received(m), f, m.opens)
    <2> DEFINE q == Received(m)
    <2>1. /\ Prepared(state, f, q)
          /\ m.text # Empty \/ m.version # 0 => FileAt(q, f).content = m.text
          /\ m.version # 0 => FileAt(q, f).version = m.version
          /\ FileAt(q, f).open = FileAt(state, f).open
      BY <1>1, <1>5, ReceivedEffect DEF f
    <2> HIDE DEF q
    <2>2. Refresh(q, f, m.opens)
      BY <1>5 DEF q
    <2>3. Around(state, f, state') /\ RefreshSays(q, f, m.opens, state') /\ Sent(f)
      BY <1>2, <2>1, <2>2, RefreshSends
    <2>4. Took(state, m, state')
      BY <1>5, <2>1, <2>3 DEF Took, RefreshSays, f
    <2> QED
      BY <1>1, <2>3, <2>4 DEF m, f
  <1>6. CASE /\ ~Known(state, f) /\ m.text # Empty
             /\ LET seen == Seen(state, f, m.version)
                IN  state' = IF f \in Components THEN IndexOrphan(seen, f, m.text) ELSE seen
             /\ UNCHANGED published
    <2> DEFINE seen == Seen(state, f, m.version)
    <2>3. SameFiles(state, seen)
      BY <1>2, SeenEffect
    <2>4. state' = IF f \in Components THEN IndexOrphan(seen, f, m.text) ELSE seen
      BY <1>6
    <2> HIDE DEF seen
    <2>1. CASE f \in Components
      <3>1. OrphanSays(state, f, state')
        <4>1. Entered(seen) /\ seen \in States
          BY <2>3, SameFilesKeep DEF Sound, SameFiles
        <4>2. OrphanSays(seen, f, state')
          BY <1>2, <1>6, <2>1, <2>4, <4>1, OrphanEffect
        <4> QED
          BY <2>3, <4>2 DEF OrphanSays, SameFiles, SameText, Known
      <3>2. /\ Sound(state') /\ Keeps(state, state') /\ Others(state, state', f)
            /\ state' \in States /\ state'.registered = state.registered
            /\ state'.class = state.class
            /\ Exact(state) => Exact(state')
            /\ \A k \in Components : Known(state', k) => Known(state, k)
            /\ \A g : Others(state, state', g)
        BY <2>1, <3>1, OrphanKeeps
      <3>3. ~Known(state', f)
        BY <1>6, <2>1, <3>2
      <3>4. Registered(state')
        BY <1>6, <2>1, <3>2, <3>3 DEF Registered, Others
      <3>5. Around(state, f, state')
        BY <3>2, <3>4, KeepsEachFile DEF Around
      <3>6. Took(state, m, state') /\ Sent(f)
        BY <1>6, <3>3 DEF Took, Sent, f
      <3> QED
        BY <1>1, <3>5, <3>6 DEF m, f
    <2>2. CASE f \notin Components
      <3>1. SameFiles(state, state')
        BY <2>2, <2>3, <2>4
      <3>2. Around(state, f, state')
        BY <3>1, SameFilesKeep DEF Around, SameFiles
      <3>3. ~Known(state', f)
        BY <1>6, <3>1 DEF SameFiles, Known
      <3>4. Took(state, m, state') /\ Sent(f)
        BY <1>6, <3>3 DEF Took, Sent, f
      <3> QED
        BY <1>1, <3>2, <3>4 DEF m, f
    <2> QED
      BY <2>1, <2>2
  <1>7. CASE /\ ~Known(state, f) /\ m.text = Empty /\ disk[f] # None
             /\ Refresh(Load(state, f, m.version, f), f, m.opens)
    <2> DEFINE q == Load(state, f, m.version, f)
    <2>1. LoadSays(state, f, m.version, f, q)
      BY <1>2, <1>7, LoadEffect
    <2>2. Refresh(q, f, m.opens)
      BY <1>7
    <2> HIDE DEF q
    <2>3. /\ Sound(q) /\ Others(state, q, f) /\ Known(q, f) /\ q.files[f] = <<f, f>>
          /\ Keeps(state, q)
          /\ Exact(state) => Exact(q)
      BY <1>2, <1>7, <2>1, LoadKeeps
    <2>4. /\ q \in States /\ q.registered = state.registered /\ q.class = state.class
          /\ FileAt(q, f).open = FALSE /\ FileAt(q, f).classes = {}
      BY <2>1, <2>3 DEF LoadSays, FileAt
    <2>5. Registered(q)
      BY <2>3, <2>4 DEF Registered, Others
    <2>6. Prepared(state, f, q)
      <3>1. Basis(q, f)
        BY <2>3, <2>4 DEF Basis, Sound, SoundBut
      <3>2. Exact(state) => ExactBasis(q, f)
        BY <2>3, <2>5 DEF ExactBasis, Exact, ExactBut
      <3> QED
        BY <2>3, <2>4, <3>1, <3>2, KeepsEachFile DEF Prepared
    <2>7. Around(state, f, state') /\ RefreshSays(q, f, m.opens, state') /\ Sent(f)
      BY <1>2, <2>2, <2>6, RefreshSends
    <2>8. Took(state, m, state')
      BY <1>7, <2>4, <2>7 DEF Took, RefreshSays, f
    <2> QED
      BY <1>1, <2>7, <2>8 DEF m, f
  <1>8. CASE ~Known(state, f) /\ UNCHANGED <<state, published>>
    <2>1. Around(state, f, state')
      BY <1>4, <1>8 DEF Around
    <2>2. Took(state, m, state') /\ Sent(f)
      BY <1>8 DEF Took, Sent, f
    <2> QED
      BY <1>1, <2>1, <2>2 DEF m, f
  <1> QED
    BY <1>3, <1>5, <1>6, <1>7, <1>8

-----------------------------------------------------------------------------
(* The tasks of the initial index.                                         *)

\* What a task's step does to the State.
Indexing(s, f, r) ==
    /\ r \in States /\ Sound(r) /\ Others(s, r, f) /\ Closed(r)
    /\ \A g \in Files : Known(s, g) => Known(r, g)
    /\ s.registered \subseteq r.registered

LEMMA IndexingComponent ==
    ASSUME disk \in [Files -> Texts \cup {None}],
           NEW s \in States, Sound(s), Closed(s), NEW c \in Components, Known(s, c)
    PROVE  LET r == IndexComponent(s, c)
           IN  /\ Indexing(s, c, r) /\ Known(r, c)
               /\ Exact(s) => Exact(r)
  <1> DEFINE r == IndexComponent(s, c)
  <1>1. Entered(s) /\ SoundBut(s, c)
    BY DEF Sound, SoundBut, Linked
  <1>2. ComponentSays(s, c, r)
    BY <1>1, ComponentEffect
  <1> HIDE DEF r
  <1>3. /\ Others(s, r, c) /\ Closed(r)
        /\ \A f \in Files : Known(s, f) => Known(r, f)
    BY <1>1, <1>2, ComponentFiles
  <1>4. Sound(r)
    BY <1>1, <1>2, ComponentSound
  <1>5. Exact(s) => Exact(r)
    BY <1>1, <1>2, ComponentExact
  <1>6. r \in States /\ r.registered = s.registered
    BY <1>2 DEF ComponentSays
  <1> QED
    BY <1>3, <1>4, <1>5, <1>6, FilesApart DEF Indexing, r

LEMMA IndexingLoad ==
    ASSUME NEW s \in States, Sound(s), Closed(s), NEW f \in Files, NEW by \in Files,
           disk[f] \in Texts
    PROVE  LET r == Load(s, f, 0, by)
           IN  /\ Indexing(s, f, r) /\ Known(r, f) /\ FileAt(r, f).content = disk[f]
               /\ f \in Templates => Others(s, r, by)
               /\ Exact(s) /\ (~Known(s, f) \/ f \in Components) => Exact(r)
  <1> DEFINE r == Load(s, f, 0, by)
  <1>1. LoadSays(s, f, 0, by, r)
    BY LoadEffect
  <1> HIDE DEF r
  <1>2. /\ Sound(r) /\ Others(s, r, f) /\ Known(r, f) /\ r.files[f] = <<f, by>>
        /\ Closed(r)
        /\ Exact(s) /\ (~Known(s, f) \/ f \in Components) => Exact(r)
    BY <1>1, LoadKeeps
  <1>3. /\ r \in States /\ r.registered = s.registered
        /\ r.files = [s.files EXCEPT ![f] = <<f, by>>]
        /\ r.object[<<f, by>>].content = disk[f]
    BY <1>1 DEF LoadSays
  <1>4. \A g \in Files : Known(s, g) => Known(r, g)
    BY <1>2, <1>3, StateFields DEF Known
  <1>5. f \in Templates => Others(s, r, by)
    BY <1>2, FilesApart DEF Others
  <1>6. FileAt(r, f).content = disk[f]
    BY <1>2, <1>3 DEF FileAt
  <1> QED
    BY <1>2, <1>3, <1>4, <1>5, <1>6 DEF Indexing, r

LEMMA IndexingTransitive ==
    ASSUME NEW s, NEW r, NEW q, NEW f, Indexing(s, f, r), Indexing(r, f, q)
    PROVE  Indexing(s, f, q)
  <1>1. Others(s, q, f)
    BY OthersTransitive DEF Indexing
  <1> QED
    BY <1>1 DEF Indexing

\* A step of a task of the index, and where the task is after it.
TaskSays(f) ==
    /\ Indexing(state, f, state')
    /\ ~parallel => Exact(state')
    /\ \E stage \in {"look up", "load", "indexed", "done"} :
          /\ pc' = [pc EXCEPT ![f] = stage]
          /\ stage = "look up" =>
                /\ f \in Components /\ disk[f] # None /\ TemplateOf(disk[f]) # None
                /\ Known(state', f) /\ FileAt(state', f).content = disk[f]
          /\ stage = "load" =>
                /\ disk[f] # None /\ UNCHANGED state /\ ~Known(state, Sought(f))
                /\ f \in Components => pc[f] = "look up"
          /\ stage = "indexed" => Known(state', f)
          /\ stage = "done" =>
                /\ pc[f] = "indexed"
                /\ f \in Components => FileAt(state', f).classes \subseteq state'.registered
          /\ stage \in {"look up", "load"} => MayBegin \/ pc[f] \in {"look up", "load"}
    /\ UNCHANGED <<disk, editor, inbox, sent, published>>
    /\ pc[f] # "done"
    /\ pc[f] \in {"look up", "load"} \/ MayBegin \/ \A g \in Files : pc[g] \in {"indexed", "done"}

LEMMA TaskEffect ==
    ASSUME disk \in [Files -> Texts \cup {None}], state \in States, Sound(state), Tasks,
           ~parallel => Exact(state) /\ Alone, NEW f \in Files, IndexTask(f)
    PROVE  TaskSays(f)
  <1>1. \A g \in Files : disk[g] # None => disk[g] \in Texts
    OBVIOUS
  <1>2. \A g \in Files : pc[g] # "done" => Closed(state)
    BY DEF Tasks, Closed
  <1>3. Closed(state) => Indexing(state, f, state)
    BY DEF Indexing, Others
  <1>4. CASE BeginComponent(f)
    <2> DEFINE loaded == Load(state, f, 0, f)
    <2>1. /\ f \in Components /\ pc[f] = "ready" /\ MayBegin
          /\ UNCHANGED <<disk, editor, inbox, sent, published>>
          /\ \/ /\ TemplateOf(disk[f]) # None
                /\ state' = loaded /\ pc' = [pc EXCEPT ![f] = "look up"]
             \/ state' = IndexComponent(loaded, f) /\ pc' = [pc EXCEPT ![f] = "indexed"]
      BY <1>4 DEF BeginComponent
    <2>2. disk[f] # None /\ disk[f] \in Texts /\ Closed(state)
      BY <1>1, <1>2, <2>1 DEF Tasks
    <2>3. /\ Indexing(state, f, loaded) /\ Known(loaded, f) /\ FileAt(loaded, f).content = disk[f]
          /\ Exact(state) => Exact(loaded)
      BY <2>1, <2>2, IndexingLoad
    <2> HIDE DEF loaded
    <2>4. CASE /\ TemplateOf(disk[f]) # None
               /\ state' = loaded /\ pc' = [pc EXCEPT ![f] = "look up"]
      BY <2>1, <2>2, <2>3, <2>4 DEF TaskSays
    <2>5. CASE state' = IndexComponent(loaded, f) /\ pc' = [pc EXCEPT ![f] = "indexed"]
      <3>1. /\ Indexing(loaded, f, state') /\ Known(state', f)
            /\ Exact(loaded) => Exact(state')
        BY <2>1, <2>3, <2>5, IndexingComponent DEF Indexing
      <3>2. Indexing(state, f, state')
        BY <2>3, <3>1, IndexingTransitive
      <3> QED
        BY <2>1, <2>3, <2>5, <3>1, <3>2 DEF TaskSays
    <2> QED
      BY <2>1, <2>4, <2>5
  <1>5. CASE LookUpTemplate(f)
    <2>1. /\ f \in Components /\ pc[f] = "look up"
          /\ UNCHANGED <<disk, editor, inbox, sent, published>>
          /\ \/ state' = IndexComponent(state, f) /\ pc' = [pc EXCEPT ![f] = "indexed"]
             \/ ~Known(state, Names[disk[f]]) /\ pc' = [pc EXCEPT ![f] = "load"]
                   /\ UNCHANGED state
      BY <1>5 DEF LookUpTemplate
    <2>2. disk[f] # None /\ Known(state, f) /\ Closed(state)
      BY <1>2, <2>1 DEF Tasks
    <2>3. CASE state' = IndexComponent(state, f) /\ pc' = [pc EXCEPT ![f] = "indexed"]
      <3>1. /\ Indexing(state, f, state') /\ Known(state', f)
            /\ Exact(state) => Exact(state')
        BY <2>1, <2>2, <2>3, IndexingComponent
      <3> QED
        BY <2>1, <2>3, <3>1 DEF TaskSays
    <2>4. CASE ~Known(state, Names[disk[f]]) /\ pc' = [pc EXCEPT ![f] = "load"] /\ UNCHANGED state
      <3>1. Indexing(state, f, state')
        BY <1>3, <2>2, <2>4
      <3>2. ~Known(state, Sought(f))
        BY <2>1, <2>4 DEF Sought
      <3> QED
        BY <2>1, <2>2, <2>4, <3>1, <3>2 DEF TaskSays
    <2> QED
      BY <2>1, <2>3, <2>4
  <1>6. CASE LoadTemplate(f)
    <2> DEFINE t == Names[disk[f]]
               loaded == Load(state, t, 0, f)
    <2>1. /\ f \in Components /\ pc[f] = "load" /\ pc' = [pc EXCEPT ![f] = "indexed"]
          /\ UNCHANGED <<disk, editor, inbox, sent, published>>
          /\ state' = IndexComponent(loaded, f)
      BY <1>6 DEF LoadTemplate
    <2>2. disk[f] \in Texts /\ Known(state, f) /\ Closed(state) /\ t # None /\ disk[t] # None
      BY <1>1, <1>2, <2>1 DEF Tasks, TemplateOf
    <2>3. t \in Templates /\ t \in Files /\ Sought(f) = t
      BY <2>1, <2>2, DocumentAssumption, FilesApart DEF Sought
    <2> HIDE DEF t
    <2>4. /\ Indexing(state, t, loaded) /\ Others(state, loaded, f)
          /\ Exact(state) /\ ~Known(state, t) => Exact(loaded)
      BY <1>1, <2>2, <2>3, IndexingLoad
    <2> HIDE DEF loaded
    <2>5. Indexing(state, f, loaded) /\ Known(loaded, f)
      BY <2>2, <2>4 DEF Indexing
    <2>6. /\ Indexing(loaded, f, state') /\ Known(state', f)
          /\ Exact(loaded) => Exact(state')
      BY <2>1, <2>5, IndexingComponent DEF Indexing
    <2>7. Indexing(state, f, state')
      BY <2>5, <2>6, IndexingTransitive
    <2>8. ~parallel => Exact(state')
      BY <2>1, <2>3, <2>4, <2>6 DEF Alone
    <2> QED
      BY <2>1, <2>6, <2>7, <2>8 DEF TaskSays
  <1>7. CASE BeginTemplate(f)
    <2>1. /\ f \in Templates /\ pc[f] = "ready" /\ MayBegin /\ f \notin Components
          /\ UNCHANGED <<disk, editor, inbox, sent, published>>
          /\ \/ Known(state, f) /\ state' = IndexTemplate(state, f)
                   /\ pc' = [pc EXCEPT ![f] = "indexed"]
             \/ ~Known(state, f) /\ pc' = [pc EXCEPT ![f] = "load"] /\ UNCHANGED state
      BY <1>7, FilesApart DEF BeginTemplate
    <2>2. disk[f] # None /\ Closed(state)
      BY <1>2, <2>1 DEF Tasks
    <2>3. CASE Known(state, f) /\ state' = IndexTemplate(state, f)
                 /\ pc' = [pc EXCEPT ![f] = "indexed"]
      <3>1. TemplateSays(state, f, state')
        BY <2>1, <2>3, TemplateEffect
      <3>2. /\ Sound(state') /\ Others(state, state', f)
            /\ Closed(state')
            /\ Exact(state) => Exact(state')
        BY <2>1, <2>2, <2>3, <3>1, TemplateKeeps
      <3>3. /\ state' \in States /\ state'.registered = state.registered
            /\ \A g \in Files : Known(state, g) => Known(state', g)
        BY <3>1 DEF TemplateSays, Known
      <3>4. Indexing(state, f, state')
        BY <3>2, <3>3 DEF Indexing
      <3> QED
        BY <2>1, <2>3, <3>2, <3>3, <3>4 DEF TaskSays
    <2>4. CASE ~Known(state, f) /\ pc' = [pc EXCEPT ![f] = "load"] /\ UNCHANGED state
      <3>1. Indexing(state, f, state')
        BY <1>3, <2>2, <2>4
      <3>2. ~Known(state, Sought(f))
        BY <2>1, <2>4 DEF Sought
      <3> QED
        BY <2>1, <2>2, <2>4, <3>1, <3>2 DEF TaskSays
    <2> QED
      BY <2>1, <2>3, <2>4
  <1>8. CASE LoadOwnTemplate(f)
    <2>1. /\ f \in Templates /\ pc[f] = "load" /\ f \notin Components
          /\ state' = Load(state, f, 0, f) /\ pc' = [pc EXCEPT ![f] = "indexed"]
          /\ UNCHANGED <<disk, editor, inbox, sent, published>>
      BY <1>8, FilesApart DEF LoadOwnTemplate
    <2>2. disk[f] \in Texts /\ Closed(state)
      BY <1>1, <1>2, <2>1 DEF Tasks
    <2>3. /\ Indexing(state, f, state') /\ Known(state', f)
          /\ Exact(state) /\ ~Known(state, f) => Exact(state')
      BY <2>1, <2>2, IndexingLoad
    <2>4. ~parallel => Exact(state')
      BY <2>1, <2>3 DEF Alone, Sought
    <2> QED
      BY <2>1, <2>3, <2>4 DEF TaskSays
  <1>9. CASE PostprocessFile(f)
    <2>1. /\ pc[f] = "indexed" /\ \A g \in Files : pc[g] \in {"indexed", "done"}
          /\ state' = Postprocess(state, {f}) /\ pc' = [pc EXCEPT ![f] = "done"]
          /\ UNCHANGED <<disk, editor, inbox, sent, published>>
      BY <1>9 DEF PostprocessFile
    <2>2. Known(state, f) /\ Closed(state)
      BY <1>2, <2>1 DEF Tasks
    <2>3. PostprocessSays(state, {f}, state')
      BY <2>1, <2>2, PostprocessEffect
    <2>4. /\ Sound(state') /\ Others(state, state', f)
          /\ Closed(state')
          /\ Exact(state) => Exact(state')
          /\ state.registered \subseteq state'.registered
          /\ FileAt(state, f).classes \subseteq state'.registered
      BY <2>2, <2>3, PostprocessKeeps
    <2>5. state' \in States /\ state'.files = state.files
      BY <2>3 DEF PostprocessSays
    <2>6. ASSUME f \in Components PROVE FileAt(state', f).classes \subseteq state'.registered
      <3>1. Others(state, state', None) /\ f # None
        BY <2>2, <2>3, DocumentAssumption, PostprocessKeeps
      <3>2. FileAt(state', f) = FileAt(state, f)
        BY <2>2, <2>6, <3>1 DEF Others
      <3> QED
        BY <2>4, <3>2
    <2>7. \A g \in Files : Known(state, g) => Known(state', g)
      BY <2>5 DEF Known
    <2>8. Indexing(state, f, state')
      BY <2>4, <2>5, <2>7 DEF Indexing
    <2> QED
      BY <2>1, <2>4, <2>6, <2>8 DEF TaskSays
  <1> QED
    BY <1>4, <1>5, <1>6, <1>7, <1>8, <1>9 DEF IndexTask

-----------------------------------------------------------------------------
(* The editor's steps.                                                     *)

Document == [open : BOOLEAN, text : Texts, version : Nat, changed : BOOLEAN]

Stages == {"ready", "look up", "load", "indexed", "done"}

\* What was sent about this document.
PublishedOf(f) ==
    published[f] # None =>
        /\ published[f].version \in Nat /\ published[f].content \in Texts
        /\ \A c \in DOMAIN published[f].uses : published[f].uses[c] \in Texts

LEMMA TypeParts ==
    TypeOK <=> /\ disk \in [Files -> Texts \cup {None}] /\ editor \in [Files -> Document]
               /\ inbox \in Seq(Notices) /\ sent \in 0 .. MaxMessages
               /\ pc \in [Files -> Stages] /\ state \in States /\ parallel \in BOOLEAN
               /\ \A f \in Files : PublishedOf(f)
  BY DEF TypeOK, Document, Notices, Stages, PublishedOf

\* A document changes only by a notification that brings its new text and
\* version.
EditSays(f) ==
    /\ UNCHANGED <<pc, state, published>>
    /\ disk' \in [Files -> Texts \cup {None}] /\ (disk' = disk \/ Serving)
    /\ editor' \in [Files -> Document] /\ \A g \in Files \ {f} : editor'[g] = editor[g]
    /\ \/ /\ UNCHANGED <<inbox, sent>>
          /\ editor'[f].changed => editor'[f] = editor[f]
       \/ \E m \in Notices :
             /\ inbox' = Append(inbox, m) /\ sent < MaxMessages /\ sent' = sent + 1
             /\ m.file = f
             /\ editor'[f].changed =>
                   /\ m.text = editor'[f].text /\ m.version = editor'[f].version
                   /\ ~m.opens /\ editor'[f].version > 0

LEMMA EditEffect ==
    ASSUME TypeOK, NEW f \in Files, Edit(f)
    PROVE  EditSays(f)
  <1>1. /\ disk \in [Files -> Texts \cup {None}] /\ editor \in [Files -> Document]
        /\ editor[f] \in Document
    BY TypeParts
  <1>2. \A text \in Texts, version \in Nat, opens \in BOOLEAN :
           LET m == [file |-> f, text |-> text, version |-> version, opens |-> opens]
           IN  /\ m \in Notices /\ m.file = f /\ m.text = text /\ m.version = version
               /\ m.opens = opens
    BY DEF Notices
  <1>3. CASE OpenDocument(f)
    <2> DEFINE text == IF disk[f] = None THEN Empty ELSE disk[f]
               new == [open |-> TRUE, text |-> text, version |-> OpenVersion, changed |-> FALSE]
               m == [file |-> f, text |-> Empty, version |-> OpenVersion, opens |-> TRUE]
    <2>1. /\ editor' = [editor EXCEPT ![f] = new]
          /\ inbox' = Append(inbox, m) /\ sent < MaxMessages /\ sent' = sent + 1
          /\ UNCHANGED <<disk, pc, state, published>>
      BY <1>3 DEF OpenDocument, Send
    <2>2. text \in Texts
      BY <1>1, DocumentAssumption
    <2>3. new \in Document /\ ~new.changed
      BY <2>2, DocumentAssumption DEF Document
    <2>4. m \in Notices /\ m.file = f
      BY DocumentAssumption DEF Notices
    <2> HIDE DEF new, m
    <2>5. /\ editor' \in [Files -> Document] /\ editor'[f] = new
          /\ \A g \in Files \ {f} : editor'[g] = editor[g]
      BY <1>1, <2>1, <2>3
    <2> QED
      BY <1>1, <2>1, <2>3, <2>4, <2>5 DEF EditSays
  <1>4. CASE \E text \in Texts : ChangeDocument(f, text)
    <2>1. PICK text \in Texts : ChangeDocument(f, text)
      BY <1>4
    <2> DEFINE v == editor[f].version + 1
               new == [open |-> TRUE, text |-> text, version |-> v, changed |-> TRUE]
               m == [file |-> f, text |-> text, version |-> v, opens |-> FALSE]
    <2>2. v \in Nat /\ v > 0
      BY <1>1 DEF Document
    <2>3. /\ editor' = [editor EXCEPT ![f] = new]
          /\ inbox' = Append(inbox, m) /\ sent < MaxMessages /\ sent' = sent + 1
          /\ UNCHANGED <<disk, pc, state, published>>
      BY <2>1 DEF ChangeDocument, Send
    <2> HIDE DEF v
    <2>4. new \in Document /\ new.text = text /\ new.version = v
      BY <2>2 DEF Document
    <2>5. m \in Notices /\ m.file = f /\ m.text = text /\ m.version = v /\ ~m.opens
      BY <2>2 DEF Notices
    <2> HIDE DEF new, m
    <2>6. /\ editor' \in [Files -> Document] /\ editor'[f] = new
          /\ \A g \in Files \ {f} : editor'[g] = editor[g]
      BY <1>1, <2>3, <2>4
    <2> QED
      BY <1>1, <2>2, <2>3, <2>4, <2>5, <2>6 DEF EditSays
  <1>5. CASE SaveDocument(f)
    <2>1. /\ Serving /\ disk' = [disk EXCEPT ![f] = editor[f].text]
          /\ UNCHANGED <<editor, inbox, sent, pc, state, published>>
      BY <1>5 DEF SaveDocument
    <2>2. editor[f].text \in Texts
      BY <1>1 DEF Document
    <2>3. disk' \in [Files -> Texts \cup {None}]
      BY <1>1, <2>1, <2>2
    <2> QED
      BY <1>1, <2>1, <2>3 DEF EditSays
  <1>6. CASE CloseDocument(f)
    <2> DEFINE one == [editor EXCEPT ![f].open = FALSE]
               new == [editor[f] EXCEPT !.open = FALSE, !.changed = FALSE]
    <2>1. /\ editor' = [one EXCEPT ![f].changed = FALSE]
          /\ UNCHANGED <<disk, inbox, sent, pc, state, published>>
      BY <1>6 DEF CloseDocument
    <2>2. one \in [Files -> Document] /\ \A g \in Files \ {f} : one[g] = editor[g]
      BY <1>1 DEF Document
    <2> HIDE DEF one
    <2>3. /\ editor' \in [Files -> Document] /\ ~editor'[f].changed
          /\ \A g \in Files \ {f} : editor'[g] = editor[g]
      BY <2>1, <2>2 DEF Document
    <2> QED
      BY <1>1, <2>1, <2>3 DEF EditSays
  <1> QED
    BY <1>3, <1>4, <1>5, <1>6 DEF Edit

-----------------------------------------------------------------------------
(* Types and the State                                                     *)

LEMMA DiagnosedType ==
    ASSUME NEW s \in States, NEW g \in Files, Known(s, g)
    PROVE  LET d == Diagnosed(s, g)
           IN  /\ d.version \in Nat /\ d.content \in Texts
               /\ \A c \in DOMAIN d.uses : d.uses[c] \in Texts
  <1>1. /\ FileAt(s, g).version \in Nat /\ FileAt(s, g).content \in Texts
        /\ FileAt(s, g).classes \in SUBSET Components
    BY KnownFile
  <1>2. \A c \in FileAt(s, g).classes : s.class[c].uses \in Texts
    BY <1>1, StateFields DEF Class
  <1> QED
    BY <1>1, <1>2 DEF Diagnosed

LEMMA SentType ==
    ASSUME \A g \in Files : PublishedOf(g), state' \in States, Sound(state'),
           NEW f \in Files, Sent(f)
    PROVE  \A g \in Files : PublishedOf(g)'
  <1>1. CASE UNCHANGED published
    BY <1>1 DEF PublishedOf
  <1>2. CASE Publish(state', f) /\ Known(state', f)
    <2> SUFFICES ASSUME NEW g \in Files PROVE PublishedOf(g)'
      OBVIOUS
    <2>1. \A h \in Dependencies(state', f) : Known(state', h)
      BY <1>2, DependenciesKnown DEF Sound
    <2>2. CASE published'[g] = published[g]
      BY <2>2 DEF PublishedOf
    <2>3. CASE published'[g] = Diagnosed(state', g) /\ Known(state', g)
      BY <2>3, DiagnosedType DEF PublishedOf
    <2>4. published'[g] = published[g]
          \/ (published'[g] = Diagnosed(state', g) /\ (g = f \/ g \in Dependencies(state', f)))
      BY <1>2 DEF Publish
    <2> QED
      BY <1>2, <2>1, <2>2, <2>3, <2>4
  <1> QED
    BY <1>1, <1>2 DEF Sent

-----------------------------------------------------------------------------
(* Every step preserves IInv.                                              *)

LEMMA ClosedFiles ==
    ASSUME NEW s \in States, Closed(s), NEW f \in Files, Known(s, f)
    PROVE  ~FileAt(s, f).open
  BY KnownFile DEF Closed

LEMMA TaskType ==
    ASSUME TypeOK, NEW f \in Files, TaskSays(f), UNCHANGED parallel
    PROVE  TypeOK'
  <1>1. /\ state' \in States /\ UNCHANGED <<disk, editor, inbox, sent, published>>
        /\ pc' \in [Files -> Stages]
    BY TypeParts DEF TaskSays, Indexing, Stages
  <1> QED
    BY <1>1, TypeParts DEF TypeOK, Stages, Notices

LEMMA TaskTasks ==
    ASSUME pc \in [Files -> Stages], state \in States, Tasks, NEW f \in Files, TaskSays(f)
    PROVE  Tasks'
  <1>1. /\ Others(state, state', f) /\ Closed(state')
        /\ \A g \in Files : Known(state, g) => Known(state', g)
        /\ state.registered \subseteq state'.registered /\ UNCHANGED disk
        /\ pc[f] # "done"
    BY DEF TaskSays, Indexing
  <1>2. PICK stage \in {"look up", "load", "indexed", "done"} :
          /\ pc' = [pc EXCEPT ![f] = stage]
          /\ stage = "look up" =>
                /\ f \in Components /\ disk[f] # None /\ TemplateOf(disk[f]) # None
                /\ Known(state', f) /\ FileAt(state', f).content = disk[f]
          /\ stage = "load" =>
                /\ disk[f] # None /\ UNCHANGED state
                /\ f \in Components => pc[f] = "look up"
          /\ stage = "indexed" => Known(state', f)
          /\ stage = "done" /\ f \in Components =>
                FileAt(state', f).classes \subseteq state'.registered
    BY DEF TaskSays
  <1>3. pc'[f] = stage /\ \A g \in Files \ {f} : pc'[g] = pc[g]
    BY <1>2
  <1> SUFFICES ASSUME NEW g \in Files
               PROVE  /\ pc'[g] \in {"ready", "look up", "load"} => disk'[g] # None
                      /\ pc'[g] \in {"look up", "load"} /\ g \in Components =>
                            /\ TemplateOf(disk[g])' # None /\ Known(state', g)
                            /\ FileAt(state', g).content = disk'[g]
                      /\ pc'[g] = "look up" => g \in Components
                      /\ pc'[g] = "indexed" => Known(state', g)
                      /\ pc'[g] = "done" /\ g \in Components /\ Known(state', g) =>
                            FileAt(state', g).classes \subseteq state'.registered
                      /\ pc'[g] # "done" => \A o \in Objects : ~state'.object[o].open
    BY DEF Tasks
  <1>6. TemplateOf(disk[g])' = TemplateOf(disk[g])
    BY <1>1 DEF TemplateOf
  <1>4. CASE g = f
    <2>1. CASE stage = "load"
      <3>1. f \in Components => /\ TemplateOf(disk[f]) # None /\ Known(state, f)
                                /\ FileAt(state, f).content = disk[f]
        BY <1>2, <2>1 DEF Tasks
      <3> QED
        BY <1>1, <1>2, <1>3, <1>4, <1>6, <2>1, <3>1 DEF Closed
    <2>2. CASE stage # "load"
      BY <1>1, <1>2, <1>3, <1>4, <1>6, <2>2 DEF Closed
    <2> QED
      BY <2>1, <2>2
  <1>5. CASE g # f
    <2>1. /\ pc[g] \in {"ready", "look up", "load"} => disk[g] # None
          /\ pc[g] \in {"look up", "load"} /\ g \in Components =>
                /\ TemplateOf(disk[g]) # None /\ Known(state, g)
                /\ FileAt(state, g).content = disk[g]
          /\ pc[g] = "look up" => g \in Components
          /\ pc[g] = "indexed" => Known(state, g)
          /\ pc[g] = "done" /\ g \in Components /\ Known(state, g) =>
                FileAt(state, g).classes \subseteq state.registered
      BY DEF Tasks
    <2>2. g \in Components => /\ Known(state', g) <=> Known(state, g)
                              /\ Known(state, g) => FileAt(state', g) = FileAt(state, g)
      BY <1>1, <1>5 DEF Others
    <2> QED
      BY <1>1, <1>3, <1>5, <1>6, <2>1, <2>2 DEF Closed
  <1> QED
    BY <1>4, <1>5

LEMMA TaskAlone ==
    ASSUME pc \in [Files -> Stages], Alone, ~parallel, NEW f \in Files, TaskSays(f)
    PROVE  Alone'
  <1>1. /\ UNCHANGED disk
        /\ pc[f] \in {"look up", "load"} \/ MayBegin \/ \A g \in Files : pc[g] \in {"indexed", "done"}
    BY DEF TaskSays
  <1>2. PICK stage \in {"look up", "load", "indexed", "done"} :
          /\ pc' = [pc EXCEPT ![f] = stage]
          /\ stage = "load" => UNCHANGED state /\ ~Known(state, Sought(f))
          /\ stage \in {"look up", "load"} => MayBegin \/ pc[f] \in {"look up", "load"}
    BY DEF TaskSays
  <1>3. pc'[f] = stage /\ \A g \in Files \ {f} : pc'[g] = pc[g]
    BY <1>2
  <1>4. MayBegin => \A g \in Files : pc[g] \in {"ready", "indexed", "done"}
    BY DEF MayBegin
  <1>5. ASSUME NEW g \in Files, pc'[g] \in {"look up", "load"}
        PROVE  g = f
    <2>1. SUFFICES ASSUME g # f PROVE FALSE
      OBVIOUS
    <2>2. pc[g] \in {"look up", "load"}
      BY <1>3, <1>5, <2>1
    <2>3. pc[f] \in {"ready", "indexed", "done"}
      BY <2>1, <2>2 DEF Alone
    <2> QED
      BY <1>1, <1>4, <2>2, <2>3
  <1>6. ASSUME pc'[f] \in {"look up", "load"}, NEW h \in Files \ {f}
        PROVE  pc'[h] \in {"ready", "indexed", "done"}
    <2>1. MayBegin \/ pc[f] \in {"look up", "load"}
      BY <1>2, <1>3, <1>6
    <2>2. pc[h] \in {"ready", "indexed", "done"}
      BY <1>4, <2>1 DEF Alone
    <2> QED
      BY <1>3, <2>2
  <1>7. pc'[f] = "load" => ~Known(state', Sought(f)')
    BY <1>1, <1>2, <1>3 DEF Sought
  <1> QED
    BY <1>5, <1>6, <1>7 DEF Alone

LEMMA TaskStep ==
    ASSUME IInv, NEW f \in Files, IndexTask(f), UNCHANGED parallel
    PROVE  IInv'
  <1>1. /\ TypeOK /\ disk \in [Files -> Texts \cup {None}] /\ state \in States
        /\ pc \in [Files -> Stages] /\ Sound(state) /\ Tasks /\ Delivered
        /\ ~parallel => Exact(state) /\ Alone
    BY TypeParts DEF IInv
  <1>2. TaskSays(f)
    BY <1>1, TaskEffect
  <1>3. /\ state' \in States /\ Sound(state') /\ Closed(state')
        /\ UNCHANGED <<disk, editor, inbox, sent, published>>
        /\ ~parallel => Exact(state')
    BY <1>2 DEF TaskSays, Indexing
  <1>4. \A g \in Files : Known(state', g) => ~FileAt(state', g).open
    BY <1>3, ClosedFiles
  <1>5. Delivered'
    BY <1>1, <1>3, <1>4 DEF Delivered
  <1>6. Shown'
    BY <1>4, FilesApart DEF Shown, IndexFails
  <1>7. TypeOK' /\ Tasks' /\ (~parallel => Alone')
    BY <1>1, <1>2, TaskType, TaskTasks, TaskAlone
  <1> QED
    BY <1>3, <1>5, <1>6, <1>7 DEF IInv

LEMMA AppendParts ==
    ASSUME NEW q \in Seq(Notices), NEW m \in Notices
    PROVE  /\ Append(q, m) \in Seq(Notices)
           /\ Len(q) \in Nat /\ Len(Append(q, m)) = Len(q) + 1
           /\ \A i \in 1..Len(q) : Append(q, m)[i] = q[i]
           /\ Append(q, m)[Len(q) + 1] = m
  OBVIOUS

LEMMA EditDelivered ==
    ASSUME TypeOK, Delivered, NEW f \in Files, EditSays(f)
    PROVE  Delivered'
  <1>1. inbox \in Seq(Notices)
    BY TypeParts
  <1>2. UNCHANGED state /\ \A g \in Files \ {f} : editor'[g] = editor[g]
    BY DEF EditSays
  <1>3. CASE UNCHANGED inbox /\ (editor'[f].changed => editor'[f] = editor[f])
    <2>1. \A g \in Files : editor'[g].changed => editor'[g] = editor[g]
      BY <1>2, <1>3
    <2> QED
      BY <1>2, <1>3, <2>1 DEF Delivered
  <1>4. ASSUME NEW m \in Notices, inbox' = Append(inbox, m), m.file = f,
               editor'[f].changed =>
                   /\ m.text = editor'[f].text /\ m.version = editor'[f].version
                   /\ ~m.opens /\ editor'[f].version > 0
        PROVE  Delivered'
    <2>1. /\ Len(inbox) \in Nat /\ Len(inbox') = Len(inbox) + 1
          /\ \A i \in 1..Len(inbox) : inbox'[i] = inbox[i]
          /\ inbox'[Len(inbox) + 1] = m
      BY <1>1, <1>4, AppendParts
    <2> SUFFICES ASSUME NEW g \in Files, editor'[g].changed
                 PROVE  /\ editor'[g].version > 0
                        /\ \A i \in 1..Len(inbox') :
                              inbox'[i].file = g
                              /\ (\A j \in 1..Len(inbox') : j > i => inbox'[j].file # g) =>
                                /\ inbox'[i].text = editor'[g].text
                                /\ inbox'[i].version = editor'[g].version
                                /\ ~inbox'[i].opens
                        /\ Known(state', g) /\ FileAt(state', g).open
                           /\ (\A i \in 1..Len(inbox') : inbox'[i].file # g) =>
                                /\ FileAt(state', g).content = editor'[g].text
                                /\ FileAt(state', g).version = editor'[g].version
      BY DEF Delivered
    <2> DEFINE n == Len(inbox) + 1
    <2>2. n \in 1..Len(inbox') /\ inbox'[n] = m
      BY <2>1
    <2>3. CASE g = f
      <3>1. editor'[f].version > 0
        BY <1>4, <2>3
      <3>2. ASSUME NEW i \in 1..Len(inbox'), \A j \in 1..Len(inbox') : j > i => inbox'[j].file # g
            PROVE  i = n
        BY <1>4, <2>1, <2>2, <2>3, <3>2
      <3> HIDE DEF n
      <3> QED
        BY <1>4, <2>2, <2>3, <3>1, <3>2
    <2>4. CASE g # f
      <3>1. editor'[g] = editor[g] /\ editor[g].changed
        BY <1>2, <2>4
      <3>2. /\ editor[g].version > 0
            /\ \A i \in 1..Len(inbox) :
                  inbox[i].file = g /\ (\A j \in 1..Len(inbox) : j > i => inbox[j].file # g) =>
                    /\ inbox[i].text = editor[g].text
                    /\ inbox[i].version = editor[g].version
                    /\ ~inbox[i].opens
            /\ Known(state, g) /\ FileAt(state, g).open
               /\ (\A i \in 1..Len(inbox) : inbox[i].file # g) =>
                    /\ FileAt(state, g).content = editor[g].text
                    /\ FileAt(state, g).version = editor[g].version
        BY <3>1 DEF Delivered
      <3>3. ASSUME NEW i \in 1..Len(inbox'), inbox'[i].file = g,
                   \A j \in 1..Len(inbox') : j > i => inbox'[j].file # g
            PROVE  /\ inbox'[i].text = editor'[g].text
                   /\ inbox'[i].version = editor'[g].version
                   /\ ~inbox'[i].opens
        <4>1. i # n
          BY <1>4, <2>2, <2>4, <3>3
        <4>2. i \in 1..Len(inbox) /\ 1..Len(inbox) \subseteq 1..Len(inbox')
          BY <2>1, <4>1
        <4>3. inbox'[i] = inbox[i] /\ \A j \in 1..Len(inbox) : j > i => inbox[j].file # g
          BY <2>1, <3>3, <4>2
        <4> HIDE DEF n
        <4> QED
          BY <3>1, <3>2, <3>3, <4>2, <4>3
      <3>4. (\A i \in 1..Len(inbox') : inbox'[i].file # g)
              => \A i \in 1..Len(inbox) : inbox[i].file # g
        BY <2>1
      <3> QED
        BY <1>2, <3>1, <3>2, <3>3, <3>4
    <2> QED
      BY <2>3, <2>4
  <1> QED
    BY <1>3, <1>4 DEF EditSays

LEMMA EditStep ==
    ASSUME IInv, NEW f \in Files, Edit(f), UNCHANGED parallel
    PROVE  IInv'
  <1>1. TypeOK /\ Sound(state) /\ Tasks /\ Delivered /\ (~parallel => Exact(state) /\ Alone /\ Shown)
    BY DEF IInv
  <1>2. EditSays(f)
    BY <1>1, EditEffect
  <1>3. UNCHANGED <<pc, state, published>> /\ (disk' = disk \/ Serving)
    BY <1>2 DEF EditSays
  <1>4. /\ disk \in [Files -> Texts \cup {None}] /\ inbox \in Seq(Notices)
        /\ sent \in 0 .. MaxMessages /\ pc \in [Files -> Stages] /\ state \in States
        /\ parallel \in BOOLEAN /\ \A g \in Files : PublishedOf(g)
    BY <1>1, TypeParts
  <1>5. TypeOK'
    <2>1. disk' \in [Files -> Texts \cup {None}] /\ editor' \in [Files -> Document]
      BY <1>2 DEF EditSays
    <2>2. inbox' \in Seq(Notices) /\ sent' \in 0 .. MaxMessages
      <3>1. CASE UNCHANGED <<inbox, sent>>
        BY <1>4, <3>1
      <3>2. ASSUME NEW m \in Notices, inbox' = Append(inbox, m), sent < MaxMessages,
                   sent' = sent + 1
            PROVE  inbox' \in Seq(Notices) /\ sent' \in 0 .. MaxMessages
        BY <1>4, <3>2, AppendParts, DocumentAssumption
      <3> QED
        BY <1>2, <3>1, <3>2 DEF EditSays
    <2>3. \A g \in Files : PublishedOf(g)'
      BY <1>3, <1>4 DEF PublishedOf
    <2> QED
      BY <1>3, <1>4, <2>1, <2>2, <2>3 DEF TypeOK, Document, Notices, Stages, PublishedOf
  <1>6. Tasks'
    <2>1. CASE disk' = disk
      BY <1>1, <1>3, <2>1 DEF Tasks, TemplateOf
    <2>2. CASE Serving
      BY <1>1, <1>3, <2>2 DEF Tasks, Serving
    <2> QED
      BY <1>3, <2>1, <2>2
  <1>7. ~parallel => Alone'
    <2>1. CASE disk' = disk
      BY <1>1, <1>3, <2>1 DEF Alone, Sought
    <2>2. CASE Serving
      BY <1>3, <2>2 DEF Alone, Serving
    <2> QED
      BY <1>3, <2>1, <2>2
  <1>8. Delivered'
    BY <1>1, <1>2, EditDelivered
  <1>9. Sound(state') /\ (~parallel => Exact(state') /\ Shown')
    BY <1>1, <1>3 DEF Shown, IndexFails
  <1> QED
    BY <1>5, <1>6, <1>7, <1>8, <1>9 DEF IInv

LEMMA TailParts ==
    ASSUME NEW q \in Seq(Notices), q # <<>>
    PROVE  /\ Head(q) \in Notices /\ Head(q) = q[1] /\ Tail(q) \in Seq(Notices)
           /\ Len(q) \in Nat /\ Len(q) > 0 /\ Len(Tail(q)) = Len(q) - 1
           /\ \A i \in 1..Len(Tail(q)) : Tail(q)[i] = q[i + 1]
  OBVIOUS

\* The notifications left in the inbox are about the files that they were
\* about, and the last about a file remains the last.
LEMMA ServeDelivered ==
    ASSUME TypeOK, Delivered, inbox # <<>>, inbox' = Tail(inbox), UNCHANGED editor,
           Around(state, Head(inbox).file, state'), Took(state, Head(inbox), state')
    PROVE  Delivered'
  <1> DEFINE m == Head(inbox)
             f == m.file
  <1>1. /\ m \in Notices /\ m = inbox[1] /\ Len(inbox) \in Nat /\ Len(inbox) > 0
        /\ Len(inbox') = Len(inbox) - 1
        /\ \A i \in 1..Len(inbox') : inbox'[i] = inbox[i + 1]
    BY TailParts, TypeParts
  <1> SUFFICES ASSUME NEW g \in Files, editor'[g].changed
               PROVE  /\ editor'[g].version > 0
                      /\ \A i \in 1..Len(inbox') :
                            inbox'[i].file = g
                            /\ (\A j \in 1..Len(inbox') : j > i => inbox'[j].file # g) =>
                              /\ inbox'[i].text = editor'[g].text
                              /\ inbox'[i].version = editor'[g].version
                              /\ ~inbox'[i].opens
                      /\ Known(state', g) /\ FileAt(state', g).open
                         /\ (\A i \in 1..Len(inbox') : inbox'[i].file # g) =>
                              /\ FileAt(state', g).content = editor'[g].text
                              /\ FileAt(state', g).version = editor'[g].version
    BY DEF Delivered
  <1>5. editor' = editor /\ editor[g].changed
    OBVIOUS
  <1>2. /\ editor[g].version > 0
        /\ \A i \in 1..Len(inbox) :
              inbox[i].file = g /\ (\A j \in 1..Len(inbox) : j > i => inbox[j].file # g) =>
                /\ inbox[i].text = editor[g].text
                /\ inbox[i].version = editor[g].version
                /\ ~inbox[i].opens
        /\ Known(state, g) /\ FileAt(state, g).open
           /\ (\A i \in 1..Len(inbox) : inbox[i].file # g) =>
                /\ FileAt(state, g).content = editor[g].text
                /\ FileAt(state, g).version = editor[g].version
    BY DEF Delivered
  <1>3. ASSUME NEW i \in 1..Len(inbox'), inbox'[i].file = g,
               \A j \in 1..Len(inbox') : j > i => inbox'[j].file # g
        PROVE  /\ inbox'[i].text = editor[g].text
               /\ inbox'[i].version = editor[g].version
               /\ ~inbox'[i].opens
    <2>1. i + 1 \in 1..Len(inbox) /\ inbox[i + 1] = inbox'[i]
      BY <1>1
    <2>2. ASSUME NEW j \in 1..Len(inbox), j > i + 1 PROVE inbox[j].file # g
      <3>1. j - 1 \in 1..Len(inbox') /\ j - 1 > i /\ inbox'[j - 1] = inbox[j]
        BY <1>1, <2>2
      <3> QED
        BY <1>3, <3>1
    <2> QED
      BY <1>2, <1>3, <2>1, <2>2
  <1>4. ASSUME \A i \in 1..Len(inbox') : inbox'[i].file # g, Known(state', g), FileAt(state', g).open
        PROVE  /\ FileAt(state', g).content = editor[g].text
               /\ FileAt(state', g).version = editor[g].version
    <2>1. ASSUME NEW j \in 1..Len(inbox), j > 1 PROVE inbox[j].file # g
      <3>1. j - 1 \in 1..Len(inbox') /\ inbox'[j - 1] = inbox[j]
        BY <1>1, <2>1
      <3> QED
        BY <1>4, <3>1
    <2>2. CASE g = f
      <3>1. m.text = editor[g].text /\ m.version = editor[g].version /\ ~m.opens
        BY <1>1, <1>2, <2>1, <2>2
      <3>2. /\ Known(state, f) =>
                 /\ m.text # Empty \/ m.version # 0 => FileAt(state', f).content = m.text
                 /\ m.version # 0 => FileAt(state', f).version = m.version
            /\ ~Known(state, f) /\ Known(state', f) /\ FileAt(state', f).open => m.opens
        BY DEF Took
      <3>3. m.version # 0
        BY <1>1, <1>2, <3>1 DEF Notices
      <3> HIDE DEF m, f
      <3> QED
        BY <1>4, <2>2, <3>1, <3>2, <3>3
    <2>3. CASE g # f
      <3>1. \A i \in 1..Len(inbox) : inbox[i].file # g
        BY <1>1, <2>1, <2>3
      <3>2. KeepsFile(state, state', g)
        BY <2>3 DEF Around
      <3>3. Known(state, g)
        BY <1>4, <3>2 DEF KeepsFile
      <3>4. /\ FileAt(state', g).content = FileAt(state, g).content
            /\ FileAt(state', g).version = FileAt(state, g).version
            /\ FileAt(state', g).open = FileAt(state, g).open
        BY <3>2, <3>3 DEF KeepsFile, SameText, FileAt
      <3> QED
        BY <1>2, <1>4, <3>1, <3>3, <3>4
    <2> QED
      BY <2>2, <2>3
  <1> HIDE DEF m, f
  <1> QED
    BY <1>2, <1>3, <1>4, <1>5

\* Whoever is affected by what has changed is sent its diagnostics anew.
LEMMA ServeShown ==
    ASSUME state \in States, Sound(state), Shown, NEW f \in Files,
           Around(state, f, state'), Sent(f)
    PROVE  Shown'
  <1>1. /\ state' \in States /\ Sound(state') /\ Others(state, state', f)
        /\ \A k \in Components \ {f} :
              state'.class[k] = state.class[k]
              \/ (k \in state'.registered /\ state'.class[k].template = state'.files[f]
                  /\ Known(state', f))
    BY DEF Around
  <1> SUFFICES ASSUME NEW c \in Components, Known(state', c), FileAt(state', c).open,
                      ~IndexFails(state', c)
               PROVE  published'[c] = Diagnosed(state', c)
    BY DEF Shown, IndexFails
  <1>2. c \in Files
    BY FilesApart
  <1>3. CASE c = f
    <2> QED
      BY <1>2, <1>3 DEF Sent, Publish
  <1>4. CASE c # f
    <2>1. /\ Known(state, c) /\ FileAt(state', c) = FileAt(state, c)
      BY <1>1, <1>4 DEF Others
    <2>2. published[c] = Diagnosed(state, c)
      BY <2>1 DEF Shown, IndexFails
    <2>3. CASE state'.class[c] = state.class[c]
      <3>1. FileAt(state, c).classes \subseteq {c}
        BY <2>1 DEF Sound, Linked
      <3>2. [k \in FileAt(state, c).classes |-> state'.class[k].uses]
              = [k \in FileAt(state, c).classes |-> state.class[k].uses]
        BY <2>3, <3>1
      <3>3. Diagnosed(state', c) = Diagnosed(state, c)
        BY <2>1, <3>2 DEF Diagnosed
      <3> QED
        BY <1>2, <2>2, <3>3 DEF Sent, Publish
    <2>4. CASE state'.class[c] # state.class[c]
      <3>1. /\ c \in state'.registered /\ state'.class[c].template = state'.files[f]
            /\ Known(state', f)
        BY <1>1, <1>4, <2>4
      <3>2. c \in Dependencies(state', f)
        BY <3>1 DEF Dependencies
      <3>3. ~IndexFails(state', f)
        <4>1. state'.files[f] # None /\ state'.files[f] \in {f} \X Files
          BY <1>1, <3>1 DEF Sound, Entered, Known
        <4>2. NameOf(state'.files[f]) = f
          BY <4>1 DEF NameOf
        <4>3. f \in Templates
          BY <1>1, <3>1, <4>1, <4>2 DEF Sound, Entered
        <4> QED
          BY <4>3, DocumentAssumption DEF IndexFails
      <3> QED
        BY <1>2, <3>1, <3>2, <3>3 DEF Sent, Publish
    <2> QED
      BY <2>3, <2>4
  <1> QED
    BY <1>3, <1>4

LEMMA ServingRegistered ==
    ASSUME Tasks, Serving
    PROVE  Registered(state)
  BY FilesApart DEF Tasks, Serving, Registered

LEMMA ServeStep ==
    ASSUME IInv, Serve, UNCHANGED parallel
    PROVE  IInv'
  <1> DEFINE f == Head(inbox).file
  <1>1. /\ TypeOK /\ Sound(state) /\ Tasks /\ Delivered
        /\ ~parallel => Exact(state) /\ Alone /\ Shown
    BY DEF IInv
  <1>2. /\ disk \in [Files -> Texts \cup {None}] /\ inbox \in Seq(Notices) /\ state \in States
        /\ \A g \in Files : PublishedOf(g)
    BY <1>1, TypeParts
  <1>3. /\ Serving /\ inbox # <<>> /\ inbox' = Tail(inbox)
        /\ UNCHANGED <<disk, editor, sent, pc>>
    BY DEF Serve
  <1>4. Registered(state)
    BY <1>1, <1>3, ServingRegistered
  <1>5. /\ Head(inbox) \in Notices /\ Around(state, f, state')
        /\ Took(state, Head(inbox), state') /\ Sent(f)
    BY <1>1, <1>2, <1>4, ServeEffect
  <1>6. f \in Files
    BY <1>5 DEF Notices
  <1>7. state' \in States /\ Sound(state') /\ Registered(state') /\ (Exact(state) => Exact(state'))
    BY <1>5 DEF Around
  <1>8. TypeOK'
    <2>1. inbox' \in Seq(Notices)
      BY <1>2, <1>3, TailParts
    <2>2. \A g \in Files : PublishedOf(g)'
      BY <1>2, <1>5, <1>6, <1>7, SentType
    <2> QED
      BY <1>1, <1>3, <1>7, <2>1, <2>2 DEF TypeOK, Notices, PublishedOf
  <1>9. Tasks' /\ Alone'
    <2>1. \A g \in Files : pc'[g] = "done"
      BY <1>3 DEF Serving
    <2>2. \A g \in Components : Known(state', g) =>
             FileAt(state', g).classes \subseteq state'.registered
      BY <1>7 DEF Registered
    <2>3. Tasks'
      BY <2>1, <2>2 DEF Tasks
    <2>4. Alone'
      BY <2>1 DEF Alone
    <2> QED
      BY <2>3, <2>4
  <1>10. Delivered'
    BY <1>1, <1>3, <1>5, ServeDelivered
  <1>11. ~parallel => Shown'
    BY <1>1, <1>2, <1>5, <1>6, ServeShown
  <1> QED
    BY <1>1, <1>7, <1>8, <1>9, <1>10, <1>11 DEF IInv

LEMMA StutterStep ==
    ASSUME IInv, UNCHANGED vars
    PROVE  IInv'
  <1>1. /\ TypeOK /\ Sound(state) /\ Tasks /\ Delivered
        /\ ~parallel => Exact(state) /\ Alone /\ Shown
    BY DEF IInv
  <1>2. UNCHANGED <<disk, editor, inbox, sent, pc, state, published, parallel>>
    BY DEF vars
  <1>3. TypeOK'
    BY <1>1, <1>2 DEF TypeOK
  <1>4. Tasks'
    BY <1>1, <1>2 DEF Tasks, TemplateOf
  <1>5. Delivered'
    BY <1>1, <1>2 DEF Delivered
  <1>6. Sound(state') /\ (~parallel' => Exact(state') /\ Alone' /\ Shown')
    BY <1>1, <1>2 DEF Alone, Sought, Shown, IndexFails
  <1> QED
    BY <1>3, <1>4, <1>5, <1>6 DEF IInv

LEMMA NextIInv ==
    ASSUME IInv, [Next]_vars
    PROVE  IInv'
  <1>1. CASE UNCHANGED vars
    BY <1>1, StutterStep
  <1>2. ASSUME NEW f \in Files, IndexTask(f), UNCHANGED parallel PROVE IInv'
    BY <1>2, TaskStep
  <1>3. ASSUME NEW f \in Files, Edit(f), UNCHANGED parallel PROVE IInv'
    BY <1>3, EditStep
  <1>4. CASE Serve /\ UNCHANGED parallel
    BY <1>4, ServeStep
  <1> QED
    BY <1>1, <1>2, <1>3, <1>4 DEF Next

-----------------------------------------------------------------------------
(* The initial states.                                                     *)

LEMMA InitState ==
    ASSUME Init
    PROVE  /\ state \in States /\ Closed(state) /\ state.registered = {}
           /\ \A f \in Files : ~Known(state, f)
           /\ \A c \in Components : state.class[c].template = None
           /\ \A o \in Objects : state.object[o].classes = {}
  <1>1. NewFile(Empty, 0) \in File /\ ~NewFile(Empty, 0).open /\ NewFile(Empty, 0).classes = {}
    BY DocumentAssumption DEF NewFile, File
  <1>2. NewClass \in Class /\ NewClass.template = None
    BY DocumentAssumption DEF NewClass, Class
  <1> DEFINE files    == [f \in Files |-> None]
             object   == [o \in Objects |-> NewFile(Empty, 0)]
             class    == [c \in Components |-> NewClass]
             lastSeen == [f \in Files |-> 0]
  <1>3. state = [files |-> files, object |-> object, registered |-> {},
                 class |-> class, lastSeen |-> lastSeen]
    BY DEF Init
  <1>4. /\ files \in [Files -> Objects \cup {None}] /\ object \in [Objects -> File]
        /\ class \in [Components -> Class] /\ lastSeen \in [Files -> Nat]
        /\ \A f \in Files : files[f] = None
        /\ \A c \in Components : class[c].template = None
        /\ \A o \in Objects : ~object[o].open /\ object[o].classes = {}
    BY <1>1, <1>2
  <1> HIDE DEF files, object, class, lastSeen
  <1>5. /\ state.files = files /\ state.object = object /\ state.registered = {}
        /\ state.class = class
    BY <1>3
  <1>6. state \in States
    BY <1>3, <1>4 DEF States
  <1> QED
    BY <1>4, <1>5, <1>6 DEF Closed, Known

LEMMA InitIInv ==
    ASSUME Init
    PROVE  IInv
  <1>1. /\ state \in States /\ Closed(state) /\ state.registered = {}
        /\ \A f \in Files : ~Known(state, f)
        /\ \A c \in Components : state.class[c].template = None
        /\ \A o \in Objects : state.object[o].classes = {}
    BY InitState
  <1>2. /\ disk \in [Files -> Texts \cup {None}]
        /\ inbox = <<>> /\ sent = 0 /\ parallel \in Settings
        /\ \A f \in Files : ~editor[f].changed /\ published[f] = None
        /\ pc = [f \in Files |-> IF disk[f] = None THEN "done" ELSE "ready"]
    BY DEF Init
  <1>3. TypeOK
    <2>1. editor \in [Files -> Document]
      BY DocumentAssumption DEF Init, Document
    <2>2. inbox \in Seq(Notices) /\ sent \in 0 .. MaxMessages /\ parallel \in BOOLEAN
      BY <1>2, DocumentAssumption
    <2>3. pc \in [Files -> Stages] /\ \A f \in Files : PublishedOf(f)
      BY <1>2 DEF Stages, PublishedOf
    <2> QED
      BY <1>1, <1>2, <2>1, <2>2, <2>3, TypeParts
  <1>4. Sound(state)
    BY <1>1, FilesApart DEF Sound, Entered
  <1>5. Tasks
    BY <1>1, <1>2 DEF Tasks, Closed
  <1>6. Delivered
    BY <1>2 DEF Delivered
  <1>7. Exact(state) /\ Alone /\ Shown
    BY <1>1, <1>2, FilesApart DEF Exact, Alone, Shown, IndexFails
  <1> QED
    BY <1>3, <1>4, <1>5, <1>6, <1>7 DEF IInv

\* What the State, the goroutines of the start, the inbox and the messages sent
\* have to do with one another and with the editor is kept by every step of a
\* handler, a goroutine and the editor; all the properties follow from it.
THEOREM Invariance == Spec => []IInv
  <1>1. Init => IInv
    BY InitIInv
  <1>2. IInv /\ [Next]_vars => IInv'
    BY NextIInv
  <1> QED
    BY <1>1, <1>2, PTL DEF Spec

-----------------------------------------------------------------------------
(* The properties that the runs check.                                     *)

\* The State, the inbox and what was sent always have their types: every
\* lookup through a File's pointer finds a File.
THEOREM TypeCorrect == Spec => []TypeOK
  <1>1. IInv => TypeOK
    BY DEF IInv
  <1> QED
    BY <1>1, Invariance, PTL

\* Without the parallel index a class never points to a File that is not the
\* one in State.files.
OneFilePerName ==
    ~parallel => \A c \in Components :
        state.class[c].template # None =>
            state.files[NameOf(state.class[c].template)] = state.class[c].template

\* Without the parallel index a class points to the very File that State.files
\* has for its template.
THEOREM OneFile == Spec => []OneFilePerName
  <1>1. IInv => OneFilePerName
    BY DEF IInv, Exact, OneFilePerName
  <1> QED
    BY <1>1, Invariance, PTL

\* When no notification about a changed document is left, the server has the
\* editor's text and version of it.
THEOREM ChangesKept == Spec => []ServerHasChanges
  <1>1. IInv => ServerHasChanges
    BY DEF IInv, Delivered, ServerHasChanges
  <1> QED
    BY <1>1, Invariance, PTL

\* Without the parallel index the diagnostics of an open component are made
\* from the text it now has and the text its template now has, unless its index
\* fails.
THEOREM DiagnosticsHold == Spec => []DiagnosticsCurrent
  <1>1. ASSUME IInv PROVE DiagnosticsCurrent
    <2> SUFFICES ASSUME ~parallel, NEW c \in Components, Known(state, c),
                        FileAt(state, c).open, ~IndexFails(state, c)
                 PROVE  /\ published[c] = Diagnosed(state, c)
                        /\ LET o == state.class[c].template
                           IN  c \in FileAt(state, c).classes /\ o # None =>
                                  published[c].uses[c] = FileAt(state, NameOf(o)).content
      BY DEF DiagnosticsCurrent
    <2>1. Exact(state) /\ Shown
      BY <1>1 DEF IInv
    <2>2. published[c] = Diagnosed(state, c)
      BY <2>1 DEF Shown
    <2>3. ASSUME c \in FileAt(state, c).classes, state.class[c].template # None
          PROVE  Diagnosed(state, c).uses[c] = FileAt(state, NameOf(state.class[c].template)).content
      <3>1. Diagnosed(state, c).uses[c] = state.class[c].uses
        BY <2>3 DEF Diagnosed
      <3>2. Known(state, c) /\ FileAt(state, c).classes # {}
        BY <2>3
      <3>3. /\ state.files[NameOf(state.class[c].template)] = state.class[c].template
            /\ state.class[c].uses = state.object[state.class[c].template].content
        BY <2>1, <2>3, <3>2 DEF Exact
      <3> QED
        BY <3>1, <3>3 DEF FileAt
    <2> QED
      BY <2>2, <2>3
  <1> QED
    BY <1>1, Invariance, PTL

\* Only the server takes a notification from the inbox.
LEMMA HandledByServe ==
    ASSUME IInv, Next, NEW t \in Templates, Handles(t)
    PROVE  Serve
  <1>1. /\ TypeOK /\ Sound(state) /\ Tasks /\ (~parallel => Exact(state) /\ Alone)
        /\ disk \in [Files -> Texts \cup {None}] /\ state \in States /\ inbox \in Seq(Notices)
    BY TypeParts DEF IInv
  <1>2. Len(inbox) \in Nat /\ Len(inbox) > 0 /\ Len(inbox') = Len(inbox) - 1
    BY <1>1, TailParts DEF Handles
  <1>3. ASSUME NEW f \in Files, IndexTask(f) PROVE FALSE
    <2>1. inbox' = inbox
      BY <1>1, <1>3, TaskEffect DEF TaskSays
    <2> QED
      BY <1>2, <2>1
  <1>4. ASSUME NEW f \in Files, Edit(f) PROVE FALSE
    <2>1. EditSays(f)
      BY <1>1, <1>4, EditEffect
    <2>2. CASE inbox' = inbox
      BY <1>2, <2>2
    <2>3. ASSUME NEW m \in Notices, inbox' = Append(inbox, m) PROVE FALSE
      <3>1. Len(inbox') = Len(inbox) + 1
        BY <1>1, <2>3, AppendParts
      <3> QED
        BY <1>2, <3>1
    <2> QED
      BY <2>1, <2>2, <2>3 DEF EditSays
  <1> QED
    BY <1>3, <1>4 DEF Next

\* After a notification about a template, the template has every class that
\* names it and was found in its file when the template was on disk.
THEOREM TemplateFinds == Spec => TemplateFindsComponents
  <1>1. ASSUME IInv, Next, NEW t \in Templates, Handles(t), Known(state', t),
               NEW c \in Components, Known(state', c), c \in FileAt(state', c).classes,
               state'.class[c].template # None, Names[FileAt(state', c).content] = t
        PROVE  c \in FileAt(state', t).classes
    <2>1. Serve
      BY <1>1, HandledByServe
    <2>2. /\ Sound(state) /\ Tasks /\ disk \in [Files -> Texts \cup {None}] /\ state \in States
          /\ inbox \in Seq(Notices)
      BY <1>1, TypeParts DEF IInv
    <2>3. Registered(state)
      BY <2>1, <2>2, ServingRegistered DEF Serve
    <2>4. Around(state, t, state') /\ Sent(t)
      BY <1>1, <2>1, <2>2, <2>3, ServeEffect DEF Handles
    <2>5. Sound(state') /\ Registered(state')
      BY <2>4 DEF Around
    <2>6. c \in state'.registered
      BY <1>1, <2>5 DEF Registered
    <2>7. state'.class[c].template # None /\ NameOf(state'.class[c].template) = t
      <3>1. t # None
        BY DocumentAssumption DEF Files
      <3>2. Linked(state', c)
        BY <1>1, <2>5 DEF Sound
      <3>3. FileAt(state', c).content \notin Garbled
        BY <1>1, <3>1, DocumentAssumption
      <3> QED
        BY <1>1, <3>2, <3>3 DEF Linked
    <2>8. c \in Showing(state', state'.registered, t)
      BY <2>6, <2>7 DEF Showing
    <2>9. t \notin Components
      BY DocumentAssumption
    <2> QED
      BY <1>1, <2>4, <2>8, <2>9 DEF Sent, IndexFails
  <1>2. IInv /\ [Next]_vars =>
           [\A t \in Templates : Handles(t) /\ Known(state', t) =>
              {c \in Components : /\ Known(state', c) /\ c \in FileAt(state', c).classes
                                  /\ state'.class[c].template # None
                                  /\ Names[FileAt(state', c).content] = t}
                  \subseteq FileAt(state', t).classes]_vars
    BY <1>1
  <1> QED
    BY <1>2, Invariance, PTL DEF Spec, TemplateFindsComponents
=============================================================================
