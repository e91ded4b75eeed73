# ts_inspector: specifications

TLA+ modules, TLC configurations and TLAPS proofs about ts_inspector, a language
server for Angular projects written in Go (`src/main.go`, `src/lsp`, `src/parser`,
`src/analysis`, `src/ast`, `src/search`, ...), with tree-sitter parsers in C
(`src/treesitter_parsers`). The definitions are translated from the code; `PROJECT.json` gives, for each of them, the lines it stands for.

    tlc -workers 2 -config MCLspServer.cfg MCLspServer     # one of the runs
    tlapm TsGoClient_proofs.tla                            # one of the proofs

## 1. The system

ts_inspector reads LSP messages from its standard input. It keeps a `State` of the
project's files: their syntax trees (tree-sitter), the Angular classes found in them,
the templates those classes name, and who uses which class member. From it come
diagnostics (unused members, needlessly public members, unreachable code, type errors in
templates) and the answers to hover, definition, completion and the like. Types come
from a child process, `tsgo --api`, which is asked over pipes.

Goroutines:

| goroutine | lives | touches |
|---|---|---|
| scanner loop (`server.go`) | always | everything, one handler at a time, once `lspReady` |
| init (`lspHandleInitialise.go`) | from `initialize` until the index is done | `State`, `lspReady`, progress channel, tsgo |
| main (`main.go`) | always; waits for `Shutdown` | nothing else |
| tsgo reader (`tsgoClient.go`) | from `initTsGo` until EOF | the table of waiters, callbacks |
| tsgo callbacks | one per callback, by a setting | the pipe to the child, files |
| index tasks (`lspHandleInitialise.go`) | during the index; all at once only with `experimentalParallelInitialIndexing` | `State.files` |
| postprocess tasks (`state_file.go`, `State.Postprocess`) | during the index; all at once only with `concurrency` | definitions of shared base classes |
| embeddings (`search.go`) | from the index until the batch is done | the search index |

### Components

| component | state | operations | hard because | correct when | model |
|---|---|---|---|---|---|
| LSP server loop | `lspReady`, pending messages, id handlers, progress channels, `Shutdown` | scan, dispatch, put aside, flush, initialize, initialized, token answer, shutdown | three goroutines share unguarded globals; slices of the scanner's buffer are kept | messages are served once, after the index, and in order but where the buffer was overwritten; a shutdown ends the process | `LspServer` over `OrderedService` |
| tsgo client | `opLock`, id counter, `snapshotHandle`, table of waiters, pipes | updateSnapshot, queries, callbacks, reader | several callers; write before register; death of the child; handles are good in one snapshot | each answer reaches its caller, handles and snapshots match, nobody is locked out | `TsGoClient` |
| Documents | `State.files`, `State.classes`, `lastSeenDocumentVersion`, `Class.template` | index at start, didOpen, didChange, dependents, diagnostics | two files make one class; look-up and entry are two steps; notifications of either file | text and version are the editor's; diagnostics are those of the present texts | `DocumentStore` |
| Class usages | `Definitions`, `Usages`, `Extends` | index, resolve, remove and propagate uses, drop template uses | read-modify-write by several goroutines, then edits in any order | a base class knows the present uses of the classes below it, and no others | `ClassUsages` |
| Angular modules and available things | `Component.DeclaredIn`, the caches `things` and `exportedThings`, resolved references | tell the declared components, ask, reset | filled by one file and forgotten by another; staleness; arrays of other files; circular exports | a template may use what Angular makes available to it | `AngularThings` |
| Provider routes | classes visited, paths and routes | walk up users, declaring and importing modules | slices that share an array; one visit per class; nil providers | each route follows the project's links and no module is left out | `ProviderRoutes` over `AngularThings` |
| Control flow graphs | blocks and edges per function, stacks of loops and functions | build each statement, list unreachable blocks, complexity | what follows a jump, labels, statements without a builder, conditions that panic | only unreachable code is reported, and wherever it begins, but for what the builder does not follow | `Cfg` |
| Edits of syntax trees | list of edits, inserted imports | insert, replace, apply | offsets move under edits | edits do not overlap and apply to the text they were made for | planned |
| Positions | none | offset to position and back, Pug to TypeScript offsets | last line, CRLF, UTF-16 | the two conversions are inverse | planned |
| Structural directive parser | tokens, position | recursive descent | look-ahead, optional parts | accepts the microsyntax and consumes all of it | planned |
| Type check blocks | text and map of offsets | translate a template | a diagnostic must be carried back | every reported offset lies in the template | planned |
| Analysers | none | read the state | what they read may be stale | see Class usages and Documents | in those modules |
| Search | three indexes | add batches, query | a goroutine that goes on; batch limits | each row is in once | planned, last |
| Feature handlers, actions, commands | none | look-ups, text edits from one tree | when they run | they run after the index, and answer once | only the former, in `LspServer` |
| Configuration | settings | read once at start | | | constants of the models |
| Pug scanner | indentation levels, open brackets and quotes, question marks, a pending operator; their bytes | scan the end of a line, scan a value, serialize, deserialize | state goes through bytes before every scan; scans that fail; a parser that goes back; characters cut to their low byte | indentation nests; open brackets are those of JavaScript | `PugScanner` |
| Project walk, review findings, protocol types, generated parsers | | pure I/O, declarations, generated C | | | not modelled |

### How they interact

    editor --stdin--> [LspServer] --handlers, one at a time--> [DocumentStore] --> [ClassUsages]
                          |                                          |
                          +-- init goroutine -- index, postprocess --+
                                     |                               |
                                     +------> [TsGoClient] <---------+  --stdin/stdout--> tsgo

- `LspServer` establishes what the other models assume. Until `lspReady` only the init
  goroutine is in the state, so `DocumentStore` and `ClassUsages` begin with the index
  and handle notifications only after it; then one handler runs at a time, so a
  handler is one action there; and requests come in the order sent, until a
  message put aside is read for another
  (`FeaturesAfterIndex`, `ServedInOrder`, `OvertakenOnlyInLostPlaces`).
- `lspReady` also makes the tsgo client have one caller at a time in the server as it
  is. `TsGoClient` is checked with one caller (`tsgo_single`) and with two
  (`tsgo_pair`), because the client has a mutex and claims to be safe.
- `AngularThings` stands beside these two: the same handlers re-index a class and
  postprocess its dependents, there seen by what NgModules declare. `ProviderRoutes` extends
  it with a command that reads all of it while nothing else runs (`WalkReadsOnly`).
- Every template `DocumentStore` indexes is parsed by tree-sitter, which calls `PugScanner`.
- The classes that `DocumentStore` links to templates are those whose uses
  `ClassUsages` moves through the hierarchy. The first abstracts the definitions to the
  text they were read from, the second abstracts files to what they say about classes.

The hazards, each with the line where it bites and the properties that would catch it
(or why none does), are in `PROJECT.json`.

## 2. The modules

| module | lines | models |
|---|---|---|
| `OrderedService` | abstract | messages numbered as sent, served in that order, each at most once |
| `LspServer` | `lsp/server.go`, `lspProgress.go`, `lspHandleInitialise.go`, `main.go` | the loop, the init goroutine, main, the editor; implements `OrderedService` |
| `TsGoClient` | `parser/tsgoClient.go` | callers, reader, callbacks, the child and the two pipes |
| `ClassUsages` | `parser/state_class.go`, `state_definition.go`, part of `state_file.go`, analysers | definitions and uses over a class hierarchy |
| `DocumentStore` | `parser/state_file.go`, `walk_typescript.go`, `walk_pug.go`, the handlers of didOpen and didChange | files, versions, links, diagnostics |
| `Cfg` | `ast/manipulation/cfg.go` and the `_buildCfgBlock` of the statements, `analysis/cfg.go` | the graphs, beside what the language says of reachability |
| `AngularThings` | `parser/state_angular.go`, parts of `state_file.go`, `state_variable.go` | modules, components, what a template may use, the caches |
| `ProviderRoutes` | `parser/state_class.go`, `commands/printProviders.go` | the walk of "Calculate all providers", over `AngularThings` |
| `PugScanner` | `treesitter_parsers/pug/scanner.c` | the external scanner of the Pug grammar |
| `MC...` | | values for the constants |
| `LspServer_proofs`, `TsGoClient_proofs`, `ClassUsages_proofs`, `DocumentStore_proofs`, `AngularThings_proofs`, `PugScanner_proofs`, `Cfg_proofs`, `CfgComplexity_proofs` | | theorems |

### LspServer

Three sets of actions share `lspReady`, `pending`, `tokenChannel` and `shutdown`. The
*loop*: `Scan` takes the next message, and either puts it aside or makes a batch of the
messages put aside followed by it (`Flush`); the `Handle...` actions run the handlers
of the batch one by one. The *init goroutine* walks through `InitCreate` (ask for a
token), `InitToken` (a `select` on the token's channel and on `Shutdown`), `InitRespond`,
`InitIndex` and `InitFinish` (`lspReady = true`). *main* is `MainShutdown`. The editor
sends the handshake and then requests and changes; with `EarlyMessages` it also sends a
shutdown or a notification without id before `initialized`.

Kept because they matter: `initialized` sets `lspReady` to FALSE (so one that comes
after the index leaves the server deaf: `late`); an id handler is found by id and a
notification has id 0, which is the first token request's (`Hijacked`); `Shutdown` has
one place and two readers (`stolen`); a panic is recovered from and answers
nothing (`RequestPanics`); executeCommand is a request that never gets an answer, and hover may write
two, of which `responses` keeps that there was one.

The pending messages are slices of the scanner's buffer. With `BufferIsReused` the buffer is filled anew
while they wait: a slice keeps its place and length, and decodes to whatever is there when it is
served. So a slice is a record of the message `n` it was made for and the message `is` that it decodes to now:
itself, nothing ("garbage"), or any message not read when the buffer is filled anew, since a later message may begin
where the pending one began (`Becomes`). The message it was made for is `lost` then; the one it decodes to is
handled too early, and once more in its own place.

### TsGoClient

A caller's code is a sequence of instructions: `lock`, `unlock`, `update`
(updateSnapshot), `ask` (a query naming `snapshotHandle`), `use` (a query with a handle
an earlier answer gave), `useEarly` (the same in GetNodePosition, which unlocks by hand before
it waits). `Start`, `Sync`, `Diagnostics`, `Hover` and `Definition` are the operations of the
client in these terms. A request instruction is split at the points where another goroutine
can come in: `Build` (id drawn, handles read), `Write`, `Register`, `Receive`, `Parse`. So an
answer may arrive between `Write` and `Register`: the reader then finds no channel
(`DeliverTooEarly`), which in the code is a send on a nil channel and blocks it for ever.
The reader is `Deliver`, `DeliverTooEarly`, `DeliverTooLong` (a message larger than the scanner's
buffer ends the goroutine), `TakeCallback` and `ReaderEof`. The child is external; it takes
requests, may issue callbacks first, answers, or exits at any time.

### ClassUsages

`definitions[class][name]` is a `Definition` (access, uses), `usages[class]` what the class
itself uses. The goroutines of `State.Postprocess` have one action per step between which
another goroutine can get in: `Resolve`, `RemoveAbove`/`Cloned`/`GetToRemove`/`Removed` (clone
the map of a base, read a definition, filter it, write it back) and `PropagateAbove`,
`GetToAppend`, `Propagated`, with `Set` as the write. Two goroutines in one map, one of
them cloning without the lock, is a crash of the Go runtime (`crashed`). The handlers
after it, `EditCode` and `EditTemplate`, are whole: they index the file, drop or reset the
uses, and postprocess the class and its dependents with the operator `Postprocessed`. An index that fails
is left out. A text of which there is no AST is harmless, as nothing has been touched when that is found. But where
the templateUrl names an existing file of a type the program does not know, the class has been reset and no
postprocessing follows (`walk_typescript.go:491`): its bases keep its former uses, and it has lost what the classes below
told it. `NoPhantomUse` and `EditRestoresBelow` do not hold of such an edit, nor of a template that is deleted between
the look and the reading. `DocumentStore` has those edits, without members.

### DocumentStore

`state` is a record so that a handler is a composition of operators (`SetContent`, `Load`,
`Index`, `Postprocess`, `Publish`), in the order of the code. A `File` is an object behind a
pointer; the model names it by its file and by the task that made it, so that two
objects of one template exist when the parallel index makes them. `BeginComponent`,
`LookUpTemplate`, `LoadTemplate`, `BeginTemplate`, `LoadOwnTemplate` are the tasks of the index,
`PostprocessFile` is `State.Postprocess` in an arbitrary order (it ranges over a Go map), and
`Serve` is the handler of the message at the head of the inbox. The editor opens, changes,
saves and closes; the server handles neither of the last two.

An index may fail (`IndexFails`). Of a `Garbled` text there is no AST, and the classes, the File's version and diagnostics of
before stay; a `Foreign` text names a template of a type the program does not know, which is found after the class was
reset. In either case the handler goes no further. A template that is not on disk is no failure: `handleTemplateUrlKv` looks
first, and leaves the component without one (`TemplateOf`). A template deleted between that look and its reading is left out.

### Cfg

The graph builder is a recursive walk over a syntax tree. Here the tree is its text, a
sequence of tokens (a statement begins, a statement ends) chosen one by one as the walk
goes, so that a recursive call becomes a frame of `open` and the part of `_buildCfgBlock`
before the call is one action (`OpenIf`, `OpenWhile`, ...) and the part after it another (`EndThen`,
`EndLoop`, ...). What each part does to the graph is an operator (`IfBlocks`, `LoopEnds`, ...).
Next to the graph the actions keep the reference, which does not look at it: `live`
says whether the place can be reached by the rules of the language, `heads` at which
blocks unreachable code begins, `choices` where the program decides. A block
remembers in `shown` whether the code a report of it would show can be reached.

The builder follows less than the language has, and `odd` notes, per function, where that matters:

- *else clauses*: `_buildCfgBlock` of an `elseClause` is the empty default;
- *statements without a builder*: `OpenSwitch` stands for switch, try and labelled statements, `OpenFor` for `for (;;)` and do,
  `Throw` for throw; what they decide or end is not seen (`"uncounted"`). A `for (;;)` is taken for a loop that may end, or not run;
- *labels*: a `break` or `continue` with a label leaves the innermost loop with a builder, whatever the label says. Such a jump, and
  one that leaves a switch or a loop without a builder, is `"astray"`, and so is the end of such a part that is not reached;
- *functions declared after a jump* (`"hoisted"`);
- *functions that stand directly in the program*, whose body is built a second time into the graph of the program
  (`EndDirectFunction`, `EndAgain`, `"again jump"`).

Statements that add no instruction (`Plain`: `x = 3`, `i++`) leave the graph alone, so that unreachable code is reported from its first
statement with an instruction on. Two things end the analysis of the whole file, with no report at all: a condition that
`getNode` does not know (nested parentheses, a conditional, `await`), which is nil and panics (`ConditionPanics`), and a jump for which
the builder's stack is empty, which is an error.

The properties name these exceptions one by one and say that everything else is right. Not modelled are functions
within expressions and declarations, classes and exports, and the decisions within an expression (`&&`, `?:`), which
neither the builder nor the reference counts.

### AngularThings

`source` is what the files say, as indexed last; the rest is what the program has made of it.
`Told` is `Module.Postprocess`: the module enters itself in `DeclaredIn` of each component
it lists, directly or by an array spread into the list. Each handler is an action that
re-indexes one class (`EditModule`, `EditComponent`, `EditTemplate`) and postprocesses what
`GetDependencies` gives, which resets the caches of those classes (`ResetThings`) and no others. An
edit of a component empties its `DeclaredIn`; nothing else takes a module out.
An array spread into a list may stand in another file (`borrows`). `elements` is what it says, and `held` what the module's resolved
reference still has of it: `EditArray` makes a new Variable, the reference keeps the old one, and nothing leads from that file to the
module, so that the module is `Behind` until its own file is edited; the properties say what holds then.  `Ask` is
`GetAvailableThings`: answered from the cache, worked out anew, or a panic, because a
module that is still in `DeclaredIn` has no list any more. `ExportedWithin` and `Walked` are the recursion of
`GetExportedThings`, cut where it is deeper than there are modules: it then never
ends, and the process with it (`ended`). Working out an answer resolves references as it
goes (`resolved`), which the provider walk sees.

### ProviderRoutes

A frame of `stack` is a call of `findProviderRoutes`; `todo` holds the turns its loop has still to take, in any order
since they come from a map. `Visit` is a turn, `TurnToDeclarers` goes from the first loop of a component to
the second, `Return` ends a call. A path is a Go slice, `[array, len]` over `arrays`, and `Appended` is
`append`, so that two routes found from one class share the array of their common path as they do in Go.

What is printed of the providers on a route is left out: those with the token of an earlier one are dropped, and an element of
a module's `providers` that cannot be read (a spread, a call) is kept as nil and makes the command panic
(`walk_angular_decorator.go:593`, `state_class.go:413`). Neither changes a route.

### PugScanner

`StackBytes`, `Serialized`, `TakeStack` and `Restored` are the bytes, with the comparison of size and index as
the code has it and, when that leads past the end, any of `Beyond`. `saved` holds the bytes of the
tokens so far and, beside each, the state it was made from. Every scan begins with one of `Handed`, a state read back from the last token's bytes:
`ScanLine` and `ScanNoLine` are a scan for the end of a line in one step; the scan of a value begins
with `StartValue` and each turn of the loop in `handle_attr` is an action (`Escape`, `Quote`, `OpenBracket`,
`Whitespace`, ...), the character being chosen as it is read. Characters are their codes, and the scanner mostly looks at
`(char) lexer->lookahead`, which is their low byte (`Char`): U+0122 is a double quote to it, U+0160 a backtick and U+305C (ぜ) a backslash.
A value with a character beyond ASCII that the scanner takes for a quote, a bracket or a backslash is `Disguised`, and the two properties about
values except it; any other character beyond ASCII is covered. `GoBack` is tree-sitter going on from an
earlier token. (The server never parses incrementally: it makes a parser and with it a
scanner for each text.) `Asked` is the table of what the grammar asks for.

## 3. The runs

| run | configuration | distinct states | checks |
|---|---|---|---|
| `lsp_server` | `MCLspServer.cfg` | 97 449 | `TypeOK` `FeaturesAfterIndex` `OvertakenOnlyInLostPlaces` `ServedInOrder` `MessagesServed` `InitializeAnswered` `ShutdownExits` |
| `lsp_panic` | `MCLspPanic.cfg` | violation | `PanicsAnswered` |
| `tsgo_pair` | `MCTsGoPair.cfg` | 585 763 | `TypeOK` `RequestConserved` `StuckReaderStrandsOne` `AsksOwnSnapshot` `LockDiscipline` `SnapshotNeverGoesBack` `OperationsReturn` |
| `tsgo_single` | `MCTsGoSingle.cfg` | 81 158 | `BytesIntact` `LockNotLeaked` `HandleOfItsSnapshot` |
| `usages` | `MCUsages.cfg` | 3 603 305 | `TypeOK` `AccessCoversUses` `NoPhantomUse` `BaseKnowsAfterStart` `EditReachesAbove` `EditRestoresBelow` |
| `usages_public` | `MCUsagesPublic.cfg` | violation | `NeedlesslyPublic` |
| `documents` | `MCDocuments.cfg` | 1 880 986 | `TypeOK` `ServerHasChanges` `DiagnosticsCurrent` `TemplateFindsComponents` |
| `documents_open` | `MCDocOpen.cfg` | violation | `OpenKeepsContent` |
| `cfg_programs` | `MCCfg.cfg` | 1 241 234 | `OnlyUnreachableReported` `UnreachableReported` `ComplexityCountsDecisions` |
| `cfg_report` | `MCCfgReport.cfg` | violation | `HighlightsUnreachable` |
| `angular` | `MCAngular.cfg` | 1 329 684 | `DeclaringModulesKnown` `AnswersRight` `EditedSeesOwn` `EndsOnlyOnCycle` `RoutesFollowLinks` `ModulesReported` |
| `pug_scanner` | `MCPugScanner.cfg` | 903 293 | `IndentsGrow` `RestoredAsSaved` `ParensAreOpen` `StringsLeft` |

All runs have `CHECK_DEADLOCK FALSE`: the editor may fall silent, the process may end, the
bounded counters run out, and each of them legitimately stops the system. That nobody
waits for ever where he should not is what the liveness properties say.

**lsp_server.** Six messages: the three of the handshake (initialize, the answer to the
token request, initialized), and room for an early one, and for a change followed
by a request, or a shutdown after either. That is enough for: a message put aside and flushed with a later
one, two put aside and overwritten, `initialized` before and after the end of the
index, a second shutdown on a full channel, a token answer taken by the wrong
message. The buffer may be filled anew (`BufferIsReused`) and need not be. `OvertakenOnlyInLostPlaces` says what order there is in any case:
a message comes early or twice only in the place of one that is lost. `ServedInOrder`, the refinement `LspServer => OrderedService`,
is about what is served until a slice is read for another message (`UpToMisread`), which is everything where none is. `MessagesServed` lists
the five ways in which a message is not handled, and each of them occurs.

**tsgo_pair.** Two callers share the client and the child stays alive. `MaxId = 8` allows
each of them the operation with the most requests, or one of them a retry while the other has
its whole operation. Answers to callbacks are inline (on the reader goroutine), which is the default and the one
that could deadlock. The run finds that the race between `Write` and `Register` is
real, but strands only the caller that lost it.

**tsgo_single.** One caller, the child may die between any two steps, and callbacks
are answered in either way. `MaxId = 9` allows two to three operations after the start.

**usages / usages_public.** Both settings of `concurrency` from one set of initial states, so that
the same property is checked of goroutines one at a time and all at once. One at a time:
hierarchies of three classes with one member name (members do not interact, each name
has its own definition), every class changing its base, its code and its template
within what `Sources` gives it; two edits in a row, in any order. All at once: four
classes, of which two extend one base and one extends further, and one edit after
the race. A race of two goroutines on one definition needs two classes on one base; the
loss of a use needs an access raised by a third, which four classes allow. `AccessCoversUses` and
`BaseKnowsAfterStart` say in their own text that they are about `concurrency` off; the
others hold of both.

**documents / documents_open.** One component that moves between two templates, either
of them missing from disk, or two components on one template, in the two settings of
the index; three notifications with saves and closes in between. Three are enough
for open, change, close, open and change of either file of a pair. A file has one
class, always of the same name, as the classes do not interact here. A scene of its own has two components on one
template, texts whose index fails in either of the two ways, and five notifications: a component that is left behind by
its own failed index must not leave the other one behind.

**cfg_programs / cfg_report.** Every file of up to seven tokens over all statements, breaks out of any of the loops and
switches around them, and the kinds of conditions (constant true, constant false, any other, one that panics); the bound
counts the ends that the open statements still need, so every state can be
completed to a file. Seven tokens hold a jump in an if in a loop with a statement
after each, or a function in a loop with a jump in it and a statement after it, and
an if whose two branches jump. `cfg_report` needs five: a function with a return, and a call after it.

**angular.** Three modules of which one passes another on and a third exports it back, components in each
other's templates, lists with and without a spread and a module that loses its list, every
combination of what the files say at the start (a list may spread an array of another file, which is edited too), and two edits with
questions between them, with and without the cache. Two edits are what staleness needs: one that leaves a thing in a cache or
in `DeclaredIn`, one that should have removed it. The walk for providers starts wherever
nothing else is under way, and ten components are nested so that routes fork at the lengths
at which `append` has room to spare (three, five to seven). `RoutesFollowLinks` leaves out routes of eight
classes or more and `ModulesReported` routes of seven: from there on two routes do
write over each other.

**pug_scanner.** Values of up to five characters, one of each kind that the scanner tells apart, one beyond ASCII that stays a letter (é) and
one that becomes a backslash (ぜ), and up to four tokens; two values of two characters before or after lines. Five characters hold a string with an
escape in it, a bracket in brackets, and a ternary; a state left over from a value, with two brackets
open, is what a following scan may misread.

## 4. Fairness

- `TsGoClient`: weak fairness of each caller, of the reader, of the callback
  goroutines and of the child's taking and answering. The Go scheduler is preemptive and runs every
  goroutine that can run. A Go mutex in starvation mode is first come, first served, and the ids are bounded, so weak
  fairness per caller does not hide a caller that is locked out. The child is assumed to
  answer; `ServerExit` and callbacks are not fair.
- `LspServer`: weak fairness of the loop, the init goroutine and main. Nothing is assumed of the
  editor: it may stop at any point, which is why `MessagesServed` has `NeedsAnother`. A hung
  tsgo is a state of its own (`init = "hung"`), not excluded by fairness.
- `ClassUsages`, `DocumentStore`, `Cfg`, `AngularThings`, `ProviderRoutes` and `PugScanner` have safety
  and action properties only: their handlers are single steps or bounded walks.

## 5. What is proved

Every theorem is for all values of the constants that satisfy the modules' assumptions
(`ServerAssumption`, `ClientAssumption`, `UsagesAssumption`, `DocumentAssumption`, `AngularAssumption`,
`RoutesAssumption`, `PugAssumption`, `CfgAssumption`): any number of messages, callers, files and texts, any bounds, any class
hierarchy without cycles, any project with finitely many classes, any characters of Unicode, indentations up to 255 and values of up to 128 characters, any nesting
of statements. The exceptions a property names are part of what is proved: the theorems do not go beyond them.

| theorem | property |
|---|---|
| `LspServer_proofs!TypeCorrect` | `TypeOK` |
| `LspServer_proofs!GateHolds` | `FeaturesAfterIndex` |
| `LspServer_proofs!OvertakenOnlyWhereLost` | `OvertakenOnlyInLostPlaces` |
| `LspServer_proofs!OrderKept` | `ServedInOrder`, the refinement of `OrderedService` |
| `TsGoClient_proofs!TypeCorrect` | `TypeOK` |
| `TsGoClient_proofs!MutexHeld` | `LockDiscipline` |
| `TsGoClient_proofs!NotLeaked` | `LockNotLeaked` |
| `TsGoClient_proofs!AsksOwn` | `AsksOwnSnapshot` |
| `TsGoClient_proofs!NeverGoesBack` | `SnapshotNeverGoesBack` |
| `TsGoClient_proofs!Conserved` | `RequestConserved` |
| `TsGoClient_proofs!StrandsOne` | `StuckReaderStrandsOne` |
| `TsGoClient_proofs!BytesKept` | `BytesIntact` (one caller) |
| `TsGoClient_proofs!HandleKept` | `HandleOfItsSnapshot` (one caller) |
| `ClassUsages_proofs!TypeCorrect` | `TypeOK` |
| `ClassUsages_proofs!NoMeeting` | `OneAtATime` (in no run) |
| `ClassUsages_proofs!AccessCovers` | `AccessCoversUses` |
| `ClassUsages_proofs!EditsReach` | `EditReachesAbove` |
| `ClassUsages_proofs!EditsRestore` | `EditRestoresBelow` |
| `ClassUsages_proofs!NoPhantom` | `NoPhantomUse` |
| `ClassUsages_proofs!BaseKnows` | `BaseKnowsAfterStart` |
| `DocumentStore_proofs!Invariance` | the inductive invariant |
| `DocumentStore_proofs!TypeCorrect` | `TypeOK` |
| `DocumentStore_proofs!OneFile` | `OneFilePerName` (in no run) |
| `DocumentStore_proofs!ChangesKept` | `ServerHasChanges` |
| `DocumentStore_proofs!DiagnosticsHold` | `DiagnosticsCurrent` |
| `DocumentStore_proofs!TemplateFinds` | `TemplateFindsComponents` |
| `AngularThings_proofs!DeclaringKnown` | `DeclaringModulesKnown` |
| `AngularThings_proofs!FirstAnswerSeesOwn` | `EditedSeesOwn` |
| `AngularThings_proofs!OnlyCirclesEnd` | `EndsOnlyOnCycle` |
| `AngularThings_proofs!UncachedAnswersRight` | `AnswersRight` |
| `AngularThings_proofs!WalkReadsOnly` | `SpecAll => Spec` |
| `AngularThings_proofs!RoutesFollow` | `RoutesFollowLinks` |
| `AngularThings_proofs!ReachableReported` | `ModulesReported` |
| `PugScanner_proofs!LevelsGrow` | `IndentsGrow` |
| `PugScanner_proofs!ComesBack` | `RestoredAsSaved` |
| `PugScanner_proofs!BracketsAreOpen` | `ParensAreOpen` |
| `PugScanner_proofs!StringsAreLeft` | `StringsLeft` |
| `Cfg_proofs!InvariantHolds` | the inductive invariant |
| `Cfg_proofs!OnlyUnreachableReportedHolds` | `OnlyUnreachableReported` |
| `Cfg_proofs!UnreachableReportedHolds` | `UnreachableReported` |
| `CfgComplexity_proofs!FlowHolds` | the inductive invariant of the counts |
| `CfgComplexity_proofs!ComplexityHolds` | `ComplexityCountsDecisions` |

**Recursion without induction theorems.** The library's induction theorems take an operator, which none of the
provers can instantiate. Two things replace them. That a recursive function exists is shown by writing one
down that is not recursive (`Upwards` for `Above`, iterates of one step for `ExportedWithin`, the shortest prefix
without a value for `OpenAfter`, what paths of `n` edges lead to for `Downward`). What holds of all its values is shown of a counterexample of the
lowest rank, which well-foundedness of `Nat` gives (`WFMin`).

**LspServer.** A message is at every moment in at most one of `inbox`, `pending`, `batch` and `served`. `Ordered` says that the
numbers increase within each of these and from each to the one before it, so that serving the head
of `batch` extends `served` in order. These are the numbers `n` of the slices; `Decoded` says what their bytes are by now: a slice decodes
to its own message, or is in `lost` and decodes to a later one or to none. Two slices served out of order are therefore one in its own place and one
lost before it (`OvertakenOnlyWhereLost`). Until one is misread `is` equals `n` in `served`, and from then on `UpToMisread` stays as it
is, so that every action is a step of `OrderedService` or a stutter (`OrderKept`). `GateHolds` needs the
handshake besides: the editor sends a feature only after `initialized`, so that until the gate
is shut `initialized` is ahead of every feature (`Gate`, `ClosesFirst`).

**TsGoClient.** `LockDiscipline` alone is not inductive: to know that a step of a
caller leads from a locked place to a locked place one must know where in which
program the caller is. `InProgram` says that what a caller has left to do is a suffix of
one of the five programs, and that a caller inside a request is at a request
instruction. The set of suffixes is finite and written out, so each action is a split over it.
With it `LockDiscipline` is inductive. `AsksOwnSnapshot` then needs `OwnSnapshots`: between an
update and the query that follows it under one lock, the holder's `own` is `snapshot`; only
the holder's own update could change that, and two holders would violate `LockDiscipline`.

Its second part is about the messages in the pipes. `snapshotHandle` is assigned from an answer that has travelled through
two pipes, so that its not going back needs that there is only one update under way,
the holder's, and that its answer is not older than `snapshot`. The invariant `Traffic` follows
each id through `stdin`, `serving`, `stdout` and `channel`: ids are fresh (`FreshIds`), the request
or answer with a caller's id is of the kind the caller waits for (`SameKind`), no snapshot is newer than the child's last
(`Bounded`), and what is on its way to the holder of an update is not older than
`snapshot` (`NotOlder`). `Conserved` counts besides: what a caller waits for has one copy, in one place of
one pipe or in the hands of the child or in the channel, or else the reader has dropped it, which it does at most once as it
is stuck then. With one caller there is one message at a time, so that no second message overwrites the bytes of the first. What the
caller will send back (`Held`) is of the newest snapshot, and what it asks (`Asks`) is about that snapshot.

**ClassUsages.** `NoMeeting` needs only that without concurrency at most one goroutine is
under way (`Alone`). `AccessCoversUses` is not inductive: a goroutine holds a
definition it has worked out (`got`), and writes it back. `Holds` gives the type of what a goroutine holds at each
of its steps, and `Sound` says that what it holds covers its uses and is at
least what the map has, which the absence of other goroutines keeps true. The two theorems about edits look at one
handler: what `Postprocessed` does to the classes above is the same at each of them, so that the nearest one where it
would fail cannot exist. `NoPhantom` holds with goroutines that race, as a write may lose a use but
makes up none; its invariant (`PhantomInv`) says so of what they hold too. `BaseKnows` follows what each goroutine has
told the class it extends so far (`Progress`).

**DocumentStore.** The work is an invariant of the `State` that holds between any two of the operators a handler is made of
(`Sound`: who is entered is known, a component's class points to a `File` of the template its text
names; `Exact`, without the parallel index: it is the very `File` in `State.files`, and its uses are of that text). Each
operator has lemmas that it keeps them, and a handler is their composition. During the index `Tasks` says what a task
knows of the file it works on. `Delivered` relates the State to the notifications not yet served: the last one of a changed document
has the editor's text, and when there is none the State has it. `Shown` says that what was published of an open component is what the State
gives now, so that whatever changes the text of a template or a component must also publish what depends on it; a component whose index
fails is excepted there, and nothing of another one rests on it.

**AngularThings.** `DeclaringModulesKnown` speaks of the arrays as they are; what a module has told is what its references hold. The inductive
form is `ListedKnown`, which says it of `held`; where a module is not `Behind` the two are the same (`DeclaredListed`). With the types of
`source`, `held` and `declaredIn` (`Shape`) it is inductive. The argument is
`RetoldKeeps`: a step that takes nothing from `DeclaredIn` and postprocesses every module whose text is
new keeps it. `EditComponent` does take something away, all of it for one component, and is saved by
`Dependencies` being exactly the modules that list it. `FirstAnswerSeesOwn` needs it: a first answer is
worked out from `DeclaredIn`, so a module missing there would be missed. `OnlyCirclesEnd` is a count: along a walk
that meets no module twice, the modules that chains of exports can still lead to are fewer at each step, so that
a recursion deeper than there are modules has gone round a circle. Where it ends, the bounded recursion is
what chains of any length lead to, which is `UncachedAnswersRight`. The invariant of both (`Held`) is that caches hold sets
of things, files say what they may, and the process has ended only while modules export each other in a circle.

**ProviderRoutes.** `WalkReadsOnly` says that `ProviderRoutes` leaves the variables of `AngularThings` alone, so that the theorems
above hold beside the walk. `RoutesFollow` has to say what is in the shared arrays (`WalkInv`): the path of each call holds the classes of the calls around
it, a slice is longer than half of its array (`Fits`), and routes in the array that the call at depth six
writes into go through that call's class (`Sixth`), so that a write under a route of fewer than eight classes puts
there a class its predecessor also leads to. `ReachableReported` needs what the walk has met (`ReportInv`): where a class leads
is met or is still to be visited by a call under way (`Closing`), the routes found since a call began go through its class
(`Since`), and a module whose call is over is still on a route (`Over`, with `Fourth` for the arrays).

**PugScanner.** The invariant says of every saved state that its levels grow, that there are no
more of them than tokens before it (plus the margin), so that their number fits a byte, and that the
bytes beside it are its own. The work is in the bytes: where the parts of `Serialized` lie (`Parts`,
`MemoryType`), that `TakeStack` returns the first stack whole because its index counts from the beginning of the buffer
(`TakeFirst`), that it returns the others when they are empty (`TakeEmpty`), and that in any other case what
it returns still has the right type whatever lies behind (`TakeStackType`, `RestoredType`). Then each kind of scan
needs only what it does to the levels. `BracketsAreOpen` and `StringsAreLeft` rest on `Agrees`, a simulation of the reference by the
scanner: in a text without apostrophes or disguised characters its stack is what the text read so far has open, and `isString` is TRUE exactly when that text is nothing but strings.

**Cfg.** Neither invariant is inductive, as both are about the graph once the walk is over: what the walk will do when it
comes back to the statements it is inside of has to be known before. `Walk` reads the frames of `open` outermost first
(`Outer`) and rests on three facts. Edges only ever leave the current block and new blocks (`Made`), so that
what is known of the others stays. The blocks in which the walk goes on after a frame (`Own`) are those of that frame alone
(`Apart`), have no edges out of them yet, and have an edge into them if the code there can be reached (`Within`). And the builder's
stacks are told from the frames (`Nesting`): on top of `breaks` and `continues` are the blocks of the innermost loop,
except within an else clause, which the builder does not look into (`Seen`). With these `Leads` is kept: where the place can be reached,
the current block is the start of its function or has an edge into it and none out of it, or the function has one of the exceptions that
`OnlyUnreachableReported` names. A block that comes to show reachable code is that block or a new one behind it, which is `Sound`. For
`UnreachableReported` the blocks in `heads` have no edge into them and no frame has them among the blocks it may
still lead to (`Targets`), so that none will come (`Begins`).

The complexity (`CfgComplexity_proofs`) counts what is met from the start of a function, so all of its edges have to be known, those that
lead back included. `Flow` says so while the walk goes on: in a function without one of the exceptions, a block with an edge into it
has one edge out, or two if something is decided there, unless the walk has still to come back to it (`Waits`, `Settled`),
edges stay within their function (`Counts`), and each such block but the first has an edge from a block made before it
(`Led`). The last part is what an induction along paths becomes: with it a block's own number bounds the
length of a path to it, so that `Size(cfg)` steps of `Downward` are enough. Most of the proof is what each builder does to
the blocks that frames wait for (`Around`): an edge out of one of them would be a second one. Once the file is read nothing waits any more,
what `Downward` meets is exactly the blocks with an edge into them and the function's end (`MetExactly`), and the edges are counted
by a bijection with those blocks, and for the second edges with the decisions (`CountEdges`).

**Only model-checked.** Liveness (`OperationsReturn`, `MessagesServed`, `InitializeAnswered`,
`ShutdownExits`) and anything with ENABLED is outside what the prover does.

## 6. Findings

- `lsp_panic`: the log says that a handler that panics is answered with an empty response
  (`src/lsp/server.go:91`); nothing is written, the request stays unanswered.
- `usages_public`: the README's "Detects when a class property needn't be public"
  (`src/README.md:23`) is wrong after the template of a base class was
  handled: `DropTemplateUsages` forgets the uses other classes make of its members, and a
  member a subclass template needs is called needlessly public.
- `documents_open`: a didOpen with a version other than zero empties the text of a file
  already indexed, though the handler says there are no content changes
  (`src/lsp/lspHandleDidOpen.go:18`).
- `cfg_report`: "Highlights unreachable sections of code" (`src/README.md:25`), but after
  `function f() { return 1 }` at the top of a file every following statement is reported,
  though the program runs it: the visit of a function declaration goes on into the
  body after the function was built (`src/ast/manipulation/function_declaration.go:48`).

Further, the README's "Prints a list of all of the providers available to the current component" is
true only of imports that a question about available things has resolved before (`Importers`), and
fails for classes met on another route first and for long routes that share an array; `ModulesReported` says what
does hold.

Other facts the models show, which no text contradicts: a message put aside during the start may decode to a later message when its
turn comes, which is then handled too early and twice, and the former not at all (`lost`); in the Pug attribute `title="なぜ"` the closing quote is
skipped as if it were escaped, since the low byte of ぜ is a backslash's (`Disguised`); a component added to an array that a module spreads from
another file is declared nowhere until the module's own file is edited (`Behind`); a labelled break out of an outer loop makes the code after
that loop reported as unreachable (`astray`), code after a throw is not reported, and one condition in nested parentheses leaves the whole file without
a report (`ConditionPanics`); the scanner of Pug gives back only the first of its three
stacks whole, so that after a value with an open bracket it goes on with brackets no text has (`RestoredAsSaved` says
what does come back); a quote of another kind within a string opens a string in the string (`Apostrophe`); a module that loses
its list of declarations stays in `DeclaredIn` of the components it had, and every question about them panics until their own file is edited; with
the thing cache, a component far from an edited module keeps the things it had; modules that export each other in a circle
end the process at the first question; a change to a file the server does not know
is lost; a retargeted component leaves its former template with it and with old
diagnostics; a component whose template is missing is indexed without one, and the template's arrival does not mend
it; a component whose index fails keeps the classes and diagnostics of before, or an emptied class, until a text of it can be indexed; a component created after the start is not among its template's classes until
the next notification (dependents are postprocessed before the file); at start a template
postprocessed before its component knows no class, which its didOpen repairs; the parallel index may leave a
class pointing to a File that is not in `State.files`, which an edit of the component repairs; with
`concurrency` three classes on one base are enough for a definition whose access does not cover its uses; jumps in an else clause are not seen, so that code
after an if whose branches both return is not reported; a `break` that leaves a switch outside of a
loop ends the whole analysis with an error, and inside of a loop counts as leaving the loop.

## 7. Not modelled, and why

- *Generated parsers.* The C code of the repository is 553 520 lines, of which more than
  544 000 are the tables tree-sitter generates for seven grammars (`parser.c`); these have no control of their
  own. The scanners of the YAML, Markdown, HTML (`angular_expr`), TypeScript and JavaScript grammars come with
  those grammars. Pug's, by the author of the program and behind every template, is modelled whole; that of the
  text between interpolations (`angular_content`, one flag) is not. A share of the C
  lines therefore says little of the coverage of the program, which is the Go code.
- *Documents and classes.* Class hierarchies with cycles (the code recurses without end;
  excluded by `UsagesAssumption`), `implements`, deleted and renamed classes, dynamic
  imports, edits whose index fails (of uses and of Angular modules: see ClassUsages above), several content changes in one didChange (the server asks for full
  synchronisation).
- *Answers of external processes and engines.* What tsgo's callbacks answer (they read the editor's
  files), the three search engines, embeddings.
- *Pure functions of one tree or text.* What the feature handlers answer, the syntax tree and its edit
  session, type check blocks, the structural directive parser, positions: no interleaving, order or failure
  decides their result. The structural directive parser has tests of its own; the others are in the plan where
  a reference to check them against can be stated.
- *I/O.* File system walks, configuration, protocol types, review findings.

## 8. Plan

Done, in this order: `TsGoClient`, `OrderedService`/`LspServer`, `ClassUsages`, `DocumentStore`, their proofs, `Cfg`,
`AngularThings`, `ProviderRoutes`, `PugScanner` and their proofs. Every invariant and action property that a passing run
checks is proved.

Next modules:

1. `EditSession` and `Positions`: edits over a text, offsets before and after, positions
   and offsets as inverse conversions (the last line), and the offset map of type check blocks.
2. `Directive`: the structural directive parser as functions over token sequences.
3. `Search`: batches, and the goroutine that adds embeddings.

Next proofs: those of the next modules.
