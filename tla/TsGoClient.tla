----------------------------- MODULE TsGoClient -----------------------------
(***************************************************************************)
(* The client of the TypeScript server (parser/tsgoClient.go).             *)
(*                                                                         *)
(* ts_inspector starts `tsgo --api` as a child process and talks JSON-RPC  *)
(* to it over its stdin and stdout.  Goroutines that need an answer        *)
(* ("callers") write a request, register a channel for its id and block    *)
(* on the channel.  One reader goroutine takes every message of the        *)
(* child's stdout: an answer goes to the channel registered for its id, a  *)
(* callback (readFile, fileExists, getAccessibleEntries) is answered from  *)
(* the editor's own files.  opLock keeps the operations of two callers     *)
(* apart, because an operation is usually two requests: updateSnapshot,    *)
(* then a query that names the snapshot this has just created.             *)
(*                                                                         *)
(* A caller's code is a program of instructions; a request instruction is  *)
(* split where another goroutine can get in between: the id and the        *)
(* handles are read, the request is written, the channel is registered,    *)
(* the answer is received, the answer is parsed.                           *)
(***************************************************************************)
EXTENDS Naturals, Sequences, FiniteSets

CONSTANTS
    Callers,              \* goroutines that use the client
    NoCaller,             \* opLock is free
    MaxId,                \* bound on the ids given out
    MaxCallbacks,         \* bound on the server's callbacks
    CallbackModes,        \* "inline" or "goroutine", by the setting
                          \* TsGo.ExperimentalConcurrentRequestHandling
    ServerMayExit         \* may the child process die?

ASSUME ClientAssumption ==
    /\ NoCaller \notin Callers
    /\ MaxId \in Nat
    /\ MaxCallbacks \in Nat
    /\ CallbackModes \subseteq {"inline", "goroutine"}
    /\ ServerMayExit \in BOOLEAN

VARIABLES
    todo,       \* todo[c]: the instructions caller c has left
    pc,         \* pc[c]: where caller c is inside its next instruction
    id,         \* id[c]: the id of caller c's request
    asked,      \* asked[c]: the snapshot named by caller c's last query
    own,        \* own[c]: snapshotHandle after c's last updateSnapshot
    minted,     \* minted[c]: the snapshot the handle c holds belongs to
    torn,       \* torn[c]: the bytes c was handed were overwritten
    opLock,     \* the caller that holds the mutex, or NoCaller
    nextId,     \* the global id counter
    snapshot,   \* snapshotHandle; 0 until the first updateSnapshot
    registered, \* ids that have a channel in tsgo.responses
    channel,    \* answers that sit in the channel of their id
    started,    \* initTsGo has run (lspReady keeps all else out before)
    stdin,      \* the pipe to the child
    stdout,     \* the pipe from the child
    serving,    \* requests the child is working on
    awaiting,   \* ids of those that wait for the answer to a callback
    made,       \* the last snapshot the child has created
    callbacks,  \* how many callbacks the child has issued
    alive,      \* the child process runs
    reader,     \* the reader goroutine
    answering,  \* callbacks being answered
    running     \* ts_inspector itself has not crashed

caller == <<todo, pc, id, asked, own, minted, torn>>
client == <<opLock, nextId, snapshot, registered, channel, started>>
server == <<serving, awaiting, made, callbacks, alive>>
vars   == <<caller, client, server, stdin, stdout, reader, answering, running>>

-----------------------------------------------------------------------------
(* What each entry point does, as the instructions it executes.            *)

\* Plausible bugs of the code, one per property (PROJECT.json "mutants").
SyncWithoutLock == <<"update">>
SyncKeepsLock   == <<"lock", "update">>
DiagnosticsRelocks ==
    <<"lock", "update", "unlock", "lock", "ask", "unlock">>
DiagnosticsLocksTwice ==
    <<"lock", "lock", "update", "unlock", "ask", "unlock">>
HoverRefreshesAgain ==
    <<"lock", "update", "unlock", "ask", "lock", "update", "use", "unlock">>

Start       == <<"lock", "use", "unlock", "lock", "update", "unlock", "started">>
Sync        == <<"lock", "update", "unlock">>
Diagnostics == <<"lock", "update", "ask", "unlock">>
Hover       == <<"lock", "update", "unlock", "ask", "lock", "use", "unlock">>
\* For a symbol with one declaration; each further one repeats the end.
Definition  == <<"lock", "update", "ask", "unlock", "lock", "useEarly">>

Features == {Sync, Diagnostics, Hover, Definition}

\* updateSnapshot; a query that yields handles (getSemanticDiagnostics,
\* getSymbolAtPosition, getTypeAtPosition); one that sends a handle back
\* (typeToString; initialize sends none); getSourceFile, which unlocks early.
Requests == {"update", "ask", "use", "useEarly"}

At(c, instruction) == todo[c] # <<>> /\ Head(todo[c]) = instruction

\* GetNodePosition unlocks by hand before it waits; all others by defer.
Deferred(c) == opLock = c /\ ~At(c, "useEarly")

\* utils.GetNextStringIdGlobal, under its own mutex.
IdGoesDown == nextId - 1
IdStays == nextId
IdAfterDraw == nextId + 1

Message(type, i, s) == [type |-> type, id |-> i, snap |-> s]

Advance(c) == /\ todo' = [todo EXCEPT ![c] = Tail(@)]
              /\ pc' = [pc EXCEPT ![c] = "next"]

-----------------------------------------------------------------------------
Init ==
    /\ todo = [c \in Callers |-> <<>>]
    /\ pc = [c \in Callers |-> "next"]
    /\ id = [c \in Callers |-> 0]
    /\ asked = [c \in Callers |-> 0]
    /\ own = [c \in Callers |-> 0]
    /\ minted = [c \in Callers |-> 0]
    /\ torn = [c \in Callers |-> FALSE]
    /\ opLock = NoCaller
    /\ nextId = 0
    /\ snapshot = 0
    /\ registered = {}
    /\ channel = {}
    /\ started = FALSE
    /\ stdin = <<>>
    /\ stdout = <<>>
    /\ serving = {}
    /\ awaiting = {}
    /\ made = 0
    /\ callbacks = 0
    /\ alive = TRUE
    /\ reader = "scan"
    /\ answering = {}
    /\ running = TRUE

-----------------------------------------------------------------------------
(* Callers                                                                 *)

\* initTsGo runs first, on the goroutine of the initialize request.
Begin(c) ==
    /\ todo[c] = <<>>
    /\ running
    /\ nextId + 3 * (1 + Cardinality({d \in Callers : todo[d] # <<>>})) <= MaxId
    /\ \/ /\ ~started
          /\ \A d \in Callers : todo[d] = <<>>
          /\ todo' = [todo EXCEPT ![c] = Start]
       \/ /\ started
          /\ \E f \in Features : todo' = [todo EXCEPT ![c] = f]
    /\ UNCHANGED <<pc, id, asked, own, minted, torn, client, server,
                   stdin, stdout, reader, answering, running>>

Lock(c) ==
    /\ At(c, "lock")
    /\ opLock = NoCaller
    /\ opLock' = c
    /\ Advance(c)
    /\ UNCHANGED <<id, asked, own, minted, torn, nextId, snapshot, registered,
                   channel, started, server, stdin, stdout, reader, answering, running>>

Unlock(c) ==
    /\ At(c, "unlock")
    /\ opLock' = NoCaller
    /\ Advance(c)
    /\ UNCHANGED <<id, asked, own, minted, torn, nextId, snapshot, registered,
                   channel, started, server, stdin, stdout, reader, answering, running>>

\* The end of lspHandleInitialise: from here on the scanner loop serves.
Started(c) ==
    /\ At(c, "started")
    /\ started' = TRUE
    /\ Advance(c)
    /\ UNCHANGED <<id, asked, own, minted, torn, opLock, nextId, snapshot,
                   registered, channel, server, stdin, stdout, reader, answering, running>>

\* The request is built: the id is drawn, the handles are read.
Build(c) ==
    /\ pc[c] = "next"
    /\ \E r \in Requests : At(c, r)
    /\ id' = [id EXCEPT ![c] = nextId]
    /\ nextId' = IdAfterDraw
    /\ asked' = IF At(c, "update") THEN asked ELSE [asked EXCEPT ![c] = snapshot]
    /\ pc' = [pc EXCEPT ![c] = "write"]
    /\ UNCHANGED <<todo, own, minted, torn, opLock, snapshot, registered,
                   channel, started, server, stdin, stdout, reader, answering, running>>

\* utils.WriteResponse, with a child that reads.
Write(c) ==
    /\ pc[c] = "write"
    /\ alive
    /\ stdin' = Append(stdin, IF At(c, "update") THEN Message("update", id[c], 0)
                                                 ELSE Message("query", id[c], asked[c]))
    /\ pc' = [pc EXCEPT ![c] = "register"]
    /\ UNCHANGED <<todo, id, asked, own, minted, torn, client, server,
                   stdout, reader, answering, running>>

\* A panic on a goroutine without recover ends the process.
Crash ==
    /\ running' = FALSE
    /\ todo' = [c \in Callers |-> <<>>]
    /\ pc' = [c \in Callers |-> "next"]
    /\ reader' = "gone"
    /\ answering' = {}

\* utils.WriteResponse panics when the pipe is broken.  On the scanner loop
\* handleMessage recovers, and only an unlock that was deferred is run on
\* the way up; the initialize goroutine has no recover.
WriteFails(c) ==
    /\ pc[c] = "write"
    /\ ~alive
    /\ started
    /\ opLock' = IF Deferred(c) THEN NoCaller ELSE opLock
    /\ todo' = [todo EXCEPT ![c] = <<>>]
    /\ pc' = [pc EXCEPT ![c] = "next"]
    /\ UNCHANGED <<id, asked, own, minted, torn, nextId, snapshot, registered,
                   channel, started, server, stdin, stdout, reader, answering, running>>

WriteFailsAtStart(c) ==
    /\ pc[c] = "write"
    /\ ~alive
    /\ ~started
    /\ Crash
    /\ UNCHANGED <<id, asked, own, minted, torn, client, server, stdin, stdout>>

\* A bug: the unlock before the wait is forgotten.
RegisterKeepsLock(c) ==
    /\ pc[c] = "register"
    /\ registered' = registered \cup {id[c]}
    /\ pc' = [pc EXCEPT ![c] = "wait"]
    /\ UNCHANGED <<todo, id, asked, own, minted, torn, opLock, nextId, snapshot, channel,
                   started, server, stdin, stdout, reader, answering, running>>

\* make(chan []byte, 1) and AddHandler, after the request was written.
Register(c) ==
    /\ pc[c] = "register"
    /\ registered' = registered \cup {id[c]}
    /\ opLock' = IF At(c, "useEarly") THEN NoCaller ELSE opLock
    /\ pc' = [pc EXCEPT ![c] = "wait"]
    /\ UNCHANGED <<todo, id, asked, own, minted, torn, nextId, snapshot, channel,
                   started, server, stdin, stdout, reader, answering, running>>

\* A bug: the select also gives up, say on a timeout.
ReceiveGivesUp(c) ==
    /\ pc[c] = "wait"
    /\ opLock' = IF Deferred(c) THEN NoCaller ELSE opLock
    /\ todo' = [todo EXCEPT ![c] = <<>>]
    /\ pc' = [pc EXCEPT ![c] = "next"]
    /\ UNCHANGED <<id, asked, own, minted, torn, nextId, snapshot, registered, channel,
                   started, server, stdin, stdout, reader, answering, running>>

\* The select: ctx is never cancelled, so only the channel can wake it.
Receive(c) ==
    /\ pc[c] = "wait"
    /\ \E m \in channel : m.id = id[c]
    /\ pc' = [pc EXCEPT ![c] = "parse"]
    /\ UNCHANGED <<todo, id, asked, own, minted, torn, client, server,
                   stdin, stdout, reader, answering, running>>

\* TryParseRequest and what is done with the result.  The snapshot is kept
\* only when the child could open the project; bytes that were overwritten
\* may not parse, and then the zero value is used.
Parse(c) ==
    /\ pc[c] = "parse"
    /\ \E m \in channel :
        /\ m.id = id[c]
        /\ channel' = channel \ {m}
        /\ \E legible \in {TRUE, ~torn[c]} :
             snapshot' = IF At(c, "update") /\ legible /\ m.snap # 0
                         THEN m.snap ELSE snapshot
        /\ own' = IF At(c, "update") THEN [own EXCEPT ![c] = snapshot'] ELSE own
        /\ minted' = IF At(c, "ask") THEN [minted EXCEPT ![c] = m.snap] ELSE minted
    /\ torn' = [torn EXCEPT ![c] = FALSE]
    /\ Advance(c)
    /\ UNCHANGED <<id, asked, opLock, nextId, registered, started, server,
                   stdin, stdout, reader, answering, running>>

-----------------------------------------------------------------------------
(* The reader goroutine                                                    *)

\* The slice handed over aliases the scanner's buffer: reading on may
\* overwrite it until the receiver has parsed it.
Overwrite ==
    \E overwritten \in SUBSET {c \in Callers :
                                 \E m \in channel : pc[c] # "next" /\ m.id = id[c]} :
        torn' = [c \in Callers |-> torn[c] \/ c \in overwritten]

\* A bug: a send that gives up on a nil channel.
ScanningOn == reader \in {"scan", "stuck"} /\ stdout # <<>>
Scanning == reader = "scan" /\ stdout # <<>>

\* An answer whose channel is registered.
Deliver ==
    /\ Scanning
    /\ Head(stdout).type = "answer"
    /\ Head(stdout).id \in registered
    /\ channel' = channel \cup {Head(stdout)}
    /\ stdout' = Tail(stdout)
    /\ Overwrite
    /\ UNCHANGED <<todo, pc, id, asked, own, minted, opLock, nextId, snapshot,
                   registered, started, server, stdin, reader, answering, running>>

\* An answer that beats AddHandler: GetHandler returns nil, and a send on a
\* nil channel blocks for ever.
DeliverTooEarly ==
    /\ Scanning
    /\ Head(stdout).type = "answer"
    /\ Head(stdout).id \notin registered
    /\ stdout' = Tail(stdout)
    /\ reader' = "stuck"
    /\ Overwrite
    /\ UNCHANGED <<todo, pc, id, asked, own, minted, client, server, stdin, answering, running>>

\* An answer above the scanner's 1 MB: Scan returns false, the loop ends.
DeliverTooLong ==
    /\ Scanning
    /\ Head(stdout).type = "toolong"
    /\ stdout' = Tail(stdout)
    /\ reader' = "gone"
    /\ Overwrite
    /\ UNCHANGED <<todo, pc, id, asked, own, minted, client, server, stdin, answering, running>>

\* handleRequest: on the reader goroutine, or on one of its own.
TakeCallback ==
    /\ Scanning
    /\ Head(stdout).type = "callback"
    /\ stdout' = Tail(stdout)
    /\ \E mode \in CallbackModes :
        /\ answering' = answering \cup {<<mode, Head(stdout).id>>}
        /\ reader' = IF mode = "inline" THEN "callback" ELSE reader
    /\ Overwrite
    /\ UNCHANGED <<todo, pc, id, asked, own, minted, client, server, stdin, running>>

\* tsgoHandleReadFile and its siblings write one response on every path.
AnswerCallback(mode, i) ==
    /\ alive
    /\ answering' = answering \ {<<mode, i>>}
    /\ stdin' = Append(stdin, Message("reply", i, 0))
    /\ reader' = IF mode = "inline" THEN "scan" ELSE reader
    /\ UNCHANGED <<caller, client, server, stdout, running>>

\* The write panics.  PanicLogger ends the reader goroutine; a callback's
\* own goroutine has no recover.
InlineCallbackFails(i) ==
    /\ ~alive
    /\ answering' = answering \ {<<"inline", i>>}
    /\ reader' = "gone"
    /\ UNCHANGED <<caller, client, server, stdin, stdout, running>>

GoroutineCallbackFails ==
    /\ ~alive
    /\ Crash
    /\ UNCHANGED <<id, asked, own, minted, torn, client, server, stdin, stdout>>

\* End of file on stdout.
ReaderEof ==
    /\ reader = "scan"
    /\ ~alive
    /\ stdout = <<>>
    /\ reader' = "gone"
    /\ UNCHANGED <<caller, client, server, stdin, stdout, answering, running>>

-----------------------------------------------------------------------------
(* The child process.  It is not part of the repository: it takes requests *)
(* in order, works on them concurrently (--async), may call back while it  *)
(* works on one, and answers each exactly once.                            *)

ServerTake ==
    /\ alive
    /\ stdin # <<>>
    /\ stdin' = Tail(stdin)
    /\ IF Head(stdin).type = "reply"
       THEN /\ awaiting' = awaiting \ {Head(stdin).id}
            /\ UNCHANGED serving
       ELSE /\ serving' = serving \cup {Head(stdin)}
            /\ UNCHANGED awaiting
    /\ UNCHANGED <<caller, client, made, callbacks, alive, stdout, reader, answering, running>>

ServerCallback ==
    /\ alive
    /\ callbacks < MaxCallbacks
    /\ \E r \in serving :
        /\ r.id \notin awaiting
        /\ awaiting' = awaiting \cup {r.id}
        /\ stdout' = Append(stdout, Message("callback", r.id, 0))
    /\ callbacks' = callbacks + 1
    /\ UNCHANGED <<caller, client, serving, made, alive, stdin, reader, answering, running>>

ServerAnswer ==
    /\ alive
    /\ \E r \in serving :
        /\ r.id \notin awaiting
        /\ serving' = serving \ {r}
        /\ IF r.type = "update"
           THEN \/ /\ made' = made + 1
                   /\ stdout' = Append(stdout, Message("answer", r.id, made + 1))
                \/ /\ stdout' = Append(stdout, Message("answer", r.id, 0))
                   /\ UNCHANGED made
           ELSE /\ \E type \in {"answer", "toolong"} :
                     stdout' = Append(stdout, Message(type, r.id, r.snap))
                /\ UNCHANGED made
    /\ UNCHANGED <<caller, client, awaiting, callbacks, alive, stdin, reader, answering, running>>

ServerExit ==
    /\ ServerMayExit
    /\ alive
    /\ alive' = FALSE
    /\ serving' = {}
    /\ awaiting' = {}
    /\ stdin' = <<>>
    /\ UNCHANGED <<caller, client, made, callbacks, stdout, reader, answering, running>>

-----------------------------------------------------------------------------
\* What a caller does once it has begun.
CallerStep(c) ==
    \/ Lock(c) \/ Unlock(c) \/ Started(c) \/ Build(c) \/ Write(c)
    \/ WriteFails(c) \/ WriteFailsAtStart(c) \/ Register(c) \/ Receive(c) \/ Parse(c)

ReaderStep == Deliver \/ DeliverTooEarly \/ DeliverTooLong \/ TakeCallback \/ ReaderEof

CallbackStep ==
    \E work \in answering :
        \/ AnswerCallback(work[1], work[2])
        \/ work[1] = "inline" /\ InlineCallbackFails(work[2])
        \/ work[1] = "goroutine" /\ GoroutineCallbackFails

Next ==
    \/ \E c \in Callers : Begin(c) \/ CallerStep(c)
    \/ ReaderStep
    \/ CallbackStep
    \/ ServerTake \/ ServerCallback \/ ServerAnswer \/ ServerExit

Spec == Init /\ [][Next]_vars

\* The Go scheduler runs every goroutine that can run, a mutex is handed on
\* in order (no caller locks twice while another waits for ever: the ids are
\* bounded), and the child answers what it was asked.
Fairness ==
    /\ \A c \in Callers : WF_vars(CallerStep(c))
    /\ WF_vars(ReaderStep)
    /\ WF_vars(CallbackStep)
    /\ WF_vars(ServerTake)
    /\ WF_vars(ServerAnswer)

FairSpec == Spec /\ Fairness

-----------------------------------------------------------------------------
(* Properties                                                              *)

Instructions == Requests \cup {"lock", "unlock", "started"}
ToServer     == [type : {"update", "query", "reply"}, id : Nat, snap : Nat]
FromServer   == [type : {"answer", "toolong", "callback"}, id : Nat, snap : Nat]

\* Every variable has its type.
TypeOK ==
    /\ todo \in [Callers -> Seq(Instructions)]
    /\ pc \in [Callers -> {"next", "write", "register", "wait", "parse"}]
    /\ id \in [Callers -> Nat]
    /\ asked \in [Callers -> Nat]
    /\ own \in [Callers -> Nat]
    /\ minted \in [Callers -> Nat]
    /\ torn \in [Callers -> BOOLEAN]
    /\ opLock \in Callers \cup {NoCaller}
    /\ nextId \in Nat
    /\ snapshot \in Nat
    /\ registered \subseteq Nat
    /\ channel \subseteq FromServer
    /\ started \in BOOLEAN
    /\ stdin \in Seq(ToServer)
    /\ stdout \in Seq(FromServer)
    /\ serving \subseteq ToServer
    /\ awaiting \subseteq Nat
    /\ made \in Nat
    /\ callbacks \in Nat
    /\ alive \in BOOLEAN
    /\ reader \in {"scan", "callback", "stuck", "gone"}
    /\ answering \subseteq {"inline", "goroutine"} \X Nat
    /\ running \in BOOLEAN

Outstanding(c) == pc[c] \in {"register", "wait", "parse"}

\* The copies of the request with id i, or of its answer, that exist.
Copies(i) ==
    Cardinality({k \in DOMAIN stdin : stdin[k].id = i /\ stdin[k].type # "reply"})
  + Cardinality({r \in serving : r.id = i})
  + Cardinality({k \in DOMAIN stdout : stdout[k].id = i /\ stdout[k].type # "callback"})
  + Cardinality({m \in channel : m.id = i})

\* While the child lives and the reader reads, what a caller waits for is
\* exactly once on its way: nothing is lost between the goroutines and
\* nothing is answered twice, whoever else uses the client.
RequestConserved ==
    alive /\ reader \in {"scan", "callback"} =>
        \A c \in Callers : Outstanding(c) => Copies(id[c]) = 1

\* The race of WriteResponse against AddHandler strands one caller, the one
\* whose answer was dropped, and cannot hit two.
StuckReaderStrandsOne ==
    reader = "stuck" /\ alive =>
        Cardinality({c \in Callers : Outstanding(c) /\ Copies(id[c]) = 0}) = 1

\* An operation that refreshes and then asks under one lock asks about the
\* snapshot that its own refresh left, even when other callers refresh too
\* (GetSemanticDiagnostics, GetSymbolAtPosition).
AsksOwnSnapshot ==
    \A c \in Callers : At(c, "ask") /\ opLock = c /\ pc[c] # "next" => asked[c] = own[c]

\* With this left to do a caller is between lock and unlock.
Locked(s) ==
    /\ s # <<>>
    /\ \/ Head(s) \in {"update", "use", "unlock", "useEarly"}
       \/ Head(s) = "ask" /\ Head(Tail(s)) = "unlock"

\* A caller between lock and unlock; GetNodePosition lets go when it waits.
InSection(c) ==
    /\ Locked(todo[c])
    /\ ~ (At(c, "useEarly") /\ pc[c] \in {"wait", "parse"})

Guarded(c) ==
    /\ InSection(c) => opLock = c
    /\ opLock = c => InSection(c) \/ todo[c] = <<>> \/ At(c, "lock")

\* Whoever is between lock and unlock has opLock, so two never are; and who
\* has it is there, unless a broken pipe leaked it (then its holder is idle,
\* or waits for itself).
LockDiscipline == \A c \in Callers : Guarded(c)

\* A caller that is done holds no lock as long as the child lives: only a
\* broken pipe in GetNodePosition leaks the mutex.
LockNotLeaked ==
    \A c \in Callers : opLock = c /\ todo[c] = <<>> => ~alive

\* snapshotHandle is never replaced by that of an older snapshot.
SnapshotNeverGoesBack == [][snapshot' >= snapshot]_snapshot

\* Every operation returns, unless the reader is stuck or gone or the child
\* has died: the mutex, the callbacks answered on the reader goroutine and
\* the channels cannot deadlock among themselves.
OperationsReturn ==
    \A c \in Callers :
        todo[c] # <<>> ~> (todo[c] = <<>> \/ reader \in {"stuck", "gone"} \/ ~alive)

\* With one caller (lspReady lets the scanner loop in only when initTsGo is
\* done) the bytes of an answer are still intact when they are parsed,
\* although they alias the buffer the reader reads into.
BytesIntact == \A c \in Callers : ~torn[c]

\* With one caller a type or a declaration handle is sent back with the
\* snapshot it was minted in (hover: GetTypeAtPosition then TypeToString;
\* definition: GetSymbolAtPosition then GetNodePosition).
HandleOfItsSnapshot ==
    \A c \in Callers :
        /\ pc[c] # "next"
        /\ At(c, "use") \/ At(c, "useEarly")
        => asked[c] = minted[c]
=============================================================================
