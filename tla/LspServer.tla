----------------------------- MODULE LspServer ------------------------------
(***************************************************************************)
(* The life of the language server (lsp/server.go, lsp/lspProgress.go,     *)
(* lsp/lspHandleInitialise.go, startLsp in main.go).                       *)
(*                                                                         *)
(* Three goroutines share a few global variables.  The scanner loop takes  *)
(* the editor's messages one by one and runs their handlers; messages      *)
(* that come while lspReady is false are put aside, and are handled just   *)
(* before the next message that comes when it is true.  `initialize`       *)
(* starts a goroutine of its own, which asks the editor for a progress     *)
(* token, waits for the answer (the loop delivers it), answers the         *)
(* initialize request, indexes the project and sets lspReady.  main waits  *)
(* for a shutdown on a channel, on which the wait for the token listens    *)
(* as well.                                                                *)
(*                                                                         *)
(* Messages are numbered in the order in which the editor sends them; of   *)
(* their content only the kind is kept.  The loop works on slices of the   *)
(* scanner's buffer.  A slice is a record: `n` is the message the scanner  *)
(* cut it for, `is` the message its bytes decode to by now, of kind        *)
(* `kind`.  They differ once the buffer has been filled anew: the slice    *)
(* then decodes to a later message, or to none (`is` is 0, "garbage").     *)
(***************************************************************************)
EXTENDS Naturals, Sequences, FiniteSets, Functions

CONSTANTS
    MaxMessages,    \* bound on the messages the editor sends
    EarlyMessages,  \* kinds an impatient editor sends before `initialized`
    BufferIsReused  \* so much text arrives while the server is not ready that
                    \* the scanner overwrites the messages put aside

Early == {"shutdown", "other"}

ASSUME ServerAssumption ==
    /\ MaxMessages \in Nat
    /\ EarlyMessages \subseteq Early
    /\ BufferIsReused \in BOOLEAN

VARIABLES
    \* the editor
    sent,           \* how many messages it has sent
    editor,         \* how far it is in the handshake
    tokenRequest,   \* window/workDoneProgress/create: not sent, sent, answered
    answered,       \* the initialize request has been answered
    \* the scanner loop
    inbox,          \* stdin
    lspReady,
    pending,        \* lspPendingMessages
    batch,          \* what is left to handle before the next Scan
    served,         \* slices handled, oldest first
    lost,           \* messages whose bytes were overwritten
    panicked,       \* requests whose handler panicked
    responses,      \* requests that were answered, once or more
    late,           \* `initialized` was handled after init had ended
    \* the goroutine of initialize
    init,           \* where it is
    handler,        \* lspIdHandler has the handler of the token request
    tokenChannel,   \* progressResponses[id], of capacity one
    \* main
    shutdown,       \* messages in the Shutdown channel, of capacity one
    stolen,         \* the wait for the token took the shutdown
    process         \* the process runs, has exited or has crashed

editorVars == <<sent, editor, tokenRequest, answered>>
loopVars   == <<inbox, lspReady, pending, batch, served, lost, panicked, responses, late>>
initVars   == <<init, handler, tokenChannel>>
mainVars   == <<shutdown, stolen, process>>
vars       == <<editorVars, loopVars, initVars, mainVars>>

\* Messages whose handlers read or write the project's state.
Features == {"request", "change"}

Kinds == Features \cup {"initialize", "initialized", "accept", "refuse", "shutdown", "other"}

Runs == process = "runs"

-----------------------------------------------------------------------------
Init ==
    /\ sent = 0
    /\ editor = "new"
    /\ tokenRequest = "none"
    /\ answered = FALSE
    /\ inbox = <<>>
    /\ lspReady = TRUE
    /\ pending = <<>>
    /\ batch = <<>>
    /\ served = <<>>
    /\ lost = {}
    /\ panicked = {}
    /\ responses = {}
    /\ late = FALSE
    /\ init = "none"
    /\ handler = FALSE
    /\ tokenChannel = "empty"
    /\ shutdown = 0
    /\ stolen = FALSE
    /\ process = "runs"

-----------------------------------------------------------------------------
(* The editor.  It is not part of the repository: it follows the           *)
(* protocol's handshake, may refuse the token, and may be impatient.       *)

Send(kind) ==
    /\ sent < MaxMessages
    /\ sent' = sent + 1
    /\ inbox' = Append(inbox, [n |-> sent + 1, is |-> sent + 1, kind |-> kind])
    /\ UNCHANGED <<answered, lspReady, pending, batch, served, lost, panicked,
                   responses, late, initVars, mainVars>>

EditorInitialize ==
    /\ editor = "new"
    /\ Send("initialize")
    /\ editor' = "initializing"
    /\ UNCHANGED tokenRequest

EditorAnswersToken ==
    /\ tokenRequest = "sent"
    /\ \E kind \in {"accept", "refuse"} : Send(kind)
    /\ tokenRequest' = "answered"
    /\ UNCHANGED editor

EditorInitialized ==
    /\ editor = "initializing"
    /\ answered
    /\ Send("initialized")
    /\ editor' = "initialized"
    /\ UNCHANGED tokenRequest

EditorEarly ==
    /\ editor = "initializing"
    /\ \E kind \in EarlyMessages : Send(kind)
    /\ UNCHANGED <<editor, tokenRequest>>

EditorUses ==
    /\ editor = "initialized"
    /\ \E kind \in Features \cup Early : Send(kind)
    /\ UNCHANGED <<editor, tokenRequest>>

-----------------------------------------------------------------------------
(* The scanner loop                                                        *)

\* What a slice put aside can become: its bytes stay, or are those of a
\* message not read when the buffer is filled anew, or of no message.
Becomes(slice) ==
    {slice, [n |-> slice.n, is |-> 0, kind |-> "garbage"]}
        \cup {[n |-> slice.n, is |-> m.is, kind |-> m.kind] : m \in Range(inbox)}

\* The slices put aside alias the scanner's buffer: once more than half of it
\* has been used, what is unread moves to its start, and stdin is read after
\* it.  Which slices lie there, and where messages begin, is left open.
Reused(queue) ==
    IF BufferIsReused
    THEN {left \in [DOMAIN queue -> UNION {Becomes(slice) : slice \in Range(queue)}] :
             \A i \in DOMAIN queue : left[i] \in Becomes(queue[i])}
    ELSE {queue}

Misread(slice) == slice.is # slice.n

\* A bug: the message just read overtakes the queue.
FlushNewFirst(queue) == <<Head(inbox)>> \o queue

\* What one turn of the loop handles: the queue, then the message read.
Flush(queue) == Append(queue, Head(inbox))

Scan ==
    /\ Runs
    /\ batch = <<>>
    /\ inbox # <<>>
    /\ inbox' = Tail(inbox)
    /\ \E queue \in Reused(pending) :
        /\ IF lspReady
           THEN batch' = Flush(queue) /\ pending' = <<>>
           ELSE pending' = Append(queue, Head(inbox)) /\ UNCHANGED batch
        /\ lost' = lost \cup {slice.n : slice \in {m \in Range(queue) : Misread(m)}}
    /\ UNCHANGED <<editorVars, lspReady, served, panicked, responses, late,
                   initVars, mainVars>>

Now == Head(batch)

Handling(kind) ==
    /\ Runs
    /\ batch # <<>>
    /\ Now.kind = kind

Serve ==
    /\ batch' = Tail(batch)
    /\ served' = Append(served, Now)

HandleInitialize ==
    /\ Handling("initialize")
    /\ Serve
    /\ init' = "create"
    /\ UNCHANGED <<editorVars, inbox, lspReady, pending, lost, panicked, responses, late,
                   handler, tokenChannel, mainVars>>

\* A bug: the server stays ready while it indexes.
InitializedIgnored ==
    /\ Handling("initialized")
    /\ Serve
    /\ UNCHANGED <<editorVars, inbox, lspReady, pending, lost, panicked, responses, late,
                   initVars, mainVars>>

HandleInitialized ==
    /\ Handling("initialized")
    /\ Serve
    /\ lspReady' = FALSE
    /\ late' = (init = "done")
    /\ UNCHANGED <<editorVars, inbox, pending, lost, panicked, responses, initVars,
                   mainVars>>

\* A bug: a channel without a bound.
ShutdownNeverBlocks ==
    /\ Handling("shutdown")
    /\ shutdown' = shutdown + 1
    /\ Serve
    /\ UNCHANGED <<editorVars, inbox, lspReady, pending, lost, panicked, responses, late,
                   initVars, stolen, process>>

\* Shutdown <- 1 blocks the loop when the channel is full.
HandleShutdown ==
    /\ Handling("shutdown")
    /\ shutdown = 0
    /\ shutdown' = 1
    /\ Serve
    /\ UNCHANGED <<editorVars, inbox, lspReady, pending, lost, panicked, responses, late,
                   initVars, stolen, process>>

\* A bug: an answer with an error is logged and not passed on.
RefusalIsDropped ==
    /\ Handling("accept") \/ Handling("refuse")
    /\ Serve
    /\ IF handler /\ Now.kind = "accept"
       THEN tokenChannel' = Now.kind /\ handler' = FALSE
       ELSE UNCHANGED <<tokenChannel, handler>>
    /\ UNCHANGED <<editorVars, inbox, lspReady, pending, lost, panicked, responses, late,
                   init, mainVars>>

\* The default case: the answer to the token request finds its handler.
HandleTokenAnswer ==
    /\ Handling("accept") \/ Handling("refuse")
    /\ Serve
    /\ IF handler
       THEN tokenChannel' = Now.kind /\ handler' = FALSE
       ELSE UNCHANGED <<tokenChannel, handler>>
    /\ UNCHANGED <<editorVars, inbox, lspReady, pending, lost, panicked, responses, late,
                   init, mainVars>>

\* Any other method.  A notification has no id, which decodes as 0; the
\* token request has drawn the first id, 0, so its handler takes the
\* notification for an answer without id and is then dropped.
HandleOther ==
    /\ Handling("other")
    /\ Serve
    /\ handler' = FALSE
    /\ UNCHANGED <<editorVars, inbox, lspReady, pending, lost, panicked, responses, late,
                   init, tokenChannel, mainVars>>

\* didOpen, didChange, and executeCommand, a request that is never answered:
\* whatever happens, the handler ends without a response.
HandleChange ==
    /\ Handling("change")
    /\ Serve
    /\ UNCHANGED <<editorVars, inbox, lspReady, pending, lost, panicked, responses, late,
                   initVars, mainVars>>

\* hover, definition, completion, references, codeAction, symbol, getTcb:
\* every path of the handlers that returns has written a response (hover
\* writes two when the TypeScript server fails it).
HandleRequest ==
    /\ Handling("request")
    /\ Serve
    /\ responses' = responses \cup {Now.is}
    /\ UNCHANGED <<editorVars, inbox, lspReady, pending, lost, panicked, late,
                   initVars, mainVars>>

\* The recover of handleMessage logs and returns.
RequestPanics ==
    /\ Handling("request")
    /\ Serve
    /\ panicked' = panicked \cup {Now.is}
    /\ UNCHANGED <<editorVars, inbox, lspReady, pending, lost, responses, late,
                   initVars, mainVars>>

\* Bytes that do not decode: DecodeMessage returns an error, or slices a
\* header that is too short or a content that is, outside of any recover.
HandleGarbage ==
    /\ Handling("garbage")
    /\ batch' = Tail(batch)
    /\ process' \in {"runs", "crashed"}
    /\ UNCHANGED <<editorVars, inbox, lspReady, pending, served, lost, panicked, responses,
                   late, initVars, shutdown, stolen>>

-----------------------------------------------------------------------------
(* The goroutine of initialize                                             *)

\* lspCreateProgressToken registers the handler before it writes.
InitCreate ==
    /\ Runs
    /\ init = "create"
    /\ init' = "token"
    /\ handler' = TRUE
    /\ tokenRequest' = "sent"
    /\ UNCHANGED <<sent, editor, answered, loopVars, tokenChannel, mainVars>>

InitToken ==
    /\ Runs
    /\ init = "token"
    /\ tokenChannel # "empty"
    /\ tokenChannel' = "empty"
    /\ init' = "respond"
    /\ UNCHANGED <<editorVars, loopVars, handler, mainVars>>

\* The other branch of the select.
InitTokenShutdown ==
    /\ Runs
    /\ init = "token"
    /\ shutdown = 1
    /\ shutdown' = 0
    /\ stolen' = TRUE
    /\ init' = "respond"
    /\ UNCHANGED <<editorVars, loopVars, handler, tokenChannel, process>>

InitRespond ==
    /\ Runs
    /\ init = "respond"
    /\ answered' = TRUE
    /\ init' = "index"
    /\ UNCHANGED <<sent, editor, tokenRequest, loopVars, handler, tokenChannel, mainVars>>

\* Index, Postprocess, the search indexes, TsGo; two of them may be fatal,
\* and the last waits for a child that may never answer (TsGoClient).
InitIndex ==
    /\ Runs
    /\ init = "index"
    /\ \/ init' \in {"finish", "hung"} /\ UNCHANGED process
       \/ process' = "crashed" /\ UNCHANGED init
    /\ UNCHANGED <<editorVars, loopVars, handler, tokenChannel, shutdown, stolen>>

\* A bug: the goroutine ends without opening the gate.
InitFinishNotReady ==
    /\ Runs
    /\ init = "finish"
    /\ init' = "done"
    /\ UNCHANGED <<editorVars, loopVars, handler, tokenChannel, mainVars>>

InitFinish ==
    /\ Runs
    /\ init = "finish"
    /\ init' = "done"
    /\ lspReady' = TRUE
    /\ UNCHANGED <<editorVars, inbox, pending, batch, served, lost, panicked, responses, late,
                   handler, tokenChannel, mainVars>>

-----------------------------------------------------------------------------
(* main                                                                    *)

\* A bug: main lets the loop finish first.
MainDrainsFirst ==
    /\ Runs
    /\ shutdown = 1
    /\ batch = <<>>
    /\ shutdown' = 0
    /\ process' = "exited"
    /\ UNCHANGED <<editorVars, loopVars, initVars, stolen>>

MainShutdown ==
    /\ Runs
    /\ shutdown = 1
    /\ shutdown' = 0
    /\ process' = "exited"
    /\ UNCHANGED <<editorVars, loopVars, initVars, stolen>>

-----------------------------------------------------------------------------
EditorStep == EditorInitialize \/ EditorAnswersToken \/ EditorInitialized
              \/ EditorEarly \/ EditorUses

LoopStep ==
    \/ Scan
    \/ HandleInitialize \/ HandleInitialized \/ HandleShutdown \/ HandleTokenAnswer
    \/ HandleOther \/ HandleChange \/ HandleRequest \/ RequestPanics \/ HandleGarbage

InitStep == InitCreate \/ InitToken \/ InitTokenShutdown \/ InitRespond
            \/ InitIndex \/ InitFinish

Next == EditorStep \/ LoopStep \/ InitStep \/ MainShutdown

Spec == Init /\ [][Next]_vars

\* The scheduler runs the three goroutines; the editor owes nothing.
FairSpec == Spec /\ WF_vars(LoopStep) /\ WF_vars(InitStep) /\ WF_vars(MainShutdown)

-----------------------------------------------------------------------------
(* Properties                                                              *)

Messages == [n : Nat, is : Nat, kind : Kinds \cup {"garbage"}]

\* Every variable has its type; the channels respect their capacity.
TypeOK ==
    /\ sent \in Nat
    /\ editor \in {"new", "initializing", "initialized"}
    /\ tokenRequest \in {"none", "sent", "answered"}
    /\ answered \in BOOLEAN
    /\ inbox \in Seq(Messages)
    /\ lspReady \in BOOLEAN
    /\ pending \in Seq(Messages)
    /\ batch \in Seq(Messages)
    /\ served \in Seq(Messages)
    /\ lost \subseteq Nat
    /\ panicked \subseteq Nat
    /\ responses \subseteq Nat
    /\ late \in BOOLEAN
    /\ init \in {"none", "create", "token", "respond", "index", "finish", "hung", "done"}
    /\ handler \in BOOLEAN
    /\ tokenChannel \in {"empty", "accept", "refuse"}
    /\ shutdown \in {0, 1}
    /\ stolen \in BOOLEAN
    /\ process \in {"runs", "exited", "crashed"}

\* What was handled, up to the first slice that was read for another message.
UpToMisread(queue) ==
    [i \in {j \in DOMAIN queue : \A k \in 1 .. j : ~Misread(queue[k])} |-> queue[i].is]

Service == INSTANCE OrderedService WITH served <- UpToMisread(served)

\* Putting messages aside and flushing them keeps the editor's order, until a
\* slice that was overwritten is read for another message, if ever: up to then
\* a didChange is never handled after a request that was sent after it, and
\* nothing is handled twice.
ServedInOrder == Service!Spec

\* Whatever happens to the buffer, a message is handled before an earlier
\* one, or once more, only where it is read in the place of a message that
\* is lost; all others keep the editor's order.
OvertakenOnlyInLostPlaces ==
    \A i, j \in DOMAIN served :
        i < j => \/ served[i].is < served[j].is
                 \/ Misread(served[i]) /\ served[i].n \in lost

\* No handler that works on the project's state runs while the goroutine of
\* initialize is still building that state.
FeaturesAfterIndex ==
    \A i \in DOMAIN served : served[i].kind \in Features => init = "done"

\* How often a message is in a queue, in its own place.
Occurrences(queue, n) ==
    Cardinality({i \in DOMAIN queue : queue[i].n = n /\ ~Misread(queue[i])})

\* The server will never be ready again: `initialized` came after the end of
\* the goroutine that would have opened the gate.
Deaf == late /\ ~lspReady

\* The message waits for the editor to send another one.
NeedsAnother(n) == lspReady /\ inbox = <<>> /\ Occurrences(pending, n) = 1

\* A message is handled in the end, with exactly five exceptions: the bytes
\* were overwritten, the process ended, the server is deaf, initialisation
\* hangs on the TypeScript server, or the message was put aside and nothing
\* has been sent since the server became ready.
MessagesServed ==
    \A n \in 1..MaxMessages :
        sent >= n ~> \/ Occurrences(served, n) = 1
                     \/ n \in lost
                     \/ ~Runs
                     \/ Deaf
                     \/ init = "hung"
                     \/ NeedsAnother(n)

\* The handler of the token request was spent on a notification.
Hijacked == init = "token" /\ ~handler /\ tokenChannel = "empty"

\* Once the editor has answered the token request, granted or not, the
\* initialize request is answered, unless a notification without id was
\* taken for the answer.
InitializeAnswered ==
    tokenRequest = "answered" ~> answered \/ Hijacked \/ ~Runs

\* A shutdown that was taken up ends the process, unless the wait for the
\* token took it; a second shutdown that blocks the loop does not matter.
ShutdownExits == shutdown = 1 ~> ~Runs \/ stolen

\* What the log line of handleMessage says ("responding with empty
\* response"): a request whose handler panicked is answered.
PanicsAnswered == panicked \subseteq responses
=============================================================================
