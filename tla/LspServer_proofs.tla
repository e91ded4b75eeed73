-------------------------- MODULE LspServer_proofs ---------------------------
(* What TLAPS proves of LspServer, for any number of messages.             *)
EXTENDS LspServer, SequenceTheorems, TLAPS

-----------------------------------------------------------------------------
(* The queues                                                              *)

In(queue) == {queue[k] : k \in 1..Len(queue)}

\* The messages of a queue are in the order in which they were sent.
Ascending(queue) ==
    \A i, j \in 1..Len(queue) : i < j => queue[i].n < queue[j].n

\* All of one queue was sent before all of another.
Before(queue, other) == \A a \in In(queue), b \in In(other) : a.n < b.n

\* The way of a message: stdin, put aside, about to be handled, handled.
Ordered ==
    /\ Ascending(served) /\ Ascending(batch) /\ Ascending(pending) /\ Ascending(inbox)
    /\ Before(served, batch) /\ Before(served, pending) /\ Before(served, inbox)
    /\ Before(batch, pending) /\ Before(batch, inbox) /\ Before(pending, inbox)
    /\ \A m \in In(served) \cup In(batch) \cup In(pending) \cup In(inbox) : m.n \in 1..sent

Waiting == In(batch) \cup In(pending) \cup In(inbox)

\* The handshake: `initialize` is the first message and there is no other,
\* and the editor ends the handshake when the goroutine has answered it.
Handshake ==
    /\ editor = "new" => sent = 0 /\ init = "none"
    /\ \A m \in Waiting : m.kind = "initialize" => m.n = 1 /\ init = "none"
    /\ tokenRequest = "sent" => editor # "new"
    /\ answered => init \in {"index", "finish", "hung", "done"}
    /\ editor = "initialized" => answered

\* `initialized` is on its way to the loop, ahead of all features.
ClosesFirst ==
    \E m \in In(batch) \cup In(inbox) :
        /\ m.kind = "initialized"
        /\ \A f \in In(batch) \cup In(inbox) : f.kind \in Features => m.n < f.n

\* The gate: a feature is past it only when the project has been indexed;
\* until then the gate is shut, or `initialized`, which shuts it, comes first.
Gate ==
    /\ \A m \in Waiting : m.kind \in Features => editor = "initialized"
    /\ \A m \in In(batch) \cup In(served) : m.kind \in Features => init = "done"
    /\ lspReady => init = "done" \/ pending = <<>>
    /\ lspReady /\ init # "done" /\ editor = "initialized" => ClosesFirst

\* What the slices decode to: in stdin each message is itself; one put aside
\* stays itself, or is lost and decodes to a later message or to none.
Decoded ==
    /\ \A m \in In(inbox) : m.is = m.n
    /\ \A m \in In(batch) \cup In(pending) : m.kind = "garbage" \/ m.n <= m.is
    /\ \A m \in In(served) : m.n <= m.is
    /\ \A m \in In(batch) \cup In(pending) \cup In(served) :
          Misread(m) => m.n \in lost /\ BufferIsReused

IInv == TypeOK /\ Ordered /\ Handshake /\ Gate /\ Decoded
-----------------------------------------------------------------------------
(* Queues that grow and shrink                                             *)

LEMMA QueueAppend ==
    ASSUME NEW queue \in Seq(Messages), NEW m \in Messages, Ascending(queue),
           \A a \in In(queue) : a.n < m.n
    PROVE  /\ Append(queue, m) \in Seq(Messages)
           /\ In(Append(queue, m)) = In(queue) \cup {m}
           /\ Ascending(Append(queue, m))
  <1>1. /\ Append(queue, m) \in Seq(Messages)
        /\ Len(Append(queue, m)) = Len(queue) + 1
        /\ \A k \in 1..Len(queue) : Append(queue, m)[k] = queue[k]
        /\ Append(queue, m)[Len(queue) + 1] = m
        /\ Len(queue) \in Nat
    OBVIOUS
  <1>2. 1..(Len(queue) + 1) = (1..Len(queue)) \cup {Len(queue) + 1}
    BY <1>1
  <1>3. In(Append(queue, m)) = In(queue) \cup {m}
    BY <1>1, <1>2 DEF In
  <1>4. ASSUME NEW i \in 1..(Len(queue) + 1), NEW j \in 1..(Len(queue) + 1), i < j
        PROVE  Append(queue, m)[i].n < Append(queue, m)[j].n
    <2>1. i \in 1..Len(queue)
      BY <1>1, <1>4
    <2>2. CASE j = Len(queue) + 1
      BY <1>1, <2>1, <2>2 DEF In
    <2>3. CASE j \in 1..Len(queue)
      BY <1>1, <1>4, <2>1, <2>3 DEF Ascending
    <2> QED
      BY <1>2, <2>2, <2>3
  <1> QED
    BY <1>1, <1>3, <1>4 DEF Ascending

LEMMA QueueTail ==
    ASSUME NEW queue \in Seq(Messages), queue # <<>>, Ascending(queue)
    PROVE  /\ Head(queue) \in Messages /\ Tail(queue) \in Seq(Messages)
           /\ In(queue) = {Head(queue)} \cup In(Tail(queue))
           /\ Ascending(Tail(queue))
           /\ \A a \in In(Tail(queue)) : Head(queue).n < a.n
  <1>1. /\ Head(queue) \in Messages /\ Tail(queue) \in Seq(Messages)
        /\ Len(queue) \in Nat \ {0} /\ Head(queue) = queue[1]
        /\ Len(Tail(queue)) = Len(queue) - 1
        /\ \A k \in 1..(Len(queue) - 1) : Tail(queue)[k] = queue[k + 1]
    OBVIOUS
  <1>2. \A k \in 1..(Len(queue) - 1) : k + 1 \in 1..Len(queue) /\ 1 < k + 1
    BY <1>1
  <1>3. \A k \in 1..Len(queue) : k = 1 \/ (k - 1 \in 1..(Len(queue) - 1) /\ (k - 1) + 1 = k)
    BY <1>1
  <1>4. In(queue) \subseteq {Head(queue)} \cup In(Tail(queue))
    <2> SUFFICES ASSUME NEW k \in 1..Len(queue)
                 PROVE  queue[k] \in {Head(queue)} \cup In(Tail(queue))
      BY DEF In
    <2>1. CASE k = 1
      BY <1>1, <2>1
    <2>2. CASE k # 1
      <3>1. PICK l \in 1..(Len(queue) - 1) : l + 1 = k
        BY <1>3, <2>2
      <3> QED
        BY <1>1, <3>1 DEF In
    <2> QED
      BY <2>1, <2>2
  <1>5. {Head(queue)} \cup In(Tail(queue)) \subseteq In(queue)
    BY <1>1, <1>2 DEF In
  <1>6. Ascending(Tail(queue))
    <2> SUFFICES ASSUME NEW i \in 1..(Len(queue) - 1), NEW j \in 1..(Len(queue) - 1), i < j
                 PROVE  Tail(queue)[i].n < Tail(queue)[j].n
      BY <1>1 DEF Ascending
    <2>1. i + 1 \in 1..Len(queue) /\ j + 1 \in 1..Len(queue) /\ i + 1 < j + 1
      BY <1>1
    <2> QED
      BY <1>1, <2>1 DEF Ascending
  <1>7. \A a \in In(Tail(queue)) : Head(queue).n < a.n
    BY <1>1, <1>2 DEF Ascending, In
  <1> QED
    BY <1>1, <1>4, <1>5, <1>6, <1>7

LEMMA EmptyQueue ==
    /\ <<>> \in Seq(Messages) /\ In(<<>>) = {} /\ Ascending(<<>>)
    /\ \A queue \in Seq(Messages) : In(queue) = {} => queue = <<>>
  <1>1. <<>> \in Seq(Messages) /\ Len(<<>>) = 0
    OBVIOUS
  <1>2. \A queue \in Seq(Messages) : queue # <<>> => 1 \in 1..Len(queue)
    OBVIOUS
  <1> QED
    BY <1>1, <1>2 DEF In, Ascending

\* What is left of the messages put aside: each is itself, garbage, or a
\* message of the inbox in its place.
LEMMA QueueReused ==
    ASSUME NEW queue \in Seq(Messages), inbox \in Seq(Messages), Ascending(queue),
           NEW left \in Reused(queue)
    PROVE  /\ left \in Seq(Messages) /\ Ascending(left)
           /\ \A b \in In(left) : \E a \in In(queue) :
                 /\ b.n = a.n
                 /\ \/ b = a
                    \/ b.kind = "garbage" /\ BufferIsReused
                    \/ BufferIsReused /\ \E c \in In(inbox) : b.is = c.is /\ b.kind = c.kind
           /\ queue = <<>> => left = <<>>
  <1> DEFINE Stays(a, b) ==
        /\ b \in Messages /\ b.n = a.n
        /\ \/ b = a
           \/ b.kind = "garbage" /\ BufferIsReused
           \/ BufferIsReused /\ \E c \in In(inbox) : b.is = c.is /\ b.kind = c.kind
  <1>0. /\ DOMAIN queue = 1..Len(queue) /\ Len(queue) \in Nat
        /\ \A k \in 1..Len(queue) : queue[k] \in Messages
        /\ \A k \in 1..Len(inbox) : inbox[k] \in Messages
        /\ Range(inbox) = In(inbox)
    BY DEF Range, In
  <1>1. /\ DOMAIN left = 1..Len(queue)
        /\ \A k \in 1..Len(queue) : Stays(queue[k], left[k])
    <2>1. CASE ~BufferIsReused
      BY <1>0, <2>1 DEF Reused
    <2>2. CASE BufferIsReused
      <3>1. /\ left \in [DOMAIN queue -> UNION {Becomes(slice) : slice \in Range(queue)}]
            /\ \A i \in DOMAIN queue : left[i] \in Becomes(queue[i])
        BY <2>2 DEF Reused
      <3>2. ASSUME NEW k \in 1..Len(queue) PROVE Stays(queue[k], left[k])
        <4>1. left[k] \in Becomes(queue[k]) /\ queue[k] \in Messages
          BY <1>0, <3>1
        <4>2. CASE left[k] = queue[k]
          BY <4>1, <4>2
        <4>3. CASE left[k] = [n |-> queue[k].n, is |-> 0, kind |-> "garbage"]
          <5>1. left[k].n = queue[k].n /\ left[k].kind = "garbage"
            BY <4>3
          <5>2. left[k] \in Messages
            BY <4>1, <4>3 DEF Messages
          <5> QED
            BY <2>2, <5>1, <5>2
        <4>4. CASE \E c \in In(inbox) : left[k] = [n |-> queue[k].n, is |-> c.is, kind |-> c.kind]
          <5>1. PICK c \in In(inbox) : left[k] = [n |-> queue[k].n, is |-> c.is, kind |-> c.kind]
            BY <4>4
          <5>2. c \in Messages
            BY <1>0 DEF In
          <5>3. /\ left[k].n = queue[k].n /\ left[k].is = c.is /\ left[k].kind = c.kind
                /\ left[k] \in Messages
            BY <4>1, <5>1, <5>2 DEF Messages
          <5> QED
            BY <2>2, <5>1, <5>3
        <4> HIDE DEF Stays
        <4> QED
          BY <1>0, <4>1, <4>2, <4>3, <4>4 DEF Becomes
      <3> QED
        BY <1>0, <3>1, <3>2
    <2> QED
      BY <2>1, <2>2
  <1>2. left \in Seq(Messages) /\ Len(left) = Len(queue)
    <2>1. \A k \in 1..Len(queue) : left[k] \in Messages
      BY <1>1
    <2>2. left = [k \in 1..Len(queue) |-> left[k]]
      <3>1. CASE ~BufferIsReused
        BY <1>0, <3>1 DEF Reused
      <3>2. CASE BufferIsReused
        BY <1>0, <3>2 DEF Reused
      <3> QED
        BY <3>1, <3>2
    <2>3. left \in [1..Len(queue) -> Messages]
      BY <2>1, <2>2
    <2> QED
      BY <1>0, <2>3
  <1>3. Ascending(left)
    BY <1>1, <1>2 DEF Ascending
  <1>4. ASSUME NEW b \in In(left)
        PROVE  \E a \in In(queue) : Stays(a, b)
    <2>1. PICK k \in 1..Len(queue) : b = left[k]
      BY <1>2 DEF In
    <2>2. queue[k] \in In(queue) /\ Stays(queue[k], b)
      BY <1>1, <2>1 DEF In
    <2> QED
      BY <2>2
  <1>5. queue = <<>> => left = <<>>
    BY <1>0, <1>2
  <1> QED
    BY <1>2, <1>3, <1>4, <1>5
-----------------------------------------------------------------------------
(* What the steps do                                                       *)

Handler ==
    \/ HandleInitialize \/ HandleInitialized \/ HandleShutdown \/ HandleTokenAnswer
    \/ HandleOther \/ HandleChange \/ HandleRequest \/ RequestPanics \/ HandleGarbage

\* The editor's step puts one message into the inbox.
LEMMA EditorSends ==
    ASSUME EditorStep
    PROVE  \E kind \in Kinds :
              /\ sent' = sent + 1
              /\ inbox' = Append(inbox, [n |-> sent + 1, is |-> sent + 1, kind |-> kind])
              /\ UNCHANGED <<answered, lspReady, pending, batch, served, lost, panicked,
                             responses, late, init, handler, tokenChannel, mainVars>>
              /\ kind = "initialize" => editor = "new"
              /\ editor = "new" => editor' = "initializing" \/ tokenRequest = "sent"
              /\ kind \in Features => editor = "initialized"
              /\ \/ UNCHANGED editor
                 \/ editor' = "initializing" /\ editor = "new"
                 \/ editor' = "initialized" /\ kind = "initialized" /\ answered
              /\ tokenRequest' \in {tokenRequest, "answered"}
  <1> USE DEF Send, Kinds, Features, Early, initVars
  <1>1. CASE EditorInitialize
    BY <1>1 DEF EditorInitialize
  <1>2. CASE EditorAnswersToken
    BY <1>2 DEF EditorAnswersToken
  <1>3. CASE EditorInitialized
    BY <1>3 DEF EditorInitialized
  <1>4. CASE EditorEarly
    BY <1>4, ServerAssumption DEF EditorEarly
  <1>5. CASE EditorUses
    BY <1>5 DEF EditorUses
  <1> QED
    BY <1>1, <1>2, <1>3, <1>4, <1>5 DEF EditorStep

\* A handler takes the first message of the batch; only `initialize` and
\* `initialized` touch the gate.
LEMMA HandlerServes ==
    ASSUME Handler
    PROVE  /\ batch # <<>> /\ batch' = Tail(batch)
           /\ UNCHANGED <<editorVars, inbox, pending>>
           /\ lost' = lost
           /\ \/ served' = Append(served, Now) /\ Now.kind # "garbage"
              \/ served' = served /\ Now.kind = "garbage"
           /\ init' = IF Now.kind = "initialize" THEN "create" ELSE init
           /\ lspReady' = IF Now.kind = "initialized" THEN FALSE ELSE lspReady
  <1> USE DEF Handling, Serve, initVars
  <1>1. CASE HandleInitialize
    BY <1>1 DEF HandleInitialize
  <1>2. CASE HandleInitialized
    BY <1>2 DEF HandleInitialized
  <1>3. CASE HandleShutdown
    BY <1>3 DEF HandleShutdown
  <1>4. CASE HandleTokenAnswer
    BY <1>4 DEF HandleTokenAnswer
  <1>5. CASE HandleOther
    BY <1>5 DEF HandleOther
  <1>6. CASE HandleChange
    BY <1>6 DEF HandleChange
  <1>7. CASE HandleRequest
    BY <1>7 DEF HandleRequest
  <1>8. CASE RequestPanics
    BY <1>8 DEF RequestPanics
  <1>9. CASE HandleGarbage
    BY <1>9 DEF HandleGarbage
  <1> QED
    BY <1>1, <1>2, <1>3, <1>4, <1>5, <1>6, <1>7, <1>8, <1>9 DEF Handler

\* The goroutine of initialize and main leave the messages alone.
LEMMA OthersRun ==
    ASSUME InitStep \/ MainShutdown \/ UNCHANGED vars
    PROVE  /\ UNCHANGED <<sent, editor, inbox, pending, batch, served, lost>>
           /\ \/ tokenRequest' = tokenRequest
              \/ tokenRequest' = "sent" /\ init = "create"
           /\ \/ UNCHANGED <<init, answered>>
              \/ init = "create" /\ init' = "token" /\ UNCHANGED answered
              \/ init = "token" /\ init' = "respond" /\ UNCHANGED answered
              \/ init = "respond" /\ init' = "index" /\ answered'
              \/ init = "index" /\ init' \in {"finish", "hung"} /\ UNCHANGED answered
              \/ init = "finish" /\ init' = "done" /\ UNCHANGED answered
           /\ UNCHANGED lspReady \/ init' = "done"
  <1> USE DEF editorVars, loopVars
  <1>1. CASE InitCreate
    BY <1>1 DEF InitCreate
  <1>2. CASE InitToken \/ InitTokenShutdown
    BY <1>2 DEF InitToken, InitTokenShutdown
  <1>3. CASE InitRespond
    BY <1>3 DEF InitRespond
  <1>4. CASE InitIndex
    BY <1>4 DEF InitIndex
  <1>5. CASE InitFinish
    BY <1>5 DEF InitFinish
  <1>6. CASE MainShutdown \/ UNCHANGED vars
    BY <1>6 DEF MainShutdown, vars, initVars
  <1> QED
    BY <1>1, <1>2, <1>3, <1>4, <1>5, <1>6 DEF InitStep

-----------------------------------------------------------------------------
(* Types                                                                   *)

QueueTypes ==
    /\ sent \in Nat /\ inbox \in Seq(Messages) /\ pending \in Seq(Messages)
    /\ batch \in Seq(Messages) /\ served \in Seq(Messages)

\* All variables but the queues.
PlainTypes ==
    /\ editor \in {"new", "initializing", "initialized"}
    /\ tokenRequest \in {"none", "sent", "answered"}
    /\ answered \in BOOLEAN /\ lspReady \in BOOLEAN
    /\ lost \subseteq Nat /\ panicked \subseteq Nat /\ responses \subseteq Nat
    /\ late \in BOOLEAN
    /\ init \in {"none", "create", "token", "respond", "index", "finish", "hung", "done"}
    /\ handler \in BOOLEAN
    /\ tokenChannel \in {"empty", "accept", "refuse"}
    /\ shutdown \in {0, 1}
    /\ stolen \in BOOLEAN
    /\ process \in {"runs", "exited", "crashed"}

LEMMA TypeParts == TypeOK <=> QueueTypes /\ PlainTypes
  BY DEF TypeOK, QueueTypes, PlainTypes

LEMMA InitType == Init => TypeOK
  <1> SUFFICES ASSUME Init PROVE QueueTypes /\ PlainTypes
    BY TypeParts
  <1>1. <<>> \in Seq(Messages)
    BY EmptyQueue
  <1> QED
    BY <1>1 DEF Init, QueueTypes, PlainTypes

LEMMA NextQueueTypes == QueueTypes /\ Ordered /\ [Next]_vars => QueueTypes'
  <1> SUFFICES ASSUME QueueTypes, Ordered, [Next]_vars PROVE QueueTypes'
    OBVIOUS
  <1> USE DEF QueueTypes
  <1>1. CASE EditorStep
    <2>1. PICK kind \in Kinds :
            /\ sent' = sent + 1
            /\ inbox' = Append(inbox, [n |-> sent + 1, is |-> sent + 1, kind |-> kind])
            /\ UNCHANGED <<pending, batch, served>>
      BY <1>1, EditorSends
    <2>2. [n |-> sent + 1, is |-> sent + 1, kind |-> kind] \in Messages
      BY DEF Messages
    <2>3. inbox' \in Seq(Messages) /\ sent' \in Nat
      BY <2>1, <2>2
    <2> QED
      BY <2>1, <2>3
  <1>2. CASE Scan
    <2>1. PICK left \in Reused(pending) :
            /\ inbox # <<>> /\ inbox' = Tail(inbox)
            /\ \/ batch' = Append(left, Head(inbox)) /\ pending' = <<>>
               \/ pending' = Append(left, Head(inbox)) /\ batch' = batch
            /\ UNCHANGED <<sent, served>>
      BY <1>2 DEF Scan, Flush, editorVars
    <2>2. left \in Seq(Messages)
      BY QueueReused DEF Ordered
    <2>3. Head(inbox) \in Messages /\ inbox' \in Seq(Messages)
      BY <2>1, QueueTail DEF Ordered
    <2>4. Append(left, Head(inbox)) \in Seq(Messages) /\ <<>> \in Seq(Messages)
      BY <2>2, <2>3
    <2>5. batch' \in Seq(Messages) /\ pending' \in Seq(Messages)
      BY <2>1, <2>4
    <2> QED
      BY <2>1, <2>3, <2>5
  <1>3. CASE Handler
    <2>1. Now \in Messages /\ batch' \in Seq(Messages)
      BY <1>3, HandlerServes, QueueTail DEF Ordered, Now
    <2>2. Append(served, Now) \in Seq(Messages)
      BY <2>1
    <2>3. served' \in Seq(Messages)
      BY <1>3, <2>2, HandlerServes
    <2>4. UNCHANGED <<sent, inbox, pending>>
      BY <1>3, HandlerServes DEF editorVars
    <2> QED
      BY <2>1, <2>3, <2>4
  <1>4. CASE InitStep \/ MainShutdown \/ UNCHANGED vars
    BY <1>4, OthersRun
  <1> QED
    BY <1>1, <1>2, <1>3, <1>4 DEF Next, LoopStep, Handler

LEMMA NextPlainTypes == QueueTypes /\ PlainTypes /\ Ordered /\ [Next]_vars => PlainTypes'
  <1> SUFFICES ASSUME QueueTypes, PlainTypes, Ordered, [Next]_vars PROVE PlainTypes'
    OBVIOUS
  <1> USE DEF PlainTypes
  <1>1. CASE EditorStep
    <2> USE DEF Send, mainVars, initVars
    <2>1. CASE EditorInitialize \/ EditorInitialized
      BY <1>1, <2>1 DEF EditorInitialize, EditorInitialized
    <2>2. CASE EditorAnswersToken \/ EditorEarly \/ EditorUses
      BY <1>1, <2>2 DEF EditorAnswersToken, EditorEarly, EditorUses
    <2> HIDE DEF PlainTypes, Send
    <2> QED
      BY <1>1, <2>1, <2>2 DEF EditorStep
  <1>2. CASE Scan
    <2>1. PICK left \in Reused(pending) :
            lost' = lost \cup {slice.n : slice \in {m \in Range(left) : Misread(m)}}
      BY <1>2 DEF Scan
    <2>2. left \in Seq(Messages)
      BY QueueReused DEF Ordered, QueueTypes
    <2>3. \A m \in Range(left) : m.n \in Nat
      <3>1. \A k \in DOMAIN left : left[k] \in Messages
        BY <2>2
      <3> QED
        BY <3>1 DEF Range, Messages
    <2>4. lost' \subseteq Nat
      BY <2>1, <2>3
    <2>5. UNCHANGED <<editorVars, lspReady, panicked, responses, late, initVars, mainVars>>
      BY <1>2 DEF Scan
    <2> QED
      BY <2>4, <2>5 DEF editorVars, initVars, mainVars
  <1>3. CASE Handler
    <2> USE DEF Handling, Serve, editorVars, initVars, mainVars
    <2>1. CASE HandleInitialize \/ HandleInitialized
      BY <2>1 DEF HandleInitialize, HandleInitialized
    <2>2. CASE HandleShutdown \/ HandleOther \/ HandleChange
      BY <2>2 DEF HandleShutdown, HandleOther, HandleChange
    <2>3. CASE HandleTokenAnswer
      <3>1. Now.kind \in {"accept", "refuse"}
        BY <2>3 DEF HandleTokenAnswer
      <3>2. tokenChannel' \in {"empty", "accept", "refuse"} /\ handler' \in BOOLEAN
        BY <2>3, <3>1 DEF HandleTokenAnswer
      <3>3. UNCHANGED <<editorVars, lspReady, lost, panicked, responses, late, init, mainVars>>
        BY <2>3 DEF HandleTokenAnswer
      <3> QED
        BY <3>2, <3>3
    <2>4. Now.is \in Nat
      <3>1. Now \in Messages
        BY <1>3, HandlerServes, QueueTail DEF Ordered, Now, QueueTypes
      <3> QED
        BY <3>1 DEF Messages
    <2>5. CASE HandleRequest \/ RequestPanics
      BY <2>4, <2>5 DEF HandleRequest, RequestPanics
    <2>6. CASE HandleGarbage
      <3>1. process' \in {"runs", "exited", "crashed"}
        BY <2>6 DEF HandleGarbage
      <3>2. UNCHANGED <<editorVars, lspReady, lost, panicked, responses, late, initVars, shutdown, stolen>>
        BY <2>6 DEF HandleGarbage
      <3> QED
        BY <3>1, <3>2
    <2> QED
      BY <1>3, <2>1, <2>2, <2>3, <2>5, <2>6 DEF Handler
  <1>4. CASE InitStep
    <2> USE DEF editorVars, loopVars, mainVars
    <2>1. CASE InitCreate \/ InitToken \/ InitTokenShutdown
      BY <2>1 DEF InitCreate, InitToken, InitTokenShutdown
    <2>2. CASE InitRespond \/ InitIndex \/ InitFinish
      BY <2>2 DEF InitRespond, InitIndex, InitFinish
    <2> QED
      BY <1>4, <2>1, <2>2 DEF InitStep
  <1>5. CASE MainShutdown
    BY <1>5 DEF MainShutdown, editorVars, loopVars, initVars
  <1>6. CASE UNCHANGED vars
    BY <1>6 DEF vars, editorVars, loopVars, initVars, mainVars
  <1> QED
    BY <1>1, <1>2, <1>3, <1>4, <1>5, <1>6 DEF Next, LoopStep, Handler

\* Every step keeps the types.
LEMMA NextType == TypeOK /\ Ordered /\ [Next]_vars => TypeOK'
  BY TypeParts, NextQueueTypes, NextPlainTypes DEF QueueTypes, PlainTypes, TypeOK
-----------------------------------------------------------------------------
(* The order                                                               *)

\* The four queues are sequences of messages, whose numbers are numbers.
LEMMA MessageNumbers ==
    QueueTypes =>
      \A m \in In(served) \cup In(batch) \cup In(pending) \cup In(inbox) :
        m \in Messages /\ m.n \in Nat
  <1> SUFFICES ASSUME QueueTypes, NEW queue \in {served, batch, pending, inbox}, NEW m \in In(queue)
               PROVE  m \in Messages /\ m.n \in Nat
    OBVIOUS
  <1>1. queue \in Seq(Messages)
    BY DEF QueueTypes
  <1>2. \A k \in 1..Len(queue) : queue[k] \in Messages
    BY <1>1
  <1> QED
    BY <1>2 DEF In, Messages

\* What the editor sends is the newest message.
LEMMA EditorOrder ==
    ASSUME QueueTypes, Ordered, EditorStep
    PROVE  Ordered'
  <1>1. PICK kind \in Kinds :
          /\ sent' = sent + 1
          /\ inbox' = Append(inbox, [n |-> sent + 1, is |-> sent + 1, kind |-> kind])
          /\ UNCHANGED <<pending, batch, served>>
    BY EditorSends
  <1> DEFINE m == [n |-> sent + 1, is |-> sent + 1, kind |-> kind]
  <1>2. m \in Messages /\ m.n = sent + 1
    BY DEF Messages, QueueTypes
  <1>3. /\ \A a \in In(served) \cup In(batch) \cup In(pending) \cup In(inbox) :
              a.n < m.n /\ a.n \in 1..sent'
        /\ m.n \in 1..sent'
    BY <1>1, <1>2 DEF Ordered, QueueTypes
  <1> HIDE DEF m
  <1>4. In(inbox') = In(inbox) \cup {m} /\ Ascending(inbox')
    BY <1>1, <1>2, <1>3, QueueAppend DEF Ordered, QueueTypes, m
  <1> QED
    BY <1>1, <1>3, <1>4 DEF Ordered, Before

\* The message that the loop reads comes after all it has put aside.
LEMMA ScanOrder ==
    ASSUME QueueTypes, Ordered, Scan
    PROVE  /\ Ordered'
           /\ \E m \in In(inbox) :
                /\ In(inbox) = {m} \cup In(inbox') /\ \A a \in In(inbox') : m.n < a.n
                /\ UNCHANGED <<served, sent>> /\ In(batch) = {}
                /\ \E left \in Reused(pending) :
                     IF lspReady THEN In(batch') = In(left) \cup {m} /\ pending' = <<>>
                     ELSE In(pending') = In(left) \cup {m} /\ batch' = batch
  <1>1. PICK left \in Reused(pending) :
          /\ inbox # <<>> /\ inbox' = Tail(inbox) /\ batch = <<>>
          /\ IF lspReady THEN batch' = Append(left, Head(inbox)) /\ pending' = <<>>
             ELSE pending' = Append(left, Head(inbox)) /\ batch' = batch
          /\ UNCHANGED <<sent, served>>
    BY DEF Scan, Flush, editorVars
  <1> DEFINE m == Head(inbox)
             longer == Append(left, m)
  <1>2. /\ m \in Messages /\ In(inbox) = {m} \cup In(inbox') /\ Ascending(inbox')
        /\ \A a \in In(inbox') : m.n < a.n
    BY <1>1, QueueTail DEF Ordered, QueueTypes
  <1>3. /\ left \in Seq(Messages) /\ Ascending(left)
        /\ \A b \in In(left) : \E a \in In(pending) : b.n = a.n
    BY QueueReused DEF Ordered, QueueTypes
  <1> HIDE DEF m
  <1>4. \A b \in In(left) : b.n < m.n
    BY <1>2, <1>3 DEF Ordered, Before
  <1>5. In(longer) = In(left) \cup {m} /\ Ascending(longer)
    BY <1>2, <1>3, <1>4, QueueAppend
  <1>6. longer = Append(left, Head(inbox))
    BY DEF m
  <1> HIDE DEF longer
  <1>7. \A b \in In(longer) :
          /\ b.n \in 1..sent
          /\ \A a \in In(served) : a.n < b.n
          /\ \A a \in In(inbox') : b.n < a.n
    BY <1>2, <1>3, <1>5 DEF Ordered, Before
  <1>8. /\ \A a \in In(served) \cup In(inbox') : a.n \in 1..sent
        /\ \A a \in In(served), b \in In(inbox') : a.n < b.n
    BY <1>2 DEF Ordered, Before
  <1>9. In(<<>>) = {} /\ Ascending(<<>>)
    BY EmptyQueue
  <1>10. Ordered'
    <2>1. CASE lspReady
      <3>1. batch' = longer /\ pending' = <<>> /\ UNCHANGED <<sent, served>>
        BY <1>1, <1>6, <2>1
      <3> QED
        BY <1>2, <1>5, <1>7, <1>8, <1>9, <3>1 DEF Ordered, Before
    <2>2. CASE ~lspReady
      <3>1. pending' = longer /\ batch' = <<>> /\ UNCHANGED <<sent, served>>
        BY <1>1, <1>6, <2>2
      <3> QED
        BY <1>2, <1>5, <1>7, <1>8, <1>9, <3>1 DEF Ordered, Before
    <2> QED
      BY <2>1, <2>2
  <1>11. IF lspReady THEN In(batch') = In(left) \cup {m} /\ pending' = <<>>
         ELSE In(pending') = In(left) \cup {m} /\ batch' = batch
    BY <1>1, <1>5, <1>6
  <1> QED
    BY <1>1, <1>2, <1>9, <1>10, <1>11

\* The message that is handled comes after all that were.
LEMMA HandlerOrder ==
    ASSUME QueueTypes, Ordered, Handler
    PROVE  /\ Ordered'
           /\ In(batch) = {Now} \cup In(batch') /\ \A a \in In(batch') : Now.n < a.n
           /\ \/ served' = Append(served, Now) /\ In(served') = In(served) \cup {Now}
              \/ served' = served
           /\ Now \in Messages
  <1>1. /\ batch # <<>> /\ batch' = Tail(batch)
        /\ UNCHANGED <<sent, inbox, pending>>
        /\ served' = Append(served, Now) \/ served' = served
    BY HandlerServes DEF editorVars
  <1>2. /\ Now \in Messages /\ In(batch) = {Now} \cup In(batch') /\ Ascending(batch')
        /\ \A a \in In(batch') : Now.n < a.n
    BY <1>1, QueueTail DEF Ordered, QueueTypes, Now
  <1>3. \A a \in In(served) : a.n < Now.n
    BY <1>2 DEF Ordered, Before
  <1>4. \/ /\ served' = Append(served, Now)
           /\ In(served') = In(served) \cup {Now} /\ Ascending(served')
        \/ served' = served
    BY <1>1, <1>2, <1>3, QueueAppend DEF Ordered, QueueTypes
  <1>5. Ascending(served') /\ In(served') \subseteq In(served) \cup {Now}
    BY <1>4 DEF Ordered
  <1>6. Before(served', batch') /\ Before(served', pending') /\ Before(served', inbox')
    BY <1>1, <1>2, <1>5 DEF Ordered, Before
  <1>7. Before(batch', pending') /\ Before(batch', inbox') /\ Before(pending', inbox')
    BY <1>1, <1>2 DEF Ordered, Before
  <1>8. \A m \in In(served') \cup In(batch') \cup In(pending') \cup In(inbox') : m.n \in 1..sent'
    BY <1>1, <1>2, <1>5 DEF Ordered
  <1>9. Ordered'
    BY <1>1, <1>2, <1>5, <1>6, <1>7, <1>8 DEF Ordered
  <1> QED
    BY <1>2, <1>4, <1>9

LEMMA InitOrder == Init => Ordered
  BY EmptyQueue DEF Init, Ordered, Before

\* Every step keeps the order.
LEMMA NextOrder == QueueTypes /\ Ordered /\ [Next]_vars => Ordered'
  <1> SUFFICES ASSUME QueueTypes, Ordered, [Next]_vars PROVE Ordered'
    OBVIOUS
  <1>1. CASE InitStep \/ MainShutdown \/ UNCHANGED vars
    <2>1. UNCHANGED <<sent, inbox, pending, batch, served>>
      BY <1>1, OthersRun
    <2> QED
      BY <2>1 DEF Ordered, Before
  <1> QED
    BY <1>1, EditorOrder, ScanOrder, HandlerOrder DEF Next, LoopStep, Handler
-----------------------------------------------------------------------------
(* The handshake                                                           *)

\* What the two invariants ask of the other variables, in one place.
Ground == QueueTypes /\ PlainTypes /\ Ordered

\* The inbox after a step of the editor.
LEMMA EditorInbox ==
    ASSUME Ground, EditorStep
    PROVE  \E m \in Messages :
              /\ m.n = sent + 1 /\ In(inbox') = In(inbox) \cup {m}
              /\ m.kind = "initialize" => editor = "new"
              /\ m.kind \in Features => editor = "initialized"
              /\ editor = "new" => editor' = "initializing" \/ tokenRequest = "sent"
              /\ \/ UNCHANGED editor
                 \/ editor' = "initializing" /\ editor = "new"
                 \/ editor' = "initialized" /\ m.kind = "initialized" /\ answered
              /\ UNCHANGED <<answered, lspReady, pending, batch, served, init>>
              /\ tokenRequest' \in {tokenRequest, "answered"}
              /\ sent' = sent + 1
  <1>1. PICK kind \in Kinds :
          /\ sent' = sent + 1
          /\ inbox' = Append(inbox, [n |-> sent + 1, is |-> sent + 1, kind |-> kind])
          /\ UNCHANGED <<answered, lspReady, pending, batch, served, lost, panicked,
                         responses, late, init, handler, tokenChannel, mainVars>>
          /\ kind = "initialize" => editor = "new"
          /\ editor = "new" => editor' = "initializing" \/ tokenRequest = "sent"
          /\ kind \in Features => editor = "initialized"
          /\ \/ UNCHANGED editor
             \/ editor' = "initializing" /\ editor = "new"
             \/ editor' = "initialized" /\ kind = "initialized" /\ answered
          /\ tokenRequest' \in {tokenRequest, "answered"}
    BY EditorSends
  <1> DEFINE m == [n |-> sent + 1, is |-> sent + 1, kind |-> kind]
  <1>2. m \in Messages /\ m.n = sent + 1 /\ m.kind = kind
    BY DEF Messages, Ground, QueueTypes
  <1>3. \A a \in In(inbox) : a.n < sent + 1
    BY DEF Ground, Ordered, QueueTypes
  <1>4. inbox' = Append(inbox, m)
    BY <1>1
  <1> HIDE DEF m
  <1>5. In(inbox') = In(inbox) \cup {m}
    BY <1>2, <1>3, <1>4, QueueAppend DEF Ground, Ordered, QueueTypes
  <1> QED
    BY <1>1, <1>2, <1>5

\* A slice that waits after a turn of the loop decodes to garbage or to a
\* message that waited before, in its place or in one put aside before it.
LEMMA ScanWaiting ==
    ASSUME Ground, Scan
    PROVE  /\ UNCHANGED <<editorVars, lspReady, init, served>>
           /\ \A b \in Waiting' :
                 \/ b.kind = "garbage"
                 \/ \E a \in Waiting : b.kind = a.kind /\ (b.n = a.n \/ a.n # 1)
  <1>1. PICK m \in In(inbox), left \in Reused(pending) :
          /\ In(inbox) = {m} \cup In(inbox')
          /\ In(batch) = {}
          /\ IF lspReady THEN In(batch') = In(left) \cup {m} /\ pending' = <<>>
             ELSE In(pending') = In(left) \cup {m} /\ batch' = batch
    BY ScanOrder DEF Ground
  <1>2. ASSUME NEW b \in In(left), b.kind # "garbage"
        PROVE  \E a \in Waiting : b.kind = a.kind /\ (b.n = a.n \/ a.n # 1)
    <2>1. PICK a \in In(pending) :
            /\ b.n = a.n
            /\ b = a \/ \E c \in In(inbox) : b.is = c.is /\ b.kind = c.kind
      BY <1>2, QueueReused DEF Ground, Ordered, QueueTypes
    <2>2. CASE b = a
      BY <2>2 DEF Waiting
    <2>3. CASE b # a
      <3>1. PICK c \in In(inbox) : b.kind = c.kind
        BY <2>1, <2>3
      <3>2. a.n < c.n /\ a.n \in 1..sent
        BY DEF Ground, Ordered, Before
      <3>3. c.n # 1
        BY <3>2 DEF Ground, QueueTypes
      <3> QED
        BY <3>1, <3>3 DEF Waiting
    <2> QED
      BY <2>2, <2>3
  <1>3. Waiting' \subseteq In(inbox) \cup In(left)
    BY <1>1, EmptyQueue DEF Waiting
  <1> QED
    BY <1>2, <1>3 DEF Waiting, Scan, initVars

LEMMA NextHandshake == Ground /\ Handshake /\ [Next]_vars => Handshake'
  <1> SUFFICES ASSUME Ground, Handshake, [Next]_vars PROVE Handshake'
    OBVIOUS
  <1>1. CASE EditorStep
    <2>1. PICK m \in Messages :
            /\ m.n = sent + 1 /\ In(inbox') = In(inbox) \cup {m}
            /\ m.kind = "initialize" => editor = "new"
            /\ editor = "new" => editor' = "initializing" \/ tokenRequest = "sent"
            /\ \/ UNCHANGED editor
               \/ editor' = "initializing" /\ editor = "new"
               \/ editor' = "initialized" /\ m.kind = "initialized" /\ answered
            /\ UNCHANGED <<answered, pending, batch, init>>
            /\ tokenRequest' \in {tokenRequest, "answered"}
      BY <1>1, EditorInbox
    <2>2. Waiting' = Waiting \cup {m}
      BY <2>1 DEF Waiting
    <2>3. m.kind = "initialize" => m.n = 1 /\ init = "none"
      BY <2>1 DEF Handshake, Ground, QueueTypes
    <2>4. editor' # "new"
      BY <2>1 DEF Handshake
    <2>5. \A a \in Waiting' : a.kind = "initialize" => a.n = 1 /\ init' = "none"
      BY <2>1, <2>2, <2>3 DEF Handshake
    <2>6. answered' => init' \in {"index", "finish", "hung", "done"}
      BY <2>1 DEF Handshake
    <2>7. editor' = "initialized" => answered'
      BY <2>1 DEF Handshake
    <2> QED
      BY <2>4, <2>5, <2>6, <2>7 DEF Handshake
  <1>2. CASE Scan
    <2>1. \A a \in Waiting' : a.kind = "initialize" => a.n = 1 /\ init' = "none"
      BY <1>2, ScanWaiting DEF Handshake
    <2>2. UNCHANGED <<sent, editor, tokenRequest, answered, init>>
      BY <1>2, ScanWaiting DEF editorVars
    <2> QED
      BY <2>1, <2>2 DEF Handshake
  <1>3. CASE Handler
    <2>1. /\ In(batch) = {Now} \cup In(batch') /\ \A a \in In(batch') : Now.n < a.n
          /\ UNCHANGED <<sent, editor, tokenRequest, answered, inbox, pending>>
          /\ init' = IF Now.kind = "initialize" THEN "create" ELSE init
      BY <1>3, HandlerOrder, HandlerServes DEF Ground, editorVars
    <2>2. Now \in Waiting /\ Waiting' \subseteq Waiting
      BY <2>1 DEF Waiting
    <2>3. CASE Now.kind = "initialize"
      <3>1. Now.n = 1 /\ init = "none"
        BY <2>2, <2>3 DEF Handshake
      <3>2. \A a \in Waiting' : 1 < a.n
        BY <2>1, <3>1 DEF Waiting, Ground, Ordered, Before
      <3>3. \A a \in Waiting' : a.kind # "initialize"
        BY <2>2, <3>2 DEF Handshake
      <3>4. editor # "new"
        <4>1. Now.n \in 1..sent /\ sent \in Nat
          BY <2>1 DEF Ground, Ordered, QueueTypes
        <4> QED
          BY <4>1 DEF Handshake
      <3> QED
        BY <2>1, <3>1, <3>3, <3>4 DEF Handshake
    <2>4. CASE Now.kind # "initialize"
      BY <2>1, <2>2, <2>4 DEF Handshake
    <2> QED
      BY <2>3, <2>4
  <1>4. CASE InitStep \/ MainShutdown \/ UNCHANGED vars
    <2>1. /\ UNCHANGED <<sent, editor, inbox, pending, batch>>
          /\ \/ tokenRequest' = tokenRequest
             \/ tokenRequest' = "sent" /\ init = "create"
      BY <1>4, OthersRun
    <2>2. init = "none" => init' = "none"
      BY <1>4, OthersRun
    <2>3. /\ answered => answered'
          /\ answered' => init' \in {"index", "finish", "hung", "done"}
      BY <1>4, OthersRun DEF Handshake, Ground, PlainTypes
    <2>4. Waiting' = Waiting
      BY <2>1 DEF Waiting
    <2> QED
      BY <2>1, <2>2, <2>3, <2>4 DEF Handshake
  <1> QED
    BY <1>1, <1>2, <1>3, <1>4 DEF Next, LoopStep, Handler

-----------------------------------------------------------------------------
(* The gate                                                                *)

LEMMA NextGate == Ground /\ Handshake /\ Gate /\ [Next]_vars => Gate'
  <1> SUFFICES ASSUME Ground, Handshake, Gate, [Next]_vars PROVE Gate'
    OBVIOUS
  <1>1. CASE EditorStep
    <2>1. PICK m \in Messages :
            /\ m.n = sent + 1 /\ In(inbox') = In(inbox) \cup {m}
            /\ m.kind \in Features => editor = "initialized"
            /\ \/ UNCHANGED editor
               \/ editor' = "initializing" /\ editor = "new"
               \/ editor' = "initialized" /\ m.kind = "initialized" /\ answered
            /\ UNCHANGED <<lspReady, pending, batch, served, init>>
      BY <1>1, EditorInbox
    <2>2. Waiting' = Waiting \cup {m}
      BY <2>1 DEF Waiting
    <2>3. editor = "new" => Waiting = {}
      <3>1. \A a \in Waiting : a.n \in 1..sent
        BY DEF Ground, Ordered, Waiting
      <3> QED
        BY <3>1 DEF Handshake
    <2>4. \A a \in Waiting' : a.kind \in Features => editor' = "initialized"
      BY <2>1, <2>2, <2>3 DEF Gate, Features
    <2>5. \A a \in In(batch) \cup In(inbox) : a.n < m.n
      BY <2>1 DEF Ground, Ordered, QueueTypes
    <2>6. lspReady /\ init # "done" /\ editor' = "initialized" => ClosesFirst'
      <3> SUFFICES ASSUME lspReady, init # "done", editor' = "initialized" PROVE ClosesFirst'
        OBVIOUS
      <3>1. CASE editor = "initialized"
        <4>1. PICK c \in In(batch) \cup In(inbox) :
                /\ c.kind = "initialized"
                /\ \A f \in In(batch) \cup In(inbox) : f.kind \in Features => c.n < f.n
          BY <3>1 DEF Gate, ClosesFirst
        <4>2. c.n < m.n
          BY <2>5
        <4> QED
          BY <2>1, <4>1, <4>2 DEF ClosesFirst
      <3>2. CASE editor # "initialized"
        <4>1. m.kind = "initialized"
          BY <2>1, <3>2
        <4>2. \A f \in In(batch) \cup In(inbox') : f.kind \notin Features
          BY <2>1, <2>2, <3>2, <4>1 DEF Gate, Waiting, Features
        <4> QED
          BY <2>1, <4>1, <4>2 DEF ClosesFirst
      <3> QED
        BY <3>1, <3>2
    <2> QED
      BY <2>1, <2>4, <2>6 DEF Gate
  <1>2. CASE Scan
    <2>1. PICK m \in In(inbox), left \in Reused(pending) :
            /\ In(inbox) = {m} \cup In(inbox') /\ \A a \in In(inbox') : m.n < a.n
            /\ In(batch) = {}
            /\ IF lspReady THEN In(batch') = In(left) \cup {m} /\ pending' = <<>>
               ELSE In(pending') = In(left) \cup {m} /\ batch' = batch
      BY <1>2, ScanOrder DEF Ground
    <2>2. /\ UNCHANGED <<editor, lspReady, init, served>>
          /\ \A b \in Waiting' : b.kind = "garbage" \/ \E a \in Waiting : b.kind = a.kind
      BY <1>2, ScanWaiting DEF editorVars
    <2>3. \A a \in Waiting' : a.kind \in Features => editor' = "initialized"
      BY <2>2 DEF Gate, Features
    <2>4. ASSUME lspReady, init # "done"
          PROVE  /\ \A a \in In(batch') : a.kind \notin Features
                 /\ editor = "initialized" => ClosesFirst'
      <3>1. pending = <<>> /\ left = <<>>
        BY <2>4, QueueReused DEF Gate, Ground, Ordered, QueueTypes
      <3>2. In(batch') = {m}
        BY <2>1, <2>4, <3>1, EmptyQueue
      <3>3. In(batch') \cup In(inbox') = In(batch) \cup In(inbox)
        BY <2>1, <3>2
      <3>4. editor = "initialized" => ClosesFirst'
        BY <2>4, <3>3 DEF Gate, ClosesFirst
      <3>5. m.kind \notin Features
        <4> SUFFICES ASSUME m.kind \in Features PROVE FALSE
          OBVIOUS
        <4>1. editor = "initialized"
          BY DEF Gate, Waiting
        <4>2. PICK c \in In(batch) \cup In(inbox) : c.n < m.n
          BY <2>4, <4>1 DEF Gate, ClosesFirst
        <4>3. c = m \/ m.n < c.n
          BY <2>1
        <4>4. c.n \in Nat /\ m.n \in Nat
          BY MessageNumbers DEF Ground
        <4> QED
          BY <4>2, <4>3, <4>4
      <3> QED
        BY <3>2, <3>4, <3>5
    <2>5. \A a \in In(batch') : a.kind \in Features => init' = "done"
      BY <2>1, <2>2, <2>4 DEF Gate
    <2>6. lspReady' => init' = "done" \/ pending' = <<>>
      BY <2>1, <2>2 DEF Gate
    <2> QED
      BY <2>2, <2>3, <2>4, <2>5, <2>6 DEF Gate
  <1>3. CASE Handler
    <2>1. /\ In(batch) = {Now} \cup In(batch') /\ \A a \in In(batch') : Now.n < a.n
          /\ In(served') \subseteq In(served) \cup {Now}
          /\ UNCHANGED <<editor, inbox, pending>>
          /\ init' = IF Now.kind = "initialize" THEN "create" ELSE init
          /\ lspReady' = IF Now.kind = "initialized" THEN FALSE ELSE lspReady
      BY <1>3, HandlerOrder, HandlerServes DEF Ground, editorVars
    <2>2. Waiting' \subseteq Waiting /\ Now \in Waiting
      BY <2>1 DEF Waiting
    <2>3. \A a \in Waiting' : a.kind \in Features => editor' = "initialized"
      BY <2>1, <2>2 DEF Gate
    <2>4. Now.kind = "initialize" => init = "none" /\ editor # "initialized"
      BY <2>2 DEF Handshake
    <2>5. init = "done" => init' = "done"
      BY <2>1, <2>4
    <2>6. \A a \in In(batch') \cup In(served') : a.kind \in Features => init' = "done"
      BY <2>1, <2>5 DEF Gate
    <2>7. lspReady' => init' = "done" \/ pending' = <<>>
      BY <2>1, <2>5 DEF Gate
    <2>8. lspReady' /\ init' # "done" /\ editor' = "initialized" => ClosesFirst'
      <3> SUFFICES ASSUME lspReady', init' # "done", editor' = "initialized" PROVE ClosesFirst'
        OBVIOUS
      <3>1. PICK c \in In(batch) \cup In(inbox) :
              /\ c.kind = "initialized"
              /\ \A f \in In(batch) \cup In(inbox) : f.kind \in Features => c.n < f.n
        BY <2>1, <2>5 DEF Gate, ClosesFirst
      <3>2. c # Now
        BY <2>1, <3>1
      <3> QED
        BY <2>1, <3>1, <3>2 DEF ClosesFirst
    <2> QED
      BY <2>3, <2>6, <2>7, <2>8 DEF Gate
  <1>4. CASE InitStep \/ MainShutdown \/ UNCHANGED vars
    <2>1. /\ UNCHANGED <<editor, inbox, pending, batch, served>>
          /\ init = "done" => init' = "done"
          /\ UNCHANGED lspReady \/ init' = "done"
      BY <1>4, OthersRun
    <2> QED
      BY <2>1 DEF Gate, Waiting, ClosesFirst
  <1> QED
    BY <1>1, <1>2, <1>3, <1>4 DEF Next, LoopStep, Handler

-----------------------------------------------------------------------------
(* What the slices decode to                                               *)

\* What the loop puts aside when it reads a message, and what it loses.
LEMMA ScanDecodes ==
    ASSUME Ground, Decoded, Scan
    PROVE  /\ \A b \in In(batch') \cup In(pending') :
                 /\ b.kind = "garbage" \/ b.n <= b.is
                 /\ Misread(b) => b.n \in lost' /\ BufferIsReused
           /\ lost \subseteq lost'
  <1>1. PICK left \in Reused(pending) :
          /\ inbox # <<>> /\ batch = <<>>
          /\ IF lspReady THEN batch' = Append(left, Head(inbox)) /\ pending' = <<>>
             ELSE pending' = Append(left, Head(inbox)) /\ batch' = batch
          /\ lost' = lost \cup {slice.n : slice \in {m \in Range(left) : Misread(m)}}
    BY DEF Scan, Flush
  <1>2. /\ left \in Seq(Messages)
        /\ \A b \in In(left) : \E a \in In(pending) :
              /\ b.n = a.n
              /\ \/ b = a
                 \/ b.kind = "garbage" /\ BufferIsReused
                 \/ BufferIsReused /\ \E c \in In(inbox) : b.is = c.is /\ b.kind = c.kind
    BY QueueReused DEF Ground, Ordered, QueueTypes
  <1>3. Head(inbox) \in Messages /\ Head(inbox) \in In(inbox)
    BY <1>1, QueueTail DEF Ground, Ordered, QueueTypes
  <1>4. /\ Len(Append(left, Head(inbox))) = Len(left) + 1 /\ Len(left) \in Nat
        /\ \A k \in 1..Len(left) : Append(left, Head(inbox))[k] = left[k]
        /\ Append(left, Head(inbox))[Len(left) + 1] = Head(inbox)
    BY <1>2, <1>3
  <1>5. In(Append(left, Head(inbox))) \subseteq In(left) \cup {Head(inbox)}
    <2> SUFFICES ASSUME NEW k \in 1..(Len(left) + 1)
                 PROVE  Append(left, Head(inbox))[k] \in In(left) \cup {Head(inbox)}
      BY <1>4 DEF In
    <2>1. k \in 1..Len(left) \/ k = Len(left) + 1
      BY <1>4
    <2> QED
      BY <1>4, <2>1 DEF In
  <1>6. In(batch') \cup In(pending') \subseteq In(left) \cup {Head(inbox)}
    BY <1>1, <1>5, EmptyQueue
  <1>7. Head(inbox).is = Head(inbox).n /\ Head(inbox).n \in Nat
    BY <1>3 DEF Decoded, Messages
  <1>8. ASSUME NEW b \in In(left)
        PROVE  /\ b.kind = "garbage" \/ b.n <= b.is
               /\ Misread(b) => b.n \in lost' /\ BufferIsReused
    <2>1. PICK a \in In(pending) :
            /\ b.n = a.n
            /\ \/ b = a
               \/ b.kind = "garbage" /\ BufferIsReused
               \/ BufferIsReused /\ \E c \in In(inbox) : b.is = c.is /\ b.kind = c.kind
      BY <1>2
    <2>2. b.kind = "garbage" \/ b.n <= b.is
      <3>1. CASE b = a
        BY <3>1 DEF Decoded
      <3>2. ASSUME NEW c \in In(inbox), b.is = c.is PROVE b.n <= b.is
        <4>1. a.n < c.n /\ c.is = c.n
          BY DEF Ground, Ordered, Before, Decoded
        <4>2. a.n \in Nat /\ c.n \in Nat
          BY MessageNumbers DEF Ground
        <4> QED
          BY <2>1, <3>2, <4>1, <4>2
      <3> QED
        BY <2>1, <3>1, <3>2
    <2>3. Misread(b) => b.n \in lost'
      <3>1. b \in Range(left)
        BY <1>2 DEF In, Range
      <3> QED
        BY <1>1, <3>1
    <2>4. Misread(b) => BufferIsReused
      BY <2>1 DEF Decoded
    <2> QED
      BY <2>2, <2>3, <2>4
  <1> QED
    BY <1>1, <1>6, <1>7, <1>8 DEF Misread

LEMMA NextDecoded == Ground /\ Decoded /\ [Next]_vars => Decoded'
  <1> SUFFICES ASSUME Ground, Decoded, [Next]_vars PROVE Decoded'
    OBVIOUS
  <1>1. CASE EditorStep
    <2>1. PICK kind \in Kinds :
            /\ sent' = sent + 1
            /\ inbox' = Append(inbox, [n |-> sent + 1, is |-> sent + 1, kind |-> kind])
            /\ UNCHANGED <<pending, batch, served, lost>>
      BY <1>1, EditorSends
    <2> DEFINE m == [n |-> sent + 1, is |-> sent + 1, kind |-> kind]
    <2>2. m \in Messages /\ m.n = m.is /\ m.n = sent + 1
      BY DEF Messages, Ground, QueueTypes
    <2>3. \A a \in In(inbox) : a.n < m.n
      BY DEF Ground, Ordered, QueueTypes
    <2>4. inbox' = Append(inbox, m)
      BY <2>1
    <2> HIDE DEF m
    <2>5. In(inbox') = In(inbox) \cup {m}
      BY <2>2, <2>3, <2>4, QueueAppend DEF Ground, Ordered, QueueTypes
    <2> QED
      BY <2>1, <2>2, <2>5 DEF Decoded, Misread
  <1>2. CASE Scan
    <2>1. /\ In(inbox') \subseteq In(inbox) /\ served' = served
      BY <1>2, ScanOrder DEF Ground
    <2>2. /\ \A b \in In(batch') \cup In(pending') :
                /\ b.kind = "garbage" \/ b.n <= b.is
                /\ Misread(b) => b.n \in lost' /\ BufferIsReused
          /\ lost \subseteq lost'
      BY <1>2, ScanDecodes
    <2> QED
      BY <2>1, <2>2 DEF Decoded, Misread
  <1>3. CASE Handler
    <2>1. /\ In(batch) = {Now} \cup In(batch')
          /\ \/ In(served') = In(served) \cup {Now} /\ Now.kind # "garbage"
             \/ served' = served
          /\ UNCHANGED <<inbox, pending, lost>>
      BY <1>3, HandlerOrder, HandlerServes DEF Ground
    <2> QED
      BY <2>1 DEF Decoded, Misread
  <1>4. CASE InitStep \/ MainShutdown \/ UNCHANGED vars
    <2>1. UNCHANGED <<inbox, pending, batch, served, lost>>
      BY <1>4, OthersRun
    <2> QED
      BY <2>1 DEF Decoded, Misread
  <1> QED
    BY <1>1, <1>2, <1>3, <1>4 DEF Next, LoopStep, Handler

-----------------------------------------------------------------------------
(* The theorems                                                            *)

LEMMA InitIInv == Init => IInv
  <1> SUFFICES ASSUME Init PROVE IInv
    OBVIOUS
  <1>1. In(batch) = {} /\ In(pending) = {} /\ In(inbox) = {} /\ In(served) = {}
    BY EmptyQueue DEF Init
  <1>2. Handshake /\ Gate /\ Decoded
    BY <1>1 DEF Init, Handshake, Gate, Waiting, Decoded
  <1> QED
    BY <1>2, InitType, InitOrder DEF IInv

\* IInv is inductive.
LEMMA NextIInv == IInv /\ [Next]_vars => IInv'
  BY TypeParts, NextType, NextOrder, NextHandshake, NextGate, NextDecoded DEF IInv, Ground

LEMMA FeaturesBehindGate == IInv => FeaturesAfterIndex
  <1> SUFFICES ASSUME IInv, NEW i \in DOMAIN served, served[i].kind \in Features
               PROVE  init = "done"
    BY DEF FeaturesAfterIndex
  <1>1. served \in Seq(Messages)
    BY DEF IInv, TypeOK
  <1>2. served[i] \in In(served)
    BY <1>1 DEF In
  <1> QED
    BY <1>2 DEF IInv, Gate

\* Every variable has its type, and the channels never hold more than they
\* have room for.
THEOREM TypeCorrect == Spec => []TypeOK
  <1>1. IInv => TypeOK
    BY DEF IInv
  <1> QED
    BY <1>1, InitIInv, NextIInv, PTL DEF Spec

\* Whatever the scanner writes over, a message is handled before an earlier
\* one, or twice, only where it stands in the place of a message that is lost.
THEOREM OvertakenOnlyWhereLost == Spec => []OvertakenOnlyInLostPlaces
  <1>1. IInv => OvertakenOnlyInLostPlaces
    <2> SUFFICES ASSUME IInv, NEW i \in DOMAIN served, NEW j \in DOMAIN served, i < j,
                        ~(Misread(served[i]) /\ served[i].n \in lost)
                 PROVE  served[i].is < served[j].is
      BY DEF OvertakenOnlyInLostPlaces
    <2>1. served \in Seq(Messages) /\ i \in 1..Len(served) /\ j \in 1..Len(served)
      BY DEF IInv, TypeOK
    <2>2. served[i] \in In(served) /\ served[j] \in In(served)
      BY <2>1 DEF In
    <2>3. served[i].n < served[j].n
      BY <2>1 DEF IInv, Ordered, Ascending
    <2>4. served[i].is = served[i].n /\ served[j].n <= served[j].is
      BY <2>2 DEF IInv, Decoded, Misread
    <2>5. served[i].n \in Nat /\ served[j].n \in Nat /\ served[j].is \in Nat
      <3>1. served[i] \in Messages /\ served[j] \in Messages
        BY <2>1
      <3> QED
        BY <3>1 DEF Messages
    <2> QED
      BY <2>3, <2>4, <2>5
  <1> QED
    BY <1>1, InitIInv, NextIInv, PTL DEF Spec

\* No handler of didOpen, didChange, hover and the like ever runs while the
\* goroutine of initialize builds the state they use, whatever the editor
\* sends early and whenever `initialized` comes.
THEOREM GateHolds == Spec => []FeaturesAfterIndex
  BY InitIInv, NextIInv, FeaturesBehindGate, PTL DEF Spec

-----------------------------------------------------------------------------
(* The refinement of OrderedService                                        *)

Numbers(queue) == [i \in DOMAIN queue |-> queue[i].is]

LEMMA NumbersOf ==
    ASSUME NEW queue \in Seq(Messages)
    PROVE  /\ Numbers(queue) \in Seq(Nat) /\ Len(Numbers(queue)) = Len(queue)
           /\ \A i \in 1..Len(queue) : Numbers(queue)[i] = queue[i].is
  <1>1. DOMAIN queue = 1..Len(queue) /\ Len(queue) \in Nat
    OBVIOUS
  <1>2. \A i \in 1..Len(queue) : queue[i].is \in Nat
    <2>1. \A i \in 1..Len(queue) : queue[i] \in Messages
      OBVIOUS
    <2> QED
      BY <2>1 DEF Messages
  <1>3. Numbers(queue) = [i \in 1..Len(queue) |-> queue[i].is]
    BY <1>1 DEF Numbers
  <1>4. Numbers(queue) \in [1..Len(queue) -> Nat]
    BY <1>2, <1>3
  <1> QED
    BY <1>1, <1>3, <1>4

\* Handling a message adds its number to the numbers handled.
LEMMA NumbersAppend ==
    ASSUME NEW queue \in Seq(Messages), NEW m \in Messages
    PROVE  Numbers(Append(queue, m)) = Append(Numbers(queue), m.is)
  <1>1. /\ Append(queue, m) \in Seq(Messages) /\ Len(Append(queue, m)) = Len(queue) + 1
        /\ \A k \in 1..Len(queue) : Append(queue, m)[k] = queue[k]
        /\ Append(queue, m)[Len(queue) + 1] = m
        /\ Len(queue) \in Nat /\ m.is \in Nat
    BY DEF Messages
  <1> DEFINE longer == Numbers(Append(queue, m))
             numbers == Append(Numbers(queue), m.is)
  <1>2. /\ longer \in Seq(Nat) /\ Len(longer) = Len(queue) + 1
        /\ \A i \in 1..(Len(queue) + 1) : longer[i] = Append(queue, m)[i].is
    BY <1>1, NumbersOf
  <1>3. Numbers(queue) \in Seq(Nat) /\ Len(Numbers(queue)) = Len(queue)
        /\ \A i \in 1..Len(queue) : Numbers(queue)[i] = queue[i].is
    BY NumbersOf
  <1>4. /\ numbers \in Seq(Nat) /\ Len(numbers) = Len(queue) + 1
        /\ \A i \in 1..Len(queue) : numbers[i] = queue[i].is
        /\ numbers[Len(queue) + 1] = m.is
    BY <1>1, <1>3
  <1>5. ASSUME NEW i \in 1..(Len(queue) + 1) PROVE longer[i] = numbers[i]
    <2> HIDE DEF longer, numbers
    <2>1. CASE i = Len(queue) + 1
      BY <1>1, <1>2, <1>4, <2>1
    <2>2. CASE i \in 1..Len(queue)
      BY <1>1, <1>2, <1>4, <2>2
    <2> QED
      BY <1>1, <2>1, <2>2
  <1> QED
    BY <1>2, <1>4, <1>5, SeqEqual

\* Every message that is handled was sent after all that were handled before.
LEMMA HandlerOvertakesNone ==
    ASSUME QueueTypes, Ordered, Handler
    PROVE  /\ Now \in Messages /\ Now.n \in 1..sent
           /\ \A a \in In(served) : a.n < Now.n
           /\ served' = Append(served, Now) \/ served' = served
           /\ UNCHANGED sent
  <1>1. Now \in Messages /\ Now \in In(batch)
    BY HandlerOrder
  <1>2. Now.n \in 1..sent /\ \A a \in In(served) : a.n < Now.n
    BY <1>1 DEF Ordered, Before
  <1>3. served' = Append(served, Now) \/ served' = served
    BY HandlerServes
  <1>4. UNCHANGED sent
    BY HandlerServes DEF editorVars
  <1> QED
    BY <1>1, <1>2, <1>3, <1>4

\* Where nothing was misread all that was handled counts.
LEMMA AllCounts ==
    ASSUME NEW queue \in Seq(Messages), \A m \in In(queue) : ~Misread(m)
    PROVE  UpToMisread(queue) = Numbers(queue)
  <1>1. DOMAIN queue = 1..Len(queue) /\ Len(queue) \in Nat
    OBVIOUS
  <1>2. ASSUME NEW j \in DOMAIN queue PROVE \A k \in 1..j : ~Misread(queue[k])
    <2>1. \A k \in 1..j : k \in 1..Len(queue)
      BY <1>1, <1>2
    <2> QED
      BY <2>1 DEF In
  <1>3. {j \in DOMAIN queue : \A k \in 1..j : ~Misread(queue[k])} = DOMAIN queue
    BY <1>2
  <1> QED
    BY <1>3 DEF UpToMisread, Numbers

\* A slice that was misread, and what comes after it, adds nothing.
LEMMA MisreadAddsNone ==
    ASSUME NEW queue \in Seq(Messages), NEW m \in Messages,
           Misread(m) \/ \E a \in In(queue) : Misread(a)
    PROVE  UpToMisread(Append(queue, m)) = UpToMisread(queue)
  <1> DEFINE longer == Append(queue, m)
             Counts(q) == {j \in DOMAIN q : \A k \in 1..j : ~Misread(q[k])}
  <1>1. /\ DOMAIN queue = 1..Len(queue) /\ Len(queue) \in Nat
        /\ DOMAIN longer = 1..(Len(queue) + 1)
        /\ \A k \in 1..Len(queue) : longer[k] = queue[k]
        /\ longer[Len(queue) + 1] = m
    OBVIOUS
  <1> HIDE DEF longer
  <1>2. Len(queue) + 1 \notin Counts(longer)
    <2>1. PICK k \in 1..(Len(queue) + 1) : Misread(longer[k])
      BY <1>1 DEF In
    <2> QED
      BY <2>1
  <1>3. ASSUME NEW j \in 1..Len(queue) PROVE j \in Counts(longer) <=> j \in Counts(queue)
    <2>1. \A k \in 1..j : longer[k] = queue[k]
      BY <1>1
    <2>2. j \in DOMAIN queue /\ j \in DOMAIN longer
      BY <1>1
    <2> QED
      BY <2>1, <2>2
  <1>4. Counts(longer) = Counts(queue)
    <2>1. Counts(queue) \subseteq 1..Len(queue)
      BY <1>1
    <2>2. Counts(longer) \subseteq 1..(Len(queue) + 1)
      BY <1>1
    <2>3. \A j \in 1..(Len(queue) + 1) : j = Len(queue) + 1 \/ j \in 1..Len(queue)
      BY <1>1
    <2> HIDE DEF Counts
    <2> QED
      BY <1>2, <1>3, <2>1, <2>2, <2>3
  <1>5. \A i \in Counts(queue) : longer[i] = queue[i]
    BY <1>1
  <1>6. [i \in Counts(longer) |-> longer[i].is] = [i \in Counts(queue) |-> queue[i].is]
    <2> HIDE DEF Counts
    <2> QED
      BY <1>4, <1>5
  <1> QED
    BY <1>6 DEF UpToMisread, longer

LEMMA NextService ==
    QueueTypes /\ Ordered /\ Decoded /\ [Next]_vars
      => [Service!Next]_<<sent, UpToMisread(served)>>
  <1> SUFFICES ASSUME QueueTypes, Ordered, Decoded, [Next]_vars
               PROVE  Service!Next \/ UNCHANGED <<sent, UpToMisread(served)>>
    OBVIOUS
  <1>1. CASE EditorStep
    <2>1. sent' = sent + 1 /\ served' = served
      BY <1>1, EditorSends
    <2>2. Service!Send
      BY <2>1 DEF Service!Send
    <2> QED
      BY <2>2 DEF Service!Next
  <1>2. CASE Scan
    <2>1. UNCHANGED <<sent, served>>
      BY <1>2 DEF Scan, editorVars
    <2> QED
      BY <2>1
  <1>3. CASE Handler
    <2>1. /\ Now \in Messages /\ Now.n \in 1..sent
          /\ \A a \in In(served) : a.n < Now.n
          /\ served' = Append(served, Now) \/ served' = served
          /\ sent' = sent
      BY <1>3, HandlerOvertakesNone
    <2>2. CASE served' = served
      BY <2>1, <2>2
    <2>3. CASE /\ served' = Append(served, Now)
               /\ Misread(Now) \/ \E a \in In(served) : Misread(a)
      <3>1. UpToMisread(Append(served, Now)) = UpToMisread(served)
        BY <2>1, <2>3, MisreadAddsNone DEF QueueTypes
      <3> QED
        BY <2>1, <2>3, <3>1
    <2>4. CASE /\ served' = Append(served, Now)
               /\ ~Misread(Now) /\ \A a \in In(served) : ~Misread(a)
      <3>1. UpToMisread(served) = Numbers(served)
        BY <2>4, AllCounts DEF QueueTypes
      <3>2. UpToMisread(Append(served, Now)) = Numbers(Append(served, Now))
        <4>1. Append(served, Now) \in Seq(Messages)
          BY <2>1 DEF QueueTypes
        <4>2. In(Append(served, Now)) = In(served) \cup {Now}
          BY <2>1, QueueAppend DEF QueueTypes, Ordered
        <4> QED
          BY <2>4, <4>1, <4>2, AllCounts
      <3>3. UpToMisread(served') = Append(UpToMisread(served), Now.is)
        BY <2>1, <2>4, <3>1, <3>2, NumbersAppend DEF QueueTypes
      <3>4. Now.is = Now.n /\ \A a \in In(served) : a.is = a.n
        BY <2>4 DEF Misread
      <3>5. Service!Last < Now.n /\ Service!Last \in Nat
        <4>1. /\ Numbers(served) \in Seq(Nat) /\ Len(Numbers(served)) = Len(served)
              /\ \A i \in 1..Len(served) : Numbers(served)[i] = served[i].is
              /\ Len(served) \in Nat
          BY NumbersOf DEF QueueTypes
        <4>2. CASE Numbers(served) = <<>>
          BY <2>1, <3>1, <4>2 DEF Service!Last
        <4>3. CASE Numbers(served) # <<>>
          <5>1. Len(served) \in 1..Len(served)
            BY <4>1, <4>3
          <5>2. served[Len(served)] \in In(served)
            BY <5>1 DEF In
          <5>3. Service!Last = served[Len(served)].n
            BY <3>1, <3>4, <4>1, <4>3, <5>1, <5>2 DEF Service!Last
          <5>4. Service!Last \in Nat
            BY <3>4, <4>1, <5>1, <5>2, <5>3
          <5> QED
            BY <2>1, <5>2, <5>3, <5>4
        <4> QED
          BY <4>2, <4>3
      <3>6. Now.n \in (Service!Last + 1)..sent
        <4>1. sent \in Nat
          BY DEF QueueTypes
        <4> QED
          BY <2>1, <3>5, <4>1
      <3>7. Service!Serve
        BY <2>1, <3>3, <3>4, <3>6 DEF Service!Serve
      <3> QED
        BY <3>7 DEF Service!Next
    <2> QED
      BY <2>1, <2>2, <2>3, <2>4
  <1>4. CASE InitStep \/ MainShutdown \/ UNCHANGED vars
    <2>1. UNCHANGED <<sent, served>>
      BY <1>4, OthersRun
    <2> QED
      BY <2>1
  <1> QED
    BY <1>1, <1>2, <1>3, <1>4 DEF Next, LoopStep, Handler

LEMMA InitService == Init => Service!Init
  <1> SUFFICES ASSUME Init PROVE UpToMisread(<<>>) = <<>>
    BY DEF Init, Service!Init
  <1>1. <<>> \in Seq(Messages) /\ In(<<>>) = {}
    BY EmptyQueue
  <1>2. Numbers(<<>>) \in Seq(Nat) /\ Len(Numbers(<<>>)) = 0
    BY <1>1, NumbersOf
  <1>3. UpToMisread(<<>>) = Numbers(<<>>)
    BY <1>1, AllCounts
  <1> QED
    BY <1>2, <1>3

\* The server serves the messages in the order in which the editor sent them,
\* each at most once, though the loop puts some of them aside and takes them
\* up again later, until one that was overwritten is read for another: up to
\* there it implements OrderedService.
THEOREM OrderKept == Spec => ServedInOrder
  <1>1. IInv /\ [Next]_vars => [Service!Next]_<<sent, UpToMisread(served)>>
    BY NextService, TypeParts DEF IInv
  <1> QED
    BY <1>1, InitIInv, NextIInv, InitService, PTL DEF Spec, ServedInOrder, Service!Spec
=============================================================================
