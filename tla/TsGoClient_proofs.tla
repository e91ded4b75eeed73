-------------------------- MODULE TsGoClient_proofs --------------------------
(* What TLAPS proves of TsGoClient, for any callers and any bounds.        *)
EXTENDS TsGoClient, FiniteSetTheorems, TLAPS

-----------------------------------------------------------------------------
(* The programs of the callers                                             *)

\* Every program, and what is left of one.
Suffixes ==
    { <<>>,
      <<"lock", "use", "unlock", "lock", "update", "unlock", "started">>,
      <<"use", "unlock", "lock", "update", "unlock", "started">>,
      <<"unlock", "lock", "update", "unlock", "started">>,
      <<"lock", "update", "unlock", "started">>,
      <<"update", "unlock", "started">>,
      <<"unlock", "started">>,
      <<"started">>,
      <<"lock", "update", "unlock">>,
      <<"update", "unlock">>,
      <<"unlock">>,
      <<"lock", "update", "ask", "unlock">>,
      <<"update", "ask", "unlock">>,
      <<"ask", "unlock">>,
      <<"lock", "update", "unlock", "ask", "lock", "use", "unlock">>,
      <<"update", "unlock", "ask", "lock", "use", "unlock">>,
      <<"unlock", "ask", "lock", "use", "unlock">>,
      <<"ask", "lock", "use", "unlock">>,
      <<"lock", "use", "unlock">>,
      <<"use", "unlock">>,
      <<"lock", "update", "ask", "unlock", "lock", "useEarly">>,
      <<"update", "ask", "unlock", "lock", "useEarly">>,
      <<"ask", "unlock", "lock", "useEarly">>,
      <<"unlock", "lock", "useEarly">>,
      <<"lock", "useEarly">>,
      <<"useEarly">> }


\* What is left of a program, step by step.
LEMMA Discipline ==
    ASSUME NEW s \in Suffixes, s # <<>>
    PROVE  /\ Tail(s) \in Suffixes
           /\ Head(s) \in Instructions
           /\ Locked(Tail(s)) <=> \/ Head(s) = "lock"
                                  \/ Locked(s) /\ Head(s) \notin {"unlock", "useEarly"}
           /\ Tail(s) # <<>> /\ Locked(Tail(s)) /\ Head(Tail(s)) = "ask"
                  => Head(s) = "update"
  <1> USE DEF Suffixes, Locked, Instructions, Requests
  <1>1. CASE s = <<"lock", "use", "unlock", "lock", "update", "unlock", "started">>
    BY <1>1
  <1>2. CASE s = <<"use", "unlock", "lock", "update", "unlock", "started">>
    BY <1>2
  <1>3. CASE s = <<"unlock", "lock", "update", "unlock", "started">>
    BY <1>3
  <1>4. CASE s = <<"lock", "update", "unlock", "started">>
    BY <1>4
  <1>5. CASE s = <<"update", "unlock", "started">>
    BY <1>5
  <1>6. CASE s = <<"unlock", "started">>
    BY <1>6
  <1>7. CASE s = <<"started">>
    BY <1>7
  <1>8. CASE s = <<"lock", "update", "unlock">>
    BY <1>8
  <1>9. CASE s = <<"update", "unlock">>
    BY <1>9
  <1>10. CASE s = <<"unlock">>
    BY <1>10
  <1>11. CASE s = <<"lock", "update", "ask", "unlock">>
    BY <1>11
  <1>12. CASE s = <<"update", "ask", "unlock">>
    BY <1>12
  <1>13. CASE s = <<"ask", "unlock">>
    BY <1>13
  <1>14. CASE s = <<"lock", "update", "unlock", "ask", "lock", "use", "unlock">>
    BY <1>14
  <1>15. CASE s = <<"update", "unlock", "ask", "lock", "use", "unlock">>
    BY <1>15
  <1>16. CASE s = <<"unlock", "ask", "lock", "use", "unlock">>
    BY <1>16
  <1>17. CASE s = <<"ask", "lock", "use", "unlock">>
    BY <1>17
  <1>18. CASE s = <<"lock", "use", "unlock">>
    BY <1>18
  <1>19. CASE s = <<"use", "unlock">>
    BY <1>19
  <1>20. CASE s = <<"lock", "update", "ask", "unlock", "lock", "useEarly">>
    BY <1>20
  <1>21. CASE s = <<"update", "ask", "unlock", "lock", "useEarly">>
    BY <1>21
  <1>22. CASE s = <<"ask", "unlock", "lock", "useEarly">>
    BY <1>22
  <1>23. CASE s = <<"unlock", "lock", "useEarly">>
    BY <1>23
  <1>24. CASE s = <<"lock", "useEarly">>
    BY <1>24
  <1>25. CASE s = <<"useEarly">>
    BY <1>25
  <1> QED
    BY <1>1, <1>2, <1>3, <1>4, <1>5, <1>6, <1>7, <1>8, <1>9, <1>10, <1>11, <1>12,
       <1>13, <1>14, <1>15, <1>16, <1>17, <1>18, <1>19, <1>20, <1>21, <1>22,
       <1>23, <1>24, <1>25

\* Callers begin at a program's start, without the mutex.
LEMMA ProgramStart ==
    ASSUME NEW s \in {Start} \cup Features
    PROVE  /\ s \in Suffixes
           /\ s \in Seq(Instructions)
           /\ s # <<>> /\ Head(s) = "lock"
           /\ ~Locked(s)
  <1> USE DEF Suffixes, Locked, Instructions, Requests
  <1>1. CASE s = Start
    BY <1>1 DEF Start
  <1>2. CASE s = Sync
    BY <1>2 DEF Sync
  <1>3. CASE s = Diagnostics
    BY <1>3 DEF Diagnostics
  <1>4. CASE s = Hover
    BY <1>4 DEF Hover
  <1>5. CASE s = Definition
    BY <1>5 DEF Definition
  <1> QED
    BY <1>1, <1>2, <1>3, <1>4, <1>5 DEF Features

-----------------------------------------------------------------------------
(* Types                                                                   *)

\* A caller is somewhere in one of the programs, and between two
\* instructions unless the next one is a request.
Placed(c) == /\ todo[c] \in Suffixes
             /\ pc[c] # "next" => todo[c] # <<>> /\ Head(todo[c]) \in Requests

InProgram == \A c \in Callers : Placed(c)

\* A caller's next instruction leaves a program and a well-typed counter.
LEMMA AdvanceType ==
    ASSUME TypeOK, NEW c \in Callers, todo[c] # <<>>, Advance(c)
    PROVE  /\ todo' \in [Callers -> Seq(Instructions)]
           /\ pc' \in [Callers -> {"next", "write", "register", "wait", "parse"}]
  BY DEF TypeOK, Advance

\* A message that leaves a pipe was in it, and what stays is a pipe.
LEMMA PipeTail ==
    ASSUME NEW T, NEW q \in Seq(T), q # <<>>
    PROVE  Head(q) \in T /\ Tail(q) \in Seq(T)
  OBVIOUS

\* The initial state is well typed.
LEMMA InitType == Init => TypeOK
  <1> SUFFICES ASSUME Init PROVE TypeOK
    OBVIOUS
  <1>1. <<>> \in Seq(Instructions) /\ <<>> \in Seq(ToServer) /\ <<>> \in Seq(FromServer)
    OBVIOUS
  <1> QED
    BY <1>1 DEF Init, TypeOK

\* Every step keeps the types.
LEMMA NextType == TypeOK /\ InProgram /\ [Next]_vars => TypeOK'
  <1> SUFFICES ASSUME TypeOK, InProgram, [Next]_vars PROVE TypeOK'
    OBVIOUS
  <1> USE ClientAssumption
  <1>1. ASSUME NEW c \in Callers, Begin(c) PROVE TypeOK'
    BY <1>1, ProgramStart DEF Begin, TypeOK, client, server
  <1>2. ASSUME NEW c \in Callers, Lock(c) PROVE TypeOK'
    BY <1>2, AdvanceType DEF Lock, At, TypeOK, server
  <1>3. ASSUME NEW c \in Callers, Unlock(c) PROVE TypeOK'
    BY <1>3, AdvanceType DEF Unlock, At, TypeOK, server
  <1>4. ASSUME NEW c \in Callers, Started(c) PROVE TypeOK'
    BY <1>4, AdvanceType DEF Started, At, TypeOK, server
  <1>5. ASSUME NEW c \in Callers, Build(c) PROVE TypeOK'
    <2>1. id' \in [Callers -> Nat] /\ nextId' \in Nat
      BY <1>5 DEF Build, IdAfterDraw, TypeOK
    <2>2. asked' \in [Callers -> Nat]
      BY <1>5 DEF Build, TypeOK
    <2>3. pc' \in [Callers -> {"next", "write", "register", "wait", "parse"}]
      BY <1>5 DEF Build, TypeOK
    <2> QED
      BY <1>5, <2>1, <2>2, <2>3 DEF Build, TypeOK, server
  <1>6. ASSUME NEW c \in Callers, Write(c) PROVE TypeOK'
    <2>1. stdin' \in Seq(ToServer)
      BY <1>6 DEF Write, TypeOK, Message, ToServer
    <2> QED
      BY <1>6, <2>1 DEF Write, TypeOK, client, server
  <1>7. ASSUME Crash PROVE /\ todo' \in [Callers -> Seq(Instructions)]
                          /\ pc' \in [Callers -> {"next", "write", "register", "wait", "parse"}]
                          /\ reader' \in {"scan", "callback", "stuck", "gone"}
                          /\ answering' \subseteq {"inline", "goroutine"} \X Nat
                          /\ running' \in BOOLEAN
    <2>1. <<>> \in Seq(Instructions)
      OBVIOUS
    <2> QED
      BY <1>7, <2>1 DEF Crash
  <1>8. ASSUME NEW c \in Callers, WriteFails(c) PROVE TypeOK'
    <2>1. <<>> \in Seq(Instructions)
      OBVIOUS
    <2> QED
      BY <1>8, <2>1 DEF WriteFails, TypeOK, server
  <1>9. ASSUME NEW c \in Callers, WriteFailsAtStart(c) PROVE TypeOK'
    BY <1>9, <1>7 DEF WriteFailsAtStart, TypeOK, client, server
  <1>10. ASSUME NEW c \in Callers, Register(c) PROVE TypeOK'
    BY <1>10 DEF Register, TypeOK, server
  <1>11. ASSUME NEW c \in Callers, Receive(c) PROVE TypeOK'
    BY <1>11 DEF Receive, TypeOK, client, server
  <1>12. ASSUME NEW c \in Callers, Parse(c) PROVE TypeOK'
    <2>1. PICK m \in channel :
            /\ m.id = id[c]
            /\ channel' = channel \ {m}
            /\ \E legible \in {TRUE, ~torn[c]} :
                 snapshot' = IF At(c, "update") /\ legible /\ m.snap # 0
                             THEN m.snap ELSE snapshot
            /\ own' = IF At(c, "update") THEN [own EXCEPT ![c] = snapshot'] ELSE own
            /\ minted' = IF At(c, "ask") THEN [minted EXCEPT ![c] = m.snap] ELSE minted
      BY <1>12 DEF Parse
    <2>2. m.snap \in Nat
      BY DEF TypeOK, FromServer
    <2>3. snapshot' \in Nat
      BY <2>1, <2>2 DEF TypeOK
    <2>4. own' \in [Callers -> Nat] /\ minted' \in [Callers -> Nat]
      BY <2>1, <2>2, <2>3 DEF TypeOK
    <2>5. todo[c] # <<>>
      BY <1>12 DEF Parse, InProgram, Placed
    <2>6. torn' \in [Callers -> BOOLEAN] /\ channel' \subseteq FromServer
      BY <1>12, <2>1 DEF Parse, TypeOK
    <2> QED
      BY <1>12, <2>3, <2>4, <2>5, <2>6, AdvanceType DEF Parse, TypeOK, server
  <1>13. ASSUME Deliver PROVE TypeOK'
    BY <1>13, PipeTail DEF Deliver, Scanning, Overwrite, TypeOK, server
  <1>14. ASSUME DeliverTooEarly PROVE TypeOK'
    BY <1>14, PipeTail DEF DeliverTooEarly, Scanning, Overwrite, TypeOK, client, server
  <1>15. ASSUME DeliverTooLong PROVE TypeOK'
    BY <1>15, PipeTail DEF DeliverTooLong, Scanning, Overwrite, TypeOK, client, server
  <1>16. ASSUME TakeCallback PROVE TypeOK'
    <2>1. Head(stdout) \in FromServer /\ stdout' \in Seq(FromServer)
      BY <1>16, PipeTail DEF TakeCallback, Scanning, TypeOK
    <2>2. /\ answering' \subseteq {"inline", "goroutine"} \X Nat
          /\ reader' \in {"scan", "callback", "stuck", "gone"}
      BY <1>16, <2>1 DEF TakeCallback, TypeOK, FromServer
    <2>3. torn' \in [Callers -> BOOLEAN]
      BY <1>16 DEF TakeCallback, Overwrite, TypeOK
    <2> QED
      BY <1>16, <2>1, <2>2, <2>3 DEF TakeCallback, TypeOK, client, server
  <1>17. ASSUME ReaderEof PROVE TypeOK'
    BY <1>17 DEF ReaderEof, TypeOK, caller, client, server
  <1>18. ASSUME CallbackStep PROVE TypeOK'
    <2>1. PICK mode \in {"inline", "goroutine"}, i \in Nat :
            \/ AnswerCallback(mode, i)
            \/ InlineCallbackFails(i)
            \/ GoroutineCallbackFails
      BY <1>18 DEF CallbackStep, TypeOK
    <2>2. CASE AnswerCallback(mode, i)
      <3>1. stdin' \in Seq(ToServer)
        BY <2>2 DEF AnswerCallback, Message, ToServer, TypeOK
      <3> QED
        BY <2>2, <3>1 DEF AnswerCallback, TypeOK, caller, client, server
    <2>3. CASE InlineCallbackFails(i)
      BY <2>3 DEF InlineCallbackFails, TypeOK, caller, client, server
    <2>4. CASE GoroutineCallbackFails
      BY <2>4, <1>7 DEF GoroutineCallbackFails, TypeOK, client, server
    <2> QED
      BY <2>1, <2>2, <2>3, <2>4
  <1>19. ASSUME ServerTake PROVE TypeOK'
    <2>1. Head(stdin) \in ToServer /\ stdin' \in Seq(ToServer)
      BY <1>19, PipeTail DEF ServerTake, TypeOK
    <2>2. awaiting' \subseteq Nat /\ serving' \subseteq ToServer
      BY <1>19, <2>1 DEF ServerTake, TypeOK
    <2> QED
      BY <1>19, <2>1, <2>2 DEF ServerTake, TypeOK, caller, client
  <1>20. ASSUME ServerCallback PROVE TypeOK'
    <2>1. PICK r \in serving : /\ awaiting' = awaiting \cup {r.id}
                               /\ stdout' = Append(stdout, Message("callback", r.id, 0))
      BY <1>20 DEF ServerCallback
    <2>2. r.id \in Nat
      BY DEF TypeOK, ToServer
    <2>3. stdout' \in Seq(FromServer)
      BY <2>1, <2>2 DEF Message, FromServer, TypeOK
    <2> QED
      <3>1. awaiting' \subseteq Nat
        BY <2>1, <2>2 DEF TypeOK
      <3>2. callbacks' \in Nat
        BY <1>20 DEF ServerCallback, TypeOK
      <3> QED
        BY <1>20, <2>3, <3>1, <3>2 DEF ServerCallback, TypeOK, caller, client
  <1>21. ASSUME ServerAnswer PROVE TypeOK'
    <2>1. PICK r \in serving :
            /\ serving' = serving \ {r}
            /\ \/ made' = made + 1 /\ stdout' = Append(stdout, Message("answer", r.id, made + 1))
               \/ made' = made /\ stdout' = Append(stdout, Message("answer", r.id, 0))
               \/ made' = made /\ \E type \in {"answer", "toolong"} :
                     stdout' = Append(stdout, Message(type, r.id, r.snap))
      BY <1>21 DEF ServerAnswer
    <2>2. r.id \in Nat /\ r.snap \in Nat /\ made \in Nat
      BY DEF TypeOK, ToServer
    <2>3. ASSUME NEW type \in {"answer", "toolong"}, NEW snap \in Nat
          PROVE  Append(stdout, Message(type, r.id, snap)) \in Seq(FromServer)
      BY <2>2 DEF Message, FromServer, TypeOK
    <2>4. stdout' \in Seq(FromServer)
      BY <2>1, <2>2, <2>3
    <2>5. made' \in Nat /\ serving' \subseteq ToServer
      BY <2>1, <2>2 DEF TypeOK
    <2> QED
      BY <1>21, <2>4, <2>5 DEF ServerAnswer, TypeOK, caller, client
  <1>22. ASSUME ServerExit PROVE TypeOK'
    <2>1. <<>> \in Seq(ToServer)
      OBVIOUS
    <2> QED
      BY <1>22, <2>1 DEF ServerExit, TypeOK, caller, client
  <1>23. ASSUME UNCHANGED vars PROVE TypeOK'
    BY <1>23 DEF vars, caller, client, server, TypeOK
  <1> QED
    BY <1>1, <1>2, <1>3, <1>4, <1>5, <1>6, <1>8, <1>9, <1>10, <1>11, <1>12, <1>13,
       <1>14, <1>15, <1>16, <1>17, <1>18, <1>19, <1>20, <1>21, <1>22, <1>23
    DEF Next, CallerStep, ReaderStep

\* Every step keeps the callers in their programs.
LEMMA NextInProgram == TypeOK /\ InProgram /\ [Next]_vars => InProgram'
  <1> SUFFICES ASSUME TypeOK, InProgram, [Next]_vars, NEW d \in Callers
               PROVE  Placed(d)'
    BY DEF InProgram
  <1>1. ASSUME NEW c \in Callers, todo[c] # <<>>, Advance(c) PROVE Placed(d)'
    BY <1>1, Discipline DEF Advance, TypeOK, InProgram, Placed
  <1>2. ASSUME NEW c \in Callers, Begin(c) PROVE Placed(d)'
    BY <1>2, ProgramStart DEF Begin, TypeOK, InProgram, Placed
  <1>3. ASSUME NEW c \in Callers, Lock(c) \/ Unlock(c) \/ Started(c) \/ Parse(c)
        PROVE  todo[c] # <<>> /\ Advance(c)
    BY <1>3 DEF Lock, Unlock, Started, Parse, At, InProgram, Placed
  <1>4. ASSUME NEW c \in Callers, Build(c) PROVE Placed(d)'
    BY <1>4 DEF Build, At, TypeOK, InProgram, Placed
  <1>5. ASSUME NEW c \in Callers, Write(c) \/ Register(c) \/ Receive(c)
        PROVE  todo' = todo /\ pc[c] # "next" /\ \E here : pc' = [pc EXCEPT ![c] = here]
    BY <1>5 DEF Write, Register, Receive
  <1>6. ASSUME NEW c \in Callers, WriteFails(c) PROVE Placed(d)'
    BY <1>6 DEF WriteFails, TypeOK, InProgram, Placed, Suffixes
  <1>7. ASSUME Crash PROVE Placed(d)'
    BY <1>7 DEF Crash, Placed, Suffixes
  <1>8. ASSUME UNCHANGED <<todo, pc>> PROVE Placed(d)'
    BY <1>8 DEF InProgram, Placed
  <1>9. ASSUME NEW c \in Callers, CallerStep(c) PROVE Placed(d)'
    <2>1. CASE Write(c) \/ Register(c) \/ Receive(c)
      BY <1>5, <2>1 DEF TypeOK, InProgram, Placed
    <2> QED
      BY <1>1, <1>3, <1>4, <1>6, <1>7, <1>9, <2>1 DEF CallerStep, WriteFailsAtStart
  <1>10. ReaderStep => UNCHANGED <<todo, pc>>
    BY DEF ReaderStep, Deliver, DeliverTooEarly, DeliverTooLong, TakeCallback, ReaderEof, caller
  <1>11. CallbackStep => Crash \/ UNCHANGED <<todo, pc>>
    BY DEF CallbackStep, AnswerCallback, InlineCallbackFails, GoroutineCallbackFails, caller
  <1>12. ServerTake \/ ServerCallback \/ ServerAnswer \/ ServerExit => UNCHANGED <<todo, pc>>
    BY DEF ServerTake, ServerCallback, ServerAnswer, ServerExit, caller
  <1>13. UNCHANGED vars => UNCHANGED <<todo, pc>>
    BY DEF vars, caller
  <1> QED
    BY <1>2, <1>7, <1>8, <1>9, <1>10, <1>11, <1>12, <1>13 DEF Next

LEMMA InitInProgram == Init => InProgram
  BY DEF Init, InProgram, Placed, Suffixes

\* Type correctness, for every set of callers and every bound.
THEOREM TypeCorrect == Spec => []TypeOK
  BY InitType, NextType, InitInProgram, NextInProgram, PTL DEF Spec

-----------------------------------------------------------------------------
(* The mutex                                                               *)

\* While a caller asks under the mutex, snapshotHandle is the one its own
\* update left.
Current(c) ==
    At(c, "ask") /\ opLock = c =>
        /\ own[c] = snapshot
        /\ pc[c] # "next" => asked[c] = snapshot

OwnSnapshots == \A c \in Callers : Current(c)

\* What TypeOK says of the variables these two invariants speak of.
LEMMA CallerTypes ==
    TypeOK => /\ todo \in [Callers -> Seq(Instructions)]
              /\ pc \in [Callers -> {"next", "write", "register", "wait", "parse"}]
              /\ asked \in [Callers -> Nat]
              /\ own \in [Callers -> Nat]
              /\ opLock \in Callers \cup {NoCaller}
  BY DEF TypeOK

\* What the step to the next instruction does to the caller and to the rest.
LEMMA AdvanceLocked ==
    ASSUME TypeOK, InProgram, NEW c \in Callers, todo[c] # <<>>, Advance(c)
    PROVE  /\ pc'[c] = "next"
           /\ Locked(todo'[c]) <=> \/ Head(todo[c]) = "lock"
                                   \/ Locked(todo[c]) /\ Head(todo[c]) \notin {"unlock", "useEarly"}
           /\ todo'[c] # <<>> /\ Locked(todo'[c]) /\ Head(todo'[c]) = "ask"
                  => Head(todo[c]) = "update"
           /\ \A d \in Callers \ {c} : todo'[d] = todo[d] /\ pc'[d] = pc[d]
  <1>1. todo'[c] = Tail(todo[c])
    BY CallerTypes DEF Advance
  <1>2. pc'[c] = "next" /\ \A d \in Callers \ {c} : todo'[d] = todo[d] /\ pc'[d] = pc[d]
    BY CallerTypes DEF Advance
  <1>3. todo[c] \in Suffixes
    BY DEF InProgram, Placed
  <1> QED
    BY <1>1, <1>2, <1>3, Discipline

OtherStep == \/ ReaderStep \/ CallbackStep \/ UNCHANGED vars
             \/ ServerTake \/ ServerCallback \/ ServerAnswer \/ ServerExit

\* A step that is not a caller's leaves all callers alone, or ends them all.
LEMMA OtherSteps ==
    ASSUME OtherStep
    PROVE  /\ UNCHANGED <<opLock, snapshot, own, asked, id, nextId>>
           /\ UNCHANGED <<todo, pc>> \/ Crash
  <1>1. ReaderStep => UNCHANGED <<todo, pc, opLock, snapshot, own, asked, id, nextId>>
    BY DEF ReaderStep, Deliver, DeliverTooEarly, DeliverTooLong, TakeCallback, ReaderEof,
           caller, client
  <1>2. CallbackStep => /\ UNCHANGED <<opLock, snapshot, own, asked, id, nextId>>
                        /\ UNCHANGED <<todo, pc>> \/ Crash
    BY DEF CallbackStep, AnswerCallback, InlineCallbackFails, GoroutineCallbackFails,
           caller, client
  <1>3. ServerTake \/ ServerCallback \/ ServerAnswer \/ ServerExit
          => UNCHANGED <<todo, pc, opLock, snapshot, own, asked, id, nextId>>
    BY DEF ServerTake, ServerCallback, ServerAnswer, ServerExit, caller, client
  <1>4. UNCHANGED vars => UNCHANGED <<todo, pc, opLock, snapshot, own, asked, id, nextId>>
    BY DEF vars, caller, client
  <1> QED
    BY <1>1, <1>2, <1>3, <1>4 DEF OtherStep

\* Every step keeps the discipline of the mutex.
LEMMA NextGuarded == TypeOK /\ InProgram /\ LockDiscipline /\ [Next]_vars => LockDiscipline'
  <1> SUFFICES ASSUME TypeOK, InProgram, LockDiscipline, [Next]_vars, NEW d \in Callers
               PROVE  Guarded(d)'
    BY DEF LockDiscipline
  <1> USE ClientAssumption, CallerTypes DEF InProgram, Placed, LockDiscipline, Guarded, InSection, At
  <1>1. ASSUME NEW c \in Callers, Begin(c) PROVE Guarded(d)'
    BY <1>1, ProgramStart DEF Begin, client
  <1>2. ASSUME NEW c \in Callers, Lock(c) PROVE Guarded(d)'
    BY <1>2, AdvanceLocked DEF Lock
  <1>3. ASSUME NEW c \in Callers, Unlock(c) PROVE Guarded(d)'
    <2>1. opLock = c
      BY <1>3 DEF Unlock, Locked, Requests
    <2> QED
      BY <1>3, <2>1, AdvanceLocked DEF Unlock
  <1>4. ASSUME NEW c \in Callers, Started(c) PROVE Guarded(d)'
    <2>1. ~Locked(todo[c]) /\ opLock # c
      BY <1>4 DEF Started, Locked
    <2> QED
      BY <1>4, <2>1, AdvanceLocked DEF Started
  <1>5. ASSUME NEW c \in Callers, Build(c) PROVE Guarded(d)'
    BY <1>5 DEF Build
  <1>6. ASSUME NEW c \in Callers, Write(c) PROVE Guarded(d)'
    BY <1>6 DEF Write, client
  <1>7. ASSUME NEW c \in Callers, WriteFails(c) PROVE Guarded(d)'
    BY <1>7 DEF WriteFails, Deferred, Locked
  <1>8. ASSUME Crash, UNCHANGED opLock PROVE Guarded(d)'
    BY <1>8 DEF Crash, Locked
  <1>9. ASSUME NEW c \in Callers, WriteFailsAtStart(c) PROVE Guarded(d)'
    BY <1>8, <1>9 DEF WriteFailsAtStart, client
  <1>10. ASSUME NEW c \in Callers, Register(c) PROVE Guarded(d)'
    BY <1>10 DEF Register, Locked
  <1>11. ASSUME NEW c \in Callers, Receive(c) PROVE Guarded(d)'
    BY <1>11 DEF Receive, client
  <1>12. ASSUME NEW c \in Callers, Parse(c) PROVE Guarded(d)'
    BY <1>12, AdvanceLocked DEF Parse, Requests
  <1>13. ASSUME UNCHANGED <<todo, pc, opLock>> PROVE Guarded(d)'
    BY <1>13
  <1> QED
    BY <1>1, <1>2, <1>3, <1>4, <1>5, <1>6, <1>7, <1>8, <1>9, <1>10, <1>11, <1>12,
       <1>13, OtherSteps
    DEF Next, CallerStep, OtherStep

\* Every step keeps a caller that asks up to date: the handle only changes
\* under the mutex, and then it is the caller's own.
LEMMA NextOwn ==
    TypeOK /\ InProgram /\ LockDiscipline /\ OwnSnapshots /\ [Next]_vars => OwnSnapshots'
  <1> SUFFICES ASSUME TypeOK, InProgram, LockDiscipline, OwnSnapshots, [Next]_vars,
                      NEW d \in Callers
               PROVE  Current(d)'
    BY DEF OwnSnapshots
  <1> USE ClientAssumption, CallerTypes DEF OwnSnapshots, Current, At
  <1>1. ASSUME NEW c \in Callers, Begin(c) PROVE Current(d)'
    BY <1>1, ProgramStart DEF Begin, client
  <1>2. ASSUME NEW c \in Callers, Lock(c) PROVE Current(d)'
    BY <1>2, AdvanceLocked DEF Lock, Locked
  <1>3. ASSUME NEW c \in Callers, Unlock(c) PROVE Current(d)'
    BY <1>3, AdvanceLocked DEF Unlock
  <1>4. ASSUME NEW c \in Callers, Started(c) PROVE Current(d)'
    BY <1>4, AdvanceLocked DEF Started, LockDiscipline, Guarded, InSection, Locked
  <1>5. ASSUME NEW c \in Callers, Build(c) PROVE Current(d)'
    BY <1>5 DEF Build
  <1>6. ASSUME NEW c \in Callers, Write(c) PROVE Current(d)'
    BY <1>6 DEF Write, client
  <1>7. ASSUME NEW c \in Callers, WriteFails(c) PROVE Current(d)'
    BY <1>7 DEF WriteFails
  <1>8. ASSUME Crash PROVE Current(d)'
    BY <1>8 DEF Crash
  <1>9. ASSUME NEW c \in Callers, Register(c) PROVE Current(d)'
    BY <1>9 DEF Register
  <1>10. ASSUME NEW c \in Callers, Receive(c) PROVE Current(d)'
    BY <1>10 DEF Receive, client
  <1>11. ASSUME NEW c \in Callers, Parse(c) PROVE Current(d)'
    <2>1. todo[c] # <<>> /\ Advance(c) /\ UNCHANGED <<asked, opLock>>
      BY <1>11 DEF Parse, InProgram, Placed
    <2>2. CASE At(c, "update")
      <3>1. opLock = c
        BY <2>2 DEF LockDiscipline, Guarded, InSection, Locked
      <3>2. own' = [own EXCEPT ![c] = snapshot']
        BY <1>11, <2>2 DEF Parse
      <3> QED
        BY <2>1, <3>1, <3>2, AdvanceLocked
    <2>3. CASE ~At(c, "update")
      <3>1. UNCHANGED <<snapshot, own>>
        BY <1>11, <2>3 DEF Parse
      <3>2. CASE d = c
        <4>1. ~(At(c, "ask") /\ opLock = c)'
          BY <2>1, <2>3, <3>2, AdvanceLocked, NextGuarded
          DEF LockDiscipline, Guarded, InSection
        <4> QED
          BY <3>2, <4>1
      <3>3. CASE d # c
        BY <2>1, <3>1, <3>3, AdvanceLocked
      <3> QED
        BY <3>2, <3>3
    <2> QED
      BY <2>2, <2>3
  <1>12. ASSUME UNCHANGED <<todo, pc, opLock, snapshot, own, asked>> PROVE Current(d)'
    BY <1>12
  <1> QED
    BY <1>1, <1>2, <1>3, <1>4, <1>5, <1>6, <1>7, <1>8, <1>9, <1>10, <1>11, <1>12,
       OtherSteps
    DEF Next, CallerStep, OtherStep, WriteFailsAtStart

LEMMA InitSections == Init => LockDiscipline /\ OwnSnapshots
  BY ClientAssumption
  DEF Init, LockDiscipline, Guarded, InSection, Locked, OwnSnapshots, Current, At

\* At most one caller is between lock and unlock, and it has the mutex.
THEOREM MutexHeld == Spec => []LockDiscipline
  BY InitType, NextType, InitInProgram, NextInProgram, InitSections, NextGuarded, PTL
  DEF Spec

\* Every step keeps the mutex from leaking while the child lives.
LEMMA NextNotLeaked ==
    TypeOK /\ InProgram /\ LockDiscipline /\ LockNotLeaked /\ [Next]_vars => LockNotLeaked'
  <1> SUFFICES ASSUME TypeOK, InProgram, LockDiscipline, LockNotLeaked, [Next]_vars,
                      NEW d \in Callers, opLock' = d, todo'[d] = <<>>
               PROVE  ~alive'
    BY DEF LockNotLeaked
  <1> USE ClientAssumption, CallerTypes DEF LockNotLeaked, LockDiscipline, Guarded, InSection, At
  <1>1. ASSUME NEW c \in Callers, Begin(c) PROVE ~alive'
    BY <1>1, ProgramStart DEF Begin, client, server
  <1>2. ASSUME NEW c \in Callers, Lock(c) PROVE ~alive'
    BY <1>2, AdvanceLocked DEF Lock, Locked, server
  <1>3. ASSUME NEW c \in Callers, Unlock(c) PROVE ~alive'
    BY <1>3 DEF Unlock
  <1>4. ASSUME NEW c \in Callers, Started(c) PROVE ~alive'
    <2>1. opLock # c
      BY <1>4 DEF Started, Locked
    <2> QED
      BY <1>4, <2>1, AdvanceLocked DEF Started, server
  <1>5. ASSUME NEW c \in Callers, Build(c) \/ Write(c) \/ Register(c) \/ Receive(c)
        PROVE  ~alive'
    BY <1>5 DEF Build, Write, Register, Receive, client, server
  <1>6. ASSUME NEW c \in Callers, WriteFails(c) \/ WriteFailsAtStart(c) PROVE ~alive'
    BY <1>6 DEF WriteFails, WriteFailsAtStart, server
  <1>7. ASSUME NEW c \in Callers, Parse(c) PROVE ~alive'
    <2>1. todo[c] # <<>> /\ Advance(c) /\ UNCHANGED <<opLock, alive>>
      BY <1>7 DEF Parse, InProgram, Placed, server
    <2>2. CASE d = c
      <3>1. InSection(c) /\ Head(todo[c]) \notin {"unlock", "useEarly"}
        BY <1>7, <2>1, <2>2 DEF Parse, InProgram, Placed, Requests
      <3> QED
        BY <2>1, <2>2, <3>1, AdvanceLocked DEF Locked
    <2>3. CASE d # c
      BY <2>1, <2>3, AdvanceLocked
    <2> QED
      BY <2>2, <2>3
  <1>8. ASSUME OtherStep PROVE ~alive'
    <2>1. CASE UNCHANGED <<todo, opLock, alive>>
      BY <2>1
    <2>2. CASE GoroutineCallbackFails
      BY <2>2 DEF GoroutineCallbackFails, server
    <2>3. CASE ServerExit
      BY <2>3 DEF ServerExit
    <2>4. ReaderStep \/ ServerTake \/ ServerCallback \/ ServerAnswer \/ UNCHANGED vars
              => UNCHANGED <<todo, opLock, alive>>
      BY DEF ReaderStep, Deliver, DeliverTooEarly, DeliverTooLong, TakeCallback, ReaderEof,
         ServerTake, ServerCallback, ServerAnswer, vars, caller, client, server
    <2>5. CallbackStep => GoroutineCallbackFails \/ UNCHANGED <<todo, opLock, alive>>
      BY DEF CallbackStep, AnswerCallback, InlineCallbackFails, caller, client, server
    <2> QED
      BY <1>8, <2>1, <2>2, <2>3, <2>4, <2>5 DEF OtherStep
  <1> QED
    BY <1>1, <1>2, <1>3, <1>4, <1>5, <1>6, <1>7, <1>8 DEF Next, CallerStep, OtherStep

LEMMA InitNotLeaked == Init => LockNotLeaked
  BY ClientAssumption DEF Init, LockNotLeaked

\* The mutex leaks only through a pipe to a dead child.
THEOREM NotLeaked == Spec => []LockNotLeaked
  BY InitType, NextType, InitInProgram, NextInProgram, InitSections, NextGuarded,
     InitNotLeaked, NextNotLeaked, PTL
  DEF Spec

LEMMA OwnSuffices == OwnSnapshots => AsksOwnSnapshot
  BY DEF OwnSnapshots, Current, AsksOwnSnapshot

\* GetSemanticDiagnostics and GetSymbolAtPosition ask about the snapshot
\* their own refresh left, however many callers refresh at the same time.
THEOREM AsksOwn == Spec => []AsksOwnSnapshot
  BY InitType, NextType, InitInProgram, NextInProgram, InitSections, NextGuarded, NextOwn,
     OwnSuffices, PTL
  DEF Spec

-----------------------------------------------------------------------------
(***************************************************************************)
(* What depends on the messages in the pipes.  A request and its answer    *)
(* are followed by their id, which is never given out twice; from this     *)
(* follow that snapshotHandle never goes back, and that what a caller      *)
(* waits for exists exactly once until the reader is stuck or gone.  With  *)
(* one caller there is one message at a time, so that the bytes of an      *)
(* answer are intact when they are parsed and a handle goes back with the  *)
(* snapshot it was minted in.                                              *)
(***************************************************************************)

InPipe(pipe) == {pipe[k] : k \in 1..Len(pipe)}

\* Requests on their way to the child or in its hands, and answers that no
\* caller has parsed yet.
Asking    == {m \in InPipe(stdin) : m.type # "reply"} \cup serving
Answering == {m \in InPipe(stdout) : m.type # "callback"} \cup channel

Waits(c) == pc[c] \in {"register", "wait", "parse"}

\* An id belongs to one request of one caller.
FreshIds ==
    /\ \A m \in Asking \cup Answering : m.id < nextId
    /\ \A c \in Callers : pc[c] # "next" => id[c] < nextId
    /\ \A c, d \in Callers : c # d /\ pc[c] # "next" /\ pc[d] # "next" => id[c] # id[d]
    /\ \A c \in Callers : pc[c] = "write" => \A m \in Asking \cup Answering : m.id # id[c]

\* The child works on the kind of request that the caller waits for.
SameKind ==
    \A c \in Callers : Waits(c) =>
        \A m \in Asking : m.id = id[c] => (m.type = "update" <=> At(c, "update"))

\* No handle is newer than the newest snapshot.
Bounded ==
    /\ snapshot <= made
    /\ \A c \in Callers : asked[c] <= made
    /\ \A m \in Asking \cup Answering : m.snap <= made

\* The answer to an update brings a snapshot that is not older, or none.
NotOlder ==
    \A c \in Callers : Waits(c) /\ At(c, "update") =>
        \A m \in Answering : m.id = id[c] => m.snap = 0 \/ m.snap >= snapshot

Traffic == FreshIds /\ SameKind /\ Bounded /\ NotOlder

\* The invariants that the traffic rests on.
Ground == TypeOK /\ InProgram /\ LockDiscipline

-----------------------------------------------------------------------------
(* Pipes                                                                   *)

LEMMA PipeAppend ==
    ASSUME NEW T, NEW q \in Seq(T), NEW m \in T
    PROVE  InPipe(Append(q, m)) = InPipe(q) \cup {m}
  <1>1. /\ Len(Append(q, m)) = Len(q) + 1
        /\ \A k \in 1..Len(q) : Append(q, m)[k] = q[k]
        /\ Append(q, m)[Len(q) + 1] = m
        /\ Len(q) \in Nat
    OBVIOUS
  <1>2. 1..(Len(q) + 1) = (1..Len(q)) \cup {Len(q) + 1}
    BY <1>1
  <1> QED
    BY <1>1, <1>2 DEF InPipe

LEMMA PipeTake ==
    ASSUME NEW T, NEW q \in Seq(T), q # <<>>
    PROVE  Head(q) \in InPipe(q) /\ InPipe(Tail(q)) \subseteq InPipe(q)
  <1>1. /\ Len(q) \in Nat \ {0} /\ Head(q) = q[1]
        /\ Len(Tail(q)) = Len(q) - 1
        /\ \A k \in 1..(Len(q) - 1) : Tail(q)[k] = q[k + 1]
    OBVIOUS
  <1> QED
    BY <1>1 DEF InPipe

LEMMA MessageTypes ==
    TypeOK => /\ \A m \in Asking : m.id \in Nat /\ m.snap \in Nat
              /\ \A m \in Answering : m.id \in Nat /\ m.snap \in Nat
  <1> SUFFICES ASSUME TypeOK PROVE /\ \A m \in Asking : m.id \in Nat /\ m.snap \in Nat
                                   /\ \A m \in Answering : m.id \in Nat /\ m.snap \in Nat
    OBVIOUS
  <1>1. \A k \in 1..Len(stdin) : stdin[k] \in ToServer
    BY DEF TypeOK
  <1>2. \A k \in 1..Len(stdout) : stdout[k] \in FromServer
    BY DEF TypeOK
  <1>3. serving \subseteq ToServer /\ channel \subseteq FromServer
    BY DEF TypeOK
  <1> QED
    BY <1>1, <1>2, <1>3 DEF Asking, Answering, InPipe, ToServer, FromServer

-----------------------------------------------------------------------------
(* What the steps do to the traffic                                        *)

\* No message appears and no handle changes.
Quiet ==
    /\ Asking' \subseteq Asking
    /\ Answering' \subseteq Answering
    /\ UNCHANGED <<made, snapshot, asked>>

\* Callers stay where they are in their requests, or are done with them.
Settled ==
    /\ UNCHANGED <<id, nextId>>
    /\ \A c \in Callers : \/ todo'[c] = todo[c] /\ pc'[c] = pc[c]
                          \/ pc'[c] = "next"
                          \/ todo'[c] = todo[c] /\ Waits(c) /\ Waits(c)'

LEMMA QuietTraffic ==
    ASSUME Ground, Traffic, Quiet, Settled
    PROVE  Traffic'
  <1> USE DEF Traffic, Quiet, Settled, Waits
  <1>1. FreshIds'
    BY DEF FreshIds
  <1>2. SameKind'
    BY DEF SameKind, At
  <1>3. Bounded'
    BY DEF Bounded
  <1>4. NotOlder'
    BY DEF NotOlder, At
  <1> QED
    BY <1>1, <1>2, <1>3, <1>4

\* The reader and the callbacks only take messages away.
LEMMA ReaderQuiet ==
    ASSUME Ground, ReaderStep \/ CallbackStep
    PROVE  Quiet /\ Settled
  <1>1. Scanning => /\ Head(stdout) \in InPipe(stdout)
                    /\ InPipe(Tail(stdout)) \subseteq InPipe(stdout)
    BY PipeTake DEF Ground, TypeOK, Scanning
  <1>2. CASE Deliver
    BY <1>1, <1>2 DEF Deliver, Quiet, Settled, Asking, Answering, server
  <1>3. CASE DeliverTooEarly \/ DeliverTooLong \/ TakeCallback
    BY <1>1, <1>3 DEF DeliverTooEarly, DeliverTooLong, TakeCallback, Quiet, Settled,
       Asking, Answering, client, server
  <1>4. CASE ReaderEof
    BY <1>4 DEF ReaderEof, Quiet, Settled, Asking, Answering, caller, client, server
  <1>5. CASE CallbackStep
    <2>1. PICK mode \in {"inline", "goroutine"}, i \in Nat :
            \/ AnswerCallback(mode, i)
            \/ InlineCallbackFails(i)
            \/ GoroutineCallbackFails
      BY <1>5 DEF CallbackStep, Ground, TypeOK
    <2>2. CASE AnswerCallback(mode, i)
      <3>1. InPipe(stdin') = InPipe(stdin) \cup {Message("reply", i, 0)}
        <4>1. Message("reply", i, 0) \in ToServer
          BY DEF Message, ToServer
        <4> QED
          BY <2>2, <4>1, PipeAppend DEF AnswerCallback, Ground, TypeOK
      <3> QED
        BY <2>2, <3>1 DEF AnswerCallback, Message, Quiet, Settled, Asking, Answering,
           caller, client, server
    <2>3. CASE InlineCallbackFails(i)
      BY <2>3 DEF InlineCallbackFails, Quiet, Settled, Asking, Answering, caller, client, server
    <2>4. CASE GoroutineCallbackFails
      BY <2>4 DEF GoroutineCallbackFails, Crash, Quiet, Settled, Asking, Answering,
         client, server
    <2> QED
      BY <2>1, <2>2, <2>3, <2>4
  <1> QED
    BY <1>2, <1>3, <1>4, <1>5 DEF ReaderStep

\* So does the child, except when it answers.
LEMMA ServerQuiet ==
    ASSUME Ground, ServerTake \/ ServerCallback \/ ServerExit
    PROVE  Quiet /\ Settled
  <1>1. CASE ServerTake
    <2>1. Head(stdin) \in InPipe(stdin) /\ InPipe(Tail(stdin)) \subseteq InPipe(stdin)
      BY <1>1, PipeTake DEF ServerTake, Ground, TypeOK
    <2> QED
      BY <1>1, <2>1 DEF ServerTake, Quiet, Settled, Asking, Answering, caller, client
  <1>2. CASE ServerCallback
    <2>1. PICK r \in serving : stdout' = Append(stdout, Message("callback", r.id, 0))
      BY <1>2 DEF ServerCallback
    <2>2. InPipe(stdout') = InPipe(stdout) \cup {Message("callback", r.id, 0)}
      <3>1. r.id \in Nat
        BY DEF Ground, TypeOK, ToServer
      <3>2. Message("callback", r.id, 0) \in FromServer
        BY <3>1 DEF Message, FromServer
      <3> QED
        BY <2>1, <3>2, PipeAppend DEF Ground, TypeOK
    <2> QED
      BY <1>2, <2>2 DEF ServerCallback, Message, Quiet, Settled, Asking, Answering,
         caller, client
  <1>3. CASE ServerExit
    <2>1. InPipe(stdin') = {}
      BY <1>3 DEF ServerExit, InPipe
    <2> QED
      BY <1>3, <2>1 DEF ServerExit, Quiet, Settled, Asking, Answering, caller, client
  <1> QED
    BY <1>1, <1>2, <1>3

\* A caller's step outside of a request.
LEMMA CallerQuiet ==
    ASSUME Ground, NEW c \in Callers,
           \/ Begin(c) \/ Lock(c) \/ Unlock(c) \/ Started(c) \/ WriteFails(c)
           \/ WriteFailsAtStart(c) \/ Register(c) \/ Receive(c)
    PROVE  Quiet /\ Settled
  <1> USE DEF Quiet, Settled, Asking, Answering, client, server, Ground
  <1>1. CASE Begin(c)
    BY <1>1, CallerTypes DEF Begin, InProgram, Placed
  <1>2. CASE Lock(c) \/ Unlock(c) \/ Started(c)
    BY <1>2, CallerTypes DEF Lock, Unlock, Started, Advance
  <1>3. CASE WriteFails(c)
    BY <1>3, CallerTypes DEF WriteFails
  <1>4. CASE WriteFailsAtStart(c)
    BY <1>4 DEF WriteFailsAtStart, Crash
  <1>5. CASE Register(c) \/ Receive(c)
    BY <1>5, CallerTypes DEF Register, Receive, Waits
  <1> QED
    BY <1>1, <1>2, <1>3, <1>4, <1>5

LEMMA BuildTraffic ==
    ASSUME Ground, Traffic, NEW c \in Callers, Build(c)
    PROVE  Traffic'
  <1>1. /\ UNCHANGED <<todo, Asking, Answering, made, snapshot>>
        /\ nextId \in Nat /\ nextId' = nextId + 1
        /\ id'[c] = nextId /\ pc'[c] = "write" /\ asked'[c] \in {asked[c], snapshot}
        /\ \A d \in Callers \ {c} : id'[d] = id[d] /\ pc'[d] = pc[d] /\ asked'[d] = asked[d]
    BY CallerTypes DEF Build, IdAfterDraw, Ground, TypeOK, Asking, Answering, server
  <1>2. /\ \A d \in Callers : id[d] \in Nat
        /\ \A m \in Asking \cup Answering : m.id \in Nat
    BY MessageTypes DEF Ground, TypeOK
  <1>3. FreshIds'
    BY <1>1, <1>2 DEF Traffic, FreshIds
  <1>4. SameKind' /\ NotOlder'
    BY <1>1 DEF Traffic, SameKind, NotOlder, Waits, At
  <1>5. Bounded'
    BY <1>1 DEF Traffic, Bounded
  <1> QED
    BY <1>3, <1>4, <1>5 DEF Traffic

LEMMA WriteTraffic ==
    ASSUME Ground, Traffic, NEW c \in Callers, Write(c)
    PROVE  Traffic'
  <1> DEFINE request == IF At(c, "update") THEN Message("update", id[c], 0)
                                          ELSE Message("query", id[c], asked[c])
  <1>1. request \in ToServer
    BY DEF Message, ToServer, Ground, TypeOK
  <1>2. InPipe(stdin') = InPipe(stdin) \cup {request}
    BY <1>1, PipeAppend DEF Write, Ground, TypeOK
  <1>3. /\ Asking' \subseteq Asking \cup {request} /\ Answering' = Answering
        /\ UNCHANGED <<todo, id, asked, made, snapshot, nextId>>
        /\ pc[c] = "write" /\ pc'[c] = "register"
        /\ \A d \in Callers \ {c} : pc'[d] = pc[d]
    BY <1>2, CallerTypes DEF Write, Asking, Answering, client, server, Ground
  <1>4. /\ request.id = id[c]
        /\ request.type = "update" <=> At(c, "update")
        /\ request.snap \in {0, asked[c]}
    BY DEF Message
  <1> HIDE DEF request
  <1>5. FreshIds'
    BY <1>3, <1>4 DEF Traffic, FreshIds
  <1>6. SameKind'
    BY <1>3, <1>4 DEF Traffic, FreshIds, SameKind, Waits, At
  <1>7. Bounded'
    <2>1. made \in Nat
      BY DEF Ground, TypeOK
    <2> QED
      BY <1>3, <1>4, <2>1 DEF Traffic, Bounded
  <1>8. NotOlder'
    BY <1>3 DEF Traffic, FreshIds, NotOlder, Waits, At
  <1> QED
    BY <1>5, <1>6, <1>7, <1>8 DEF Traffic

\* The caller that takes an answer to an update holds the mutex, so nobody
\* else waits for one.
LEMMA ParseTraffic ==
    ASSUME Ground, Traffic, NEW c \in Callers, Parse(c)
    PROVE  Traffic' /\ snapshot' >= snapshot
  <1>1. PICK m \in channel :
            /\ m.id = id[c]
            /\ channel' = channel \ {m}
            /\ snapshot' # snapshot => /\ At(c, "update")
                                       /\ m.snap # 0
                                       /\ snapshot' = m.snap
    BY DEF Parse
  <1>2. m \in Answering /\ Waits(c)
    BY DEF Parse, Answering, Waits
  <1>3. snapshot \in Nat /\ snapshot' \in Nat /\ made \in Nat
    BY <1>1, <1>2, MessageTypes DEF Ground, TypeOK
  <1>4. snapshot' >= snapshot /\ snapshot' <= made
    BY <1>1, <1>2, <1>3 DEF Traffic, NotOlder, Bounded
  <1>5. /\ Asking' = Asking /\ Answering' \subseteq Answering
        /\ UNCHANGED <<made, asked, id, nextId>>
        /\ pc'[c] = "next"
        /\ \A d \in Callers \ {c} : todo'[d] = todo[d] /\ pc'[d] = pc[d]
    BY <1>1, CallerTypes DEF Parse, Advance, Asking, Answering, server, Ground
  <1>6. FreshIds' /\ SameKind'
    BY <1>5 DEF Traffic, FreshIds, SameKind, Waits, At
  <1>7. Bounded'
    BY <1>4, <1>5 DEF Traffic, Bounded
  <1>8. NotOlder'
    <2>1. CASE snapshot' = snapshot
      BY <1>5, <2>1 DEF Traffic, NotOlder, Waits, At
    <2>2. CASE snapshot' # snapshot
      <3>1. \A d \in Callers : At(d, "update") => d = c
        BY <1>1, <2>2
        DEF Ground, LockDiscipline, Guarded, InSection, Locked, At
      <3> QED
        BY <1>5, <3>1 DEF NotOlder, Waits, At
    <2> QED
      BY <2>1, <2>2
  <1> QED
    BY <1>4, <1>6, <1>7, <1>8 DEF Traffic

LEMMA AnswerTraffic ==
    ASSUME Ground, Traffic, ServerAnswer
    PROVE  Traffic'
  <1>1. PICK r \in serving :
          /\ serving' = serving \ {r}
          /\ \/ made' = made + 1 /\ stdout' = Append(stdout, Message("answer", r.id, made + 1))
             \/ made' = made /\ stdout' = Append(stdout, Message("answer", r.id, 0))
             \/ /\ made' = made /\ r.type # "update"
                /\ \E type \in {"answer", "toolong"} :
                      stdout' = Append(stdout, Message(type, r.id, r.snap))
    BY DEF ServerAnswer
  <1>2. r \in Asking /\ r.id \in Nat /\ r.snap \in Nat /\ made \in Nat /\ snapshot \in Nat
    BY MessageTypes DEF Asking, Ground, TypeOK
  <1>3. PICK answer \in FromServer :
          /\ stdout' = Append(stdout, answer)
          /\ answer.id = r.id
          /\ \/ made' = made + 1 /\ answer.snap = made + 1
             \/ made' = made /\ answer.snap = 0
             \/ made' = made /\ r.type # "update" /\ answer.snap = r.snap
    <2>1. ASSUME NEW type \in {"answer", "toolong"}, NEW snap \in Nat
          PROVE  /\ Message(type, r.id, snap) \in FromServer
                 /\ Message(type, r.id, snap).id = r.id
                 /\ Message(type, r.id, snap).snap = snap
      BY <1>2 DEF Message, FromServer
    <2>2. made + 1 \in Nat /\ 0 \in Nat
      BY <1>2
    <2>3. CASE made' = made + 1 /\ stdout' = Append(stdout, Message("answer", r.id, made + 1))
      BY <2>1, <2>2, <2>3
    <2>4. CASE made' = made /\ stdout' = Append(stdout, Message("answer", r.id, 0))
      <3>1. /\ Message("answer", r.id, 0) \in FromServer
            /\ Message("answer", r.id, 0).id = r.id
            /\ Message("answer", r.id, 0).snap = 0
        BY <2>1, <2>2
      <3> QED
        BY <2>4, <3>1
    <2>5. CASE /\ made' = made /\ r.type # "update"
               /\ \E type \in {"answer", "toolong"} :
                     stdout' = Append(stdout, Message(type, r.id, r.snap))
      <3>1. PICK type \in {"answer", "toolong"} : stdout' = Append(stdout, Message(type, r.id, r.snap))
        BY <2>5
      <3>2. /\ Message(type, r.id, r.snap) \in FromServer
            /\ Message(type, r.id, r.snap).id = r.id
            /\ Message(type, r.id, r.snap).snap = r.snap
        BY <1>2, <2>1
      <3> QED
        BY <2>5, <3>1, <3>2
    <2> QED
      BY <1>1, <2>3, <2>4, <2>5
  <1>4. /\ Asking' \subseteq Asking
        /\ Answering' \subseteq Answering \cup {answer}
        /\ UNCHANGED <<todo, pc, id, asked, snapshot, nextId>>
    <2>1. InPipe(stdout') = InPipe(stdout) \cup {answer}
      BY <1>3, PipeAppend DEF Ground, TypeOK
    <2> QED
      BY <1>1, <2>1 DEF ServerAnswer, Asking, Answering, caller, client
  <1>5. FreshIds'
    BY <1>2, <1>3, <1>4 DEF Traffic, FreshIds
  <1>6. SameKind'
    BY <1>4 DEF Traffic, SameKind, Waits, At
  <1>7. Bounded'
    <2>1. answer.snap <= made' /\ made <= made' /\ made' \in Nat
      BY <1>2, <1>3 DEF Traffic, Bounded
    <2>2. /\ \A m \in Asking : m.snap \in Nat
          /\ \A m \in Answering : m.snap \in Nat
          /\ \A c \in Callers : asked[c] \in Nat
      BY MessageTypes DEF Ground, TypeOK
    <2> QED
      BY <1>2, <1>4, <2>1, <2>2 DEF Traffic, Bounded
  <1>8. NotOlder'
    <2>1. ASSUME NEW c \in Callers, Waits(c), At(c, "update"), r.id = id[c]
          PROVE  answer.snap = 0 \/ answer.snap >= snapshot
      BY <1>2, <1>3, <2>1 DEF Traffic, SameKind, Bounded
    <2> QED
      BY <1>3, <1>4, <2>1 DEF Traffic, NotOlder, Waits, At
  <1> QED
    BY <1>5, <1>6, <1>7, <1>8 DEF Traffic

-----------------------------------------------------------------------------
(* The theorem                                                             *)

LEMMA InitTraffic == Init => Traffic
  <1> SUFFICES ASSUME Init PROVE Traffic
    OBVIOUS
  <1>1. Asking = {} /\ Answering = {}
    BY DEF Init, Asking, Answering, InPipe
  <1> QED
    BY <1>1 DEF Init, Traffic, FreshIds, SameKind, Bounded, NotOlder, Waits

\* Every step keeps the traffic in order, and no step takes the handle back.
LEMMA NextTraffic ==
    Ground /\ Traffic /\ [Next]_vars => Traffic' /\ (snapshot' >= snapshot)
  <1> SUFFICES ASSUME Ground, Traffic, [Next]_vars
               PROVE  Traffic' /\ snapshot' >= snapshot
    OBVIOUS
  <1>1. snapshot \in Nat
    BY DEF Ground, TypeOK
  <1>2. ASSUME Quiet, Settled PROVE Traffic' /\ snapshot' >= snapshot
    BY <1>1, <1>2, QuietTraffic DEF Quiet
  <1>3. ASSUME UNCHANGED vars PROVE Quiet /\ Settled
    BY <1>3 DEF vars, caller, client, server, Quiet, Settled, Asking, Answering
  <1>4. ASSUME NEW c \in Callers, Begin(c) \/ CallerStep(c)
        PROVE  Traffic' /\ snapshot' >= snapshot
    <2>1. CASE Build(c)
      <3>1. UNCHANGED snapshot
        BY <2>1 DEF Build
      <3> QED
        BY <1>1, <2>1, <3>1, BuildTraffic
    <2>2. CASE Write(c)
      <3>1. UNCHANGED snapshot
        BY <2>2 DEF Write, client
      <3> QED
        BY <1>1, <2>2, <3>1, WriteTraffic
    <2>3. CASE Parse(c)
      BY <2>3, ParseTraffic
    <2> QED
      BY <1>2, <1>4, <2>1, <2>2, <2>3, CallerQuiet DEF CallerStep
  <1>5. ASSUME ServerAnswer PROVE Traffic' /\ snapshot' >= snapshot
    BY <1>1, <1>5, AnswerTraffic DEF ServerAnswer, client
  <1> QED
    BY <1>2, <1>3, <1>4, <1>5, ReaderQuiet, ServerQuiet DEF Next

LEMMA NextGround == Ground /\ [Next]_vars => Ground'
  BY NextType, NextInProgram, NextGuarded DEF Ground

LEMMA InitGround == Init => Ground
  BY InitType, InitInProgram, InitSections DEF Ground

\* snapshotHandle is never replaced by that of an older snapshot, whatever
\* the callers, the child's answers and the reader's delays.
THEOREM NeverGoesBack == Spec => SnapshotNeverGoesBack
  <1>1. Ground /\ Traffic /\ [Next]_vars => [snapshot' >= snapshot]_snapshot
    BY NextTraffic
  <1> QED
    BY <1>1, InitGround, InitTraffic, NextGround, NextTraffic, PTL
    DEF Spec, SnapshotNeverGoesBack

-----------------------------------------------------------------------------
(* Nothing is lost and nothing is answered twice.                          *)

\* Where the request with this id, or its answer, is.
Places(pipe, other, i) == {k \in DOMAIN pipe : pipe[k].id = i /\ pipe[k].type # other}
InHand(messages, i)    == {m \in messages : m.id = i}

One(S) == \E x : S = {x}

Absent(i) ==
    /\ Places(stdin, "reply", i) = {} /\ InHand(serving, i) = {}
    /\ Places(stdout, "callback", i) = {} /\ InHand(channel, i) = {}

\* In one place only, and there once.
Sole(i) ==
    \/ /\ One(Places(stdin, "reply", i)) /\ InHand(serving, i) = {}
       /\ Places(stdout, "callback", i) = {} /\ InHand(channel, i) = {}
    \/ /\ Places(stdin, "reply", i) = {} /\ One(InHand(serving, i))
       /\ Places(stdout, "callback", i) = {} /\ InHand(channel, i) = {}
    \/ /\ Places(stdin, "reply", i) = {} /\ InHand(serving, i) = {}
       /\ One(Places(stdout, "callback", i)) /\ InHand(channel, i) = {}
    \/ /\ Places(stdin, "reply", i) = {} /\ InHand(serving, i) = {}
       /\ Places(stdout, "callback", i) = {} /\ One(InHand(channel, i))

\* Whatever is under way is so for a caller that waits for it, and for all
\* but the one whose answer found no channel it is.
Ledger ==
    alive /\ reader # "gone" =>
        /\ \A i \in Nat : Absent(i) \/ \E c \in Callers : Outstanding(c) /\ id[c] = i
        /\ reader # "stuck" => \A c \in Callers : Outstanding(c) => Sole(id[c])
        /\ reader = "stuck" =>
              \E c \in Callers : /\ Outstanding(c) /\ Absent(id[c])
                                 /\ \A d \in Callers \ {c} : Outstanding(d) => Sole(id[d])

\* The reader answers one callback at a time, and nothing else meanwhile.
OneInline ==
    \A w \in answering : w[1] = "inline" =>
        reader = "callback" /\ \A v \in answering : v[1] = "inline" => v = w

LEMMA CopiesCount ==
    ASSUME NEW i
    PROVE  /\ Sole(i) => Copies(i) = 1
           /\ Absent(i) => Copies(i) = 0
  <1>1. Copies(i) = Cardinality(Places(stdin, "reply", i)) + Cardinality(InHand(serving, i))
                    + Cardinality(Places(stdout, "callback", i)) + Cardinality(InHand(channel, i))
    BY DEF Copies, Places, InHand
  <1>2. Cardinality({}) = 0
    BY FS_EmptySet
  <1>3. ASSUME NEW S, One(S) PROVE Cardinality(S) = 1
    BY <1>3, FS_Singleton DEF One
  <1>4. Absent(i) => Copies(i) = 0
    BY <1>1, <1>2 DEF Absent
  <1>5. Sole(i) => Copies(i) = 1
    BY <1>1, <1>2, <1>3 DEF Sole
  <1> QED
    BY <1>4, <1>5

LEMMA PlacesAppend ==
    ASSUME NEW T, NEW q \in Seq(T), NEW m \in T, NEW other, NEW i
    PROVE  /\ m.id # i \/ m.type = other =>
                  Places(Append(q, m), other, i) = Places(q, other, i)
           /\ m.id = i /\ m.type # other /\ Places(q, other, i) = {} =>
                  One(Places(Append(q, m), other, i))
  <1>1. /\ DOMAIN q = 1..Len(q) /\ DOMAIN Append(q, m) = 1..(Len(q) + 1) /\ Len(q) \in Nat
        /\ \A k \in 1..Len(q) : Append(q, m)[k] = q[k]
        /\ Append(q, m)[Len(q) + 1] = m
    OBVIOUS
  <1>2. 1..(Len(q) + 1) = (1..Len(q)) \cup {Len(q) + 1} /\ Len(q) + 1 \notin 1..Len(q)
    BY <1>1
  <1>3. ASSUME m.id # i \/ m.type = other
        PROVE  Places(Append(q, m), other, i) = Places(q, other, i)
    BY <1>1, <1>2, <1>3 DEF Places
  <1>4. ASSUME m.id = i, m.type # other, Places(q, other, i) = {}
        PROVE  Places(Append(q, m), other, i) = {Len(q) + 1}
    BY <1>1, <1>2, <1>4 DEF Places
  <1> QED
    BY <1>3, <1>4 DEF One

LEMMA PlacesTail ==
    ASSUME NEW T, NEW q \in Seq(T), q # <<>>, NEW other, NEW i
    PROVE  /\ Places(q, other, i) = {} =>
                  /\ Head(q).id # i \/ Head(q).type = other
                  /\ Places(Tail(q), other, i) = {}
           /\ One(Places(q, other, i)) =>
                  IF Head(q).id = i /\ Head(q).type # other
                  THEN Places(Tail(q), other, i) = {}
                  ELSE One(Places(Tail(q), other, i))
  <1> DEFINE n == Len(q)
  <1>1. /\ n \in Nat /\ n > 0 /\ Head(q) = q[1]
        /\ DOMAIN q = 1..n /\ DOMAIN Tail(q) = 1..(n - 1)
        /\ \A k \in 1..(n - 1) : Tail(q)[k] = q[k + 1]
    OBVIOUS
  <1> HIDE DEF n
  <1>2. \A k \in 1..(n - 1) : k + 1 \in 1..n /\ k + 1 # 1
    BY <1>1
  <1>3. \A k \in 1..n : k # 1 => k - 1 \in 1..(n - 1) /\ (k - 1) + 1 = k
    BY <1>1
  <1>4. \A k : k \in Places(Tail(q), other, i) <=>
                  k \in 1..(n - 1) /\ k + 1 \in Places(q, other, i)
    BY <1>1, <1>2 DEF Places
  <1>5. 1 \in Places(q, other, i) <=> Head(q).id = i /\ Head(q).type # other
    BY <1>1 DEF Places
  <1>6. ASSUME Places(q, other, i) = {}
        PROVE  /\ Head(q).id # i \/ Head(q).type = other
               /\ Places(Tail(q), other, i) = {}
    BY <1>4, <1>5, <1>6
  <1>7. ASSUME NEW p, Places(q, other, i) = {p}
        PROVE  IF Head(q).id = i /\ Head(q).type # other
               THEN Places(Tail(q), other, i) = {}
               ELSE Places(Tail(q), other, i) = {p - 1}
    <2>1. p \in 1..n
      BY <1>1, <1>7 DEF Places
    <2>2. CASE p = 1
      <3>1. Head(q).id = i /\ Head(q).type # other
        BY <1>5, <1>7, <2>2
      <3>2. \A k \in 1..(n - 1) : k + 1 # 1
        BY <1>2
      <3>3. Places(Tail(q), other, i) = {}
        BY <1>4, <1>7, <2>2, <3>2
      <3> QED
        BY <3>1, <3>3
    <2>3. CASE p # 1
      <3>1. ~(Head(q).id = i /\ Head(q).type # other)
        BY <1>5, <1>7, <2>3
      <3>2. p - 1 \in 1..(n - 1) /\ (p - 1) + 1 = p
        BY <1>3, <2>1, <2>3
      <3>3. \A k \in 1..(n - 1) : k + 1 = p <=> k = p - 1
        BY <1>1, <2>1
      <3>4. \A k : k \in Places(Tail(q), other, i) <=> k \in 1..(n - 1) /\ k + 1 = p
        BY <1>4, <1>7
      <3>5. Places(Tail(q), other, i) = {p - 1}
        BY <3>2, <3>3, <3>4
      <3> QED
        BY <3>1, <3>5
    <2> QED
      BY <2>2, <2>3
  <1> QED
    BY <1>6, <1>7 DEF One

LEMMA HandAdds ==
    ASSUME NEW messages, NEW m, NEW i
    PROVE  /\ m.id # i => InHand(messages \cup {m}, i) = InHand(messages, i)
           /\ m.id = i /\ InHand(messages, i) = {} => One(InHand(messages \cup {m}, i))
  <1>1. ASSUME m.id # i PROVE InHand(messages \cup {m}, i) = InHand(messages, i)
    BY <1>1 DEF InHand
  <1>2. ASSUME m.id = i, InHand(messages, i) = {} PROVE InHand(messages \cup {m}, i) = {m}
    BY <1>2 DEF InHand
  <1> QED
    BY <1>1, <1>2 DEF One

LEMMA HandTakes ==
    ASSUME NEW messages, NEW m \in messages, NEW i
    PROVE  /\ m.id # i => InHand(messages \ {m}, i) = InHand(messages, i)
           /\ m.id = i => InHand(messages, i) # {}
           /\ m.id = i /\ One(InHand(messages, i)) => InHand(messages \ {m}, i) = {}
  <1>1. ASSUME m.id # i PROVE InHand(messages \ {m}, i) = InHand(messages, i)
    BY <1>1 DEF InHand
  <1>2. ASSUME m.id = i PROVE m \in InHand(messages, i)
    BY <1>2 DEF InHand
  <1>3. ASSUME m.id = i, NEW x, InHand(messages, i) = {x} PROVE InHand(messages \ {m}, i) = {}
    <2>1. \A k \in messages : k.id = i => k = x
      BY <1>3 DEF InHand
    <2> QED
      BY <1>3, <2>1 DEF InHand
  <1> QED
    BY <1>1, <1>2, <1>3 DEF One

\* A request or an answer that a step does not touch, or carries further.
Moved(i) == (Absent(i) => Absent(i)') /\ (Sole(i) => Sole(i)')

\* The same callers wait for the same ids.
SameWaiting ==
    /\ \A c \in Callers : Outstanding(c)' <=> Outstanding(c)
    /\ \A c \in Callers : Outstanding(c) => id'[c] = id[c]

LEMMA MovedLedger ==
    ASSUME Ledger, SameWaiting, \A i \in Nat : Moved(i), TypeOK,
           alive' => alive,
           alive' /\ reader' # "gone" => reader # "gone" /\ (reader' = "stuck" <=> reader = "stuck")
    PROVE  Ledger'
  <1> SUFFICES ASSUME alive', reader' # "gone"
               PROVE  /\ \A i \in Nat : Absent(i)' \/ \E c \in Callers : Outstanding(c)' /\ id'[c] = i
                      /\ reader' # "stuck" => \A c \in Callers : Outstanding(c)' => Sole(id[c])'
                      /\ reader' = "stuck" =>
                            \E c \in Callers : /\ Outstanding(c)' /\ Absent(id[c])'
                                               /\ \A d \in Callers \ {c} : Outstanding(d)' => Sole(id[d])'
    BY DEF Ledger
  <1>1. /\ alive /\ reader # "gone" /\ (reader' = "stuck" <=> reader = "stuck")
        /\ \A i \in Nat : Absent(i) \/ \E c \in Callers : Outstanding(c) /\ id[c] = i
        /\ reader # "stuck" => \A c \in Callers : Outstanding(c) => Sole(id[c])
        /\ reader = "stuck" =>
              \E c \in Callers : /\ Outstanding(c) /\ Absent(id[c])
                                 /\ \A d \in Callers \ {c} : Outstanding(d) => Sole(id[d])
    BY DEF Ledger
  <1>2. \A c \in Callers : id[c] \in Nat
    BY DEF TypeOK
  <1>3. ASSUME NEW c \in Callers, Outstanding(c)
        PROVE  (Absent(id[c]) => Absent(id[c])') /\ (Sole(id[c]) => Sole(id[c])')
    <2>1. id'[c] = id[c] /\ Moved(id[c])
      BY <1>2, <1>3 DEF SameWaiting
    <2>2. Absent(id[c]) => Absent(id[c])'
      BY <2>1 DEF Moved, Absent
    <2>3. Sole(id[c]) => Sole(id[c])'
      BY <2>1 DEF Moved, Sole
    <2> QED
      BY <2>2, <2>3
  <1>4. \A i \in Nat : Absent(i)' \/ \E c \in Callers : Outstanding(c)' /\ id'[c] = i
    BY <1>1 DEF Moved, SameWaiting
  <1>5. reader' # "stuck" => \A c \in Callers : Outstanding(c)' => Sole(id[c])'
    BY <1>1, <1>3 DEF SameWaiting
  <1>6. ASSUME reader' = "stuck"
        PROVE  \E c \in Callers : /\ Outstanding(c)' /\ Absent(id[c])'
                                  /\ \A d \in Callers \ {c} : Outstanding(d)' => Sole(id[d])'
    <2>1. PICK c \in Callers : /\ Outstanding(c) /\ Absent(id[c])
                               /\ \A d \in Callers \ {c} : Outstanding(d) => Sole(id[d])
      BY <1>1, <1>6
    <2>2. Outstanding(c)' /\ Absent(id[c])'
      BY <1>3, <2>1 DEF SameWaiting
    <2>3. \A d \in Callers \ {c} : Outstanding(d)' => Sole(id[d])'
      BY <1>3, <2>1 DEF SameWaiting
    <2> QED
      BY <2>2, <2>3
  <1> QED
    BY <1>4, <1>5, <1>6

Parts(i) == <<Places(stdin, "reply", i), InHand(serving, i),
              Places(stdout, "callback", i), InHand(channel, i)>>

LEMMA StillMoved ==
    ASSUME NEW i, UNCHANGED Parts(i)
    PROVE  Moved(i)
  BY DEF Parts, Moved, Absent, Sole

\* A caller's step that is neither a request nor an answer.
LEMMA CallerLedger ==
    ASSUME Ground, Ledger, NEW c \in Callers,
           \/ Begin(c) \/ Lock(c) \/ Unlock(c) \/ Started(c) \/ Build(c)
           \/ WriteFails(c) \/ WriteFailsAtStart(c) \/ Register(c) \/ Receive(c)
    PROVE  Ledger'
  <1>1. CASE WriteFails(c) \/ WriteFailsAtStart(c)
    BY <1>1 DEF WriteFails, WriteFailsAtStart, Ledger, server
  <1>2. CASE Begin(c) \/ Lock(c) \/ Unlock(c) \/ Started(c) \/ Build(c) \/ Register(c) \/ Receive(c)
    <2>1. UNCHANGED <<stdin, stdout, serving, channel, alive, reader>>
      BY <1>2 DEF Begin, Lock, Unlock, Started, Build, Register, Receive, client, server
    <2>2. /\ pc' \in [Callers -> {"next", "write", "register", "wait", "parse"}]
          /\ pc \in [Callers -> {"next", "write", "register", "wait", "parse"}]
          /\ id \in [Callers -> Nat]
      <3>1. TypeOK'
        BY <1>2, NextType DEF Ground, Next, CallerStep
      <3> QED
        BY <3>1 DEF Ground, TypeOK
    <2>3. SameWaiting
      <3>1. CASE Begin(c)
        BY <3>1 DEF Begin, SameWaiting, Outstanding
      <3>2. CASE Lock(c) \/ Unlock(c) \/ Started(c)
        <4>1. pc[c] = "next"
          BY <3>2 DEF Lock, Unlock, Started, At, Ground, InProgram, Placed, Requests
        <4>2. UNCHANGED id /\ pc' = [pc EXCEPT ![c] = "next"]
          BY <3>2 DEF Lock, Unlock, Started, Advance
        <4> QED
          BY <2>2, <4>1, <4>2 DEF SameWaiting, Outstanding
      <3>3. CASE Build(c)
        <4>1. /\ pc[c] = "next" /\ pc' = [pc EXCEPT ![c] = "write"]
              /\ id' = [id EXCEPT ![c] = nextId]
          BY <3>3 DEF Build
        <4> QED
          BY <2>2, <4>1 DEF SameWaiting, Outstanding
      <3>4. CASE Register(c) \/ Receive(c)
        <4>1. /\ pc[c] \in {"register", "wait"} /\ UNCHANGED id
              /\ \E here \in {"wait", "parse"} : pc' = [pc EXCEPT ![c] = here]
          BY <3>4 DEF Register, Receive
        <4> QED
          BY <2>2, <4>1 DEF SameWaiting, Outstanding
      <3> QED
        BY <1>2, <3>1, <3>2, <3>3, <3>4
    <2>4. \A i \in Nat : Moved(i)
      BY <2>1, StillMoved DEF Parts, Places, InHand
    <2> QED
      BY <2>1, <2>3, <2>4, MovedLedger DEF Ground
  <1> QED
    BY <1>1, <1>2

\* The request is written: it was nowhere, now it is in the pipe.
LEMMA WriteLedger ==
    ASSUME Ground, Traffic, Ledger, NEW c \in Callers, Write(c)
    PROVE  Ledger'
  <1> DEFINE request == IF At(c, "update") THEN Message("update", id[c], 0)
                                           ELSE Message("query", id[c], asked[c])
  <1>1. /\ pc[c] = "write" /\ stdin' = Append(stdin, request)
        /\ pc' = [pc EXCEPT ![c] = "register"]
        /\ UNCHANGED <<id, stdout, serving, channel, alive, reader>>
    BY DEF Write, caller, client, server
  <1>2. request \in ToServer /\ request.id = id[c] /\ request.type # "reply"
    BY DEF Message, ToServer, Ground, TypeOK
  <1>3. /\ pc \in [Callers -> {"next", "write", "register", "wait", "parse"}]
        /\ \A d \in Callers : id[d] \in Nat
        /\ stdin \in Seq(ToServer)
    BY DEF Ground, TypeOK
  <1> HIDE DEF request
  <1>4. \A d \in Callers \ {c} : pc[d] # "next" => id[d] # id[c]
    BY <1>1 DEF Traffic, FreshIds
  <1>5. ASSUME NEW i, i # id[c] PROVE Moved(i)
    <2>1. Places(stdin', "reply", i) = Places(stdin, "reply", i)
      BY <1>1, <1>2, <1>3, <1>5, PlacesAppend
    <2> QED
      BY <1>1, <2>1, StillMoved DEF Parts, Places, InHand
  <1>6. ASSUME Absent(id[c]) PROVE Sole(id[c])'
    <2>1. One(Places(stdin', "reply", id[c]))
      BY <1>1, <1>2, <1>3, <1>6, PlacesAppend DEF Absent
    <2>2. /\ InHand(serving', id[c]) = {} /\ Places(stdout', "callback", id[c]) = {}
          /\ InHand(channel', id[c]) = {}
      BY <1>1, <1>6 DEF Absent
    <2> QED
      BY <1>1, <2>1, <2>2 DEF Sole
  <1>7. /\ Outstanding(c)' /\ ~Outstanding(c)
        /\ \A d \in Callers \ {c} : Outstanding(d)' <=> Outstanding(d)
    BY <1>1, <1>3 DEF Outstanding
  <1> SUFFICES ASSUME alive', reader' # "gone"
               PROVE  /\ \A i \in Nat : Absent(i)' \/ \E d \in Callers : Outstanding(d)' /\ id'[d] = i
                      /\ reader' # "stuck" => \A d \in Callers : Outstanding(d)' => Sole(id[d])'
                      /\ reader' = "stuck" =>
                            \E b \in Callers : /\ Outstanding(b)' /\ Absent(id[b])'
                                               /\ \A d \in Callers \ {b} : Outstanding(d)' => Sole(id[d])'
    BY DEF Ledger
  <1>8. /\ \A i \in Nat : Absent(i) \/ \E d \in Callers : Outstanding(d) /\ id[d] = i
        /\ reader # "stuck" => \A d \in Callers : Outstanding(d) => Sole(id[d])
        /\ reader = "stuck" =>
              \E b \in Callers : /\ Outstanding(b) /\ Absent(id[b])
                                 /\ \A d \in Callers \ {b} : Outstanding(d) => Sole(id[d])
    BY <1>1 DEF Ledger
  <1>9. Sole(id[c])'
    <2>1. ~ \E d \in Callers : Outstanding(d) /\ id[d] = id[c]
      BY <1>4, <1>7 DEF Outstanding
    <2> QED
      BY <1>3, <1>6, <1>8, <2>1
  <1>10. ASSUME NEW d \in Callers \ {c}, Outstanding(d)
         PROVE  (Absent(id[d]) => Absent(id[d])') /\ (Sole(id[d]) => Sole(id[d])')
    <2>1. Moved(id[d]) /\ id'[d] = id[d]
      BY <1>1, <1>4, <1>5, <1>10 DEF Outstanding
    <2>2. Absent(id[d]) => Absent(id[d])'
      BY <2>1 DEF Moved, Absent
    <2>3. Sole(id[d]) => Sole(id[d])'
      BY <2>1 DEF Moved, Sole
    <2> QED
      BY <2>2, <2>3
  <1>11. ASSUME NEW i \in Nat PROVE Absent(i)' \/ \E d \in Callers : Outstanding(d)' /\ id'[d] = i
    <2>1. CASE i = id[c]
      BY <1>1, <1>7, <2>1
    <2>2. CASE i # id[c]
      BY <1>1, <1>5, <1>7, <1>8, <2>2 DEF Moved
    <2> QED
      BY <2>1, <2>2
  <1>12. reader' # "stuck" => \A d \in Callers : Outstanding(d)' => Sole(id[d])'
    BY <1>1, <1>7, <1>8, <1>9, <1>10
  <1>13. ASSUME reader' = "stuck"
         PROVE  \E b \in Callers : /\ Outstanding(b)' /\ Absent(id[b])'
                                   /\ \A d \in Callers \ {b} : Outstanding(d)' => Sole(id[d])'
    <2>1. PICK b \in Callers : /\ Outstanding(b) /\ Absent(id[b])
                               /\ \A d \in Callers \ {b} : Outstanding(d) => Sole(id[d])
      BY <1>1, <1>8, <1>13
    <2>2. b # c
      BY <1>7, <2>1
    <2>3. Outstanding(b)' /\ Absent(id[b])'
      BY <1>7, <1>10, <2>1, <2>2
    <2>4. \A d \in Callers \ {b} : Outstanding(d)' => Sole(id[d])'
      BY <1>7, <1>9, <1>10, <2>1
    <2> QED
      BY <2>3, <2>4
  <1> QED
    BY <1>11, <1>12, <1>13

\* The answer is parsed: it was in the channel only, now it is nowhere.
LEMMA ParseLedger ==
    ASSUME Ground, Traffic, Ledger, NEW c \in Callers, Parse(c)
    PROVE  Ledger'
  <1>1. PICK m \in channel : m.id = id[c] /\ channel' = channel \ {m}
    BY DEF Parse
  <1>2. /\ pc[c] = "parse" /\ pc' = [pc EXCEPT ![c] = "next"]
        /\ UNCHANGED <<id, stdin, stdout, serving, alive, reader>>
    BY DEF Parse, Advance, server
  <1>3. /\ pc \in [Callers -> {"next", "write", "register", "wait", "parse"}]
        /\ \A d \in Callers : id[d] \in Nat
    BY DEF Ground, TypeOK
  <1>4. \A d \in Callers \ {c} : pc[d] # "next" => id[d] # id[c]
    BY <1>2 DEF Traffic, FreshIds
  <1>5. ASSUME NEW i, i # id[c] PROVE Moved(i)
    <2>1. InHand(channel', i) = InHand(channel, i)
      BY <1>1, <1>5, HandTakes
    <2> QED
      BY <1>2, <2>1, StillMoved DEF Parts, Places
  <1>6. InHand(channel, id[c]) # {}
    BY <1>1, HandTakes
  <1>7. ASSUME Sole(id[c]) PROVE Absent(id[c])'
    <2>1. /\ Places(stdin, "reply", id[c]) = {} /\ InHand(serving, id[c]) = {}
          /\ Places(stdout, "callback", id[c]) = {} /\ One(InHand(channel, id[c]))
      BY <1>6, <1>7 DEF Sole
    <2>2. InHand(channel', id[c]) = {}
      BY <1>1, <2>1, HandTakes
    <2> QED
      BY <1>2, <2>1, <2>2 DEF Absent
  <1>8. /\ ~Outstanding(c)' /\ Outstanding(c)
        /\ \A d \in Callers \ {c} : Outstanding(d)' <=> Outstanding(d)
    BY <1>2, <1>3 DEF Outstanding
  <1> SUFFICES ASSUME alive', reader' # "gone"
               PROVE  /\ \A i \in Nat : Absent(i)' \/ \E d \in Callers : Outstanding(d)' /\ id'[d] = i
                      /\ reader' # "stuck" => \A d \in Callers : Outstanding(d)' => Sole(id[d])'
                      /\ reader' = "stuck" =>
                            \E b \in Callers : /\ Outstanding(b)' /\ Absent(id[b])'
                                               /\ \A d \in Callers \ {b} : Outstanding(d)' => Sole(id[d])'
    BY DEF Ledger
  <1>9. /\ \A i \in Nat : Absent(i) \/ \E d \in Callers : Outstanding(d) /\ id[d] = i
        /\ reader # "stuck" => \A d \in Callers : Outstanding(d) => Sole(id[d])
        /\ reader = "stuck" =>
              \E b \in Callers : /\ Outstanding(b) /\ Absent(id[b])
                                 /\ \A d \in Callers \ {b} : Outstanding(d) => Sole(id[d])
    BY <1>2 DEF Ledger
  <1>10. ~Absent(id[c])
    BY <1>6 DEF Absent
  <1>11. Absent(id[c])'
    BY <1>7, <1>8, <1>9, <1>10
  <1>12. ASSUME NEW d \in Callers \ {c}, Outstanding(d)
         PROVE  (Absent(id[d]) => Absent(id[d])') /\ (Sole(id[d]) => Sole(id[d])')
    <2>1. Moved(id[d]) /\ id'[d] = id[d]
      BY <1>2, <1>4, <1>5, <1>12 DEF Outstanding
    <2>2. Absent(id[d]) => Absent(id[d])'
      BY <2>1 DEF Moved, Absent
    <2>3. Sole(id[d]) => Sole(id[d])'
      BY <2>1 DEF Moved, Sole
    <2> QED
      BY <2>2, <2>3
  <1>13. ASSUME NEW i \in Nat PROVE Absent(i)' \/ \E d \in Callers : Outstanding(d)' /\ id'[d] = i
    <2>1. CASE i = id[c]
      BY <1>2, <1>11, <2>1 DEF Absent
    <2>2. CASE i # id[c]
      BY <1>2, <1>5, <1>8, <1>9, <2>2 DEF Moved
    <2> QED
      BY <2>1, <2>2
  <1>14. reader' # "stuck" => \A d \in Callers : Outstanding(d)' => Sole(id[d])'
    BY <1>2, <1>8, <1>9, <1>12
  <1>15. ASSUME reader' = "stuck"
         PROVE  \E b \in Callers : /\ Outstanding(b)' /\ Absent(id[b])'
                                   /\ \A d \in Callers \ {b} : Outstanding(d)' => Sole(id[d])'
    <2>1. PICK b \in Callers : /\ Outstanding(b) /\ Absent(id[b])
                               /\ \A d \in Callers \ {b} : Outstanding(d) => Sole(id[d])
      BY <1>2, <1>9, <1>15
    <2>2. b # c
      BY <1>10, <2>1
    <2>3. Outstanding(b)' /\ Absent(id[b])'
      BY <1>8, <1>12, <2>1, <2>2
    <2>4. \A d \in Callers \ {b} : Outstanding(d)' => Sole(id[d])'
      BY <1>8, <1>12, <2>1
    <2> QED
      BY <2>3, <2>4
  <1> QED
    BY <1>13, <1>14, <1>15

\* An answer that finds its channel, or a callback, leaves the pipe.
LEMMA ReaderMoves ==
    ASSUME Ground, Deliver \/ TakeCallback, NEW i
    PROVE  Moved(i)
  <1> DEFINE m == Head(stdout)
  <1>1. stdout \in Seq(FromServer) /\ stdout # <<>> /\ stdout' = Tail(stdout)
        /\ UNCHANGED <<stdin, serving>>
    BY DEF Deliver, TakeCallback, Scanning, Ground, TypeOK, server
  <1>2. /\ Places(stdout, "callback", i) = {} =>
              /\ m.id # i \/ m.type = "callback"
              /\ Places(stdout', "callback", i) = {}
        /\ One(Places(stdout, "callback", i)) =>
              IF m.id = i /\ m.type # "callback"
              THEN Places(stdout', "callback", i) = {}
              ELSE One(Places(stdout', "callback", i))
    BY <1>1, PlacesTail
  <1>3. CASE Deliver
    <2>1. channel' = channel \cup {m} /\ m.type # "callback"
      BY <1>3 DEF Deliver
    <2>2. /\ m.id # i => InHand(channel', i) = InHand(channel, i)
          /\ m.id = i /\ InHand(channel, i) = {} => One(InHand(channel', i))
      BY <2>1, HandAdds
    <2> HIDE DEF m
    <2> QED
      BY <1>1, <1>2, <2>1, <2>2 DEF Moved, Absent, Sole
  <1>4. CASE TakeCallback
    <2>1. channel' = channel /\ m.type = "callback"
      BY <1>4 DEF TakeCallback, client
    <2> HIDE DEF m
    <2> QED
      BY <1>1, <1>2, <2>1 DEF Moved, Absent, Sole
  <1> QED
    BY <1>3, <1>4

\* An answer that finds no channel is dropped, and with it the reader.
LEMMA DropLedger ==
    ASSUME Ground, Traffic, Ledger, DeliverTooEarly
    PROVE  Ledger'
  <1> DEFINE m == Head(stdout)
  <1>1. /\ stdout \in Seq(FromServer) /\ stdout # <<>> /\ stdout' = Tail(stdout)
        /\ m.type # "callback" /\ reader = "scan" /\ reader' = "stuck"
        /\ UNCHANGED <<pc, id, stdin, serving, channel, alive>>
    BY DEF DeliverTooEarly, Scanning, Ground, TypeOK, client, server
  <1>2. PICK lost \in Nat : lost = m.id
    <2>1. m \in FromServer
      BY <1>1, PipeTail
    <2> HIDE DEF m
    <2> QED
      BY <2>1 DEF FromServer
  <1>3. ASSUME NEW i
        PROVE  /\ Places(stdout, "callback", i) = {} =>
                     lost # i /\ Places(stdout', "callback", i) = {}
               /\ One(Places(stdout, "callback", i)) =>
                     IF lost = i THEN Places(stdout', "callback", i) = {}
                     ELSE One(Places(stdout', "callback", i))
    BY <1>1, <1>2, PlacesTail
  <1> HIDE DEF m
  <1>4. ASSUME NEW i, i # lost PROVE Moved(i)
    <2>1. /\ Places(stdin', "reply", i) = Places(stdin, "reply", i)
          /\ InHand(serving', i) = InHand(serving, i) /\ InHand(channel', i) = InHand(channel, i)
      BY <1>1
    <2>2. /\ Places(stdout, "callback", i) = {} => Places(stdout', "callback", i) = {}
          /\ One(Places(stdout, "callback", i)) => One(Places(stdout', "callback", i))
      BY <1>3, <1>4
    <2> QED
      BY <2>1, <2>2 DEF Moved, Absent, Sole
  <1>5. ~Absent(lost) /\ (Sole(lost) => Absent(lost)')
    <2>1. Places(stdout, "callback", lost) # {}
      BY <1>3
    <2>2. ~Absent(lost)
      BY <2>1 DEF Absent
    <2>3. ASSUME Sole(lost) PROVE Absent(lost)'
      <3>1. /\ Places(stdin, "reply", lost) = {} /\ InHand(serving, lost) = {}
            /\ One(Places(stdout, "callback", lost)) /\ InHand(channel, lost) = {}
        BY <2>1, <2>3 DEF Sole
      <3>2. Places(stdout', "callback", lost) = {}
        BY <1>3, <3>1
      <3>3. /\ Places(stdin', "reply", lost) = {} /\ InHand(serving', lost) = {}
            /\ InHand(channel', lost) = {}
        BY <1>1, <3>1
      <3> QED
        BY <3>2, <3>3 DEF Absent
    <2> QED
      BY <2>2, <2>3
  <1> SUFFICES ASSUME alive'
               PROVE  /\ \A i \in Nat : Absent(i)' \/ \E d \in Callers : Outstanding(d)' /\ id'[d] = i
                      /\ \E b \in Callers : /\ Outstanding(b)' /\ Absent(id[b])'
                                            /\ \A d \in Callers \ {b} : Outstanding(d)' => Sole(id[d])'
    BY <1>1 DEF Ledger
  <1>6. /\ \A i \in Nat : Absent(i) \/ \E d \in Callers : Outstanding(d) /\ id[d] = i
        /\ \A d \in Callers : Outstanding(d) => Sole(id[d])
    BY <1>1 DEF Ledger
  <1>7. PICK b \in Callers : Outstanding(b) /\ id[b] = lost
    BY <1>2, <1>5, <1>6
  <1>8. \A d \in Callers : (Outstanding(d)' <=> Outstanding(d)) /\ id'[d] = id[d]
    BY <1>1 DEF Outstanding
  <1>9. Absent(id[b])'
    <2>1. Absent(lost)'
      BY <1>5, <1>6, <1>7
    <2>2. id'[b] = lost
      BY <1>7, <1>8
    <2> QED
      BY <2>1, <2>2 DEF Absent
  <1>10. ASSUME NEW d \in Callers \ {b}, Outstanding(d) PROVE Sole(id[d])'
    <2>1. id[d] # lost
      BY <1>7, <1>10 DEF Traffic, FreshIds, Outstanding
    <2>2. Moved(id[d]) /\ Sole(id[d]) /\ id'[d] = id[d]
      BY <1>4, <1>6, <1>8, <1>10, <2>1
    <2> QED
      BY <2>2 DEF Moved, Sole
  <1>11. ASSUME NEW i \in Nat PROVE Absent(i)' \/ \E d \in Callers : Outstanding(d)' /\ id'[d] = i
    <2>1. CASE i = lost
      BY <1>7, <1>8, <2>1
    <2>2. CASE i # lost
      BY <1>4, <1>6, <1>8, <2>2 DEF Moved
    <2> QED
      BY <2>1, <2>2
  <1> QED
    BY <1>7, <1>8, <1>9, <1>10, <1>11

\* The child takes requests and answers them.
LEMMA ServerMoves ==
    ASSUME Ground, ServerTake \/ ServerCallback \/ ServerAnswer, NEW i
    PROVE  Moved(i)
  <1>1. stdin \in Seq(ToServer) /\ stdout \in Seq(FromServer) /\ serving \subseteq ToServer
    BY DEF Ground, TypeOK
  <1>2. CASE ServerTake
    <2> DEFINE m == Head(stdin)
    <2>1. /\ stdin # <<>> /\ stdin' = Tail(stdin) /\ UNCHANGED <<stdout, channel>>
          /\ IF m.type = "reply" THEN UNCHANGED serving ELSE serving' = serving \cup {m}
      BY <1>2 DEF ServerTake, client
    <2>2. /\ Places(stdin, "reply", i) = {} =>
                /\ m.id # i \/ m.type = "reply"
                /\ Places(stdin', "reply", i) = {}
          /\ One(Places(stdin, "reply", i)) =>
                IF m.id = i /\ m.type # "reply"
                THEN Places(stdin', "reply", i) = {}
                ELSE One(Places(stdin', "reply", i))
      BY <1>1, <2>1, PlacesTail
    <2>3. /\ m.id # i => InHand(serving \cup {m}, i) = InHand(serving, i)
          /\ m.id = i /\ InHand(serving, i) = {} => One(InHand(serving \cup {m}, i))
      BY HandAdds
    <2>4. /\ Places(stdout', "callback", i) = Places(stdout, "callback", i)
          /\ InHand(channel', i) = InHand(channel, i)
      BY <2>1
    <2> HIDE DEF m
    <2>5. CASE m.id = i /\ m.type # "reply"
      BY <2>1, <2>2, <2>3, <2>4, <2>5 DEF Moved, Absent, Sole
    <2>6. CASE ~(m.id = i /\ m.type # "reply")
      <3>1. InHand(serving', i) = InHand(serving, i)
        BY <2>1, <2>3, <2>6
      <3> QED
        BY <2>2, <2>4, <2>6, <3>1 DEF Moved, Absent, Sole
    <2> QED
      BY <2>5, <2>6
  <1>3. CASE ServerCallback
    <2>1. PICK r \in serving : stdout' = Append(stdout, Message("callback", r.id, 0))
      BY <1>3 DEF ServerCallback
    <2> DEFINE m == Message("callback", r.id, 0)
    <2>2. m \in FromServer /\ m.type = "callback"
      BY <1>1 DEF Message, FromServer, ToServer
    <2>3. stdout' = Append(stdout, m) /\ UNCHANGED <<stdin, serving, channel>>
      BY <1>3, <2>1 DEF ServerCallback, client
    <2> HIDE DEF m
    <2>4. Places(stdout', "callback", i) = Places(stdout, "callback", i)
      BY <1>1, <2>2, <2>3, PlacesAppend
    <2> QED
      BY <2>3, <2>4, StillMoved DEF Parts, Places, InHand
  <1>4. CASE ServerAnswer
    <2>1. \E r \in serving, type \in {"answer", "toolong"}, snap \in Nat :
            serving' = serving \ {r} /\ stdout' = Append(stdout, Message(type, r.id, snap))
      <3>1. PICK r \in serving :
              /\ serving' = serving \ {r}
              /\ \/ stdout' = Append(stdout, Message("answer", r.id, made + 1))
                 \/ stdout' = Append(stdout, Message("answer", r.id, 0))
                 \/ \E type \in {"answer", "toolong"} :
                       stdout' = Append(stdout, Message(type, r.id, r.snap))
        BY <1>4 DEF ServerAnswer
      <3>2. made + 1 \in Nat /\ r.snap \in Nat
        BY <1>1 DEF Ground, TypeOK, ToServer
      <3>3. \E type \in {"answer", "toolong"}, snap \in Nat :
               stdout' = Append(stdout, Message(type, r.id, snap))
        BY <3>1, <3>2
      <3> QED
        BY <3>1, <3>3
    <2>2. PICK r \in serving, type \in {"answer", "toolong"}, snap \in Nat :
            serving' = serving \ {r} /\ stdout' = Append(stdout, Message(type, r.id, snap))
      BY <2>1
    <2> DEFINE m == Message(type, r.id, snap)
    <2>3. m \in FromServer /\ m.type # "callback" /\ m.id = r.id
      BY <1>1 DEF Message, FromServer, ToServer
    <2>4. stdout' = Append(stdout, m) /\ UNCHANGED <<stdin, channel>>
      BY <1>4, <2>2 DEF ServerAnswer, client
    <2> HIDE DEF m
    <2>5. /\ r.id # i => Places(stdout', "callback", i) = Places(stdout, "callback", i)
          /\ r.id = i /\ Places(stdout, "callback", i) = {} =>
                 One(Places(stdout', "callback", i))
      BY <1>1, <2>3, <2>4, PlacesAppend
    <2>6. /\ r.id # i => InHand(serving', i) = InHand(serving, i)
          /\ r.id = i => InHand(serving, i) # {}
          /\ r.id = i /\ One(InHand(serving, i)) => InHand(serving', i) = {}
      BY <2>2, HandTakes
    <2>7. /\ Places(stdin', "reply", i) = Places(stdin, "reply", i)
          /\ InHand(channel', i) = InHand(channel, i)
      BY <2>4
    <2> QED
      BY <2>5, <2>6, <2>7 DEF Moved, Absent, Sole
  <1> QED
    BY <1>2, <1>3, <1>4

\* A callback is answered: a reply is no request.
LEMMA CallbackLedger ==
    ASSUME Ground, Ledger, OneInline, CallbackStep
    PROVE  Ledger'
  <1>1. PICK work \in answering :
          \/ AnswerCallback(work[1], work[2])
          \/ InlineCallbackFails(work[2])
          \/ GoroutineCallbackFails
    BY DEF CallbackStep
  <1>2. CASE InlineCallbackFails(work[2]) \/ GoroutineCallbackFails
    BY <1>2 DEF InlineCallbackFails, GoroutineCallbackFails, server, Ledger
  <1>3. CASE AnswerCallback(work[1], work[2])
    <2> DEFINE m == Message("reply", work[2], 0)
    <2>1. /\ stdin' = Append(stdin, m)
          /\ reader' = IF work[1] = "inline" THEN "scan" ELSE reader
          /\ UNCHANGED <<pc, id, serving, stdout, channel, alive>>
      BY <1>3 DEF AnswerCallback, caller, client, server
    <2>2. stdin \in Seq(ToServer) /\ m \in ToServer /\ m.type = "reply"
      <3>1. work[2] \in Nat
        BY DEF Ground, TypeOK
      <3> QED
        BY <3>1 DEF Message, ToServer, Ground, TypeOK
    <2> HIDE DEF m
    <2>3. ASSUME NEW i PROVE Moved(i)
      <3>1. Places(stdin', "reply", i) = Places(stdin, "reply", i)
        BY <2>1, <2>2, PlacesAppend
      <3> QED
        BY <2>1, <3>1, StillMoved DEF Parts, Places, InHand
    <2>4. SameWaiting
      BY <2>1 DEF SameWaiting, Outstanding
    <2>5. work[1] = "inline" => reader = "callback"
      BY DEF OneInline
    <2>6. TypeOK
      BY DEF Ground
    <2> QED
      BY <2>1, <2>3, <2>4, <2>5, <2>6, MovedLedger
  <1> QED
    BY <1>1, <1>2, <1>3

LEMMA NextLedger ==
    ASSUME Ground, Traffic, Ledger, OneInline, [Next]_vars
    PROVE  Ledger'
  <1>1. ASSUME NEW c \in Callers, Begin(c) \/ CallerStep(c) PROVE Ledger'
    BY <1>1, CallerLedger, WriteLedger, ParseLedger DEF CallerStep
  <1>2. TypeOK
    BY DEF Ground
  <1>3. CASE Deliver \/ TakeCallback
    <2>1. /\ UNCHANGED <<pc, id, alive>> /\ reader = "scan"
          /\ reader' \in {"scan", "callback"}
      BY <1>3 DEF Deliver, TakeCallback, Scanning, client, server
    <2>2. SameWaiting
      BY <2>1 DEF SameWaiting, Outstanding
    <2> QED
      BY <1>2, <1>3, <2>1, <2>2, ReaderMoves, MovedLedger
  <1>4. CASE DeliverTooEarly
    BY <1>4, DropLedger
  <1>5. CASE DeliverTooLong \/ ReaderEof \/ ServerExit
    BY <1>5 DEF DeliverTooLong, ReaderEof, ServerExit, Ledger
  <1>6. CASE CallbackStep
    BY <1>6, CallbackLedger
  <1>7. CASE ServerTake \/ ServerCallback \/ ServerAnswer
    <2>1. UNCHANGED <<pc, id, alive, reader>>
      BY <1>7 DEF ServerTake, ServerCallback, ServerAnswer, caller
    <2>2. SameWaiting
      BY <2>1 DEF SameWaiting, Outstanding
    <2> QED
      BY <1>2, <1>7, <2>1, <2>2, ServerMoves, MovedLedger
  <1>8. CASE UNCHANGED vars
    <2>1. UNCHANGED <<pc, id, stdin, stdout, serving, channel, alive, reader>>
      BY <1>8 DEF vars, caller, client, server
    <2>2. SameWaiting
      BY <2>1 DEF SameWaiting, Outstanding
    <2>3. \A i \in Nat : Moved(i)
      BY <2>1, StillMoved DEF Parts, Places, InHand
    <2> QED
      BY <1>2, <2>1, <2>2, <2>3, MovedLedger
  <1> QED
    BY <1>1, <1>3, <1>4, <1>5, <1>6, <1>7, <1>8 DEF Next, ReaderStep

LEMMA NextInline ==
    ASSUME Ground, OneInline, [Next]_vars
    PROVE  OneInline'
  <1>1. ASSUME UNCHANGED <<answering, reader>> PROVE OneInline'
    BY <1>1 DEF OneInline
  <1>2. ASSUME answering' = {} PROVE OneInline'
    BY <1>2 DEF OneInline
  <1>3. ASSUME NEW c \in Callers, Begin(c) \/ CallerStep(c)
        PROVE  UNCHANGED <<answering, reader>> \/ answering' = {}
    BY <1>3 DEF CallerStep, Begin, Lock, Unlock, Started, Build, Write, WriteFails,
       WriteFailsAtStart, Crash, Register, Receive, Parse
  <1>4. CASE Deliver \/ DeliverTooEarly \/ DeliverTooLong \/ ReaderEof
    <2>1. reader = "scan" /\ UNCHANGED answering
      BY <1>4 DEF Deliver, DeliverTooEarly, DeliverTooLong, ReaderEof, Scanning
    <2>2. \A w \in answering : w[1] # "inline"
      BY <2>1 DEF OneInline
    <2> QED
      BY <2>1, <2>2 DEF OneInline
  <1>5. CASE TakeCallback
    <2>1. reader = "scan"
      BY <1>5 DEF TakeCallback, Scanning
    <2>2. PICK mode \in CallbackModes :
            /\ answering' = answering \cup {<<mode, Head(stdout).id>>}
            /\ reader' = IF mode = "inline" THEN "callback" ELSE reader
      BY <1>5 DEF TakeCallback
    <2>3. \A w \in answering : w[1] # "inline"
      BY <2>1 DEF OneInline
    <2> QED
      BY <2>2, <2>3 DEF OneInline
  <1>6. CASE CallbackStep
    <2>1. PICK work \in answering :
            \/ AnswerCallback(work[1], work[2])
            \/ work[1] = "inline" /\ InlineCallbackFails(work[2])
            \/ GoroutineCallbackFails
      BY <1>6 DEF CallbackStep
    <2>2. work = <<work[1], work[2]>>
      BY DEF Ground, TypeOK
    <2>3. CASE work[1] = "inline" /\ answering' = answering \ {work}
      BY <2>3 DEF OneInline
    <2>4. CASE work[1] # "inline" /\ answering' = answering \ {work} /\ reader' = reader
      BY <2>4 DEF OneInline
    <2> QED
      BY <1>2, <2>1, <2>2, <2>3, <2>4
      DEF AnswerCallback, InlineCallbackFails, GoroutineCallbackFails, Crash
  <1>7. ServerTake \/ ServerCallback \/ ServerAnswer \/ ServerExit \/ UNCHANGED vars
            => UNCHANGED <<answering, reader>>
    BY DEF ServerTake, ServerCallback, ServerAnswer, ServerExit, vars
  <1> QED
    BY <1>1, <1>2, <1>3, <1>4, <1>5, <1>6, <1>7 DEF Next, ReaderStep

LEMMA InitLedger == Init => Ledger /\ OneInline
  <1> SUFFICES ASSUME Init PROVE Ledger /\ OneInline
    OBVIOUS
  <1>1. /\ stdin = <<>> /\ stdout = <<>> /\ serving = {} /\ channel = {} /\ answering = {}
        /\ reader = "scan" /\ \A c \in Callers : ~Outstanding(c)
    BY DEF Init, Outstanding
  <1>2. \A i \in Nat : Absent(i)
    BY <1>1 DEF Absent, Places, InHand
  <1> QED
    BY <1>1, <1>2 DEF Ledger, OneInline

LEMMA LedgerKept == Spec => [](TypeOK /\ Traffic /\ Ledger)
  <1>1. Init => Ground /\ Traffic /\ Ledger /\ OneInline
    BY InitGround, InitTraffic, InitLedger
  <1>2. Ground /\ Traffic /\ Ledger /\ OneInline /\ [Next]_vars
          => (Ground /\ Traffic /\ Ledger /\ OneInline)'
    BY NextGround, NextTraffic, NextLedger, NextInline
  <1>3. Ground => TypeOK
    BY DEF Ground
  <1> QED
    BY <1>1, <1>2, <1>3, PTL DEF Spec

\* While the child lives and the reader reads, a request that a caller waits
\* for is exactly once on its way, in a pipe, with the child or in a channel.
THEOREM Conserved == Spec => []RequestConserved
  <1>1. Ledger => RequestConserved
    BY CopiesCount DEF Ledger, RequestConserved
  <1> QED
    BY <1>1, LedgerKept, PTL

\* An answer that beats AddHandler strands the caller that asked for it, and
\* no other.
THEOREM StrandsOne == Spec => []StuckReaderStrandsOne
  <1>1. ASSUME Ledger, reader = "stuck", alive
        PROVE  Cardinality({c \in Callers : Outstanding(c) /\ Copies(id[c]) = 0}) = 1
    <2>1. PICK c \in Callers : /\ Outstanding(c) /\ Absent(id[c])
                               /\ \A d \in Callers \ {c} : Outstanding(d) => Sole(id[d])
      BY <1>1 DEF Ledger
    <2>2. Copies(id[c]) = 0
      BY <2>1, CopiesCount
    <2>3. \A d \in Callers \ {c} : Outstanding(d) => Copies(id[d]) = 1
      BY <2>1, CopiesCount
    <2>4. {d \in Callers : Outstanding(d) /\ Copies(id[d]) = 0} = {c}
      BY <2>1, <2>2, <2>3
    <2> QED
      BY <2>4, FS_Singleton
  <1>2. Ledger => StuckReaderStrandsOne
    BY <1>1 DEF StuckReaderStrandsOne
  <1> QED
    BY <1>2, LedgerKept, PTL

-----------------------------------------------------------------------------
(* A single caller, which is what the server has: lspReady lets the scanner *)
(* loop in when initTsGo has run, and the loop handles one message at a     *)
(* time.                                                                    *)

OneCaller == \A c, d \in Callers : c = d

\* Nobody is about to say anything but the child.
Silence == stdin = <<>> /\ stdout = <<>> /\ channel = {} /\ answering = {}

\* The child works on one request, and waits for the answer to a callback.
Pending ==
    /\ \A r, s \in serving : r = s
    /\ \A r \in serving : r.id \in awaiting

\* With one caller there is one message at a time, wherever it is.
Token ==
    \/ Silence /\ \A r, s \in serving : r = s
    \/ \E m : /\ stdin = <<m>> /\ stdout = <<>> /\ channel = {} /\ answering = {}
              /\ IF m.type = "reply" THEN Pending ELSE serving = {}
    \/ \E m : /\ stdin = <<>> /\ stdout = <<m>> /\ channel = {} /\ answering = {}
              /\ IF m.type = "callback" THEN Pending ELSE serving = {}
    \/ \E m : /\ stdin = <<>> /\ stdout = <<>> /\ channel = {m} /\ answering = {}
              /\ serving = {}
    \/ \E w : /\ stdin = <<>> /\ stdout = <<>> /\ channel = {} /\ answering = {w}
              /\ Pending

\* A caller that waits for nothing finds all quiet.
Turn ==
    /\ Token
    /\ ~alive => serving = {}
    /\ \A c \in Callers : /\ pc[c] \in {"next", "write"} => Silence /\ serving = {}
                          /\ ~torn[c]

LEMMA Singletons ==
    ASSUME NEW m
    PROVE  /\ <<m>> # <<>> /\ Head(<<m>>) = m /\ Tail(<<m>>) = <<>>
           /\ Append(<<>>, m) = <<m>>
  OBVIOUS

\* What a step does to the child's and the pipes' state.
Still == UNCHANGED <<stdin, stdout, channel, answering, serving, awaiting, alive>>

LEMMA StillTurn ==
    ASSUME Turn, Still, NEW c \in Callers, OneCaller, ~torn'[c],
           pc'[c] \in {"next", "write"} => pc[c] \in {"next", "write"}
    PROVE  Turn'
  <1>1. UNCHANGED Token /\ UNCHANGED Silence
    BY DEF Still, Token, Silence, Pending
  <1>2. UNCHANGED <<serving, alive>>
    BY DEF Still
  <1> QED
    BY <1>1, <1>2 DEF Turn, OneCaller

LEMMA CallerTurn ==
    ASSUME Ground, Turn, OneCaller, NEW c \in Callers, Begin(c) \/ CallerStep(c)
    PROVE  Turn'
  <1>1. /\ pc \in [Callers -> {"next", "write", "register", "wait", "parse"}]
        /\ torn \in [Callers -> BOOLEAN] /\ ~torn[c]
    BY DEF Ground, TypeOK, Turn
  <1>2. pc[c] \in {"next", "write"} => Silence /\ serving = {}
    BY DEF Turn
  <1>3. CASE Begin(c)
    BY <1>1, <1>3, StillTurn DEF Begin, Still, client, server
  <1>4. CASE Lock(c) \/ Unlock(c) \/ Started(c)
    <2>1. pc[c] = "next"
      BY <1>4 DEF Lock, Unlock, Started, At, Ground, InProgram, Placed, Requests
    <2>2. Still /\ UNCHANGED torn
      BY <1>4 DEF Lock, Unlock, Started, Still, server
    <2> QED
      BY <1>1, <2>1, <2>2, StillTurn
  <1>5. CASE Build(c) \/ Register(c) \/ Receive(c)
    <2>1. Still /\ UNCHANGED torn
      BY <1>5 DEF Build, Register, Receive, Still, client, server
    <2>2. \/ pc[c] = "next"
          \/ pc'[c] \in {"wait", "parse"}
      BY <1>1, <1>5 DEF Build, Register, Receive
    <2> QED
      BY <1>1, <2>1, <2>2, StillTurn
  <1>6. CASE Write(c)
    <2> DEFINE m == IF At(c, "update") THEN Message("update", id[c], 0)
                                       ELSE Message("query", id[c], asked[c])
    <2>1. /\ pc[c] = "write" /\ pc' = [pc EXCEPT ![c] = "register"]
          /\ stdin' = Append(stdin, m)
          /\ UNCHANGED <<torn, stdout, channel, answering, serving, awaiting, alive>>
      BY <1>6 DEF Write, caller, client, server
    <2>2. m.type # "reply"
      BY DEF Message
    <2> HIDE DEF m
    <2>3. /\ stdin' = <<m>> /\ stdout' = <<>> /\ channel' = {} /\ answering' = {}
          /\ serving' = {}
      BY <1>2, <2>1, Singletons DEF Silence
    <2>4. Token'
      BY <2>2, <2>3 DEF Token
    <2>5. pc'[c] = "register"
      BY <1>1, <2>1
    <2> QED
      BY <1>1, <2>1, <2>3, <2>4, <2>5 DEF Turn, OneCaller
  <1>7. CASE WriteFails(c)
    <2>1. Still /\ UNCHANGED torn /\ pc[c] = "write"
      BY <1>7 DEF WriteFails, Still, server
    <2> QED
      BY <1>1, <2>1, StillTurn
  <1>8. CASE WriteFailsAtStart(c)
    <2>1. Still /\ UNCHANGED torn /\ pc[c] = "write"
      BY <1>2, <1>8 DEF WriteFailsAtStart, Crash, Still, Silence, client, server
    <2> QED
      BY <1>1, <2>1, StillTurn
  <1>9. CASE Parse(c)
    <2>1. PICK m \in channel : channel' = channel \ {m}
      BY <1>9 DEF Parse
    <2>2. /\ UNCHANGED <<stdin, stdout, answering, serving, alive>>
          /\ torn' = [torn EXCEPT ![c] = FALSE]
      BY <1>9 DEF Parse, server
    <2>3. /\ stdin = <<>> /\ stdout = <<>> /\ channel = {m} /\ answering = {} /\ serving = {}
      BY <2>1 DEF Turn, Token, Silence
    <2>4. Silence' /\ serving' = {}
      BY <2>1, <2>2, <2>3 DEF Silence
    <2>5. Token'
      BY <2>4 DEF Token
    <2>6. ~torn'[c]
      BY <1>1, <2>2
    <2> QED
      BY <2>4, <2>5, <2>6 DEF Turn, OneCaller
  <1> QED
    BY <1>3, <1>4, <1>5, <1>6, <1>7, <1>8, <1>9 DEF CallerStep

\* The reader has something to read only when the channel is empty, so what
\* it overwrites nobody waits for.
LEMMA ReaderTurn ==
    ASSUME Ground, Turn, OneCaller, NEW c \in Callers, ReaderStep
    PROVE  Turn'
  <1>1. ~torn[c] /\ (pc[c] \in {"next", "write"} => Silence /\ serving = {})
        /\ torn \in [Callers -> BOOLEAN]
    BY DEF Ground, TypeOK, Turn
  <1>2. CASE ReaderEof
    <2>1. Still /\ UNCHANGED <<torn, pc>>
      BY <1>2 DEF ReaderEof, Still, caller, client, server
    <2> QED
      BY <1>1, <2>1, StillTurn
  <1>3. CASE Deliver \/ DeliverTooEarly \/ DeliverTooLong \/ TakeCallback
    <2>1. /\ stdout # <<>> /\ stdout' = Tail(stdout) /\ Overwrite
          /\ UNCHANGED <<pc, stdin, serving, awaiting, alive>>
      BY <1>3 DEF Deliver, DeliverTooEarly, DeliverTooLong, TakeCallback, Scanning, client, server
    <2>2. PICK m : /\ stdin = <<>> /\ stdout = <<m>> /\ channel = {} /\ answering = {}
                   /\ IF m.type = "callback" THEN Pending ELSE serving = {}
      BY <2>1 DEF Turn, Token, Silence
    <2>3. Head(stdout) = m /\ stdin' = <<>> /\ stdout' = <<>>
      BY <2>1, <2>2, Singletons
    <2>4. ~torn'[c]
      BY <1>1, <2>1, <2>2 DEF Overwrite
    <2>5. ~(pc'[c] \in {"next", "write"})
      BY <1>1, <2>1 DEF Silence
    <2>6. CASE Deliver
      <3>1. channel' = {m} /\ answering' = {} /\ serving' = {}
        BY <2>1, <2>2, <2>3, <2>6 DEF Deliver
      <3>2. Token'
        BY <2>3, <3>1 DEF Token
      <3> QED
        BY <2>4, <2>5, <3>1, <3>2 DEF Turn, OneCaller
    <2>7. CASE DeliverTooEarly \/ DeliverTooLong
      <3>1. channel' = {} /\ answering' = {} /\ serving' = {}
        BY <2>1, <2>2, <2>3, <2>7 DEF DeliverTooEarly, DeliverTooLong, client
      <3>2. Token'
        BY <2>3, <3>1 DEF Token, Silence
      <3> QED
        BY <2>4, <2>5, <3>1, <3>2 DEF Turn, OneCaller
    <2>8. CASE TakeCallback
      <3>1. PICK w : answering' = {w}
        BY <2>2, <2>8 DEF TakeCallback
      <3>2. channel' = {} /\ Pending'
        BY <2>1, <2>2, <2>3, <2>8 DEF TakeCallback, Pending, client
      <3>3. Token'
        BY <2>3, <3>1, <3>2 DEF Token
      <3>4. ~alive' => serving' = {}
        BY <2>1 DEF Turn
      <3> QED
        BY <2>4, <2>5, <3>3, <3>4 DEF Turn, OneCaller
    <2> QED
      BY <1>3, <2>6, <2>7, <2>8
  <1> QED
    BY <1>2, <1>3 DEF ReaderStep

LEMMA CallbackTurn ==
    ASSUME Ground, Turn, OneCaller, NEW c \in Callers, CallbackStep
    PROVE  Turn'
  <1>1. ~torn[c] /\ (pc[c] \in {"next", "write"} => Silence /\ serving = {})
        /\ (~alive => serving = {})
    BY DEF Turn
  <1>2. PICK work \in answering :
          \/ AnswerCallback(work[1], work[2])
          \/ InlineCallbackFails(work[2]) /\ work[1] = "inline"
          \/ GoroutineCallbackFails
    BY DEF CallbackStep
  <1>3. /\ stdin = <<>> /\ stdout = <<>> /\ channel = {} /\ answering = {work} /\ Pending
        /\ ~(pc[c] \in {"next", "write"})
    BY <1>1 DEF Turn, Token, Silence
  <1>4. work = <<work[1], work[2]>>
    BY DEF Ground, TypeOK
  <1>5. CASE AnswerCallback(work[1], work[2])
    <2> DEFINE m == Message("reply", work[2], 0)
    <2>1. /\ stdin' = Append(stdin, m) /\ answering' = answering \ {work}
          /\ UNCHANGED <<pc, torn, stdout, channel, serving, awaiting, alive>>
      BY <1>4, <1>5 DEF AnswerCallback, caller, client, server
    <2>2. m.type = "reply"
      BY DEF Message
    <2> HIDE DEF m
    <2>3. /\ stdin' = <<m>> /\ stdout' = <<>> /\ channel' = {} /\ answering' = {} /\ Pending'
      BY <1>3, <2>1, Singletons DEF Pending
    <2>4. Token'
      BY <2>2, <2>3 DEF Token
    <2> QED
      BY <1>1, <1>3, <2>1, <2>4 DEF Turn, OneCaller
  <1>6. CASE InlineCallbackFails(work[2]) /\ work[1] = "inline"
    <2>1. /\ ~alive /\ answering' = answering \ {work}
          /\ UNCHANGED <<pc, torn, stdin, stdout, channel, serving, alive>>
      BY <1>4, <1>6 DEF InlineCallbackFails, caller, client, server
    <2>2. Silence' /\ serving' = {}
      BY <1>1, <1>3, <2>1 DEF Silence
    <2>3. Token'
      BY <2>2 DEF Token
    <2> QED
      BY <1>1, <2>1, <2>2, <2>3 DEF Turn, OneCaller
  <1>7. CASE GoroutineCallbackFails
    <2>1. /\ ~alive /\ answering' = {}
          /\ UNCHANGED <<torn, stdin, stdout, channel, serving, alive>>
      BY <1>7 DEF GoroutineCallbackFails, Crash, client, server
    <2>2. Silence' /\ serving' = {}
      BY <1>1, <1>3, <2>1 DEF Silence
    <2>3. Token'
      BY <2>2 DEF Token
    <2> QED
      BY <1>1, <2>1, <2>2, <2>3 DEF Turn, OneCaller
  <1> QED
    BY <1>2, <1>5, <1>6, <1>7

LEMMA ServerTurn ==
    ASSUME Ground, Turn, OneCaller, NEW c \in Callers,
           ServerTake \/ ServerCallback \/ ServerAnswer \/ ServerExit
    PROVE  Turn'
  <1>1. /\ ~torn[c] /\ (pc[c] \in {"next", "write"} => Silence /\ serving = {})
        /\ UNCHANGED <<pc, torn, channel, answering>>
    BY DEF Turn, ServerTake, ServerCallback, ServerAnswer, ServerExit, caller, client
  <1>2. CASE ServerTake
    <2>1. stdin # <<>> /\ stdin' = Tail(stdin) /\ alive /\ UNCHANGED <<stdout, alive>>
      BY <1>2 DEF ServerTake
    <2>2. PICK m : /\ stdin = <<m>> /\ stdout = <<>> /\ channel = {} /\ answering = {}
                   /\ IF m.type = "reply" THEN Pending ELSE serving = {}
      BY <2>1 DEF Turn, Token, Silence
    <2>3. Head(stdin) = m /\ stdin' = <<>>
      BY <2>1, <2>2, Singletons
    <2>4. Silence'
      BY <1>1, <2>1, <2>2, <2>3 DEF Silence
    <2>5. \A r, s \in serving' : r = s
      BY <1>2, <2>2, <2>3 DEF ServerTake, Pending
    <2>6. Token'
      BY <2>4, <2>5 DEF Token
    <2>7. ~(pc[c] \in {"next", "write"})
      BY <1>1, <2>1 DEF Silence
    <2> QED
      BY <1>1, <2>1, <2>6, <2>7 DEF Turn, OneCaller
  <1>3. CASE ServerCallback
    <2>1. PICK r \in serving : /\ r.id \notin awaiting /\ awaiting' = awaiting \cup {r.id}
                               /\ stdout' = Append(stdout, Message("callback", r.id, 0))
      BY <1>3 DEF ServerCallback
    <2>2. alive /\ UNCHANGED <<serving, stdin, alive>>
      BY <1>3 DEF ServerCallback
    <2>3. Silence /\ \A s \in serving : s = r
      BY <2>1 DEF Turn, Token, Pending
    <2> DEFINE m == Message("callback", r.id, 0)
    <2>4. m.type = "callback"
      BY DEF Message
    <2> HIDE DEF m
    <2>5. stdout' = <<m>> /\ stdin' = <<>> /\ channel' = {} /\ answering' = {}
      BY <1>1, <2>1, <2>2, <2>3, Singletons DEF Silence, m
    <2>6. Pending'
      BY <2>1, <2>2, <2>3 DEF Pending
    <2>7. Token'
      BY <2>4, <2>5, <2>6 DEF Token
    <2>8. ~(pc[c] \in {"next", "write"})
      BY <1>1, <2>1
    <2> QED
      BY <1>1, <2>2, <2>7, <2>8 DEF Turn, OneCaller
  <1>4. CASE ServerAnswer
    <2>1. PICK r \in serving : /\ r.id \notin awaiting /\ serving' = serving \ {r}
                               /\ \E type \in {"answer", "toolong"} : \E snap :
                                     stdout' = Append(stdout, Message(type, r.id, snap))
      BY <1>4 DEF ServerAnswer
    <2>2. PICK type \in {"answer", "toolong"} : \E snap :
             stdout' = Append(stdout, Message(type, r.id, snap))
      BY <2>1
    <2>3. PICK snap : stdout' = Append(stdout, Message(type, r.id, snap))
      BY <2>2
    <2>4. alive /\ UNCHANGED <<stdin, alive>>
      BY <1>4 DEF ServerAnswer
    <2>5. Silence /\ \A s \in serving : s = r
      BY <2>1 DEF Turn, Token, Pending
    <2> DEFINE m == Message(type, r.id, snap)
    <2>6. m.type # "callback"
      BY DEF Message
    <2> HIDE DEF m
    <2>7. stdout' = <<m>> /\ stdin' = <<>> /\ channel' = {} /\ answering' = {} /\ serving' = {}
      BY <1>1, <2>1, <2>3, <2>4, <2>5, Singletons DEF Silence, m
    <2>8. Token'
      BY <2>6, <2>7 DEF Token
    <2>9. ~(pc[c] \in {"next", "write"})
      BY <1>1, <2>1
    <2> QED
      BY <1>1, <2>4, <2>8, <2>9 DEF Turn, OneCaller
  <1>5. CASE ServerExit
    <2>1. /\ stdin' = <<>> /\ serving' = {} /\ UNCHANGED stdout
      BY <1>5 DEF ServerExit
    <2>2. Pending' /\ (Silence => Silence')
      BY <1>1, <2>1 DEF Pending, Silence
    <2>3. Token'
      <3>1. CASE stdout = <<>> /\ channel = {} /\ answering = {}
        BY <1>1, <2>1, <3>1 DEF Token, Silence
      <3>2. CASE \E m : stdout = <<m>> /\ channel = {} /\ answering = {}
        BY <1>1, <2>1, <2>2, <3>2 DEF Token
      <3>3. CASE \E m : stdout = <<>> /\ channel = {m} /\ answering = {}
        BY <1>1, <2>1, <3>3 DEF Token
      <3>4. CASE \E w : stdout = <<>> /\ channel = {} /\ answering = {w}
        BY <1>1, <2>1, <2>2, <3>4 DEF Token
      <3> QED
        BY <3>1, <3>2, <3>3, <3>4 DEF Turn, Token, Silence
    <2> QED
      BY <1>1, <2>1, <2>2, <2>3 DEF Turn, OneCaller
  <1> QED
    BY <1>2, <1>3, <1>4, <1>5

LEMMA NextTurn ==
    ASSUME Ground, Turn, OneCaller, NEW c \in Callers, [Next]_vars
    PROVE  Turn'
  <1>1. ASSUME NEW d \in Callers, Begin(d) \/ CallerStep(d) PROVE Turn'
    BY <1>1, CallerTurn
  <1>2. CASE UNCHANGED vars
    <2>1. Still /\ UNCHANGED <<torn, pc>>
      BY <1>2 DEF vars, Still, caller, client, server
    <2>2. ~torn[c]
      BY DEF Turn
    <2> QED
      BY <2>1, <2>2, StillTurn
  <1> QED
    BY <1>1, <1>2, ReaderTurn, CallbackTurn, ServerTurn DEF Next

LEMMA InitTurn == Init => Turn
  BY DEF Init, Turn, Token, Silence

\* With one caller the bytes of an answer are intact when they are parsed,
\* although they alias the buffer that the reader reads into.
THEOREM BytesKept ==
    ASSUME OneCaller
    PROVE  Spec => []BytesIntact
  <1>1. CASE Callers = {}
    <2>1. Spec => []TypeOK
      BY TypeCorrect
    <2>2. TypeOK => BytesIntact
      BY <1>1 DEF BytesIntact
    <2> QED
      BY <2>1, <2>2, PTL
  <1>2. ASSUME NEW c \in Callers PROVE Spec => []BytesIntact
    <2>1. Init => Ground /\ Turn
      BY InitGround, InitTurn
    <2>2. Ground /\ Turn /\ [Next]_vars => (Ground /\ Turn)'
      BY NextGround, NextTurn
    <2>3. Turn => BytesIntact
      BY DEF Turn, BytesIntact
    <2> QED
      BY <2>1, <2>2, <2>3, PTL DEF Spec
  <1> QED
    BY <1>1, <1>2

-----------------------------------------------------------------------------
(* A handle goes back with the snapshot it was minted in.                  *)

\* What is left of initTsGo.
Starting ==
    { <<>>,
      <<"lock", "use", "unlock", "lock", "update", "unlock", "started">>,
      <<"use", "unlock", "lock", "update", "unlock", "started">>,
      <<"unlock", "lock", "update", "unlock", "started">>,
      <<"lock", "update", "unlock", "started">>,
      <<"update", "unlock", "started">>,
      <<"unlock", "started">>,
      <<"started">> }

\* What is left of a program when it is about to send back what it holds.
Holding ==
    { <<"lock", "use", "unlock", "lock", "update", "unlock", "started">>,
      <<"use", "unlock", "lock", "update", "unlock", "started">>,
      <<"lock", "use", "unlock">>,
      <<"use", "unlock">>,
      <<"unlock", "lock", "useEarly">>,
      <<"lock", "useEarly">>,
      <<"useEarly">> }

\* A handle is held on to from the query that yields it.
LEMMA HoldingFollows ==
    ASSUME NEW s \in Suffixes, s # <<>>
    PROVE  /\ Tail(s) \in Holding => s \in Holding \/ Head(s) = "ask"
           /\ s \in Holding => Head(s) # "update"
           /\ Head(s) \in {"use", "useEarly"} => s \in Holding
           /\ s \in Starting => Tail(s) \in Starting
           /\ s \in Starting /\ Tail(s) = <<>> => Head(s) = "started"
  <1> USE DEF Suffixes, Holding, Starting
  <1>1. CASE s = <<"lock", "use", "unlock", "lock", "update", "unlock", "started">>
    BY <1>1
  <1>2. CASE s = <<"use", "unlock", "lock", "update", "unlock", "started">>
    BY <1>2
  <1>3. CASE s = <<"unlock", "lock", "update", "unlock", "started">>
    BY <1>3
  <1>4. CASE s = <<"lock", "update", "unlock", "started">>
    BY <1>4
  <1>5. CASE s = <<"update", "unlock", "started">>
    BY <1>5
  <1>6. CASE s = <<"unlock", "started">>
    BY <1>6
  <1>7. CASE s = <<"started">>
    BY <1>7
  <1>8. CASE s = <<"lock", "update", "unlock">>
    BY <1>8
  <1>9. CASE s = <<"update", "unlock">>
    BY <1>9
  <1>10. CASE s = <<"unlock">>
    BY <1>10
  <1>11. CASE s = <<"lock", "update", "ask", "unlock">>
    BY <1>11
  <1>12. CASE s = <<"update", "ask", "unlock">>
    BY <1>12
  <1>13. CASE s = <<"ask", "unlock">>
    BY <1>13
  <1>14. CASE s = <<"lock", "update", "unlock", "ask", "lock", "use", "unlock">>
    BY <1>14
  <1>15. CASE s = <<"update", "unlock", "ask", "lock", "use", "unlock">>
    BY <1>15
  <1>16. CASE s = <<"unlock", "ask", "lock", "use", "unlock">>
    BY <1>16
  <1>17. CASE s = <<"ask", "lock", "use", "unlock">>
    BY <1>17
  <1>18. CASE s = <<"lock", "use", "unlock">>
    BY <1>18
  <1>19. CASE s = <<"use", "unlock">>
    BY <1>19
  <1>20. CASE s = <<"lock", "update", "ask", "unlock", "lock", "useEarly">>
    BY <1>20
  <1>21. CASE s = <<"update", "ask", "unlock", "lock", "useEarly">>
    BY <1>21
  <1>22. CASE s = <<"ask", "unlock", "lock", "useEarly">>
    BY <1>22
  <1>23. CASE s = <<"unlock", "lock", "useEarly">>
    BY <1>23
  <1>24. CASE s = <<"lock", "useEarly">>
    BY <1>24
  <1>25. CASE s = <<"useEarly">>
    BY <1>25
  <1> QED
    BY <1>1, <1>2, <1>3, <1>4, <1>5, <1>6, <1>7, <1>8, <1>9, <1>10, <1>11, <1>12,
       <1>13, <1>14, <1>15, <1>16, <1>17, <1>18, <1>19, <1>20, <1>21, <1>22,
       <1>23, <1>24, <1>25

LEMMA HoldingStarts ==
    /\ Start \in Starting /\ <<>> \in Starting
    /\ \A s \in Features : s \notin Holding /\ s # <<>>
    /\ <<>> \notin Holding
  <1> USE DEF Holding, Starting
  <1>1. Start \in Starting /\ <<>> \in Starting /\ <<>> \notin Holding
    BY DEF Start
  <1>2. Sync \notin Holding /\ Sync # <<>>
    BY DEF Sync
  <1>3. Diagnostics \notin Holding /\ Diagnostics # <<>>
    BY DEF Diagnostics
  <1>4. Hover \notin Holding /\ Hover # <<>>
    BY DEF Hover
  <1>5. Definition \notin Holding /\ Definition # <<>>
    BY DEF Definition
  <1> QED
    BY <1>1, <1>2, <1>3, <1>4, <1>5 DEF Features

\* A query and its answer name the snapshot that the caller asked about.
SnapCarried ==
    \A c \in Callers : Waits(c) /\ ~At(c, "update") =>
        \A m \in Asking \cup Answering : m.id = id[c] => m.snap = asked[c]

LEMMA NextCarried ==
    ASSUME Ground, Traffic, SnapCarried, [Next]_vars
    PROVE  SnapCarried'
  <1>1. ASSUME Quiet, Settled PROVE SnapCarried'
    BY <1>1 DEF Quiet, Settled, SnapCarried, Waits, At
  <1>2. ASSUME UNCHANGED vars PROVE Quiet /\ Settled
    BY <1>2 DEF vars, caller, client, server, Quiet, Settled, Asking, Answering
  <1>3. ASSUME NEW c \in Callers, Build(c) PROVE SnapCarried'
    <2>1. /\ UNCHANGED <<todo, Asking, Answering>> /\ pc'[c] = "write"
          /\ \A d \in Callers \ {c} : id'[d] = id[d] /\ pc'[d] = pc[d] /\ asked'[d] = asked[d]
      BY <1>3, CallerTypes DEF Build, Ground, TypeOK, Asking, Answering, server
    <2> QED
      BY <2>1 DEF SnapCarried, Waits, At
  <1>4. ASSUME NEW c \in Callers, Write(c) PROVE SnapCarried'
    <2> DEFINE request == IF At(c, "update") THEN Message("update", id[c], 0)
                                             ELSE Message("query", id[c], asked[c])
    <2>1. InPipe(stdin') = InPipe(stdin) \cup {request}
      <3>1. request \in ToServer
        BY DEF Message, ToServer, Ground, TypeOK
      <3> QED
        BY <1>4, <3>1, PipeAppend DEF Write, Ground, TypeOK
    <2>2. /\ Asking' \subseteq Asking \cup {request} /\ Answering' = Answering
          /\ UNCHANGED <<todo, id, asked>> /\ pc[c] = "write"
          /\ \A d \in Callers \ {c} : pc'[d] = pc[d]
      BY <1>4, <2>1, CallerTypes DEF Write, Asking, Answering, client, server, Ground
    <2>3. request.id = id[c] /\ (~At(c, "update") => request.snap = asked[c])
      BY DEF Message
    <2> HIDE DEF request
    <2>4. \A m \in Asking \cup Answering : m.id # id[c]
      BY <2>2 DEF Traffic, FreshIds
    <2>5. \A d \in Callers \ {c} : Waits(d) => request.id # id[d]
      BY <2>2, <2>3 DEF Traffic, FreshIds, Waits
    <2> QED
      BY <2>2, <2>3, <2>4, <2>5 DEF SnapCarried, Waits, At
  <1>5. ASSUME NEW c \in Callers, Parse(c) PROVE SnapCarried'
    <2>1. /\ Asking' = Asking /\ Answering' \subseteq Answering
          /\ UNCHANGED <<asked, id>> /\ pc'[c] = "next"
          /\ \A d \in Callers \ {c} : todo'[d] = todo[d] /\ pc'[d] = pc[d]
      BY <1>5, CallerTypes DEF Parse, Advance, Asking, Answering, server, Ground
    <2> QED
      BY <2>1 DEF SnapCarried, Waits, At
  <1>6. ASSUME ServerAnswer PROVE SnapCarried'
    <2>1. PICK r \in serving, answer \in FromServer :
            /\ serving' = serving \ {r} /\ stdout' = Append(stdout, answer)
            /\ answer.id = r.id /\ (r.type # "update" => answer.snap = r.snap)
      <3>1. PICK r \in serving :
              /\ serving' = serving \ {r}
              /\ IF r.type = "update"
                 THEN \E snap \in {made + 1, 0} :
                         stdout' = Append(stdout, Message("answer", r.id, snap))
                 ELSE \E type \in {"answer", "toolong"} :
                         stdout' = Append(stdout, Message(type, r.id, r.snap))
        BY <1>6 DEF ServerAnswer
      <3>2. r.id \in Nat /\ r.snap \in Nat /\ made + 1 \in Nat /\ 0 \in Nat
        BY DEF Ground, TypeOK, ToServer
      <3>3. \A type \in {"answer", "toolong"}, snap \in Nat :
               /\ Message(type, r.id, snap) \in FromServer
               /\ Message(type, r.id, snap).id = r.id
               /\ Message(type, r.id, snap).snap = snap
        BY <3>2 DEF Message, FromServer
      <3>4. \E answer \in FromServer :
               /\ stdout' = Append(stdout, answer) /\ answer.id = r.id
               /\ r.type # "update" => answer.snap = r.snap
        BY <3>1, <3>2, <3>3
      <3> QED
        BY <3>1, <3>4
    <2>2. /\ Asking' \subseteq Asking /\ Answering' \subseteq Answering \cup {answer}
          /\ UNCHANGED <<todo, pc, id, asked>>
      <3>1. InPipe(stdout') = InPipe(stdout) \cup {answer}
        BY <2>1, PipeAppend DEF Ground, TypeOK
      <3> QED
        BY <1>6, <2>1, <3>1 DEF ServerAnswer, Asking, Answering, caller, client
    <2>3. r \in Asking
      BY DEF Asking
    <2>4. ASSUME NEW c \in Callers, Waits(c), ~At(c, "update"), answer.id = id[c]
          PROVE  answer.snap = asked[c]
      <3>1. r.type # "update" /\ r.id = id[c]
        BY <2>1, <2>3, <2>4 DEF Traffic, SameKind
      <3> QED
        BY <2>1, <2>3, <2>4, <3>1 DEF SnapCarried
    <2> QED
      BY <2>2, <2>4 DEF SnapCarried, Waits, At
  <1>7. ASSUME NEW c \in Callers, Begin(c) \/ CallerStep(c) PROVE SnapCarried'
    BY <1>1, <1>3, <1>4, <1>5, <1>7, CallerQuiet DEF CallerStep
  <1> QED
    BY <1>1, <1>2, <1>6, <1>7, ReaderQuiet, ServerQuiet DEF Next

\* What the single caller holds is of the newest snapshot for as long as it
\* will send it back, and what it asks is about that snapshot.
Held(c) ==
    todo[c] \in Holding \/ (~started /\ todo[c] = <<>> /\ running) => minted[c] = snapshot
Asks(c) ==
    pc[c] # "next" /\ ~At(c, "update") => asked[c] = snapshot
Minted(c) ==
    /\ ~started => todo[c] \in Starting
    /\ Held(c)
    /\ Asks(c)

\* A step that leaves the caller and what it holds alone, or ends it.
LEMMA StillMinted ==
    ASSUME NEW c \in Callers, Ground, Minted(c),
           UNCHANGED <<minted, snapshot, asked, started>>,
           \/ todo'[c] = todo[c] /\ running' = running
           \/ todo'[c] = <<>> /\ ~running',
           \/ todo'[c] = todo[c] /\ (pc'[c] = pc[c] \/ pc[c] # "next")
           \/ pc'[c] = "next"
    PROVE  Minted(c)'
  <1>1. (~started => todo[c] \in Starting)'
    BY HoldingStarts DEF Minted
  <1>2. Held(c)'
    BY HoldingStarts DEF Minted, Held
  <1>3. Asks(c)'
    BY DEF Minted, Asks, At
  <1> QED
    BY <1>1, <1>2, <1>3 DEF Minted

\* The next instruction is reached without a new snapshot or a new handle.
LEMMA AdvanceMinted ==
    ASSUME NEW c \in Callers, Ground, Minted(c), todo[c] # <<>>, Advance(c),
           Head(todo[c]) # "ask", Head(todo[c]) # "started" \/ started',
           started => started', UNCHANGED <<minted, snapshot, running>>
    PROVE  Minted(c)'
  <1>1. todo'[c] = Tail(todo[c]) /\ pc'[c] = "next" /\ todo[c] \in Suffixes
    BY CallerTypes DEF Advance, Ground, InProgram, Placed
  <1>2. (~started => todo[c] \in Starting)'
    BY <1>1, HoldingFollows DEF Minted
  <1>3. Held(c)'
    BY <1>1, HoldingFollows DEF Minted, Held
  <1>4. Asks(c)'
    BY <1>1 DEF Asks
  <1> QED
    BY <1>2, <1>3, <1>4 DEF Minted

LEMMA ParseMinted ==
    ASSUME NEW c \in Callers, Ground, SnapCarried, Minted(c), Parse(c)
    PROVE  Minted(c)'
  <1> DEFINE s == todo[c]
  <1>1. /\ pc[c] = "parse" /\ s \in Suffixes /\ s # <<>> /\ Head(s) \in Requests
        /\ todo'[c] = Tail(s) /\ pc'[c] = "next" /\ UNCHANGED <<started, running>>
    BY CallerTypes DEF Parse, Advance, Ground, InProgram, Placed
  <1>2. (~started => todo[c] \in Starting)'
    BY <1>1, HoldingFollows DEF Minted
  <1>3. Asks(c)'
    BY <1>1 DEF Asks
  <1>4. ~started => Tail(s) # <<>>
    BY <1>1, HoldingFollows DEF Minted, Requests
  <1>5. CASE At(c, "update")
    <2>1. Tail(s) \notin Holding
      BY <1>1, <1>5, HoldingFollows DEF At
    <2> QED
      BY <1>1, <1>2, <1>3, <1>4, <2>1 DEF Minted, Held
  <1>6. CASE At(c, "ask")
    <2>1. PICK m \in channel :
            /\ m.id = id[c] /\ minted' = [minted EXCEPT ![c] = m.snap]
            /\ snapshot' = snapshot
      BY <1>6 DEF Parse, At
    <2>2. minted'[c] = m.snap
      BY <2>1 DEF Ground, TypeOK
    <2>3. m.snap = asked[c]
      BY <1>1, <1>6, <2>1 DEF SnapCarried, Waits, At, Answering
    <2>4. asked[c] = snapshot
      BY <1>1, <1>6 DEF Minted, Asks, At
    <2>5. Held(c)'
      BY <2>1, <2>2, <2>3, <2>4 DEF Held
    <2> QED
      BY <1>2, <1>3, <2>5 DEF Minted
  <1>7. CASE ~At(c, "update") /\ ~At(c, "ask")
    <2>1. UNCHANGED <<minted, snapshot>>
      BY <1>7 DEF Parse
    <2>2. Tail(s) \in Holding => s \in Holding
      BY <1>1, <1>7, HoldingFollows DEF At
    <2>3. Held(c)'
      BY <1>1, <1>4, <2>1, <2>2 DEF Minted, Held
    <2> QED
      BY <1>2, <1>3, <2>3 DEF Minted
  <1> QED
    BY <1>5, <1>6, <1>7

LEMMA CallerMinted ==
    ASSUME NEW c \in Callers, Ground, SnapCarried, Minted(c), Begin(c) \/ CallerStep(c)
    PROVE  Minted(c)'
  <1>1. todo \in [Callers -> Seq(Instructions)]
        /\ pc \in [Callers -> {"next", "write", "register", "wait", "parse"}]
        /\ asked \in [Callers -> Nat] /\ Placed(c)
    BY DEF Ground, TypeOK, InProgram
  <1>2. CASE Begin(c)
    <2>1. /\ UNCHANGED <<pc, minted, snapshot, started, running>> /\ pc[c] = "next"
          /\ todo[c] = <<>> /\ running
          /\ \/ ~started /\ todo'[c] = Start
             \/ started /\ todo'[c] \in Features
      BY <1>1, <1>2 DEF Begin, client, Placed
    <2>2. ~started => minted[c] = snapshot
      BY <2>1 DEF Minted, Held
    <2>3. Held(c)'
      BY <2>1, <2>2, HoldingStarts DEF Held
    <2>4. Asks(c)'
      BY <2>1 DEF Asks
    <2> QED
      BY <2>1, <2>3, <2>4, HoldingStarts DEF Minted
  <1>3. CASE Lock(c)
    BY <1>3, AdvanceMinted DEF Lock, At
  <1>4. CASE Unlock(c)
    BY <1>4, AdvanceMinted DEF Unlock, At
  <1>5. CASE Started(c)
    BY <1>5, AdvanceMinted DEF Started, At
  <1>6. CASE Build(c)
    <2>1. /\ UNCHANGED <<todo, minted, snapshot, started, running>>
          /\ ~At(c, "update") => asked'[c] = snapshot
      BY <1>1, <1>6 DEF Build
    <2>2. Held(c)' /\ (~started => todo[c] \in Starting)'
      BY <2>1 DEF Minted, Held
    <2>3. Asks(c)'
      BY <2>1 DEF Asks, At
    <2> QED
      BY <2>2, <2>3 DEF Minted
  <1>7. CASE Write(c) \/ Register(c) \/ Receive(c)
    <2>1. /\ UNCHANGED <<todo, minted, snapshot, asked, started, running>>
          /\ pc[c] # "next"
      BY <1>7 DEF Write, Register, Receive, client
    <2> QED
      BY <2>1, StillMinted
  <1>8. CASE WriteFails(c)
    <2>1. /\ UNCHANGED <<minted, snapshot, started>> /\ started
          /\ todo'[c] = <<>> /\ pc'[c] = "next"
      BY <1>1, <1>8 DEF WriteFails
    <2> QED
      BY <2>1, HoldingStarts DEF Minted, Held, Asks
  <1>9. CASE WriteFailsAtStart(c)
    <2>1. /\ UNCHANGED <<minted, snapshot, asked, started>>
          /\ todo'[c] = <<>> /\ pc'[c] = "next" /\ ~running'
      BY <1>9 DEF WriteFailsAtStart, Crash, client
    <2> QED
      BY <2>1, StillMinted
  <1> QED
    BY <1>2, <1>3, <1>4, <1>5, <1>6, <1>7, <1>8, <1>9, ParseMinted DEF CallerStep

LEMMA NextMinted ==
    ASSUME OneCaller, NEW c \in Callers, Ground, SnapCarried, Minted(c), [Next]_vars
    PROVE  Minted(c)'
  <1>1. ASSUME NEW d \in Callers, Begin(d) \/ CallerStep(d) PROVE Minted(c)'
    <2>1. d = c
      BY DEF OneCaller
    <2> QED
      BY <1>1, <2>1, CallerMinted
  <1>2. CASE ReaderStep \/ ServerTake \/ ServerCallback \/ ServerAnswer \/ ServerExit
             \/ UNCHANGED vars
    <2>1. UNCHANGED <<todo, pc, minted, snapshot, asked, started, running>>
      BY <1>2 DEF ReaderStep, Deliver, DeliverTooEarly, DeliverTooLong, TakeCallback,
         ReaderEof, ServerTake, ServerCallback, ServerAnswer, ServerExit, vars, caller, client
    <2> QED
      BY <2>1, StillMinted
  <1>3. CASE CallbackStep
    <2>1. /\ UNCHANGED <<minted, snapshot, asked, started>>
          /\ \/ UNCHANGED <<todo, pc, running>>
             \/ todo'[c] = <<>> /\ pc'[c] = "next" /\ ~running'
      BY <1>3 DEF CallbackStep, AnswerCallback, InlineCallbackFails, GoroutineCallbackFails,
         Crash, caller, client
    <2> QED
      BY <2>1, StillMinted
  <1> QED
    BY <1>1, <1>2, <1>3 DEF Next

LEMMA InitMinted ==
    ASSUME NEW c \in Callers, Init
    PROVE  SnapCarried /\ Minted(c)
  <1>1. SnapCarried
    BY DEF Init, SnapCarried, Waits
  <1> QED
    BY <1>1, HoldingStarts DEF Init, Minted, Held, Asks

\* With one caller a handle is sent back with the snapshot it was minted in:
\* between the query that yields it and its use nothing refreshes.
THEOREM HandleKept ==
    ASSUME OneCaller
    PROVE  Spec => []HandleOfItsSnapshot
  <1>1. CASE Callers = {}
    <2>1. Spec => []TypeOK
      BY TypeCorrect
    <2>2. TypeOK => HandleOfItsSnapshot
      BY <1>1 DEF HandleOfItsSnapshot
    <2> QED
      BY <2>1, <2>2, PTL
  <1>2. ASSUME NEW c \in Callers PROVE Spec => []HandleOfItsSnapshot
    <2> DEFINE Inv == Ground /\ Traffic /\ SnapCarried /\ Minted(c)
    <2>1. Init => Inv
      BY InitGround, InitTraffic, InitMinted
    <2>2. Inv /\ [Next]_vars => Inv'
      BY NextGround, NextTraffic, NextCarried, NextMinted
    <2>3. Inv => HandleOfItsSnapshot
      <3> SUFFICES ASSUME Inv, pc[c] # "next", At(c, "use") \/ At(c, "useEarly")
                   PROVE  asked[c] = minted[c]
        BY DEF HandleOfItsSnapshot, OneCaller
      <3>1. todo[c] \in Suffixes
        BY DEF Ground, InProgram, Placed
      <3>2. todo[c] \in Holding /\ ~At(c, "update")
        BY <3>1, HoldingFollows DEF At
      <3> QED
        BY <3>2 DEF Minted, Held, Asks
    <2> QED
      BY <2>1, <2>2, <2>3, PTL DEF Spec
  <1> QED
    BY <1>1, <1>2
=============================================================================
