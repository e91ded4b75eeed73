-------------------------------- MODULE Cfg ---------------------------------
(***************************************************************************)
(* Control flow graphs and unreachable code (ast/manipulation/cfg.go, the  *)
(* _buildCfgBlock of the statements, analysis/cfg.go).                     *)
(*                                                                         *)
(* GetCfg walks over the syntax tree and builds a graph of blocks per      *)
(* function, and one for the program; a block that no edge leads to is     *)
(* reported as unreachable.  Here the walk reads the text of a file, a     *)
(* statement or the end of one at a time, and the text is chosen as it is  *)
(* read.  Beside the graph goes what the language says: whether the place  *)
(* the walk has come to can be reached.                                    *)
(*                                                                         *)
(* The builder sees less than there is.  An else clause has no builder of  *)
(* its own.  Statements without one are passed through, whatever they do:  *)
(* "switch" stands for switch, try and blocks with a label, "for" for the  *)
(* loops for (;;) and do, "throw" for itself, "plain" for statements that  *)
(* add no instruction (x = 3, i++).  Labels are not looked at.  A function *)
(* that stands directly in the program is visited twice: as a function     *)
(* and, its body once more, as a part of the program.                      *)
(*                                                                         *)
(* Left out are functions within expressions and declarations (of some the *)
(* builder makes a graph, as of a declared function; the bodies of others  *)
(* are passed through), classes and exports, and the decisions within an   *)
(* expression (&&, ?:), which neither the builder nor Decides counts.      *)
(***************************************************************************)
EXTENDS Naturals, Sequences, FiniteSets

CONSTANTS
    Conditions,   \* of if and while: some of "any", "true", "false"
    Statements,   \* the statements a file may have
    MaxTokens     \* bound on the length of a file

ASSUME CfgAssumption ==
    /\ Conditions \subseteq {"any", "true", "false"}
    /\ Statements \subseteq {"call", "return", "break", "continue", "if", "else",
                             "while", "for in", "for", "switch", "function",
                             "throw", "plain", "panic"}
    /\ MaxTokens \in Nat

VARIABLES
    cfg,     \* the graphs under construction: see Cfgs
    open,    \* what the walk is inside of, innermost first: see Frames
    live,    \* can the place be reached?
    fresh,   \* it cannot, but the statement before it could
    written, \* how much text was read
    body,    \* the text of the function that stands directly in the program
    ahead,   \* text that is visited once more
    odd,     \* per function, what the builder does not follow
    heads,   \* blocks of the statements at which unreachable code begins
    choices, \* blocks of the conditions that can be reached
    ended    \* no, done, or error

vars == <<cfg, open, live, fresh, written, body, ahead, odd, heads, choices, ended>>

Frame == [kind  : {"then", "else", "while", "for in", "for", "switch", "function", "again"},
          cond  : Conditions \cup {"any"},
          hasElse : BOOLEAN,
          live  : BOOLEAN,                  \* was its beginning reachable?
          other : BOOLEAN,                  \* the end of the other branch
          left  : SUBSET {"live", "dead"},  \* breaks out of it
          test  : Nat,                      \* the block a loop goes back to
          after : Nat,                      \* the block after it
          prev  : Nat]                      \* the current block around a function

\* Blocks are numbered as they are made.  shown: what a report of the block
\* would show (its Node or its first instruction), and can that be reached?
Block == [function : Nat, shown : {"nothing", "reachable", "unreachable"}]

Cfgs == [block     : Seq(Block),
         edges     : SUBSET (Nat \X Nat),    \* After and Before
         current   : Nat,
         breaks    : Seq(Nat),               \* breakStack
         continues : Seq(Nat),               \* continueStack
         functions : Seq(Nat \X Nat),        \* allCfg: Start and End
         stack     : Seq(Nat)]               \* cfgStack

-----------------------------------------------------------------------------
(* The graph.                                                              *)

Size(g) == Len(g.block)
Function(g) == Head(g.stack)
Start(g, f) == g.functions[f][1]
End(g, f) == g.functions[f][2]

\* addBlock, n times: they belong to the current function.
AddBlocks(g, n) ==
    [g EXCEPT !.block = @ \o [i \in 1 .. n |-> [function |-> Function(g),
                                                shown |-> "nothing"]]]

AddEdge(g, from, to) == [g EXCEPT !.edges = @ \cup {<<from, to>>}]

HasAfter(g, b)  == \E e \in g.edges : e[1] = b
HasBefore(g, b) == \E e \in g.edges : e[2] = b

Show(g, b, reach) ==
    IF g.block[b].shown = "nothing"
    THEN [g EXCEPT !.block[b].shown = IF reach THEN "reachable" ELSE "unreachable"]
    ELSE g

\* A bug: an instruction is added to a block that has been left.
AddInstructionToCurrent(g, reach) == Show(g, g.current, reach)

\* A block that has been left gets no instructions any more.
AddInstruction(g, reach) ==
    IF HasAfter(g, g.current)
    THEN LET h == AddBlocks(g, 1)
         IN  Show([h EXCEPT !.current = Size(h)], Size(h), reach)
    ELSE Show(g, g.current, reach)

\* What is done at the end of a branch or a loop, unless it was left.
Close(g, to) == IF HasAfter(g, g.current) THEN g ELSE AddEdge(g, g.current, to)

\* FunctionCfg with its first and last block; the walk goes on in the first.
BeginFunction(g) ==
    LET f == Len(g.functions) + 1
        h == AddBlocks([g EXCEPT !.stack = <<f>> \o @], 2)
    IN  [h EXCEPT !.functions = Append(@, <<Size(g) + 1, Size(g) + 2>>),
                  !.current = Size(g) + 1]

EndFunction(g, prev) ==
    LET h == AddEdge(g, g.current, End(g, Function(g)))
    IN  [h EXCEPT !.stack = Tail(@), !.current = prev]

Empty == [block |-> <<>>, edges |-> {}, current |-> 0, breaks |-> <<>>,
          continues |-> <<>>, functions |-> <<>>, stack |-> <<>>]

-----------------------------------------------------------------------------
(* The statements.                                                         *)

\* A bug: the condition of an if without else does not lead past it.
IfBlocksNoExit(g, cond, hasElse, reach) ==
    LET n    == Size(g)
        made == AddInstruction(AddBlocks(g, 4), reach)
        test == Show(AddEdge(made, made.current, n + 1), n + 1, reach)
        then == IF cond # "false" THEN AddEdge(test, n + 1, n + 2) ELSE test
        else == IF hasElse /\ cond # "true" THEN AddEdge(then, n + 1, n + 3) ELSE then
        show == Show(else, n + 2, reach /\ cond # "false")
    IN  [show EXCEPT !.current = n + 2]

\* ifStatement, up to the consequence: the blocks condition, consequence,
\* alternative and after.
IfBlocks(g, cond, hasElse, reach) ==
    LET n    == Size(g)
        made == AddInstruction(AddBlocks(g, 4), reach)
        test == Show(AddEdge(made, made.current, n + 1), n + 1, reach)
        then == IF cond # "false" THEN AddEdge(test, n + 1, n + 2) ELSE test
        else == IF ~hasElse THEN AddEdge(then, n + 1, n + 4)
                ELSE IF cond # "true" THEN AddEdge(then, n + 1, n + 3) ELSE then
        show == Show(else, n + 2, reach /\ cond # "false")
    IN  [(IF hasElse THEN Show(show, n + 3, reach /\ cond # "true") ELSE show)
            EXCEPT !.current = n + 2]

\* The rest of it: the builder of an else clause does nothing.
IfEnds(g, hasElse, after) ==
    LET closed == Close(g, after)
    IN  [(IF hasElse THEN AddEdge(closed, after - 1, after) ELSE closed)
            EXCEPT !.current = after]

PushLoop(g, test, after) ==
    [g EXCEPT !.continues = <<test>> \o @, !.breaks = <<after>> \o @]

\* whileStatement: the blocks condition, body and after.
WhileBlocks(g, cond, reach) ==
    LET n    == Size(g)
        made == AddInstruction(PushLoop(AddBlocks(g, 3), n + 1, n + 3), reach)
        test == Show(AddEdge(made, made.current, n + 1), n + 1, reach)
        exit == IF cond # "true" THEN AddEdge(test, n + 1, n + 3) ELSE test
        into == IF cond # "false" THEN AddEdge(exit, n + 1, n + 2) ELSE exit
    IN  [Show(into, n + 2, reach /\ cond # "false") EXCEPT !.current = n + 2]

\* forInStatement: the blocks initialisation, next, body and after.
ForInBlocks(g, reach) ==
    LET i    == AddInstruction(g, reach)
        n    == Size(i)
        made == PushLoop(AddBlocks(i, 4), n + 2, n + 4)
        init == Show(AddEdge(made, made.current, n + 1), n + 1, reach)
        next == Show(AddEdge(init, n + 1, n + 2), n + 2, reach)
        both == AddEdge(AddEdge(next, n + 2, n + 3), n + 2, n + 4)
    IN  [Show(both, n + 3, reach) EXCEPT !.current = n + 3]

LoopEnds(g, test, after) ==
    [Close(g, test) EXCEPT !.current = after,
                           !.breaks = Tail(@), !.continues = Tail(@)]

\* A bug: what follows a return goes on in the block before it.
ReturnFallsThrough(g, reach) ==
    LET n == Size(g)
        h == Show(AddBlocks(g, 2), n + 1, reach)
    IN  AddEdge(AddEdge(h, g.current, n + 1), n + 1, End(g, Function(g)))

\* returnExpression: the blocks of the return and after it.
ReturnBlocks(g, reach) ==
    LET n == Size(g)
        h == Show(AddBlocks(g, 2), n + 1, reach)
    IN  [AddEdge(AddEdge(h, g.current, n + 1), n + 1, End(g, Function(g)))
            EXCEPT !.current = n + 2]

\* breakExpression and continueExpression: a block that leads to the target.
JumpBlock(g, target, reach) ==
    LET n == Size(g)
        h == Show(AddBlocks(g, 1), n + 1, reach)
    IN  [AddEdge(AddEdge(h, g.current, n + 1), n + 1, target) EXCEPT !.current = n + 1]

-----------------------------------------------------------------------------
(* The walk.                                                               *)

Init ==
    /\ cfg = BeginFunction(Empty)
    /\ open = <<>>
    /\ live = TRUE
    /\ fresh = FALSE
    /\ written = 0
    /\ body = <<>>
    /\ ahead = <<>>
    /\ odd = {}
    /\ heads = {}
    /\ choices = {}
    /\ ended = "no"

Opened(kind) == [kind |-> kind, cond |-> "any", hasElse |-> FALSE, live |-> live,
                 other |-> FALSE, left |-> {}, test |-> 0, after |-> 0, prev |-> 0]

\* The walk is in an else clause, whose statements build nothing.
Unseen == \E i \in DOMAIN open : open[i].kind = "else"

\* The innermost of what a break or continue may leave, within the function.
Leaves(kinds) ==
    LET around == {i \in DOMAIN open : open[i].kind \in kinds \cup {"function", "again"}}
    IN  {i \in around : \A j \in around : i <= j} \cap {i \in around : open[i].kind \in kinds}

\* What a break with a label may leave: any, within the function.
Around(kinds) ==
    {i \in DOMAIN open : /\ open[i].kind \in kinds
                         /\ \A j \in 1 .. i : open[j].kind \notin {"function", "again"}}

\* How much text a token takes, with the ends it will need, and how many ends
\* are due.
Needs(token) ==
    CASE token[1] = "end" -> 0
      [] token[1] = "else" -> 3
      [] token[1] \in {"if", "while", "for in", "for", "switch", "function"} -> 2
      [] OTHER -> 1
Due == Len(open) + Cardinality({i \in DOMAIN open : open[i].kind = "then" /\ open[i].hasElse})

\* The next piece of text: one that is visited once more, or any.
Read(token) ==
    /\ ended = "no"
    /\ IF ahead # <<>>
       THEN /\ Head(ahead) = token
            /\ ahead' = Tail(ahead)
            /\ UNCHANGED <<written, body>>
       ELSE /\ written + Due + Needs(token) <= MaxTokens
            /\ token[1] \in Statements \cup {"case", "end"}
            /\ written' = written + 1
            /\ body' = IF open = <<>> THEN <<>> ELSE Append(body, token)
            /\ UNCHANGED ahead

Odd(what) == <<Function(cfg), what>>

Tags(when, what) == IF when THEN {Odd(what)} ELSE {}

\* What a statement builds begins with an instruction, after some blocks; if
\* unreachable code begins here, the block it comes to is one of the heads.
\* So are the branches that are never taken.
Builds(g, blocks, cond, never) ==
    LET first == IF HasAfter(cfg, cfg.current) THEN Size(cfg) + blocks + 1 ELSE cfg.current
    IN  IF Unseen
        THEN /\ odd' = odd \cup {Odd("unseen")}
             /\ UNCHANGED <<cfg, heads>>
        ELSE /\ cfg' = g
             /\ heads' = heads \cup never \cup IF fresh THEN {first} ELSE {}
             /\ odd' = odd \cup Tags(~live, "dead") \cup Tags(cond # "any", "constant")

\* Something that runs one way or the other, decided in block b.
Decides(b, cond) ==
    choices' = IF live /\ cond = "any" /\ ~Unseen THEN choices \cup {b} ELSE choices

\* A call, an assignment to a new variable.
Simple ==
    /\ Read(<<"call">>)
    /\ Builds(AddInstruction(cfg, live), 0, "any", {})
    /\ fresh' = FALSE
    /\ UNCHANGED <<open, live, choices, ended>>

\* A statement that adds no instruction: unreachable code, for a report,
\* begins at the first that does.
Plain ==
    /\ Read(<<"plain">>)
    /\ UNCHANGED <<cfg, open, live, fresh, odd, heads, choices, ended>>

\* The builder goes on after a throw as after any statement it does not know.
Throw ==
    /\ Read(<<"throw">>)
    /\ live' = FALSE
    /\ odd' = odd \cup {Odd("uncounted")}
    /\ UNCHANGED <<cfg, open, fresh, heads, choices, ended>>

InSwitch == \E i \in DOMAIN open : open[i].kind \in {"for", "switch"}
VisitedAgain == Function(cfg) = 1 /\ \E i \in DOMAIN open : open[i].kind = "again"

\* A jump has a block with an edge from the one before, so that it is not
\* reported itself; what follows it is.  astray: the builder may not know
\* where it leads.
Jumps(g, astray) ==
    /\ cfg' = IF Unseen THEN cfg ELSE g
    /\ odd' = odd \cup Tags(Unseen, "unseen jump") \cup Tags(~live, "dead")
                  \cup Tags(astray, "astray") \cup Tags(VisitedAgain, "again jump")
    /\ live' = FALSE
    /\ fresh' = (fresh \/ live)
    /\ UNCHANGED <<heads, choices>>

\* Only a function returns.
Return ==
    /\ Read(<<"return">>)
    /\ \E i \in DOMAIN open : open[i].kind \in {"function", "again"}
    /\ Jumps(ReturnBlocks(cfg, live), InSwitch)
    /\ UNCHANGED <<open, ended>>

\* The innermost loop with a builder is what the builder takes to be left,
\* though the statement may leave a switch, another loop or, by a label, one
\* further out.  Without such a loop the walk ends with an error.
Break ==
    \E i \in Around({"while", "for in", "for", "switch"}) :
        /\ Read(<<"break", i>>)
        /\ open' = [open EXCEPT ![i].left = @ \cup {IF live THEN "live" ELSE "dead"}]
        /\ IF cfg.breaks = <<>> /\ ~Unseen
           THEN /\ ended' = "error"
                /\ UNCHANGED <<cfg, live, fresh, odd, heads, choices>>
           ELSE /\ Jumps(JumpBlock(cfg, Head(cfg.breaks), live),
                         InSwitch \/ i \notin Leaves({"while", "for in", "for", "switch"}))
                /\ UNCHANGED ended

\* Which loop goes on, if there is a label, makes no difference to what can
\* be reached.
Continue ==
    /\ Read(<<"continue">>)
    /\ Leaves({"while", "for in", "for"}) # {}
    /\ IF cfg.continues = <<>> /\ ~Unseen
       THEN /\ ended' = "error"
            /\ UNCHANGED <<cfg, live, fresh, odd, heads, choices>>
       ELSE /\ Jumps(JumpBlock(cfg, Head(cfg.continues), live), InSwitch)
            /\ UNCHANGED ended
    /\ UNCHANGED open

\* An if or while whose condition is of a kind that hasConstantFalse cannot
\* look into (nested parentheses, a conditional, an assignment): the builder
\* panics, and the file is left without a report.  In an else clause it is
\* like any other.
ConditionPanics ==
    /\ Read(<<"panic">>)
    /\ ~Unseen
    /\ ended' = "error"
    /\ UNCHANGED <<cfg, open, live, fresh, odd, heads, choices>>

OpenIf(cond, hasElse) ==
    /\ Read(<<IF hasElse THEN "else" ELSE "if", cond>>)
    /\ LET n == Size(cfg)
       IN  /\ open' = <<[Opened("then") EXCEPT !.cond = cond, !.hasElse = hasElse,
                                               !.after = n + 4]>> \o open
           /\ Builds(IfBlocks(cfg, cond, hasElse, live), 4, cond,
                     CASE cond = "false" -> {n + 2}
                       [] cond = "true" /\ hasElse -> {n + 3}
                       [] OTHER -> {})
           /\ Decides(n + 1, cond)
    /\ live' = (live /\ cond # "false")
    /\ fresh' = FALSE
    /\ UNCHANGED ended

\* The end of the first branch, and of the statement for the builder.
EndThen ==
    /\ open # <<>> /\ Head(open).kind = "then"
    /\ Read(<<"end">>)
    /\ LET f == Head(open)
           past == f.live /\ f.cond # "true"
       IN  /\ cfg' = IF Unseen THEN cfg ELSE IfEnds(cfg, f.hasElse, f.after)
           /\ IF f.hasElse
              THEN /\ open' = <<[f EXCEPT !.kind = "else", !.other = live]>> \o Tail(open)
                   /\ live' = past
              ELSE /\ open' = Tail(open)
                   /\ live' = (live \/ past)
    /\ fresh' = FALSE
    /\ UNCHANGED <<odd, heads, choices, ended>>

EndElse ==
    /\ open # <<>> /\ Head(open).kind = "else"
    /\ Read(<<"end">>)
    /\ open' = Tail(open)
    /\ live' = (live \/ Head(open).other)
    /\ fresh' = FALSE
    /\ UNCHANGED <<cfg, odd, heads, choices, ended>>

OpenWhile(cond) ==
    /\ Read(<<"while", cond>>)
    /\ LET n == Size(cfg)
       IN  /\ open' = <<[Opened("while") EXCEPT !.cond = cond, !.test = n + 1,
                                                !.after = n + 3]>> \o open
           /\ Builds(WhileBlocks(cfg, cond, live), 3, cond,
                     IF cond = "false" THEN {n + 2} ELSE {})
           /\ Decides(n + 1, cond)
    /\ live' = (live /\ cond # "false")
    /\ fresh' = FALSE
    /\ UNCHANGED ended

OpenForIn ==
    /\ Read(<<"for in">>)
    /\ LET n == Size(AddInstruction(cfg, live))
       IN  /\ open' = <<[Opened("for in") EXCEPT !.test = n + 2, !.after = n + 4]>> \o open
           /\ Decides(n + 2, "any")
    /\ Builds(ForInBlocks(cfg, live), 0, "any", {})
    /\ fresh' = FALSE
    /\ UNCHANGED <<live, ended>>

\* Code after an endless loop is unreachable, if no break leaves the loop.
EndLoop ==
    /\ open # <<>> /\ Head(open).kind \in {"while", "for in"}
    /\ Read(<<"end">>)
    /\ LET f == Head(open)
       IN  /\ cfg' = IF Unseen THEN cfg ELSE LoopEnds(cfg, f.test, f.after)
           /\ live' = ((f.live /\ f.cond # "true") \/ "live" \in f.left)
           /\ fresh' = (f.live /\ f.cond = "true" /\ f.left = {})
    /\ open' = Tail(open)
    /\ UNCHANGED <<odd, heads, choices, ended>>

\* A statement without a builder: its parts are visited one after the other.
OpenSwitch ==
    /\ Read(<<"switch">>)
    /\ open' = <<Opened("switch")>> \o open
    /\ UNCHANGED <<cfg, live, fresh, odd, heads, choices, ended>>

\* So is a loop without one, which may run any number of times or never: one
\* that does not end counts as one that may.
OpenFor ==
    /\ Read(<<"for">>)
    /\ open' = <<Opened("for")>> \o open
    /\ odd' = odd \cup {Odd("uncounted")}
    /\ UNCHANGED <<cfg, live, fresh, heads, choices, ended>>

\* Every case may be the first to run, or none.
NextCase ==
    /\ open # <<>> /\ Head(open).kind = "switch"
    /\ Read(<<"case">>)
    /\ live' = Head(open).live
    /\ fresh' = FALSE
    /\ odd' = odd \cup Tags(~live, "astray") \cup {Odd("uncounted")}
    /\ UNCHANGED <<cfg, open, heads, choices, ended>>

EndSwitch ==
    /\ open # <<>> /\ Head(open).kind \in {"for", "switch"}
    /\ Read(<<"end">>)
    /\ live' = Head(open).live
    /\ fresh' = FALSE
    /\ open' = Tail(open)
    /\ odd' = odd \cup Tags(~live, "astray")
    /\ UNCHANGED <<cfg, heads, choices, ended>>

\* buildFunctionCfg.  A function may be called wherever it is declared.
OpenFunction ==
    /\ Read(<<"function">>)
    /\ LET g == AddInstruction(cfg, TRUE)
       IN  /\ open' = <<[Opened("function") EXCEPT !.prev = g.current]>> \o open
           /\ cfg' = IF Unseen THEN cfg ELSE BeginFunction(g)
    /\ odd' = odd \cup Tags(Unseen, "unseen") \cup Tags(~live, "hoisted")
    /\ live' = TRUE
    /\ fresh' = FALSE
    /\ UNCHANGED <<heads, choices, ended>>

EndInnerFunction ==
    /\ Len(open) > 1 /\ Head(open).kind = "function"
    /\ Read(<<"end">>)
    /\ cfg' = IF Unseen THEN cfg ELSE EndFunction(cfg, Head(open).prev)
    /\ open' = Tail(open)
    /\ live' = Head(open).live
    /\ fresh' = FALSE
    /\ UNCHANGED <<odd, heads, choices, ended>>

\* visitChildren of the program visits the signature of a function, which
\* builds the function, and then its body, which builds that once more.
EndDirectFunction ==
    /\ Len(open) = 1 /\ Head(open).kind = "function"
    /\ ended = "no"
    /\ written' = written + 1
    /\ ahead' = Append(body, <<"end">>)
    /\ body' = <<>>
    /\ cfg' = EndFunction(cfg, Head(open).prev)
    /\ open' = <<[Head(open) EXCEPT !.kind = "again"]>>
    /\ live' = TRUE
    /\ fresh' = FALSE
    /\ odd' = odd \cup {<<1, "again">>}
    /\ UNCHANGED <<heads, choices, ended>>

EndAgain ==
    /\ open # <<>> /\ Head(open).kind = "again"
    /\ Read(<<"end">>)
    /\ open' = Tail(open)
    /\ odd' = odd \cup Tags(~live, "again jump")
    /\ live' = Head(open).live
    /\ fresh' = FALSE
    /\ UNCHANGED <<cfg, heads, choices, ended>>

\* The end of the program.
Finish ==
    /\ ended = "no" /\ open = <<>> /\ ahead = <<>>
    /\ cfg' = AddEdge(cfg, cfg.current, End(cfg, 1))
    /\ ended' = "done"
    /\ UNCHANGED <<open, live, fresh, written, body, ahead, odd, heads, choices>>

Next ==
    \/ Simple \/ Plain \/ Throw \/ Return \/ Break \/ Continue \/ ConditionPanics
    \/ \E cond \in Conditions :
          OpenWhile(cond) \/ \E hasElse \in BOOLEAN : OpenIf(cond, hasElse)
    \/ OpenForIn \/ OpenFor \/ OpenSwitch \/ OpenFunction
    \/ EndThen \/ EndElse \/ EndLoop \/ NextCase \/ EndSwitch
    \/ EndInnerFunction \/ EndDirectFunction \/ EndAgain
    \/ Finish

Spec == Init /\ [][Next]_vars

-----------------------------------------------------------------------------
(* Properties.                                                             *)

\* analyseCfg: the blocks it reports.
Reported ==
    {b \in 1 .. Size(cfg) : /\ ~HasBefore(cfg, b)
                            /\ b # Start(cfg, cfg.block[b].function)
                            /\ cfg.block[b].shown # "nothing"}

Has(b, some) == \E what \in some : <<cfg.block[b].function, what>> \in odd

\* What is reported cannot be reached, unless the function has a jump in an
\* else clause, a jump that is astray (in or out of a switch or a loop without
\* a builder, by a label out of more than the innermost loop) or an end of
\* such a part that is not reached, a function declared after a jump, or it
\* is the program and a function that jumps stands directly in it.
OnlyUnreachableReported ==
    ended = "done" =>
        \A b \in Reported :
            cfg.block[b].shown = "reachable" =>
                Has(b, {"unseen jump", "astray", "hoisted", "again jump"})

\* README.md:25 "Highlights unreachable sections of code through the use of
\* control flow graph analysis."
HighlightsUnreachable ==
    ended = "done" => \A b \in Reported : cfg.block[b].shown = "unreachable"

\* Unreachable code is reported, from its first statement with an instruction
\* on, if it begins after a return, break or continue, after an endless while,
\* or in a branch never taken (not after a throw, an endless for or an if
\* both of whose branches jump), in a file that is analysed at all and in
\* which nothing goes astray.
UnreachableReported ==
    ended = "done" /\ (\A o \in odd : o[2] # "astray") => heads \subseteq Reported

\* From the start of a function: getDownwardNodes.
Downward(f) ==
    LET within[n \in 0 .. Size(cfg)] ==
            IF n = 0 THEN {Start(cfg, f)}
            ELSE LET some == within[n - 1]
                 IN  some \cup {e[2] : e \in {d \in cfg.edges : d[1] \in some}}
    IN  within[Size(cfg)]

Complexity(f) ==
    Cardinality({e \in cfg.edges : e[1] \in Downward(f)}) + 2 - Cardinality(Downward(f))

\* The cyclomatic complexity of a function is one more than its decisions (if,
\* while, for in), if it can end, has no switch with cases, loop without a
\* builder or throw, none of whose decisions are counted, no condition is
\* constant and all its code is seen and reached.
ComplexityCountsDecisions ==
    ended = "done" =>
        \A f \in DOMAIN cfg.functions :
            End(cfg, f) \in Downward(f) /\ (\A o \in odd : o[1] # f) =>
                Complexity(f) = 1 + Cardinality({b \in choices : cfg.block[b].function = f})
=============================================================================
