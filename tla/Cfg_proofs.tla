----------------------------- MODULE Cfg_proofs ------------------------------
(***************************************************************************)
(* What is reported as unreachable, and what is not, for every file of the *)
(* statements Cfg has.                                                     *)
(*                                                                         *)
(* Edges only ever leave the current block and new ones.  The blocks where *)
(* the walk will go on, after what it is inside of, belong to one frame    *)
(* each and have no edges yet; so the invariant (Walk) says of the current *)
(* block and of these what the walk will find when it comes to them.  What *)
(* the builder keeps on its stacks is told from the frames (Nesting).      *)
(***************************************************************************)
EXTENDS Cfg, SequenceTheorems, TLAPS

-----------------------------------------------------------------------------
(* The graph.                                                              *)

Loops == {"while", "for in"}

Excuses == {"unseen jump", "astray", "hoisted", "again jump"}
Excused(f, o) == \E what \in Excuses : <<f, what>> \in o
Straight(o) == \A x \in o : x[2] # "astray"

Blocks(g) == 1 .. Size(g)
Functions(g) == 1 .. Len(g.functions)
Ends(g) == {End(g, f) : f \in Functions(g)}
Starts(g) == {Start(g, f) : f \in Functions(g)}

Formed(g) ==
    /\ g \in Cfgs
    /\ \A b \in Blocks(g) : g.block[b].function \in Functions(g)
    /\ g.edges \subseteq Blocks(g) \X Blocks(g)
    /\ g.current \in Blocks(g)
    /\ Starts(g) \subseteq Blocks(g) /\ Ends(g) \subseteq Blocks(g)
    /\ g.stack # <<>>
    /\ g.block[g.current].function = Function(g)

\* A block that is not reported.
Entered(g, b) == HasBefore(g, b) \/ b = Start(g, g.block[b].function)

\* The walk may go on in this block: what it then shows will not be reported.
Leads(g, b, reach, o) ==
    reach => Excused(g.block[b].function, o) \/ (~HasAfter(g, b) /\ Entered(g, b))

Sound(g, o) ==
    \A b \in Blocks(g) :
        g.block[b].shown = "reachable" => Entered(g, b) \/ Excused(g.block[b].function, o)

-----------------------------------------------------------------------------
(* What the walk is inside of, outermost first.                            *)

\* The blocks of a frame from which edges may go later, or to which.
Own(f) ==
    CASE f.kind = "then" -> {f.after - 1, f.after}
      [] f.kind \in Loops -> {f.test, f.after}
      [] f.kind = "function" -> {f.prev}
      [] OTHER -> {}

Targets(f) ==
    CASE f.kind = "then" -> {f.after}
      [] f.kind \in Loops -> {f.test, f.after}
      [] OTHER -> {}

\* What is known of the blocks of a frame in function fn.
Within(f, fn, g, o) ==
    /\ Own(f) \subseteq Blocks(g) \ ({g.current} \cup Ends(g))
    /\ Targets(f) \cap Starts(g) = {}
    /\ Targets(f) # {} => ~HasAfter(g, f.after) /\ g.block[f.after].function = fn
    /\ f.kind = "then" /\ ~f.hasElse => HasBefore(g, f.after)
    /\ f.kind \in Loops =>
          /\ f.test # f.after
          /\ f.cond # "true" => HasBefore(g, f.after)
          /\ "live" \in f.left => HasBefore(g, f.after) \/ Excused(fn, o)
          /\ f.cond = "true" /\ f.left = {} /\ Straight(o) => ~HasBefore(g, f.after)
    /\ f.kind = "function" => g.block[f.prev].function = fn /\ Leads(g, f.prev, TRUE, o)

Seen(nest, p) == \A r \in 1 .. p : nest[r].kind # "else"

\* The builder's stacks inside of a number of frames.
Context == [stack : Seq(Nat), breaks : Seq(Nat), continues : Seq(Nat)]

Pushed(x, s) == <<x>> \o s

Enters(f, seen, c, d) ==
    /\ d.breaks = IF seen /\ f.kind \in Loops THEN Pushed(f.after, c.breaks) ELSE c.breaks
    /\ d.continues = IF seen /\ f.kind \in Loops THEN Pushed(f.test, c.continues) ELSE c.continues
    /\ IF seen /\ f.kind = "function" THEN d.stack # <<>> /\ Tail(d.stack) = c.stack
       ELSE d.stack = c.stack

\* On top of the stacks is what belongs to the innermost frame of the kind.
Top(nest, ctx, p, q) ==
    /\ (\A r \in p + 1 .. q : nest[r].kind # "function") => ctx[q].stack = ctx[p].stack
    /\ p # 0 /\ nest[p].kind \in Loops /\ (\A r \in p + 1 .. q : nest[r].kind \notin Loops) /\ Seen(nest, q) =>
          /\ ctx[q].breaks # <<>> /\ Head(ctx[q].breaks) = nest[p].after
          /\ ctx[q].continues # <<>> /\ Head(ctx[q].continues) = nest[p].test

\* What is on top of the breaks and of the continues belongs to a frame.
TopOf(f, c) == f.kind \in Loops /\ Head(c.breaks) = f.after /\ Head(c.continues) = f.test

Bound(nest, ctx, q) ==
    ctx[q].breaks # <<>> \/ ctx[q].continues # <<>> =>
        \E p \in 1 .. q : Seen(nest, p - 1) /\ TopOf(nest[p], ctx[q])

Nesting(nest, ctx) ==
    /\ nest \in Seq(Frame)
    /\ ctx \in [0 .. Len(nest) -> Context]
    /\ ctx[0] = [stack |-> <<1>>, breaks |-> <<>>, continues |-> <<>>]
    /\ \A p \in 0 .. Len(nest) : ctx[p].stack # <<>>
    /\ \A p \in 1 .. Len(nest) : Enters(nest[p], Seen(nest, p - 1), ctx[p - 1], ctx[p])
    /\ \A q \in 0 .. Len(nest) : Bound(nest, ctx, q) /\ \A p \in 0 .. q : Top(nest, ctx, p, q)

Frames(nest, ctx, g, o) ==
    \A p \in 1 .. Len(nest) :
        Seen(nest, p - 1) => Within(nest[p], Head(ctx[p - 1].stack), g, o)

Apart(nest) ==
    \A q \in 1 .. Len(nest) : \A p \in 1 .. q - 1 :
        Seen(nest, q - 1) => Own(nest[p]) \cap Own(nest[q]) = {}

-----------------------------------------------------------------------------
(* The walk.                                                               *)

Matches(g, c) == g.stack = c.stack /\ g.breaks = c.breaks /\ g.continues = c.continues

\* Where unreachable code begins is reported, and no edge will ever go there.
Begun(nest, g, b) ==
    /\ b \in Blocks(g) \ (Starts(g) \cup Ends(g))
    /\ ~HasBefore(g, b) /\ g.block[b].shown # "nothing"
    /\ \A p \in 1 .. Len(nest) : Seen(nest, p - 1) => b \notin Targets(nest[p])

Begins(nest, g, hs) == \A b \in hs : Begun(nest, g, b)

\* It may begin here.
Afresh(g) == HasAfter(g, g.current) \/ (~HasBefore(g, g.current) /\ g.current \notin Starts(g))

Walk(nest, ctx, g, o, l, fr, hs) ==
    /\ Formed(g)
    /\ Nesting(nest, ctx)
    /\ Matches(g, ctx[Len(nest)])
    /\ Frames(nest, ctx, g, o)
    /\ Apart(nest)
    /\ g.current \notin Ends(g)
    /\ Leads(g, g.current, l \/ ~Seen(nest, Len(nest)), o)
    /\ Sound(g, o)
    /\ Straight(o) => Begins(nest, g, hs) /\ (fr /\ Seen(nest, Len(nest)) => Afresh(g))

-----------------------------------------------------------------------------
(* What a builder has made of a graph: edges, and blocks that show code.   *)

Made(g, h, edges, shows) ==
    /\ h \in Cfgs
    /\ Size(g) <= Size(h)
    /\ h.edges = g.edges \cup edges
    /\ h.functions = g.functions /\ h.stack = g.stack
    /\ \A b \in Blocks(g) :
          /\ h.block[b].function = g.block[b].function
          /\ g.block[b].shown # "nothing" => h.block[b].shown = g.block[b].shown
    /\ \A b \in Blocks(h) :
          /\ b \notin Blocks(g) => h.block[b].function = Function(g)
          /\ h.block[b].shown = "reachable" =>
                <<b, TRUE>> \in shows \/ (b \in Blocks(g) /\ g.block[b].shown = "reachable")
    /\ \A s \in shows : s[1] \in Blocks(h) /\ h.block[s[1]].shown # "nothing"

LEMMA CfgFields ==
    ASSUME NEW g \in Cfgs
    PROVE  /\ g.block \in Seq(Block) /\ g.edges \in SUBSET (Nat \X Nat) /\ g.current \in Nat
           /\ g.breaks \in Seq(Nat) /\ g.continues \in Seq(Nat)
           /\ g.functions \in Seq(Nat \X Nat) /\ g.stack \in Seq(Nat)
           /\ Size(g) \in Nat
  BY DEF Cfgs, Size

LEMMA NothingMade ==
    ASSUME NEW g \in Cfgs
    PROVE  Made(g, g, {}, {})
  BY CfgFields DEF Made, Size, Blocks

LEMMA BlocksAdded ==
    ASSUME NEW g \in Cfgs, g.stack # <<>>, NEW n \in Nat
    PROVE  /\ AddBlocks(g, n) \in Cfgs
           /\ Size(AddBlocks(g, n)) = Size(g) + n
           /\ AddBlocks(g, n) = [g EXCEPT !.block = AddBlocks(g, n).block]
           /\ \A b \in Blocks(g) : AddBlocks(g, n).block[b] = g.block[b]
           /\ \A b \in Size(g) + 1 .. Size(g) + n :
                 AddBlocks(g, n).block[b] = [function |-> Function(g), shown |-> "nothing"]
  <1> DEFINE new == [i \in 1 .. n |-> [function |-> Function(g), shown |-> "nothing"]]
             all == g.block \o new
  <1>1. Function(g) \in Nat
    BY CfgFields, HeadTailProperties DEF Function
  <1>2. [function |-> Function(g), shown |-> "nothing"] \in Block
    BY <1>1 DEF Block
  <1>3. new \in Seq(Block) /\ Len(new) = n
    BY <1>2
  <1>4. /\ all \in Seq(Block) /\ Len(all) = Size(g) + n
        /\ \A b \in 1 .. Size(g) : all[b] = g.block[b]
        /\ \A b \in Size(g) + 1 .. Size(g) + n : all[b] = new[b - Size(g)]
    <2> HIDE DEF new
    <2>1. g.block \in Seq(Block) /\ Len(g.block) = Size(g)
      BY CfgFields DEF Size
    <2>2. PICK old \in Seq(Block) : old = g.block
      BY <2>1
    <2>3. /\ old \o new \in Seq(Block) /\ Len(old \o new) = Len(old) + Len(new)
          /\ \A b \in 1 .. Len(old) + Len(new) :
                (old \o new)[b] = IF b <= Len(old) THEN old[b] ELSE new[b - Len(old)]
      BY <1>3, ConcatProperties
    <2>4. PICK m \in Nat : m = Len(old)
      OBVIOUS
    <2>5. PICK ab : ab = old \o new
      OBVIOUS
    <2>6. /\ ab \in Seq(Block) /\ Len(ab) = m + n
          /\ \A b \in 1 .. m : ab[b] = old[b]
          /\ \A b \in m + 1 .. m + n : ab[b] = new[b - m]
      BY <1>3, <2>3, <2>4, <2>5
    <2>7. all = ab /\ m = Size(g)
      BY <2>1, <2>2, <2>4, <2>5
    <2> HIDE DEF all
    <2> QED
      BY <2>1, <2>2, <2>6, <2>7
  <1>5. AddBlocks(g, n) = [g EXCEPT !.block = all]
    BY DEF AddBlocks
  <1>6. \A b \in Size(g) + 1 .. Size(g) + n : new[b - Size(g)] = [function |-> Function(g), shown |-> "nothing"]
    BY CfgFields
  <1>7. AddBlocks(g, n).block = all
    BY <1>5 DEF Cfgs
  <1>8. AddBlocks(g, n) \in Cfgs
    BY <1>4, <1>5 DEF Cfgs
  <1> HIDE DEF all, new
  <1> QED
    BY <1>4, <1>5, <1>6, <1>7, <1>8 DEF Size, Blocks

LEMMA EdgeAdded ==
    ASSUME NEW g \in Cfgs, NEW a \in Nat, NEW b \in Nat
    PROVE  /\ AddEdge(g, a, b) \in Cfgs
           /\ AddEdge(g, a, b) = [g EXCEPT !.edges = g.edges \cup {<<a, b>>}]
  <1>1. AddEdge(g, a, b) = [g EXCEPT !.edges = g.edges \cup {<<a, b>>}]
    BY DEF AddEdge
  <1>2. g.edges \cup {<<a, b>>} \in SUBSET (Nat \X Nat)
    BY CfgFields
  <1> QED
    BY <1>1, <1>2 DEF Cfgs

LEMMA Shown ==
    ASSUME NEW g \in Cfgs, NEW b \in Blocks(g), NEW r \in BOOLEAN
    PROVE  /\ Show(g, b, r) \in Cfgs
           /\ Show(g, b, r) = [g EXCEPT !.block = Show(g, b, r).block]
           /\ Size(Show(g, b, r)) = Size(g)
           /\ \A x \in Blocks(g) \ {b} : Show(g, b, r).block[x] = g.block[x]
           /\ Show(g, b, r).block[b].function = g.block[b].function
           /\ Show(g, b, r).block[b].shown =
                 IF g.block[b].shown # "nothing" THEN g.block[b].shown
                 ELSE IF r THEN "reachable" ELSE "unreachable"
  <1>1. g.block \in Seq(Block) /\ b \in 1 .. Len(g.block) /\ g.block[b] \in Block
    BY CfgFields DEF Blocks, Size
  <1> DEFINE shown == IF r THEN "reachable" ELSE "unreachable"
             new == [g.block[b] EXCEPT !.shown = shown]
             all == [g.block EXCEPT ![b] = new]
  <1>2. new \in Block /\ new.function = g.block[b].function /\ new.shown = shown
    BY <1>1 DEF Block
  <1>3. all \in Seq(Block) /\ Len(all) = Len(g.block) /\ all[b] = new
        /\ \A x \in 1 .. Len(g.block) : x # b => all[x] = g.block[x]
    BY <1>1, <1>2
  <1>4. CASE g.block[b].shown = "nothing"
    <2>1. Show(g, b, r) = [g EXCEPT !.block = all]
      BY <1>4 DEF Show
    <2>2. Show(g, b, r).block = all
      BY <2>1 DEF Cfgs
    <2>3. Show(g, b, r) \in Cfgs
      BY <1>3, <2>1 DEF Cfgs
    <2> HIDE DEF all, new
    <2> QED
      BY <1>2, <1>3, <1>4, <2>1, <2>2, <2>3 DEF Size, Blocks
  <1>5. CASE g.block[b].shown # "nothing"
    <2>1. Show(g, b, r) = g
      BY <1>5 DEF Show
    <2>2. g = [g EXCEPT !.block = g.block]
      BY DEF Cfgs
    <2> QED
      BY <1>5, <2>1, <2>2
  <1> QED
    BY <1>4, <1>5

LEMMA MadeBlocks ==
    ASSUME NEW g \in Cfgs, g.stack # <<>>, NEW h, NEW E, NEW R, Made(g, h, E, R), NEW n \in Nat
    PROVE  /\ Made(g, AddBlocks(h, n), E, R)
           /\ Size(AddBlocks(h, n)) = Size(h) + n
           /\ AddBlocks(h, n).current = h.current
           /\ AddBlocks(h, n).breaks = h.breaks
           /\ AddBlocks(h, n).continues = h.continues
  <1> DEFINE k == AddBlocks(h, n)
  <1>1. h \in Cfgs /\ h.stack = g.stack
    BY DEF Made
  <1>2. /\ k \in Cfgs /\ Size(k) = Size(h) + n
        /\ k = [h EXCEPT !.block = k.block]
        /\ \A b \in Blocks(h) : k.block[b] = h.block[b]
        /\ \A b \in Size(h) + 1 .. Size(h) + n : k.block[b] = [function |-> Function(h), shown |-> "nothing"]
    BY <1>1, BlocksAdded
  <1> HIDE DEF k
  <1>3. Function(h) = Function(g)
    BY <1>1 DEF Function
  <1>4. /\ k.edges = h.edges /\ k.functions = h.functions /\ k.stack = h.stack
        /\ k.current = h.current /\ k.breaks = h.breaks /\ k.continues = h.continues
    BY <1>1, <1>2 DEF Cfgs
  <1>5. Size(g) \in Nat /\ Size(h) \in Nat /\ Size(g) <= Size(h)
    BY <1>1, CfgFields DEF Made
  <1>6. \A b \in Blocks(k) : b \in Blocks(h) \/ b \in Size(h) + 1 .. Size(h) + n
    BY <1>2, <1>5 DEF Blocks
  <1>7. Blocks(g) \subseteq Blocks(h) /\ Blocks(h) \subseteq Blocks(k)
        /\ \A b \in Size(h) + 1 .. Size(h) + n : b \notin Blocks(h)
    BY <1>2, <1>5 DEF Blocks
  <1>8. Size(g) <= Size(k)
    BY <1>2, <1>5
  <1>9. \A b \in Size(h) + 1 .. Size(h) + n :
           k.block[b].function = Function(g) /\ k.block[b].shown = "nothing"
    BY <1>2, <1>3
  <1>10. Made(g, k, E, R)
    <2>1. \A b \in Blocks(g) : k.block[b] = h.block[b]
      BY <1>2, <1>7
    <2>2. \A b \in Blocks(k) :
             \/ k.block[b] = h.block[b] /\ b \in Blocks(h)
             \/ k.block[b].function = Function(g) /\ k.block[b].shown = "nothing"
      BY <1>2, <1>6, <1>9
    <2>3. \A s \in R : s[1] \in Blocks(k) /\ k.block[s[1]].shown # "nothing"
      BY <1>2, <1>7 DEF Made
    <2>4. \A b \in Blocks(k) :
          /\ b \notin Blocks(g) => k.block[b].function = Function(g)
          /\ k.block[b].shown = "reachable" =>
                <<b, TRUE>> \in R \/ (b \in Blocks(g) /\ g.block[b].shown = "reachable")
      BY <2>2 DEF Made
    <2> QED
      BY <1>2, <1>4, <1>8, <2>1, <2>3, <2>4 DEF Made
  <1> QED
    BY <1>2, <1>4, <1>10 DEF k

LEMMA MadeEdge ==
    ASSUME NEW g, NEW h, NEW E, NEW R, Made(g, h, E, R), NEW a \in Nat, NEW b \in Nat
    PROVE  /\ Made(g, AddEdge(h, a, b), E \cup {<<a, b>>}, R)
           /\ Size(AddEdge(h, a, b)) = Size(h)
           /\ AddEdge(h, a, b).current = h.current
           /\ AddEdge(h, a, b).breaks = h.breaks /\ AddEdge(h, a, b).continues = h.continues
  <1> DEFINE k == AddEdge(h, a, b)
  <1>1. h \in Cfgs
    BY DEF Made
  <1>2. k \in Cfgs /\ k = [h EXCEPT !.edges = h.edges \cup {<<a, b>>}]
    BY <1>1, EdgeAdded
  <1> HIDE DEF k
  <1>3. /\ k.edges = h.edges \cup {<<a, b>>} /\ k.block = h.block /\ k.current = h.current
        /\ k.breaks = h.breaks /\ k.continues = h.continues /\ k.functions = h.functions /\ k.stack = h.stack
    BY <1>1, <1>2 DEF Cfgs
  <1>4. Size(k) = Size(h) /\ Blocks(k) = Blocks(h)
    BY <1>3 DEF Size, Blocks
  <1>5. Made(g, k, E \cup {<<a, b>>}, R)
    BY <1>2, <1>3, <1>4 DEF Made
  <1> QED
    BY <1>2, <1>3, <1>4, <1>5 DEF k

LEMMA MadeShow ==
    ASSUME NEW g, NEW h, NEW E, NEW R, Made(g, h, E, R), Size(g) \in Nat, NEW b \in Blocks(h), NEW r \in BOOLEAN
    PROVE  /\ Made(g, Show(h, b, r), E, R \cup {<<b, r>>})
           /\ Size(Show(h, b, r)) = Size(h)
           /\ Show(h, b, r).current = h.current
           /\ Show(h, b, r).edges = h.edges
           /\ Show(h, b, r).breaks = h.breaks /\ Show(h, b, r).continues = h.continues
  <1> DEFINE k == Show(h, b, r)
  <1>1. h \in Cfgs
    BY DEF Made
  <1>2. /\ k \in Cfgs /\ k = [h EXCEPT !.block = k.block] /\ Size(k) = Size(h)
        /\ \A x \in Blocks(h) \ {b} : k.block[x] = h.block[x]
        /\ k.block[b].function = h.block[b].function
        /\ k.block[b].shown = IF h.block[b].shown # "nothing" THEN h.block[b].shown
                              ELSE IF r THEN "reachable" ELSE "unreachable"
    BY <1>1, Shown
  <1> HIDE DEF k
  <1>3. /\ k.edges = h.edges /\ k.current = h.current
        /\ k.breaks = h.breaks /\ k.continues = h.continues /\ k.functions = h.functions /\ k.stack = h.stack
    BY <1>1, <1>2 DEF Cfgs
  <1>4. Blocks(k) = Blocks(h)
    BY <1>2 DEF Blocks
  <1>5. \A x \in Blocks(k) :
          /\ k.block[x].function = h.block[x].function
          /\ h.block[x].shown # "nothing" => k.block[x].shown = h.block[x].shown
          /\ k.block[x].shown = "reachable" => h.block[x].shown = "reachable" \/ (x = b /\ r = TRUE)
    BY <1>2, <1>4
  <1>6. k.block[b].shown # "nothing"
    BY <1>2
  <1>7. Blocks(g) \subseteq Blocks(h)
    BY <1>1, CfgFields DEF Made, Blocks
  <1>8. Made(g, k, E, R \cup {<<b, r>>})
    <2>1. \A x \in Blocks(g) : /\ k.block[x].function = g.block[x].function
                               /\ g.block[x].shown # "nothing" => k.block[x].shown = g.block[x].shown
      BY <1>4, <1>5, <1>7 DEF Made
    <2>2. \A x \in Blocks(k) :
          /\ x \notin Blocks(g) => k.block[x].function = Function(g)
          /\ k.block[x].shown = "reachable" =>
                <<x, TRUE>> \in R \cup {<<b, r>>} \/ (x \in Blocks(g) /\ g.block[x].shown = "reachable")
      <3> SUFFICES ASSUME NEW x \in Blocks(k)
                   PROVE  /\ x \notin Blocks(g) => k.block[x].function = Function(g)
                          /\ k.block[x].shown = "reachable" =>
                                <<x, TRUE>> \in R \cup {<<b, r>>}
                                \/ (x \in Blocks(g) /\ g.block[x].shown = "reachable")
        OBVIOUS
      <3>1. CASE x = b /\ r = TRUE
        BY <1>4, <1>5, <3>1 DEF Made
      <3>2. CASE ~(x = b /\ r = TRUE)
        <4>1. k.block[x].shown = "reachable" => h.block[x].shown = "reachable"
          BY <1>5, <3>2
        <4> QED
          BY <1>4, <1>5, <4>1 DEF Made
      <3> QED
        BY <3>1, <3>2
    <2>3. \A s \in R \cup {<<b, r>>} : s[1] \in Blocks(k) /\ k.block[s[1]].shown # "nothing"
      BY <1>4, <1>5, <1>6 DEF Made
    <2> QED
      BY <1>2, <1>3, <2>1, <2>2, <2>3 DEF Made
  <1> QED
    BY <1>2, <1>3, <1>8 DEF k

LEMMA MadeSame ==
    ASSUME NEW g, NEW h, NEW E, NEW R, Made(g, h, E, R), NEW k \in Cfgs,
           k.block = h.block, k.edges = h.edges, k.functions = h.functions, k.stack = h.stack
    PROVE  Made(g, k, E, R) /\ Size(k) = Size(h)
  <1>1. Size(k) = Size(h) /\ Blocks(k) = Blocks(h)
    BY DEF Size, Blocks
  <1> QED
    BY <1>1 DEF Made

\* An instruction goes to the current block, or to a new one if that was left.
LEMMA MadeInstruction ==
    ASSUME NEW g \in Cfgs, g.stack # <<>>, NEW h, NEW E, NEW R, Made(g, h, E, R), NEW r \in BOOLEAN,
           h.current \in Blocks(h)
    PROVE  \E c \in Nat :
              /\ c = IF HasAfter(h, h.current) THEN Size(h) + 1 ELSE h.current
              /\ AddInstruction(h, r).current = c
              /\ Size(AddInstruction(h, r)) = IF HasAfter(h, h.current) THEN Size(h) + 1 ELSE Size(h)
              /\ Made(g, AddInstruction(h, r), E, R \cup {<<c, r>>})
              /\ AddInstruction(h, r).breaks = h.breaks /\ AddInstruction(h, r).continues = h.continues
  <1>0. h \in Cfgs /\ h.stack = g.stack /\ Size(h) \in Nat /\ Size(g) \in Nat /\ h.current \in Nat
    BY CfgFields DEF Made
  <1>1. CASE HasAfter(h, h.current)
    <2> DEFINE k == AddBlocks(h, 1)
               m == [k EXCEPT !.current = Size(k)]
    <2>1. /\ Made(g, k, E, R) /\ Size(k) = Size(h) + 1
          /\ k.breaks = h.breaks /\ k.continues = h.continues
      BY MadeBlocks
    <2>2. AddInstruction(h, r) = Show(m, Size(k), r)
      BY <1>1 DEF AddInstruction
    <2> HIDE DEF k
    <2>3. k \in Cfgs
      BY <2>1 DEF Made
    <2>4. m \in Cfgs /\ m.block = k.block /\ m.edges = k.edges /\ m.functions = k.functions /\ m.stack = k.stack
          /\ m.current = Size(k) /\ m.breaks = k.breaks /\ m.continues = k.continues
      <3>1. Size(k) \in Nat
        BY <1>0, <2>1
      <3>2. PICK n \in Nat : n = Size(k)
        BY <3>1
      <3>3. m = [k EXCEPT !.current = n]
        BY <3>2
      <3> HIDE DEF m
      <3>4. m.current = n
        BY <2>3, <3>3 DEF Cfgs
      <3> QED
        BY <2>3, <3>2, <3>3, <3>4 DEF Cfgs
    <2> HIDE DEF m
    <2>5. Made(g, m, E, R) /\ Size(m) = Size(k)
      BY <2>1, <2>4, MadeSame
    <2>6. Size(k) \in Blocks(m)
      BY <1>0, <2>1, <2>5 DEF Blocks
    <2>7. /\ Made(g, Show(m, Size(k), r), E, R \cup {<<Size(k), r>>})
          /\ Size(Show(m, Size(k), r)) = Size(m) /\ Show(m, Size(k), r).current = m.current
          /\ Show(m, Size(k), r).breaks = m.breaks /\ Show(m, Size(k), r).continues = m.continues
      BY <1>0, <2>5, <2>6, MadeShow
    <2>8. PICK c \in Nat : c = Size(k)
      BY <1>0, <2>1
    <2>9. /\ c = Size(h) + 1 /\ AddInstruction(h, r).current = c
          /\ Size(AddInstruction(h, r)) = c
          /\ Made(g, AddInstruction(h, r), E, R \cup {<<c, r>>})
          /\ AddInstruction(h, r).breaks = h.breaks /\ AddInstruction(h, r).continues = h.continues
      BY <2>1, <2>2, <2>3, <2>4, <2>5, <2>7, <2>8
    <2> QED
      BY <1>1, <2>9
  <1>2. CASE ~HasAfter(h, h.current)
    <2>1. AddInstruction(h, r) = Show(h, h.current, r)
      BY <1>2 DEF AddInstruction
    <2>2. /\ Made(g, Show(h, h.current, r), E, R \cup {<<h.current, r>>})
          /\ Size(Show(h, h.current, r)) = Size(h) /\ Show(h, h.current, r).current = h.current
          /\ Show(h, h.current, r).breaks = h.breaks /\ Show(h, h.current, r).continues = h.continues
      BY <1>0, MadeShow, SMTT(30)
    <2> QED
      BY <1>0, <1>2, <2>1, <2>2
  <1> QED
    BY <1>1, <1>2

LEMMA MadeShowIf ==
    ASSUME NEW g, NEW h, NEW E, NEW R, Made(g, h, E, R), Size(g) \in Nat, NEW b \in Blocks(h),
           NEW r \in BOOLEAN, NEW p \in BOOLEAN, NEW k, k = IF p THEN Show(h, b, r) ELSE h
    PROVE  /\ Made(g, k, E, R \cup (IF p THEN {<<b, r>>} ELSE {}))
           /\ Size(k) = Size(h)
           /\ k.current = h.current /\ k.breaks = h.breaks /\ k.continues = h.continues
  <1>1. CASE p
    BY <1>1, MadeShow
  <1>2. CASE ~p
    <2>1. k = h /\ R \cup (IF p THEN {<<b, r>>} ELSE {}) = R
      BY <1>2
    <2> QED
      BY <2>1
  <1> QED
    BY <1>1, <1>2

LEMMA MadeAt ==
    ASSUME NEW g, NEW h, NEW E, NEW R, Made(g, h, E, R), NEW c \in Nat
    PROVE  /\ Made(g, [h EXCEPT !.current = c], E, R)
           /\ Size([h EXCEPT !.current = c]) = Size(h)
           /\ [h EXCEPT !.current = c].current = c
           /\ [h EXCEPT !.current = c].breaks = h.breaks
           /\ [h EXCEPT !.current = c].continues = h.continues
  <1> DEFINE k == [h EXCEPT !.current = c]
  <1>1. h \in Cfgs
    BY DEF Made
  <1>2. k \in Cfgs /\ k.block = h.block /\ k.edges = h.edges /\ k.functions = h.functions
        /\ k.stack = h.stack /\ k.current = c /\ k.breaks = h.breaks /\ k.continues = h.continues
    BY <1>1 DEF Cfgs
  <1> HIDE DEF k
  <1>3. Made(g, k, E, R) /\ Size(k) = Size(h)
    BY <1>2, MadeSame
  <1> QED
    BY <1>2, <1>3 DEF k

LEMMA MadeLoop ==
    ASSUME NEW g, NEW h, NEW E, NEW R, Made(g, h, E, R), NEW test \in Nat, NEW after \in Nat
    PROVE  /\ Made(g, PushLoop(h, test, after), E, R)
           /\ Size(PushLoop(h, test, after)) = Size(h)
           /\ PushLoop(h, test, after).current = h.current
           /\ PushLoop(h, test, after).breaks = Pushed(after, h.breaks)
           /\ PushLoop(h, test, after).continues = Pushed(test, h.continues)
  <1> DEFINE k == PushLoop(h, test, after)
  <1>1. h \in Cfgs
    BY DEF Made
  <1>2. Pushed(test, h.continues) \in Seq(Nat) /\ Pushed(after, h.breaks) \in Seq(Nat)
    BY <1>1, CfgFields DEF Pushed
  <1>3. k = [h EXCEPT !.continues = Pushed(test, h.continues), !.breaks = Pushed(after, h.breaks)]
    BY DEF PushLoop, Pushed
  <1>4. PICK bs \in Seq(Nat), cs \in Seq(Nat) : bs = Pushed(after, h.breaks) /\ cs = Pushed(test, h.continues)
    BY <1>2
  <1>5. k = [h EXCEPT !.continues = cs, !.breaks = bs]
    BY <1>3, <1>4
  <1> HIDE DEF k
  <1>6. k \in Cfgs /\ k.block = h.block /\ k.edges = h.edges /\ k.functions = h.functions
        /\ k.stack = h.stack /\ k.current = h.current /\ k.breaks = bs /\ k.continues = cs
    BY <1>1, <1>5 DEF Cfgs
  <1>7. Made(g, k, E, R) /\ Size(k) = Size(h)
    BY <1>6, MadeSame
  <1> QED
    BY <1>4, <1>6, <1>7 DEF k

-----------------------------------------------------------------------------
(* What each statement makes.                                              *)

\* The block of a statement's first instruction, and their number after it.
First(g, n) == IF HasAfter(g, g.current) THEN Size(g) + n + 1 ELSE g.current
Total(g, n) == IF HasAfter(g, g.current) THEN Size(g) + n + 1 ELSE Size(g) + n

LEMMA FirstType ==
    ASSUME NEW g, Formed(g), NEW n \in Nat
    PROVE  /\ First(g, n) \in Nat /\ Total(g, n) \in Nat
           /\ Size(g) + n <= Total(g, n) /\ First(g, n) \in 1 .. Total(g, n)
           /\ First(g, n) = g.current \/ First(g, n) = Size(g) + n + 1
           /\ g.current \in 1 .. Size(g)
  BY CfgFields DEF Formed, First, Total, Blocks

LEMMA InstructionMade ==
    ASSUME NEW g, Formed(g), NEW r \in BOOLEAN, NEW n \in Nat, NEW h, Made(g, h, {}, {}),
           Size(h) = Size(g) + n, h.current = g.current
    PROVE  /\ Made(g, AddInstruction(h, r), {}, {<<First(g, n), r>>})
           /\ AddInstruction(h, r).current = First(g, n)
           /\ Size(AddInstruction(h, r)) = Total(g, n)
           /\ AddInstruction(h, r).breaks = h.breaks /\ AddInstruction(h, r).continues = h.continues
  <1>1. g \in Cfgs /\ g.stack # <<>> /\ Size(g) \in Nat /\ g.current \in 1 .. Size(g)
    BY CfgFields DEF Formed, Blocks
  <1>2. h.current \in Blocks(h)
    BY <1>1 DEF Blocks
  <1>3. HasAfter(h, h.current) <=> HasAfter(g, g.current)
    BY DEF Made, HasAfter
  <1>4. PICK c \in Nat :
              /\ c = IF HasAfter(h, h.current) THEN Size(h) + 1 ELSE h.current
              /\ AddInstruction(h, r).current = c
              /\ Size(AddInstruction(h, r)) = IF HasAfter(h, h.current) THEN Size(h) + 1 ELSE Size(h)
              /\ Made(g, AddInstruction(h, r), {}, {} \cup {<<c, r>>})
              /\ AddInstruction(h, r).breaks = h.breaks /\ AddInstruction(h, r).continues = h.continues
    BY <1>1, <1>2, MadeInstruction
  <1>5. c = First(g, n)
    BY <1>1, <1>3, <1>4 DEF First
  <1>6. Size(AddInstruction(h, r)) = Total(g, n)
    BY <1>1, <1>3, <1>4 DEF Total
  <1>7. {} \cup {<<c, r>>} = {<<First(g, n), r>>}
    BY <1>5
  <1> QED
    BY <1>4, <1>5, <1>6, <1>7

LEMMA SimpleMade ==
    ASSUME NEW g, Formed(g), NEW r \in BOOLEAN
    PROVE  /\ Made(g, AddInstruction(g, r), {}, {<<First(g, 0), r>>})
           /\ AddInstruction(g, r).current = First(g, 0)
           /\ Size(AddInstruction(g, r)) = Total(g, 0)
           /\ AddInstruction(g, r).breaks = g.breaks /\ AddInstruction(g, r).continues = g.continues
  <1>1. g \in Cfgs /\ Size(g) \in Nat
    BY CfgFields DEF Formed
  <1>2. Made(g, g, {}, {}) /\ Size(g) = Size(g) + 0
    BY <1>1, NothingMade
  <1> QED
    BY <1>2, InstructionMade

IfEdges(g, cond, hasElse) ==
    {<<First(g, 4), Size(g) + 1>>}
    \cup (IF cond # "false" THEN {<<Size(g) + 1, Size(g) + 2>>} ELSE {})
    \cup (IF ~hasElse THEN {<<Size(g) + 1, Size(g) + 4>>} ELSE {})
    \cup (IF hasElse /\ cond # "true" THEN {<<Size(g) + 1, Size(g) + 3>>} ELSE {})

IfShows(g, cond, hasElse, r) ==
    {<<First(g, 4), r>>, <<Size(g) + 1, r>>, <<Size(g) + 2, r /\ cond # "false">>}
    \cup (IF hasElse THEN {<<Size(g) + 3, r /\ cond # "true">>} ELSE {})

LEMMA IfMade ==
    ASSUME NEW g, Formed(g), NEW cond, NEW hasElse \in BOOLEAN, NEW r \in BOOLEAN
    PROVE  /\ Made(g, IfBlocks(g, cond, hasElse, r), IfEdges(g, cond, hasElse),
                   IfShows(g, cond, hasElse, r))
           /\ IfBlocks(g, cond, hasElse, r).current = Size(g) + 2
           /\ Size(IfBlocks(g, cond, hasElse, r)) = Total(g, 4)
           /\ IfBlocks(g, cond, hasElse, r).breaks = g.breaks
           /\ IfBlocks(g, cond, hasElse, r).continues = g.continues
  <1>0. PICK n \in Nat : n = Size(g)
    BY CfgFields DEF Formed
  <1>1. g \in Cfgs /\ g.stack # <<>> /\ Made(g, g, {}, {})
    BY NothingMade DEF Formed
  <1>2. PICK some : some = AddBlocks(g, 4)
    OBVIOUS
  <1>3. /\ Made(g, some, {}, {}) /\ Size(some) = Size(g) + 4
        /\ some.current = g.current /\ some.breaks = g.breaks /\ some.continues = g.continues
    BY <1>1, <1>2, MadeBlocks
  <1>5. PICK made : made = AddInstruction(some, r)
    OBVIOUS
  <1>6. PICK c \in Nat : c = First(g, 4)
    BY FirstType
  <1>7. PICK m \in Nat : m = Total(g, 4) /\ m >= n + 4
    BY <1>0, FirstType
  <1>8. /\ Made(g, made, {}, {<<c, r>>}) /\ made.current = c /\ Size(made) = m
        /\ made.breaks = g.breaks /\ made.continues = g.continues
    BY <1>3, <1>5, <1>6, <1>7, InstructionMade
  <1>9. PICK b1 \in Nat, b2 \in Nat, b3 \in Nat, b4 \in Nat :
            b1 = n + 1 /\ b2 = n + 2 /\ b3 = n + 3 /\ b4 = n + 4
    OBVIOUS
  <1>10. PICK p2 \in BOOLEAN, p3 \in BOOLEAN, p4 \in BOOLEAN, r2 \in BOOLEAN, r3 \in BOOLEAN :
            /\ p2 = (cond # "false") /\ p3 = (hasElse /\ cond # "true") /\ p4 = ~hasElse
            /\ r2 = (r /\ cond # "false") /\ r3 = (r /\ cond # "true")
    OBVIOUS
  <1> DEFINE edge == AddEdge(made, c, b1)
             test == Show(edge, b1, r)
             then == IF p2 THEN AddEdge(test, b1, b2) ELSE test
             past == IF p4 THEN AddEdge(then, b1, b4) ELSE then
             else == IF p3 THEN AddEdge(past, b1, b3) ELSE past
             show == Show(else, b2, r2)
             both == IF hasElse THEN Show(show, b3, r3) ELSE show
             E1 == {} \cup {<<c, b1>>}
             E2 == E1 \cup (IF p2 THEN {<<b1, b2>>} ELSE {})
             E3 == E2 \cup (IF p4 THEN {<<b1, b4>>} ELSE {})
             E4 == E3 \cup (IF p3 THEN {<<b1, b3>>} ELSE {})
             R0 == {<<c, r>>}
             R1 == R0 \cup {<<b1, r>>}
             R2 == R1 \cup {<<b2, r2>>}
             R3 == R2 \cup (IF hasElse THEN {<<b3, r3>>} ELSE {})
  <1> HIDE DEF R0, E1
  <1>11. /\ Made(g, edge, E1, R0) /\ Size(edge) = m
         /\ edge.breaks = g.breaks /\ edge.continues = g.continues
    BY <1>8, MadeEdge DEF E1, R0
  <1> HIDE DEF edge
  <1>12. b1 \in 1 .. m /\ b2 \in 1 .. m /\ b3 \in 1 .. m
    BY <1>7, <1>9
  <1>13. /\ Made(g, test, E1, R1)
         /\ Size(test) = m /\ test.breaks = g.breaks /\ test.continues = g.continues
    <2>1. b1 \in Blocks(edge)
      BY <1>11, <1>12 DEF Blocks
    <2> QED
      BY <1>0, <1>11, <2>1, MadeShow
  <1> HIDE DEF test, R1
  <1>15. /\ Made(g, then, E2, R1) /\ Size(then) = m
         /\ then.breaks = g.breaks /\ then.continues = g.continues
    <2>1. CASE p2
      <3>1. then = AddEdge(test, b1, b2) /\ E2 = E1 \cup {<<b1, b2>>}
        BY <2>1
      <3> HIDE DEF then, E2
      <3> QED
        BY <1>13, <3>1, MadeEdge
    <2>2. CASE ~p2
      <3>1. then = test /\ E2 = E1
        BY <2>2
      <3> QED
        BY <1>13, <3>1
    <2> QED
      BY <2>1, <2>2
  <1> HIDE DEF then, E2
  <1>17. /\ Made(g, past, E3, R1) /\ Size(past) = m
         /\ past.breaks = g.breaks /\ past.continues = g.continues
    <2>1. CASE p4
      <3>1. past = AddEdge(then, b1, b4) /\ E3 = E2 \cup {<<b1, b4>>}
        BY <2>1
      <3> HIDE DEF past, E3
      <3> QED
        BY <1>15, <3>1, MadeEdge
    <2>2. CASE ~p4
      <3>1. past = then /\ E3 = E2
        BY <2>2
      <3> QED
        BY <1>15, <3>1
    <2> QED
      BY <2>1, <2>2
  <1> HIDE DEF past, E3
  <1>19. /\ Made(g, else, E4, R1) /\ Size(else) = m
         /\ else.breaks = g.breaks /\ else.continues = g.continues
    <2>1. CASE p3
      <3>1. else = AddEdge(past, b1, b3) /\ E4 = E3 \cup {<<b1, b3>>}
        BY <2>1
      <3> HIDE DEF else, E4
      <3> QED
        BY <1>17, <3>1, MadeEdge
    <2>2. CASE ~p3
      <3>1. else = past /\ E4 = E3
        BY <2>2
      <3> QED
        BY <1>17, <3>1
    <2> QED
      BY <2>1, <2>2
  <1> HIDE DEF else, E4
  <1>21. /\ Made(g, show, E4, R2) /\ Size(show) = m
         /\ show.breaks = g.breaks /\ show.continues = g.continues
    <2>1. b2 \in Blocks(else)
      BY <1>12, <1>19 DEF Blocks
    <2> QED
      BY <1>0, <1>19, <2>1, MadeShow
  <1> HIDE DEF show, R2
  <1>23. /\ Made(g, both, E4, R3) /\ Size(both) = m
         /\ both.breaks = g.breaks /\ both.continues = g.continues
    <2>1. b3 \in Blocks(show)
      BY <1>12, <1>21 DEF Blocks
    <2> QED
      BY <1>0, <1>21, <2>1, MadeShowIf
  <1> HIDE DEF both, R3
  <1>24. IfBlocks(g, cond, hasElse, r) = [both EXCEPT !.current = b2]
    <2>1. else = IF ~hasElse THEN AddEdge(then, n + 1, n + 4)
                 ELSE IF cond # "true" THEN AddEdge(then, n + 1, n + 3) ELSE then
      BY <1>9, <1>10 DEF past, else
    <2>2. test = Show(AddEdge(made, made.current, n + 1), n + 1, r)
      BY <1>8, <1>9 DEF test, edge
    <2>3. then = IF cond # "false" THEN AddEdge(test, n + 1, n + 2) ELSE test
      BY <1>9, <1>10 DEF then
    <2>4. both = IF hasElse THEN Show(Show(else, n + 2, r /\ cond # "false"), n + 3, r /\ cond # "true")
                 ELSE Show(else, n + 2, r /\ cond # "false")
      BY <1>9, <1>10 DEF both, show
    <2> QED
      BY <1>0, <1>2, <1>5, <1>9, <2>1, <2>2, <2>3, <2>4 DEF IfBlocks
  <1>25. E4 = IfEdges(g, cond, hasElse)
    BY <1>0, <1>6, <1>9, <1>10 DEF IfEdges, E1, E2, E3, E4
  <1>26. R3 = IfShows(g, cond, hasElse, r)
    BY <1>0, <1>6, <1>9, <1>10 DEF IfShows, R0, R1, R2, R3
  <1>27. IfBlocks(g, cond, hasElse, r).current = b2 /\ b2 = Size(g) + 2
    BY <1>0, <1>9, <1>23, <1>24, MadeAt
  <1> QED
    BY <1>7, <1>23, <1>24, <1>25, <1>26, <1>27, MadeAt

WhileEdges(g, cond) ==
    {<<First(g, 3), Size(g) + 1>>}
    \cup (IF cond # "true" THEN {<<Size(g) + 1, Size(g) + 3>>} ELSE {})
    \cup (IF cond # "false" THEN {<<Size(g) + 1, Size(g) + 2>>} ELSE {})

WhileShows(g, cond, r) ==
    {<<First(g, 3), r>>, <<Size(g) + 1, r>>, <<Size(g) + 2, r /\ cond # "false">>}

LEMMA WhileMade ==
    ASSUME NEW g, Formed(g), NEW cond, NEW r \in BOOLEAN
    PROVE  /\ Made(g, WhileBlocks(g, cond, r), WhileEdges(g, cond), WhileShows(g, cond, r))
           /\ WhileBlocks(g, cond, r).current = Size(g) + 2
           /\ Size(WhileBlocks(g, cond, r)) = Total(g, 3)
           /\ WhileBlocks(g, cond, r).breaks = Pushed(Size(g) + 3, g.breaks)
           /\ WhileBlocks(g, cond, r).continues = Pushed(Size(g) + 1, g.continues)
  <1>0. PICK n \in Nat : n = Size(g)
    BY CfgFields DEF Formed
  <1>1. g \in Cfgs /\ g.stack # <<>> /\ Made(g, g, {}, {})
    BY NothingMade DEF Formed
  <1>2. PICK c \in Nat : c = First(g, 3)
    BY FirstType
  <1>3. PICK m \in Nat : m = Total(g, 3) /\ m >= n + 3
    BY <1>0, FirstType
  <1>4. PICK b1 \in Nat, b2 \in Nat, b3 \in Nat : b1 = n + 1 /\ b2 = n + 2 /\ b3 = n + 3
    OBVIOUS
  <1>5. PICK p2 \in BOOLEAN, p3 \in BOOLEAN, r2 \in BOOLEAN :
            p2 = (cond # "false") /\ p3 = (cond # "true") /\ r2 = (r /\ cond # "false")
    OBVIOUS
  <1> DEFINE some == AddBlocks(g, 3)
             loop == PushLoop(some, b1, b3)
             made == AddInstruction(loop, r)
             edge == AddEdge(made, c, b1)
             test == Show(edge, b1, r)
             exit == IF p3 THEN AddEdge(test, b1, b3) ELSE test
             into == IF p2 THEN AddEdge(exit, b1, b2) ELSE exit
             show == Show(into, b2, r2)
             E1 == {} \cup {<<c, b1>>}
             E2 == E1 \cup (IF p3 THEN {<<b1, b3>>} ELSE {})
             E3 == E2 \cup (IF p2 THEN {<<b1, b2>>} ELSE {})
             R0 == {<<c, r>>}
             R1 == R0 \cup {<<b1, r>>}
             R2 == R1 \cup {<<b2, r2>>}
  <1>6. /\ Made(g, some, {}, {}) /\ Size(some) = Size(g) + 3
        /\ some.current = g.current /\ some.breaks = g.breaks /\ some.continues = g.continues
    <2>1. /\ Made(g, AddBlocks(g, 3), {}, {}) /\ Size(AddBlocks(g, 3)) = Size(g) + 3
          /\ AddBlocks(g, 3).current = g.current
          /\ AddBlocks(g, 3).breaks = g.breaks /\ AddBlocks(g, 3).continues = g.continues
      BY <1>1, MadeBlocks
    <2> QED
      BY <2>1
  <1> HIDE DEF some
  <1>8. /\ Made(g, loop, {}, {}) /\ Size(loop) = Size(g) + 3 /\ loop.current = g.current
        /\ loop.breaks = Pushed(b3, g.breaks) /\ loop.continues = Pushed(b1, g.continues)
    <2>1. /\ Made(g, PushLoop(some, b1, b3), {}, {})
          /\ Size(PushLoop(some, b1, b3)) = Size(some)
          /\ PushLoop(some, b1, b3).current = some.current
          /\ PushLoop(some, b1, b3).breaks = Pushed(b3, some.breaks)
          /\ PushLoop(some, b1, b3).continues = Pushed(b1, some.continues)
      BY <1>6, MadeLoop
    <2> QED
      BY <1>6, <2>1
  <1> HIDE DEF loop
  <1>9. /\ Made(g, made, {}, R0) /\ made.current = c /\ Size(made) = m
        /\ made.breaks = loop.breaks /\ made.continues = loop.continues
    <2>1. PICK x : x = AddInstruction(loop, r)
      OBVIOUS
    <2>2. /\ Made(g, x, {}, {<<First(g, 3), r>>}) /\ x.current = First(g, 3) /\ Size(x) = Total(g, 3)
          /\ x.breaks = loop.breaks /\ x.continues = loop.continues
      BY <1>8, <2>1, InstructionMade
    <2> QED
      BY <1>2, <1>3, <2>1, <2>2
  <1> HIDE DEF made, R0, E1
  <1>10. /\ Made(g, edge, E1, R0) /\ Size(edge) = m
         /\ edge.breaks = loop.breaks /\ edge.continues = loop.continues
    BY <1>9, MadeEdge DEF E1
  <1> HIDE DEF edge
  <1>11. b1 \in 1 .. m /\ b2 \in 1 .. m
    BY <1>3, <1>4
  <1>12. /\ Made(g, test, E1, R1) /\ Size(test) = m
         /\ test.breaks = loop.breaks /\ test.continues = loop.continues
    <2>1. b1 \in Blocks(edge)
      BY <1>10, <1>11 DEF Blocks
    <2> QED
      BY <1>0, <1>10, <2>1, MadeShow
  <1> HIDE DEF test, R1
  <1>13. /\ Made(g, exit, E2, R1) /\ Size(exit) = m
         /\ exit.breaks = loop.breaks /\ exit.continues = loop.continues
    <2>1. CASE p3
      <3>1. exit = AddEdge(test, b1, b3) /\ E2 = E1 \cup {<<b1, b3>>}
        BY <2>1
      <3>2. PICK h, E : h = AddEdge(test, b1, b3) /\ E = E1 \cup {<<b1, b3>>}
        OBVIOUS
      <3>3. /\ Made(g, h, E, R1) /\ Size(h) = Size(test)
            /\ h.breaks = test.breaks /\ h.continues = test.continues
        <4>1. Made(g, test, E1, R1)
          BY <1>12
        <4> QED
          BY ONLY <3>2, <4>1, b1 \in Nat, b3 \in Nat, MadeEdge
      <3> HIDE DEF exit, E2
      <3> QED
        BY <1>12, <3>1, <3>2, <3>3
    <2>2. CASE ~p3
      <3>1. exit = test /\ E2 = E1
        BY <2>2
      <3> QED
        BY <1>12, <3>1
    <2> QED
      BY <2>1, <2>2
  <1> HIDE DEF exit, E2
  <1>14. /\ Made(g, into, E3, R1) /\ Size(into) = m
         /\ into.breaks = loop.breaks /\ into.continues = loop.continues
    <2>1. CASE p2
      <3>1. into = AddEdge(exit, b1, b2) /\ E3 = E2 \cup {<<b1, b2>>}
        BY <2>1
      <3>2. PICK h, E : h = AddEdge(exit, b1, b2) /\ E = E2 \cup {<<b1, b2>>}
        OBVIOUS
      <3>3. /\ Made(g, h, E, R1) /\ Size(h) = Size(exit)
            /\ h.breaks = exit.breaks /\ h.continues = exit.continues
        <4>1. Made(g, exit, E2, R1)
          BY <1>13
        <4> QED
          BY ONLY <3>2, <4>1, b1 \in Nat, b2 \in Nat, MadeEdge
      <3> HIDE DEF into, E3
      <3> QED
        BY <1>13, <3>1, <3>2, <3>3
    <2>2. CASE ~p2
      <3>1. into = exit /\ E3 = E2
        BY <2>2
      <3> QED
        BY <1>13, <3>1
    <2> QED
      BY <2>1, <2>2
  <1> HIDE DEF into, E3
  <1>15. /\ Made(g, show, E3, R2) /\ Size(show) = m
         /\ show.breaks = loop.breaks /\ show.continues = loop.continues
    <2>1. b2 \in Blocks(into)
      BY <1>11, <1>14 DEF Blocks
    <2> QED
      BY <1>0, <1>14, <2>1, MadeShow
  <1> HIDE DEF show, R2
  <1>16. WhileBlocks(g, cond, r) = [show EXCEPT !.current = b2]
    <2>1. test = Show(AddEdge(made, made.current, n + 1), n + 1, r)
      BY <1>4, <1>9 DEF test, edge
    <2>2. exit = IF cond # "true" THEN AddEdge(test, n + 1, n + 3) ELSE test
      BY <1>4, <1>5 DEF exit
    <2>3. into = IF cond # "false" THEN AddEdge(exit, n + 1, n + 2) ELSE exit
      BY <1>4, <1>5 DEF into
    <2>4. show = Show(into, n + 2, r /\ cond # "false")
      BY <1>4, <1>5 DEF show
    <2>5. made = AddInstruction(PushLoop(AddBlocks(g, 3), n + 1, n + 3), r)
      BY <1>4 DEF made, loop, some
    <2> QED
      BY <1>0, <1>4, <2>1, <2>2, <2>3, <2>4, <2>5 DEF WhileBlocks
  <1>17. E3 = WhileEdges(g, cond)
    BY <1>0, <1>2, <1>4, <1>5 DEF WhileEdges, E1, E2, E3
  <1>18. R2 = WhileShows(g, cond, r)
    BY <1>0, <1>2, <1>4, <1>5 DEF WhileShows, R0, R1, R2
  <1>19. WhileBlocks(g, cond, r).current = b2 /\ b2 = Size(g) + 2
    BY <1>0, <1>4, <1>15, <1>16, MadeAt
  <1>20. loop.breaks = Pushed(Size(g) + 3, g.breaks) /\ loop.continues = Pushed(Size(g) + 1, g.continues)
    BY <1>0, <1>4, <1>8
  <1> QED
    BY <1>3, <1>15, <1>16, <1>17, <1>18, <1>19, <1>20, MadeAt

ForInEdges(c, n) == {<<c, n + 1>>, <<n + 1, n + 2>>, <<n + 2, n + 3>>, <<n + 2, n + 4>>}
ForInShows(c, n, r) == {<<c, r>>, <<n + 1, r>>, <<n + 2, r>>, <<n + 3, r>>}

LEMMA ForInMade ==
    ASSUME NEW g, Formed(g), NEW r \in BOOLEAN
    PROVE  LET c == First(g, 0)
               n == Total(g, 0)
               h == ForInBlocks(g, r)
           IN  /\ Made(g, h, ForInEdges(c, n), ForInShows(c, n, r))
               /\ Size(AddInstruction(g, r)) = n
               /\ h.current = n + 3 /\ Size(h) = n + 4
               /\ h.breaks = Pushed(n + 4, g.breaks)
               /\ h.continues = Pushed(n + 2, g.continues)
  <1>1. g \in Cfgs /\ g.stack # <<>> /\ Size(g) \in Nat
    BY CfgFields DEF Formed
  <1>2. PICK c \in Nat, n \in Nat : c = First(g, 0) /\ n = Total(g, 0)
    BY FirstType
  <1>4. PICK b1 \in Nat, b2 \in Nat, b3 \in Nat, b4 \in Nat :
            b1 = n + 1 /\ b2 = n + 2 /\ b3 = n + 3 /\ b4 = n + 4
    OBVIOUS
  <1>3. PICK ins, R0 : ins = AddInstruction(g, r) /\ R0 = {<<c, r>>}
    OBVIOUS
  <1> DEFINE some == AddBlocks(ins, 4)
             loop == PushLoop(some, b2, b4)
             e1   == AddEdge(loop, c, b1)
             init == Show(e1, b1, r)
             e2   == AddEdge(init, b1, b2)
             next == Show(e2, b2, r)
             e3   == AddEdge(next, b2, b3)
             both == AddEdge(e3, b2, b4)
             show == Show(both, b3, r)
             E1 == {} \cup {<<c, b1>>}
             E2 == E1 \cup {<<b1, b2>>}
             E3 == E2 \cup {<<b2, b3>>}
             E4 == E3 \cup {<<b2, b4>>}
             R1 == R0 \cup {<<b1, r>>}
             R2 == R1 \cup {<<b2, r>>}
             R3 == R2 \cup {<<b3, r>>}
  <1>5. /\ Made(g, ins, {}, R0) /\ ins.current = c /\ Size(ins) = n
        /\ ins.breaks = g.breaks /\ ins.continues = g.continues
    BY <1>2, <1>3, SimpleMade
  <1>51. Made(g, ins, {}, R0)
    BY <1>5
  <1>6. /\ Made(g, some, {}, R0) /\ Size(some) = Size(ins) + 4
        /\ some.current = ins.current /\ some.breaks = ins.breaks /\ some.continues = ins.continues
    BY <1>1, <1>51, MadeBlocks
  <1> HIDE DEF some
  <1>7. Size(some) = b4
    BY <1>4, <1>5, <1>6
  <1>61. Made(g, some, {}, R0)
    BY <1>6
  <1>62. /\ Made(g, loop, {}, R0) /\ Size(loop) = Size(some) /\ loop.current = some.current
         /\ loop.breaks = Pushed(b4, some.breaks) /\ loop.continues = Pushed(b2, some.continues)
    BY <1>61, MadeLoop
  <1>8. /\ Made(g, loop, {}, R0) /\ Size(loop) = b4 /\ loop.current = c
        /\ loop.breaks = Pushed(b4, g.breaks) /\ loop.continues = Pushed(b2, g.continues)
    BY <1>5, <1>6, <1>7, <1>62
  <1> HIDE DEF loop, E1
  <1>9. b1 \in 1 .. b4 /\ b2 \in 1 .. b4 /\ b3 \in 1 .. b4
    BY <1>4
  <1>10. /\ Made(g, e1, E1, R0) /\ Size(e1) = b4 /\ e1.breaks = loop.breaks /\ e1.continues = loop.continues
    <2>1. Made(g, loop, {}, R0)
      BY <1>8
    <2>2. PICK E0 : E0 = {}
      OBVIOUS
    <2>3. Made(g, loop, E0, R0)
      BY <2>1, <2>2
    <2>4. /\ Made(g, e1, E0 \cup {<<c, b1>>}, R0) /\ Size(e1) = Size(loop)
          /\ e1.breaks = loop.breaks /\ e1.continues = loop.continues
      BY <2>3, MadeEdge
    <2> HIDE DEF e1
    <2> QED
      BY <1>8, <2>2, <2>4 DEF E1
  <1> HIDE DEF e1
  <1>11. /\ Made(g, init, E1, R1) /\ Size(init) = b4
         /\ init.breaks = loop.breaks /\ init.continues = loop.continues
    <2>1. b1 \in Blocks(e1)
      BY <1>9, <1>10 DEF Blocks
    <2> QED
      BY <1>1, <1>10, <2>1, MadeShow
  <1> HIDE DEF init, R1
  <1>12. /\ Made(g, e2, E2, R1) /\ Size(e2) = b4 /\ e2.breaks = loop.breaks /\ e2.continues = loop.continues
    BY <1>11, MadeEdge
  <1> HIDE DEF e2, E2
  <1>13. /\ Made(g, next, E2, R2) /\ Size(next) = b4
         /\ next.breaks = loop.breaks /\ next.continues = loop.continues
    <2>1. b2 \in Blocks(e2)
      BY <1>9, <1>12 DEF Blocks
    <2> QED
      BY <1>1, <1>12, <2>1, MadeShow
  <1> HIDE DEF next, R2
  <1>14. /\ Made(g, e3, E3, R2) /\ Size(e3) = b4 /\ e3.breaks = loop.breaks /\ e3.continues = loop.continues
    BY <1>13, MadeEdge
  <1> HIDE DEF e3, E3
  <1>15. /\ Made(g, both, E4, R2) /\ Size(both) = b4
         /\ both.breaks = loop.breaks /\ both.continues = loop.continues
    BY <1>14, MadeEdge
  <1> HIDE DEF both, E4
  <1>16. /\ Made(g, show, E4, R3) /\ Size(show) = b4
         /\ show.breaks = loop.breaks /\ show.continues = loop.continues
    <2>1. b3 \in Blocks(both)
      BY <1>9, <1>15 DEF Blocks
    <2> QED
      BY <1>1, <1>15, <2>1, MadeShow
  <1> HIDE DEF show, R3
  <1>17. ForInBlocks(g, r) = [show EXCEPT !.current = b3]
    <2>1. loop = PushLoop(AddBlocks(ins, 4), n + 2, n + 4)
      BY <1>4 DEF loop, some
    <2>2. init = Show(AddEdge(loop, loop.current, n + 1), n + 1, r)
      BY <1>4, <1>8 DEF init, e1
    <2>3. next = Show(AddEdge(init, n + 1, n + 2), n + 2, r)
      BY <1>4 DEF next, e2
    <2>4. both = AddEdge(AddEdge(next, n + 2, n + 3), n + 2, n + 4)
      BY <1>4 DEF both, e3
    <2>5. show = Show(both, n + 3, r)
      BY <1>4 DEF show
    <2> QED
      BY <1>3, <1>4, <1>5, <2>1, <2>2, <2>3, <2>4, <2>5 DEF ForInBlocks
  <1>18. E4 = ForInEdges(c, n)
    BY <1>4 DEF ForInEdges, E1, E2, E3, E4
  <1>19. R3 = ForInShows(c, n, r)
    BY <1>3, <1>4 DEF ForInShows, R1, R2, R3
  <1>20. ForInBlocks(g, r).current = n + 3 /\ Size(ForInBlocks(g, r)) = n + 4
    BY <1>4, <1>16, <1>17, MadeAt
  <1>21. loop.breaks = Pushed(n + 4, g.breaks) /\ loop.continues = Pushed(n + 2, g.continues)
    BY <1>4, <1>8
  <1>22. /\ Made(g, ForInBlocks(g, r), E4, R3)
         /\ ForInBlocks(g, r).breaks = loop.breaks /\ ForInBlocks(g, r).continues = loop.continues
    BY <1>16, <1>17, MadeAt
  <1> QED
    BY <1>2, <1>3, <1>5, <1>18, <1>19, <1>20, <1>21, <1>22

LEMMA CurrentFunction ==
    ASSUME NEW g, Formed(g)
    PROVE  /\ Function(g) \in Functions(g)
           /\ Start(g, Function(g)) \in Blocks(g) /\ End(g, Function(g)) \in Blocks(g)
           /\ Start(g, Function(g)) \in Starts(g) /\ End(g, Function(g)) \in Ends(g)
  <1>1. Function(g) \in Functions(g)
    BY DEF Formed
  <1>2. Start(g, Function(g)) \in Starts(g) /\ End(g, Function(g)) \in Ends(g)
    BY <1>1 DEF Starts, Ends
  <1> QED
    BY <1>1, <1>2 DEF Formed

LEMMA ReturnMade ==
    ASSUME NEW g, Formed(g), NEW r \in BOOLEAN
    PROVE  LET n == Size(g)
               h == ReturnBlocks(g, r)
           IN  /\ Made(g, h, {<<g.current, n + 1>>, <<n + 1, End(g, Function(g))>>}, {<<n + 1, r>>})
               /\ h.current = n + 2 /\ Size(h) = n + 2
               /\ h.breaks = g.breaks /\ h.continues = g.continues
  <1>0. PICK n \in Nat : n = Size(g)
    BY CfgFields DEF Formed
  <1>1. g \in Cfgs /\ g.stack # <<>> /\ Size(g) \in Nat /\ g.current \in Nat
    BY CfgFields DEF Formed
  <1>2. PICK c \in Nat, b1 \in Nat, b2 \in Nat : c = g.current /\ b1 = n + 1 /\ b2 = n + 2
    BY <1>1
  <1>3. End(g, Function(g)) \in Nat
    BY CurrentFunction DEF Blocks
  <1>4. PICK e \in Nat : e = End(g, Function(g))
    BY <1>3
  <1>41. PICK E0 : E0 = {}
    OBVIOUS
  <1>42. PICK R0 : R0 = {}
    OBVIOUS
  <1> DEFINE some == AddBlocks(g, 2)
             show == Show(some, b1, r)
             edge == AddEdge(show, c, b1)
             both == AddEdge(edge, b1, e)
             R1 == R0 \cup {<<b1, r>>}
             E1 == E0 \cup {<<c, b1>>}
             E2 == E1 \cup {<<b1, e>>}
  <1>51. g \in Cfgs /\ g.stack # <<>>
    BY <1>1
  <1>5. Made(g, g, E0, R0)
    BY <1>1, <1>41, <1>42, NothingMade
  <1>6. /\ Made(g, some, E0, R0) /\ Size(some) = Size(g) + 2
        /\ some.breaks = g.breaks /\ some.continues = g.continues
    BY <1>51, <1>5, MadeBlocks
  <1> HIDE DEF some
  <1>7. Size(some) = b2
    BY <1>0, <1>2, <1>6
  <1>71. b1 \in Blocks(some)
    BY <1>2, <1>7 DEF Blocks
  <1>72. Size(g) \in Nat /\ Made(g, some, E0, R0)
    BY <1>1, <1>6
  <1>8. /\ Made(g, show, E0, R1) /\ Size(show) = Size(some)
        /\ show.breaks = some.breaks /\ show.continues = some.continues
    BY <1>71, <1>72, MadeShow
  <1> HIDE DEF show, R1
  <1>9. /\ Made(g, edge, E1, R1) /\ Size(edge) = b2
        /\ edge.breaks = g.breaks /\ edge.continues = g.continues
    BY <1>6, <1>7, <1>8, MadeEdge
  <1> HIDE DEF edge, E1
  <1>10. /\ Made(g, both, E2, R1) /\ Size(both) = b2
         /\ both.breaks = g.breaks /\ both.continues = g.continues
    BY <1>9, MadeEdge
  <1> HIDE DEF both, E2
  <1>11. ReturnBlocks(g, r) = [both EXCEPT !.current = b2]
    <2>1. show = Show(AddBlocks(g, 2), n + 1, r)
      BY <1>2 DEF show, some
    <2>2. both = AddEdge(AddEdge(show, g.current, n + 1), n + 1, End(g, Function(g)))
      BY <1>2, <1>4 DEF both, edge
    <2> QED
      BY <1>0, <1>2, <2>1, <2>2 DEF ReturnBlocks
  <1>12. E2 = {<<g.current, Size(g) + 1>>, <<Size(g) + 1, End(g, Function(g))>>}
    BY <1>0, <1>2, <1>4, <1>41 DEF E1, E2
  <1>13. R1 = {<<Size(g) + 1, r>>}
    BY <1>0, <1>2, <1>42 DEF R1
  <1>14. /\ Made(g, ReturnBlocks(g, r), E2, R1) /\ ReturnBlocks(g, r).current = b2
         /\ Size(ReturnBlocks(g, r)) = b2
         /\ ReturnBlocks(g, r).breaks = g.breaks /\ ReturnBlocks(g, r).continues = g.continues
    BY <1>10, <1>11, MadeAt
  <1> QED
    BY <1>0, <1>2, <1>12, <1>13, <1>14

LEMMA JumpMade ==
    ASSUME NEW g, Formed(g), NEW to \in Nat, NEW r \in BOOLEAN
    PROVE  LET n == Size(g)
               h == JumpBlock(g, to, r)
           IN  /\ Made(g, h, {<<g.current, n + 1>>, <<n + 1, to>>}, {<<n + 1, r>>})
               /\ h.current = n + 1 /\ Size(h) = n + 1
               /\ h.breaks = g.breaks /\ h.continues = g.continues
  <1>0. PICK n \in Nat : n = Size(g)
    BY CfgFields DEF Formed
  <1>1. g \in Cfgs /\ g.stack # <<>> /\ Size(g) \in Nat /\ g.current \in Nat
    BY CfgFields DEF Formed
  <1>2. PICK c \in Nat, b1 \in Nat : c = g.current /\ b1 = n + 1
    BY <1>1
  <1>41. PICK E0 : E0 = {}
    OBVIOUS
  <1>42. PICK R0 : R0 = {}
    OBVIOUS
  <1> DEFINE some == AddBlocks(g, 1)
             show == Show(some, b1, r)
             edge == AddEdge(show, c, b1)
             both == AddEdge(edge, b1, to)
             R1 == R0 \cup {<<b1, r>>}
             E1 == E0 \cup {<<c, b1>>}
             E2 == E1 \cup {<<b1, to>>}
  <1>51. g \in Cfgs /\ g.stack # <<>>
    BY <1>1
  <1>5. Made(g, g, E0, R0)
    BY <1>1, <1>41, <1>42, NothingMade
  <1>6. /\ Made(g, some, E0, R0) /\ Size(some) = Size(g) + 1
        /\ some.breaks = g.breaks /\ some.continues = g.continues
    BY <1>51, <1>5, MadeBlocks
  <1> HIDE DEF some
  <1>7. Size(some) = b1
    BY <1>0, <1>2, <1>6
  <1>71. b1 \in Blocks(some)
    BY <1>2, <1>7 DEF Blocks
  <1>72. Size(g) \in Nat /\ Made(g, some, E0, R0)
    BY <1>1, <1>6
  <1>8. /\ Made(g, show, E0, R1) /\ Size(show) = Size(some)
        /\ show.breaks = some.breaks /\ show.continues = some.continues
    BY <1>71, <1>72, MadeShow
  <1> HIDE DEF show, R1
  <1>9. /\ Made(g, edge, E1, R1) /\ Size(edge) = b1
        /\ edge.breaks = g.breaks /\ edge.continues = g.continues
    BY <1>6, <1>7, <1>8, MadeEdge
  <1> HIDE DEF edge, E1
  <1>10. /\ Made(g, both, E2, R1) /\ Size(both) = b1
         /\ both.breaks = g.breaks /\ both.continues = g.continues
    BY <1>9, MadeEdge
  <1> HIDE DEF both, E2
  <1>11. JumpBlock(g, to, r) = [both EXCEPT !.current = b1]
    <2>1. show = Show(AddBlocks(g, 1), n + 1, r)
      BY <1>2 DEF show, some
    <2>2. both = AddEdge(AddEdge(show, g.current, n + 1), n + 1, to)
      BY <1>2 DEF both, edge
    <2> QED
      BY <1>0, <1>2, <2>1, <2>2 DEF JumpBlock
  <1>12. E2 = {<<g.current, Size(g) + 1>>, <<Size(g) + 1, to>>}
    BY <1>0, <1>2, <1>41 DEF E1, E2
  <1>13. R1 = {<<Size(g) + 1, r>>}
    BY <1>0, <1>2, <1>42 DEF R1
  <1>14. /\ Made(g, JumpBlock(g, to, r), E2, R1) /\ JumpBlock(g, to, r).current = b1
         /\ Size(JumpBlock(g, to, r)) = b1
         /\ JumpBlock(g, to, r).breaks = g.breaks /\ JumpBlock(g, to, r).continues = g.continues
    BY <1>10, <1>11, MadeAt
  <1> QED
    BY <1>0, <1>2, <1>12, <1>13, <1>14

\* The edge from a branch or a loop that was not left.
Closing(g, to) == IF HasAfter(g, g.current) THEN {} ELSE {<<g.current, to>>}

LEMMA CloseMade ==
    ASSUME NEW g \in Cfgs, NEW to \in Nat
    PROVE  /\ Made(g, Close(g, to), Closing(g, to), {})
           /\ Size(Close(g, to)) = Size(g) /\ Close(g, to).current = g.current
           /\ Close(g, to).breaks = g.breaks /\ Close(g, to).continues = g.continues
  <1>1. PICK E0 : E0 = {}
    OBVIOUS
  <1>2. Made(g, g, E0, {}) /\ g.current \in Nat
    BY <1>1, NothingMade, CfgFields
  <1>3. CASE HasAfter(g, g.current)
    <2>1. Close(g, to) = g /\ Closing(g, to) = E0
      BY <1>1, <1>3 DEF Close, Closing
    <2> QED
      BY <1>2, <2>1
  <1>4. CASE ~HasAfter(g, g.current)
    <2>1. PICK c \in Nat : c = g.current
      BY <1>2
    <2>2. Close(g, to) = AddEdge(g, c, to) /\ Closing(g, to) = E0 \cup {<<c, to>>}
      BY <1>1, <1>4, <2>1 DEF Close, Closing
    <2>3. /\ Made(g, AddEdge(g, c, to), E0 \cup {<<c, to>>}, {})
          /\ Size(AddEdge(g, c, to)) = Size(g) /\ AddEdge(g, c, to).current = g.current
          /\ AddEdge(g, c, to).breaks = g.breaks /\ AddEdge(g, c, to).continues = g.continues
      BY <1>2, MadeEdge
    <2> QED
      BY <2>2, <2>3
  <1> QED
    BY <1>3, <1>4

LEMMA IfEndsMade ==
    ASSUME NEW g \in Cfgs, NEW hasElse \in BOOLEAN, NEW after \in Nat, after - 1 \in Nat
    PROVE  LET h == IfEnds(g, hasElse, after)
           IN  /\ Made(g, h, Closing(g, after) \cup (IF hasElse THEN {<<after - 1, after>>} ELSE {}), {})
               /\ h.current = after /\ Size(h) = Size(g)
               /\ h.breaks = g.breaks /\ h.continues = g.continues
  <1>1. PICK k, E0 : k = Close(g, after) /\ E0 = Closing(g, after)
    OBVIOUS
  <1>2. /\ Made(g, k, E0, {}) /\ Size(k) = Size(g)
        /\ k.breaks = g.breaks /\ k.continues = g.continues
    BY <1>1, CloseMade
  <1>3. PICK before \in Nat : before = after - 1
    OBVIOUS
  <1> DEFINE m == IF hasElse THEN AddEdge(k, before, after) ELSE k
             E1 == E0 \cup (IF hasElse THEN {<<before, after>>} ELSE {})
  <1>4. /\ Made(g, m, E1, {}) /\ Size(m) = Size(g)
        /\ m.breaks = g.breaks /\ m.continues = g.continues
    <2>1. CASE hasElse
      <3>1. m = AddEdge(k, before, after) /\ E1 = E0 \cup {<<before, after>>}
        BY <2>1
      <3> HIDE DEF m, E1
      <3> QED
        BY <1>2, <3>1, MadeEdge
    <2>2. CASE ~hasElse
      <3>1. m = k /\ E1 = E0
        BY <2>2
      <3> QED
        BY <1>2, <3>1
    <2> QED
      BY <2>1, <2>2
  <1> HIDE DEF m
  <1>5. IfEnds(g, hasElse, after) = [m EXCEPT !.current = after]
    BY <1>1, <1>3 DEF IfEnds, m
  <1>6. E1 = Closing(g, after) \cup (IF hasElse THEN {<<after - 1, after>>} ELSE {})
    BY <1>1, <1>3
  <1> HIDE DEF E1
  <1> QED
    BY <1>4, <1>5, <1>6, MadeAt

LEMMA LoopEndsMade ==
    ASSUME NEW g \in Cfgs, NEW test \in Nat, NEW after \in Nat, g.breaks # <<>>, g.continues # <<>>
    PROVE  LET h == LoopEnds(g, test, after)
           IN  /\ Made(g, h, Closing(g, test), {})
               /\ h.current = after /\ Size(h) = Size(g)
               /\ h.breaks = Tail(g.breaks) /\ h.continues = Tail(g.continues)
  <1>1. PICK k, E0 : k = Close(g, test) /\ E0 = Closing(g, test)
    OBVIOUS
  <1>2. /\ Made(g, k, E0, {}) /\ Size(k) = Size(g)
        /\ k.breaks = g.breaks /\ k.continues = g.continues
    BY <1>1, CloseMade
  <1>3. Tail(g.breaks) \in Seq(Nat) /\ Tail(g.continues) \in Seq(Nat)
    BY CfgFields, HeadTailProperties
  <1>4. PICK bs \in Seq(Nat), cs \in Seq(Nat) : bs = Tail(g.breaks) /\ cs = Tail(g.continues)
    BY <1>3
  <1> DEFINE h == LoopEnds(g, test, after)
  <1>5. h = [k EXCEPT !.current = after, !.breaks = bs, !.continues = cs]
    BY <1>1, <1>2, <1>4 DEF LoopEnds
  <1>6. k \in Cfgs
    BY <1>2 DEF Made
  <1> HIDE DEF h
  <1>7. h \in Cfgs /\ h.block = k.block /\ h.edges = k.edges /\ h.functions = k.functions
        /\ h.stack = k.stack /\ h.current = after /\ h.breaks = bs /\ h.continues = cs
    BY <1>5, <1>6 DEF Cfgs
  <1>8. Made(g, h, E0, {}) /\ Size(h) = Size(k)
    BY <1>2, <1>7, MadeSame
  <1> QED
    BY <1>1, <1>2, <1>4, <1>7, <1>8 DEF h

-----------------------------------------------------------------------------
(* What is known of a graph when more is made of it.                       *)

Grows(g, h) ==
    /\ h \in Cfgs
    /\ Blocks(g) \subseteq Blocks(h) /\ Functions(g) \subseteq Functions(h)
    /\ g.edges \subseteq h.edges
    /\ \A b \in Blocks(g) :
          /\ h.block[b].function = g.block[b].function
          /\ g.block[b].shown # "nothing" => h.block[b].shown = g.block[b].shown
    /\ \A f \in Functions(g) : Start(h, f) = Start(g, f) /\ End(h, f) = End(g, f)
    /\ \A b \in Starts(h) : b \in Starts(g) \/ b \notin Blocks(g)
    /\ \A b \in Ends(h) : b \in Ends(g) \/ b \notin Blocks(g)

LEMMA MadeGrows ==
    ASSUME NEW g, Formed(g), NEW h, NEW E, NEW R, Made(g, h, E, R)
    PROVE  /\ Grows(g, h) /\ Starts(h) = Starts(g) /\ Ends(h) = Ends(g)
           /\ Functions(h) = Functions(g) /\ Function(h) = Function(g)
  <1>1. h.functions = g.functions /\ h.stack = g.stack /\ h.edges = g.edges \cup E
    BY DEF Made
  <1>2. Functions(h) = Functions(g) /\ Function(h) = Function(g)
    BY <1>1 DEF Functions, Function
  <1>3. \A f : Start(h, f) = Start(g, f) /\ End(h, f) = End(g, f)
    BY <1>1 DEF Start, End
  <1>4. Starts(h) = Starts(g) /\ Ends(h) = Ends(g)
    BY <1>2, <1>3 DEF Starts, Ends
  <1>5. h \in Cfgs /\ Blocks(g) \subseteq Blocks(h)
    <2>1. h \in Cfgs /\ g \in Cfgs /\ Size(g) <= Size(h)
      BY DEF Made, Formed
    <2> QED
      BY <2>1, CfgFields DEF Blocks
  <1>6. \A b \in Blocks(g) :
          /\ h.block[b].function = g.block[b].function
          /\ g.block[b].shown # "nothing" => h.block[b].shown = g.block[b].shown
    BY DEF Made
  <1>7. g.edges \subseteq h.edges
    BY <1>1
  <1> QED
    BY <1>2, <1>3, <1>4, <1>5, <1>6, <1>7 DEF Grows

LEMMA MadeFormed ==
    ASSUME NEW g, Formed(g), NEW h, NEW E, NEW R, Made(g, h, E, R),
           E \subseteq Blocks(h) \X Blocks(h), h.current \in Blocks(h),
           h.current \in Blocks(g) => g.block[h.current].function = Function(g)
    PROVE  Formed(h)
  <1>1. /\ Grows(g, h) /\ Starts(h) = Starts(g) /\ Ends(h) = Ends(g)
        /\ Functions(h) = Functions(g) /\ Function(h) = Function(g)
    BY MadeGrows
  <1>2. Blocks(g) \subseteq Blocks(h) /\ h \in Cfgs
    BY <1>1 DEF Grows
  <1>3. h.edges \subseteq Blocks(h) \X Blocks(h)
    <2>1. h.edges = g.edges \cup E /\ g.edges \subseteq Blocks(g) \X Blocks(g)
      BY DEF Made, Formed
    <2> QED
      BY <1>2, <2>1
  <1>4. \A b \in Blocks(h) : h.block[b].function =
            IF b \in Blocks(g) THEN g.block[b].function ELSE Function(g)
    BY DEF Made
  <1>5. \A b \in Blocks(h) : h.block[b].function \in Functions(h)
    BY <1>1, <1>4, CurrentFunction DEF Formed
  <1>6. h.block[h.current].function = Function(h)
    BY <1>1, <1>4
  <1>7. Starts(h) \subseteq Blocks(h) /\ Ends(h) \subseteq Blocks(h)
    BY <1>1, <1>2 DEF Formed
  <1>8. h.stack # <<>>
    BY DEF Made, Formed
  <1> QED
    BY <1>2, <1>3, <1>5, <1>6, <1>7, <1>8 DEF Formed

LEMMA EnteredKept ==
    ASSUME NEW g, Formed(g), NEW h, Grows(g, h), NEW b \in Blocks(g), Entered(g, b)
    PROVE  Entered(h, b)
  <1>1. HasBefore(g, b) => HasBefore(h, b)
    BY DEF HasBefore, Grows
  <1>2. g.block[b].function \in Functions(g) /\ h.block[b].function = g.block[b].function
    BY DEF Formed, Grows
  <1>3. Start(h, h.block[b].function) = Start(g, g.block[b].function)
    BY <1>2 DEF Grows
  <1> QED
    BY <1>1, <1>3 DEF Entered

LEMMA ExcusedKept ==
    ASSUME NEW o, NEW o2, o \subseteq o2, NEW f, Excused(f, o)
    PROVE  Excused(f, o2)
  BY DEF Excused

LEMMA LeadsKept ==
    ASSUME NEW g, Formed(g), NEW h, Grows(g, h), NEW b \in Blocks(g), NEW l, NEW o, NEW o2,
           o \subseteq o2, Leads(g, b, l, o), HasAfter(h, b) => HasAfter(g, b)
    PROVE  Leads(h, b, l, o2)
  <1>1. h.block[b].function = g.block[b].function
    BY DEF Grows
  <1>2. Entered(g, b) => Entered(h, b)
    BY EnteredKept
  <1>3. Excused(g.block[b].function, o) => Excused(h.block[b].function, o2)
    BY <1>1, ExcusedKept
  <1> QED
    BY <1>2, <1>3 DEF Leads

LEMMA SoundKept ==
    ASSUME NEW g, Formed(g), NEW h, Grows(g, h), NEW o, NEW o2, o \subseteq o2, Sound(g, o),
           \A b \in Blocks(h) : h.block[b].shown = "reachable" =>
               \/ b \in Blocks(g) /\ g.block[b].shown = "reachable"
               \/ Entered(h, b)
               \/ Excused(h.block[b].function, o2)
    PROVE  Sound(h, o2)
  <1> SUFFICES ASSUME NEW b \in Blocks(h), h.block[b].shown = "reachable"
               PROVE  Entered(h, b) \/ Excused(h.block[b].function, o2)
    BY DEF Sound
  <1>1. CASE b \in Blocks(g) /\ g.block[b].shown = "reachable"
    <2>1. h.block[b].function = g.block[b].function
      BY <1>1 DEF Grows
    <2>2. CASE Entered(g, b)
      BY <1>1, <2>2, EnteredKept
    <2>3. CASE Excused(g.block[b].function, o)
      BY <2>1, <2>3, ExcusedKept
    <2> QED
      BY <1>1, <2>2, <2>3 DEF Sound
  <1> QED
    BY <1>1

\* What is known of a frame stays so if no edge leaves its blocks.
LEMMA WithinKept ==
    ASSUME NEW g, Formed(g), NEW h, Grows(g, h), NEW o, NEW o2, o \subseteq o2,
           NEW f, NEW fn, Within(f, fn, g, o),
           h.current \notin Own(f), \A e \in h.edges \ g.edges : e[1] \notin Own(f),
           f.kind \in Loops /\ f.cond = "true" /\ f.left = {} /\ Straight(o2) =>
               \A e \in h.edges \ g.edges : e[2] # f.after
    PROVE  Within(f, fn, h, o2)
  <1>1. Own(f) \subseteq Blocks(g) /\ Own(f) \cap Ends(g) = {} /\ Targets(f) \subseteq Own(f)
        /\ Targets(f) \cap Starts(g) = {}
    BY DEF Within, Own, Targets, Loops
  <1>2. Own(f) \subseteq Blocks(h) \ ({h.current} \cup Ends(h)) /\ Targets(f) \cap Starts(h) = {}
    BY <1>1 DEF Grows
  <1>3. \A b \in Own(f) : HasAfter(h, b) => HasAfter(g, b)
    BY DEF HasAfter
  <1>4. \A b \in Blocks(g) : HasBefore(g, b) => HasBefore(h, b)
    BY DEF HasBefore, Grows
  <1>5. Targets(f) # {} => f.after \in Own(f) /\ f.after \in Blocks(g)
    BY <1>1 DEF Targets, Own, Loops
  <1>6. Targets(f) # {} => ~HasAfter(h, f.after) /\ h.block[f.after].function = fn
    BY <1>3, <1>5 DEF Within, Grows
  <1>7. f.kind = "then" /\ ~f.hasElse => HasBefore(h, f.after)
    <2>1. f.kind = "then" => Targets(f) # {}
      BY DEF Targets
    <2> QED
      BY <1>4, <1>5, <2>1 DEF Within
  <1>8. ASSUME f.kind \in Loops
        PROVE  /\ f.test # f.after
               /\ f.cond # "true" => HasBefore(h, f.after)
               /\ "live" \in f.left => HasBefore(h, f.after) \/ Excused(fn, o2)
               /\ f.cond = "true" /\ f.left = {} /\ Straight(o2) => ~HasBefore(h, f.after)
    <2>1. f.after \in Blocks(g)
      BY <1>5, <1>8 DEF Targets, Loops
    <2>2. /\ f.test # f.after
          /\ f.cond # "true" => HasBefore(g, f.after)
          /\ "live" \in f.left => HasBefore(g, f.after) \/ Excused(fn, o)
          /\ f.cond = "true" /\ f.left = {} /\ Straight(o) => ~HasBefore(g, f.after)
      BY <1>8 DEF Within
    <2>3. Excused(fn, o) => Excused(fn, o2)
      BY ExcusedKept
    <2>4. Straight(o2) => Straight(o)
      BY DEF Straight
    <2>5. f.cond = "true" /\ f.left = {} /\ Straight(o2) => ~HasBefore(h, f.after)
      BY <1>8, <2>2, <2>4 DEF HasBefore
    <2> QED
      BY <1>4, <2>1, <2>2, <2>3, <2>5
  <1>9. f.kind = "function" => h.block[f.prev].function = fn /\ Leads(h, f.prev, TRUE, o2)
    <2> SUFFICES ASSUME f.kind = "function"
                 PROVE  h.block[f.prev].function = fn /\ Leads(h, f.prev, TRUE, o2)
      OBVIOUS
    <2>1. f.prev \in Own(f) /\ f.prev \in Blocks(g)
      BY <1>1 DEF Own, Loops
    <2>2. g.block[f.prev].function = fn /\ Leads(g, f.prev, TRUE, o)
      BY DEF Within
    <2> QED
      BY <1>3, <2>1, <2>2, LeadsKept DEF Grows
  <1> QED
    BY <1>2, <1>6, <1>7, <1>8, <1>9 DEF Within

-----------------------------------------------------------------------------
(* What the walk is inside of, when that changes.                          *)

\* The same frames up to one.
Agree(nest, ctx, nest2, ctx2, m) ==
    /\ nest2 \in Seq(Frame) /\ ctx2 \in [0 .. Len(nest2) -> Context]
    /\ m \in 0 .. Len(nest) /\ m <= Len(nest2)
    /\ \A p \in 1 .. m : nest2[p] = nest[p]
    /\ \A p \in 0 .. m : ctx2[p] = ctx[p]

LEMMA PushedProperties ==
    ASSUME NEW x \in Nat, NEW s \in Seq(Nat)
    PROVE  /\ Pushed(x, s) \in Seq(Nat) /\ Pushed(x, s) # <<>>
           /\ Head(Pushed(x, s)) = x /\ Tail(Pushed(x, s)) = s
  BY DEF Pushed

LEMMA SeenAgree ==
    ASSUME NEW nest, NEW ctx, NEW nest2, NEW ctx2, NEW m, Agree(nest, ctx, nest2, ctx2, m),
           NEW p \in 0 .. m
    PROVE  Seen(nest2, p) <=> Seen(nest, p)
  <1>1. \A r \in 1 .. p : nest2[r] = nest[r]
    BY DEF Agree
  <1> QED
    BY <1>1 DEF Seen

LEMMA TopAgree ==
    ASSUME NEW nest, NEW ctx, NEW nest2, NEW ctx2, NEW m, Agree(nest, ctx, nest2, ctx2, m),
           NEW q \in 0 .. m, NEW p \in 0 .. q, Top(nest, ctx, p, q)
    PROVE  Top(nest2, ctx2, p, q)
  <1>1. Seen(nest2, q) <=> Seen(nest, q)
    BY SeenAgree
  <1>2. m \in Nat
    BY DEF Agree
  <1>3. \A r \in p + 1 .. q : nest2[r] = nest[r]
    BY <1>2 DEF Agree
  <1>4. ctx2[p] = ctx[p] /\ ctx2[q] = ctx[q]
    BY <1>2 DEF Agree
  <1>5. p # 0 => nest2[p] = nest[p]
    BY <1>2 DEF Agree
  <1> QED
    BY <1>1, <1>3, <1>4, <1>5 DEF Top

LEMMA BoundAgree ==
    ASSUME NEW nest, NEW ctx, NEW nest2, NEW ctx2, NEW m, Agree(nest, ctx, nest2, ctx2, m),
           NEW q \in 0 .. m, Bound(nest, ctx, q)
    PROVE  Bound(nest2, ctx2, q)
  <1>1. m \in Nat /\ ctx2[q] = ctx[q]
    BY DEF Agree
  <1> SUFFICES ASSUME ctx2[q].breaks # <<>> \/ ctx2[q].continues # <<>>
               PROVE  \E p \in 1 .. q : Seen(nest2, p - 1) /\ TopOf(nest2[p], ctx2[q])
    BY DEF Bound
  <1>2. PICK p \in 1 .. q : Seen(nest, p - 1) /\ TopOf(nest[p], ctx[q])
    BY <1>1 DEF Bound
  <1>3. p \in 1 .. m /\ p - 1 \in 0 .. m
    BY <1>1
  <1>4. nest2[p] = nest[p]
    BY <1>3 DEF Agree
  <1>5. Seen(nest2, p - 1)
    BY <1>2, <1>3, SeenAgree
  <1> QED
    BY <1>1, <1>2, <1>4, <1>5

\* Leaving frames.
LEMMA NestingLeft ==
    ASSUME NEW nest, NEW ctx, Nesting(nest, ctx), NEW nest2, NEW ctx2,
           Agree(nest, ctx, nest2, ctx2, Len(nest2))
    PROVE  Nesting(nest2, ctx2)
  <1> DEFINE m == Len(nest2)
  <1>1. m \in Nat /\ Len(nest) \in Nat /\ m \in 0 .. Len(nest)
    BY DEF Agree, Nesting
  <1>2. ctx2[0] = ctx[0] /\ \A p \in 0 .. m : ctx2[p] = ctx[p]
    BY <1>1 DEF Agree
  <1>3. \A p \in 0 .. m : ctx2[p].stack # <<>>
    BY <1>1, <1>2 DEF Nesting
  <1>4. \A p \in 1 .. m : Enters(nest2[p], Seen(nest2, p - 1), ctx2[p - 1], ctx2[p])
    <2> SUFFICES ASSUME NEW p \in 1 .. m
                 PROVE  Enters(nest2[p], Seen(nest2, p - 1), ctx2[p - 1], ctx2[p])
      OBVIOUS
    <2>1. p \in 1 .. Len(nest) /\ p - 1 \in 0 .. m /\ p \in 0 .. m
      BY <1>1
    <2>2. nest2[p] = nest[p] /\ ctx2[p - 1] = ctx[p - 1] /\ ctx2[p] = ctx[p]
      BY <2>1 DEF Agree
    <2>3. Seen(nest2, p - 1) <=> Seen(nest, p - 1)
      BY <2>1, SeenAgree
    <2>4. Enters(nest[p], Seen(nest, p - 1), ctx[p - 1], ctx[p])
      BY <2>1 DEF Nesting
    <2> QED
      BY <2>2, <2>3, <2>4 DEF Enters
  <1>5. \A q \in 0 .. m : Bound(nest2, ctx2, q) /\ \A p \in 0 .. q : Top(nest2, ctx2, p, q)
    <2> SUFFICES ASSUME NEW q \in 0 .. m
                 PROVE  Bound(nest2, ctx2, q) /\ \A p \in 0 .. q : Top(nest2, ctx2, p, q)
      OBVIOUS
    <2>1. q \in 0 .. Len(nest)
      BY <1>1
    <2>2. Bound(nest, ctx, q) /\ \A p \in 0 .. q : Top(nest, ctx, p, q)
      BY <2>1 DEF Nesting
    <2> QED
      BY <2>2, BoundAgree, TopAgree
  <1>6. nest2 \in Seq(Frame) /\ ctx2 \in [0 .. Len(nest2) -> Context]
    BY DEF Agree
  <1>7. ctx2[0] = [stack |-> <<1>>, breaks |-> <<>>, continues |-> <<>>]
    BY <1>2 DEF Nesting
  <1> QED
    BY <1>3, <1>4, <1>5, <1>6, <1>7 DEF Nesting

\* Entering a frame.
LEMMA NestingEntered ==
    ASSUME NEW nest, NEW ctx, Nesting(nest, ctx), NEW nest2, NEW ctx2,
           Agree(nest, ctx, nest2, ctx2, Len(nest)), Len(nest2) = Len(nest) + 1,
           LET f == nest2[Len(nest2)]
               c == ctx[Len(nest)]
               d == ctx2[Len(nest2)]
           IN  Enters(f, Seen(nest, Len(nest)), c, d) /\ d.stack # <<>>
    PROVE  Nesting(nest2, ctx2)
  <1>0. PICK n \in Nat, m \in Nat : n = Len(nest) /\ m = n + 1
    BY DEF Nesting
  <1> DEFINE f == nest2[m]
             c == ctx[n]
             d == ctx2[m]
  <1>1. Len(nest2) = m /\ Agree(nest, ctx, nest2, ctx2, n)
    BY <1>0
  <1>2. Enters(f, Seen(nest, n), c, d) /\ d.stack # <<>>
    BY <1>0
  <1>3. \A p \in 0 .. n : ctx2[p] = ctx[p]
    BY <1>1 DEF Agree
  <1>4. \A p \in 0 .. n : Seen(nest2, p) <=> Seen(nest, p)
    BY <1>1, SeenAgree
  <1>5. \A p \in 0 .. m : p \in 0 .. n \/ p = m
    BY <1>0
  <1>6. \A p \in 0 .. m : ctx2[p].stack # <<>>
    BY <1>0, <1>2, <1>3, <1>5 DEF Nesting
  <1>7. n \in 0 .. n /\ Seen(nest2, m) => Seen(nest, n)
    BY <1>0, <1>4 DEF Seen
  <1>8. f.after \in Nat /\ f.test \in Nat /\ c.breaks \in Seq(Nat) /\ c.continues \in Seq(Nat)
    <2>1. f \in Frame
      BY <1>0, <1>1 DEF Agree
    <2>2. c \in Context
      BY <1>0 DEF Nesting
    <2> QED
      BY <2>1, <2>2 DEF Frame, Context
  <1>9. \A p \in 1 .. m : Enters(nest2[p], Seen(nest2, p - 1), ctx2[p - 1], ctx2[p])
    <2> SUFFICES ASSUME NEW p \in 1 .. m
                 PROVE  Enters(nest2[p], Seen(nest2, p - 1), ctx2[p - 1], ctx2[p])
      OBVIOUS
    <2>1. CASE p = m
      <3>1. p - 1 = n /\ n \in 0 .. n
        BY <1>0, <2>1
      <3>2. ctx2[n] = ctx[n] /\ (Seen(nest2, n) <=> Seen(nest, n))
        BY <1>3, <1>4, <3>1
      <3> QED
        BY <1>2, <2>1, <3>1, <3>2 DEF Enters
    <2>2. CASE p # m
      <3>1. p \in 1 .. n /\ p - 1 \in 0 .. n /\ p \in 0 .. n
        BY <1>0, <2>2
      <3>2. nest2[p] = nest[p] /\ ctx2[p - 1] = ctx[p - 1] /\ ctx2[p] = ctx[p]
        BY <1>1, <3>1 DEF Agree
      <3>3. Seen(nest2, p - 1) <=> Seen(nest, p - 1)
        BY <1>4, <3>1
      <3>4. Enters(nest[p], Seen(nest, p - 1), ctx[p - 1], ctx[p])
        BY <1>0, <3>1 DEF Nesting
      <3> QED
        BY <3>2, <3>3, <3>4 DEF Enters
    <2> QED
      BY <2>1, <2>2
  <1>10. \A p \in 0 .. m : Top(nest2, ctx2, p, m)
    <2> SUFFICES ASSUME NEW p \in 0 .. m
                 PROVE  Top(nest2, ctx2, p, m)
      OBVIOUS
    <2>1. CASE p = m
      <3>1. \A r \in p + 1 .. m : FALSE
        BY <1>0, <2>1
      <3>2. f.kind \in Loops /\ Seen(nest2, m) =>
                d.breaks = Pushed(f.after, c.breaks) /\ d.continues = Pushed(f.test, c.continues)
        BY <1>2, <1>7 DEF Enters
      <3>3. f.kind \in Loops /\ Seen(nest2, m) =>
                /\ d.breaks # <<>> /\ Head(d.breaks) = f.after
                /\ d.continues # <<>> /\ Head(d.continues) = f.test
        <4>1. /\ Pushed(f.after, c.breaks) # <<>> /\ Head(Pushed(f.after, c.breaks)) = f.after
              /\ Pushed(f.test, c.continues) # <<>> /\ Head(Pushed(f.test, c.continues)) = f.test
          BY <1>8, PushedProperties
        <4> QED
          BY <3>2, <4>1
      <3> QED
        BY <2>1, <3>3 DEF Top
    <2>2. CASE p # m
      <3>1. p \in 0 .. n /\ m \in p + 1 .. m /\ \A r \in p + 1 .. n : r \in p + 1 .. m
        BY <1>0, <2>2
      <3>2. Top(nest, ctx, p, n)
        BY <1>0, <3>1 DEF Nesting
      <3>3. \A r \in p + 1 .. n : nest2[r] = nest[r]
        BY <1>0, <1>1, <3>1 DEF Agree
      <3>4. p # 0 => nest2[p] = nest[p]
        BY <1>0, <1>1, <3>1 DEF Agree
      <3>5. ctx2[p] = ctx[p]
        BY <1>3, <3>1
      <3>6. f.kind # "function" => d.stack = c.stack
        BY <1>2 DEF Enters
      <3>7. f.kind \notin Loops => d.breaks = c.breaks /\ d.continues = c.continues
        BY <1>2 DEF Enters
      <3>8. (\A r \in p + 1 .. m : nest2[r].kind # "function") => d.stack = ctx2[p].stack
        BY <3>1, <3>2, <3>3, <3>5, <3>6 DEF Top
      <3>9. p # 0 /\ nest2[p].kind \in Loops /\ (\A r \in p + 1 .. m : nest2[r].kind \notin Loops)
               /\ Seen(nest2, m) =>
            /\ d.breaks # <<>> /\ Head(d.breaks) = nest2[p].after
            /\ d.continues # <<>> /\ Head(d.continues) = nest2[p].test
        BY <1>7, <3>1, <3>2, <3>3, <3>4, <3>7, SMTT(30) DEF Top
      <3> QED
        BY <3>8, <3>9 DEF Top
    <2> QED
      BY <2>1, <2>2
  <1>11. Bound(nest2, ctx2, m)
    <2> SUFFICES ASSUME d.breaks # <<>> \/ d.continues # <<>>
                 PROVE  \E p \in 1 .. m : Seen(nest2, p - 1) /\ TopOf(nest2[p], d)
      BY DEF Bound
    <2>1. CASE f.kind \in Loops /\ Seen(nest, n)
      <3>1. TopOf(f, d)
        <4>1. Head(d.breaks) = f.after
          BY <1>2, <1>8, <2>1, PushedProperties DEF Enters
        <4>2. Head(d.continues) = f.test
          BY <1>2, <1>8, <2>1, PushedProperties DEF Enters
        <4> QED
          BY <2>1, <4>1, <4>2 DEF TopOf
      <3>2. m \in 1 .. m /\ m - 1 = n /\ n \in 0 .. n
        BY <1>0
      <3>3. Seen(nest2, m - 1)
        BY <1>4, <2>1, <3>2
      <3> QED
        BY <2>1, <3>1, <3>2, <3>3
    <2>2. CASE ~(f.kind \in Loops /\ Seen(nest, n))
      <3>1. d.breaks = c.breaks /\ d.continues = c.continues
        BY <1>2, <2>2 DEF Enters
      <3>2. n \in 0 .. n /\ n \in 0 .. Len(nest)
        BY <1>0
      <3>3. Bound(nest, ctx, n)
        BY <3>2 DEF Nesting
      <3>4. PICK p \in 1 .. n : Seen(nest, p - 1) /\ TopOf(nest[p], c)
        BY <3>1, <3>3 DEF Bound
      <3>5. p \in 1 .. m /\ p - 1 \in 0 .. n
        BY <1>0
      <3>6. nest2[p] = nest[p] /\ Seen(nest2, p - 1)
        BY <1>1, <1>4, <3>4, <3>5 DEF Agree
      <3> QED
        BY <3>1, <3>4, <3>5, <3>6 DEF TopOf
    <2> QED
      BY <2>1, <2>2
  <1>12. \A q \in 0 .. m : Bound(nest2, ctx2, q) /\ \A p \in 0 .. q : Top(nest2, ctx2, p, q)
    <2> SUFFICES ASSUME NEW q \in 0 .. n
                 PROVE  Bound(nest2, ctx2, q) /\ \A p \in 0 .. q : Top(nest2, ctx2, p, q)
      BY <1>5, <1>10, <1>11
    <2>1. q \in 0 .. Len(nest)
      BY <1>0
    <2>2. Bound(nest, ctx, q) /\ \A p \in 0 .. q : Top(nest, ctx, p, q)
      BY <2>1 DEF Nesting
    <2> QED
      BY <1>1, <2>2, BoundAgree, TopAgree
  <1>13. nest2 \in Seq(Frame) /\ ctx2 \in [0 .. Len(nest2) -> Context]
    BY DEF Agree
  <1>14. ctx2[0] = [stack |-> <<1>>, breaks |-> <<>>, continues |-> <<>>]
    BY <1>0, <1>3 DEF Nesting
  <1> QED
    BY <1>1, <1>6, <1>9, <1>12, <1>13, <1>14 DEF Nesting

-----------------------------------------------------------------------------
(* A step of the walk.                                                     *)

LEMMA TargetsOwned ==
    ASSUME NEW f
    PROVE  Targets(f) \subseteq Own(f)
  BY DEF Targets, Own, Loops

\* Nothing is done to the blocks of the first frames.
Spares(nest, m, g, h, o) ==
    \A p \in 1 .. m : Seen(nest, p - 1) =>
        /\ h.current \notin Own(nest[p])
        /\ \A e \in h.edges \ g.edges : e[1] \notin Own(nest[p])
        /\ nest[p].kind \in Loops /\ nest[p].cond = "true" /\ nest[p].left = {} /\ Straight(o) =>
              \A e \in h.edges \ g.edges : e[2] # nest[p].after

\* A walk goes on with the same frames up to one, and perhaps another.
LEMMA Onward ==
    ASSUME NEW nest, NEW ctx, NEW g, NEW o, NEW l, NEW fr, NEW hs, Walk(nest, ctx, g, o, l, fr, hs),
           NEW h, Formed(h), Grows(g, h), NEW o2, o \subseteq o2,
           NEW nest2, NEW ctx2, NEW m, Agree(nest, ctx, nest2, ctx2, m), Nesting(nest2, ctx2),
           Len(nest2) = m \/ Len(nest2) = m + 1,
           Matches(h, ctx2[Len(nest2)]),
           Spares(nest, m, g, h, o2),
           Len(nest2) = m + 1 /\ Seen(nest, m) =>
               /\ Within(nest2[m + 1], Head(ctx[m].stack), h, o2)
               /\ \A p \in 1 .. m : Own(nest[p]) \cap Own(nest2[m + 1]) = {},
           NEW l2, NEW fr2, NEW hs2,
           h.current \notin Ends(h), Sound(h, o2),
           Leads(h, h.current, l2 \/ ~Seen(nest2, Len(nest2)), o2),
           Straight(o2) => Begins(nest2, h, hs2) /\ (fr2 /\ Seen(nest2, Len(nest2)) => Afresh(h))
    PROVE  Walk(nest2, ctx2, h, o2, l2, fr2, hs2)
  <1>1. m \in Nat /\ m \in 0 .. Len(nest) /\ Len(nest) \in Nat
    BY DEF Agree, Walk, Nesting
  <1>2. \A p \in 1 .. m : p \in 1 .. Len(nest) /\ p - 1 \in 0 .. m
    BY <1>1
  <1>3. \A p \in 1 .. m : nest2[p] = nest[p] /\ ctx2[p - 1] = ctx[p - 1] /\ (Seen(nest2, p - 1) <=> Seen(nest, p - 1))
    <2>1. \A p \in 1 .. m : nest2[p] = nest[p] /\ ctx2[p - 1] = ctx[p - 1]
      BY <1>2 DEF Agree
    <2>2. \A p \in 0 .. m : Seen(nest2, p) <=> Seen(nest, p)
      BY SeenAgree
    <2> QED
      BY <1>2, <2>1, <2>2
  <1>4. \A p \in 1 .. Len(nest2) : p \in 1 .. m \/ (p = m + 1 /\ Len(nest2) = m + 1 /\ p - 1 = m)
    BY <1>1
  <1>5. m \in 0 .. m
    BY <1>1
  <1>6. ctx2[m] = ctx[m] /\ (Seen(nest2, m) <=> Seen(nest, m))
    BY <1>5, SeenAgree DEF Agree
  <1>7. Frames(nest2, ctx2, h, o2)
    <2> SUFFICES ASSUME NEW p \in 1 .. Len(nest2), Seen(nest2, p - 1)
                 PROVE  Within(nest2[p], Head(ctx2[p - 1].stack), h, o2)
      BY DEF Frames
    <2>1. CASE p \in 1 .. m
      <3>1. Seen(nest, p - 1) /\ p \in 1 .. Len(nest)
        BY <1>2, <1>3, <2>1
      <3>2. Within(nest[p], Head(ctx[p - 1].stack), g, o)
        BY <3>1 DEF Walk, Frames
      <3>3. /\ h.current \notin Own(nest[p])
            /\ \A e \in h.edges \ g.edges : e[1] \notin Own(nest[p])
            /\ nest[p].kind \in Loops /\ nest[p].cond = "true" /\ nest[p].left = {} /\ Straight(o2) =>
                  \A e \in h.edges \ g.edges : e[2] # nest[p].after
        BY <2>1, <3>1 DEF Spares
      <3>4. Formed(g)
        BY DEF Walk
      <3>5. Within(nest[p], Head(ctx[p - 1].stack), h, o2)
        <4>1. PICK f, fn : f = nest[p] /\ fn = Head(ctx[p - 1].stack)
          OBVIOUS
        <4>2. /\ Within(f, fn, g, o) /\ h.current \notin Own(f) /\ \A e \in h.edges \ g.edges : e[1] \notin Own(f)
              /\ f.kind \in Loops /\ f.cond = "true" /\ f.left = {} /\ Straight(o2) =>
                    \A e \in h.edges \ g.edges : e[2] # f.after
          BY <3>2, <3>3, <4>1
        <4>3. Within(f, fn, h, o2)
          BY <3>4, <4>2, WithinKept
        <4> QED
          BY <4>1, <4>3
      <3> QED
        BY <1>3, <2>1, <3>5
    <2>2. CASE p = m + 1 /\ Len(nest2) = m + 1 /\ p - 1 = m
      BY <1>6, <2>2
    <2> QED
      BY <1>4, <2>1, <2>2
  <1>8. Apart(nest2)
    <2> SUFFICES ASSUME NEW q \in 1 .. Len(nest2), NEW p \in 1 .. q - 1, Seen(nest2, q - 1)
                 PROVE  Own(nest2[p]) \cap Own(nest2[q]) = {}
      BY DEF Apart
    <2>1. CASE q \in 1 .. m
      <3>1. p \in 1 .. m /\ q \in 1 .. Len(nest) /\ p \in 1 .. q - 1
        BY <1>1, <2>1
      <3>2. Own(nest[p]) \cap Own(nest[q]) = {}
        BY <1>3, <2>1, <3>1 DEF Walk, Apart
      <3> QED
        BY <1>3, <2>1, <3>1, <3>2
    <2>2. CASE q = m + 1 /\ Len(nest2) = m + 1 /\ q - 1 = m
      <3>1. p \in 1 .. m
        BY <2>2
      <3> QED
        BY <1>3, <1>6, <2>2, <3>1
    <2> QED
      BY <1>4, <2>1, <2>2
  <1> QED
    BY <1>7, <1>8 DEF Walk

\* Where unreachable code begins, if no edge is made to there.
LEMMA BegunKept ==
    ASSUME NEW nest, NEW ctx, NEW g, Formed(g), NEW h, Grows(g, h), NEW b, Begun(nest, g, b),
           NEW nest2, NEW ctx2, NEW m, Agree(nest, ctx, nest2, ctx2, m), Len(nest) \in Nat,
           Len(nest2) = m \/ Len(nest2) = m + 1,
           Len(nest2) = m + 1 /\ Seen(nest, m) => Targets(nest2[m + 1]) \cap Blocks(g) = {},
           \A e \in h.edges \ g.edges :
               \/ e[2] \notin Blocks(g) \/ e[2] \in Ends(g)
               \/ \E q \in 1 .. Len(nest) : Seen(nest, q - 1) /\ e[2] \in Targets(nest[q])
    PROVE  Begun(nest2, h, b)
  <1>1. b \in Blocks(g) \ (Starts(g) \cup Ends(g)) /\ ~HasBefore(g, b) /\ g.block[b].shown # "nothing"
        /\ \A p \in 1 .. Len(nest) : Seen(nest, p - 1) => b \notin Targets(nest[p])
    BY DEF Begun
  <1>2. b \in Blocks(h) \ (Starts(h) \cup Ends(h)) /\ h.block[b].shown # "nothing"
    BY <1>1 DEF Grows
  <1>3. ~HasBefore(h, b)
    <2>1. \A e \in h.edges \ g.edges : e[2] # b
      BY <1>1
    <2> QED
      BY <1>1, <2>1 DEF HasBefore
  <1>4. \A p \in 1 .. Len(nest2) : Seen(nest2, p - 1) => b \notin Targets(nest2[p])
    <2> SUFFICES ASSUME NEW p \in 1 .. Len(nest2), Seen(nest2, p - 1)
                 PROVE  b \notin Targets(nest2[p])
      OBVIOUS
    <2>1. m \in Nat /\ m \in 0 .. Len(nest) /\ m \in 0 .. m
      BY DEF Agree
    <2>2. p \in 1 .. m \/ (p = m + 1 /\ Len(nest2) = m + 1 /\ p - 1 = m)
      BY <2>1
    <2>3. CASE p \in 1 .. m
      <3>1. p \in 1 .. Len(nest) /\ p - 1 \in 0 .. m
        BY <2>1, <2>3
      <3>2. Seen(nest, p - 1) /\ nest2[p] = nest[p]
        BY <2>3, <3>1, SeenAgree DEF Agree
      <3> QED
        BY <1>1, <3>1, <3>2
    <2>4. CASE p = m + 1 /\ Len(nest2) = m + 1 /\ p - 1 = m
      <3>1. Seen(nest, m)
        BY <2>1, <2>4, SeenAgree
      <3> QED
        BY <1>1, <2>4, <3>1
    <2> QED
      BY <2>2, <2>3, <2>4
  <1> QED
    BY <1>2, <1>3, <1>4 DEF Begun

\* What a statement's first instruction shows.
LEMMA FirstSound ==
    ASSUME NEW g, Formed(g), NEW h, NEW E, NEW R, Made(g, h, E, R), NEW o, NEW o2, o \subseteq o2,
           Leads(g, g.current, TRUE, o), NEW n \in Nat, First(g, n) \in Blocks(h)
    PROVE  Entered(h, First(g, n)) \/ Excused(h.block[First(g, n)].function, o2)
  <1> DEFINE c == First(g, n)
  <1>1. g.current \in Blocks(g) /\ g.block[g.current].function = Function(g) /\ Grows(g, h)
    BY MadeGrows DEF Formed
  <1>2. CASE HasAfter(g, g.current)
    <2>1. Excused(Function(g), o)
      BY <1>1, <1>2 DEF Leads
    <2>2. c = Size(g) + n + 1
      BY <1>2 DEF First
    <2>3. c \notin Blocks(g)
      BY <2>2, CfgFields DEF Blocks, Formed
    <2>4. h.block[c].function = Function(g)
      BY <2>3 DEF Made
    <2> HIDE DEF c
    <2> QED
      BY <2>1, <2>4, ExcusedKept DEF c
  <1>3. CASE ~HasAfter(g, g.current)
    <2>1. c = g.current
      BY <1>3 DEF First
    <2>2. h.block[c].function = Function(g) /\ c \in Blocks(g)
      BY <1>1, <2>1 DEF Grows
    <2>3. CASE Excused(Function(g), o)
      BY <2>2, <2>3, ExcusedKept
    <2>4. CASE Entered(g, c)
      BY <1>1, <2>2, <2>4, EnteredKept
    <2> HIDE DEF c
    <2> QED
      BY <1>1, <2>1, <2>3, <2>4 DEF Leads, c
  <1> QED
    BY <1>2, <1>3

LEMMA FirstBegun ==
    ASSUME NEW nest, NEW ctx, NEW g, NEW o, NEW l, NEW fr, NEW hs, Walk(nest, ctx, g, o, l, fr, hs),
           Seen(nest, Len(nest)), Afresh(g),
           NEW h, NEW E, NEW R, Made(g, h, E, R), NEW n \in Nat,
           First(g, n) \in Blocks(h), h.block[First(g, n)].shown # "nothing",
           \A e \in E : e[2] \notin Blocks(g) \/ e[2] \in Ends(g), \A e \in E : e[2] # First(g, n),
           NEW nest2, NEW ctx2, Agree(nest, ctx, nest2, ctx2, Len(nest)),
           Len(nest2) = Len(nest) \/ Len(nest2) = Len(nest) + 1,
           Len(nest2) = Len(nest) + 1 => First(g, n) \notin Targets(nest2[Len(nest) + 1])
    PROVE  Begun(nest2, h, First(g, n))
  <1> DEFINE c == First(g, n)
  <1>1. Formed(g) /\ g.current \notin Ends(g) /\ Len(nest) \in Nat /\ Size(g) \in Nat
    BY CfgFields DEF Walk, Nesting, Formed
  <1>2. h.edges = g.edges \cup E /\ Starts(h) = Starts(g) /\ Ends(h) = Ends(g) /\ Grows(g, h)
    <2>1. h.edges = g.edges \cup E
      BY DEF Made
    <2> QED
      BY <1>1, <2>1, MadeGrows
  <1>3. \A p \in 1 .. Len(nest) : Own(nest[p]) \subseteq Blocks(g) \ {g.current} \/ ~Seen(nest, p - 1)
    BY DEF Walk, Frames, Within
  <1>4. \A p \in 1 .. Len(nest) : Seen(nest, p - 1)
    <2> SUFFICES ASSUME NEW p \in 1 .. Len(nest), NEW r \in 1 .. p - 1 PROVE nest[r].kind # "else"
      BY DEF Seen
    <2>1. r \in 1 .. Len(nest)
      BY <1>1
    <2> QED
      BY <2>1 DEF Seen
  <1>5. \A p \in 1 .. Len(nest) : Targets(nest[p]) \subseteq Blocks(g) \ {g.current}
    BY <1>3, <1>4, TargetsOwned
  <1>6. /\ c \notin Starts(g) \cup Ends(g) /\ ~HasBefore(g, c)
        /\ \A p \in 1 .. Len(nest) : c \notin Targets(nest[p])
    <2>1. CASE HasAfter(g, g.current)
      <3>1. c = Size(g) + n + 1
        BY <2>1 DEF First
      <3>2. c \notin Blocks(g)
        BY <1>1, <3>1 DEF Blocks
      <3> HIDE DEF c
      <3>3. ~HasBefore(g, c)
        BY <1>1, <3>2 DEF HasBefore, Formed
      <3> QED
        BY <1>1, <1>5, <3>2, <3>3 DEF Formed
    <2>2. CASE ~HasAfter(g, g.current)
      <3>1. c = g.current
        BY <2>2 DEF First
      <3> HIDE DEF c
      <3> QED
        BY <1>1, <1>5, <2>2, <3>1 DEF Afresh
    <2> QED
      BY <2>1, <2>2
  <1>7. ~HasBefore(h, c)
    BY <1>2, <1>6 DEF HasBefore
  <1>8. \A p \in 1 .. Len(nest2) : c \notin Targets(nest2[p])
    <2> SUFFICES ASSUME NEW p \in 1 .. Len(nest2)
                 PROVE  c \notin Targets(nest2[p])
      OBVIOUS
    <2> HIDE DEF c
    <2>1. p \in 1 .. Len(nest) \/ (p = Len(nest) + 1 /\ Len(nest2) = Len(nest) + 1)
      BY <1>1
    <2>2. p \in 1 .. Len(nest) => nest2[p] = nest[p]
      BY DEF Agree
    <2> QED
      BY <1>6, <2>1, <2>2 DEF c
  <1> HIDE DEF c
  <1> QED
    BY <1>2, <1>6, <1>7, <1>8 DEF Begun, c

\* nest2 is nest with another frame within.
Deeper(nest, f, nest2) ==
    /\ nest2 \in Seq(Frame) /\ Len(nest2) = Len(nest) + 1
    /\ nest2[Len(nest) + 1] = f
    /\ \A p \in 1 .. Len(nest) : nest2[p] = nest[p]

LEMMA ContextEntered ==
    ASSUME NEW nest, NEW ctx, Nesting(nest, ctx), NEW f, NEW nest2, Deeper(nest, f, nest2),
           NEW d \in Context, d.stack # <<>>,
           NEW seen, seen = Seen(nest, Len(nest)), Enters(f, seen, ctx[Len(nest)], d)
    PROVE  \E ctx2 : /\ Agree(nest, ctx, nest2, ctx2, Len(nest)) /\ Nesting(nest2, ctx2)
                     /\ ctx2[Len(nest2)] = d
  <1>1. PICK n \in Nat, m \in Nat : n = Len(nest) /\ m = n + 1
    BY DEF Nesting
  <1>2. ctx \in [0 .. n -> Context] /\ Len(nest2) = m /\ nest2 \in Seq(Frame)
        /\ nest2[m] = f /\ \A p \in 1 .. n : nest2[p] = nest[p]
    BY <1>1 DEF Nesting, Deeper
  <1>3. PICK ctx2 : ctx2 = [i \in 0 .. m |-> IF i = m THEN d ELSE ctx[i]]
    OBVIOUS
  <1>4. ctx2 \in [0 .. m -> Context] /\ ctx2[m] = d /\ \A p \in 0 .. n : ctx2[p] = ctx[p]
    <2>1. \A i \in 0 .. m : i = m \/ i \in 0 .. n
      BY <1>1
    <2>2. \A i \in 0 .. m : (IF i = m THEN d ELSE ctx[i]) \in Context
      BY <1>2, <2>1
    <2>3. ctx2 \in [0 .. m -> Context]
      BY <1>3, <2>2
    <2>4. m \in 0 .. m /\ \A p \in 0 .. n : p \in 0 .. m /\ p # m
      BY <1>1
    <2> QED
      BY <1>3, <2>3, <2>4
  <1>5. n \in 0 .. n /\ n <= m
    BY <1>1
  <1>6. Agree(nest, ctx, nest2, ctx2, Len(nest))
    BY <1>1, <1>2, <1>4, <1>5 DEF Agree
  <1>7. Len(nest2) = Len(nest) + 1 /\ nest2[Len(nest2)] = f /\ ctx2[Len(nest2)] = d
    BY <1>1, <1>2, <1>4
  <1>8. Nesting(nest2, ctx2)
    BY <1>6, <1>7, NestingEntered
  <1> QED
    BY <1>6, <1>7, <1>8

EntersSeen(f, c, d) == Enters(f, TRUE, c, d)

LEMMA SeenContext ==
    ASSUME NEW nest, NEW ctx, Nesting(nest, ctx), NEW f, NEW nest2, Deeper(nest, f, nest2),
           NEW c, c = ctx[Len(nest)], NEW d \in Context, d.stack # <<>>, EntersSeen(f, c, d)
    PROVE  Seen(nest, Len(nest)) => \E ctx2 : /\ Agree(nest, ctx, nest2, ctx2, Len(nest))
                                              /\ Nesting(nest2, ctx2) /\ ctx2[Len(nest2)] = d
  <1>1. PICK seen : seen = Seen(nest, Len(nest))
    OBVIOUS
  <1>2. seen = TRUE => Enters(f, seen, ctx[Len(nest)], d)
    BY DEF EntersSeen
  <1>3. Enters(f, seen, ctx[Len(nest)], d) =>
            \E ctx2 : /\ Agree(nest, ctx, nest2, ctx2, Len(nest))
                      /\ Nesting(nest2, ctx2) /\ ctx2[Len(nest2)] = d
    BY <1>1, ContextEntered
  <1> QED
    BY <1>1, <1>2, <1>3

LEMMA ContextLeft ==
    ASSUME NEW nest, NEW ctx, Nesting(nest, ctx), NEW f, NEW nest2 \in Seq(Frame), Deeper(nest2, f, nest)
    PROVE  \E ctx2 : /\ Agree(nest, ctx, nest2, ctx2, Len(nest2)) /\ Nesting(nest2, ctx2)
                     /\ ctx2[Len(nest2)] = ctx[Len(nest2)]
                     /\ Enters(f, Seen(nest2, Len(nest2)), ctx[Len(nest2)], ctx[Len(nest)])
  <1>1. PICK n \in Nat, m \in Nat : n = Len(nest2) /\ m = n + 1
    OBVIOUS
  <1>2. ctx \in [0 .. m -> Context] /\ Len(nest) = m /\ nest[m] = f
        /\ \A p \in 1 .. n : nest[p] = nest2[p]
    BY <1>1 DEF Nesting, Deeper
  <1>3. PICK ctx2 : ctx2 = [i \in 0 .. n |-> ctx[i]]
    OBVIOUS
  <1>4. ctx2 \in [0 .. n -> Context] /\ \A p \in 0 .. n : ctx2[p] = ctx[p]
    <2>1. \A i \in 0 .. n : i \in 0 .. m
      BY <1>1
    <2> QED
      BY <1>2, <1>3, <2>1
  <1>5. n \in 0 .. m /\ n \in 0 .. n /\ n <= n /\ m \in 1 .. m /\ m - 1 = n
    BY <1>1
  <1>6. Agree(nest, ctx, nest2, ctx2, Len(nest2))
    BY <1>1, <1>2, <1>4, <1>5 DEF Agree
  <1>7. Nesting(nest2, ctx2)
    BY <1>6, NestingLeft
  <1>8. Enters(nest[m], Seen(nest, n), ctx[n], ctx[m])
    BY <1>2, <1>5 DEF Nesting
  <1>9. Seen(nest, n) <=> Seen(nest2, n)
    BY <1>2 DEF Seen
  <1>10. Enters(f, Seen(nest2, n), ctx[n], ctx[m])
    BY <1>2, <1>8, <1>9 DEF Enters
  <1> QED
    BY <1>1, <1>2, <1>4, <1>5, <1>6, <1>7, <1>10

\* Only the outermost frames of a kind are seen.
LEMMA SeenOuter ==
    ASSUME NEW nest, Len(nest) \in Nat, Seen(nest, Len(nest)), NEW p \in 0 .. Len(nest)
    PROVE  Seen(nest, p)
  BY DEF Seen

-----------------------------------------------------------------------------
(* Steps that leave the graph as it is.                                    *)

Passive(f) == f.kind \in {"for", "switch", "else", "again"}

LEMMA PlainWithin ==
    ASSUME NEW f, Passive(f), NEW fn, NEW g, NEW o
    PROVE  Within(f, fn, g, o) /\ Own(f) = {} /\ Targets(f) = {}
  <1>1. Own(f) = {} /\ Targets(f) = {}
    BY DEF Passive, Own, Targets, Loops
  <1>2. f.kind # "then" /\ f.kind \notin Loops /\ f.kind # "function"
    BY DEF Passive, Loops
  <1> QED
    BY <1>1, <1>2 DEF Within

LEMMA Quiet ==
    ASSUME NEW nest, NEW ctx, NEW g, NEW o, NEW l, NEW fr, NEW hs, Walk(nest, ctx, g, o, l, fr, hs),
           NEW o2, o \subseteq o2,
           NEW nest2, NEW ctx2, NEW m, Agree(nest, ctx, nest2, ctx2, m), Nesting(nest2, ctx2),
           Len(nest2) = m \/ Len(nest2) = m + 1,
           Matches(g, ctx2[Len(nest2)]),
           Len(nest2) = m + 1 /\ Seen(nest, m) => Passive(nest2[m + 1]),
           NEW l2, NEW fr2,
           Leads(g, g.current, l2 \/ ~Seen(nest2, Len(nest2)), o2),
           Straight(o2) /\ fr2 /\ Seen(nest2, Len(nest2)) => Afresh(g)
    PROVE  Walk(nest2, ctx2, g, o2, l2, fr2, hs)
  <1>1. Formed(g) /\ g.current \notin Ends(g) /\ Sound(g, o) /\ Len(nest) \in Nat
    BY DEF Walk, Nesting
  <1>2. Grows(g, g)
    BY <1>1 DEF Grows, Formed
  <1>3. m \in Nat /\ m \in 0 .. Len(nest)
    BY <1>1 DEF Agree
  <1>4. g.edges \ g.edges = {}
    OBVIOUS
  <1>5. Spares(nest, m, g, g, o2)
    <2> SUFFICES ASSUME NEW p \in 1 .. m, Seen(nest, p - 1)
                 PROVE  g.current \notin Own(nest[p])
      BY <1>4 DEF Spares
    <2>1. p \in 1 .. Len(nest)
      BY <1>3
    <2>2. Within(nest[p], Head(ctx[p - 1].stack), g, o)
      BY <2>1 DEF Walk, Frames
    <2> QED
      BY <2>2 DEF Within
  <1>6. Len(nest2) = m + 1 /\ Seen(nest, m) =>
               /\ Within(nest2[m + 1], Head(ctx[m].stack), g, o2)
               /\ Targets(nest2[m + 1]) \cap Blocks(g) = {}
               /\ \A p \in 1 .. m : Own(nest[p]) \cap Own(nest2[m + 1]) = {}
    <2> SUFFICES ASSUME Len(nest2) = m + 1, Seen(nest, m)
                 PROVE  /\ Within(nest2[m + 1], Head(ctx[m].stack), g, o2)
                        /\ Own(nest2[m + 1]) = {} /\ Targets(nest2[m + 1]) = {}
      OBVIOUS
    <2>1. Passive(nest2[m + 1])
      OBVIOUS
    <2> QED
      BY <2>1, PlainWithin
  <1>7. Sound(g, o2)
    <2>1. \A b \in Blocks(g) : Excused(g.block[b].function, o) => Excused(g.block[b].function, o2)
      BY ExcusedKept
    <2> QED
      BY <1>1, <2>1 DEF Sound
  <1>8. Straight(o2) => Begins(nest2, g, hs) /\ (fr2 /\ Seen(nest2, Len(nest2)) => Afresh(g))
    <2> SUFFICES ASSUME Straight(o2), NEW b \in hs
                 PROVE  Begun(nest2, g, b)
      BY DEF Begins
    <2>1. Straight(o)
      BY DEF Straight
    <2>2. Begun(nest, g, b)
      BY <2>1 DEF Walk, Begins
    <2> QED
      BY <1>1, <1>2, <1>4, <1>6, <2>2, BegunKept
  <1>9. Len(nest2) = m + 1 /\ Seen(nest, m) =>
               /\ Within(nest2[m + 1], Head(ctx[m].stack), g, o2)
               /\ \A p \in 1 .. m : Own(nest[p]) \cap Own(nest2[m + 1]) = {}
    BY <1>6
  <1> QED
    BY <1>1, <1>2, <1>5, <1>7, <1>8, <1>9, Onward

LEMMA QuietStay ==
    ASSUME NEW nest, NEW ctx, NEW g, NEW o, NEW l, NEW fr, NEW hs, Walk(nest, ctx, g, o, l, fr, hs),
           NEW o2, o \subseteq o2, NEW l2, NEW fr2,
           Leads(g, g.current, l2 \/ ~Seen(nest, Len(nest)), o2),
           Straight(o2) /\ fr2 /\ Seen(nest, Len(nest)) => Afresh(g)
    PROVE  Walk(nest, ctx, g, o2, l2, fr2, hs)
  <1>1. Nesting(nest, ctx) /\ Matches(g, ctx[Len(nest)])
    BY DEF Walk
  <1>2. PICK m \in Nat : m = Len(nest)
    BY <1>1 DEF Nesting
  <1>3. Agree(nest, ctx, nest, ctx, m)
    BY <1>1, <1>2 DEF Agree, Nesting
  <1>4. Len(nest) = m /\ ~(Len(nest) = m + 1)
    BY <1>2
  <1> QED
    BY <1>1, <1>3, <1>4, Quiet

LEMMA QuietPush ==
    ASSUME NEW nest, NEW ctx, NEW g, NEW o, NEW l, NEW fr, NEW hs, Walk(nest, ctx, g, o, l, fr, hs),
           NEW o2, o \subseteq o2, NEW f, NEW nest2, Deeper(nest, f, nest2),
           Passive(f) \/ ~Seen(nest, Len(nest)),
           NEW l2, NEW fr2,
           Leads(g, g.current, l2 \/ ~Seen(nest2, Len(nest2)), o2),
           Straight(o2) /\ fr2 /\ Seen(nest2, Len(nest2)) => Afresh(g)
    PROVE  \E ctx2 : Walk(nest2, ctx2, g, o2, l2, fr2, hs)
  <1>1. Nesting(nest, ctx) /\ Matches(g, ctx[Len(nest)])
    BY DEF Walk
  <1>2. PICK d : d = ctx[Len(nest)]
    OBVIOUS
  <1>3. d \in Context /\ d.stack # <<>>
    <2>1. Len(nest) \in Nat /\ Len(nest) \in 0 .. Len(nest)
      BY <1>1 DEF Nesting
    <2> QED
      BY <1>1, <1>2, <2>1 DEF Nesting
  <1>4. PICK seen : seen = Seen(nest, Len(nest))
    OBVIOUS
  <1>12. Enters(f, seen, ctx[Len(nest)], d)
    BY <1>2, <1>4 DEF Enters, Passive, Loops
  <1>5. PICK ctx2 : /\ Agree(nest, ctx, nest2, ctx2, Len(nest)) /\ Nesting(nest2, ctx2)
                    /\ ctx2[Len(nest2)] = d
    BY <1>1, <1>3, <1>4, <1>12, ContextEntered
  <1>6. Matches(g, ctx2[Len(nest2)])
    BY <1>1, <1>2, <1>5
  <1>7. PICK m : m = Len(nest)
    OBVIOUS
  <1>8. Len(nest2) = m + 1 /\ nest2[m + 1] = f
    BY <1>7 DEF Deeper
  <1>9. Len(nest2) = m + 1 /\ Seen(nest, m) => Passive(nest2[m + 1])
    BY <1>7, <1>8
  <1>10. Agree(nest, ctx, nest2, ctx2, m)
    BY <1>5, <1>7
  <1>11. Walk(nest2, ctx2, g, o2, l2, fr2, hs)
    BY <1>5, <1>6, <1>8, <1>9, <1>10, Quiet
  <1> QED
    BY <1>11

LEMMA QuietPop ==
    ASSUME NEW nest, NEW ctx, NEW g, NEW o, NEW l, NEW fr, NEW hs, Walk(nest, ctx, g, o, l, fr, hs),
           NEW o2, o \subseteq o2, NEW f, NEW nest2 \in Seq(Frame), Deeper(nest2, f, nest),
           Passive(f) \/ ~Seen(nest2, Len(nest2)),
           NEW l2, NEW fr2,
           Leads(g, g.current, l2 \/ ~Seen(nest2, Len(nest2)), o2),
           Straight(o2) /\ fr2 /\ Seen(nest2, Len(nest2)) => Afresh(g)
    PROVE  \E ctx2 : Walk(nest2, ctx2, g, o2, l2, fr2, hs)
  <1>1. Nesting(nest, ctx) /\ Matches(g, ctx[Len(nest)])
    BY DEF Walk
  <1>2. PICK ctx2 : /\ Agree(nest, ctx, nest2, ctx2, Len(nest2)) /\ Nesting(nest2, ctx2)
                    /\ ctx2[Len(nest2)] = ctx[Len(nest2)]
                    /\ Enters(f, Seen(nest2, Len(nest2)), ctx[Len(nest2)], ctx[Len(nest)])
    BY <1>1, ContextLeft
  <1>3. Matches(g, ctx2[Len(nest2)])
    BY <1>1, <1>2 DEF Matches, Enters, Passive, Loops
  <1>4. PICK m \in Nat : m = Len(nest2)
    OBVIOUS
  <1>5. Len(nest2) = m /\ ~(Len(nest2) = m + 1) /\ Agree(nest, ctx, nest2, ctx2, m)
    BY <1>2, <1>4
  <1>6. Walk(nest2, ctx2, g, o2, l2, fr2, hs)
    BY <1>2, <1>3, <1>5, Quiet
  <1> QED
    BY <1>6

-----------------------------------------------------------------------------
(* Steps that make something of the graph.                                 *)

LEMMA WalkFacts ==
    ASSUME NEW nest, NEW ctx, NEW g, NEW o, NEW l, NEW fr, NEW hs, Walk(nest, ctx, g, o, l, fr, hs)
    PROVE  /\ Formed(g) /\ g.current \notin Ends(g) /\ Sound(g, o) /\ Len(nest) \in Nat
           /\ Nesting(nest, ctx) /\ Matches(g, ctx[Len(nest)])
  BY DEF Walk, Nesting

\* What is shown is right, if what the builder has shown is.
LEMMA MadeSound ==
    ASSUME NEW g, Formed(g), NEW h, NEW E, NEW R, Made(g, h, E, R), NEW o, NEW o2, o \subseteq o2,
           Sound(g, o),
           \A s \in R : s[2] = TRUE => Entered(h, s[1]) \/ Excused(h.block[s[1]].function, o2)
    PROVE  Sound(h, o2)
  <1>1. Grows(g, h)
    BY MadeGrows
  <1>2. \A b \in Blocks(h) : h.block[b].shown = "reachable" =>
               \/ b \in Blocks(g) /\ g.block[b].shown = "reachable"
               \/ Entered(h, b)
               \/ Excused(h.block[b].function, o2)
    <2> SUFFICES ASSUME NEW b \in Blocks(h), h.block[b].shown = "reachable",
                        ~(b \in Blocks(g) /\ g.block[b].shown = "reachable")
                 PROVE  Entered(h, b) \/ Excused(h.block[b].function, o2)
      OBVIOUS
    <2>1. <<b, TRUE>> \in R
      BY DEF Made
    <2>2. <<b, TRUE>>[1] = b /\ <<b, TRUE>>[2] = TRUE
      OBVIOUS
    <2> QED
      BY <2>1, <2>2
  <1> QED
    BY <1>1, <1>2, SoundKept

\* The blocks of what can be seen around the walk are apart from where it is.
LEMMA OwnedApart ==
    ASSUME NEW nest, NEW ctx, NEW g, NEW o, NEW l, NEW fr, NEW hs, Walk(nest, ctx, g, o, l, fr, hs),
           NEW p \in 1 .. Len(nest), Seen(nest, p - 1)
    PROVE  /\ Own(nest[p]) \subseteq Blocks(g) /\ g.current \notin Own(nest[p])
           /\ Own(nest[p]) \cap Ends(g) = {}
           /\ nest[p].kind \in Loops \cup {"then"} => nest[p].after \in Own(nest[p])
           /\ nest[p].kind \in Loops =>
                 nest[p].test # nest[p].after /\ nest[p].test \in Targets(nest[p])
  <1>1. Within(nest[p], Head(ctx[p - 1].stack), g, o)
    BY DEF Walk, Frames
  <1>2. nest[p].kind \in Loops \cup {"then"} => nest[p].after \in Own(nest[p])
    BY DEF Own, Loops
  <1>3. nest[p].kind \in Loops => nest[p].test \in Targets(nest[p])
    BY DEF Targets, Loops
  <1> QED
    BY <1>1, <1>2, <1>3 DEF Within

LEMMA SeenStays ==
    ASSUME NEW nest, NEW ctx, NEW g, NEW o, NEW l, NEW fr, NEW hs, Walk(nest, ctx, g, o, l, fr, hs),
           Seen(nest, Len(nest)), NEW o2, o \subseteq o2,
           NEW h, NEW E, NEW R, Made(g, h, E, R),
           h.breaks = g.breaks, h.continues = g.continues,
           h.current \in Blocks(h), h.current = g.current \/ h.current \notin Blocks(g),
           E \subseteq Blocks(h) \X Blocks(h),
           \A e \in E : e[1] = g.current \/ e[1] \notin Blocks(g),
           \A e \in E : \/ e[2] \notin Blocks(g) \/ e[2] \in Ends(g)
                        \/ \E q \in 1 .. Len(nest) : e[2] \in Targets(nest[q]),
           \A p \in 1 .. Len(nest) :
               nest[p].kind \in Loops /\ nest[p].cond = "true" /\ nest[p].left = {} /\ Straight(o2) =>
                   \A e \in E : e[2] # nest[p].after,
           \A s \in R : s[2] = TRUE => Entered(h, s[1]) \/ Excused(h.block[s[1]].function, o2),
           NEW l2, NEW fr2, NEW hs2,
           Leads(h, h.current, l2, o2),
           Straight(o2) => (\A b \in hs2 : b \in hs \/ Begun(nest, h, b)) /\ (fr2 => Afresh(h))
    PROVE  Walk(nest, ctx, h, o2, l2, fr2, hs2)
  <1>1. Formed(g) /\ g.current \notin Ends(g) /\ Sound(g, o) /\ Len(nest) \in Nat /\ Nesting(nest, ctx)
        /\ Matches(g, ctx[Len(nest)])
    BY WalkFacts
  <1>2. g.current \in Blocks(g) /\ g.block[g.current].function = Function(g)
        /\ Ends(g) \subseteq Blocks(g)
    BY <1>1 DEF Formed
  <1>3. Formed(h)
    <2>1. h.current \in Blocks(g) => g.block[h.current].function = Function(g)
      BY <1>2
    <2> QED
      BY <1>1, <2>1, MadeFormed
  <1>4. Grows(g, h) /\ Ends(h) = Ends(g)
    BY <1>1, MadeGrows
  <1>5. \A e \in h.edges \ g.edges : e \in E
    BY DEF Made
  <1>6. PICK m \in Nat : m = Len(nest)
    BY <1>1
  <1>7. Agree(nest, ctx, nest, ctx, m) /\ Len(nest) = m /\ ~(Len(nest) = m + 1)
    BY <1>1, <1>6 DEF Agree, Nesting
  <1>8. \A p \in 0 .. m : Seen(nest, p)
    BY <1>6, SeenOuter
  <1>9. Spares(nest, m, g, h, o2)
    <2> SUFFICES ASSUME NEW p \in 1 .. m
                 PROVE  /\ h.current \notin Own(nest[p])
                        /\ \A e \in h.edges \ g.edges : e[1] \notin Own(nest[p])
                        /\ nest[p].kind \in Loops /\ nest[p].cond = "true" /\ nest[p].left = {} /\ Straight(o2) =>
                               \A e \in h.edges \ g.edges : e[2] # nest[p].after
      BY DEF Spares
    <2>1. p \in 1 .. Len(nest) /\ p - 1 \in 0 .. m
      BY <1>6
    <2>2. Own(nest[p]) \subseteq Blocks(g) /\ g.current \notin Own(nest[p])
      BY <1>8, <2>1, OwnedApart
    <2>3. \A e \in h.edges \ g.edges : e[1] \notin Own(nest[p])
      BY <1>5, <2>2
    <2>4. nest[p].kind \in Loops /\ nest[p].cond = "true" /\ nest[p].left = {} /\ Straight(o2) =>
              \A e \in h.edges \ g.edges : e[2] # nest[p].after
      BY <1>5, <2>1
    <2> QED
      BY <2>2, <2>3, <2>4
  <1>10. h.current \notin Ends(h)
    BY <1>1, <1>2, <1>4
  <1>11. Matches(h, ctx[Len(nest)])
    BY <1>1 DEF Made, Matches
  <1>12. Sound(h, o2)
    BY <1>1, MadeSound
  <1>13. Straight(o2) => Begins(nest, h, hs2) /\ (fr2 /\ Seen(nest, Len(nest)) => Afresh(h))
    <2> SUFFICES ASSUME Straight(o2), NEW b \in hs, b \in hs2
                 PROVE  Begun(nest, h, b)
      BY DEF Begins
    <2>1. Straight(o)
      BY DEF Straight
    <2>2. Begun(nest, g, b)
      BY <2>1 DEF Walk, Begins
    <2>3. \A e \in h.edges \ g.edges :
               \/ e[2] \notin Blocks(g) \/ e[2] \in Ends(g)
               \/ \E q \in 1 .. Len(nest) : Seen(nest, q - 1) /\ e[2] \in Targets(nest[q])
      <3>1. \A q \in 1 .. Len(nest) : q - 1 \in 0 .. m
        BY <1>6
      <3> QED
        BY <1>5, <1>8, <3>1
    <2> QED
      BY <1>1, <1>4, <1>7, <2>2, <2>3, BegunKept
  <1>14. Leads(h, h.current, l2 \/ ~Seen(nest, Len(nest)), o2)
    BY DEF Leads
  <1> QED
    BY <1>1, <1>3, <1>4, <1>7, <1>9, <1>10, <1>11, <1>12, <1>13, <1>14, Onward

\* The builder opens a statement: it goes on in a new block.
Opens(g, h, E, f) ==
    /\ f.kind \in Loops \cup {"then"} /\ Own(f) \cap Blocks(g) = {}
    /\ h.current \in Blocks(h) \ Blocks(g)
    /\ E \subseteq Blocks(h) \X (Blocks(h) \ Blocks(g))
    /\ \A e \in E : e[1] = g.current \/ e[1] \notin Blocks(g)

ShowsRight(h, R, o) ==
    \A s \in R : s[2] = TRUE => Entered(h, s[1]) \/ Excused(h.block[s[1]].function, o)

HeadsBegun(nest, h, hs, hs2, o) ==
    Straight(o) => \A b \in hs2 : b \in hs \/ Begun(nest, h, b)

LEMMA SeenOpened ==
    ASSUME NEW nest, NEW ctx, NEW g, NEW o, NEW l, NEW fr, NEW hs, Walk(nest, ctx, g, o, l, fr, hs),
           Seen(nest, Len(nest)), NEW o2, o \subseteq o2,
           NEW h, NEW E, NEW R, Made(g, h, E, R),
           NEW f, NEW nest2, Deeper(nest, f, nest2), Opens(g, h, E, f),
           NEW fn, fn = Function(g), Within(f, fn, h, o2),
           NEW ctx2, Agree(nest, ctx, nest2, ctx2, Len(nest)), Nesting(nest2, ctx2),
           Matches(h, ctx2[Len(nest2)]),
           ShowsRight(h, R, o2),
           NEW l2, NEW hs2, NEW fr2, fr2 = FALSE,
           Leads(h, h.current, l2, o2),
           HeadsBegun(nest2, h, hs, hs2, o2)
    PROVE  Walk(nest2, ctx2, h, o2, l2, fr2, hs2)
  <1> USE DEF Opens, ShowsRight, HeadsBegun
  <1>1. Formed(g) /\ g.current \notin Ends(g) /\ Sound(g, o) /\ Len(nest) \in Nat /\ Nesting(nest, ctx)
        /\ Matches(g, ctx[Len(nest)])
    BY WalkFacts
  <1>2. g.current \in Blocks(g) /\ Ends(g) \subseteq Blocks(g)
    BY <1>1 DEF Formed
  <1>3. Formed(h)
    <2>1. E \subseteq Blocks(h) \X Blocks(h)
      OBVIOUS
    <2> QED
      BY <1>1, <2>1, MadeFormed
  <1>4. Grows(g, h) /\ Ends(h) = Ends(g)
    BY <1>1, MadeGrows
  <1>5. \A e \in h.edges \ g.edges : e \in E /\ e[2] \notin Blocks(g)
    <2>1. \A e \in E : e[2] \notin Blocks(g)
      OBVIOUS
    <2> QED
      BY <2>1 DEF Made
  <1>6. PICK m \in Nat : m = Len(nest)
    BY <1>1
  <1>8. \A p \in 0 .. m : Seen(nest, p)
    BY <1>6, SeenOuter
  <1>9. Spares(nest, m, g, h, o2)
    <2> SUFFICES ASSUME NEW p \in 1 .. m
                 PROVE  /\ h.current \notin Own(nest[p])
                        /\ \A e \in h.edges \ g.edges : e[1] \notin Own(nest[p])
                        /\ nest[p].kind \in Loops => \A e \in h.edges \ g.edges : e[2] # nest[p].after
      BY DEF Spares
    <2>1. p \in 1 .. Len(nest) /\ p - 1 \in 0 .. m
      BY <1>6
    <2>2. /\ Own(nest[p]) \subseteq Blocks(g) /\ g.current \notin Own(nest[p])
          /\ nest[p].kind \in Loops \cup {"then"} => nest[p].after \in Own(nest[p])
      BY <1>8, <2>1, OwnedApart
    <2>3. \A e \in h.edges \ g.edges : e[1] \notin Own(nest[p])
      BY <1>5, <2>2
    <2>4. nest[p].kind \in Loops => \A e \in h.edges \ g.edges : e[2] # nest[p].after
      BY <1>5, <2>2
    <2> QED
      BY <2>2, <2>3, <2>4
  <1>10. h.current \notin Ends(h)
    BY <1>2, <1>4
  <1>12. Sound(h, o2)
    BY <1>1, MadeSound
  <1>13. Len(nest2) = m + 1 /\ nest2[m + 1] = f /\ Agree(nest, ctx, nest2, ctx2, m)
    BY <1>6 DEF Deeper
  <1>14. Straight(o2) => Begins(nest2, h, hs2)
    <2> SUFFICES ASSUME Straight(o2), NEW b \in hs, b \in hs2
                 PROVE  Begun(nest2, h, b)
      BY DEF Begins
    <2>1. Straight(o)
      BY DEF Straight
    <2>2. Begun(nest, g, b)
      BY <2>1 DEF Walk, Begins
    <2>3. \A e \in h.edges \ g.edges :
               \/ e[2] \notin Blocks(g) \/ e[2] \in Ends(g)
               \/ \E q \in 1 .. Len(nest) : Seen(nest, q - 1) /\ e[2] \in Targets(nest[q])
      BY <1>5
    <2>4. Targets(nest2[m + 1]) \cap Blocks(g) = {}
      BY <1>13, TargetsOwned
    <2> QED
      BY <1>1, <1>4, <1>13, <2>2, <2>3, <2>4, BegunKept
  <1>15. Seen(nest2, Len(nest2))
    <2> SUFFICES ASSUME NEW r \in 1 .. Len(nest2)
                 PROVE  nest2[r].kind # "else"
      BY DEF Seen
    <2>1. r \in 1 .. Len(nest) \/ r = m + 1
      BY <1>6, <1>13
    <2>2. r \in 1 .. Len(nest) => nest2[r] = nest[r] /\ nest[r].kind # "else"
      BY DEF Deeper, Seen
    <2>3. f.kind # "else"
      BY DEF Loops
    <2> QED
      BY <1>13, <2>1, <2>2, <2>3
  <1>16. Leads(h, h.current, l2 \/ ~Seen(nest2, Len(nest2)), o2)
    BY <1>15 DEF Leads
  <1>17. Len(nest2) = m + 1 /\ Seen(nest, m) =>
               /\ Within(nest2[m + 1], Head(ctx[m].stack), h, o2)
               /\ \A p \in 1 .. m : Own(nest[p]) \cap Own(nest2[m + 1]) = {}
    <2>1. Head(ctx[m].stack) = Function(g)
      BY <1>1, <1>6 DEF Matches, Function
    <2>2. ASSUME NEW p \in 1 .. m
          PROVE  Own(nest[p]) \cap Own(f) = {}
      <3>1. p \in 1 .. Len(nest) /\ p - 1 \in 0 .. m
        BY <1>6
      <3>2. Own(nest[p]) \subseteq Blocks(g)
        BY <1>8, <3>1, OwnedApart
      <3> QED
        BY <3>2
    <2> QED
      BY <1>13, <2>1, <2>2
  <1>18. Straight(o2) => Begins(nest2, h, hs2) /\ (fr2 /\ Seen(nest2, Len(nest2)) => Afresh(h))
    BY <1>14
  <1>19. Len(nest2) = m \/ Len(nest2) = m + 1
    BY <1>13
  <1> QED
    BY <1>3, <1>4, <1>9, <1>10, <1>12, <1>13, <1>16, <1>17, <1>18, <1>19, Onward

LEMMA SeenPop ==
    ASSUME NEW nest, NEW ctx, NEW g, NEW o, NEW l, NEW fr, NEW hs, Walk(nest, ctx, g, o, l, fr, hs),
           Seen(nest, Len(nest)), NEW f, NEW nest2 \in Seq(Frame), Deeper(nest2, f, nest),
           NEW h, Formed(h), Grows(g, h), Ends(h) = Ends(g), h.block = g.block,
           \A e \in h.edges \ g.edges : /\ e[1] = g.current \/ e[1] \in Own(f)
                                        /\ e[2] \in Ends(g) \/ e[2] \in Targets(f),
           h.current \in Own(f),
           Matches(h, ctx[Len(nest2)]),
           NEW l2, NEW fr2,
           Leads(h, h.current, l2, o),
           Straight(o) => (fr2 => Afresh(h))
    PROVE  \E ctx2 : Walk(nest2, ctx2, h, o, l2, fr2, hs)
  <1>1. Formed(g) /\ g.current \notin Ends(g) /\ Sound(g, o) /\ Len(nest) \in Nat /\ Nesting(nest, ctx)
        /\ Matches(g, ctx[Len(nest)])
    BY WalkFacts
  <1>2. PICK m \in Nat, n \in Nat : m = Len(nest2) /\ n = m + 1
    OBVIOUS
  <1>3. Len(nest) = n /\ nest[n] = f /\ \A p \in 1 .. m : nest[p] = nest2[p]
    BY <1>2 DEF Deeper
  <1>4. PICK ctx2 : /\ Agree(nest, ctx, nest2, ctx2, Len(nest2)) /\ Nesting(nest2, ctx2)
                    /\ ctx2[Len(nest2)] = ctx[Len(nest2)]
                    /\ Enters(f, Seen(nest2, Len(nest2)), ctx[Len(nest2)], ctx[Len(nest)])
    BY <1>1, ContextLeft
  <1>5. \A p \in 0 .. n : Seen(nest, p)
    BY <1>1, <1>3, SeenOuter
  <1>6. n \in 1 .. Len(nest) /\ n - 1 \in 0 .. n /\ Seen(nest, n - 1)
    BY <1>2, <1>3, <1>5
  <1>7. /\ Own(f) \subseteq Blocks(g) /\ g.current \notin Own(f)
        /\ Own(f) \cap Ends(g) = {}
    BY <1>3, <1>6, OwnedApart
  <1>8. \A p \in 1 .. m : Own(nest[p]) \cap Own(f) = {}
    <2>1. \A p \in 1 .. m : p \in 1 .. n - 1
      BY <1>2
    <2> QED
      BY <1>3, <1>6, <2>1 DEF Walk, Apart
  <1>9. Spares(nest, m, g, h, o)
    <2> SUFFICES ASSUME NEW p \in 1 .. m
                 PROVE  /\ h.current \notin Own(nest[p])
                        /\ \A e \in h.edges \ g.edges : e[1] \notin Own(nest[p])
                        /\ nest[p].kind \in Loops => \A e \in h.edges \ g.edges : e[2] # nest[p].after
      BY DEF Spares
    <2>1. p \in 1 .. Len(nest) /\ p - 1 \in 0 .. n
      BY <1>2, <1>3
    <2>2. /\ Own(nest[p]) \subseteq Blocks(g) /\ g.current \notin Own(nest[p])
          /\ Own(nest[p]) \cap Ends(g) = {}
          /\ nest[p].kind \in Loops \cup {"then"} => nest[p].after \in Own(nest[p])
      BY <1>5, <2>1, OwnedApart
    <2>3. Own(nest[p]) \cap Own(f) = {} /\ Targets(f) \subseteq Own(f)
      BY <1>8, TargetsOwned
    <2> QED
      BY <2>2, <2>3
  <1>10. h.current \notin Ends(h)
    BY <1>7
  <1>11. Matches(h, ctx2[Len(nest2)])
    BY <1>4
  <1>12. Sound(h, o)
    <2>1. Blocks(h) = Blocks(g)
      BY DEF Blocks, Size
    <2> QED
      BY <1>1, <2>1, SoundKept
  <1>13. Len(nest2) = m /\ ~(Len(nest2) = m + 1) /\ Agree(nest, ctx, nest2, ctx2, m)
    BY <1>2, <1>4
  <1>14. Straight(o) => Begins(nest2, h, hs) /\ (fr2 /\ Seen(nest2, Len(nest2)) => Afresh(h))
    <2> SUFFICES ASSUME Straight(o), NEW b \in hs
                 PROVE  Begun(nest2, h, b)
      BY DEF Begins
    <2>1. Begun(nest, g, b)
      BY DEF Walk, Begins
    <2>2. \A e \in h.edges \ g.edges :
               \/ e[2] \notin Blocks(g) \/ e[2] \in Ends(g)
               \/ \E q \in 1 .. Len(nest) : Seen(nest, q - 1) /\ e[2] \in Targets(nest[q])
      BY <1>3, <1>6
    <2> QED
      BY <1>1, <1>13, <2>1, <2>2, BegunKept
  <1>15. Leads(h, h.current, l2 \/ ~Seen(nest2, Len(nest2)), o)
    <2>1. Seen(nest2, Len(nest2))
      <3>1. m \in 0 .. n
        BY <1>2
      <3> QED
        BY <1>2, <1>3, <1>5, <3>1 DEF Seen
    <2> QED
      BY <2>1 DEF Leads
  <1>16. Walk(nest2, ctx2, h, o, l2, fr2, hs)
    BY <1>4, <1>9, <1>10, <1>11, <1>12, <1>13, <1>14, <1>15, Onward
  <1> QED
    BY <1>16

\* A frame that differs only in what has left it.
Relabelled(nest, i, nest2) ==
    /\ nest2 \in Seq(Frame) /\ Len(nest2) = Len(nest)
    /\ \A p \in 1 .. Len(nest) : p # i => nest2[p] = nest[p]
    /\ \A p \in 1 .. Len(nest) : /\ nest2[p].kind = nest[p].kind /\ nest2[p].after = nest[p].after
                                 /\ nest2[p].test = nest[p].test /\ nest2[p].prev = nest[p].prev

LEMMA NestingRelabelled ==
    ASSUME NEW nest, NEW ctx, Nesting(nest, ctx), NEW i, NEW nest2, Relabelled(nest, i, nest2)
    PROVE  Nesting(nest2, ctx) /\ \A p \in 0 .. Len(nest) : Seen(nest2, p) <=> Seen(nest, p)
  <1>1. PICK n \in Nat : n = Len(nest)
    BY DEF Nesting
  <1>2. /\ Len(nest2) = n /\ nest2 \in Seq(Frame)
        /\ \A p \in 1 .. n : /\ nest2[p].kind = nest[p].kind /\ nest2[p].after = nest[p].after
                             /\ nest2[p].test = nest[p].test
    BY <1>1 DEF Relabelled
  <1>3. \A p \in 0 .. n : Seen(nest2, p) <=> Seen(nest, p)
    BY <1>2 DEF Seen
  <1>4. \A p \in 1 .. n : Enters(nest2[p], Seen(nest2, p - 1), ctx[p - 1], ctx[p])
    <2> SUFFICES ASSUME NEW p \in 1 .. n
                 PROVE  Enters(nest2[p], Seen(nest2, p - 1), ctx[p - 1], ctx[p])
      OBVIOUS
    <2>1. p - 1 \in 0 .. n
      OBVIOUS
    <2>2. Enters(nest[p], Seen(nest, p - 1), ctx[p - 1], ctx[p])
      BY <1>1 DEF Nesting
    <2> QED
      BY <1>2, <1>3, <2>1, <2>2 DEF Enters
  <1>5. \A q \in 0 .. n : Bound(nest2, ctx, q) /\ \A p \in 0 .. q : Top(nest2, ctx, p, q)
    <2> SUFFICES ASSUME NEW q \in 0 .. n
                 PROVE  Bound(nest2, ctx, q) /\ \A p \in 0 .. q : Top(nest2, ctx, p, q)
      OBVIOUS
    <2>1. Bound(nest, ctx, q) /\ \A p \in 0 .. q : Top(nest, ctx, p, q)
      BY <1>1 DEF Nesting
    <2>2. Bound(nest2, ctx, q)
      <3> SUFFICES ASSUME ctx[q].breaks # <<>> \/ ctx[q].continues # <<>>
                   PROVE  \E p \in 1 .. q : Seen(nest2, p - 1) /\ TopOf(nest2[p], ctx[q])
        BY DEF Bound
      <3>1. PICK p \in 1 .. q : Seen(nest, p - 1) /\ TopOf(nest[p], ctx[q])
        BY <2>1 DEF Bound
      <3>2. p \in 1 .. n /\ p - 1 \in 0 .. n
        OBVIOUS
      <3> QED
        BY <1>2, <1>3, <3>1, <3>2 DEF TopOf
    <2>3. ASSUME NEW p \in 0 .. q
          PROVE  Top(nest2, ctx, p, q)
      <3>1. Top(nest, ctx, p, q)
        BY <2>1
      <3>2. \A r \in p + 1 .. q : nest2[r].kind = nest[r].kind
        BY <1>2
      <3>3. p # 0 => nest2[p].kind = nest[p].kind /\ nest2[p].after = nest[p].after
                     /\ nest2[p].test = nest[p].test
        BY <1>2
      <3>4. Seen(nest2, q) <=> Seen(nest, q)
        BY <1>3
      <3> QED
        BY <3>1, <3>2, <3>3, <3>4 DEF Top
    <2> QED
      BY <2>2, <2>3
  <1> QED
    BY <1>1, <1>2, <1>3, <1>4, <1>5 DEF Nesting

LEMMA WalkRelabelled ==
    ASSUME NEW nest, NEW ctx, NEW g, NEW o, NEW l, NEW fr, NEW hs, Walk(nest, ctx, g, o, l, fr, hs),
           NEW i \in 1 .. Len(nest), NEW nest2, Relabelled(nest, i, nest2),
           Seen(nest, i - 1) => Within(nest2[i], Head(ctx[i - 1].stack), g, o)
    PROVE  Walk(nest2, ctx, g, o, l, fr, hs)
  <1>1. Nesting(nest, ctx) /\ Len(nest) \in Nat
    BY WalkFacts
  <1>2. Nesting(nest2, ctx) /\ \A p \in 0 .. Len(nest) : Seen(nest2, p) <=> Seen(nest, p)
    BY <1>1, NestingRelabelled
  <1>3. Len(nest2) = Len(nest) /\ \A p \in 1 .. Len(nest) : p # i => nest2[p] = nest[p]
    BY DEF Relabelled
  <1>4. \A p \in 1 .. Len(nest) : Own(nest2[p]) = Own(nest[p]) /\ Targets(nest2[p]) = Targets(nest[p])
    <2> SUFFICES ASSUME NEW p \in 1 .. Len(nest)
                 PROVE  Own(nest2[p]) = Own(nest[p]) /\ Targets(nest2[p]) = Targets(nest[p])
      OBVIOUS
    <2>1. /\ nest2[p].kind = nest[p].kind /\ nest2[p].after = nest[p].after
          /\ nest2[p].test = nest[p].test /\ nest2[p].prev = nest[p].prev
      BY DEF Relabelled
    <2>2. Own(nest2[p]) = Own(nest[p])
      BY <2>1 DEF Own
    <2>3. Targets(nest2[p]) = Targets(nest[p])
      BY <2>1 DEF Targets
    <2> QED
      BY <2>2, <2>3
  <1>5. \A p \in 1 .. Len(nest) : p - 1 \in 0 .. Len(nest)
    BY <1>1
  <1>6. Frames(nest2, ctx, g, o)
    <2> SUFFICES ASSUME NEW p \in 1 .. Len(nest), Seen(nest, p - 1)
                 PROVE  Within(nest2[p], Head(ctx[p - 1].stack), g, o)
      BY <1>2, <1>3, <1>5 DEF Frames
    <2>1. CASE p = i
      BY <2>1
    <2>2. CASE p # i
      BY <1>3, <2>2 DEF Walk, Frames
    <2> QED
      BY <2>1, <2>2
  <1>7. Apart(nest2)
    <2> SUFFICES ASSUME NEW q \in 1 .. Len(nest), NEW p \in 1 .. q - 1, Seen(nest, q - 1)
                 PROVE  Own(nest2[p]) \cap Own(nest2[q]) = {}
      BY <1>2, <1>3, <1>5 DEF Apart
    <2>1. p \in 1 .. Len(nest)
      BY <1>1
    <2>2. Own(nest[p]) \cap Own(nest[q]) = {}
      BY DEF Walk, Apart
    <2> QED
      BY <1>4, <2>1, <2>2
  <1>8. \A b : Begun(nest, g, b) => Begun(nest2, g, b)
    BY <1>2, <1>3, <1>4, <1>5 DEF Begun
  <1>9. Len(nest) \in 0 .. Len(nest)
    BY <1>1
  <1>10. Seen(nest2, Len(nest2)) <=> Seen(nest, Len(nest))
    BY <1>2, <1>3, <1>9
  <1>11. Straight(o) => Begins(nest2, g, hs) /\ (fr /\ Seen(nest2, Len(nest2)) => Afresh(g))
    BY <1>8, <1>10 DEF Walk, Begins
  <1>12. Leads(g, g.current, l \/ ~Seen(nest2, Len(nest2)), o)
    BY <1>10 DEF Walk, Leads
  <1>13. Matches(g, ctx[Len(nest2)])
    BY <1>3 DEF Walk
  <1>14. Formed(g) /\ g.current \notin Ends(g) /\ Sound(g, o)
    BY WalkFacts
  <1> QED
    BY <1>2, <1>6, <1>7, <1>11, <1>12, <1>13, <1>14 DEF Walk

-----------------------------------------------------------------------------
(* The statements, where the builder sees them.                            *)

LEMMA ReachLeads ==
    ASSUME NEW nest, NEW ctx, NEW g, NEW o, NEW l, NEW fr, NEW hs, Walk(nest, ctx, g, o, l, fr, hs),
           l \/ ~Seen(nest, Len(nest))
    PROVE  Leads(g, g.current, TRUE, o)
  BY DEF Walk, Leads

Heads(hs, fr, b) == hs \cup (IF fr THEN {b} ELSE {})

LEMMA SimpleStep ==
    ASSUME NEW nest, NEW ctx, NEW g, NEW o, NEW l \in BOOLEAN, NEW fr \in BOOLEAN, NEW hs,
           Walk(nest, ctx, g, o, l, fr, hs), Seen(nest, Len(nest)), NEW o2, o \subseteq o2
    PROVE  Walk(nest, ctx, AddInstruction(g, l), o2, l, FALSE, Heads(hs, fr, First(g, 0)))
  <1>1. Formed(g) /\ Len(nest) \in Nat /\ Nesting(nest, ctx) /\ Size(g) \in Nat
    BY WalkFacts, CfgFields DEF Formed
  <1>2. PICK h, c, E, R : h = AddInstruction(g, l) /\ c = First(g, 0) /\ E = {} /\ R = {<<c, l>>}
    OBVIOUS
  <1>3. /\ Made(g, h, E, R) /\ h.current = c /\ Size(h) = Total(g, 0)
        /\ h.breaks = g.breaks /\ h.continues = g.continues
    BY <1>1, <1>2, SimpleMade
  <1>4. c \in Blocks(h) /\ (c = g.current \/ c \notin Blocks(g))
    <2>1. First(g, 0) \in 1 .. Total(g, 0) /\ (First(g, 0) = g.current \/ First(g, 0) = Size(g) + 0 + 1)
      BY <1>1, FirstType
    <2>2. c \in 1 .. Size(h)
      BY <1>2, <1>3, <2>1
    <2>3. c = g.current \/ c = Size(g) + 1
      BY <1>1, <1>2, <2>1
    <2> QED
      BY <1>1, <2>2, <2>3 DEF Blocks
  <1>5. h.block[c].shown # "nothing"
    BY <1>2, <1>3 DEF Made
  <1>6. l => Leads(g, g.current, TRUE, o)
    BY ReachLeads
  <1>7. l => Entered(h, c) \/ Excused(h.block[c].function, o2)
    BY <1>1, <1>2, <1>3, <1>4, <1>6, FirstSound
  <1>8. \A s \in R : s[2] = TRUE => Entered(h, s[1]) \/ Excused(h.block[s[1]].function, o2)
    BY <1>2, <1>7
  <1>9. ~HasAfter(h, c) \/ (h.block[c].function = Function(g) /\ HasAfter(g, g.current))
    <2>1. h.edges = g.edges
      BY <1>2, <1>3 DEF Made
    <2>2. CASE c \in Blocks(g)
      <3>1. c = g.current
        BY <1>4, <2>2
      <3>2. Grows(g, h) /\ g.block[c].function = Function(g)
        BY <1>1, <1>3, <3>1, MadeGrows DEF Formed
      <3> QED
        BY <2>1, <2>2, <3>1, <3>2 DEF HasAfter, Grows
    <2>3. CASE c \notin Blocks(g)
      BY <1>1, <2>1, <2>3 DEF HasAfter, Formed
    <2> QED
      BY <2>2, <2>3
  <1>10. Leads(h, h.current, l, o2)
    <2> SUFFICES ASSUME l = TRUE
                 PROVE  Excused(h.block[c].function, o2) \/ (~HasAfter(h, c) /\ Entered(h, c))
      BY <1>3 DEF Leads
    <2>1. CASE ~HasAfter(h, c)
      BY <1>7, <2>1
    <2>2. CASE h.block[c].function = Function(g) /\ HasAfter(g, g.current)
      <3>1. Excused(Function(g), o)
        BY <1>1, <1>6, <2>2 DEF Leads, Formed
      <3> QED
        BY <2>2, <3>1, ExcusedKept
    <2> QED
      BY <1>9, <2>1, <2>2
  <1>11. Straight(o2) => (\A b \in Heads(hs, fr, c) : b \in hs \/ Begun(nest, h, b))
    <2> SUFFICES ASSUME Straight(o2), fr = TRUE
                 PROVE  Begun(nest, h, c)
      BY DEF Heads
    <2>1. Straight(o)
      BY DEF Straight
    <2>2. Afresh(g)
      BY <2>1 DEF Walk
    <2>3. PICK m \in Nat : m = Len(nest)
      BY <1>1
    <2>4. Agree(nest, ctx, nest, ctx, Len(nest))
      BY <1>1, <2>3 DEF Agree, Nesting
    <2>5. \A e \in E : e[2] \notin Blocks(g) \/ e[2] \in Ends(g)
      BY <1>2
    <2>6. \A e \in E : e[2] # c
      BY <1>2
    <2>7. Len(nest) = Len(nest) /\ ~(Len(nest) = Len(nest) + 1)
      BY <2>3
    <2>8. Begun(nest, h, First(g, 0))
      BY <1>2, <1>3, <1>4, <1>5, <2>2, <2>4, <2>5, <2>6, <2>7, FirstBegun
    <2> QED
      BY <1>2, <2>8
  <1>12. /\ E \subseteq Blocks(h) \X Blocks(h)
         /\ \A e \in E : e[1] = g.current \/ e[1] \notin Blocks(g)
         /\ \A e \in E : e[2] \notin Blocks(g) \/ e[2] \in Ends(g)
         /\ \A p \in 1 .. Len(nest) : nest[p].kind \in Loops => \A e \in E : e[2] # nest[p].after
    BY <1>2
  <1>13. h.current \in Blocks(h) /\ (h.current = g.current \/ h.current \notin Blocks(g))
    BY <1>3, <1>4
  <1>14. PICK fr2, hs2 : fr2 = FALSE /\ hs2 = Heads(hs, fr, c)
    OBVIOUS
  <1>15. Straight(o2) => (\A b \in hs2 : b \in hs \/ Begun(nest, h, b)) /\ (fr2 => Afresh(h))
    BY <1>11, <1>14
  <1>16. Walk(nest, ctx, h, o2, l, fr2, hs2)
    BY <1>3, <1>8, <1>10, <1>12, <1>13, <1>15, SeenStays, ZenonT(40)
  <1> QED
    BY <1>2, <1>14, <1>16

LEMMA ReturnStep ==
    ASSUME NEW nest, NEW ctx, NEW g, NEW o, NEW l \in BOOLEAN, NEW fr \in BOOLEAN, NEW hs,
           Walk(nest, ctx, g, o, l, fr, hs), Seen(nest, Len(nest)), NEW o2, o \subseteq o2, NEW fr2
    PROVE  Walk(nest, ctx, ReturnBlocks(g, l), o2, FALSE, fr2, hs)
  <1>1. Formed(g) /\ g.current \in Blocks(g) /\ Size(g) \in Nat /\ g.edges \subseteq Blocks(g) \X Blocks(g)
        /\ Starts(g) \subseteq Blocks(g)
    BY WalkFacts, CfgFields DEF Formed
  <1>2. End(g, Function(g)) \in Blocks(g) /\ End(g, Function(g)) \in Ends(g)
    BY <1>1, CurrentFunction
  <1>3. PICK n \in Nat, b1 \in Nat, b2 \in Nat : n = Size(g) /\ b1 = n + 1 /\ b2 = n + 2
    BY <1>1
  <1>4. PICK h, E, R : /\ h = ReturnBlocks(g, l) /\ R = {<<b1, l>>}
                       /\ E = {<<g.current, b1>>, <<b1, End(g, Function(g))>>}
    OBVIOUS
  <1>5. /\ Made(g, h, E, R) /\ h.current = b2 /\ Size(h) = b2
        /\ h.breaks = g.breaks /\ h.continues = g.continues
    BY <1>1, <1>3, <1>4, ReturnMade
  <1>6. /\ b1 \in Blocks(h) /\ b2 \in Blocks(h) /\ b1 \notin Blocks(g) /\ b2 \notin Blocks(g) /\ b2 # b1
        /\ Blocks(g) \subseteq Blocks(h)
    BY <1>3, <1>5 DEF Blocks
  <1>7. h.edges = g.edges \cup E
    BY <1>5 DEF Made
  <1>8. HasBefore(h, b1) /\ ~HasBefore(h, b2)
    <2>1. <<g.current, b1>> \in h.edges
      BY <1>4, <1>7
    <2>2. \A e \in g.edges : e[2] \in Blocks(g)
      BY <1>1
    <2>3. \A e \in E : e[2] = b1 \/ e[2] \in Blocks(g)
      BY <1>2, <1>4
    <2>4. \A e \in h.edges : e[2] # b2
      BY <1>6, <1>7, <2>2, <2>3
    <2> QED
      BY <2>1, <2>4 DEF HasBefore
  <1>9. \A s \in R : s[2] = TRUE => Entered(h, s[1]) \/ Excused(h.block[s[1]].function, o2)
    BY <1>4, <1>8 DEF Entered
  <1>10. Afresh(h)
    <2>1. Starts(h) = Starts(g)
      BY <1>1, <1>5, MadeGrows
    <2> QED
      BY <1>1, <1>5, <1>6, <1>8, <2>1 DEF Afresh
  <1>11. E \subseteq Blocks(h) \X Blocks(h)
    BY <1>1, <1>2, <1>4, <1>6
  <1>12. \A e \in E : e[1] = g.current \/ e[1] \notin Blocks(g)
    BY <1>4, <1>6
  <1>13. \A e \in E : e[2] \notin Blocks(g) \/ e[2] \in Ends(g)
    BY <1>2, <1>4, <1>6
  <1>14. \A p \in 1 .. Len(nest) : nest[p].kind \in Loops => \A e \in E : e[2] # nest[p].after
    <2> SUFFICES ASSUME NEW p \in 1 .. Len(nest), nest[p].kind \in Loops, NEW e \in E
                 PROVE  e[2] # nest[p].after
      OBVIOUS
    <2>1. Len(nest) \in Nat
      BY WalkFacts
    <2>2. p - 1 \in 0 .. Len(nest)
      BY <2>1
    <2>3. Seen(nest, p - 1)
      BY <2>1, <2>2, SeenOuter
    <2>4. nest[p].after \in Blocks(g) \ Ends(g)
      BY <2>3, OwnedApart
    <2> QED
      BY <1>13, <2>4
  <1>15. h.current \in Blocks(h) /\ (h.current = g.current \/ h.current \notin Blocks(g))
    BY <1>5, <1>6
  <1>16. Leads(h, h.current, FALSE, o2)
    BY DEF Leads
  <1>17. Walk(nest, ctx, h, o2, FALSE, fr2, hs)
    BY <1>5, <1>9, <1>10, <1>11, <1>12, <1>13, <1>14, <1>15, <1>16, SeenStays
  <1> QED
    BY <1>4, <1>17

LEMMA JumpStep ==
    ASSUME NEW nest, NEW ctx, NEW g, NEW o, NEW l \in BOOLEAN, NEW fr \in BOOLEAN, NEW hs,
           Walk(nest, ctx, g, o, l, fr, hs), Seen(nest, Len(nest)), NEW o2, o \subseteq o2, NEW fr2,
           NEW q \in 1 .. Len(nest), NEW to \in Targets(nest[q]),
           \A p \in 1 .. Len(nest) :
               nest[p].kind \in Loops /\ nest[p].cond = "true" /\ nest[p].left = {} /\ Straight(o2) =>
                   to # nest[p].after
    PROVE  /\ Walk(nest, ctx, JumpBlock(g, to, l), o2, FALSE, fr2, hs)
           /\ HasBefore(JumpBlock(g, to, l), to)
  <1>1. Formed(g) /\ g.current \in Blocks(g) /\ Size(g) \in Nat /\ Len(nest) \in Nat
    BY WalkFacts, CfgFields DEF Formed
  <1>2. to \in Blocks(g)
    <2>1. q - 1 \in 0 .. Len(nest)
      BY <1>1
    <2>2. Own(nest[q]) \subseteq Blocks(g)
      BY <1>1, <2>1, SeenOuter, OwnedApart
    <2> QED
      BY <2>2, TargetsOwned
  <1>3. PICK n \in Nat, b1 \in Nat : n = Size(g) /\ b1 = n + 1
    BY <1>1
  <1>4. PICK h, E, R : h = JumpBlock(g, to, l) /\ R = {<<b1, l>>} /\ E = {<<g.current, b1>>, <<b1, to>>}
    OBVIOUS
  <1>5. /\ Made(g, h, E, R) /\ h.current = b1 /\ Size(h) = b1
        /\ h.breaks = g.breaks /\ h.continues = g.continues
    <2>1. to \in Nat
      BY <1>2 DEF Blocks
    <2> QED
      BY <1>1, <1>3, <1>4, <2>1, JumpMade
  <1>6. /\ b1 \in Blocks(h) /\ b1 \notin Blocks(g) /\ Blocks(g) \subseteq Blocks(h)
    BY <1>3, <1>5 DEF Blocks
  <1>7. h.edges = g.edges \cup E
    BY <1>5 DEF Made
  <1>8. HasBefore(h, b1) /\ HasAfter(h, b1) /\ HasBefore(h, to)
    <2>1. <<g.current, b1>> \in h.edges /\ <<b1, to>> \in h.edges
      BY <1>4, <1>7
    <2> QED
      BY <2>1 DEF HasBefore, HasAfter
  <1>9. \A s \in R : s[2] = TRUE => Entered(h, s[1]) \/ Excused(h.block[s[1]].function, o2)
    BY <1>4, <1>8 DEF Entered
  <1>10. Afresh(h)
    BY <1>5, <1>8 DEF Afresh
  <1>11. E \subseteq Blocks(h) \X Blocks(h)
    BY <1>1, <1>2, <1>4, <1>6
  <1>12. \A e \in E : e[1] = g.current \/ e[1] \notin Blocks(g)
    BY <1>4, <1>6
  <1>13. \A e \in E : e[2] \notin Blocks(g) \/ e[2] \in Targets(nest[q])
    BY <1>4, <1>6
  <1>14. \A p \in 1 .. Len(nest) :
             nest[p].kind \in Loops /\ nest[p].cond = "true" /\ nest[p].left = {} /\ Straight(o2) =>
                 \A e \in E : e[2] # nest[p].after
    <2> SUFFICES ASSUME NEW p \in 1 .. Len(nest), nest[p].kind \in Loops
                 PROVE  b1 # nest[p].after
      BY <1>4
    <2>1. p - 1 \in 0 .. Len(nest)
      BY <1>1
    <2>2. nest[p].after \in Blocks(g)
      BY <1>1, <2>1, SeenOuter, OwnedApart
    <2> QED
      BY <1>6, <2>2
  <1>15. h.current \in Blocks(h) /\ (h.current = g.current \/ h.current \notin Blocks(g))
    BY <1>5, <1>6
  <1>16. Leads(h, h.current, FALSE, o2)
    BY DEF Leads
  <1>17. Walk(nest, ctx, h, o2, FALSE, fr2, hs)
    BY <1>5, <1>9, <1>10, <1>11, <1>12, <1>13, <1>14, <1>15, <1>16, SeenStays
  <1> QED
    BY <1>4, <1>8, <1>17

LEMMA EdgesOfNew ==
    ASSUME NEW g, Formed(g), NEW h, NEW E, NEW R, Made(g, h, E, R), NEW b, b \notin Blocks(g)
    PROVE  /\ HasAfter(h, b) <=> \E e \in E : e[1] = b
           /\ HasBefore(h, b) <=> \E e \in E : e[2] = b
  <1>1. h.edges = g.edges \cup E
    BY DEF Made
  <1>2. \A e \in g.edges : e[1] # b /\ e[2] # b
    BY DEF Formed
  <1> QED
    BY <1>1, <1>2 DEF HasAfter, HasBefore

\* A new block that shows code and that no edge leads to.
LEMMA NewBegun ==
    ASSUME NEW nest, NEW ctx, NEW g, NEW o, NEW l, NEW fr, NEW hs, Walk(nest, ctx, g, o, l, fr, hs),
           Seen(nest, Len(nest)), NEW h, NEW E, NEW R, Made(g, h, E, R),
           NEW f, NEW nest2, Deeper(nest, f, nest2),
           NEW b \in Blocks(h), b \notin Blocks(g), \A e \in E : e[2] # b,
           h.block[b].shown # "nothing", b \notin Targets(f)
    PROVE  Begun(nest2, h, b)
  <1>1. Formed(g) /\ Len(nest) \in Nat
    BY WalkFacts
  <1>2. Starts(h) \subseteq Blocks(g) /\ Ends(h) \subseteq Blocks(g)
    BY <1>1, MadeGrows DEF Formed
  <1>3. ~HasBefore(h, b)
    BY <1>1, EdgesOfNew
  <1>4. \A p \in 1 .. Len(nest2) : b \notin Targets(nest2[p])
    <2> SUFFICES ASSUME NEW p \in 1 .. Len(nest2)
                 PROVE  b \notin Targets(nest2[p])
      OBVIOUS
    <2>1. CASE p = Len(nest) + 1
      BY <2>1 DEF Deeper
    <2>2. CASE p # Len(nest) + 1
      <3>1. p \in 1 .. Len(nest) /\ p - 1 \in 0 .. Len(nest)
        BY <1>1, <2>2 DEF Deeper
      <3>2. nest2[p] = nest[p]
        BY <3>1 DEF Deeper
      <3>3. Own(nest[p]) \subseteq Blocks(g)
        BY <1>1, <3>1, SeenOuter, OwnedApart
      <3> QED
        BY <3>2, <3>3, TargetsOwned
    <2> QED
      BY <2>1, <2>2
  <1> QED
    BY <1>2, <1>3, <1>4 DEF Begun

\* The same of the first instruction of a statement, and what it shows.
Opening(g, h, E, R, f, c, l) ==
    /\ c \in Blocks(h) /\ <<c, l>> \in R
    /\ \A e \in E : e[2] \notin Blocks(g) /\ e[2] # c
    /\ c \notin Targets(f)

LEMMA FirstOpened ==
    ASSUME NEW nest, NEW ctx, NEW g, NEW o, NEW l \in BOOLEAN, NEW fr, NEW hs,
           Walk(nest, ctx, g, o, l, fr, hs), Seen(nest, Len(nest)), NEW o2, o \subseteq o2,
           NEW h, NEW E, NEW R, Made(g, h, E, R),
           NEW f, NEW nest2, Deeper(nest, f, nest2), NEW ctx2, Agree(nest, ctx, nest2, ctx2, Len(nest)),
           NEW n \in Nat, NEW c, c = First(g, n), Opening(g, h, E, R, f, c, l)
    PROVE  /\ l = TRUE => Entered(h, c) \/ Excused(h.block[c].function, o2)
           /\ Straight(o2) /\ fr = TRUE => Begun(nest2, h, c)
  <1> USE DEF Opening
  <1>1. Formed(g) /\ Len(nest) \in Nat
    BY WalkFacts
  <1>2. l = TRUE => Entered(h, c) \/ Excused(h.block[c].function, o2)
    <2>1. l = TRUE => Leads(g, g.current, TRUE, o)
      BY ReachLeads
    <2> QED
      BY <1>1, <2>1, FirstSound
  <1>3. ASSUME Straight(o2), fr = TRUE
        PROVE  Begun(nest2, h, c)
    <2>1. Straight(o)
      BY <1>3 DEF Straight
    <2>2. Afresh(g)
      BY <1>3, <2>1 DEF Walk
    <2>3. Len(nest2) = Len(nest) + 1 /\ nest2[Len(nest) + 1] = f
      BY DEF Deeper
    <2>4. h.block[c].shown # "nothing"
      <3>1. \A s \in R : h.block[s[1]].shown # "nothing"
        BY DEF Made
      <3> QED
        BY <3>1
    <2>5. \A e \in E : e[2] \notin Blocks(g) \/ e[2] \in Ends(g)
      OBVIOUS
    <2>6. \A e \in E : e[2] # First(g, n)
      OBVIOUS
    <2>7. First(g, n) \in Blocks(h) /\ h.block[First(g, n)].shown # "nothing"
      BY <2>4
    <2>8. Len(nest2) = Len(nest) + 1 => First(g, n) \notin Targets(nest2[Len(nest) + 1])
      BY <2>3
    <2>9. Begun(nest2, h, First(g, n))
      BY <2>2, <2>3, <2>5, <2>6, <2>7, <2>8, FirstBegun
    <2> QED
      BY <2>9
  <1> QED
    BY <1>2, <1>3

Never(g, cond, hasElse) ==
    CASE cond = "false" -> {Size(g) + 2}
      [] cond = "true" /\ hasElse -> {Size(g) + 3}
      [] OTHER -> {}

\* Is the first branch, or the body, reached?
Taken(l, cond) == l /\ cond # "false"

Walks(nest, g, o, l, fr, hs) == \E ctx : Walk(nest, ctx, g, o, l, fr, hs)

IfFrame(g, hasElse, f) == hasElse \in BOOLEAN /\ f.kind = "then" /\ f.hasElse = hasElse /\ f.after = Size(g) + 4

LEMMA IfStep ==
    ASSUME NEW nest, NEW ctx, NEW g, NEW o, NEW l \in BOOLEAN, NEW fr \in BOOLEAN, NEW hs,
           Walk(nest, ctx, g, o, l, fr, hs), Seen(nest, Len(nest)), NEW o2, o \subseteq o2,
           NEW cond, NEW hasElse,
           NEW f, NEW nest2, Deeper(nest, f, nest2),
           IfFrame(g, hasElse, f)
    PROVE  Walks(nest2, IfBlocks(g, cond, hasElse, l), o2, Taken(l, cond), FALSE,
                Heads(hs \cup Never(g, cond, hasElse), fr, First(g, 4)))
  <1>0. hasElse \in BOOLEAN
    BY DEF IfFrame
  <1>1. Formed(g) /\ Size(g) \in Nat /\ Len(nest) \in Nat /\ Nesting(nest, ctx) /\ Matches(g, ctx[Len(nest)])
        /\ Starts(g) \subseteq Blocks(g) /\ Ends(g) \subseteq Blocks(g) /\ g.current \in Blocks(g)
    BY WalkFacts, CfgFields DEF Formed
  <1>2. PICK d : d = ctx[Len(nest)]
    OBVIOUS
  <1>3. d \in Context /\ d.stack # <<>>
    <2>1. Len(nest) \in 0 .. Len(nest)
      BY <1>1
    <2> QED
      BY <1>1, <1>2, <2>1 DEF Nesting
  <1>4. EntersSeen(f, d, d)
    BY DEF EntersSeen, Enters, Loops, IfFrame
  <1>5. PICK ctx2 : /\ Agree(nest, ctx, nest2, ctx2, Len(nest)) /\ Nesting(nest2, ctx2)
                    /\ ctx2[Len(nest2)] = d
    <2>1. Nesting(nest, ctx)
      BY <1>1
    <2>2. \E ctx2 : /\ Agree(nest, ctx, nest2, ctx2, Len(nest)) /\ Nesting(nest2, ctx2)
                    /\ ctx2[Len(nest2)] = d
      BY <1>2, <1>3, <1>4, <2>1, SeenContext
    <2> QED
      BY <2>2
  <1>6. PICK n \in Nat, b1 \in Nat, b2 \in Nat, b3 \in Nat, b4 \in Nat, c \in Nat :
            /\ n = Size(g) /\ b1 = n + 1 /\ b2 = n + 2 /\ b3 = n + 3 /\ b4 = n + 4
            /\ c = First(g, 4)
    <2>1. Size(g) \in Nat /\ First(g, 4) \in Nat
      BY <1>1, FirstType
    <2>2. PICK n \in Nat : n = Size(g)
      BY <2>1
    <2>3. n + 1 \in Nat /\ n + 2 \in Nat /\ n + 3 \in Nat /\ n + 4 \in Nat
      OBVIOUS
    <2> QED
      BY <2>1, <2>2, <2>3, Zenon
  <1>7. PICK h, E, R, l2 : /\ h = IfBlocks(g, cond, hasElse, l) /\ E = IfEdges(g, cond, hasElse)
                           /\ R = IfShows(g, cond, hasElse, l) /\ l2 = (l /\ cond # "false")
    OBVIOUS
  <1>8. /\ Made(g, h, E, R) /\ h.current = Size(g) + 2 /\ Size(h) = Total(g, 4)
        /\ h.breaks = g.breaks /\ h.continues = g.continues
    BY <1>0, <1>1, <1>7, IfMade
  <1>9. h.current = b2
    BY <1>6, <1>8
  <1>10. /\ c \in Blocks(h) /\ (c = g.current \/ c = n + 5) /\ c \notin {b1, b2, b3, b4}
         /\ c = g.current \/ c \notin Blocks(g)
         /\ {b1, b2, b3, b4} \subseteq Blocks(h) /\ {b1, b2, b3, b4} \cap Blocks(g) = {}
         /\ b1 # b2 /\ b1 # b3 /\ b1 # b4 /\ b2 # b3 /\ b2 # b4 /\ b3 # b4
         /\ Blocks(g) \subseteq Blocks(h)
    <2>1. /\ First(g, 4) = g.current \/ First(g, 4) = Size(g) + 4 + 1
          /\ Size(g) + 4 <= Total(g, 4) /\ First(g, 4) \in 1 .. Total(g, 4) /\ Total(g, 4) \in Nat
      BY <1>1, FirstType
    <2>2. PICK m \in Nat : m = Total(g, 4)
      BY <2>1
    <2>3. n + 4 <= m /\ c \in 1 .. m /\ (c = g.current \/ c = n + 5) /\ g.current \in 1 .. n
      BY <1>1, <1>6, <2>1, <2>2 DEF Blocks
    <2>4. Blocks(h) = 1 .. m /\ Blocks(g) = 1 .. n
      BY <1>6, <1>8, <2>2 DEF Blocks
    <2>5. /\ c \in 1 .. m /\ c \notin {b1, b2, b3, b4} /\ (c \in 1 .. n => c = g.current)
          /\ {b1, b2, b3, b4} \subseteq 1 .. m /\ {b1, b2, b3, b4} \cap 1 .. n = {}
          /\ b1 # b2 /\ b1 # b3 /\ b1 # b4 /\ b2 # b3 /\ b2 # b4 /\ b3 # b4
          /\ 1 .. n \subseteq 1 .. m
      <3>1. PICK cur \in Nat : cur = g.current
        BY <2>3
      <3>2. (c = cur \/ c = n + 5) /\ cur \in 1 .. n
        BY <2>3, <3>1
      <3> QED
        <4>1. /\ b1 = n + 1 /\ b2 = n + 2 /\ b3 = n + 3 /\ b4 = n + 4 /\ n + 4 <= m
              /\ c \in 1 .. m /\ (c = cur \/ c = n + 5) /\ cur \in 1 .. n
          BY <1>6, <2>3, <3>1
        <4>2. c \notin {b1, b2, b3, b4} /\ (c \in 1 .. n => c = cur)
          BY <4>1
        <4>3. {b1, b2, b3, b4} \subseteq 1 .. m /\ {b1, b2, b3, b4} \cap 1 .. n = {} /\ 1 .. n \subseteq 1 .. m
          BY <4>1
        <4>4. b1 # b2 /\ b1 # b3 /\ b1 # b4 /\ b2 # b3 /\ b2 # b4 /\ b3 # b4
          BY <4>1
        <4> QED
          BY <3>1, <4>1, <4>2, <4>3, <4>4
    <2> QED
      BY <2>3, <2>4, <2>5
  <1>11. E = {<<c, b1>>}
             \cup (IF cond # "false" THEN {<<b1, b2>>} ELSE {})
             \cup (IF ~hasElse THEN {<<b1, b4>>} ELSE {})
             \cup (IF hasElse /\ cond # "true" THEN {<<b1, b3>>} ELSE {})
    BY <1>6, <1>7 DEF IfEdges
  <1>12. R = {<<c, l>>, <<b1, l>>, <<b2, l2>>} \cup (IF hasElse THEN {<<b3, l /\ cond # "true">>} ELSE {})
    BY <1>6, <1>7 DEF IfShows
  <1>13. \A e \in E : /\ e \in Blocks(h) \X (Blocks(h) \ Blocks(g))
                      /\ e[1] = g.current \/ e[1] \notin Blocks(g)
                      /\ e[2] # c /\ e[1] # b4 /\ e[1] # b2
    BY <1>10, <1>11
  <1>14. Own(f) = {b3, b4} /\ Targets(f) = {b4} /\ f.after = b4
    <2>1. f.after = b4 /\ f.after - 1 = b3
      BY <1>6 DEF IfFrame
    <2>2. f.kind = "then"
      BY DEF IfFrame
    <2> QED
      BY <2>1, <2>2 DEF Own, Targets, Loops
  <1>15. /\ ~HasAfter(h, b4) /\ ~HasAfter(h, b2) /\ HasBefore(h, b1)
         /\ cond # "false" => HasBefore(h, b2)
         /\ hasElse /\ cond # "true" => HasBefore(h, b3)
         /\ ~hasElse => HasBefore(h, b4)
    <2>1. \A b \in {b1, b2, b3, b4} : /\ HasAfter(h, b) <=> \E e \in E : e[1] = b
                                      /\ HasBefore(h, b) <=> \E e \in E : e[2] = b
      BY <1>1, <1>8, <1>10, EdgesOfNew
    <2>2. /\ <<c, b1>> \in E /\ (cond # "false" => <<b1, b2>> \in E)
          /\ (hasElse /\ cond # "true" => <<b1, b3>> \in E)
          /\ (~hasElse => <<b1, b4>> \in E)
      BY <1>11
    <2> QED
      BY <1>13, <2>1, <2>2
  <1>16. Starts(h) = Starts(g) /\ Ends(h) = Ends(g)
    BY <1>1, <1>8, MadeGrows
  <1>17. Within(f, Function(g), h, o2)
    <2>1. Own(f) \subseteq Blocks(h) \ ({h.current} \cup Ends(h))
      BY <1>1, <1>9, <1>10, <1>14, <1>16
    <2>2. Targets(f) \cap Starts(h) = {}
      BY <1>1, <1>10, <1>14, <1>16
    <2>3. h.block[b4].function = Function(g)
      BY <1>8, <1>10 DEF Made
    <2>4. f.kind \notin Loops /\ f.kind # "function"
      BY DEF Loops, IfFrame
    <2> QED
      BY <1>14, <1>15, <2>1, <2>2, <2>3, <2>4 DEF Within, IfFrame
  <1>18. /\ l = TRUE => Entered(h, c) \/ Excused(h.block[c].function, o2)
         /\ Straight(o2) /\ fr = TRUE => Begun(nest2, h, c)
    <2>1. <<c, l>> \in R
      BY <1>12
    <2>2. \A e \in E : e[2] \notin Blocks(g) /\ e[2] # c
      BY <1>13
    <2>3. PICK k \in Nat : k = 4
      OBVIOUS
    <2>4. c \notin Targets(f) /\ c = First(g, k) /\ c \in Blocks(h)
      BY <1>6, <1>10, <1>14, <2>3
    <2>6. Opening(g, h, E, R, f, c, l)
      BY <2>1, <2>2, <2>4 DEF Opening
    <2>5. Made(g, h, E, R) /\ Agree(nest, ctx, nest2, ctx2, Len(nest))
      BY <1>5, <1>8
    <2> QED
      BY <2>4, <2>5, <2>6, FirstOpened
  <1>19. ShowsRight(h, R, o2)
    <2> SUFFICES ASSUME NEW s \in R, s[2] = TRUE
                 PROVE  Entered(h, s[1]) \/ Excused(h.block[s[1]].function, o2)
      BY DEF ShowsRight
    <2>1. \/ s = <<c, l>> \/ s = <<b1, l>> \/ s = <<b2, l2>>
          \/ hasElse /\ s = <<b3, l /\ cond # "true">>
      BY <1>12
    <2>2. CASE s = <<c, l>>
      <3>1. s[1] = c /\ s[2] = l
        BY <2>2
      <3> QED
        BY <1>18, <3>1
    <2>3. CASE s = <<b1, l>>
      BY <1>15, <2>3 DEF Entered
    <2>4. CASE s = <<b2, l2>>
      BY <1>7, <1>15, <2>4 DEF Entered
    <2>5. CASE hasElse /\ s = <<b3, l /\ cond # "true">>
      BY <1>15, <2>5 DEF Entered
    <2> QED
      BY <2>1, <2>2, <2>3, <2>4, <2>5
  <1>20. Leads(h, h.current, l2, o2)
    BY <1>7, <1>9, <1>15 DEF Leads, Entered
  <1>21. PICK hs2 : hs2 = Heads(hs \cup Never(g, cond, hasElse), fr, First(g, 4))
    OBVIOUS
  <1>22. HeadsBegun(nest2, h, hs, hs2, o2)
    <2> SUFFICES ASSUME Straight(o2), NEW b \in hs2, b \notin hs
                 PROVE  Begun(nest2, h, b)
      BY DEF HeadsBegun
    <2>1. b \in Never(g, cond, hasElse) \/ (fr = TRUE /\ b = c)
      BY <1>6, <1>21 DEF Heads
    <2>2. CASE fr = TRUE /\ b = c
      BY <1>18, <2>2
    <2>3. CASE b \in Never(g, cond, hasElse)
      <3>1. (cond = "false" /\ b = b2) \/ (cond = "true" /\ hasElse /\ b = b3)
        BY <1>6, <2>3 DEF Never
      <3>2. \A e \in E : e[2] # b
        BY <1>10, <1>11, <3>1
      <3>3. \E r : <<b, r>> \in R
        BY <1>12, <3>1
      <3>4. h.block[b].shown # "nothing"
        <4>1. \A s \in R : h.block[s[1]].shown # "nothing"
          BY <1>8 DEF Made
        <4> QED
          BY <3>3, <4>1
      <3>5. b \in Blocks(h) /\ b \notin Blocks(g) /\ b \notin Targets(f)
        BY <1>10, <1>14, <3>1
      <3> QED
        BY <1>8, <3>2, <3>4, <3>5, NewBegun
    <2> QED
      BY <2>1, <2>2, <2>3
  <1>23. Matches(h, ctx2[Len(nest2)])
    BY <1>1, <1>2, <1>5, <1>8 DEF Matches, Made
  <1>24. Opens(g, h, E, f)
    BY <1>9, <1>10, <1>13, <1>14 DEF IfFrame, Opens
  <1>25. PICK fn, fr2 : fn = Function(g) /\ fr2 = FALSE
    OBVIOUS
  <1>26. Within(f, fn, h, o2) /\ Made(g, h, E, R)
    BY <1>8, <1>17, <1>25
  <1>27. Walk(nest2, ctx2, h, o2, l2, fr2, hs2)
    BY <1>5, <1>19, <1>20, <1>22, <1>23, <1>24, <1>25, <1>26, SeenOpened
  <1>28. Walks(nest2, h, o2, l2, fr2, hs2)
    BY <1>27 DEF Walks
  <1> QED
    BY <1>7, <1>21, <1>25, <1>28 DEF Taken

\* Into a loop: where break and continue go.
LoopPushed(g, f, h) ==
    /\ h.stack = g.stack
    /\ h.breaks = Pushed(f.after, g.breaks) /\ h.continues = Pushed(f.test, g.continues)

LEMMA LoopContext ==
    ASSUME NEW nest, NEW ctx, NEW g, Nesting(nest, ctx), Matches(g, ctx[Len(nest)]),
           NEW f, NEW nest2, Deeper(nest, f, nest2),
           f.kind \in Loops, f.after \in Nat, f.test \in Nat, NEW h, LoopPushed(g, f, h)
    PROVE  Seen(nest, Len(nest)) => \E ctx2 : /\ Agree(nest, ctx, nest2, ctx2, Len(nest))
                                              /\ Nesting(nest2, ctx2) /\ Matches(h, ctx2[Len(nest2)])
  <1>1. PICK c : c = ctx[Len(nest)]
    OBVIOUS
  <1>2. c \in Context /\ c.stack # <<>>
    <2>1. Len(nest) \in Nat /\ Len(nest) \in 0 .. Len(nest)
      BY DEF Nesting
    <2> QED
      BY <1>1, <2>1 DEF Nesting
  <1>3. PICK bs, cs : bs = Pushed(f.after, c.breaks) /\ cs = Pushed(f.test, c.continues)
    OBVIOUS
  <1>4. bs \in Seq(Nat) /\ cs \in Seq(Nat)
    BY <1>2, <1>3, PushedProperties DEF Context
  <1>5. PICK d : d = [stack |-> c.stack, breaks |-> bs, continues |-> cs]
    OBVIOUS
  <1>6. /\ d \in Context /\ d.stack # <<>>
        /\ d.stack = c.stack /\ d.breaks = bs /\ d.continues = cs
    BY <1>2, <1>4, <1>5 DEF Context
  <1>7. EntersSeen(f, c, d)
    BY <1>3, <1>6 DEF EntersSeen, Enters, Loops
  <1>8. Matches(h, d)
    BY <1>1, <1>3, <1>6 DEF Matches, LoopPushed
  <1>9. Seen(nest, Len(nest)) => \E ctx2 : /\ Agree(nest, ctx, nest2, ctx2, Len(nest))
                                           /\ Nesting(nest2, ctx2) /\ ctx2[Len(nest2)] = d
    BY <1>1, <1>6, <1>7, SeenContext
  <1> QED
    BY <1>8, <1>9

NeverWhile(g, cond) == IF cond = "false" THEN {Size(g) + 2} ELSE {}

WhileFrame(g, cond, f) ==
    /\ f.kind = "while" /\ f.cond = cond /\ f.left = {}
    /\ f.test = Size(g) + 1 /\ f.after = Size(g) + 3

LEMMA WhileStep ==
    ASSUME NEW nest, NEW ctx, NEW g, NEW o, NEW l \in BOOLEAN, NEW fr \in BOOLEAN, NEW hs,
           Walk(nest, ctx, g, o, l, fr, hs), Seen(nest, Len(nest)), NEW o2, o \subseteq o2,
           NEW cond, NEW f, NEW nest2, Deeper(nest, f, nest2), WhileFrame(g, cond, f)
    PROVE  Walks(nest2, WhileBlocks(g, cond, l), o2, Taken(l, cond), FALSE,
                Heads(hs \cup NeverWhile(g, cond), fr, First(g, 3)))
  <1>1. Formed(g) /\ Size(g) \in Nat /\ Len(nest) \in Nat /\ Nesting(nest, ctx) /\ Matches(g, ctx[Len(nest)])
        /\ Starts(g) \subseteq Blocks(g) /\ Ends(g) \subseteq Blocks(g) /\ g.current \in Blocks(g)
    BY WalkFacts, CfgFields DEF Formed
  <1>2. PICK n \in Nat, b1 \in Nat, b2 \in Nat, b3 \in Nat, c \in Nat :
            /\ n = Size(g) /\ b1 = n + 1 /\ b2 = n + 2 /\ b3 = n + 3
            /\ c = First(g, 3)
    <2>1. Size(g) \in Nat /\ First(g, 3) \in Nat
      BY <1>1, FirstType
    <2>2. PICK n \in Nat : n = Size(g)
      BY <2>1
    <2>3. n + 1 \in Nat /\ n + 2 \in Nat /\ n + 3 \in Nat
      OBVIOUS
    <2> QED
      BY <2>1, <2>2, <2>3, Zenon
  <1>3. PICK h, E, R, l2 : /\ h = WhileBlocks(g, cond, l) /\ E = WhileEdges(g, cond)
                           /\ R = WhileShows(g, cond, l) /\ l2 = (l /\ cond # "false")
    OBVIOUS
  <1>4. /\ Made(g, h, E, R) /\ h.current = Size(g) + 2 /\ Size(h) = Total(g, 3)
        /\ h.breaks = Pushed(Size(g) + 3, g.breaks) /\ h.continues = Pushed(Size(g) + 1, g.continues)
    BY <1>1, <1>3, WhileMade
  <1>5. h.current = b2
    BY <1>2, <1>4
  <1>6. f.after = b3 /\ f.test = b1 /\ f.kind = "while" /\ f.cond = cond /\ f.left = {}
    BY <1>2 DEF WhileFrame
  <1>7. PICK ctx2 : /\ Agree(nest, ctx, nest2, ctx2, Len(nest)) /\ Nesting(nest2, ctx2)
                    /\ Matches(h, ctx2[Len(nest2)])
    <2>1. Nesting(nest, ctx) /\ Matches(g, ctx[Len(nest)])
      BY <1>1
    <2>2. f.kind \in Loops /\ f.after \in Nat /\ f.test \in Nat
      BY <1>6 DEF Loops
    <2>3. LoopPushed(g, f, h)
      BY <1>2, <1>4, <1>6 DEF LoopPushed, Made
    <2>4. Seen(nest, Len(nest)) => \E ctx2 : /\ Agree(nest, ctx, nest2, ctx2, Len(nest))
                                             /\ Nesting(nest2, ctx2) /\ Matches(h, ctx2[Len(nest2)])
      BY <2>1, <2>2, <2>3, LoopContext
    <2> QED
      BY <2>4
  <1>10. /\ c \in Blocks(h) /\ c \notin {b1, b2, b3}
         /\ c = g.current \/ c \notin Blocks(g)
         /\ {b1, b2, b3} \subseteq Blocks(h) /\ {b1, b2, b3} \cap Blocks(g) = {}
         /\ b1 # b2 /\ b1 # b3 /\ b2 # b3
         /\ Blocks(g) \subseteq Blocks(h)
    <2>1. /\ First(g, 3) = g.current \/ First(g, 3) = Size(g) + 3 + 1
          /\ Size(g) + 3 <= Total(g, 3) /\ First(g, 3) \in 1 .. Total(g, 3) /\ Total(g, 3) \in Nat
      BY <1>1, FirstType
    <2>2. PICK m \in Nat : m = Total(g, 3)
      BY <2>1
    <2>3. n + 3 <= m /\ c \in 1 .. m /\ (c = g.current \/ c = n + 4) /\ g.current \in 1 .. n
      BY <1>1, <1>2, <2>1, <2>2 DEF Blocks
    <2>4. Blocks(h) = 1 .. m /\ Blocks(g) = 1 .. n
      BY <1>2, <1>4, <2>2 DEF Blocks
    <2>5. /\ c \in 1 .. m /\ c \notin {b1, b2, b3} /\ (c \in 1 .. n => c = g.current)
          /\ {b1, b2, b3} \subseteq 1 .. m /\ {b1, b2, b3} \cap 1 .. n = {}
          /\ b1 # b2 /\ b1 # b3 /\ b2 # b3
          /\ 1 .. n \subseteq 1 .. m
      <3>1. PICK cur \in Nat : cur = g.current
        BY <2>3
      <3> QED
        <4>1. /\ b1 = n + 1 /\ b2 = n + 2 /\ b3 = n + 3 /\ n + 3 <= m
              /\ c \in 1 .. m /\ (c = cur \/ c = n + 4) /\ cur \in 1 .. n
          BY <1>2, <2>3, <3>1
        <4>2. c \notin {b1, b2, b3} /\ (c \in 1 .. n => c = cur)
          BY <4>1
        <4>3. {b1, b2, b3} \subseteq 1 .. m /\ {b1, b2, b3} \cap 1 .. n = {} /\ 1 .. n \subseteq 1 .. m
          BY <4>1
        <4>4. b1 # b2 /\ b1 # b3 /\ b2 # b3
          BY <4>1
        <4> QED
          BY <3>1, <4>1, <4>2, <4>3, <4>4
    <2> QED
      BY <2>3, <2>4, <2>5
  <1>11. E = {<<c, b1>>}
             \cup (IF cond # "true" THEN {<<b1, b3>>} ELSE {})
             \cup (IF cond # "false" THEN {<<b1, b2>>} ELSE {})
    BY <1>2, <1>3 DEF WhileEdges
  <1>12. R = {<<c, l>>, <<b1, l>>, <<b2, l2>>}
    BY <1>2, <1>3 DEF WhileShows
  <1>13. \A e \in E : /\ e \in Blocks(h) \X (Blocks(h) \ Blocks(g))
                      /\ e[1] = g.current \/ e[1] \notin Blocks(g)
                      /\ e[2] # c /\ e[1] # b3 /\ e[1] # b2
    BY <1>10, <1>11
  <1>14. Own(f) = {b1, b3} /\ Targets(f) = {b1, b3}
    BY <1>6 DEF Own, Targets, Loops
  <1>15. /\ ~HasAfter(h, b3) /\ ~HasAfter(h, b2) /\ HasBefore(h, b1)
         /\ cond # "false" => HasBefore(h, b2)
         /\ cond # "true" => HasBefore(h, b3)
         /\ cond = "true" => ~HasBefore(h, b3)
    <2>1. \A b \in {b1, b2, b3} : /\ HasAfter(h, b) <=> \E e \in E : e[1] = b
                                  /\ HasBefore(h, b) <=> \E e \in E : e[2] = b
      BY <1>1, <1>4, <1>10, EdgesOfNew
    <2>2. /\ <<c, b1>> \in E /\ (cond # "false" => <<b1, b2>> \in E)
          /\ (cond # "true" => <<b1, b3>> \in E)
      BY <1>11
    <2>3. cond = "true" => \A e \in E : e[2] # b3
      BY <1>10, <1>11
    <2> QED
      BY <1>13, <2>1, <2>2, <2>3
  <1>16. Starts(h) = Starts(g) /\ Ends(h) = Ends(g)
    BY <1>1, <1>4, MadeGrows
  <1>17. Within(f, Function(g), h, o2)
    <2>1. Own(f) \subseteq Blocks(h) \ ({h.current} \cup Ends(h))
      BY <1>1, <1>5, <1>10, <1>14, <1>16
    <2>2. Targets(f) \cap Starts(h) = {}
      BY <1>1, <1>10, <1>14, <1>16
    <2>3. h.block[b3].function = Function(g)
      BY <1>4, <1>10 DEF Made
    <2>4. f.kind # "then" /\ f.kind # "function" /\ f.test # f.after
      BY <1>6, <1>10
    <2> QED
      BY <1>6, <1>15, <2>1, <2>2, <2>3, <2>4 DEF Within
  <1>18. /\ l = TRUE => Entered(h, c) \/ Excused(h.block[c].function, o2)
         /\ Straight(o2) /\ fr = TRUE => Begun(nest2, h, c)
    <2>1. <<c, l>> \in R
      BY <1>12
    <2>2. \A e \in E : e[2] \notin Blocks(g) /\ e[2] # c
      BY <1>13
    <2>3. PICK k \in Nat : k = 3
      OBVIOUS
    <2>4. c \notin Targets(f) /\ c = First(g, k) /\ c \in Blocks(h)
      BY <1>2, <1>10, <1>14, <2>3
    <2>6. Opening(g, h, E, R, f, c, l)
      BY <2>1, <2>2, <2>4 DEF Opening
    <2>5. Made(g, h, E, R) /\ Agree(nest, ctx, nest2, ctx2, Len(nest))
      BY <1>4, <1>7
    <2> QED
      BY <2>4, <2>5, <2>6, FirstOpened
  <1>19. ShowsRight(h, R, o2)
    <2> SUFFICES ASSUME NEW s \in R, s[2] = TRUE
                 PROVE  Entered(h, s[1]) \/ Excused(h.block[s[1]].function, o2)
      BY DEF ShowsRight
    <2>1. s = <<c, l>> \/ s = <<b1, l>> \/ s = <<b2, l2>>
      BY <1>12
    <2>2. CASE s = <<c, l>>
      <3>1. s[1] = c /\ s[2] = l
        BY <2>2
      <3> QED
        BY <1>18, <3>1
    <2>3. CASE s = <<b1, l>>
      BY <1>15, <2>3 DEF Entered
    <2>4. CASE s = <<b2, l2>>
      BY <1>3, <1>15, <2>4 DEF Entered
    <2> QED
      BY <2>1, <2>2, <2>3, <2>4
  <1>20. Leads(h, h.current, l2, o2)
    BY <1>3, <1>5, <1>15 DEF Leads, Entered
  <1>21. PICK hs2 : hs2 = Heads(hs \cup NeverWhile(g, cond), fr, First(g, 3))
    OBVIOUS
  <1>22. HeadsBegun(nest2, h, hs, hs2, o2)
    <2> SUFFICES ASSUME Straight(o2), NEW b \in hs2, b \notin hs
                 PROVE  Begun(nest2, h, b)
      BY DEF HeadsBegun
    <2>1. (cond = "false" /\ b = b2) \/ (fr = TRUE /\ b = c)
      BY <1>2, <1>21 DEF Heads, NeverWhile
    <2>2. CASE fr = TRUE /\ b = c
      BY <1>18, <2>2
    <2>3. CASE cond = "false" /\ b = b2
      <3>2. \A e \in E : e[2] # b
        BY <1>10, <1>11, <2>3
      <3>3. <<b, l2>> \in R
        BY <1>12, <2>3
      <3>4. h.block[b].shown # "nothing"
        <4>1. \A s \in R : h.block[s[1]].shown # "nothing"
          BY <1>4 DEF Made
        <4> QED
          BY <3>3, <4>1
      <3>5. b \in Blocks(h) /\ b \notin Blocks(g) /\ b \notin Targets(f)
        BY <1>10, <1>14, <2>3
      <3> QED
        BY <1>4, <3>2, <3>4, <3>5, NewBegun
    <2> QED
      BY <2>1, <2>2, <2>3
  <1>24. Opens(g, h, E, f)
    BY <1>5, <1>6, <1>10, <1>13, <1>14 DEF Opens, Loops
  <1>25. PICK fn, fr2 : fn = Function(g) /\ fr2 = FALSE
    OBVIOUS
  <1>26. Within(f, fn, h, o2) /\ Made(g, h, E, R)
    BY <1>4, <1>17, <1>25
  <1>27. Walk(nest2, ctx2, h, o2, l2, fr2, hs2)
    BY <1>7, <1>19, <1>20, <1>22, <1>24, <1>25, <1>26, SeenOpened
  <1>28. Walks(nest2, h, o2, l2, fr2, hs2)
    BY <1>27 DEF Walks
  <1> QED
    BY <1>3, <1>21, <1>25, <1>28 DEF Taken

ForInFrame(n, f) ==
    /\ f.kind = "for in" /\ f.cond = "any" /\ f.left = {}
    /\ f.test = n + 2 /\ f.after = n + 4

LEMMA ForInStep ==
    ASSUME NEW nest, NEW ctx, NEW g, NEW o, NEW l \in BOOLEAN, NEW fr \in BOOLEAN, NEW hs,
           Walk(nest, ctx, g, o, l, fr, hs), Seen(nest, Len(nest)), NEW o2, o \subseteq o2,
           NEW f, NEW nest2, Deeper(nest, f, nest2), ForInFrame(Size(AddInstruction(g, l)), f)
    PROVE  Walks(nest2, ForInBlocks(g, l), o2, l, FALSE, Heads(hs, fr, First(g, 0)))
  <1>1. Formed(g) /\ Size(g) \in Nat /\ Len(nest) \in Nat /\ Nesting(nest, ctx) /\ Matches(g, ctx[Len(nest)])
        /\ Starts(g) \subseteq Blocks(g) /\ Ends(g) \subseteq Blocks(g) /\ g.current \in Blocks(g)
    BY WalkFacts, CfgFields DEF Formed
  <1>2. PICK n \in Nat, b1 \in Nat, b2 \in Nat, b3 \in Nat, b4 \in Nat, c \in Nat :
            /\ n = Total(g, 0) /\ b1 = n + 1 /\ b2 = n + 2 /\ b3 = n + 3 /\ b4 = n + 4
            /\ c = First(g, 0)
    <2>1. Total(g, 0) \in Nat /\ First(g, 0) \in Nat
      BY <1>1, FirstType
    <2>2. PICK n \in Nat : n = Total(g, 0)
      BY <2>1
    <2>3. n + 1 \in Nat /\ n + 2 \in Nat /\ n + 3 \in Nat /\ n + 4 \in Nat
      OBVIOUS
    <2> QED
      BY <2>1, <2>2, <2>3, Zenon
  <1>3. PICK h, E, R : /\ h = ForInBlocks(g, l) /\ E = ForInEdges(First(g, 0), Total(g, 0))
                       /\ R = ForInShows(First(g, 0), Total(g, 0), l)
    OBVIOUS
  <1>4. /\ Made(g, h, E, R) /\ h.current = Total(g, 0) + 3 /\ Size(h) = Total(g, 0) + 4
        /\ h.breaks = Pushed(Total(g, 0) + 4, g.breaks) /\ h.continues = Pushed(Total(g, 0) + 2, g.continues)
        /\ Size(AddInstruction(g, l)) = Total(g, 0)
    BY <1>1, <1>3, ForInMade
  <1>5. h.current = b3
    BY <1>2, <1>4
  <1>6. f.after = b4 /\ f.test = b2 /\ f.kind = "for in" /\ f.cond = "any" /\ f.left = {}
    BY <1>2, <1>4 DEF ForInFrame
  <1>7. PICK ctx2 : /\ Agree(nest, ctx, nest2, ctx2, Len(nest)) /\ Nesting(nest2, ctx2)
                    /\ Matches(h, ctx2[Len(nest2)])
    <2>1. Nesting(nest, ctx) /\ Matches(g, ctx[Len(nest)])
      BY <1>1
    <2>2. f.kind \in Loops /\ f.after \in Nat /\ f.test \in Nat
      BY <1>6 DEF Loops
    <2>3. LoopPushed(g, f, h)
      BY <1>2, <1>4, <1>6 DEF LoopPushed, Made
    <2>4. Seen(nest, Len(nest)) => \E ctx2 : /\ Agree(nest, ctx, nest2, ctx2, Len(nest))
                                             /\ Nesting(nest2, ctx2) /\ Matches(h, ctx2[Len(nest2)])
      BY <2>1, <2>2, <2>3, LoopContext
    <2> QED
      BY <2>4
  <1>10. /\ c \in Blocks(h) /\ c \notin {b1, b2, b3, b4}
         /\ c = g.current \/ c \notin Blocks(g)
         /\ {b1, b2, b3, b4} \subseteq Blocks(h) /\ {b1, b2, b3, b4} \cap Blocks(g) = {}
         /\ b1 # b2 /\ b1 # b3 /\ b1 # b4 /\ b2 # b3 /\ b2 # b4 /\ b3 # b4
         /\ Blocks(g) \subseteq Blocks(h)
    <2>1. /\ First(g, 0) = g.current \/ First(g, 0) = Size(g) + 0 + 1
          /\ Size(g) + 0 <= Total(g, 0) /\ First(g, 0) \in 1 .. Total(g, 0)
      BY <1>1, FirstType
    <2>9. Size(g) \in Nat /\ g.current \in Nat
      BY <1>1 DEF Blocks
    <2>2. PICK m \in Nat, cur \in Nat : m = Size(g) /\ cur = g.current
      BY <2>9
    <2>3. m <= n /\ c \in 1 .. n /\ (c = cur \/ c = m + 1) /\ cur \in 1 .. m
      BY <1>1, <1>2, <2>1, <2>2 DEF Blocks
    <2>4. Blocks(h) = 1 .. b4 /\ Blocks(g) = 1 .. m
      BY <1>2, <1>4, <2>2 DEF Blocks
    <2>5. b1 = n + 1 /\ b2 = n + 2 /\ b3 = n + 3 /\ b4 = n + 4
      BY <1>2
    <2>6. c \in 1 .. b4 /\ c \notin {b1, b2, b3, b4} /\ (c \in 1 .. m => c = cur)
      BY <2>3, <2>5
    <2>7. {b1, b2, b3, b4} \subseteq 1 .. b4 /\ {b1, b2, b3, b4} \cap 1 .. m = {} /\ 1 .. m \subseteq 1 .. b4
      BY <2>3, <2>5
    <2>8. b1 # b2 /\ b1 # b3 /\ b1 # b4 /\ b2 # b3 /\ b2 # b4 /\ b3 # b4
      BY <2>5
    <2> QED
      BY <2>2, <2>4, <2>6, <2>7, <2>8
  <1>11. E = {<<c, b1>>, <<b1, b2>>, <<b2, b3>>, <<b2, b4>>}
    BY <1>2, <1>3 DEF ForInEdges
  <1>12. R = {<<c, l>>, <<b1, l>>, <<b2, l>>, <<b3, l>>}
    BY <1>2, <1>3 DEF ForInShows
  <1>13. \A e \in E : /\ e \in Blocks(h) \X (Blocks(h) \ Blocks(g))
                      /\ e[1] = g.current \/ e[1] \notin Blocks(g)
                      /\ e[2] # c /\ e[1] # b4 /\ e[1] # b3
    BY <1>10, <1>11
  <1>14. Own(f) = {b2, b4} /\ Targets(f) = {b2, b4}
    BY <1>6 DEF Own, Targets, Loops
  <1>15. /\ ~HasAfter(h, b4) /\ ~HasAfter(h, b3)
         /\ HasBefore(h, b1) /\ HasBefore(h, b2) /\ HasBefore(h, b3) /\ HasBefore(h, b4)
    <2>1. \A b \in {b1, b2, b3, b4} : /\ HasAfter(h, b) <=> \E e \in E : e[1] = b
                                      /\ HasBefore(h, b) <=> \E e \in E : e[2] = b
      BY <1>1, <1>4, <1>10, EdgesOfNew
    <2>2. <<c, b1>> \in E /\ <<b1, b2>> \in E /\ <<b2, b3>> \in E /\ <<b2, b4>> \in E
      BY <1>11
    <2> QED
      BY <1>13, <2>1, <2>2
  <1>16. Starts(h) = Starts(g) /\ Ends(h) = Ends(g)
    BY <1>1, <1>4, MadeGrows
  <1>17. Within(f, Function(g), h, o2)
    <2>1. Own(f) \subseteq Blocks(h) \ ({h.current} \cup Ends(h))
      BY <1>1, <1>5, <1>10, <1>14, <1>16
    <2>2. Targets(f) \cap Starts(h) = {}
      BY <1>1, <1>10, <1>14, <1>16
    <2>3. h.block[b4].function = Function(g)
      BY <1>4, <1>10 DEF Made
    <2>4. f.kind # "then" /\ f.kind # "function" /\ f.test # f.after
      BY <1>6, <1>10
    <2> QED
      BY <1>6, <1>15, <2>1, <2>2, <2>3, <2>4 DEF Within
  <1>18. /\ l = TRUE => Entered(h, c) \/ Excused(h.block[c].function, o2)
         /\ Straight(o2) /\ fr = TRUE => Begun(nest2, h, c)
    <2>1. <<c, l>> \in R
      BY <1>12
    <2>2. \A e \in E : e[2] \notin Blocks(g) /\ e[2] # c
      BY <1>13
    <2>3. PICK k \in Nat : k = 0
      OBVIOUS
    <2>4. c \notin Targets(f) /\ c = First(g, k) /\ c \in Blocks(h)
      BY <1>2, <1>10, <1>14, <2>3
    <2>6. Opening(g, h, E, R, f, c, l)
      BY <2>1, <2>2, <2>4 DEF Opening
    <2>5. Made(g, h, E, R) /\ Agree(nest, ctx, nest2, ctx2, Len(nest))
      BY <1>4, <1>7
    <2> QED
      BY <2>4, <2>5, <2>6, FirstOpened
  <1>19. ShowsRight(h, R, o2)
    <2> SUFFICES ASSUME NEW s \in R, s[2] = TRUE
                 PROVE  Entered(h, s[1]) \/ Excused(h.block[s[1]].function, o2)
      BY DEF ShowsRight
    <2>1. s = <<c, l>> \/ s[1] \in {b1, b2, b3}
      BY <1>12
    <2>2. CASE s = <<c, l>>
      <3>1. s[1] = c /\ s[2] = l
        BY <2>2
      <3> QED
        BY <1>18, <3>1
    <2>3. CASE s[1] \in {b1, b2, b3}
      BY <1>15, <2>3 DEF Entered
    <2> QED
      BY <2>1, <2>2, <2>3
  <1>20. Leads(h, h.current, l, o2)
    BY <1>5, <1>15 DEF Leads, Entered
  <1>21. PICK hs2 : hs2 = Heads(hs, fr, First(g, 0))
    OBVIOUS
  <1>22. HeadsBegun(nest2, h, hs, hs2, o2)
    <2> SUFFICES ASSUME Straight(o2), NEW b \in hs2, b \notin hs
                 PROVE  Begun(nest2, h, b)
      BY DEF HeadsBegun
    <2>1. fr = TRUE /\ b = c
      BY <1>2, <1>21 DEF Heads
    <2> QED
      BY <1>18, <2>1
  <1>24. Opens(g, h, E, f)
    BY <1>5, <1>6, <1>10, <1>13, <1>14 DEF Opens, Loops
  <1>25. PICK fn, fr2 : fn = Function(g) /\ fr2 = FALSE
    OBVIOUS
  <1>26. Within(f, fn, h, o2) /\ Made(g, h, E, R)
    BY <1>4, <1>17, <1>25
  <1>27. Walk(nest2, ctx2, h, o2, l, fr2, hs2)
    BY <1>7, <1>19, <1>20, <1>22, <1>24, <1>25, <1>26, SeenOpened
  <1>28. Walks(nest2, h, o2, l, fr2, hs2)
    BY <1>27 DEF Walks
  <1> QED
    BY <1>3, <1>21, <1>25, <1>28

\* A function begins.
Began(g, h) ==
    /\ h \in Cfgs /\ Size(h) = Size(g) + 2 /\ h.current = Size(g) + 1
    /\ h.edges = g.edges /\ h.breaks = g.breaks /\ h.continues = g.continues
    /\ h.stack = Pushed(Len(g.functions) + 1, g.stack)
    /\ Len(h.functions) = Len(g.functions) + 1
    /\ \A f \in Functions(g) : h.functions[f] = g.functions[f]
    /\ h.functions[Len(g.functions) + 1] = <<Size(g) + 1, Size(g) + 2>>
    /\ \A b \in Blocks(g) : h.block[b] = g.block[b]
    /\ \A b \in Size(g) + 1 .. Size(g) + 2 :
          h.block[b].function = Len(g.functions) + 1 /\ h.block[b].shown = "nothing"

LEMMA FunctionBegun ==
    ASSUME NEW g \in Cfgs
    PROVE  Began(g, BeginFunction(g))
  <1>1. /\ g.functions \in Seq(Nat \X Nat) /\ g.stack \in Seq(Nat) /\ Size(g) \in Nat
        /\ g.breaks \in Seq(Nat) /\ g.continues \in Seq(Nat) /\ g.edges \in SUBSET (Nat \X Nat)
        /\ g.block \in Seq(Block)
    BY CfgFields
  <1>2. PICK f \in Nat : f = Len(g.functions) + 1
    BY <1>1
  <1>3. PICK s : s = Pushed(f, g.stack)
    OBVIOUS
  <1>4. s \in Seq(Nat) /\ s # <<>> /\ Head(s) = f
    BY <1>1, <1>3, PushedProperties
  <1>5. PICK e : e = [g EXCEPT !.stack = s]
    OBVIOUS
  <1>6. /\ e \in Cfgs /\ e.stack = s /\ e.block = g.block /\ e.functions = g.functions
        /\ e.edges = g.edges /\ e.breaks = g.breaks /\ e.continues = g.continues
    BY <1>4, <1>5 DEF Cfgs
  <1>7. Size(e) = Size(g) /\ Blocks(e) = Blocks(g) /\ Function(e) = f
    BY <1>4, <1>6 DEF Size, Blocks, Function
  <1>8. PICK k : k = AddBlocks(e, 2)
    OBVIOUS
  <1>9. /\ k \in Cfgs /\ Size(k) = Size(g) + 2
        /\ k = [e EXCEPT !.block = k.block]
        /\ \A b \in Blocks(g) : k.block[b] = g.block[b]
        /\ \A b \in Size(g) + 1 .. Size(g) + 2 : k.block[b] = [function |-> f, shown |-> "nothing"]
    <2>1. e.stack # <<>> /\ 2 \in Nat
      BY <1>4, <1>6
    <2> QED
      BY <1>6, <1>7, <1>8, <2>1, BlocksAdded
  <1>10. /\ k.functions = g.functions /\ k.stack = s /\ k.edges = g.edges
         /\ k.breaks = g.breaks /\ k.continues = g.continues
    BY <1>6, <1>9 DEF Cfgs
  <1>11. PICK fs : fs = Append(g.functions, <<Size(g) + 1, Size(g) + 2>>)
    OBVIOUS
  <1>12. /\ fs \in Seq(Nat \X Nat) /\ Len(fs) = f
         /\ \A i \in Functions(g) : fs[i] = g.functions[i]
         /\ fs[f] = <<Size(g) + 1, Size(g) + 2>>
    <2>1. <<Size(g) + 1, Size(g) + 2>> \in Nat \X Nat
      BY <1>1
    <2> QED
      BY <1>1, <1>2, <1>11, <2>1, AppendProperties DEF Functions
  <1>13. PICK h : h = [k EXCEPT !.functions = fs, !.current = Size(g) + 1]
    OBVIOUS
  <1>14. BeginFunction(g) = h
    BY <1>2, <1>3, <1>5, <1>8, <1>10, <1>11, <1>13 DEF BeginFunction, Pushed
  <1>15. Size(g) + 1 \in Nat
    BY <1>1
  <1>16. /\ h \in Cfgs /\ h.block = k.block /\ h.edges = g.edges /\ h.breaks = g.breaks
         /\ h.continues = g.continues /\ h.stack = s /\ h.functions = fs /\ h.current = Size(g) + 1
    BY <1>9, <1>10, <1>12, <1>13, <1>15 DEF Cfgs
  <1>17. Size(h) = Size(g) + 2
    BY <1>9, <1>16 DEF Size
  <1>18. \A b \in Size(g) + 1 .. Size(g) + 2 : h.block[b].function = f /\ h.block[b].shown = "nothing"
    BY <1>9, <1>16
  <1>19. Began(g, h)
    BY <1>2, <1>3, <1>9, <1>12, <1>16, <1>17, <1>18 DEF Began
  <1> QED
    BY <1>14, <1>19

FunctionFrame(g, f) == f.kind = "function" /\ f.prev = g.current

LEMMA BeganGrows ==
    ASSUME NEW g, Formed(g), NEW h, Began(g, h)
    PROVE  /\ Formed(h) /\ Grows(g, h) /\ h.current \notin Blocks(g)
           /\ h.current = Start(h, h.block[h.current].function)
           /\ Ends(h) \subseteq Ends(g) \cup {h.current + 1} /\ h.current + 1 \notin Blocks(g)
           /\ \A b \in Blocks(h) : b \in Blocks(g) \/ h.block[b].shown = "nothing"
  <1>1. /\ g \in Cfgs /\ g.edges \subseteq Blocks(g) \X Blocks(g)
        /\ Starts(g) \subseteq Blocks(g) /\ Ends(g) \subseteq Blocks(g)
        /\ \A b \in Blocks(g) : g.block[b].function \in Functions(g)
    BY DEF Formed
  <1>2. PICK n \in Nat, m \in Nat : n = Size(g) /\ m = Len(g.functions)
    <2>1. Size(g) \in Nat /\ g.functions \in Seq(Nat \X Nat)
      BY <1>1, CfgFields
    <2>2. Len(g.functions) \in Nat
      BY <2>1
    <2> QED
      BY <2>1, <2>2
  <1>3. PICK b1 \in Nat, b2 \in Nat, f \in Nat : b1 = n + 1 /\ b2 = n + 2 /\ f = m + 1
    BY <1>2
  <1>4. /\ h \in Cfgs /\ Size(h) = b2 /\ h.current = b1 /\ h.edges = g.edges
        /\ h.stack = Pushed(f, g.stack) /\ Len(h.functions) = f
        /\ \A i \in Functions(g) : h.functions[i] = g.functions[i]
        /\ h.functions[f] = <<b1, b2>>
        /\ \A b \in Blocks(g) : h.block[b] = g.block[b]
        /\ \A b \in b1 .. b2 : h.block[b].function = f /\ h.block[b].shown = "nothing"
    BY <1>2, <1>3 DEF Began
  <1>5. /\ Blocks(g) \subseteq Blocks(h) /\ b1 \in Blocks(h) /\ b2 \in Blocks(h)
        /\ b1 \notin Blocks(g) /\ b2 \notin Blocks(g) /\ b1 # b2 /\ b1 \in b1 .. b2 /\ b2 = b1 + 1
        /\ \A b \in Blocks(h) : b \in Blocks(g) \/ b \in b1 .. b2
    BY <1>2, <1>3, <1>4 DEF Blocks
  <1>6. /\ Functions(g) \subseteq Functions(h) /\ f \in Functions(h) /\ f \notin Functions(g)
        /\ \A i \in Functions(h) : i \in Functions(g) \/ i = f
    BY <1>2, <1>3, <1>4 DEF Functions
  <1>7. /\ \A i \in Functions(g) : Start(h, i) = Start(g, i) /\ End(h, i) = End(g, i)
        /\ Start(h, f) = b1 /\ End(h, f) = b2
    BY <1>4 DEF Start, End
  <1>8. Starts(h) \subseteq Starts(g) \cup {b1} /\ Ends(h) \subseteq Ends(g) \cup {b2}
    BY <1>6, <1>7 DEF Starts, Ends
  <1>9. Grows(g, h)
    BY <1>4, <1>5, <1>6, <1>7, <1>8 DEF Grows
  <1>10. h.stack # <<>> /\ Function(h) = f
    <2>1. g.stack \in Seq(Nat)
      BY <1>1, CfgFields
    <2>2. PICK s \in Seq(Nat) : s = g.stack
      BY <2>1
    <2>3. Pushed(f, s) # <<>> /\ Head(Pushed(f, s)) = f
      BY PushedProperties
    <2> QED
      BY <1>4, <2>2, <2>3 DEF Function
  <1>11. \A b \in Blocks(h) : h.block[b].function \in Functions(h)
    BY <1>1, <1>4, <1>5, <1>6
  <1>12. h.block[h.current].function = f
    BY <1>4, <1>5
  <1>13. Formed(h)
    <2>1. h.edges \subseteq Blocks(h) \X Blocks(h)
      BY <1>1, <1>4, <1>5
    <2>2. Starts(h) \subseteq Blocks(h) /\ Ends(h) \subseteq Blocks(h)
      BY <1>1, <1>5, <1>8
    <2> QED
      BY <1>4, <1>5, <1>10, <1>11, <1>12, <2>1, <2>2 DEF Formed
  <1> QED
    BY <1>4, <1>5, <1>7, <1>8, <1>9, <1>12, <1>13

LEMMA FunctionStep ==
    ASSUME NEW nest, NEW ctx, NEW g, NEW o, NEW l, NEW fr, NEW hs, Walk(nest, ctx, g, o, l, fr, hs),
           l = TRUE, Seen(nest, Len(nest)),
           NEW f, NEW nest2, Deeper(nest, f, nest2), FunctionFrame(g, f)
    PROVE  \E ctx2 : Walk(nest2, ctx2, BeginFunction(g), o, TRUE, FALSE, hs)
  <1>1. /\ Formed(g) /\ Len(nest) \in Nat /\ Nesting(nest, ctx) /\ Matches(g, ctx[Len(nest)])
        /\ g.current \notin Ends(g) /\ Sound(g, o)
    BY WalkFacts
  <1>2. g \in Cfgs /\ g.edges \subseteq Blocks(g) \X Blocks(g) /\ g.current \in Blocks(g)
        /\ g.block[g.current].function = Function(g)
    BY <1>1 DEF Formed
  <1>3. PICK h : h = BeginFunction(g)
    OBVIOUS
  <1>4. Began(g, h)
    BY <1>2, <1>3, FunctionBegun
  <1>5. /\ Formed(h) /\ Grows(g, h) /\ h.current \notin Blocks(g)
        /\ h.current = Start(h, h.block[h.current].function)
        /\ Ends(h) \subseteq Ends(g) \cup {h.current + 1} /\ h.current + 1 \notin Blocks(g)
        /\ \A b \in Blocks(h) : b \in Blocks(g) \/ h.block[b].shown = "nothing"
    BY <1>1, <1>4, BeganGrows
  <1>6. h.edges = g.edges /\ h.breaks = g.breaks /\ h.continues = g.continues
    BY <1>4 DEF Began
  <1>7. PICK c : c = ctx[Len(nest)]
    OBVIOUS
  <1>8. c \in Context /\ c.stack # <<>>
    <2>1. Len(nest) \in 0 .. Len(nest)
      BY <1>1
    <2> QED
      BY <1>1, <1>7, <2>1 DEF Nesting
  <1>9. h.stack \in Seq(Nat) /\ h.stack # <<>> /\ Tail(h.stack) = c.stack
    <2>1. PICK s \in Seq(Nat), x \in Nat : s = g.stack /\ x = Len(g.functions) + 1
      <3>1. g.stack \in Seq(Nat) /\ g.functions \in Seq(Nat \X Nat)
        BY <1>2, CfgFields
      <3>2. Len(g.functions) + 1 \in Nat
        BY <3>1
      <3> QED
        BY <3>1, <3>2
    <2>2. h.stack = Pushed(x, s)
      BY <1>4, <2>1 DEF Began
    <2>3. Pushed(x, s) \in Seq(Nat) /\ Pushed(x, s) # <<>> /\ Tail(Pushed(x, s)) = s
      BY PushedProperties
    <2> QED
      BY <1>1, <1>7, <2>1, <2>2, <2>3 DEF Matches
  <1>10. PICK d : d = [stack |-> h.stack, breaks |-> c.breaks, continues |-> c.continues]
    OBVIOUS
  <1>11. /\ d \in Context /\ d.stack # <<>>
         /\ d.stack = h.stack /\ d.breaks = c.breaks /\ d.continues = c.continues
    BY <1>8, <1>9, <1>10 DEF Context
  <1>12. EntersSeen(f, c, d)
    BY <1>9, <1>11 DEF EntersSeen, Enters, FunctionFrame, Loops
  <1>13. PICK ctx2 : /\ Agree(nest, ctx, nest2, ctx2, Len(nest)) /\ Nesting(nest2, ctx2)
                     /\ ctx2[Len(nest2)] = d
    <2>1. Nesting(nest, ctx)
      BY <1>1
    <2>2. Seen(nest, Len(nest)) => \E ctx2 : /\ Agree(nest, ctx, nest2, ctx2, Len(nest))
                                             /\ Nesting(nest2, ctx2) /\ ctx2[Len(nest2)] = d
      BY <1>7, <1>11, <1>12, <2>1, SeenContext
    <2> QED
      BY <2>2
  <1>14. Matches(h, ctx2[Len(nest2)])
    BY <1>1, <1>6, <1>7, <1>11, <1>13 DEF Matches
  <1>15. PICK m \in Nat : m = Len(nest)
    BY <1>1
  <1>16. Len(nest2) = m + 1 /\ nest2[m + 1] = f /\ Agree(nest, ctx, nest2, ctx2, m)
    BY <1>13, <1>15 DEF Deeper
  <1>17. \A p \in 1 .. m : Own(nest[p]) \subseteq Blocks(g) /\ g.current \notin Own(nest[p])
    <2> SUFFICES ASSUME NEW p \in 1 .. m
                 PROVE  Own(nest[p]) \subseteq Blocks(g) /\ g.current \notin Own(nest[p])
      OBVIOUS
    <2>1. p \in 1 .. Len(nest) /\ p - 1 \in 0 .. Len(nest)
      BY <1>15
    <2> QED
      BY <1>1, <2>1, SeenOuter, OwnedApart
  <1>18. Spares(nest, m, g, h, o)
    BY <1>5, <1>6, <1>17 DEF Spares
  <1>19. Own(f) = {g.current} /\ Targets(f) = {}
    BY DEF FunctionFrame, Own, Targets, Loops
  <1>20. Leads(h, g.current, TRUE, o)
    <2>1. Leads(g, g.current, TRUE, o)
      BY ReachLeads
    <2>2. HasAfter(h, g.current) => HasAfter(g, g.current)
      BY <1>6 DEF HasAfter
    <2> QED
      BY <1>1, <1>2, <1>5, <2>1, <2>2, LeadsKept
  <1>21. Within(f, Function(g), h, o)
    <2>1. Own(f) \subseteq Blocks(h) \ ({h.current} \cup Ends(h))
      BY <1>1, <1>2, <1>5, <1>19 DEF Grows
    <2>2. h.block[g.current].function = Function(g)
      BY <1>2, <1>5 DEF Grows
    <2>3. f.kind = "function" /\ f.kind # "then" /\ f.kind \notin Loops /\ f.prev = g.current
      BY DEF FunctionFrame, Loops
    <2> QED
      BY <1>19, <1>20, <2>1, <2>2, <2>3 DEF Within
  <1>22. Len(nest2) = m + 1 /\ Seen(nest, m) =>
             /\ Within(nest2[m + 1], Head(ctx[m].stack), h, o)
             /\ \A p \in 1 .. m : Own(nest[p]) \cap Own(nest2[m + 1]) = {}
    <2>1. Head(ctx[m].stack) = Function(g)
      BY <1>1, <1>15 DEF Matches, Function
    <2> QED
      BY <1>16, <1>17, <1>19, <1>21, <2>1
  <1>23. h.current \notin Ends(h)
    <2>1. Ends(g) \subseteq Blocks(g) /\ h.current \in Nat
      BY <1>1, <1>5, CfgFields DEF Formed
    <2>2. h.current # h.current + 1
      BY <2>1
    <2> QED
      BY <1>5, <2>1, <2>2
  <1>24. Sound(h, o)
    <2>1. \A b \in Blocks(h) : h.block[b].shown = "reachable" =>
               b \in Blocks(g) /\ g.block[b].shown = "reachable"
      <3>1. \A b \in Blocks(g) : h.block[b] = g.block[b]
        BY <1>4 DEF Began
      <3> QED
        BY <1>5, <3>1
    <2>2. o \subseteq o
      OBVIOUS
    <2> QED
      BY <1>1, <1>5, <2>1, <2>2, SoundKept
  <1>25. PICK l2, fr2 : l2 = TRUE /\ fr2 = FALSE
    OBVIOUS
  <1>26. Leads(h, h.current, l2 \/ ~Seen(nest2, Len(nest2)), o)
    <2>1. ~HasAfter(h, h.current)
      BY <1>2, <1>5, <1>6 DEF HasAfter
    <2> QED
      BY <1>5, <2>1 DEF Leads, Entered
  <1>27. Straight(o) => Begins(nest2, h, hs) /\ (fr2 /\ Seen(nest2, Len(nest2)) => Afresh(h))
    <2> SUFFICES ASSUME Straight(o), NEW b \in hs
                 PROVE  Begun(nest2, h, b)
      BY <1>25 DEF Begins
    <2>1. Begun(nest, g, b)
      BY DEF Walk, Begins
    <2>2. \A e \in h.edges \ g.edges :
               \/ e[2] \notin Blocks(g) \/ e[2] \in Ends(g)
               \/ \E q \in 1 .. Len(nest) : Seen(nest, q - 1) /\ e[2] \in Targets(nest[q])
      BY <1>6
    <2>3. Targets(nest2[m + 1]) \cap Blocks(g) = {}
      BY <1>16, <1>19
    <2> QED
      BY <1>1, <1>5, <1>16, <2>1, <2>2, <2>3, BegunKept
  <1>28. o \subseteq o /\ (Len(nest2) = m \/ Len(nest2) = m + 1)
    BY <1>16
  <1>29. Walk(nest2, ctx2, h, o, l2, fr2, hs)
    BY <1>5, <1>13, <1>14, <1>16, <1>18, <1>22, <1>23, <1>24, <1>26, <1>27, <1>28, Onward
  <1> QED
    BY <1>3, <1>25, <1>29

\* The innermost frame, seen.
LEMMA LastFrame ==
    ASSUME NEW nest, NEW ctx, NEW g, NEW o, NEW l, NEW fr, NEW hs, Walk(nest, ctx, g, o, l, fr, hs),
           Seen(nest, Len(nest)), NEW f, NEW nest2 \in Seq(Frame), Deeper(nest2, f, nest),
           NEW c, c = ctx[Len(nest2)], NEW d, d = ctx[Len(nest)]
    PROVE  /\ f \in Frame /\ Own(f) \subseteq Blocks(g) /\ g.current \notin Own(f)
           /\ c \in Context /\ c.stack # <<>> /\ Matches(g, d) /\ EntersSeen(f, c, d)
           /\ \A fn : fn = Head(c.stack) => Within(f, fn, g, o)
  <1>1. Len(nest) \in Nat /\ Nesting(nest, ctx) /\ Matches(g, ctx[Len(nest)]) /\ Frames(nest, ctx, g, o)
    BY WalkFacts DEF Walk
  <1>2. PICK m \in Nat, q \in Nat : m = Len(nest2) /\ q = m + 1
    OBVIOUS
  <1>3. Len(nest) = q /\ nest[q] = f /\ q \in 1 .. q /\ m \in 0 .. q /\ q - 1 = m
    BY <1>2 DEF Deeper
  <1>4. nest \in Seq(Frame) /\ ctx \in [0 .. q -> Context]
    BY <1>1, <1>3 DEF Nesting
  <1>5. f \in Frame /\ c \in Context /\ c.stack # <<>>
    <2>1. \A p \in 0 .. Len(nest) : ctx[p].stack # <<>>
      BY <1>1 DEF Nesting
    <2> QED
      BY <1>2, <1>3, <1>4, <2>1
  <1>6. Seen(nest, m)
    BY <1>1, <1>3, SeenOuter
  <1>7. EntersSeen(f, c, d)
    <2>1. \A p \in 1 .. Len(nest) : Enters(nest[p], Seen(nest, p - 1), ctx[p - 1], ctx[p])
      BY <1>1 DEF Nesting
    <2>2. Enters(f, Seen(nest, m), ctx[m], ctx[q])
      BY <1>3, <2>1
    <2> QED
      BY <1>2, <1>3, <1>6, <2>2 DEF EntersSeen
  <1>8. Within(f, Head(c.stack), g, o)
    <2>1. \A p \in 1 .. Len(nest) : Seen(nest, p - 1) => Within(nest[p], Head(ctx[p - 1].stack), g, o)
      BY <1>1 DEF Frames
    <2> QED
      BY <1>2, <1>3, <1>6, <2>1
  <1>9. Own(f) \subseteq Blocks(g) /\ g.current \notin Own(f)
    BY <1>8 DEF Within
  <1> QED
    BY <1>1, <1>5, <1>7, <1>8, <1>9

LEMMA ThenStep ==
    ASSUME NEW nest, NEW ctx, NEW g, NEW o, NEW l, NEW fr, NEW hs, Walk(nest, ctx, g, o, l, fr, hs),
           Seen(nest, Len(nest)), NEW f, NEW nest2 \in Seq(Frame), Deeper(nest2, f, nest),
           f.kind = "then", NEW l2
    PROVE  \E ctx2 : Walk(nest2, ctx2, IfEnds(g, f.hasElse, f.after), o, l2, FALSE, hs)
  <1>1. PICK c, d, fn : c = ctx[Len(nest2)] /\ d = ctx[Len(nest)] /\ fn = Head(c.stack)
    OBVIOUS
  <1>2. /\ f \in Frame /\ Own(f) \subseteq Blocks(g) /\ g.current \notin Own(f)
        /\ Matches(g, d) /\ EntersSeen(f, c, d) /\ Within(f, fn, g, o)
    BY <1>1, LastFrame
  <1>3. Formed(g) /\ g \in Cfgs
    BY WalkFacts DEF Formed
  <1>4. PICK a, b, e : a = f.after /\ b = f.after - 1 /\ e = f.hasElse
    OBVIOUS
  <1>5. Own(f) = {b, a} /\ Targets(f) = {a} /\ a \in Nat /\ e \in BOOLEAN
    <2>1. a \in Nat /\ e \in BOOLEAN
      BY <1>2, <1>4 DEF Frame
    <2>2. Own(f) = {b, a} /\ Targets(f) = {a}
      BY <1>4 DEF Own, Targets, Loops
    <2> QED
      BY <2>1, <2>2
  <1>6. a \in Blocks(g) /\ b \in Blocks(g) /\ b # a /\ b \in Nat /\ g.current # a
    <2>1. a \in Blocks(g) /\ b \in Blocks(g) /\ g.current # a
      BY <1>2, <1>5
    <2>2. b \in Nat /\ b = a - 1
      BY <1>4, <2>1 DEF Blocks
    <2> QED
      BY <1>5, <2>1, <2>2
  <1>7. PICK h, E : h = IfEnds(g, e, a) /\ E = Closing(g, a) \cup (IF e THEN {<<b, a>>} ELSE {})
    OBVIOUS
  <1>8. /\ Made(g, h, E, {}) /\ h.current = a /\ Size(h) = Size(g)
        /\ h.breaks = g.breaks /\ h.continues = g.continues
    <2>1. b = a - 1
      BY <1>4
    <2> QED
      <3>1. a - 1 \in Nat
        BY <1>6, <2>1
      <3>2. /\ Made(g, IfEnds(g, e, a), Closing(g, a) \cup (IF e THEN {<<a - 1, a>>} ELSE {}), {})
            /\ IfEnds(g, e, a).current = a /\ Size(IfEnds(g, e, a)) = Size(g)
            /\ IfEnds(g, e, a).breaks = g.breaks /\ IfEnds(g, e, a).continues = g.continues
        BY <1>3, <1>5, <3>1, IfEndsMade, Zenon
      <3> QED
        BY <1>7, <2>1, <3>2, Zenon
  <1>9. h.block = g.block
    BY <1>3, <1>7 DEF IfEnds, Close, AddEdge, Cfgs
  <1>10. h.edges = g.edges \cup E /\ h.stack = g.stack
    BY <1>8 DEF Made
  <1>11. \A x \in E : (x[1] = g.current \/ x[1] = b) /\ x[2] = a
    BY <1>7 DEF Closing
  <1>12. e => <<b, a>> \in E
    BY <1>7
  <1>13. Grows(g, h) /\ Ends(h) = Ends(g) /\ Functions(h) = Functions(g) /\ Starts(h) = Starts(g)
    BY <1>3, <1>8, MadeGrows
  <1>14. Formed(h)
    <2>1. Blocks(h) = Blocks(g)
      BY <1>8 DEF Blocks
    <2>2. E \subseteq Blocks(h) \X Blocks(h)
      <3>1. g.current \in Blocks(g)
        BY <1>3 DEF Formed
      <3> QED
        BY <1>6, <1>7, <2>1, <3>1 DEF Closing
    <2>3. g.block[a].function = Function(g)
      <3>1. g.block[a].function = fn
        BY <1>2, <1>4, <1>5 DEF Within
      <3>2. fn = Function(g)
        BY <1>1, <1>2 DEF Matches, Function, EntersSeen, Enters
      <3> QED
        BY <3>1, <3>2
    <2> QED
      BY <1>3, <1>6, <1>8, <2>1, <2>2, <2>3, MadeFormed
  <1>15. ~HasAfter(h, a) /\ HasBefore(h, a)
    <2>1. ~HasAfter(g, a) /\ (e \/ HasBefore(g, a))
      BY <1>2, <1>4, <1>5 DEF Within
    <2>2. \A x \in h.edges : x[1] # a
      BY <1>6, <1>10, <1>11, <2>1 DEF HasAfter
    <2>3. CASE e = TRUE
      BY <1>10, <1>12, <2>2, <2>3 DEF HasAfter, HasBefore
    <2>4. CASE e # TRUE
      BY <1>5, <1>10, <2>1, <2>2, <2>4 DEF HasAfter, HasBefore
    <2> QED
      BY <2>3, <2>4
  <1>16. Leads(h, h.current, l2, o)
    BY <1>8, <1>15 DEF Leads, Entered
  <1>17. \A x \in h.edges \ g.edges : /\ x[1] = g.current \/ x[1] \in Own(f)
                                      /\ x[2] \in Ends(g) \/ x[2] \in Targets(f)
    BY <1>5, <1>10, <1>11
  <1>18. h.current \in Own(f)
    BY <1>5, <1>8
  <1>19. Matches(h, ctx[Len(nest2)])
    BY <1>1, <1>2, <1>8, <1>10 DEF Matches, EntersSeen, Enters, Loops
  <1>20. PICK fr2 : fr2 = FALSE
    OBVIOUS
  <1>21. Straight(o) => (fr2 => Afresh(h))
    BY <1>20
  <1>22. \E ctx2 : Walk(nest2, ctx2, h, o, l2, fr2, hs)
    BY <1>9, <1>13, <1>14, <1>16, <1>17, <1>18, <1>19, <1>21, SeenPop
  <1> QED
    BY <1>4, <1>7, <1>20, <1>22

LEMMA LoopStep ==
    ASSUME NEW nest, NEW ctx, NEW g, NEW o, NEW l, NEW fr, NEW hs, Walk(nest, ctx, g, o, l, fr, hs),
           Seen(nest, Len(nest)), NEW f, NEW nest2 \in Seq(Frame), Deeper(nest2, f, nest),
           f.kind \in Loops,
           NEW l2, l2 => f.cond # "true" \/ "live" \in f.left,
           NEW fr2, fr2 => f.cond = "true" /\ f.left = {}
    PROVE  \E ctx2 : Walk(nest2, ctx2, LoopEnds(g, f.test, f.after), o, l2, fr2, hs)
  <1>1. PICK c, d, fn : c = ctx[Len(nest2)] /\ d = ctx[Len(nest)] /\ fn = Head(c.stack)
    OBVIOUS
  <1>2. /\ f \in Frame /\ Own(f) \subseteq Blocks(g) /\ g.current \notin Own(f) /\ c \in Context
        /\ Matches(g, d) /\ EntersSeen(f, c, d) /\ Within(f, fn, g, o)
    BY <1>1, LastFrame
  <1>3. Formed(g) /\ g \in Cfgs
    BY WalkFacts DEF Formed
  <1>4. PICK a, b : a = f.after /\ b = f.test
    OBVIOUS
  <1>5. Own(f) = {b, a} /\ Targets(f) = {b, a} /\ a \in Nat /\ b \in Nat
    <2>1. a \in Nat /\ b \in Nat
      BY <1>2, <1>4 DEF Frame
    <2>2. CASE f.kind = "while"
      BY <1>4, <2>1, <2>2 DEF Own, Targets, Loops
    <2>3. CASE f.kind = "for in"
      BY <1>4, <2>1, <2>3 DEF Own, Targets, Loops
    <2> QED
      BY <2>2, <2>3 DEF Loops
  <1>6. a \in Blocks(g) /\ b \in Blocks(g) /\ b # a /\ g.current # a
    <2>1. b # a
      BY <1>2, <1>4 DEF Within
    <2> QED
      BY <1>2, <1>5, <2>1
  <1>7. /\ g.breaks # <<>> /\ Tail(g.breaks) = c.breaks
        /\ g.continues # <<>> /\ Tail(g.continues) = c.continues /\ g.stack = c.stack
    <2>1. /\ d.breaks = Pushed(a, c.breaks) /\ d.continues = Pushed(b, c.continues)
          /\ d.stack = c.stack
      <3>1. f.kind \in Loops /\ f.kind # "function"
        BY DEF Loops
      <3> QED
        BY <1>2, <1>4, <3>1 DEF EntersSeen, Enters
    <2>2. PICK bs \in Seq(Nat), cs \in Seq(Nat) : bs = c.breaks /\ cs = c.continues
      BY <1>2 DEF Context
    <2>3. /\ Pushed(a, bs) # <<>> /\ Tail(Pushed(a, bs)) = bs
          /\ Pushed(b, cs) # <<>> /\ Tail(Pushed(b, cs)) = cs
      BY <1>5, PushedProperties
    <2> QED
      BY <1>2, <2>1, <2>2, <2>3 DEF Matches
  <1>8. PICK h, E : h = LoopEnds(g, b, a) /\ E = Closing(g, b)
    OBVIOUS
  <1>9. /\ Made(g, h, E, {}) /\ h.current = a /\ Size(h) = Size(g)
        /\ h.breaks = Tail(g.breaks) /\ h.continues = Tail(g.continues)
    BY <1>3, <1>5, <1>7, <1>8, LoopEndsMade
  <1>10. h.block = g.block
    BY <1>3, <1>8 DEF LoopEnds, Close, AddEdge, Cfgs
  <1>11. h.edges = g.edges \cup E /\ h.stack = g.stack
    BY <1>9 DEF Made
  <1>12. \A x \in E : x[1] = g.current /\ x[2] = b
    BY <1>8 DEF Closing
  <1>13. Grows(g, h) /\ Ends(h) = Ends(g) /\ Functions(h) = Functions(g) /\ Starts(h) = Starts(g)
    BY <1>3, <1>9, MadeGrows
  <1>14. g.block[a].function = fn /\ ~HasAfter(g, a)
    BY <1>2, <1>4, <1>5 DEF Within
  <1>15. Formed(h)
    <2>1. Blocks(h) = Blocks(g)
      BY <1>9 DEF Blocks
    <2>2. E \subseteq Blocks(h) \X Blocks(h)
      <3>1. g.current \in Blocks(g)
        BY <1>3 DEF Formed
      <3> QED
        BY <1>6, <1>8, <2>1, <3>1 DEF Closing
    <2>3. g.block[a].function = Function(g)
      BY <1>1, <1>7, <1>14 DEF Function
    <2> QED
      BY <1>3, <1>6, <1>9, <2>1, <2>2, <2>3, MadeFormed
  <1>16. ~HasAfter(h, a)
    BY <1>6, <1>11, <1>12, <1>14 DEF HasAfter
  <1>17. Leads(h, h.current, l2, o)
    <2> SUFFICES ASSUME l2
                 PROVE  Excused(fn, o) \/ HasBefore(h, a)
      BY <1>9, <1>10, <1>14, <1>16 DEF Leads, Entered
    <2>1. Excused(fn, o) \/ HasBefore(g, a)
      <3>1. f.cond # "true" => HasBefore(g, a)
        BY <1>2, <1>4 DEF Within
      <3>2. "live" \in f.left => HasBefore(g, a) \/ Excused(fn, o)
        BY <1>2, <1>4 DEF Within
      <3> QED
        BY <3>1, <3>2
    <2>2. HasBefore(g, a) => HasBefore(h, a)
      BY <1>11 DEF HasBefore
    <2> QED
      BY <2>1, <2>2
  <1>18. Straight(o) => (fr2 => Afresh(h))
    <2> SUFFICES ASSUME Straight(o), fr2
                 PROVE  Afresh(h)
      OBVIOUS
    <2>1. ~HasBefore(g, a)
      BY <1>2, <1>4 DEF Within
    <2>2. ~HasBefore(h, a)
      BY <1>6, <1>11, <1>12, <2>1 DEF HasBefore
    <2>3. a \notin Starts(g)
      BY <1>2, <1>5 DEF Within
    <2> QED
      BY <1>9, <1>13, <2>2, <2>3 DEF Afresh
  <1>19. \A x \in h.edges \ g.edges : /\ x[1] = g.current \/ x[1] \in Own(f)
                                      /\ x[2] \in Ends(g) \/ x[2] \in Targets(f)
    BY <1>5, <1>11, <1>12
  <1>20. h.current \in Own(f)
    BY <1>5, <1>9
  <1>21. Matches(h, ctx[Len(nest2)])
    BY <1>1, <1>7, <1>9, <1>11 DEF Matches
  <1>22. \E ctx2 : Walk(nest2, ctx2, h, o, l2, fr2, hs)
    BY <1>10, <1>13, <1>15, <1>17, <1>18, <1>19, <1>20, <1>21, SeenPop
  <1> QED
    BY <1>4, <1>8, <1>22

LEMMA FunctionEndStep ==
    ASSUME NEW nest, NEW ctx, NEW g, NEW o, NEW l, NEW fr, NEW hs, Walk(nest, ctx, g, o, l, fr, hs),
           Seen(nest, Len(nest)), NEW f, NEW nest2 \in Seq(Frame), Deeper(nest2, f, nest),
           f.kind = "function", NEW l2
    PROVE  \E ctx2 : Walk(nest2, ctx2, EndFunction(g, f.prev), o, l2, FALSE, hs)
  <1>1. PICK c, d, fn : c = ctx[Len(nest2)] /\ d = ctx[Len(nest)] /\ fn = Head(c.stack)
    OBVIOUS
  <1>2. /\ f \in Frame /\ Own(f) \subseteq Blocks(g) /\ g.current \notin Own(f)
        /\ c \in Context /\ c.stack # <<>>
        /\ Matches(g, d) /\ EntersSeen(f, c, d) /\ Within(f, fn, g, o)
    BY <1>1, LastFrame
  <1>3. Formed(g) /\ g \in Cfgs /\ g.current \in Blocks(g) /\ g.edges \subseteq Blocks(g) \X Blocks(g)
    BY WalkFacts DEF Formed
  <1>4. PICK a, z : a = f.prev /\ z = End(g, Function(g))
    OBVIOUS
  <1>5. /\ Own(f) = {a} /\ a \in Blocks(g) /\ g.current # a
        /\ g.block[a].function = fn /\ Leads(g, a, TRUE, o)
    <2>1. Own(f) = {a}
      BY <1>4 DEF Own, Loops
    <2> QED
      BY <1>2, <1>4, <2>1 DEF Within
  <1>6. z \in Blocks(g) /\ z \in Ends(g)
    BY <1>3, <1>4, CurrentFunction
  <1>7. PICK s, E, k : /\ s = Tail(g.stack) /\ E = g.edges \cup {<<g.current, z>>}
                       /\ k = AddEdge(g, g.current, z)
    OBVIOUS
  <1>8. s = c.stack /\ g.breaks = c.breaks /\ g.continues = c.continues
    <2>1. f.kind \notin Loops /\ f.kind = "function"
      BY DEF Loops
    <2> QED
      BY <1>2, <1>7, <2>1 DEF EntersSeen, Enters, Matches
  <1>9. s \in Seq(Nat) /\ s # <<>> /\ Head(s) = fn
    BY <1>1, <1>2, <1>8 DEF Context
  <1>10. PICK h : h = [k EXCEPT !.stack = s, !.current = a]
    OBVIOUS
  <1>11. k \in Cfgs /\ k = [g EXCEPT !.edges = E]
    <2>1. g.current \in Nat /\ z \in Nat
      BY <1>3, <1>6 DEF Blocks
    <2>2. PICK x \in Nat, y \in Nat : x = g.current /\ y = z
      BY <2>1
    <2>3. AddEdge(g, x, y) \in Cfgs /\ AddEdge(g, x, y) = [g EXCEPT !.edges = g.edges \cup {<<x, y>>}]
      BY <1>3, EdgeAdded
    <2> QED
      BY <1>7, <2>2, <2>3
  <1>12. EndFunction(g, f.prev) = h
    <2>1. k.stack = g.stack
      BY <1>3, <1>11 DEF Cfgs
    <2> QED
      BY <1>4, <1>7, <1>10, <1>11, <2>1 DEF EndFunction, Cfgs
  <1>13. a \in Nat
    BY <1>5 DEF Blocks
  <1>14. /\ h \in Cfgs /\ h.block = g.block /\ h.edges = E /\ h.breaks = g.breaks
         /\ h.continues = g.continues /\ h.stack = s /\ h.functions = g.functions /\ h.current = a
    BY <1>3, <1>9, <1>10, <1>11, <1>13 DEF Cfgs
  <1>15. /\ Size(h) = Size(g) /\ Blocks(h) = Blocks(g) /\ Functions(h) = Functions(g)
         /\ Starts(h) = Starts(g) /\ Ends(h) = Ends(g)
         /\ \A i : Start(h, i) = Start(g, i) /\ End(h, i) = End(g, i)
    BY <1>14 DEF Size, Blocks, Functions, Starts, Ends, Start, End
  <1>16. Grows(g, h)
    BY <1>7, <1>14, <1>15 DEF Grows
  <1>17. Formed(h)
    <2>1. h.edges \subseteq Blocks(h) \X Blocks(h)
      BY <1>3, <1>6, <1>7, <1>14, <1>15
    <2> QED
      BY <1>3, <1>5, <1>9, <1>14, <1>15, <2>1 DEF Formed, Function
  <1>18. \A x \in h.edges \ g.edges : x[1] = g.current /\ x[2] \in Ends(g)
    BY <1>6, <1>7, <1>14
  <1>19. Leads(h, a, TRUE, o)
    <2>1. HasAfter(h, a) => HasAfter(g, a)
      BY <1>5, <1>18 DEF HasAfter
    <2>2. o \subseteq o
      OBVIOUS
    <2> QED
      BY <1>3, <1>5, <1>16, <2>1, <2>2, LeadsKept
  <1>20. Leads(h, h.current, l2, o)
    BY <1>14, <1>19 DEF Leads
  <1>21. \A x \in h.edges \ g.edges : /\ x[1] = g.current \/ x[1] \in Own(f)
                                      /\ x[2] \in Ends(g) \/ x[2] \in Targets(f)
    BY <1>18
  <1>22. h.current \in Own(f)
    BY <1>5, <1>14
  <1>23. Matches(h, ctx[Len(nest2)])
    BY <1>1, <1>8, <1>14 DEF Matches
  <1>24. PICK fr2 : fr2 = FALSE
    OBVIOUS
  <1>25. Straight(o) => (fr2 => Afresh(h))
    BY <1>24
  <1>26. \E ctx2 : Walk(nest2, ctx2, h, o, l2, fr2, hs)
    BY <1>14, <1>15, <1>16, <1>17, <1>20, <1>21, <1>22, <1>23, <1>25, SeenPop
  <1> QED
    BY <1>12, <1>24, <1>26

\* A frame that a jump has left, or might have.
LeftBy(f, x, f2) == f2 = [f EXCEPT !.left = f.left \cup {x}]

LEMMA LeftFields ==
    ASSUME NEW f \in Frame, NEW x \in {"live", "dead"}, NEW f2, LeftBy(f, x, f2)
    PROVE  /\ f2 \in Frame /\ f2.kind = f.kind /\ f2.after = f.after /\ f2.test = f.test
           /\ f2.prev = f.prev /\ f2.cond = f.cond /\ f2.hasElse = f.hasElse
           /\ f2.left = f.left \cup {x} /\ f2.live = f.live /\ f2.other = f.other
  BY DEF LeftBy, Frame

LEMMA LeftWithin ==
    ASSUME NEW f \in Frame, NEW x \in {"live", "dead"}, NEW f2, LeftBy(f, x, f2),
           NEW fn, NEW g, NEW o, Within(f, fn, g, o),
           x = "live" /\ f.kind \in Loops => HasBefore(g, f.after) \/ Excused(fn, o)
    PROVE  Within(f2, fn, g, o)
  <1>1. /\ f2.kind = f.kind /\ f2.after = f.after /\ f2.test = f.test
        /\ f2.prev = f.prev /\ f2.cond = f.cond /\ f2.hasElse = f.hasElse
        /\ f2.left = f.left \cup {x}
    BY LeftFields
  <1>2. Own(f2) = Own(f) /\ Targets(f2) = Targets(f)
    BY <1>1 DEF Own, Targets
  <1>3. f2.left # {}
    BY <1>1
  <1>4. "live" \in f2.left => "live" \in f.left \/ x = "live"
    BY <1>1
  <1>5. f.kind \in Loops =>
          /\ f.test # f.after
          /\ f.cond # "true" => HasBefore(g, f.after)
          /\ "live" \in f.left => HasBefore(g, f.after) \/ Excused(fn, o)
    BY DEF Within
  <1>6. f2.kind \in Loops =>
          /\ f2.test # f2.after
          /\ f2.cond # "true" => HasBefore(g, f2.after)
          /\ "live" \in f2.left => HasBefore(g, f2.after) \/ Excused(fn, o)
          /\ f2.cond = "true" /\ f2.left = {} /\ Straight(o) => ~HasBefore(g, f2.after)
    BY <1>1, <1>3, <1>4, <1>5
  <1>7. /\ Own(f) \subseteq Blocks(g) \ ({g.current} \cup Ends(g))
        /\ Targets(f) \cap Starts(g) = {}
        /\ Targets(f) # {} => ~HasAfter(g, f.after) /\ g.block[f.after].function = fn
        /\ f.kind = "then" /\ ~f.hasElse => HasBefore(g, f.after)
        /\ f.kind = "function" => g.block[f.prev].function = fn /\ Leads(g, f.prev, TRUE, o)
    BY DEF Within
  <1>8. /\ Own(f2) \subseteq Blocks(g) \ ({g.current} \cup Ends(g))
        /\ Targets(f2) \cap Starts(g) = {}
        /\ Targets(f2) # {} => ~HasAfter(g, f2.after) /\ g.block[f2.after].function = fn
        /\ f2.kind = "then" /\ ~f2.hasElse => HasBefore(g, f2.after)
        /\ f2.kind = "function" => g.block[f2.prev].function = fn /\ Leads(g, f2.prev, TRUE, o)
    BY <1>1, <1>2, <1>7
  <1> QED
    BY <1>6, <1>8 DEF Within

\* nest2 is nest, but that frame i has been left.
Left(nest, i, x, nest2) ==
    /\ nest2 \in Seq(Frame) /\ Len(nest2) = Len(nest)
    /\ \A p \in 1 .. Len(nest) : p # i => nest2[p] = nest[p]
    /\ LeftBy(nest[i], x, nest2[i])

LEMMA LeftRelabelled ==
    ASSUME NEW nest \in Seq(Frame), NEW i \in 1 .. Len(nest), NEW x \in {"live", "dead"},
           NEW nest2, Left(nest, i, x, nest2)
    PROVE  Relabelled(nest, i, nest2)
  <1>1. nest[i] \in Frame
    OBVIOUS
  <1>2. LeftBy(nest[i], x, nest2[i])
    BY DEF Left
  <1>3. /\ nest2[i].kind = nest[i].kind /\ nest2[i].after = nest[i].after
        /\ nest2[i].test = nest[i].test /\ nest2[i].prev = nest[i].prev
    BY <1>1, <1>2, LeftFields
  <1> QED
    BY <1>3 DEF Left, Relabelled

LEMMA WalkLeft ==
    ASSUME NEW nest, NEW ctx, NEW g, NEW o, NEW l, NEW fr, NEW hs, Walk(nest, ctx, g, o, l, fr, hs),
           NEW i \in 1 .. Len(nest), NEW x \in {"live", "dead"}, NEW nest2, Left(nest, i, x, nest2),
           x = "live" /\ nest[i].kind \in Loops =>
               HasBefore(g, nest[i].after) \/ Excused(Head(ctx[i - 1].stack), o)
    PROVE  Walk(nest2, ctx, g, o, l, fr, hs)
  <1>1. nest \in Seq(Frame)
    BY WalkFacts DEF Nesting
  <1>2. nest[i] \in Frame /\ LeftBy(nest[i], x, nest2[i])
    BY <1>1 DEF Left
  <1>3. Relabelled(nest, i, nest2)
    BY <1>1, LeftRelabelled
  <1>4. Seen(nest, i - 1) => Within(nest2[i], Head(ctx[i - 1].stack), g, o)
    <2> SUFFICES ASSUME Seen(nest, i - 1)
                 PROVE  Within(nest2[i], Head(ctx[i - 1].stack), g, o)
      OBVIOUS
    <2>1. Within(nest[i], Head(ctx[i - 1].stack), g, o)
      BY DEF Walk, Frames
    <2> QED
      BY <1>2, <2>1, LeftWithin
  <1> QED
    BY <1>3, <1>4, WalkRelabelled

\* Blocks of different frames that can be seen.
LEMMA SeenApart ==
    ASSUME NEW nest, NEW ctx, NEW g, NEW o, NEW l, NEW fr, NEW hs, Walk(nest, ctx, g, o, l, fr, hs),
           Seen(nest, Len(nest)), NEW p \in 1 .. Len(nest), NEW q \in 1 .. Len(nest), p # q
    PROVE  Own(nest[p]) \cap Own(nest[q]) = {}
  <1>1. Len(nest) \in Nat /\ Apart(nest)
    BY WalkFacts DEF Walk
  <1>2. \A r \in 1 .. Len(nest) : \A s \in 1 .. r - 1 : Own(nest[s]) \cap Own(nest[r]) = {}
    <2> SUFFICES ASSUME NEW r \in 1 .. Len(nest), NEW s \in 1 .. r - 1
                 PROVE  Own(nest[s]) \cap Own(nest[r]) = {}
      OBVIOUS
    <2>1. r - 1 \in 0 .. Len(nest)
      BY <1>1
    <2>2. Seen(nest, r - 1)
      BY <1>1, <2>1, SeenOuter
    <2> QED
      BY <1>1, <2>2 DEF Apart
  <1>3. CASE p < q
    <2>1. p \in 1 .. q - 1
      BY <1>1, <1>3
    <2> QED
      BY <1>2, <2>1
  <1>4. CASE q < p
    <2>1. q \in 1 .. p - 1
      BY <1>1, <1>4
    <2> QED
      BY <1>2, <2>1
  <1>5. p < q \/ q < p
    BY <1>1
  <1> QED
    BY <1>3, <1>4, <1>5

\* What break and continue lead to.
LEMMA LoopTargets ==
    ASSUME NEW nest, NEW ctx, NEW g, NEW o, NEW l, NEW fr, NEW hs, Walk(nest, ctx, g, o, l, fr, hs),
           Seen(nest, Len(nest)), NEW i \in 1 .. Len(nest), nest[i].kind \in Loops,
           \A r \in i + 1 .. Len(nest) : nest[r].kind \notin Loops
    PROVE  /\ Head(g.breaks) = nest[i].after /\ Head(g.continues) = nest[i].test
           /\ nest[i].after \in Targets(nest[i]) /\ nest[i].test \in Targets(nest[i])
  <1>1. Len(nest) \in Nat /\ Nesting(nest, ctx) /\ Matches(g, ctx[Len(nest)])
    BY WalkFacts
  <1>2. PICK m \in Nat : m = Len(nest)
    BY <1>1
  <1>3. m \in 0 .. m /\ i \in 0 .. m /\ i # 0
    BY <1>2
  <1>4. Top(nest, ctx, i, m)
    BY <1>1, <1>2, <1>3 DEF Nesting
  <1>5. Head(ctx[m].breaks) = nest[i].after /\ Head(ctx[m].continues) = nest[i].test
    BY <1>2, <1>3, <1>4 DEF Top
  <1>6. Targets(nest[i]) = {nest[i].test, nest[i].after}
    BY DEF Targets, Loops
  <1> QED
    BY <1>1, <1>2, <1>5, <1>6 DEF Matches

LEMMA ContinueStep ==
    ASSUME NEW nest, NEW ctx, NEW g, NEW o, NEW l \in BOOLEAN, NEW fr \in BOOLEAN, NEW hs,
           Walk(nest, ctx, g, o, l, fr, hs), Seen(nest, Len(nest)), NEW o2, o \subseteq o2, NEW fr2,
           NEW i \in 1 .. Len(nest), nest[i].kind \in Loops,
           \A r \in i + 1 .. Len(nest) : nest[r].kind \notin Loops
    PROVE  Walk(nest, ctx, JumpBlock(g, Head(g.continues), l), o2, FALSE, fr2, hs)
  <1>1. PICK to : to = Head(g.continues)
    OBVIOUS
  <1>2. to \in Targets(nest[i]) /\ to = nest[i].test
    BY <1>1, LoopTargets
  <1>3. \A p \in 1 .. Len(nest) : nest[p].kind \in Loops => to # nest[p].after
    <2> SUFFICES ASSUME NEW p \in 1 .. Len(nest), nest[p].kind \in Loops
                 PROVE  to # nest[p].after
      OBVIOUS
    <2>1. Len(nest) \in Nat
      BY WalkFacts
    <2>2. Seen(nest, p - 1)
      <3>1. p - 1 \in 0 .. Len(nest)
        BY <2>1
      <3> QED
        BY <2>1, <3>1, SeenOuter
    <2>3. nest[p].after \in Own(nest[p]) /\ nest[p].test # nest[p].after
      BY <2>2, OwnedApart
    <2>4. CASE p = i
      BY <1>2, <2>3, <2>4
    <2>5. CASE p # i
      <3>1. Own(nest[p]) \cap Own(nest[i]) = {}
        BY <2>5, SeenApart
      <3> QED
        BY <1>2, <2>3, <3>1, TargetsOwned
    <2> QED
      BY <2>4, <2>5
  <1> QED
    BY <1>1, <1>2, <1>3, JumpStep

LEMMA JumpEnters ==
    ASSUME NEW g, Formed(g), NEW to \in Nat, NEW l \in BOOLEAN
    PROVE  HasBefore(JumpBlock(g, to, l), to)
  <1>1. PICK h, n, E, R : /\ h = JumpBlock(g, to, l) /\ n = Size(g) + 1
                          /\ E = {<<g.current, n>>, <<n, to>>} /\ R = {<<n, l>>}
    OBVIOUS
  <1>2. Made(g, h, E, R)
    BY <1>1, JumpMade
  <1>3. <<n, to>> \in h.edges
    BY <1>1, <1>2 DEF Made
  <1> QED
    BY <1>1, <1>3 DEF HasBefore

LEMMA BreakLoopStep ==
    ASSUME NEW nest, NEW ctx, NEW g, NEW o, NEW l \in BOOLEAN, NEW fr \in BOOLEAN, NEW hs,
           Walk(nest, ctx, g, o, l, fr, hs), Seen(nest, Len(nest)), NEW o2, o \subseteq o2, NEW fr2,
           NEW i \in 1 .. Len(nest), nest[i].kind \in Loops,
           \A r \in i + 1 .. Len(nest) : nest[r].kind \notin Loops,
           NEW x \in {"live", "dead"}, NEW nest2, Left(nest, i, x, nest2)
    PROVE  Walk(nest2, ctx, JumpBlock(g, Head(g.breaks), l), o2, FALSE, fr2, hs)
  <1>1. PICK to : to = Head(g.breaks)
    OBVIOUS
  <1>2. to \in Targets(nest[i]) /\ to = nest[i].after
    BY <1>1, LoopTargets
  <1>3. /\ nest \in Seq(Frame) /\ nest[i] \in Frame /\ nest2 \in Seq(Frame) /\ Len(nest2) = Len(nest)
        /\ LeftBy(nest[i], x, nest2[i]) /\ \A p \in 1 .. Len(nest) : p # i => nest2[p] = nest[p]
    <2>1. nest \in Seq(Frame)
      BY WalkFacts DEF Nesting
    <2> QED
      BY <2>1 DEF Left
  <1>4. PICK f2 : f2 = [nest[i] EXCEPT !.left = nest[i].left \cup {"dead"}]
    OBVIOUS
  <1>5. PICK y : y = "dead"
    OBVIOUS
  <1>6. LeftBy(nest[i], y, f2)
    BY <1>4, <1>5 DEF LeftBy
  <1>7. /\ f2 \in Frame /\ f2.kind = nest[i].kind /\ f2.after = nest[i].after /\ f2.test = nest[i].test
        /\ f2.left = nest[i].left \cup {y} /\ Targets(f2) = Targets(nest[i])
    BY <1>3, <1>5, <1>6, LeftFields DEF Targets
  <1>8. PICK nest3 : nest3 = [nest EXCEPT ![i] = f2]
    OBVIOUS
  <1>9. /\ nest3 \in Seq(Frame) /\ Len(nest3) = Len(nest) /\ nest3[i] = f2
        /\ \A p \in 1 .. Len(nest) : p # i => nest3[p] = nest[p]
    BY <1>3, <1>7, <1>8
  <1>10. Left(nest, i, y, nest3)
    BY <1>6, <1>9 DEF Left
  <1>11. Walk(nest3, ctx, g, o, l, fr, hs)
    BY <1>5, <1>10, WalkLeft
  <1>12. Seen(nest3, Len(nest3))
    BY <1>7, <1>9 DEF Seen
  <1>13. \A p \in 1 .. Len(nest3) :
             nest3[p].kind \in Loops /\ nest3[p].cond = "true" /\ nest3[p].left = {} /\ Straight(o2) =>
                 to # nest3[p].after
    <2> SUFFICES ASSUME NEW p \in 1 .. Len(nest), nest3[p].kind \in Loops, nest3[p].left = {}
                 PROVE  to # nest3[p].after
      BY <1>9
    <2>1. p # i
      BY <1>7, <1>9
    <2>2. nest3[p] = nest[p]
      BY <1>9, <2>1
    <2>3. Seen(nest, p - 1)
      <3>1. Len(nest) \in Nat
        BY <1>3
      <3>2. p - 1 \in 0 .. Len(nest)
        BY <3>1
      <3> QED
        BY <3>1, <3>2, SeenOuter
    <2>4. nest[p].after \in Own(nest[p])
      BY <2>2, <2>3, OwnedApart
    <2>5. Own(nest[p]) \cap Own(nest[i]) = {}
      BY <2>1, SeenApart
    <2> QED
      BY <1>2, <2>2, <2>4, <2>5, TargetsOwned
  <1>14. PICK h : h = JumpBlock(g, to, l)
    OBVIOUS
  <1>15. i \in 1 .. Len(nest3) /\ to \in Targets(nest3[i])
    BY <1>2, <1>7, <1>9
  <1>16. Walk(nest3, ctx, h, o2, FALSE, fr2, hs) /\ HasBefore(h, to)
    <2>1. Walk(nest3, ctx, JumpBlock(g, to, l), o2, FALSE, fr2, hs)
      BY <1>11, <1>12, <1>13, <1>15, JumpStep
    <2>2. HasBefore(JumpBlock(g, to, l), to)
      <3>1. Formed(g)
        BY WalkFacts
      <3>2. Own(nest[i]) \subseteq Blocks(g)
        <4>1. Len(nest) \in Nat
          BY <1>3
        <4>2. i - 1 \in 0 .. Len(nest)
          BY <4>1
        <4>3. Seen(nest, i - 1)
          BY <4>1, <4>2, SeenOuter
        <4> QED
          BY <4>3, OwnedApart
      <3>3. to \in Nat
        BY <1>2, <3>2, TargetsOwned DEF Blocks
      <3> QED
        BY <3>1, <3>3, JumpEnters
    <2> QED
      BY <1>14, <2>1, <2>2
  <1>17. Relabelled(nest3, i, nest2)
    <2>1. nest2[i].kind = nest[i].kind /\ nest2[i].after = nest[i].after
          /\ nest2[i].test = nest[i].test /\ nest2[i].prev = nest[i].prev
      BY <1>3, LeftFields
    <2>2. f2.prev = nest[i].prev
      BY <1>3, <1>5, <1>6, LeftFields
    <2> QED
      BY <1>3, <1>7, <1>9, <2>1, <2>2 DEF Relabelled
  <1>18. Seen(nest3, i - 1) => Within(nest2[i], Head(ctx[i - 1].stack), h, o2)
    <2> SUFFICES ASSUME Seen(nest3, i - 1)
                 PROVE  Within(nest2[i], Head(ctx[i - 1].stack), h, o2)
      OBVIOUS
    <2>1. PICK fn : fn = Head(ctx[i - 1].stack)
      OBVIOUS
    <2>2. Within(f2, fn, h, o2)
      BY <1>9, <1>15, <1>16, <2>1 DEF Walk, Frames
    <2>3. HasBefore(h, f2.after)
      BY <1>2, <1>7, <1>16
    <2>4. PICK f3 : f3 = nest2[i]
      OBVIOUS
    <2>5. /\ f3.kind = f2.kind /\ f3.after = f2.after /\ f3.test = f2.test /\ f3.prev = f2.prev
          /\ f3.cond = f2.cond /\ f3.hasElse = f2.hasElse /\ f3.left # {}
      <3>1. /\ f3.kind = nest[i].kind /\ f3.after = nest[i].after /\ f3.test = nest[i].test
            /\ f3.prev = nest[i].prev /\ f3.cond = nest[i].cond /\ f3.hasElse = nest[i].hasElse
            /\ f3.left = nest[i].left \cup {x}
        BY <1>3, <2>4, LeftFields
      <3>2. /\ f2.prev = nest[i].prev /\ f2.cond = nest[i].cond /\ f2.hasElse = nest[i].hasElse
        BY <1>3, <1>5, <1>6, LeftFields
      <3> QED
        BY <1>7, <3>1, <3>2
    <2>6. Own(f3) = Own(f2) /\ Targets(f3) = Targets(f2)
      BY <2>5 DEF Own, Targets
    <2>7. Within(f3, fn, h, o2)
      BY <2>2, <2>3, <2>5, <2>6 DEF Within
    <2> QED
      BY <2>1, <2>4, <2>7
  <1>19. Walk(nest2, ctx, h, o2, FALSE, fr2, hs)
    BY <1>15, <1>16, <1>17, <1>18, WalkRelabelled
  <1> QED
    BY <1>1, <1>14, <1>19

\* A jump that the builder sends out of, or back to, a loop of its own.
LEMMA SomeLoop ==
    ASSUME NEW nest, NEW ctx, NEW g, NEW o, NEW l, NEW fr, NEW hs, Walk(nest, ctx, g, o, l, fr, hs),
           g.breaks # <<>> \/ g.continues # <<>>
    PROVE  \E q \in 1 .. Len(nest) :
              Head(g.breaks) \in Targets(nest[q]) /\ Head(g.continues) \in Targets(nest[q])
  <1>1. Nesting(nest, ctx) /\ Matches(g, ctx[Len(nest)]) /\ Len(nest) \in Nat
    BY WalkFacts
  <1>2. PICK m \in Nat : m = Len(nest)
    BY <1>1
  <1>3. Bound(nest, ctx, m)
    <2>1. m \in 0 .. m
      OBVIOUS
    <2> QED
      BY <1>1, <1>2, <2>1 DEF Nesting
  <1>4. g.breaks = ctx[m].breaks /\ g.continues = ctx[m].continues
    BY <1>1, <1>2 DEF Matches
  <1>5. PICK q \in 1 .. m : TopOf(nest[q], ctx[m])
    BY <1>3, <1>4 DEF Bound
  <1>6. Targets(nest[q]) = {nest[q].test, nest[q].after}
    BY <1>5 DEF TopOf, Targets, Loops
  <1> QED
    BY <1>2, <1>4, <1>5, <1>6 DEF TopOf

LEMMA AstrayStep ==
    ASSUME NEW nest, NEW ctx, NEW g, NEW o, NEW l \in BOOLEAN, NEW fr \in BOOLEAN, NEW hs,
           Walk(nest, ctx, g, o, l, fr, hs), Seen(nest, Len(nest)), NEW o2, o \subseteq o2, NEW fr2,
           ~Straight(o2), NEW to, \E q \in 1 .. Len(nest) : to \in Targets(nest[q])
    PROVE  Walk(nest, ctx, JumpBlock(g, to, l), o2, FALSE, fr2, hs)
  <1>1. PICK q \in 1 .. Len(nest) : to \in Targets(nest[q])
    OBVIOUS
  <1>2. \A p \in 1 .. Len(nest) :
             nest[p].kind \in Loops /\ nest[p].cond = "true" /\ nest[p].left = {} /\ Straight(o2) =>
                 to # nest[p].after
    OBVIOUS
  <1> QED
    BY <1>1, <1>2, JumpStep

\* The function that a frame belongs to.
LEMMA FunctionOf ==
    ASSUME NEW nest, NEW ctx, NEW g, NEW o, NEW l, NEW fr, NEW hs, Walk(nest, ctx, g, o, l, fr, hs),
           NEW i \in 1 .. Len(nest), \A r \in i .. Len(nest) : nest[r].kind # "function"
    PROVE  Head(ctx[i - 1].stack) = Function(g)
  <1>1. Nesting(nest, ctx) /\ Matches(g, ctx[Len(nest)]) /\ Len(nest) \in Nat
    BY WalkFacts
  <1>2. PICK m \in Nat, j \in Nat : m = Len(nest) /\ j = i - 1
    BY <1>1
  <1>3. m \in 0 .. m /\ j \in 0 .. m /\ j + 1 = i
    BY <1>1, <1>2
  <1>4. Top(nest, ctx, j, m)
    BY <1>1, <1>2, <1>3 DEF Nesting
  <1>5. ctx[m].stack = ctx[j].stack
    BY <1>2, <1>3, <1>4 DEF Top
  <1> QED
    BY <1>1, <1>2, <1>5 DEF Matches, Function

LEMMA BreakAstrayStep ==
    ASSUME NEW nest, NEW ctx, NEW g, NEW o, NEW l \in BOOLEAN, NEW fr \in BOOLEAN, NEW hs,
           Walk(nest, ctx, g, o, l, fr, hs), Seen(nest, Len(nest)), NEW o2, o \subseteq o2, NEW fr2,
           ~Straight(o2), Excused(Function(g), o2), g.breaks # <<>>,
           NEW i \in 1 .. Len(nest), \A r \in i .. Len(nest) : nest[r].kind # "function",
           NEW x \in {"live", "dead"}, NEW nest2, Left(nest, i, x, nest2)
    PROVE  Walk(nest2, ctx, JumpBlock(g, Head(g.breaks), l), o2, FALSE, fr2, hs)
  <1>1. nest \in Seq(Frame) /\ Len(nest) \in Nat
    BY WalkFacts DEF Nesting
  <1>2. Leads(g, g.current, l \/ ~Seen(nest, Len(nest)), o2)
    <2>1. Leads(g, g.current, l \/ ~Seen(nest, Len(nest)), o)
      BY DEF Walk
    <2> QED
      BY <2>1, ExcusedKept DEF Leads
  <1>3. Walk(nest, ctx, g, o2, l, fr, hs)
    BY <1>2, QuietStay
  <1>4. Excused(Head(ctx[i - 1].stack), o2)
    BY FunctionOf
  <1>5. Walk(nest2, ctx, g, o2, l, fr, hs)
    BY <1>3, <1>4, WalkLeft
  <1>6. Relabelled(nest, i, nest2)
    BY <1>1, LeftRelabelled
  <1>7. Len(nest2) = Len(nest) /\ Seen(nest2, Len(nest2))
    BY <1>6 DEF Relabelled, Seen
  <1>8. PICK to : to = Head(g.breaks)
    OBVIOUS
  <1>9. \E q \in 1 .. Len(nest2) : to \in Targets(nest2[q])
    BY <1>5, <1>8, SomeLoop
  <1>10. Walk(nest2, ctx, JumpBlock(g, to, l), o2, FALSE, fr2, hs)
    BY <1>5, <1>7, <1>9, AstrayStep
  <1> QED
    BY <1>8, <1>10

\* A jump that builds nothing.
LEMMA UnseenStep ==
    ASSUME NEW nest, NEW ctx, NEW g, NEW o, NEW l, NEW fr, NEW hs, Walk(nest, ctx, g, o, l, fr, hs),
           ~Seen(nest, Len(nest)), NEW o2, o \subseteq o2, NEW l2, NEW fr2
    PROVE  Walk(nest, ctx, g, o2, l2, fr2, hs)
  <1>1. Leads(g, g.current, TRUE, o)
    BY ReachLeads
  <1>2. Leads(g, g.current, l2 \/ ~Seen(nest, Len(nest)), o2)
    BY <1>1, ExcusedKept DEF Leads
  <1> QED
    BY <1>2, QuietStay

LEMMA BreakUnseenStep ==
    ASSUME NEW nest, NEW ctx, NEW g, NEW o, NEW l, NEW fr, NEW hs, Walk(nest, ctx, g, o, l, fr, hs),
           ~Seen(nest, Len(nest)), NEW o2, o \subseteq o2, NEW l2, NEW fr2,
           Excused(Function(g), o2),
           NEW i \in 1 .. Len(nest), \A r \in i .. Len(nest) : nest[r].kind # "function",
           NEW x \in {"live", "dead"}, NEW nest2, Left(nest, i, x, nest2)
    PROVE  Walk(nest2, ctx, g, o2, l2, fr2, hs)
  <1>1. Walk(nest, ctx, g, o2, l2, fr2, hs)
    BY UnseenStep
  <1>2. Excused(Head(ctx[i - 1].stack), o2)
    BY FunctionOf
  <1> QED
    BY <1>1, <1>2, WalkLeft

-----------------------------------------------------------------------------
(* The walk is inside of open, innermost first; Walk has the outermost      *)
(* first.                                                                   *)

Outer(s) == [p \in 1 .. Len(s) |-> s[Len(s) + 1 - p]]

Hidden(s) == \E i \in DOMAIN s : s[i].kind = "else"

LEMMA OuterType ==
    ASSUME NEW s \in Seq(Frame)
    PROVE  /\ Outer(s) \in Seq(Frame) /\ Len(Outer(s)) = Len(s)
           /\ \A p \in 1 .. Len(s) : Outer(s)[p] = s[Len(s) + 1 - p]
  <1>1. PICK n \in Nat : n = Len(s)
    OBVIOUS
  <1>2. \A p \in 1 .. n : n + 1 - p \in 1 .. n
    OBVIOUS
  <1>3. \A p \in 1 .. n : s[n + 1 - p] \in Frame
    BY <1>1, <1>2
  <1>4. Outer(s) = [p \in 1 .. n |-> s[n + 1 - p]]
    BY <1>1 DEF Outer
  <1>5. Outer(s) \in Seq(Frame) /\ Len(Outer(s)) = n
    BY <1>3, <1>4
  <1> QED
    BY <1>1, <1>4, <1>5

LEMMA Hiding ==
    ASSUME NEW s \in Seq(Frame)
    PROVE  Hidden(s) <=> ~Seen(Outer(s), Len(Outer(s)))
  <1>1. PICK n \in Nat : n = Len(s)
    OBVIOUS
  <1>2. Len(Outer(s)) = n /\ \A p \in 1 .. n : Outer(s)[p] = s[n + 1 - p]
    BY <1>1, OuterType
  <1>3. DOMAIN s = 1 .. n
    BY <1>1
  <1>4. ASSUME Hidden(s)
        PROVE  ~Seen(Outer(s), n)
    <2>1. PICK i \in 1 .. n : s[i].kind = "else"
      BY <1>3, <1>4 DEF Hidden
    <2>2. PICK p \in 1 .. n : p = n + 1 - i
      OBVIOUS
    <2>3. i = n + 1 - p
      BY <2>2
    <2> QED
      BY <1>2, <2>1, <2>3 DEF Seen
  <1>5. ASSUME ~Seen(Outer(s), n)
        PROVE  Hidden(s)
    <2>1. PICK p \in 1 .. n : Outer(s)[p].kind = "else"
      BY <1>5 DEF Seen
    <2>2. PICK i \in 1 .. n : i = n + 1 - p
      OBVIOUS
    <2> QED
      BY <1>2, <1>3, <2>1, <2>2 DEF Hidden
  <1> QED
    BY <1>2, <1>4, <1>5

LEMMA OuterPushed ==
    ASSUME NEW s \in Seq(Frame), NEW f \in Frame
    PROVE  <<f>> \o s \in Seq(Frame) /\ Deeper(Outer(s), f, Outer(<<f>> \o s))
  <1>1. PICK n \in Nat, m \in Nat : n = Len(s) /\ m = n + 1
    OBVIOUS
  <1>2. PICK one \in Seq(Frame) : one = <<f>>
    <2>1. <<f>> \in Seq(Frame)
      OBVIOUS
    <2> QED
      BY <2>1
  <1>3. Len(one) = 1 /\ one[1] = f
    BY <1>2
  <1>4. PICK t : t = one \o s
    OBVIOUS
  <1>5. /\ t \in Seq(Frame) /\ Len(t) = m /\ t[1] = f /\ \A i \in 1 .. n : t[i + 1] = s[i]
    <2>1. /\ one \o s \in Seq(Frame) /\ Len(one \o s) = Len(one) + Len(s)
          /\ \A i \in 1 .. Len(one) + Len(s) :
                (one \o s)[i] = IF i <= Len(one) THEN one[i] ELSE s[i - Len(one)]
      BY ConcatProperties
    <2>2. t \in Seq(Frame) /\ Len(t) = 1 + n
          /\ \A i \in 1 .. 1 + n : t[i] = IF i <= 1 THEN one[i] ELSE s[i - 1]
      BY <1>1, <1>3, <1>4, <2>1
    <2>3. t[1] = f
      BY <1>3, <2>2
    <2>4. \A i \in 1 .. n : t[i + 1] = s[i]
      <3> SUFFICES ASSUME NEW i \in 1 .. n
                   PROVE  t[i + 1] = s[i]
        OBVIOUS
      <3>1. PICK j \in 1 .. 1 + n : j = i + 1 /\ ~(j <= 1) /\ j - 1 = i
        OBVIOUS
      <3> QED
        BY <2>2, <3>1
    <2> QED
      BY <1>1, <2>2, <2>3, <2>4
  <1>6. Len(Outer(s)) = n /\ \A p \in 1 .. n : Outer(s)[p] = s[n + 1 - p]
    BY <1>1, OuterType
  <1>7. Outer(t) \in Seq(Frame) /\ Len(Outer(t)) = m /\ \A p \in 1 .. m : Outer(t)[p] = t[m + 1 - p]
    BY <1>5, OuterType
  <1>8. Outer(t)[m] = f
    <2>1. m \in 1 .. m /\ m + 1 - m = 1
      BY <1>1
    <2> QED
      BY <1>5, <1>7, <2>1
  <1>9. \A p \in 1 .. n : Outer(t)[p] = Outer(s)[p]
    <2> SUFFICES ASSUME NEW p \in 1 .. n
                 PROVE  Outer(t)[p] = Outer(s)[p]
      OBVIOUS
    <2>1. PICK i \in 1 .. n : i = n + 1 - p
      OBVIOUS
    <2>2. m + 1 - p = i + 1 /\ p \in 1 .. m
      BY <1>1, <2>1
    <2>3. Outer(t)[p] = t[i + 1]
      BY <1>7, <2>2
    <2>4. Outer(s)[p] = s[i]
      BY <1>6, <2>1
    <2> QED
      BY <1>5, <2>3, <2>4
  <1>10. Deeper(Outer(s), f, Outer(t))
    <2>1. Len(Outer(s)) + 1 = m
      BY <1>1, <1>6
    <2> QED
      BY <1>6, <1>7, <1>8, <1>9, <2>1 DEF Deeper
  <1> QED
    BY <1>2, <1>4, <1>5, <1>10

LEMMA OuterPopped ==
    ASSUME NEW s \in Seq(Frame), s # <<>>
    PROVE  /\ Head(s) \in Frame /\ Tail(s) \in Seq(Frame) /\ Outer(Tail(s)) \in Seq(Frame)
           /\ Deeper(Outer(Tail(s)), Head(s), Outer(s))
  <1>1. PICK m \in Nat, n \in Nat : m = Len(s) /\ n = m - 1 /\ m = n + 1
    BY EmptySeq
  <1>2. PICK t, f : t = Tail(s) /\ f = Head(s)
    OBVIOUS
  <1>3. f \in Frame /\ f = s[1] /\ t \in Seq(Frame) /\ Len(t) = n /\ \A i \in 1 .. n : t[i] = s[i + 1]
    BY <1>1, <1>2, HeadTailProperties
  <1>4. Outer(t) \in Seq(Frame) /\ Len(Outer(t)) = n /\ \A p \in 1 .. n : Outer(t)[p] = t[n + 1 - p]
    BY <1>3, OuterType
  <1>5. Outer(s) \in Seq(Frame) /\ Len(Outer(s)) = m /\ \A p \in 1 .. m : Outer(s)[p] = s[m + 1 - p]
    BY <1>1, OuterType
  <1>6. Outer(s)[m] = f
    <2>1. m \in 1 .. m /\ m + 1 - m = 1
      BY <1>1
    <2> QED
      BY <1>3, <1>5, <2>1
  <1>7. \A p \in 1 .. n : Outer(s)[p] = Outer(t)[p]
    <2> SUFFICES ASSUME NEW p \in 1 .. n
                 PROVE  Outer(s)[p] = Outer(t)[p]
      OBVIOUS
    <2>1. PICK i \in 1 .. n : i = n + 1 - p
      OBVIOUS
    <2>2. m + 1 - p = i + 1 /\ p \in 1 .. m
      BY <1>1, <2>1
    <2>3. Outer(s)[p] = s[i + 1]
      BY <1>5, <2>2
    <2>4. Outer(t)[p] = t[i]
      BY <1>4, <2>1
    <2> QED
      BY <1>3, <2>3, <2>4
  <1>8. Deeper(Outer(t), f, Outer(s))
    <2>1. Len(Outer(t)) + 1 = m
      BY <1>1, <1>4
    <2> QED
      BY <1>4, <1>5, <1>6, <1>7, <2>1 DEF Deeper
  <1> QED
    BY <1>2, <1>3, <1>4, <1>8

Replaced(s, i, f, t) == t = [s EXCEPT ![i] = f]

\* The frame at i is at j of the outer ones, and is left there as it is in s.
LeftAt(s, i, x, t, j) ==
    /\ Outer(s)[j] = s[i] /\ Left(Outer(s), j, x, Outer(t))
    /\ \A r \in j .. Len(Outer(s)) : \E k \in 1 .. i : Outer(s)[r] = s[k]
    /\ \A r \in j + 1 .. Len(Outer(s)) : \E k \in 1 .. i - 1 : Outer(s)[r] = s[k]

LEMMA OuterLeft ==
    ASSUME NEW s \in Seq(Frame), NEW i \in 1 .. Len(s), NEW x \in {"live", "dead"},
           NEW f2, LeftBy(s[i], x, f2), NEW t, Replaced(s, i, f2, t)
    PROVE  /\ t \in Seq(Frame)
           /\ \E j \in 1 .. Len(Outer(s)) : LeftAt(s, i, x, t, j)
  <1>1. PICK n \in Nat : n = Len(s)
    OBVIOUS
  <1>2. f2 \in Frame
    BY LeftFields
  <1>3. t \in Seq(Frame) /\ Len(t) = n /\ t[i] = f2 /\ \A k \in 1 .. n : k # i => t[k] = s[k]
    BY <1>1, <1>2 DEF Replaced
  <1>4. Outer(s) \in Seq(Frame) /\ Len(Outer(s)) = n /\ \A p \in 1 .. n : Outer(s)[p] = s[n + 1 - p]
    BY <1>1, OuterType
  <1>5. Outer(t) \in Seq(Frame) /\ Len(Outer(t)) = n /\ \A p \in 1 .. n : Outer(t)[p] = t[n + 1 - p]
    <2>1. PICK u : u = t
      OBVIOUS
    <2>2. u \in Seq(Frame) /\ Len(u) = n
      BY <1>3, <2>1
    <2>3. /\ Outer(u) \in Seq(Frame) /\ Len(Outer(u)) = Len(u)
          /\ \A p \in 1 .. Len(u) : Outer(u)[p] = u[Len(u) + 1 - p]
      BY ONLY <2>2, OuterType
    <2> QED
      BY ONLY <2>1, <2>2, <2>3
  <1>6. PICK j \in 1 .. n : j = n + 1 - i /\ n + 1 - j = i
    <2>1. i \in 1 .. n
      BY <1>1
    <2>2. n + 1 - i \in 1 .. n /\ n + 1 - (n + 1 - i) = i
      BY ONLY <2>1
    <2> QED
      BY ONLY <2>2
  <1>7. Outer(s)[j] = s[i] /\ Outer(t)[j] = f2
    BY <1>3, <1>4, <1>5, <1>6
  <1>8. \A p \in 1 .. n : p # j => Outer(t)[p] = Outer(s)[p]
    <2> SUFFICES ASSUME NEW p \in 1 .. n, p # j
                 PROVE  Outer(t)[p] = Outer(s)[p]
      OBVIOUS
    <2>1. PICK k \in 1 .. n : k = n + 1 - p /\ k # i
      BY <1>6
    <2> QED
      BY <1>3, <1>4, <1>5, <2>1
  <1>9. Left(Outer(s), j, x, Outer(t))
    BY <1>4, <1>5, <1>7, <1>8 DEF Left
  <1>10. \A r \in j .. n : \E k \in 1 .. i : Outer(s)[r] = s[k]
    <2> SUFFICES ASSUME NEW r \in j .. n
                 PROVE  \E k \in 1 .. i : Outer(s)[r] = s[k]
      OBVIOUS
    <2>1. PICK k \in 1 .. i : k = n + 1 - r /\ r \in 1 .. n
      BY <1>6
    <2> QED
      BY <1>4, <2>1
  <1>11. \A r \in j + 1 .. n : \E k \in 1 .. i - 1 : Outer(s)[r] = s[k]
    <2> SUFFICES ASSUME NEW r \in j + 1 .. n
                 PROVE  \E k \in 1 .. i - 1 : Outer(s)[r] = s[k]
      OBVIOUS
    <2>1. PICK k \in 1 .. i - 1 : k = n + 1 - r /\ r \in 1 .. n
      BY <1>6
    <2> QED
      BY <1>4, <2>1
  <1>12. LeftAt(s, i, x, t, j)
    BY <1>4, <1>7, <1>9, <1>10, <1>11 DEF LeftAt
  <1> QED
    BY <1>3, <1>4, <1>12

-----------------------------------------------------------------------------
(* The walk at a state.                                                     *)

At(s, g, o, l, fr, hs) == \E ctx : Walk(Outer(s), ctx, g, o, l, fr, hs)

LEMMA SeenDeeper ==
    ASSUME NEW nest, NEW f, NEW nest2, Deeper(nest, f, nest2), NEW n \in Nat, n = Len(nest)
    PROVE  Seen(nest2, Len(nest2)) <=> (Seen(nest, n) /\ f.kind # "else")
  <1>1. Len(nest2) = n + 1 /\ nest2[n + 1] = f /\ \A p \in 1 .. n : nest2[p] = nest[p]
    BY DEF Deeper
  <1>2. \A p \in 1 .. n + 1 : p \in 1 .. n \/ p = n + 1
    OBVIOUS
  <1>3. n + 1 \in 1 .. n + 1 /\ \A p \in 1 .. n : p \in 1 .. n + 1
    OBVIOUS
  <1> QED
    BY <1>1, <1>2, <1>3 DEF Seen

LEMMA HiddenPushed ==
    ASSUME NEW s \in Seq(Frame), NEW f \in Frame
    PROVE  Hidden(<<f>> \o s) <=> (Hidden(s) \/ f.kind = "else")
  <1>1. PICK t : t = <<f>> \o s
    OBVIOUS
  <1>2. t \in Seq(Frame) /\ Deeper(Outer(s), f, Outer(t))
    BY <1>1, OuterPushed
  <1>3. Len(Outer(s)) \in Nat
    BY OuterType
  <1> QED
    BY <1>1, <1>2, <1>3, Hiding, SeenDeeper

LEMMA HiddenPopped ==
    ASSUME NEW s \in Seq(Frame), s # <<>>
    PROVE  Hidden(s) <=> (Hidden(Tail(s)) \/ Head(s).kind = "else")
  <1>1. PICK t, f : t = Tail(s) /\ f = Head(s)
    OBVIOUS
  <1>2. t \in Seq(Frame) /\ Deeper(Outer(t), f, Outer(s))
    BY <1>1, OuterPopped
  <1>3. Len(Outer(t)) \in Nat
    BY <1>2, OuterType
  <1> QED
    BY <1>1, <1>2, <1>3, Hiding, SeenDeeper

LEMMA AtFacts ==
    ASSUME NEW s \in Seq(Frame), NEW g, NEW o, NEW l, NEW fr, NEW hs, At(s, g, o, l, fr, hs)
    PROVE  /\ Formed(g) /\ g \in Cfgs /\ g.current \in Blocks(g) /\ g.block[g.current].function = Function(g)
           /\ Leads(g, g.current, l \/ Hidden(s), o)
           /\ Straight(o) /\ fr /\ ~Hidden(s) => Afresh(g)
  <1>1. PICK ctx : Walk(Outer(s), ctx, g, o, l, fr, hs)
    BY DEF At
  <1>2. Hidden(s) <=> ~Seen(Outer(s), Len(Outer(s)))
    BY Hiding
  <1>3. Formed(g) /\ (Straight(o) /\ fr /\ Seen(Outer(s), Len(Outer(s))) => Afresh(g))
        /\ Leads(g, g.current, l \/ ~Seen(Outer(s), Len(Outer(s))), o)
    BY <1>1 DEF Walk
  <1> QED
    BY <1>2, <1>3 DEF Formed, Leads

\* What may follow without a block being built.
Follows(s, g, o, l, fr) ==
    /\ Leads(g, g.current, l \/ Hidden(s), o)
    /\ Straight(o) /\ fr /\ ~Hidden(s) => Afresh(g)

LEMMA AtStay ==
    ASSUME NEW s \in Seq(Frame), NEW g, NEW o, NEW l, NEW fr, NEW hs, At(s, g, o, l, fr, hs),
           NEW o2, o \subseteq o2, NEW l2, NEW fr2, Follows(s, g, o2, l2, fr2)
    PROVE  At(s, g, o2, l2, fr2, hs)
  <1>1. PICK ctx : Walk(Outer(s), ctx, g, o, l, fr, hs)
    BY DEF At
  <1>2. PICK nest : nest = Outer(s)
    OBVIOUS
  <1>3. Hidden(s) <=> ~Seen(nest, Len(nest))
    BY <1>2, Hiding
  <1>4. /\ Leads(g, g.current, l2 \/ ~Seen(nest, Len(nest)), o2)
        /\ Straight(o2) /\ fr2 /\ Seen(nest, Len(nest)) => Afresh(g)
    BY <1>3 DEF Follows, Leads
  <1>5. Walk(nest, ctx, g, o2, l2, fr2, hs)
    BY <1>1, <1>2, <1>4, QuietStay
  <1> QED
    BY <1>2, <1>5 DEF At

LEMMA AtPushed ==
    ASSUME NEW s \in Seq(Frame), NEW g, NEW o, NEW l, NEW fr, NEW hs, At(s, g, o, l, fr, hs),
           NEW o2, o \subseteq o2, NEW l2, NEW fr2,
           NEW f \in Frame, Passive(f) \/ Hidden(s), NEW t, t = <<f>> \o s, Follows(t, g, o2, l2, fr2)
    PROVE  At(t, g, o2, l2, fr2, hs)
  <1>1. PICK ctx : Walk(Outer(s), ctx, g, o, l, fr, hs)
    BY DEF At
  <1>2. PICK nest, nest2 : nest = Outer(s) /\ nest2 = Outer(t)
    OBVIOUS
  <1>3. t \in Seq(Frame) /\ Deeper(nest, f, nest2)
    BY <1>2, OuterPushed
  <1>4. (Hidden(s) <=> ~Seen(nest, Len(nest))) /\ (Hidden(t) <=> ~Seen(nest2, Len(nest2)))
    BY <1>2, <1>3, Hiding
  <1>5. /\ Leads(g, g.current, l2 \/ ~Seen(nest2, Len(nest2)), o2)
        /\ Straight(o2) /\ fr2 /\ Seen(nest2, Len(nest2)) => Afresh(g)
    BY <1>4 DEF Follows, Leads
  <1>6. Passive(f) \/ ~Seen(nest, Len(nest))
    BY <1>4
  <1>7. \E ctx2 : Walk(nest2, ctx2, g, o2, l2, fr2, hs)
    BY <1>1, <1>2, <1>3, <1>5, <1>6, QuietPush
  <1> QED
    BY <1>2, <1>7 DEF At

LEMMA AtPopped ==
    ASSUME NEW s \in Seq(Frame), NEW g, NEW o, NEW l, NEW fr, NEW hs, At(s, g, o, l, fr, hs),
           NEW o2, o \subseteq o2, NEW l2, NEW fr2,
           s # <<>>, NEW t, t = Tail(s), Passive(Head(s)) \/ Hidden(t), Follows(t, g, o2, l2, fr2)
    PROVE  At(t, g, o2, l2, fr2, hs)
  <1>1. PICK ctx : Walk(Outer(s), ctx, g, o, l, fr, hs)
    BY DEF At
  <1>2. PICK nest, nest2, f : nest = Outer(s) /\ nest2 = Outer(t) /\ f = Head(s)
    OBVIOUS
  <1>3. t \in Seq(Frame) /\ nest2 \in Seq(Frame) /\ Deeper(nest2, f, nest)
    BY <1>2, OuterPopped
  <1>4. Hidden(t) <=> ~Seen(nest2, Len(nest2))
    BY <1>2, <1>3, Hiding
  <1>5. /\ Leads(g, g.current, l2 \/ ~Seen(nest2, Len(nest2)), o2)
        /\ Straight(o2) /\ fr2 /\ Seen(nest2, Len(nest2)) => Afresh(g)
    BY <1>4 DEF Follows, Leads
  <1>6. Passive(f) \/ ~Seen(nest2, Len(nest2))
    BY <1>2, <1>4
  <1>7. \E ctx2 : Walk(nest2, ctx2, g, o2, l2, fr2, hs)
    BY <1>1, <1>2, <1>3, <1>5, <1>6, QuietPop
  <1> QED
    BY <1>2, <1>7 DEF At

LEMMA AtSimple ==
    ASSUME NEW s \in Seq(Frame), NEW g, NEW o, NEW l \in BOOLEAN, NEW fr \in BOOLEAN, NEW hs,
           At(s, g, o, l, fr, hs), ~Hidden(s), NEW o2, o \subseteq o2
    PROVE  At(s, AddInstruction(g, l), o2, l, FALSE, Heads(hs, fr, First(g, 0)))
  <1>1. PICK ctx : Walk(Outer(s), ctx, g, o, l, fr, hs)
    BY DEF At
  <1>2. PICK nest : nest = Outer(s)
    OBVIOUS
  <1>3. Seen(nest, Len(nest))
    BY <1>2, Hiding
  <1>4. Walk(nest, ctx, AddInstruction(g, l), o2, l, FALSE, Heads(hs, fr, First(g, 0)))
    BY <1>1, <1>2, <1>3, SimpleStep
  <1> QED
    BY <1>2, <1>4 DEF At

LEMMA AtReturn ==
    ASSUME NEW s \in Seq(Frame), NEW g, NEW o, NEW l \in BOOLEAN, NEW fr \in BOOLEAN, NEW hs,
           At(s, g, o, l, fr, hs), ~Hidden(s), NEW o2, o \subseteq o2, NEW fr2
    PROVE  At(s, ReturnBlocks(g, l), o2, FALSE, fr2, hs)
  <1>1. PICK ctx : Walk(Outer(s), ctx, g, o, l, fr, hs)
    BY DEF At
  <1>2. PICK nest : nest = Outer(s)
    OBVIOUS
  <1>3. Seen(nest, Len(nest))
    BY <1>2, Hiding
  <1>4. Walk(nest, ctx, ReturnBlocks(g, l), o2, FALSE, fr2, hs)
    BY <1>1, <1>2, <1>3, ReturnStep
  <1> QED
    BY <1>2, <1>4 DEF At

LEMMA AtIf ==
    ASSUME NEW s \in Seq(Frame), NEW g, NEW o, NEW l \in BOOLEAN, NEW fr \in BOOLEAN, NEW hs,
           At(s, g, o, l, fr, hs), ~Hidden(s), NEW o2, o \subseteq o2,
           NEW cond, NEW hasElse, NEW f \in Frame, IfFrame(g, hasElse, f),
           NEW t, t = <<f>> \o s
    PROVE  At(t, IfBlocks(g, cond, hasElse, l), o2, Taken(l, cond), FALSE,
              Heads(hs \cup Never(g, cond, hasElse), fr, First(g, 4)))
  <1>1. PICK ctx : Walk(Outer(s), ctx, g, o, l, fr, hs)
    BY DEF At
  <1>2. PICK nest, nest2 : nest = Outer(s) /\ nest2 = Outer(t)
    OBVIOUS
  <1>3. Seen(nest, Len(nest)) /\ Deeper(nest, f, nest2)
    BY <1>2, Hiding, OuterPushed
  <1>4. Walk(nest, ctx, g, o, l, fr, hs)
    BY <1>1, <1>2
  <1>5. Walks(nest2, IfBlocks(g, cond, hasElse, l), o2, Taken(l, cond), FALSE,
             Heads(hs \cup Never(g, cond, hasElse), fr, First(g, 4)))
    BY <1>3, <1>4, IfStep, ZenonT(40)
  <1> QED
    BY <1>2, <1>5 DEF At, Walks

LEMMA AtWhile ==
    ASSUME NEW s \in Seq(Frame), NEW g, NEW o, NEW l \in BOOLEAN, NEW fr \in BOOLEAN, NEW hs,
           At(s, g, o, l, fr, hs), ~Hidden(s), NEW o2, o \subseteq o2,
           NEW cond, NEW f \in Frame, WhileFrame(g, cond, f), NEW t, t = <<f>> \o s
    PROVE  At(t, WhileBlocks(g, cond, l), o2, Taken(l, cond), FALSE,
              Heads(hs \cup NeverWhile(g, cond), fr, First(g, 3)))
  <1>1. PICK ctx : Walk(Outer(s), ctx, g, o, l, fr, hs)
    BY DEF At
  <1>2. PICK nest, nest2 : nest = Outer(s) /\ nest2 = Outer(t)
    OBVIOUS
  <1>3. Seen(nest, Len(nest)) /\ Deeper(nest, f, nest2)
    BY <1>2, Hiding, OuterPushed
  <1>4. Walk(nest, ctx, g, o, l, fr, hs)
    BY <1>1, <1>2
  <1>5. Walks(nest2, WhileBlocks(g, cond, l), o2, Taken(l, cond), FALSE,
             Heads(hs \cup NeverWhile(g, cond), fr, First(g, 3)))
    BY <1>3, <1>4, WhileStep
  <1> QED
    BY <1>2, <1>5 DEF At, Walks

LEMMA AtForIn ==
    ASSUME NEW s \in Seq(Frame), NEW g, NEW o, NEW l \in BOOLEAN, NEW fr \in BOOLEAN, NEW hs,
           At(s, g, o, l, fr, hs), ~Hidden(s), NEW o2, o \subseteq o2,
           NEW f \in Frame, ForInFrame(Size(AddInstruction(g, l)), f), NEW t, t = <<f>> \o s
    PROVE  At(t, ForInBlocks(g, l), o2, l, FALSE, Heads(hs, fr, First(g, 0)))
  <1>1. PICK ctx : Walk(Outer(s), ctx, g, o, l, fr, hs)
    BY DEF At
  <1>2. PICK nest, nest2 : nest = Outer(s) /\ nest2 = Outer(t)
    OBVIOUS
  <1>3. Seen(nest, Len(nest)) /\ Deeper(nest, f, nest2)
    BY <1>2, Hiding, OuterPushed
  <1>4. Walk(nest, ctx, g, o, l, fr, hs)
    BY <1>1, <1>2
  <1>5. Walks(nest2, ForInBlocks(g, l), o2, l, FALSE, Heads(hs, fr, First(g, 0)))
    BY <1>3, <1>4, ForInStep
  <1> QED
    BY <1>2, <1>5 DEF At, Walks

LEMMA AtFunction ==
    ASSUME NEW s \in Seq(Frame), NEW g, NEW o, NEW l, NEW fr, NEW hs,
           At(s, g, o, l, fr, hs), l = TRUE, ~Hidden(s),
           NEW f \in Frame, FunctionFrame(g, f), NEW t, t = <<f>> \o s
    PROVE  At(t, BeginFunction(g), o, TRUE, FALSE, hs)
  <1>1. PICK ctx : Walk(Outer(s), ctx, g, o, l, fr, hs)
    BY DEF At
  <1>2. PICK nest, nest2 : nest = Outer(s) /\ nest2 = Outer(t)
    OBVIOUS
  <1>3. Seen(nest, Len(nest)) /\ Deeper(nest, f, nest2)
    BY <1>2, Hiding, OuterPushed
  <1>4. \E ctx2 : Walk(nest2, ctx2, BeginFunction(g), o, TRUE, FALSE, hs)
    BY <1>1, <1>2, <1>3, FunctionStep
  <1> QED
    BY <1>2, <1>4 DEF At

LEMMA AtThen ==
    ASSUME NEW s \in Seq(Frame), NEW g, NEW o, NEW l, NEW fr, NEW hs,
           At(s, g, o, l, fr, hs), ~Hidden(s), s # <<>>,
           NEW f, f = Head(s), f.kind = "then", NEW t, t = Tail(s), NEW l2
    PROVE  At(t, IfEnds(g, f.hasElse, f.after), o, l2, FALSE, hs)
  <1>1. PICK ctx : Walk(Outer(s), ctx, g, o, l, fr, hs)
    BY DEF At
  <1>2. PICK nest, nest2 : nest = Outer(s) /\ nest2 = Outer(t)
    OBVIOUS
  <1>3. Seen(nest, Len(nest)) /\ nest2 \in Seq(Frame) /\ Deeper(nest2, f, nest)
    BY <1>2, Hiding, OuterPopped
  <1>4. \E ctx2 : Walk(nest2, ctx2, IfEnds(g, f.hasElse, f.after), o, l2, FALSE, hs)
    BY <1>1, <1>2, <1>3, ThenStep
  <1> QED
    BY <1>2, <1>4 DEF At

LEMMA AtLoop ==
    ASSUME NEW s \in Seq(Frame), NEW g, NEW o, NEW l, NEW fr, NEW hs,
           At(s, g, o, l, fr, hs), ~Hidden(s), s # <<>>,
           NEW f, f = Head(s), f.kind \in Loops, NEW t, t = Tail(s),
           NEW l2, l2 => f.cond # "true" \/ "live" \in f.left,
           NEW fr2, fr2 => f.cond = "true" /\ f.left = {}
    PROVE  At(t, LoopEnds(g, f.test, f.after), o, l2, fr2, hs)
  <1>1. PICK ctx : Walk(Outer(s), ctx, g, o, l, fr, hs)
    BY DEF At
  <1>2. PICK nest, nest2 : nest = Outer(s) /\ nest2 = Outer(t)
    OBVIOUS
  <1>3. Seen(nest, Len(nest)) /\ nest2 \in Seq(Frame) /\ Deeper(nest2, f, nest)
    BY <1>2, Hiding, OuterPopped
  <1>4. \E ctx2 : Walk(nest2, ctx2, LoopEnds(g, f.test, f.after), o, l2, fr2, hs)
    BY <1>1, <1>2, <1>3, LoopStep
  <1> QED
    BY <1>2, <1>4 DEF At

LEMMA AtFunctionEnd ==
    ASSUME NEW s \in Seq(Frame), NEW g, NEW o, NEW l, NEW fr, NEW hs,
           At(s, g, o, l, fr, hs), ~Hidden(s), s # <<>>,
           NEW f, f = Head(s), f.kind = "function", NEW t, t = Tail(s), NEW l2
    PROVE  At(t, EndFunction(g, f.prev), o, l2, FALSE, hs)
  <1>1. PICK ctx : Walk(Outer(s), ctx, g, o, l, fr, hs)
    BY DEF At
  <1>2. PICK nest, nest2 : nest = Outer(s) /\ nest2 = Outer(t)
    OBVIOUS
  <1>3. Seen(nest, Len(nest)) /\ nest2 \in Seq(Frame) /\ Deeper(nest2, f, nest)
    BY <1>2, Hiding, OuterPopped
  <1>4. \E ctx2 : Walk(nest2, ctx2, EndFunction(g, f.prev), o, l2, FALSE, hs)
    BY <1>1, <1>2, <1>3, FunctionEndStep
  <1> QED
    BY <1>2, <1>4 DEF At

\* Frame i is the innermost of those a jump may leave.
Innermost(s, i, kinds) ==
    /\ i \in 1 .. Len(s) /\ s[i].kind \in kinds
    /\ \A k \in 1 .. i - 1 : s[k].kind \notin kinds \cup {"function", "again"}

LEMMA AtContinue ==
    ASSUME NEW s \in Seq(Frame), NEW g, NEW o, NEW l \in BOOLEAN, NEW fr \in BOOLEAN, NEW hs,
           At(s, g, o, l, fr, hs), ~Hidden(s), NEW o2, o \subseteq o2, NEW fr2,
           NEW i, Innermost(s, i, Loops)
    PROVE  At(s, JumpBlock(g, Head(g.continues), l), o2, FALSE, fr2, hs)
  <1>1. PICK ctx : Walk(Outer(s), ctx, g, o, l, fr, hs)
    BY DEF At
  <1>2. PICK nest : nest = Outer(s)
    OBVIOUS
  <1>3. Seen(nest, Len(nest))
    BY <1>2, Hiding
  <1>4. i \in 1 .. Len(s)
    BY DEF Innermost
  <1>5. PICK x \in {"live", "dead"} : TRUE
    OBVIOUS
  <1>6. PICK f2, t : LeftBy(s[i], x, f2) /\ Replaced(s, i, f2, t)
    BY DEF LeftBy, Replaced
  <1>7. PICK j \in 1 .. Len(nest) :
           nest[j] = s[i] /\ \A r \in j + 1 .. Len(nest) : \E k \in 1 .. i - 1 : nest[r] = s[k]
    <2>1. \E j \in 1 .. Len(Outer(s)) : LeftAt(s, i, x, t, j)
      BY <1>4, <1>6, OuterLeft
    <2> QED
      BY <1>2, <2>1 DEF LeftAt
  <1>8. nest[j].kind \in Loops /\ \A r \in j + 1 .. Len(nest) : nest[r].kind \notin Loops
    BY <1>7 DEF Innermost
  <1>9. Walk(nest, ctx, JumpBlock(g, Head(g.continues), l), o2, FALSE, fr2, hs)
    BY <1>1, <1>2, <1>3, <1>8, ContinueStep
  <1> QED
    BY <1>2, <1>9 DEF At

LEMMA AtBreakLoop ==
    ASSUME NEW s \in Seq(Frame), NEW g, NEW o, NEW l \in BOOLEAN, NEW fr \in BOOLEAN, NEW hs,
           At(s, g, o, l, fr, hs), ~Hidden(s), NEW o2, o \subseteq o2, NEW fr2,
           NEW kinds, Loops \subseteq kinds, NEW i, Innermost(s, i, kinds), s[i].kind \in Loops,
           NEW x \in {"live", "dead"}, NEW f2, LeftBy(s[i], x, f2), NEW t, Replaced(s, i, f2, t)
    PROVE  At(t, JumpBlock(g, Head(g.breaks), l), o2, FALSE, fr2, hs)
  <1>1. PICK ctx : Walk(Outer(s), ctx, g, o, l, fr, hs)
    BY DEF At
  <1>2. PICK nest, nest2 : nest = Outer(s) /\ nest2 = Outer(t)
    OBVIOUS
  <1>3. Seen(nest, Len(nest))
    BY <1>2, Hiding
  <1>4. i \in 1 .. Len(s)
    BY DEF Innermost
  <1>5. PICK j \in 1 .. Len(nest) :
           /\ nest[j] = s[i] /\ Left(nest, j, x, nest2)
           /\ \A r \in j + 1 .. Len(nest) : \E k \in 1 .. i - 1 : nest[r] = s[k]
    <2>1. \E j \in 1 .. Len(Outer(s)) : LeftAt(s, i, x, t, j)
      BY <1>4, OuterLeft
    <2> QED
      BY <1>2, <2>1 DEF LeftAt
  <1>6. nest[j].kind \in Loops /\ \A r \in j + 1 .. Len(nest) : nest[r].kind \notin Loops
    BY <1>5 DEF Innermost
  <1>7. Walk(nest2, ctx, JumpBlock(g, Head(g.breaks), l), o2, FALSE, fr2, hs)
    BY <1>1, <1>2, <1>3, <1>5, <1>6, BreakLoopStep, ZenonT(40)
  <1> QED
    BY <1>2, <1>7 DEF At

LEMMA AtContinueAstray ==
    ASSUME NEW s \in Seq(Frame), NEW g, NEW o, NEW l \in BOOLEAN, NEW fr \in BOOLEAN, NEW hs,
           At(s, g, o, l, fr, hs), ~Hidden(s), NEW o2, o \subseteq o2, NEW fr2,
           ~Straight(o2), g.continues # <<>>
    PROVE  At(s, JumpBlock(g, Head(g.continues), l), o2, FALSE, fr2, hs)
  <1>1. PICK ctx : Walk(Outer(s), ctx, g, o, l, fr, hs)
    BY DEF At
  <1>2. PICK nest, to : nest = Outer(s) /\ to = Head(g.continues)
    OBVIOUS
  <1>3. Seen(nest, Len(nest))
    BY <1>2, Hiding
  <1>4. \E q \in 1 .. Len(nest) : to \in Targets(nest[q])
    BY <1>1, <1>2, SomeLoop
  <1>5. Walk(nest, ctx, JumpBlock(g, to, l), o2, FALSE, fr2, hs)
    BY <1>1, <1>2, <1>3, <1>4, AstrayStep
  <1> QED
    BY <1>2, <1>5 DEF At

LEMMA AtBreakAstray ==
    ASSUME NEW s \in Seq(Frame), NEW g, NEW o, NEW l \in BOOLEAN, NEW fr \in BOOLEAN, NEW hs,
           At(s, g, o, l, fr, hs), ~Hidden(s), NEW o2, o \subseteq o2, NEW fr2,
           ~Straight(o2), Excused(Function(g), o2), g.breaks # <<>>,
           NEW i \in 1 .. Len(s), \A k \in 1 .. i : s[k].kind # "function",
           NEW x \in {"live", "dead"}, NEW f2, LeftBy(s[i], x, f2), NEW t, Replaced(s, i, f2, t)
    PROVE  At(t, JumpBlock(g, Head(g.breaks), l), o2, FALSE, fr2, hs)
  <1>1. PICK ctx : Walk(Outer(s), ctx, g, o, l, fr, hs)
    BY DEF At
  <1>2. PICK nest, nest2 : nest = Outer(s) /\ nest2 = Outer(t)
    OBVIOUS
  <1>3. Seen(nest, Len(nest))
    BY <1>2, Hiding
  <1>4. PICK j \in 1 .. Len(nest) :
           /\ Left(nest, j, x, nest2)
           /\ \A r \in j .. Len(nest) : \E k \in 1 .. i : nest[r] = s[k]
    <2>1. \E j \in 1 .. Len(Outer(s)) : LeftAt(s, i, x, t, j)
      BY OuterLeft
    <2> QED
      BY <1>2, <2>1 DEF LeftAt
  <1>5. \A r \in j .. Len(nest) : nest[r].kind # "function"
    BY <1>4
  <1>6. Walk(nest2, ctx, JumpBlock(g, Head(g.breaks), l), o2, FALSE, fr2, hs)
    BY <1>1, <1>2, <1>3, <1>4, <1>5, BreakAstrayStep, ZenonT(40)
  <1> QED
    BY <1>2, <1>6 DEF At

LEMMA AtBreakUnseen ==
    ASSUME NEW s \in Seq(Frame), NEW g, NEW o, NEW l, NEW fr, NEW hs,
           At(s, g, o, l, fr, hs), Hidden(s), NEW o2, o \subseteq o2, NEW l2, NEW fr2,
           Excused(Function(g), o2),
           NEW i \in 1 .. Len(s), \A k \in 1 .. i : s[k].kind # "function",
           NEW x \in {"live", "dead"}, NEW f2, LeftBy(s[i], x, f2), NEW t, Replaced(s, i, f2, t)
    PROVE  At(t, g, o2, l2, fr2, hs)
  <1>1. PICK ctx : Walk(Outer(s), ctx, g, o, l, fr, hs)
    BY DEF At
  <1>2. PICK nest, nest2 : nest = Outer(s) /\ nest2 = Outer(t)
    OBVIOUS
  <1>3. ~Seen(nest, Len(nest))
    BY <1>2, Hiding
  <1>4. PICK j \in 1 .. Len(nest) :
           /\ Left(nest, j, x, nest2)
           /\ \A r \in j .. Len(nest) : \E k \in 1 .. i : nest[r] = s[k]
    <2>1. \E j \in 1 .. Len(Outer(s)) : LeftAt(s, i, x, t, j)
      BY OuterLeft
    <2> QED
      BY <1>2, <2>1 DEF LeftAt
  <1>5. \A r \in j .. Len(nest) : nest[r].kind # "function"
    BY <1>4
  <1>6. Walk(nest2, ctx, g, o2, l2, fr2, hs)
    BY <1>1, <1>2, <1>3, <1>4, <1>5, BreakUnseenStep
  <1> QED
    BY <1>2, <1>6 DEF At

LEMMA QuietFollows ==
    ASSUME NEW s \in Seq(Frame), NEW g, NEW o, NEW l, NEW fr, NEW hs, At(s, g, o, l, fr, hs),
           NEW o2, o \subseteq o2, l \/ Hidden(s) \/ Excused(Function(g), o2),
           NEW t, NEW l2, NEW fr2, Hidden(t) \/ ~fr2
    PROVE  Follows(t, g, o2, l2, fr2)
  <1>1. g.block[g.current].function = Function(g) /\ Leads(g, g.current, l \/ Hidden(s), o)
    BY AtFacts
  <1>2. PICK f : f = g.block[g.current].function
    OBVIOUS
  <1>3. Excused(f, o) => Excused(f, o2)
    BY ExcusedKept
  <1> QED
    BY <1>1, <1>2, <1>3 DEF Follows, Leads

-----------------------------------------------------------------------------
(* The invariant, and what each action does to it.                          *)

\* What is known at the end.
Outcome ==
    /\ Formed(cfg)
    /\ Sound(cfg, odd)
    /\ Straight(odd) => Begins(<<>>, cfg, heads)

CfgInv ==
    /\ open \in Seq(Frame) /\ live \in BOOLEAN /\ fresh \in BOOLEAN
    /\ ended = "no" => At(open, cfg, odd, live, fresh, heads)
    /\ ended = "done" => Outcome

\* While the text is read.
Reading ==
    /\ open \in Seq(Frame) /\ live \in BOOLEAN /\ fresh \in BOOLEAN /\ ended = "no"
    /\ At(open, cfg, odd, live, fresh, heads)

LEMMA BuildsFacts ==
    ASSUME NEW g, NEW blocks, NEW cond, NEW never, Builds(g, blocks, cond, never)
    PROVE  /\ odd \subseteq odd'
           /\ Hidden(open) => cfg' = cfg /\ heads' = heads
           /\ ~Hidden(open) => cfg' = g /\ heads' = Heads(heads \cup never, fresh, First(cfg, blocks))
  <1>1. Unseen <=> Hidden(open)
    BY DEF Unseen, Hidden
  <1>2. CASE Unseen
    BY <1>1, <1>2 DEF Builds
  <1>3. CASE ~Unseen
    <2>1. PICK b : b = First(cfg, blocks)
      OBVIOUS
    <2>2. b = IF HasAfter(cfg, cfg.current) THEN Size(cfg) + blocks + 1 ELSE cfg.current
      BY <2>1 DEF First
    <2>3. cfg' = g /\ odd \subseteq odd' /\ heads' = (heads \cup never) \cup (IF fresh THEN {b} ELSE {})
      BY <1>3, <2>2 DEF Builds
    <2> QED
      BY <1>1, <1>3, <2>1, <2>3 DEF Heads
  <1> QED
    BY <1>2, <1>3

LEMMA JumpsFacts ==
    ASSUME NEW g, NEW astray, Jumps(g, astray)
    PROVE  /\ odd \subseteq odd' /\ heads' = heads /\ live' = FALSE
           /\ Hidden(open) => cfg' = cfg /\ Excused(Function(cfg), odd')
           /\ ~Hidden(open) => cfg' = g
           /\ astray => ~Straight(odd') /\ Excused(Function(cfg), odd')
  <1>1. Unseen <=> Hidden(open)
    BY DEF Unseen, Hidden
  <1>2. /\ odd \subseteq odd' /\ heads' = heads /\ live' = FALSE /\ cfg' = IF Unseen THEN cfg ELSE g
        /\ Tags(Unseen, "unseen jump") \subseteq odd' /\ Tags(astray, "astray") \subseteq odd'
    BY DEF Jumps
  <1>3. Unseen => <<Function(cfg), "unseen jump">> \in odd'
    BY <1>2 DEF Tags, Odd
  <1>4. astray => <<Function(cfg), "astray">> \in odd'
    BY <1>2 DEF Tags, Odd
  <1>5. astray => ~Straight(odd') /\ Excused(Function(cfg), odd')
    BY <1>4 DEF Straight, Excused, Excuses
  <1>6. Unseen => Excused(Function(cfg), odd')
    BY <1>3 DEF Excused, Excuses
  <1> QED
    BY <1>1, <1>2, <1>5, <1>6

LEMMA SimpleKeeps ==
    ASSUME Reading, Simple
    PROVE  Reading'
  <1>1. /\ open' = open /\ live' = live /\ fresh' = FALSE /\ ended' = "no"
        /\ Builds(AddInstruction(cfg, live), 0, "any", {})
    BY DEF Simple, Read, Reading
  <1>2. PICK s \in Seq(Frame), l \in BOOLEAN, fr \in BOOLEAN :
           s = open /\ l = live /\ fr = fresh /\ At(s, cfg, odd, l, fr, heads)
    BY DEF Reading
  <1>3. At(open', cfg', odd', live', fresh', heads')
    <2>1. CASE Hidden(s)
      <3>1. cfg' = cfg /\ heads' = heads /\ odd \subseteq odd'
        BY <1>1, <1>2, <2>1, BuildsFacts
      <3>2. Follows(s, cfg, odd', l, FALSE)
        BY <1>2, <2>1, <3>1, QuietFollows
      <3>3. At(s, cfg, odd', l, FALSE, heads)
        BY <1>2, <3>1, <3>2, AtStay
      <3> QED
        BY <1>1, <1>2, <3>1, <3>3
    <2>2. CASE ~Hidden(s)
      <3>1. /\ cfg' = AddInstruction(cfg, live) /\ odd \subseteq odd'
            /\ heads' = Heads(heads \cup {}, fresh, First(cfg, 0))
        BY <1>1, <1>2, <2>2, BuildsFacts
      <3>2. heads \cup {} = heads
        OBVIOUS
      <3>3. At(s, AddInstruction(cfg, l), odd', l, FALSE, Heads(heads, fr, First(cfg, 0)))
        BY <1>2, <2>2, <3>1, AtSimple
      <3> QED
        BY <1>1, <1>2, <3>1, <3>2, <3>3
    <2> QED
      BY <2>1, <2>2
  <1> QED
    BY <1>1, <1>3 DEF Reading

LEMMA PlainKeeps ==
    ASSUME Reading, Plain
    PROVE  Reading'
  <1>1. /\ open' = open /\ cfg' = cfg /\ live' = live /\ fresh' = fresh /\ odd' = odd /\ heads' = heads
        /\ ended' = "no"
    BY DEF Plain, Read, Reading
  <1> QED
    BY <1>1 DEF Reading

LEMMA ThrowKeeps ==
    ASSUME Reading, Throw
    PROVE  Reading'
  <1>1. /\ open' = open /\ cfg' = cfg /\ live' = FALSE /\ fresh' = fresh /\ odd \subseteq odd'
        /\ heads' = heads /\ ended' = "no"
    BY DEF Throw, Read, Reading
  <1>2. PICK s \in Seq(Frame), l \in BOOLEAN, fr \in BOOLEAN :
           s = open /\ l = live /\ fr = fresh /\ At(s, cfg, odd, l, fr, heads)
    BY DEF Reading
  <1>3. Follows(s, cfg, odd', FALSE, fr)
    <2>1. Leads(cfg, cfg.current, l \/ Hidden(s), odd) /\ (Straight(odd) /\ fr /\ ~Hidden(s) => Afresh(cfg))
      BY <1>2, AtFacts
    <2>2. Leads(cfg, cfg.current, FALSE \/ Hidden(s), odd')
      BY <1>1, <2>1, ExcusedKept DEF Leads
    <2>3. Straight(odd') => Straight(odd)
      BY <1>1 DEF Straight
    <2> QED
      BY <2>1, <2>2, <2>3 DEF Follows
  <1>4. At(s, cfg, odd', FALSE, fr, heads)
    BY <1>1, <1>2, <1>3, AtStay
  <1> QED
    BY <1>1, <1>2, <1>4 DEF Reading

LEMMA ReturnKeeps ==
    ASSUME Reading, Return
    PROVE  Reading'
  <1>1. open' = open /\ fresh' \in BOOLEAN /\ ended' = "no" /\ Jumps(ReturnBlocks(cfg, live), InSwitch)
    BY DEF Return, Read, Reading, Jumps
  <1>2. PICK s \in Seq(Frame), l \in BOOLEAN, fr \in BOOLEAN :
           s = open /\ l = live /\ fr = fresh /\ At(s, cfg, odd, l, fr, heads)
    BY DEF Reading
  <1>3. odd \subseteq odd' /\ heads' = heads /\ live' = FALSE
    BY <1>1, JumpsFacts
  <1>4. PICK fr2 : fr2 = fresh'
    OBVIOUS
  <1>5. At(open', cfg', odd', live', fresh', heads')
    <2>1. CASE Hidden(s)
      <3>1. cfg' = cfg
        BY <1>1, <1>2, <2>1, JumpsFacts
      <3>2. Follows(s, cfg, odd', FALSE, fr2)
        BY <1>2, <1>3, <2>1, QuietFollows
      <3>3. At(s, cfg, odd', FALSE, fr2, heads)
        BY <1>2, <1>3, <3>2, AtStay
      <3> QED
        BY <1>1, <1>2, <1>3, <1>4, <3>1, <3>3
    <2>2. CASE ~Hidden(s)
      <3>1. cfg' = ReturnBlocks(cfg, live)
        BY <1>1, <1>2, <2>2, JumpsFacts
      <3>2. At(s, ReturnBlocks(cfg, l), odd', FALSE, fr2, heads)
        BY <1>2, <1>3, <2>2, AtReturn
      <3> QED
        BY <1>1, <1>2, <1>3, <1>4, <3>1, <3>2
    <2> QED
      BY <2>1, <2>2
  <1> QED
    BY <1>1, <1>3, <1>5 DEF Reading

LEMMA LeavesInnermost ==
    ASSUME open \in Seq(Frame), NEW kinds, NEW i \in Leaves(kinds)
    PROVE  Innermost(open, i, kinds)
  <1>1. PICK around : around = {k \in DOMAIN open : open[k].kind \in kinds \cup {"function", "again"}}
    OBVIOUS
  <1>2. i \in around /\ open[i].kind \in kinds /\ \A j \in around : i <= j
    BY <1>1 DEF Leaves
  <1>3. DOMAIN open = 1 .. Len(open)
    OBVIOUS
  <1>4. i \in 1 .. Len(open)
    BY <1>1, <1>2, <1>3
  <1>5. \A k \in 1 .. i - 1 : k \in 1 .. Len(open) /\ ~(i <= k)
    BY <1>4
  <1>6. \A k \in 1 .. i - 1 : k \notin around
    BY <1>2, <1>5
  <1>7. \A k \in 1 .. i - 1 : open[k].kind \notin kinds \cup {"function", "again"}
    BY <1>1, <1>3, <1>5, <1>6
  <1> QED
    BY <1>2, <1>4, <1>7 DEF Innermost

LEMMA ContinueKeeps ==
    ASSUME Reading, Continue
    PROVE  CfgInv'
  <1>1. PICK kinds : kinds = {"while", "for in", "for"}
    OBVIOUS
  <1>2. open' = open /\ Leaves(kinds) # {}
    BY <1>1 DEF Continue
  <1>3. PICK s \in Seq(Frame), l \in BOOLEAN, fr \in BOOLEAN :
           s = open /\ l = live /\ fr = fresh /\ At(s, cfg, odd, l, fr, heads)
    BY DEF Reading
  <1>4. PICK i : Innermost(s, i, kinds)
    BY <1>2, <1>3, LeavesInnermost
  <1>5. Unseen <=> Hidden(s)
    BY <1>3 DEF Unseen, Hidden
  <1>6. CASE cfg.continues = <<>> /\ ~Unseen
    <2>1. ended' = "error" /\ live' = live /\ fresh' = fresh
      BY <1>6 DEF Continue
    <2> QED
      BY <1>2, <1>3, <2>1 DEF CfgInv
  <1>7. CASE ~(cfg.continues = <<>> /\ ~Unseen)
    <2>1. ended' = "no" /\ Jumps(JumpBlock(cfg, Head(cfg.continues), live), InSwitch) /\ fresh' \in BOOLEAN
      BY <1>7 DEF Continue, Read, Jumps, Reading
    <2>2. odd \subseteq odd' /\ heads' = heads /\ live' = FALSE
      BY <2>1, JumpsFacts
    <2>3. PICK fr2 : fr2 = fresh'
      OBVIOUS
    <2>4. At(s, cfg', odd', FALSE, fr2, heads)
      <3>1. CASE Hidden(s)
        <4>1. cfg' = cfg
          BY <1>3, <2>1, <3>1, JumpsFacts
        <4>2. Follows(s, cfg, odd', FALSE, fr2)
          BY <1>3, <2>2, <3>1, QuietFollows
        <4>3. At(s, cfg, odd', FALSE, fr2, heads)
          BY <1>3, <2>2, <4>2, AtStay
        <4> QED
          BY <4>1, <4>3
      <3>2. CASE ~Hidden(s) /\ ~InSwitch
        <4>1. cfg' = JumpBlock(cfg, Head(cfg.continues), live)
          BY <1>3, <2>1, <3>2, JumpsFacts
        <4>2. Innermost(s, i, Loops)
          <5>1. i \in DOMAIN open
            BY <1>3, <1>4 DEF Innermost
          <5>2. s[i].kind # "for"
            BY <1>3, <3>2, <5>1 DEF InSwitch
          <5> QED
            BY <1>1, <1>4, <5>2 DEF Innermost, Loops
        <4>3. At(s, JumpBlock(cfg, Head(cfg.continues), l), odd', FALSE, fr2, heads)
          BY <1>3, <2>2, <3>2, <4>2, AtContinue
        <4> QED
          BY <1>3, <4>1, <4>3
      <3>3. CASE ~Hidden(s) /\ InSwitch
        <4>1. cfg' = JumpBlock(cfg, Head(cfg.continues), live) /\ ~Straight(odd')
          BY <1>3, <2>1, <3>3, JumpsFacts
        <4>2. cfg.continues # <<>>
          BY <1>5, <1>7, <3>3
        <4>3. At(s, JumpBlock(cfg, Head(cfg.continues), l), odd', FALSE, fr2, heads)
          BY <1>3, <2>2, <3>3, <4>1, <4>2, AtContinueAstray
        <4> QED
          BY <1>3, <4>1, <4>3
      <3> QED
        BY <3>1, <3>2, <3>3
    <2> QED
      BY <1>2, <1>3, <2>1, <2>2, <2>3, <2>4 DEF CfgInv
  <1> QED
    BY <1>6, <1>7

LEMMA AroundInside ==
    ASSUME open \in Seq(Frame), NEW kinds, NEW i \in Around(kinds)
    PROVE  /\ i \in 1 .. Len(open) /\ open[i].kind \in kinds
           /\ \A k \in 1 .. i : open[k].kind # "function"
  BY DEF Around

LEMMA BreakKeeps ==
    ASSUME Reading, Break
    PROVE  CfgInv'
  <1>1. PICK kinds : kinds = {"while", "for in", "for", "switch"}
    OBVIOUS
  <1>2. PICK i \in Around(kinds) :
           /\ open' = [open EXCEPT ![i].left = @ \cup {IF live THEN "live" ELSE "dead"}]
           /\ IF cfg.breaks = <<>> /\ ~Unseen
              THEN ended' = "error" /\ live' = live /\ fresh' = fresh
              ELSE /\ Jumps(JumpBlock(cfg, Head(cfg.breaks), live), InSwitch \/ i \notin Leaves(kinds))
                   /\ ended' = ended
    BY <1>1 DEF Break
  <1>3. PICK s \in Seq(Frame), l \in BOOLEAN, fr \in BOOLEAN :
           s = open /\ l = live /\ fr = fresh /\ At(s, cfg, odd, l, fr, heads)
    BY DEF Reading
  <1>4. i \in 1 .. Len(s) /\ s[i].kind \in kinds /\ \A k \in 1 .. i : s[k].kind # "function"
    BY <1>2, <1>3, AroundInside
  <1>5. Unseen <=> Hidden(s)
    BY <1>3 DEF Unseen, Hidden
  <1>6. PICK x \in {"live", "dead"} : x = IF live THEN "live" ELSE "dead"
    OBVIOUS
  <1>7. PICK f2, t : LeftBy(s[i], x, f2) /\ Replaced(s, i, f2, t) /\ t = open'
    <2>1. PICK f2 : f2 = [s[i] EXCEPT !.left = s[i].left \cup {x}]
      OBVIOUS
    <2>2. open' = [s EXCEPT ![i] = f2]
      BY <1>2, <1>3, <1>6, <2>1
    <2> QED
      BY <2>1, <2>2 DEF LeftBy, Replaced
  <1>8. t \in Seq(Frame)
    BY <1>4, <1>7, OuterLeft
  <1>9. CASE cfg.breaks = <<>> /\ ~Unseen
    <2>1. ended' = "error" /\ live' = live /\ fresh' = fresh
      BY <1>2, <1>9
    <2> QED
      BY <1>7, <1>8, <2>1 DEF CfgInv, Reading
  <1>10. CASE ~(cfg.breaks = <<>> /\ ~Unseen)
    <2>1. PICK astray : astray = (InSwitch \/ i \notin Leaves(kinds))
      OBVIOUS
    <2>2. ended' = "no" /\ Jumps(JumpBlock(cfg, Head(cfg.breaks), live), astray)
      BY <1>2, <1>10, <2>1 DEF Reading
    <2>3. odd \subseteq odd' /\ heads' = heads /\ live' = FALSE
      BY <2>2, JumpsFacts
    <2>4. PICK fr2 \in BOOLEAN : fr2 = fresh'
      BY <2>2 DEF Jumps, Reading
    <2>5. At(t, cfg', odd', FALSE, fr2, heads)
      <3>1. CASE Hidden(s)
        <4>1. cfg' = cfg /\ Excused(Function(cfg), odd')
          BY <1>3, <2>2, <3>1, JumpsFacts
        <4>2. At(t, cfg, odd', FALSE, fr2, heads)
          BY <1>3, <1>4, <1>7, <2>3, <3>1, <4>1, AtBreakUnseen
        <4> QED
          BY <4>1, <4>2
      <3>2. CASE ~Hidden(s) /\ ~astray
        <4>1. cfg' = JumpBlock(cfg, Head(cfg.breaks), live)
          BY <1>3, <2>2, <3>2, JumpsFacts
        <4>2. Loops \subseteq kinds
          BY <1>1 DEF Loops
        <4>3. Innermost(s, i, kinds)
          BY <1>3, <2>1, <3>2, LeavesInnermost
        <4>4. s[i].kind \in Loops
          <5>1. ~InSwitch
            BY <2>1, <3>2
          <5>2. i \in DOMAIN open
            BY <1>3, <1>4
          <5>3. s[i].kind \notin {"for", "switch"}
            BY <1>3, <5>1, <5>2 DEF InSwitch
          <5>4. s[i].kind \in {"while", "for in", "for", "switch"}
            BY <1>1, <1>4
          <5> QED
            BY <5>3, <5>4 DEF Loops
        <4>5. At(t, JumpBlock(cfg, Head(cfg.breaks), l), odd', FALSE, fr2, heads)
          BY <1>3, <1>7, <2>3, <3>2, <4>2, <4>3, <4>4, AtBreakLoop
        <4> QED
          BY <1>3, <4>1, <4>5
      <3>3. CASE ~Hidden(s) /\ astray
        <4>1. cfg' = JumpBlock(cfg, Head(cfg.breaks), live) /\ ~Straight(odd') /\ Excused(Function(cfg), odd')
          BY <1>3, <2>2, <3>3, JumpsFacts
        <4>2. cfg.breaks # <<>>
          BY <1>5, <1>10, <3>3
        <4>3. At(t, JumpBlock(cfg, Head(cfg.breaks), l), odd', FALSE, fr2, heads)
          BY <1>3, <1>4, <1>7, <2>3, <3>3, <4>1, <4>2, AtBreakAstray
        <4> QED
          BY <1>3, <4>1, <4>3
      <3> QED
        BY <3>1, <3>2, <3>3
    <2> QED
      BY <1>7, <1>8, <2>2, <2>3, <2>4, <2>5 DEF CfgInv
  <1> QED
    BY <1>9, <1>10

LEMMA PanicKeeps ==
    ASSUME Reading, ConditionPanics
    PROVE  CfgInv'
  <1>1. ended' = "error" /\ open' = open /\ live' = live /\ fresh' = fresh
    BY DEF ConditionPanics
  <1> QED
    BY <1>1 DEF CfgInv, Reading

OpenedWith(k, c, e, r, t, a, p) ==
    [kind |-> k, cond |-> c, hasElse |-> e, live |-> r, other |-> FALSE, left |-> {},
     test |-> t, after |-> a, prev |-> p]

\* What is opened in an else clause.
LEMMA PushHidden ==
    ASSUME NEW s \in Seq(Frame), NEW g, NEW o, NEW l, NEW fr, NEW hs, At(s, g, o, l, fr, hs),
           Hidden(s), NEW o2, o \subseteq o2, NEW l2, NEW fr2, NEW f \in Frame, NEW t, t = <<f>> \o s
    PROVE  At(t, g, o2, l2, fr2, hs)
  <1>1. Hidden(t)
    BY HiddenPushed
  <1>2. Follows(t, g, o2, l2, fr2)
    BY <1>1, QuietFollows
  <1> QED
    BY <1>2, AtPushed

LEMMA OpenIfKeeps ==
    ASSUME Reading, NEW cond \in Conditions, NEW hasElse \in BOOLEAN, OpenIf(cond, hasElse)
    PROVE  Reading'
  <1>1. PICK s \in Seq(Frame), l \in BOOLEAN, fr \in BOOLEAN :
           s = open /\ l = live /\ fr = fresh /\ At(s, cfg, odd, l, fr, heads)
    BY DEF Reading
  <1>2. Size(cfg) \in Nat
    BY <1>1, AtFacts, CfgFields
  <1>3. PICK a \in Nat : a = Size(cfg) + 4
    BY <1>2
  <1>4. PICK f : f = [Opened("then") EXCEPT !.cond = cond, !.hasElse = hasElse,
                                            !.after = Size(cfg) + 4]
    OBVIOUS
  <1>5. f \in Frame /\ f.kind = "then" /\ f.hasElse = hasElse /\ f.after = a
    <2>1. f = [Opened("then") EXCEPT !.cond = cond, !.hasElse = hasElse, !.after = a]
      BY <1>3, <1>4
    <2>2. f = OpenedWith("then", cond, hasElse, live, 0, a, 0)
      BY ONLY <2>1 DEF Opened, OpenedWith
    <2>3. live \in BOOLEAN
      BY <1>1
    <2>4. f \in Frame
      BY ONLY <2>2, <2>3, cond \in Conditions, hasElse \in BOOLEAN, a \in Nat DEF OpenedWith, Frame
    <2> QED
      BY <2>2, <2>4 DEF OpenedWith
  <1>6. IfFrame(cfg, hasElse, f)
    BY <1>3, <1>5 DEF IfFrame
  <1>7. /\ open' = <<f>> \o s /\ live' = Taken(l, cond) /\ fresh' = FALSE /\ ended' = "no"
    <2>1. /\ open' = <<[Opened("then") EXCEPT !.cond = cond, !.hasElse = hasElse,
                                              !.after = Size(cfg) + 4]>> \o open
          /\ live' = (live /\ cond # "false") /\ fresh' = FALSE /\ ended' = "no"
      BY DEF OpenIf, Read, Reading
    <2> QED
      BY <1>1, <1>4, <2>1 DEF Taken
  <1>8. Builds(IfBlocks(cfg, cond, hasElse, live), 4, cond, Never(cfg, cond, hasElse))
    BY DEF OpenIf, Never
  <1>9. PICK t : t = <<f>> \o s
    OBVIOUS
  <1>10. t \in Seq(Frame) /\ live' \in BOOLEAN
    BY <1>1, <1>5, <1>7, <1>9, OuterPushed DEF Taken
  <1>11. At(t, cfg', odd', live', fresh', heads')
    <2>1. CASE Hidden(s)
      <3>1. cfg' = cfg /\ heads' = heads /\ odd \subseteq odd'
        BY <1>1, <1>8, <2>1, BuildsFacts
      <3>2. PICK l2, fr2 : l2 = live' /\ fr2 = fresh'
        OBVIOUS
      <3>3. At(t, cfg, odd', l2, fr2, heads)
        BY <1>1, <1>5, <1>9, <2>1, <3>1, PushHidden
      <3> QED
        BY <3>1, <3>2, <3>3
    <2>2. CASE ~Hidden(s)
      <3>1. /\ cfg' = IfBlocks(cfg, cond, hasElse, live) /\ odd \subseteq odd'
            /\ heads' = Heads(heads \cup Never(cfg, cond, hasElse), fresh, First(cfg, 4))
        BY <1>1, <1>8, <2>2, BuildsFacts
      <3>2. PICK e : e = hasElse
        OBVIOUS
      <3>3. IfFrame(cfg, e, f)
        BY <1>6, <3>2
      <3>4. At(t, IfBlocks(cfg, cond, e, l), odd', Taken(l, cond), FALSE,
               Heads(heads \cup Never(cfg, cond, e), fr, First(cfg, 4)))
        BY <1>1, <1>5, <1>9, <2>2, <3>1, <3>3, AtIf, ZenonT(40)
      <3> QED
        BY <1>1, <1>7, <3>1, <3>2, <3>4
    <2> QED
      BY <2>1, <2>2
  <1> QED
    BY <1>7, <1>9, <1>10, <1>11 DEF Reading

LEMMA OpenWhileKeeps ==
    ASSUME Reading, NEW cond \in Conditions, OpenWhile(cond)
    PROVE  Reading'
  <1>1. PICK s \in Seq(Frame), l \in BOOLEAN, fr \in BOOLEAN :
           s = open /\ l = live /\ fr = fresh /\ At(s, cfg, odd, l, fr, heads)
    BY DEF Reading
  <1>2. Size(cfg) \in Nat
    BY <1>1, AtFacts, CfgFields
  <1>3. PICK b \in Nat, a \in Nat : b = Size(cfg) + 1 /\ a = Size(cfg) + 3
    BY <1>2
  <1>4. PICK f : f = [Opened("while") EXCEPT !.cond = cond, !.test = Size(cfg) + 1,
                                             !.after = Size(cfg) + 3]
    OBVIOUS
  <1>5. f \in Frame /\ f.kind = "while" /\ f.cond = cond /\ f.left = {} /\ f.test = b /\ f.after = a
    <2>1. f = [Opened("while") EXCEPT !.cond = cond, !.test = b, !.after = a]
      BY <1>3, <1>4
    <2>2. f = OpenedWith("while", cond, FALSE, live, b, a, 0)
      BY ONLY <2>1 DEF Opened, OpenedWith
    <2>3. live \in BOOLEAN
      BY <1>1
    <2>4. f \in Frame
      BY ONLY <2>2, <2>3, cond \in Conditions, b \in Nat, a \in Nat DEF OpenedWith, Frame
    <2> QED
      BY <2>2, <2>4 DEF OpenedWith
  <1>6. WhileFrame(cfg, cond, f)
    BY <1>3, <1>5 DEF WhileFrame
  <1>7. /\ open' = <<f>> \o s /\ live' = Taken(l, cond) /\ fresh' = FALSE /\ ended' = "no"
    <2>1. /\ open' = <<[Opened("while") EXCEPT !.cond = cond, !.test = Size(cfg) + 1,
                                               !.after = Size(cfg) + 3]>> \o open
          /\ live' = (live /\ cond # "false") /\ fresh' = FALSE /\ ended' = "no"
      BY DEF OpenWhile, Read, Reading
    <2> QED
      BY <1>1, <1>4, <2>1 DEF Taken
  <1>8. Builds(WhileBlocks(cfg, cond, live), 3, cond, NeverWhile(cfg, cond))
    BY DEF OpenWhile, NeverWhile
  <1>9. PICK t : t = <<f>> \o s
    OBVIOUS
  <1>10. t \in Seq(Frame) /\ live' \in BOOLEAN
    BY <1>1, <1>5, <1>7, <1>9, OuterPushed DEF Taken
  <1>11. At(t, cfg', odd', live', fresh', heads')
    <2>1. CASE Hidden(s)
      <3>1. cfg' = cfg /\ heads' = heads /\ odd \subseteq odd'
        BY <1>1, <1>8, <2>1, BuildsFacts
      <3>2. PICK l2, fr2 : l2 = live' /\ fr2 = fresh'
        OBVIOUS
      <3>3. At(t, cfg, odd', l2, fr2, heads)
        BY <1>1, <1>5, <1>9, <2>1, <3>1, PushHidden
      <3> QED
        BY <3>1, <3>2, <3>3
    <2>2. CASE ~Hidden(s)
      <3>1. /\ cfg' = WhileBlocks(cfg, cond, live) /\ odd \subseteq odd'
            /\ heads' = Heads(heads \cup NeverWhile(cfg, cond), fresh, First(cfg, 3))
        BY <1>1, <1>8, <2>2, BuildsFacts
      <3>2. At(t, WhileBlocks(cfg, cond, l), odd', Taken(l, cond), FALSE,
               Heads(heads \cup NeverWhile(cfg, cond), fr, First(cfg, 3)))
        BY <1>1, <1>5, <1>6, <1>9, <2>2, <3>1, AtWhile, ZenonT(40)
      <3> QED
        BY <1>1, <1>7, <3>1, <3>2
    <2> QED
      BY <2>1, <2>2
  <1> QED
    BY <1>7, <1>9, <1>10, <1>11 DEF Reading

LEMMA OpenForInKeeps ==
    ASSUME Reading, OpenForIn
    PROVE  Reading'
  <1>1. PICK s \in Seq(Frame), l \in BOOLEAN, fr \in BOOLEAN :
           s = open /\ l = live /\ fr = fresh /\ At(s, cfg, odd, l, fr, heads)
    BY DEF Reading
  <1>2. PICK n \in Nat : n = Size(AddInstruction(cfg, l))
    <2>1. Formed(cfg)
      BY <1>1, AtFacts
    <2>2. Size(AddInstruction(cfg, l)) = Total(cfg, 0)
      BY <1>1, <2>1, SimpleMade
    <2>3. Total(cfg, 0) \in Nat
      BY <2>1, FirstType
    <2> QED
      BY <2>2, <2>3
  <1>3. PICK b \in Nat, a \in Nat : b = n + 2 /\ a = n + 4
    OBVIOUS
  <1>4. PICK f : f = [Opened("for in") EXCEPT !.test = n + 2, !.after = n + 4]
    OBVIOUS
  <1>5. f \in Frame /\ f.kind = "for in" /\ f.cond = "any" /\ f.left = {} /\ f.test = b /\ f.after = a
    <2>1. f = [Opened("for in") EXCEPT !.test = b, !.after = a]
      BY <1>3, <1>4
    <2>2. f = OpenedWith("for in", "any", FALSE, live, b, a, 0)
      BY ONLY <2>1 DEF Opened, OpenedWith
    <2>3. live \in BOOLEAN
      BY <1>1
    <2>4. f \in Frame
      BY ONLY <2>2, <2>3, b \in Nat, a \in Nat DEF OpenedWith, Frame
    <2> QED
      BY <2>2, <2>4 DEF OpenedWith
  <1>6. ForInFrame(Size(AddInstruction(cfg, l)), f)
    BY <1>2, <1>3, <1>5 DEF ForInFrame
  <1>7. /\ open' = <<f>> \o s /\ live' = l /\ fresh' = FALSE /\ ended' = "no"
    <2>1. /\ open' = <<[Opened("for in") EXCEPT !.test = n + 2, !.after = n + 4]>> \o open
          /\ live' = live /\ fresh' = FALSE /\ ended' = "no"
      BY <1>1, <1>2 DEF OpenForIn, Read, Reading
    <2> QED
      BY <1>1, <1>4, <2>1
  <1>8. Builds(ForInBlocks(cfg, live), 0, "any", {})
    BY DEF OpenForIn
  <1>9. PICK t : t = <<f>> \o s
    OBVIOUS
  <1>10. t \in Seq(Frame)
    BY <1>5, <1>9, OuterPushed
  <1>11. At(t, cfg', odd', live', fresh', heads')
    <2>1. CASE Hidden(s)
      <3>1. cfg' = cfg /\ heads' = heads /\ odd \subseteq odd'
        BY <1>1, <1>8, <2>1, BuildsFacts
      <3>2. PICK l2, fr2 : l2 = live' /\ fr2 = fresh'
        OBVIOUS
      <3>3. At(t, cfg, odd', l2, fr2, heads)
        BY <1>1, <1>5, <1>9, <2>1, <3>1, PushHidden
      <3> QED
        BY <3>1, <3>2, <3>3
    <2>2. CASE ~Hidden(s)
      <3>1. /\ cfg' = ForInBlocks(cfg, live) /\ odd \subseteq odd'
            /\ heads' = Heads(heads \cup {}, fresh, First(cfg, 0))
        BY <1>1, <1>8, <2>2, BuildsFacts
      <3>2. heads \cup {} = heads
        OBVIOUS
      <3>3. At(t, ForInBlocks(cfg, l), odd', l, FALSE, Heads(heads, fr, First(cfg, 0)))
        BY <1>1, <1>5, <1>6, <1>9, <2>2, <3>1, AtForIn
      <3> QED
        BY <1>1, <1>7, <3>1, <3>2, <3>3
    <2> QED
      BY <2>1, <2>2
  <1> QED
    BY <1>1, <1>7, <1>9, <1>10, <1>11 DEF Reading

\* A statement that is passed through is entered.
LEMMA PassedThrough ==
    ASSUME Reading, NEW kind \in {"for", "switch"}, NEW f, f = Opened(kind),
           open' = <<f>> \o open, cfg' = cfg, live' = live, fresh' = fresh, odd \subseteq odd',
           heads' = heads, ended' = "no"
    PROVE  Reading'
  <1>1. PICK s \in Seq(Frame), l \in BOOLEAN, fr \in BOOLEAN :
           s = open /\ l = live /\ fr = fresh /\ At(s, cfg, odd, l, fr, heads)
    BY DEF Reading
  <1>2. f = OpenedWith(kind, "any", FALSE, live, 0, 0, 0)
    BY ONLY f = Opened(kind) DEF Opened, OpenedWith
  <1>3. f \in Frame /\ f.kind = kind
    <2>1. live \in BOOLEAN
      BY <1>1
    <2>2. f \in Frame
      BY ONLY <1>2, <2>1, kind \in {"for", "switch"} DEF OpenedWith, Frame
    <2> QED
      BY <1>2, <2>2 DEF OpenedWith
  <1>4. PICK t : t = <<f>> \o s
    OBVIOUS
  <1>5. t \in Seq(Frame) /\ (Hidden(t) <=> Hidden(s))
    BY <1>3, <1>4, OuterPushed, HiddenPushed
  <1>6. Follows(t, cfg, odd', l, fr)
    <2>1. Leads(cfg, cfg.current, l \/ Hidden(s), odd) /\ (Straight(odd) /\ fr /\ ~Hidden(s) => Afresh(cfg))
      BY <1>1, AtFacts
    <2>2. Leads(cfg, cfg.current, l \/ Hidden(t), odd')
      BY <1>5, <2>1, ExcusedKept DEF Leads
    <2>3. Straight(odd') => Straight(odd)
      BY DEF Straight
    <2> QED
      BY <1>5, <2>1, <2>2, <2>3 DEF Follows
  <1>7. Passive(f)
    BY <1>3 DEF Passive
  <1>8. At(t, cfg, odd', l, fr, heads)
    BY <1>1, <1>3, <1>4, <1>6, <1>7, AtPushed
  <1> QED
    BY <1>1, <1>4, <1>5, <1>8 DEF Reading

LEMMA OpenSwitchKeeps ==
    ASSUME Reading, OpenSwitch
    PROVE  Reading'
  <1>1. PICK f, kind : f = Opened(kind) /\ kind = "switch"
    OBVIOUS
  <1>2. /\ open' = <<f>> \o open /\ cfg' = cfg /\ live' = live /\ fresh' = fresh /\ odd \subseteq odd'
        /\ heads' = heads /\ ended' = "no"
    BY <1>1 DEF OpenSwitch, Read, Reading
  <1> QED
    BY <1>1, <1>2, PassedThrough

LEMMA OpenForKeeps ==
    ASSUME Reading, OpenFor
    PROVE  Reading'
  <1>1. PICK f, kind : f = Opened(kind) /\ kind = "for"
    OBVIOUS
  <1>2. /\ open' = <<f>> \o open /\ cfg' = cfg /\ live' = live /\ fresh' = fresh /\ odd \subseteq odd'
        /\ heads' = heads /\ ended' = "no"
    BY <1>1 DEF OpenFor, Read, Reading
  <1> QED
    BY <1>1, <1>2, PassedThrough

LEMMA OpenFunctionKeeps ==
    ASSUME Reading, OpenFunction
    PROVE  Reading'
  <1>1. PICK s \in Seq(Frame), l \in BOOLEAN, fr \in BOOLEAN :
           s = open /\ l = live /\ fr = fresh /\ At(s, cfg, odd, l, fr, heads)
    BY DEF Reading
  <1>2. Formed(cfg)
    BY <1>1, AtFacts
  <1>3. PICK g, y : g = AddInstruction(cfg, TRUE) /\ y = TRUE
    OBVIOUS
  <1>4. PICK p \in Nat : p = g.current
    <2>1. Made(cfg, g, {}, {<<First(cfg, 0), TRUE>>})
      BY <1>2, <1>3, SimpleMade
    <2>2. g \in Cfgs
      BY <2>1 DEF Made
    <2> QED
      BY <2>2, CfgFields
  <1>5. PICK f : f = [Opened("function") EXCEPT !.prev = p]
    OBVIOUS
  <1>6. f \in Frame /\ f.kind = "function" /\ f.prev = p
    <2>1. f = OpenedWith("function", "any", FALSE, live, 0, 0, p)
      BY ONLY <1>5 DEF Opened, OpenedWith
    <2>2. live \in BOOLEAN
      BY <1>1
    <2>3. f \in Frame
      BY ONLY <2>1, <2>2, p \in Nat DEF OpenedWith, Frame
    <2> QED
      BY <2>1, <2>3 DEF OpenedWith
  <1>7. PICK t : t = <<f>> \o s
    OBVIOUS
  <1>8. /\ open' = t /\ live' = TRUE /\ fresh' = FALSE /\ heads' = heads /\ ended' = "no"
        /\ odd' = odd \cup Tags(Unseen, "unseen") \cup Tags(~live, "hoisted")
        /\ cfg' = IF Unseen THEN cfg ELSE BeginFunction(g)
    BY <1>1, <1>3, <1>4, <1>5, <1>7 DEF OpenFunction, Read, Reading
  <1>9. t \in Seq(Frame)
    BY <1>6, <1>7, OuterPushed
  <1>10. odd \subseteq odd'
    BY <1>8
  <1>11. Unseen <=> Hidden(s)
    BY <1>1 DEF Unseen, Hidden
  <1>12. At(t, cfg', odd', TRUE, FALSE, heads)
    <2>1. CASE Hidden(s)
      <3>1. At(t, cfg, odd', TRUE, FALSE, heads)
        BY <1>1, <1>6, <1>7, <1>10, <2>1, PushHidden
      <3> QED
        BY <1>8, <1>11, <2>1, <3>1
    <2>2. CASE ~Hidden(s)
      <3>1. l \/ Excused(Function(cfg), odd')
        <4>1. CASE ~live
          <5>1. <<Function(cfg), "hoisted">> \in odd'
            BY <1>8, <4>1 DEF Tags, Odd
          <5> QED
            BY <5>1 DEF Excused, Excuses
        <4> QED
          BY <1>1, <4>1
      <3>2. PICK no : no = FALSE
        OBVIOUS
      <3>3. Follows(s, cfg, odd', y, no)
        BY <1>1, <1>10, <3>1, <3>2, QuietFollows
      <3>4. At(s, cfg, odd', y, no, heads)
        BY <1>1, <1>10, <3>3, AtStay
      <3>5. y \in BOOLEAN /\ no \in BOOLEAN /\ odd' \subseteq odd'
        BY <1>3, <3>2
      <3>6. At(s, AddInstruction(cfg, y), odd', y, FALSE, Heads(heads, no, First(cfg, 0)))
        BY <2>2, <3>4, <3>5, AtSimple
      <3>7. Heads(heads, no, First(cfg, 0)) = heads
        BY <3>2 DEF Heads
      <3>8. At(s, g, odd', y, FALSE, heads)
        BY <1>3, <3>6, <3>7
      <3>9. FunctionFrame(g, f)
        BY <1>4, <1>6 DEF FunctionFrame
      <3>10. At(t, BeginFunction(g), odd', TRUE, FALSE, heads)
        BY <1>3, <1>6, <1>7, <2>2, <3>8, <3>9, AtFunction
      <3> QED
        BY <1>8, <1>11, <2>2, <3>10
    <2> QED
      BY <2>1, <2>2
  <1> QED
    BY <1>8, <1>9, <1>12 DEF Reading

\* The end of what is in an else clause.
LEMMA PopHidden ==
    ASSUME NEW s \in Seq(Frame), NEW g, NEW o, NEW l, NEW fr, NEW hs, At(s, g, o, l, fr, hs),
           s # <<>>, NEW t, t = Tail(s), Hidden(t), NEW o2, o \subseteq o2, NEW l2, NEW fr2
    PROVE  At(t, g, o2, l2, fr2, hs)
  <1>1. Hidden(s)
    BY HiddenPopped
  <1>2. Follows(t, g, o2, l2, fr2)
    BY <1>1, QuietFollows
  <1> QED
    BY <1>2, AtPopped

\* The end of a statement that builds nothing.
LEMMA PopPlain ==
    ASSUME NEW s \in Seq(Frame), NEW g, NEW o, NEW l, NEW fr, NEW hs, At(s, g, o, l, fr, hs),
           s # <<>>, NEW t, t = Tail(s), Passive(Head(s)), NEW o2, o \subseteq o2,
           l \/ Hidden(s) \/ Excused(Function(g), o2), NEW l2, NEW fr2, ~fr2
    PROVE  At(t, g, o2, l2, fr2, hs)
  <1>1. Follows(t, g, o2, l2, fr2)
    BY QuietFollows
  <1> QED
    BY <1>1, AtPopped

LEMMA EndElseKeeps ==
    ASSUME Reading, EndElse
    PROVE  Reading'
  <1>1. PICK s \in Seq(Frame), l \in BOOLEAN, fr \in BOOLEAN :
           s = open /\ l = live /\ fr = fresh /\ At(s, cfg, odd, l, fr, heads)
    BY DEF Reading
  <1>2. /\ s # <<>> /\ Head(s).kind = "else" /\ open' = Tail(s) /\ cfg' = cfg /\ odd' = odd
        /\ heads' = heads /\ fresh' = FALSE /\ ended' = "no" /\ live' = (l \/ Head(s).other)
    BY <1>1 DEF EndElse, Read, Reading
  <1>3. PICK t, l2, no : t = Tail(s) /\ l2 = live' /\ no = FALSE
    OBVIOUS
  <1>4. Head(s) \in Frame /\ t \in Seq(Frame)
    BY <1>2, <1>3, OuterPopped
  <1>5. Hidden(s) /\ Passive(Head(s))
    BY <1>2, HiddenPopped DEF Passive
  <1>6. At(t, cfg, odd, l2, no, heads)
    BY <1>1, <1>2, <1>3, <1>5, PopPlain
  <1>7. live' \in BOOLEAN
    BY <1>2, <1>4 DEF Frame
  <1> QED
    BY <1>2, <1>3, <1>4, <1>6, <1>7 DEF Reading

LEMMA EndLoopKeeps ==
    ASSUME Reading, EndLoop
    PROVE  Reading'
  <1>1. PICK s \in Seq(Frame), l \in BOOLEAN, fr \in BOOLEAN :
           s = open /\ l = live /\ fr = fresh /\ At(s, cfg, odd, l, fr, heads)
    BY DEF Reading
  <1>2. PICK f, t : f = Head(s) /\ t = Tail(s)
    OBVIOUS
  <1>3. /\ s # <<>> /\ f.kind \in Loops /\ open' = t /\ odd' = odd /\ heads' = heads /\ ended' = "no"
        /\ cfg' = IF Unseen THEN cfg ELSE LoopEnds(cfg, f.test, f.after)
        /\ live' = ((f.live /\ f.cond # "true") \/ "live" \in f.left)
        /\ fresh' = (f.live /\ f.cond = "true" /\ f.left = {})
    BY <1>1, <1>2 DEF EndLoop, Read, Reading, Loops
  <1>4. f \in Frame /\ t \in Seq(Frame)
    BY <1>2, <1>3, OuterPopped
  <1>5. PICK l2, fr2 : l2 = live' /\ fr2 = fresh'
    OBVIOUS
  <1>6. /\ l2 => f.cond # "true" \/ "live" \in f.left
        /\ fr2 => f.cond = "true" /\ f.left = {}
    BY <1>3, <1>5
  <1>7. live' \in BOOLEAN /\ fresh' \in BOOLEAN
    BY <1>3
  <1>8. (Unseen <=> Hidden(s)) /\ (Hidden(s) <=> Hidden(t))
    BY <1>1, <1>2, <1>3, HiddenPopped DEF Unseen, Hidden, Loops
  <1>9. At(t, cfg', odd, l2, fr2, heads)
    <2>1. CASE Hidden(s)
      <3>1. At(t, cfg, odd, l2, fr2, heads)
        BY <1>1, <1>2, <1>3, <1>8, <2>1, PopHidden
      <3> QED
        BY <1>3, <1>8, <2>1, <3>1
    <2>2. CASE ~Hidden(s)
      <3>1. At(t, LoopEnds(cfg, f.test, f.after), odd, l2, fr2, heads)
        BY <1>1, <1>2, <1>3, <1>6, <2>2, AtLoop
      <3> QED
        BY <1>3, <1>8, <2>2, <3>1
    <2> QED
      BY <2>1, <2>2
  <1> QED
    BY <1>3, <1>4, <1>5, <1>7, <1>9 DEF Reading

LEMMA EndThenKeeps ==
    ASSUME Reading, EndThen
    PROVE  Reading'
  <1>1. PICK s \in Seq(Frame), l \in BOOLEAN, fr \in BOOLEAN :
           s = open /\ l = live /\ fr = fresh /\ At(s, cfg, odd, l, fr, heads)
    BY DEF Reading
  <1>2. PICK f, t, f2 : f = Head(s) /\ t = Tail(s) /\ f2 = [f EXCEPT !.kind = "else", !.other = live]
    OBVIOUS
  <1>3. /\ s # <<>> /\ f.kind = "then" /\ odd' = odd /\ heads' = heads /\ fresh' = FALSE /\ ended' = "no"
        /\ cfg' = IF Unseen THEN cfg ELSE IfEnds(cfg, f.hasElse, f.after)
        /\ f.hasElse => open' = <<f2>> \o t /\ live' = (f.live /\ f.cond # "true")
        /\ ~f.hasElse => open' = t /\ live' = (live \/ (f.live /\ f.cond # "true"))
    BY <1>1, <1>2 DEF EndThen, Read, Reading
  <1>4. f \in Frame /\ t \in Seq(Frame)
    BY <1>2, <1>3, OuterPopped
  <1>5. f2 \in Frame /\ f2.kind = "else"
    <2>1. live \in BOOLEAN
      BY <1>1
    <2> QED
      BY ONLY <1>2, <1>4, <2>1 DEF Frame
  <1>6. PICK l2, no : l2 = live' /\ no = FALSE
    OBVIOUS
  <1>7. live' \in BOOLEAN
    BY <1>1, <1>3, <1>4 DEF Frame
  <1>8. (Unseen <=> Hidden(s)) /\ (Hidden(s) <=> Hidden(t))
    BY <1>1, <1>2, <1>3, HiddenPopped DEF Unseen, Hidden
  <1>9. \A x : At(t, cfg', odd, x, no, heads)
    <2> SUFFICES ASSUME NEW x
                 PROVE  At(t, cfg', odd, x, no, heads)
      OBVIOUS
    <2>1. CASE Hidden(s)
      <3>1. At(t, cfg, odd, x, no, heads)
        BY <1>1, <1>2, <1>3, <1>8, <2>1, PopHidden
      <3> QED
        BY <1>3, <1>8, <2>1, <3>1
    <2>2. CASE ~Hidden(s)
      <3>1. At(t, IfEnds(cfg, f.hasElse, f.after), odd, x, FALSE, heads)
        BY <1>1, <1>2, <1>3, <2>2, AtThen
      <3> QED
        BY <1>3, <1>6, <1>8, <2>2, <3>1
    <2> QED
      BY <2>1, <2>2
  <1>10. CASE ~f.hasElse
    <2>1. At(t, cfg', odd, l2, no, heads)
      BY <1>9
    <2> QED
      BY <1>3, <1>4, <1>6, <1>7, <1>10, <2>1 DEF Reading
  <1>11. CASE f.hasElse
    <2>1. PICK u, yes, h : u = <<f2>> \o t /\ yes = TRUE /\ h = cfg'
      OBVIOUS
    <2>2. At(t, h, odd, yes, no, heads)
      BY <1>9, <2>1
    <2>3. u \in Seq(Frame)
      BY <1>4, <1>5, <2>1, OuterPushed
    <2>4. yes \/ Hidden(t) \/ Excused(Function(h), odd)
      BY <2>1
    <2>5. Follows(u, h, odd, l2, no)
      BY <1>4, <1>6, <2>2, <2>4, QuietFollows
    <2>6. Passive(f2)
      BY <1>5 DEF Passive
    <2>7. At(u, h, odd, l2, no, heads)
      BY <1>4, <1>5, <2>1, <2>2, <2>5, <2>6, AtPushed
    <2> QED
      BY <1>3, <1>6, <1>7, <1>11, <2>1, <2>3, <2>7 DEF Reading
  <1> QED
    BY <1>10, <1>11

\* A place that cannot be reached is tagged where the walk takes it for one
\* that can.
LEMMA TagExcuses ==
    ASSUME NEW what \in Excuses, odd \subseteq odd', Tags(~live, what) \subseteq odd'
    PROVE  live \/ Excused(Function(cfg), odd')
  <1>1. ~live => <<Function(cfg), what>> \in odd'
    BY DEF Tags, Odd
  <1> QED
    BY <1>1 DEF Excused

LEMMA NextCaseKeeps ==
    ASSUME Reading, NextCase
    PROVE  Reading'
  <1>1. PICK s \in Seq(Frame), l \in BOOLEAN, fr \in BOOLEAN :
           s = open /\ l = live /\ fr = fresh /\ At(s, cfg, odd, l, fr, heads)
    BY DEF Reading
  <1>2. /\ s # <<>> /\ open' = s /\ cfg' = cfg /\ heads' = heads /\ ended' = "no"
        /\ live' = Head(s).live /\ fresh' = FALSE
        /\ odd \subseteq odd' /\ Tags(~live, "astray") \subseteq odd'
    BY <1>1 DEF NextCase, Read, Reading
  <1>3. PICK l2, no : l2 = live' /\ no = FALSE
    OBVIOUS
  <1>4. odd \subseteq odd' /\ (live \/ Excused(Function(cfg), odd'))
    BY <1>2, TagExcuses DEF Excuses
  <1>5. Follows(s, cfg, odd', l2, no)
    BY <1>1, <1>3, <1>4, QuietFollows
  <1>6. At(s, cfg, odd', l2, no, heads)
    BY <1>1, <1>4, <1>5, AtStay
  <1>7. live' \in BOOLEAN
    BY <1>2, OuterPopped DEF Frame
  <1> QED
    BY <1>2, <1>3, <1>6, <1>7 DEF Reading

LEMMA EndSwitchKeeps ==
    ASSUME Reading, EndSwitch
    PROVE  Reading'
  <1>1. PICK s \in Seq(Frame), l \in BOOLEAN, fr \in BOOLEAN :
           s = open /\ l = live /\ fr = fresh /\ At(s, cfg, odd, l, fr, heads)
    BY DEF Reading
  <1>2. /\ s # <<>> /\ Head(s).kind \in {"for", "switch"} /\ open' = Tail(s) /\ cfg' = cfg /\ heads' = heads
        /\ ended' = "no" /\ live' = Head(s).live /\ fresh' = FALSE
        /\ odd \subseteq odd' /\ Tags(~live, "astray") \subseteq odd'
    BY <1>1 DEF EndSwitch, Read, Reading
  <1>3. PICK t, l2, no : t = Tail(s) /\ l2 = live' /\ no = FALSE
    OBVIOUS
  <1>4. odd \subseteq odd' /\ (live \/ Excused(Function(cfg), odd'))
    BY <1>2, TagExcuses DEF Excuses
  <1>5. Passive(Head(s))
    BY <1>2 DEF Passive
  <1>6. At(t, cfg, odd', l2, no, heads)
    BY <1>1, <1>2, <1>3, <1>4, <1>5, PopPlain
  <1>7. t \in Seq(Frame) /\ live' \in BOOLEAN
    BY <1>2, <1>3, OuterPopped DEF Frame
  <1> QED
    BY <1>2, <1>3, <1>6, <1>7 DEF Reading

LEMMA EndAgainKeeps ==
    ASSUME Reading, EndAgain
    PROVE  Reading'
  <1>1. PICK s \in Seq(Frame), l \in BOOLEAN, fr \in BOOLEAN :
           s = open /\ l = live /\ fr = fresh /\ At(s, cfg, odd, l, fr, heads)
    BY DEF Reading
  <1>2. /\ s # <<>> /\ Head(s).kind = "again" /\ open' = Tail(s) /\ cfg' = cfg /\ heads' = heads
        /\ ended' = "no" /\ live' = Head(s).live /\ fresh' = FALSE
        /\ odd' = odd \cup Tags(~live, "again jump")
    BY <1>1 DEF EndAgain, Read, Reading
  <1>3. PICK t, l2, no : t = Tail(s) /\ l2 = live' /\ no = FALSE
    OBVIOUS
  <1>4. odd \subseteq odd' /\ (live \/ Excused(Function(cfg), odd'))
    BY <1>2, TagExcuses DEF Excuses
  <1>5. Passive(Head(s))
    BY <1>2 DEF Passive
  <1>6. At(t, cfg, odd', l2, no, heads)
    BY <1>1, <1>2, <1>3, <1>4, <1>5, PopPlain
  <1>7. t \in Seq(Frame) /\ live' \in BOOLEAN
    BY <1>2, <1>3, OuterPopped DEF Frame
  <1> QED
    BY <1>2, <1>3, <1>6, <1>7 DEF Reading

LEMMA EndInnerFunctionKeeps ==
    ASSUME Reading, EndInnerFunction
    PROVE  Reading'
  <1>1. PICK s \in Seq(Frame), l \in BOOLEAN, fr \in BOOLEAN :
           s = open /\ l = live /\ fr = fresh /\ At(s, cfg, odd, l, fr, heads)
    BY DEF Reading
  <1>2. PICK f, t : f = Head(s) /\ t = Tail(s)
    OBVIOUS
  <1>3. s # <<>>
    BY <1>1 DEF EndInnerFunction
  <1>4. /\ f.kind = "function" /\ open' = t /\ odd' = odd /\ heads' = heads
        /\ fresh' = FALSE /\ ended' = "no" /\ live' = f.live
        /\ cfg' = IF Unseen THEN cfg ELSE EndFunction(cfg, f.prev)
    BY <1>1, <1>2 DEF EndInnerFunction, Read, Reading
  <1>5. f \in Frame /\ t \in Seq(Frame)
    BY <1>2, <1>3, OuterPopped
  <1>6. PICK l2, no : l2 = live' /\ no = FALSE
    OBVIOUS
  <1>7. live' \in BOOLEAN
    BY <1>4, <1>5 DEF Frame
  <1>8. (Unseen <=> Hidden(s)) /\ (Hidden(s) <=> Hidden(t))
    BY <1>1, <1>2, <1>3, <1>4, HiddenPopped DEF Unseen, Hidden
  <1>9. At(t, cfg', odd, l2, no, heads)
    <2>1. CASE Hidden(s)
      <3>1. At(t, cfg, odd, l2, no, heads)
        BY <1>1, <1>2, <1>3, <1>8, <2>1, PopHidden
      <3> QED
        BY <1>4, <1>8, <2>1, <3>1
    <2>2. CASE ~Hidden(s)
      <3>1. At(t, EndFunction(cfg, f.prev), odd, l2, FALSE, heads)
        BY <1>1, <1>2, <1>3, <1>4, <2>2, AtFunctionEnd
      <3> QED
        BY <1>4, <1>6, <1>8, <2>2, <3>1
    <2> QED
      BY <2>1, <2>2
  <1> QED
    BY <1>4, <1>5, <1>6, <1>7, <1>9 DEF Reading

LEMMA EndDirectFunctionKeeps ==
    ASSUME Reading, EndDirectFunction
    PROVE  Reading'
  <1>1. PICK s \in Seq(Frame), l \in BOOLEAN, fr \in BOOLEAN :
           s = open /\ l = live /\ fr = fresh /\ At(s, cfg, odd, l, fr, heads)
    BY DEF Reading
  <1>2. PICK f, t, f2 : f = Head(s) /\ t = Tail(s) /\ f2 = [f EXCEPT !.kind = "again"]
    OBVIOUS
  <1>3. Len(s) = 1 /\ s # <<>>
    <2>1. Len(s) = 1
      BY <1>1 DEF EndDirectFunction
    <2> QED
      BY <2>1, EmptySeq
  <1>4. /\ f.kind = "function" /\ open' = <<f2>> /\ odd \subseteq odd' /\ heads' = heads
        /\ fresh' = FALSE /\ ended' = "no" /\ live' = TRUE /\ cfg' = EndFunction(cfg, f.prev)
    BY <1>1, <1>2 DEF EndDirectFunction, Reading
  <1>5. f \in Frame /\ t \in Seq(Frame)
    BY <1>2, <1>3, OuterPopped
  <1>6. t = <<>>
    <2>1. Len(t) = 0
      BY <1>2, <1>3, HeadTailProperties
    <2> QED
      BY <1>5, <2>1, EmptySeq
  <1>7. f2 \in Frame /\ f2.kind = "again"
    BY ONLY <1>2, <1>5 DEF Frame
  <1>8. ~Hidden(t) /\ ~Hidden(s)
    BY <1>2, <1>3, <1>4, <1>6, HiddenPopped DEF Hidden
  <1>9. PICK yes, no, h : yes = TRUE /\ no = FALSE /\ h = cfg'
    OBVIOUS
  <1>10. At(t, h, odd, yes, no, heads)
    <2>1. At(t, EndFunction(cfg, f.prev), odd, yes, FALSE, heads)
      BY <1>1, <1>2, <1>3, <1>4, <1>8, AtFunctionEnd
    <2> QED
      BY <1>4, <1>9, <2>1
  <1>11. PICK u : u = <<f2>> \o t
    OBVIOUS
  <1>12. open' = u
    <2>1. <<f2>> \in Seq(Frame)
      BY <1>7
    <2>2. PICK one \in Seq(Frame) : one = <<f2>>
      BY <2>1
    <2>3. one \o <<>> = one
      BY ConcatEmptySeq
    <2> QED
      BY <1>4, <1>6, <1>11, <2>2, <2>3
  <1>13. u \in Seq(Frame) /\ Passive(f2)
    BY <1>5, <1>7, <1>11, OuterPushed DEF Passive
  <1>14. yes \/ Hidden(t) \/ Excused(Function(h), odd')
    BY <1>9
  <1>15. Follows(u, h, odd', yes, no)
    BY <1>4, <1>5, <1>9, <1>10, <1>14, QuietFollows
  <1>16. At(u, h, odd', yes, no, heads)
    BY <1>4, <1>5, <1>7, <1>10, <1>11, <1>13, <1>15, AtPushed
  <1> QED
    BY <1>4, <1>9, <1>12, <1>13, <1>16 DEF Reading

\* The last edge of the program.
LEMMA FinishStep ==
    ASSUME NEW nest, NEW ctx, NEW g, NEW o, NEW l, NEW fr, NEW hs, Walk(nest, ctx, g, o, l, fr, hs),
           nest = <<>>, NEW h, h = AddEdge(g, g.current, End(g, 1))
    PROVE  Formed(h) /\ Sound(h, o) /\ (Straight(o) => Begins(nest, h, hs))
  <1>1. Formed(g) /\ Nesting(nest, ctx) /\ Matches(g, ctx[0]) /\ g.current \in Blocks(g)
        /\ Sound(g, o) /\ (Straight(o) => Begins(nest, g, hs))
    BY DEF Walk, Formed
  <1>2. Function(g) = 1
    BY <1>1 DEF Nesting, Matches, Function
  <1>3. PICK a \in Nat, b \in Nat : a = g.current /\ b = End(g, 1)
    <2>1. g.current \in Nat
      BY <1>1, CfgFields DEF Formed
    <2>2. End(g, 1) \in Blocks(g)
      BY <1>1, <1>2, CurrentFunction
    <2>3. End(g, 1) \in Nat
      BY <1>1, <2>2, CfgFields DEF Formed, Blocks
    <2> QED
      BY <2>1, <2>3
  <1>4. a \in Blocks(g) /\ b \in Blocks(g) /\ b \in Ends(g)
    BY <1>1, <1>2, <1>3, CurrentFunction
  <1>5. PICK E, R : E = {<<a, b>>} /\ R = {}
    OBVIOUS
  <1>6. Made(g, h, E, R) /\ h.current = g.current
    <2>1. g \in Cfgs
      BY <1>1 DEF Formed
    <2>2. PICK none : none = {}
      OBVIOUS
    <2>3. Made(g, g, none, none)
      BY <2>1, <2>2, NothingMade
    <2>4. Made(g, AddEdge(g, a, b), none \cup {<<a, b>>}, none) /\ AddEdge(g, a, b).current = g.current
      BY <2>3, MadeEdge
    <2> QED
      BY <1>3, <1>5, <2>2, <2>4
  <1>7. Grows(g, h)
    BY <1>1, <1>6, MadeGrows
  <1>8. a \in Blocks(h) /\ b \in Blocks(h)
    BY <1>4, <1>7 DEF Grows
  <1>9. Formed(h)
    <2>1. E \subseteq Blocks(h) \X Blocks(h)
      BY <1>5, <1>8
    <2>2. h.current \in Blocks(h) /\ (h.current \in Blocks(g) => g.block[h.current].function = Function(g))
      BY <1>1, <1>3, <1>6, <1>8 DEF Formed
    <2> QED
      BY <1>1, <1>6, <2>1, <2>2, MadeFormed
  <1>10. Sound(h, o)
    <2>1. \A x \in Blocks(h) : h.block[x].shown = "reachable" => x \in Blocks(g) /\ g.block[x].shown = "reachable"
      BY <1>5, <1>6 DEF Made
    <2>2. o \subseteq o
      OBVIOUS
    <2> QED
      BY <1>1, <1>7, <2>1, <2>2, SoundKept
  <1>11. ASSUME NEW x, Begun(nest, g, x)
         PROVE  Begun(nest, h, x)
    <2>1. \A e \in h.edges \ g.edges : e[2] \in Ends(g)
      BY <1>4, <1>5, <1>6 DEF Made
    <2>2. PICK m \in Nat : m = Len(nest)
      BY <1>1 DEF Nesting
    <2>3. Agree(nest, ctx, nest, ctx, m) /\ Len(nest) \in Nat
      BY <1>1, <2>2 DEF Agree, Nesting
    <2>4. ~(Len(nest) = m + 1)
      BY <2>2
    <2> QED
      BY <1>1, <1>7, <1>11, <2>1, <2>2, <2>3, <2>4, BegunKept
  <1> QED
    BY <1>1, <1>9, <1>10, <1>11 DEF Begins

LEMMA FinishKeeps ==
    ASSUME Reading, Finish
    PROVE  CfgInv'
  <1>1. /\ open = <<>> /\ open' = open /\ live' = live /\ fresh' = fresh /\ odd' = odd
        /\ heads' = heads /\ ended' = "done" /\ cfg' = AddEdge(cfg, cfg.current, End(cfg, 1))
    BY DEF Finish
  <1>2. PICK nest : nest = Outer(open)
    OBVIOUS
  <1>3. PICK ctx : Walk(nest, ctx, cfg, odd, live, fresh, heads)
    BY <1>2 DEF Reading, At
  <1>4. nest = <<>>
    <2>1. open \in Seq(Frame)
      BY DEF Reading
    <2>2. nest \in Seq(Frame) /\ Len(nest) = Len(open)
      BY <1>2, <2>1, OuterType
    <2>3. Len(nest) = 0
      BY <1>1, <2>2
    <2> QED
      BY <2>2, <2>3, EmptySeq
  <1>5. PICK h : h = cfg'
    OBVIOUS
  <1>6. h = AddEdge(cfg, cfg.current, End(cfg, 1))
    BY <1>1, <1>5
  <1>7. Formed(h) /\ Sound(h, odd) /\ (Straight(odd) => Begins(nest, h, heads))
    BY <1>3, <1>4, <1>6, FinishStep
  <1>8. Outcome'
    BY <1>1, <1>4, <1>5, <1>7 DEF Outcome
  <1> QED
    BY <1>1, <1>8 DEF Reading, CfgInv

\* The program, with its first and last block.
LEMMA Beginning ==
    ASSUME NEW h, h = BeginFunction(Empty)
    PROVE  \E ctx : Walk(<<>>, ctx, h, {}, TRUE, FALSE, {})
  <1>1. PICK g : g = Empty
    OBVIOUS
  <1>2. /\ g \in Cfgs /\ Size(g) = 0 /\ Len(g.functions) = 0 /\ g.edges = {}
        /\ g.breaks = <<>> /\ g.continues = <<>> /\ g.stack = <<>>
    BY <1>1 DEF Empty, Cfgs, Size
  <1>3. Began(g, h)
    BY <1>1, <1>2, FunctionBegun
  <1>4. /\ h \in Cfgs /\ Size(h) = 2 /\ h.current = 1 /\ h.edges = {} /\ h.breaks = <<>>
        /\ h.continues = <<>> /\ Len(h.functions) = 1 /\ h.functions[1] = <<1, 2>>
        /\ h.block[1].function = 1 /\ h.block[1].shown = "nothing"
        /\ h.block[2].function = 1 /\ h.block[2].shown = "nothing"
    BY <1>2, <1>3 DEF Began
  <1>5. h.stack = Pushed(1, <<>>) /\ h.stack \in Seq(Nat) /\ h.stack # <<>> /\ Head(h.stack) = 1
    <2>1. h.stack = Pushed(1, <<>>)
      BY <1>2, <1>3 DEF Began
    <2>2. PICK e \in Seq(Nat), x \in Nat : e = <<>> /\ x = 1
      <3>1. <<>> \in Seq(Nat) /\ 1 \in Nat
        OBVIOUS
      <3> QED
        BY <3>1, Zenon
    <2>3. Pushed(x, e) \in Seq(Nat) /\ Pushed(x, e) # <<>> /\ Head(Pushed(x, e)) = x
      BY PushedProperties
    <2> QED
      BY <2>1, <2>2, <2>3
  <1>6. h.stack = <<1>>
    BY <1>5 DEF Pushed
  <1>7. Blocks(h) = {1, 2} /\ Functions(h) = {1} /\ Start(h, 1) = 1 /\ End(h, 1) = 2
    BY <1>4 DEF Blocks, Functions, Start, End
  <1>8. Starts(h) = {1} /\ Ends(h) = {2}
    BY <1>7 DEF Starts, Ends
  <1>9. Formed(h)
    BY <1>4, <1>5, <1>7, <1>8 DEF Formed, Function
  <1>10. PICK nest \in Seq(Frame) : nest = <<>> /\ Len(nest) = 0
    <2>1. <<>> \in Seq(Frame) /\ Len(<<>>) = 0
      OBVIOUS
    <2> QED
      BY <2>1, Zenon
  <1>11. PICK ctx : ctx = [p \in {0} |-> [stack |-> <<1>>, breaks |-> <<>>, continues |-> <<>>]]
    OBVIOUS
  <1>12. ctx[0] = [stack |-> <<1>>, breaks |-> <<>>, continues |-> <<>>]
    BY <1>11
  <1>13. ctx \in [{0} -> Context]
    BY <1>11 DEF Context
  <1>14. ctx[0].stack = <<1>> /\ ctx[0].stack # <<>> /\ ctx[0].breaks = <<>> /\ ctx[0].continues = <<>>
    BY <1>5, <1>6, <1>12
  <1>15. 0 .. 0 = {0} /\ 1 .. 0 = {}
    OBVIOUS
  <1>16. Bound(nest, ctx, 0) /\ Top(nest, ctx, 0, 0)
    BY <1>14 DEF Bound, Top
  <1>17. Nesting(nest, ctx)
    BY <1>10, <1>12, <1>13, <1>14, <1>15, <1>16 DEF Nesting
  <1>18. Matches(h, ctx[Len(nest)])
    BY <1>4, <1>6, <1>10, <1>14 DEF Matches
  <1>19. \A o : Frames(nest, ctx, h, o)
    BY <1>10, <1>15 DEF Frames
  <1>20. Apart(nest)
    BY <1>10, <1>15 DEF Apart
  <1>21. h.current \notin Ends(h)
    BY <1>4, <1>8
  <1>22. \A r, o : Leads(h, h.current, r, o)
    <2>1. ~HasAfter(h, h.current)
      BY <1>4 DEF HasAfter
    <2>2. Entered(h, h.current)
      BY <1>4, <1>7 DEF Entered
    <2> QED
      BY <2>1, <2>2 DEF Leads
  <1>23. \A o : Sound(h, o)
    BY <1>4, <1>7 DEF Sound
  <1>24. Begins(nest, h, {})
    BY DEF Begins
  <1>25. Walk(nest, ctx, h, {}, TRUE, FALSE, {})
    BY <1>9, <1>17, <1>18, <1>19, <1>20, <1>21, <1>22, <1>23, <1>24 DEF Walk
  <1> QED
    BY <1>10, <1>25

LEMMA InitKeeps == Init => CfgInv
  <1> SUFFICES ASSUME Init
               PROVE  CfgInv
    OBVIOUS
  <1>1. PICK h : h = cfg
    OBVIOUS
  <1>2. PICK ctx : Walk(<<>>, ctx, h, {}, TRUE, FALSE, {})
    BY <1>1, Beginning DEF Init
  <1>3. PICK nest : nest = Outer(open)
    OBVIOUS
  <1>4. open \in Seq(Frame) /\ Len(open) = 0
    BY DEF Init
  <1>5. nest = <<>>
    <2>1. nest \in Seq(Frame) /\ Len(nest) = Len(open)
      BY <1>3, <1>4, OuterType
    <2> QED
      BY <1>4, <2>1, EmptySeq
  <1>6. odd = {} /\ live = TRUE /\ fresh = FALSE /\ heads = {} /\ ended = "no"
    BY DEF Init
  <1>7. Walk(nest, ctx, cfg, odd, live, fresh, heads)
    BY <1>1, <1>2, <1>5, <1>6
  <1>8. At(open, cfg, odd, live, fresh, heads)
    BY <1>3, <1>7 DEF At
  <1> QED
    BY <1>4, <1>6, <1>8 DEF CfgInv

LEMMA NextKeeps == CfgInv /\ [Next]_vars => CfgInv'
  <1> SUFFICES ASSUME CfgInv, [Next]_vars
               PROVE  CfgInv'
    OBVIOUS
  <1>1. CASE UNCHANGED vars
    BY <1>1 DEF CfgInv, At, Outcome, vars
  <1>2. CASE Next
    <2>1. ended = "no"
      BY <1>2 DEF Next, Simple, Plain, Throw, Return, Break, Continue, ConditionPanics,
                  OpenWhile, OpenIf, OpenForIn, OpenFor, OpenSwitch,
                  OpenFunction, EndThen, EndElse, EndLoop, NextCase, EndSwitch, EndInnerFunction,
                  EndDirectFunction, EndAgain, Finish, Read
    <2>2. Reading
      BY <2>1 DEF CfgInv, Reading
    <2>3. Reading' => CfgInv'
      BY DEF Reading, CfgInv
    <2>4. CASE Simple \/ Plain \/ Throw \/ Return
      BY <2>2, <2>3, <2>4, SimpleKeeps, PlainKeeps, ThrowKeeps, ReturnKeeps
    <2>5. CASE Break \/ Continue \/ ConditionPanics
      BY <2>2, <2>5, BreakKeeps, ContinueKeeps, PanicKeeps
    <2>6. ASSUME NEW cond \in Conditions, OpenWhile(cond)
          PROVE  CfgInv'
      BY <2>2, <2>3, <2>6, OpenWhileKeeps
    <2>7. ASSUME NEW cond \in Conditions, NEW hasElse \in BOOLEAN, OpenIf(cond, hasElse)
          PROVE  CfgInv'
      BY <2>2, <2>3, <2>7, OpenIfKeeps
    <2>8. CASE OpenForIn \/ OpenFor \/ OpenSwitch \/ OpenFunction
      BY <2>2, <2>3, <2>8, OpenForInKeeps, OpenForKeeps, OpenSwitchKeeps, OpenFunctionKeeps
    <2>9. CASE EndThen \/ EndElse \/ EndLoop
      BY <2>2, <2>3, <2>9, EndThenKeeps, EndElseKeeps, EndLoopKeeps
    <2>10. CASE NextCase \/ EndSwitch \/ EndAgain
      BY <2>2, <2>3, <2>10, NextCaseKeeps, EndSwitchKeeps, EndAgainKeeps
    <2>11. CASE EndInnerFunction \/ EndDirectFunction
      BY <2>2, <2>3, <2>11, EndInnerFunctionKeeps, EndDirectFunctionKeeps
    <2>12. CASE Finish
      BY <2>2, <2>12, FinishKeeps
    <2> QED
      BY <1>2, <2>4, <2>5, <2>6, <2>7, <2>8, <2>9, <2>10, <2>11, <2>12, SMTT(30) DEF Next
  <1> QED
    BY <1>1, <1>2

\* The walk keeps, beside the graph, what it will find in the blocks it comes
\* back to; at the end the graph is right about what can be reached.
THEOREM InvariantHolds == Spec => []CfgInv
  <1>1. Init => CfgInv
    BY InitKeeps
  <1>2. CfgInv /\ [Next]_vars => CfgInv'
    BY NextKeeps
  <1> QED
    BY <1>1, <1>2, PTL DEF Spec

-----------------------------------------------------------------------------
(* What is reported.                                                        *)

LEMMA ReportsOnlyUnreachable == CfgInv => OnlyUnreachableReported
  <1> SUFFICES ASSUME CfgInv, ended = "done", NEW b \in Reported, cfg.block[b].shown = "reachable"
               PROVE  Has(b, Excuses)
    BY DEF OnlyUnreachableReported, Excuses
  <1>1. Sound(cfg, odd)
    BY DEF CfgInv, Outcome
  <1>2. b \in Blocks(cfg) /\ ~Entered(cfg, b)
    BY DEF Reported, Blocks, Entered
  <1>3. Excused(cfg.block[b].function, odd)
    BY <1>1, <1>2 DEF Sound
  <1> QED
    BY <1>3 DEF Excused, Has

\* analyseCfg reports only blocks that cannot be reached: a block that can is
\* reported only in a function with a jump in an else clause, with one in or
\* out of a switch, a try or a loop without a builder, or by a label out of
\* more than the innermost loop, or with a part of such a statement whose end
\* is not reached, with a function declared after a jump, or in a program with
\* a function that jumps.
THEOREM OnlyUnreachableReportedHolds == Spec => []OnlyUnreachableReported
  BY InvariantHolds, ReportsOnlyUnreachable, PTL

LEMMA ReportsUnreachable == CfgInv => UnreachableReported
  <1> SUFFICES ASSUME CfgInv, ended = "done", \A o \in odd : o[2] # "astray", NEW b \in heads
               PROVE  b \in Reported
    BY DEF UnreachableReported
  <1>1. Formed(cfg) /\ Begun(<<>>, cfg, b)
    BY DEF CfgInv, Outcome, Begins, Straight
  <1>2. /\ b \in Blocks(cfg) /\ b \notin Starts(cfg) /\ ~HasBefore(cfg, b)
        /\ cfg.block[b].shown # "nothing" /\ cfg.block[b].function \in Functions(cfg)
    BY <1>1 DEF Begun, Formed
  <1>3. b # Start(cfg, cfg.block[b].function)
    BY <1>2 DEF Starts
  <1> QED
    BY <1>2, <1>3 DEF Reported, Blocks

\* In a file in which nothing goes astray (see above), if its analysis does not
\* end with an error, analyseCfg reports every first statement with an
\* instruction after a return, break or continue or an endless while, and
\* every branch that is never taken; not what follows a throw, an endless
\* for (;;) or an if both of whose branches jump.
THEOREM UnreachableReportedHolds == Spec => []UnreachableReported
  BY InvariantHolds, ReportsUnreachable, PTL
=============================================================================
