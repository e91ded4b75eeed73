------------------------ MODULE CfgComplexity_proofs -------------------------
(***************************************************************************)
(* The cyclomatic complexity of a function is one more than its decisions. *)
(*                                                                         *)
(* What is counted are the edges and blocks met from the start of a        *)
(* function.  In a function without anything odd these blocks are those    *)
(* with an edge to them, since each has one from a block made before it    *)
(* (Led); and one edge leaves each of them, two a decision, unless the     *)
(* walk has still to come back to it (Settled).                            *)
(***************************************************************************)
EXTENDS Cfg_proofs, FiniteSetTheorems, FunctionTheorems, WellFoundedInduction

-----------------------------------------------------------------------------
(* The edges of a block.                                                   *)

Fn(g, b) == g.block[b].function

\* Nothing odd is in the function.
Clean(f, o) == \A x \in o : x[1] # f

One(g, b) ==
    \E c \in Nat : <<b, c>> \in g.edges /\ \A e \in g.edges : e[1] = b => e[2] = c

Two(g, b) ==
    \E c, d \in Nat :
        /\ c # d /\ <<b, c>> \in g.edges /\ <<b, d>> \in g.edges
        /\ \A e \in g.edges : e[1] = b => e[2] \in {c, d}

\* An edge leads to it from a block made before it.
Led(g, b) ==
    \E a \in Blocks(g) :
        a < b /\ <<a, b>> \in g.edges /\ Fn(g, a) = Fn(g, b) /\ Entered(g, a)

\* Blocks of a frame that an edge will leave later.
Later(f) ==
    CASE f.kind = "then" -> {f.after - 1, f.after}
      [] f.kind \in Loops -> {f.after}
      [] f.kind = "function" -> {f.prev}
      [] OTHER -> {}

Awaited(nest, b) == \E p \in 1 .. Len(nest) : Seen(nest, p - 1) /\ b \in Later(nest[p])

Waits(nest, g, b) == b = g.current \/ Awaited(nest, b)

Settled(nest, g, b, C) ==
    /\ Entered(g, b) =>
          IF b \in C THEN Two(g, b) ELSE One(g, b) \/ (Waits(nest, g, b) /\ ~HasAfter(g, b))
    /\ b \in C => Entered(g, b)
    /\ HasBefore(g, b) /\ b # Start(g, Fn(g, b)) => Led(g, b)

\* A function's blocks are its own, and no edge leaves its end.
Homes(g) ==
    \A f \in Functions(g) :
        /\ Fn(g, Start(g, f)) = f /\ Fn(g, End(g, f)) = f /\ Start(g, f) # End(g, f)
        /\ ~HasAfter(g, End(g, f))

Counts(nest, g, o, C) ==
    /\ Homes(g)
    /\ C \subseteq Blocks(g) \ Ends(g)
    /\ \A e \in g.edges : Clean(Fn(g, e[1]), o) => Fn(g, e[2]) = Fn(g, e[1])
    /\ \A b \in Blocks(g) \ Ends(g) : Clean(Fn(g, b), o) => Settled(nest, g, b, C)

\* What is known of the blocks of a frame.
Kept(f, g, o) ==
    /\ f.kind = "then" =>
          /\ Fn(g, f.after - 1) = Fn(g, f.after)
          /\ Clean(Fn(g, f.after), o) =>
                IF f.hasElse THEN HasBefore(g, f.after - 1) /\ ~HasAfter(g, f.after - 1)
                ELSE ~Entered(g, f.after - 1)
    /\ f.kind \in Loops =>
          /\ Fn(g, f.test) = Fn(g, f.after)
          /\ Clean(Fn(g, f.after), o) =>
                HasBefore(g, f.test) /\ HasAfter(g, f.test) /\ HasBefore(g, f.after)

Keeps(nest, g, o) ==
    \A p \in 1 .. Len(nest) : Seen(nest, p - 1) => Kept(nest[p], g, o)

\* In a loop of the current function.
Looping(nest) ==
    \E p \in 1 .. Len(nest) :
        nest[p].kind \in Loops /\ \A r \in p + 1 .. Len(nest) : nest[r].kind # "function"

Flow(nest, g, o, C) ==
    /\ Counts(nest, g, o, C)
    /\ Keeps(nest, g, o)
    /\ Clean(Function(g), o) /\ HasAfter(g, g.current) => Looping(nest)

-----------------------------------------------------------------------------
(* What stays known when more is made of a graph.                          *)

Adds(g, h, E) == Formed(g) /\ Formed(h) /\ Grows(g, h) /\ h.edges = g.edges \cup E

LEMMA CleanBefore ==
    ASSUME NEW o, NEW o2, o \subseteq o2, NEW f, Clean(f, o2)
    PROVE  Clean(f, o)
  BY DEF Clean

LEMMA CleanExcuses ==
    ASSUME NEW o, NEW f, Clean(f, o)
    PROVE  ~Excused(f, o)
  BY DEF Clean, Excused

LEMMA FormedEdges ==
    ASSUME NEW g, Formed(g)
    PROVE  /\ g \in Cfgs /\ Size(g) \in Nat
           /\ \A e \in g.edges : /\ e = <<e[1], e[2]>> /\ e[1] \in Blocks(g) /\ e[2] \in Blocks(g)
           /\ \A a, b : <<a, b>> \in g.edges => a \in Blocks(g) /\ b \in Blocks(g)
           /\ \A b \in Blocks(g) : b \in Nat /\ b # 0 /\ Fn(g, b) \in Functions(g)
  <1>1. g \in Cfgs /\ g.edges \subseteq Blocks(g) \X Blocks(g)
        /\ \A b \in Blocks(g) : g.block[b].function \in Functions(g)
    BY DEF Formed
  <1>2. Size(g) \in Nat
    BY <1>1, CfgFields
  <1> QED
    BY <1>1, <1>2 DEF Blocks, Fn

LEMMA AddedEdges ==
    ASSUME NEW g, NEW h, NEW E, Adds(g, h, E)
    PROVE  /\ \A b : HasAfter(h, b) <=> HasAfter(g, b) \/ \E e \in E : e[1] = b
           /\ \A b : HasBefore(h, b) <=> HasBefore(g, b) \/ \E e \in E : e[2] = b
           /\ \A b \in Blocks(g) : b \in Blocks(h) /\ Fn(h, b) = Fn(g, b)
           /\ \A b \in Blocks(g) : Start(h, Fn(h, b)) = Start(g, Fn(g, b))
           /\ \A b \in Blocks(g) : Entered(h, b) <=> Entered(g, b) \/ \E e \in E : e[2] = b
           /\ \A b : b \notin Blocks(g) => ~HasAfter(g, b) /\ ~HasBefore(g, b)
  <1>1. /\ \A b : HasAfter(h, b) <=> HasAfter(g, b) \/ \E e \in E : e[1] = b
        /\ \A b : HasBefore(h, b) <=> HasBefore(g, b) \/ \E e \in E : e[2] = b
    BY DEF Adds, HasAfter, HasBefore
  <1>2. \A b \in Blocks(g) : b \in Blocks(h) /\ Fn(h, b) = Fn(g, b) /\ Fn(g, b) \in Functions(g)
    BY DEF Adds, Grows, Formed, Fn
  <1>3. \A b \in Blocks(g) : Start(h, Fn(h, b)) = Start(g, Fn(g, b))
    BY <1>2 DEF Adds, Grows
  <1>4. \A b \in Blocks(g) : Entered(h, b) <=> Entered(g, b) \/ \E e \in E : e[2] = b
    BY <1>1, <1>2, <1>3 DEF Entered, Fn
  <1>5. \A b : b \notin Blocks(g) => ~HasAfter(g, b) /\ ~HasBefore(g, b)
    BY FormedEdges DEF Adds, HasAfter, HasBefore
  <1> QED
    BY <1>1, <1>2, <1>3, <1>4, <1>5

LEMMA LedKept ==
    ASSUME NEW g, NEW h, NEW E, Adds(g, h, E), NEW b \in Blocks(g), Led(g, b)
    PROVE  Led(h, b)
  <1>1. PICK a \in Blocks(g) : a < b /\ <<a, b>> \in g.edges /\ Fn(g, a) = Fn(g, b) /\ Entered(g, a)
    BY DEF Led
  <1>2. a \in Blocks(h) /\ Fn(h, a) = Fn(h, b) /\ Entered(h, a)
    BY <1>1, AddedEdges
  <1>3. <<a, b>> \in h.edges
    BY <1>1 DEF Adds
  <1> QED
    BY <1>1, <1>2, <1>3 DEF Led

\* Nothing is done to a block, and what it waits for is still to come.
Spared(nest, nest2, g, h, E, b) ==
    /\ b \in Blocks(g)
    /\ \A e \in E : e[1] # b /\ (e[2] = b => HasBefore(g, b))
    /\ Waits(nest, g, b) => Waits(nest2, h, b) \/ HasAfter(g, b)

LEMMA SettledKept ==
    ASSUME NEW g, NEW h, NEW E, Adds(g, h, E), NEW nest, NEW nest2, NEW b,
           Spared(nest, nest2, g, h, E, b), NEW C, NEW C2, b \in C <=> b \in C2,
           Settled(nest, g, b, C)
    PROVE  Settled(nest2, h, b, C2)
  <1>1. b \in Blocks(g) /\ \A e \in E : e[1] # b /\ (e[2] = b => HasBefore(g, b))
    BY DEF Spared
  <1>2. /\ HasAfter(h, b) <=> HasAfter(g, b)
        /\ HasBefore(h, b) <=> HasBefore(g, b)
        /\ Entered(h, b) <=> Entered(g, b)
        /\ Start(h, Fn(h, b)) = Start(g, Fn(g, b))
    <2>1. HasBefore(g, b) => Entered(g, b)
      BY DEF Entered
    <2> QED
      BY <1>1, <2>1, AddedEdges
  <1>3. \A e : e[1] = b => (e \in h.edges <=> e \in g.edges)
    BY <1>1 DEF Adds
  <1>4. \A c : <<b, c>> \in h.edges <=> <<b, c>> \in g.edges
    BY <1>3
  <1>5. One(g, b) => One(h, b)
    BY <1>3, <1>4 DEF One
  <1>6. Two(g, b) => Two(h, b)
    BY <1>3, <1>4 DEF Two
  <1>7. Led(g, b) => Led(h, b)
    BY <1>1, LedKept
  <1>8. Waits(nest, g, b) /\ ~HasAfter(g, b) => Waits(nest2, h, b)
    BY DEF Spared
  <1> QED
    BY <1>2, <1>5, <1>6, <1>7, <1>8 DEF Settled

LEMMA CountsKept ==
    ASSUME NEW g, NEW h, NEW E, Adds(g, h, E), NEW o, NEW o2, o \subseteq o2, NEW nest, NEW nest2,
           NEW C, NEW C2, Counts(nest, g, o, C), Homes(h),
           C \subseteq C2, \A b \in C2 : b \in C \/ b \notin Blocks(g), C2 \subseteq Blocks(h) \ Ends(h),
           \A e \in E : Clean(Fn(h, e[1]), o2) => Fn(h, e[2]) = Fn(h, e[1]),
           \A b \in Blocks(h) \ Ends(h) : Clean(Fn(h, b), o2) =>
               Settled(nest2, h, b, C2) \/ Spared(nest, nest2, g, h, E, b)
    PROVE  Counts(nest2, h, o2, C2)
  <1>1. ASSUME NEW e \in h.edges, Clean(Fn(h, e[1]), o2)
        PROVE  Fn(h, e[2]) = Fn(h, e[1])
    <2>1. CASE e \in E
      BY <1>1, <2>1
    <2>2. CASE e \in g.edges
      <3>1. e[1] \in Blocks(g) /\ e[2] \in Blocks(g)
        BY <2>2, FormedEdges DEF Adds
      <3>2. Fn(h, e[1]) = Fn(g, e[1]) /\ Fn(h, e[2]) = Fn(g, e[2])
        BY <3>1, AddedEdges
      <3> QED
        BY <1>1, <2>2, <3>2, CleanBefore DEF Counts
    <2> QED
      BY <2>1, <2>2 DEF Adds
  <1>2. ASSUME NEW b \in Blocks(h) \ Ends(h), Clean(Fn(h, b), o2)
        PROVE  Settled(nest2, h, b, C2)
    <2>1. CASE Spared(nest, nest2, g, h, E, b)
      <3>1. b \in Blocks(g)
        BY <2>1 DEF Spared
      <3>2. b \notin Ends(g)
        <4>1. \A f \in Functions(g) : f \in Functions(h) /\ End(h, f) = End(g, f)
          BY DEF Adds, Grows
        <4> QED
          BY <1>2, <4>1 DEF Ends
      <3>3. Clean(Fn(g, b), o)
        BY <1>2, <3>1, AddedEdges, CleanBefore
      <3>4. Settled(nest, g, b, C)
        BY <3>1, <3>2, <3>3 DEF Counts
      <3>5. b \in C <=> b \in C2
        BY <3>1
      <3> QED
        BY <2>1, <3>4, <3>5, SettledKept
    <2> QED
      BY <1>2, <2>1
  <1> QED
    BY <1>1, <1>2 DEF Counts

LEMMA HomesMade ==
    ASSUME NEW g, Formed(g), Homes(g), NEW h, NEW E, NEW R, Made(g, h, E, R),
           \A e \in E : e[1] \notin Ends(g)
    PROVE  Homes(h)
  <1> SUFFICES ASSUME NEW f \in Functions(h)
               PROVE  /\ Fn(h, Start(h, f)) = f /\ Fn(h, End(h, f)) = f /\ ~HasAfter(h, End(h, f))
                      /\ Start(h, f) # End(h, f)
    BY DEF Homes
  <1>1. /\ Functions(h) = Functions(g) /\ Starts(g) \subseteq Blocks(g) /\ Ends(g) \subseteq Blocks(g)
        /\ Start(h, f) = Start(g, f) /\ End(h, f) = End(g, f)
    BY MadeGrows DEF Grows, Formed
  <1>2. Start(g, f) \in Blocks(g) /\ End(g, f) \in Ends(g) /\ End(g, f) \in Blocks(g)
    BY <1>1 DEF Starts, Ends
  <1>3. /\ Fn(g, Start(g, f)) = f /\ Fn(g, End(g, f)) = f /\ ~HasAfter(g, End(g, f))
        /\ Start(g, f) # End(g, f)
    BY <1>1 DEF Homes
  <1>4. \A b \in Blocks(g) : Fn(h, b) = Fn(g, b)
    BY DEF Made, Fn
  <1>5. ~HasAfter(h, End(g, f))
    BY <1>2, <1>3 DEF Made, HasAfter
  <1> QED
    BY <1>1, <1>2, <1>3, <1>4, <1>5

LEMMA MadeAdds ==
    ASSUME NEW g, Formed(g), NEW h, Formed(h), NEW E, NEW R, Made(g, h, E, R)
    PROVE  /\ Adds(g, h, E) /\ Function(h) = Function(g) /\ Ends(h) = Ends(g) /\ Starts(h) = Starts(g)
           /\ \A b \in Blocks(h) : b \notin Blocks(g) => Fn(h, b) = Function(g)
  <1>1. Grows(g, h) /\ Function(h) = Function(g) /\ Ends(h) = Ends(g) /\ Starts(h) = Starts(g)
    BY MadeGrows
  <1>2. h.edges = g.edges \cup E /\ \A b \in Blocks(h) : b \notin Blocks(g) => Fn(h, b) = Function(g)
    BY DEF Made, Fn
  <1> QED
    BY <1>1, <1>2 DEF Adds

LEMMA OwnBlocks ==
    ASSUME NEW f
    PROVE  /\ f.kind = "then" => f.after \in Own(f) /\ f.after - 1 \in Own(f)
           /\ f.kind \in Loops => f.test \in Own(f) /\ f.after \in Own(f)
           /\ Later(f) \subseteq Own(f)
  BY DEF Own, Later, Loops

LEMMA KeptGrows ==
    ASSUME NEW g, NEW h, NEW E, Adds(g, h, E), NEW o, NEW o2, o \subseteq o2,
           NEW f, Kept(f, g, o), Own(f) \subseteq Blocks(g), \A e \in E : e[1] \notin Own(f),
           \A e \in E : f.kind = "then" /\ e[2] = f.after - 1 =>
               HasBefore(g, f.after - 1) \/ ~Clean(Fn(g, f.after), o2)
    PROVE  Kept(f, h, o2)
  <1>1. CASE f.kind = "then"
    <2>1. f.after \in Blocks(g) /\ f.after - 1 \in Blocks(g) /\ f.kind \notin Loops
      BY <1>1, OwnBlocks DEF Loops
    <2>2. Fn(h, f.after) = Fn(g, f.after) /\ Fn(h, f.after - 1) = Fn(g, f.after - 1)
      BY <2>1, AddedEdges
    <2>3. Fn(g, f.after - 1) = Fn(g, f.after)
      BY <1>1 DEF Kept
    <2>4. ASSUME Clean(Fn(g, f.after), o2)
          PROVE  IF f.hasElse THEN HasBefore(h, f.after - 1) /\ ~HasAfter(h, f.after - 1)
                 ELSE ~Entered(h, f.after - 1)
      <3>1. IF f.hasElse THEN HasBefore(g, f.after - 1) /\ ~HasAfter(g, f.after - 1)
            ELSE ~Entered(g, f.after - 1)
        BY <1>1, <2>4, CleanBefore DEF Kept
      <3>2. \A e \in E : e[1] # f.after - 1
        BY <1>1, OwnBlocks
      <3>3. \A e \in E : e[2] = f.after - 1 => HasBefore(g, f.after - 1)
        BY <1>1, <2>4
      <3>4. HasBefore(g, f.after - 1) => Entered(g, f.after - 1)
        BY DEF Entered
      <3> QED
        BY <2>1, <3>1, <3>2, <3>3, <3>4, AddedEdges
    <2> QED
      BY <2>1, <2>2, <2>3, <2>4 DEF Kept
  <1>2. CASE f.kind \in Loops
    <2>1. f.after \in Blocks(g) /\ f.test \in Blocks(g) /\ f.kind # "then"
      BY <1>2, OwnBlocks DEF Loops
    <2>2. Fn(h, f.after) = Fn(g, f.after) /\ Fn(h, f.test) = Fn(g, f.test)
      BY <2>1, AddedEdges
    <2>3. Clean(Fn(g, f.after), o2) => HasBefore(g, f.test) /\ HasAfter(g, f.test) /\ HasBefore(g, f.after)
      BY <1>2, CleanBefore DEF Kept
    <2>4. Fn(g, f.test) = Fn(g, f.after)
      BY <1>2 DEF Kept
    <2>5. Clean(Fn(g, f.after), o2) => HasBefore(h, f.test) /\ HasAfter(h, f.test) /\ HasBefore(h, f.after)
      BY <2>1, <2>3, AddedEdges
    <2> QED
      BY <2>1, <2>2, <2>4, <2>5 DEF Kept
  <1> QED
    BY <1>1, <1>2 DEF Kept

\* Nothing is done to the blocks of the frames.
Spare(nest, g, E, o) ==
    \A p \in 1 .. Len(nest) : Seen(nest, p - 1) =>
        /\ Own(nest[p]) \subseteq Blocks(g) /\ \A e \in E : e[1] \notin Own(nest[p])
        /\ \A e \in E : e[2] = nest[p].after - 1 /\ nest[p].kind = "then" =>
               HasBefore(g, nest[p].after - 1) \/ ~Clean(Fn(g, nest[p].after), o)

LEMMA KeptOther ==
    ASSUME NEW f, f.kind # "then", f.kind \notin Loops, NEW g, NEW o
    PROVE  Kept(f, g, o)
  BY DEF Kept

LEMMA KeepsKept ==
    ASSUME NEW g, NEW h, NEW E, Adds(g, h, E), NEW o, NEW o2, o \subseteq o2,
           NEW nest, Keeps(nest, g, o), Spare(nest, g, E, o2)
    PROVE  Keeps(nest, h, o2)
  <1> SUFFICES ASSUME NEW p \in 1 .. Len(nest), Seen(nest, p - 1)
               PROVE  Kept(nest[p], h, o2)
    BY DEF Keeps
  <1>1. PICK f : f = nest[p]
    OBVIOUS
  <1>2. Kept(f, g, o) /\ Own(f) \subseteq Blocks(g) /\ \A e \in E : e[1] \notin Own(f)
    BY <1>1 DEF Keeps, Spare
  <1>3. \A e \in E : f.kind = "then" /\ e[2] = f.after - 1 =>
            HasBefore(g, f.after - 1) \/ ~Clean(Fn(g, f.after), o2)
    BY <1>1 DEF Spare
  <1> QED
    BY <1>1, <1>2, <1>3, KeptGrows

-----------------------------------------------------------------------------
(* Where the walk is.                                                      *)

Ready(g) == ~HasAfter(g, g.current) /\ Entered(g, g.current)

LEMMA HereLeads ==
    ASSUME NEW nest, NEW ctx, NEW g, NEW o, NEW l \in BOOLEAN, NEW fr, NEW hs,
           Walk(nest, ctx, g, o, l, fr, hs), NEW o2, o \subseteq o2
    PROVE  Clean(Function(g), o2) /\ (l \/ ~Seen(nest, Len(nest))) => Ready(g)
  <1> SUFFICES ASSUME Clean(Function(g), o2), l \/ ~Seen(nest, Len(nest))
               PROVE  Ready(g)
    OBVIOUS
  <1>1. Leads(g, g.current, l \/ ~Seen(nest, Len(nest)), o) /\ g.block[g.current].function = Function(g)
    BY DEF Walk, Formed
  <1>2. ~Excused(Function(g), o)
    BY CleanBefore, CleanExcuses
  <1> QED
    BY <1>1, <1>2 DEF Leads, Ready

LEMMA HereCounts ==
    ASSUME NEW nest, NEW ctx, NEW g, NEW o, NEW l, NEW fr, NEW hs, Walk(nest, ctx, g, o, l, fr, hs),
           NEW C, Flow(nest, g, o, C), NEW o2, o \subseteq o2, Clean(Function(g), o2)
    PROVE  /\ g.current \in Blocks(g) \ Ends(g) /\ Fn(g, g.current) = Function(g)
           /\ Settled(nest, g, g.current, C)
           /\ ~HasAfter(g, g.current) => g.current \notin C
  <1>1. g.current \in Blocks(g) \ Ends(g) /\ Fn(g, g.current) = Function(g)
    BY DEF Walk, Formed, Fn
  <1>2. Settled(nest, g, g.current, C)
    BY <1>1, CleanBefore DEF Flow, Counts
  <1>3. Two(g, g.current) => HasAfter(g, g.current)
    <2> SUFFICES ASSUME Two(g, g.current) PROVE HasAfter(g, g.current)
      OBVIOUS
    <2>1. PICK c : <<g.current, c>> \in g.edges
      BY DEF Two
    <2> QED
      BY <2>1 DEF HasAfter
  <1> QED
    BY <1>1, <1>2, <1>3 DEF Settled

LEMMA AroundPushed ==
    ASSUME NEW nest, Len(nest) \in Nat, NEW f, NEW nest2, Deeper(nest, f, nest2), NEW b
    PROVE  /\ Awaited(nest, b) => Awaited(nest2, b)
           /\ Seen(nest, Len(nest)) /\ b \in Later(f) => Awaited(nest2, b)
           /\ Awaited(nest2, b) => Awaited(nest, b) \/ (Seen(nest, Len(nest)) /\ b \in Later(f))
  <1>1. PICK n \in Nat : n = Len(nest)
    OBVIOUS
  <1>2. Len(nest2) = n + 1 /\ nest2[n + 1] = f /\ \A p \in 1 .. n : nest2[p] = nest[p]
    BY <1>1 DEF Deeper
  <1>3. \A p \in 1 .. n + 1 : Seen(nest2, p - 1) <=> Seen(nest, p - 1)
    <2> SUFFICES ASSUME NEW p \in 1 .. n + 1
                 PROVE  Seen(nest2, p - 1) <=> Seen(nest, p - 1)
      OBVIOUS
    <2>1. \A r \in 1 .. p - 1 : r \in 1 .. n
      OBVIOUS
    <2> QED
      BY <1>2, <2>1 DEF Seen
  <1>4. ASSUME Awaited(nest, b)
        PROVE  Awaited(nest2, b)
    <2>1. PICK p \in 1 .. n : Seen(nest, p - 1) /\ b \in Later(nest[p])
      BY <1>1, <1>4 DEF Awaited
    <2>2. p \in 1 .. n + 1 /\ nest2[p] = nest[p]
      BY <1>2
    <2> QED
      BY <1>2, <1>3, <2>1, <2>2 DEF Awaited
  <1>5. ASSUME Seen(nest, Len(nest)), b \in Later(f)
        PROVE  Awaited(nest2, b)
    <2>1. n + 1 \in 1 .. n + 1 /\ n + 1 - 1 = n
      OBVIOUS
    <2>2. Seen(nest2, n + 1 - 1)
      BY <1>1, <1>3, <1>5, <2>1
    <2> QED
      BY <1>2, <1>5, <2>1, <2>2 DEF Awaited
  <1>6. ASSUME Awaited(nest2, b)
        PROVE  Awaited(nest, b) \/ (Seen(nest, Len(nest)) /\ b \in Later(f))
    <2>1. PICK p \in 1 .. n + 1 : Seen(nest2, p - 1) /\ b \in Later(nest2[p])
      BY <1>2, <1>6 DEF Awaited
    <2>2. CASE p = n + 1
      <3>1. p - 1 = n
        BY <2>2
      <3>2. Seen(nest, n)
        BY <1>3, <2>1, <3>1
      <3> QED
        BY <1>1, <1>2, <2>1, <2>2, <3>2
    <2>3. CASE p \in 1 .. n
      BY <1>1, <1>2, <1>3, <2>1, <2>3 DEF Awaited
    <2> QED
      BY <2>2, <2>3
  <1> QED
    BY <1>4, <1>5, <1>6

LEMMA KeepsPushed ==
    ASSUME NEW nest, Len(nest) \in Nat, NEW f, NEW nest2, Deeper(nest, f, nest2), NEW g, NEW o
    PROVE  /\ Keeps(nest, g, o) /\ (Seen(nest, Len(nest)) => Kept(f, g, o)) => Keeps(nest2, g, o)
           /\ Keeps(nest2, g, o) => Keeps(nest, g, o) /\ (Seen(nest, Len(nest)) => Kept(f, g, o))
  <1>1. PICK n \in Nat : n = Len(nest)
    OBVIOUS
  <1>2. Len(nest2) = n + 1 /\ nest2[n + 1] = f /\ \A p \in 1 .. n : nest2[p] = nest[p]
    BY <1>1 DEF Deeper
  <1>3. \A p \in 1 .. n + 1 : Seen(nest2, p - 1) <=> Seen(nest, p - 1)
    <2> SUFFICES ASSUME NEW p \in 1 .. n + 1
                 PROVE  Seen(nest2, p - 1) <=> Seen(nest, p - 1)
      OBVIOUS
    <2>1. \A r \in 1 .. p - 1 : r \in 1 .. n
      OBVIOUS
    <2> QED
      BY <1>2, <2>1 DEF Seen
  <1>4. ASSUME Keeps(nest, g, o), Seen(nest, n) => Kept(f, g, o), NEW p \in 1 .. n + 1, Seen(nest2, p - 1)
        PROVE  Kept(nest2[p], g, o)
    <2>1. Seen(nest, p - 1)
      BY <1>3, <1>4
    <2>2. CASE p = n + 1
      <3>1. p - 1 = n
        BY <2>2
      <3> QED
        BY <1>2, <1>4, <2>1, <2>2, <3>1
    <2>3. CASE p \in 1 .. n
      BY <1>1, <1>2, <1>4, <2>1, <2>3 DEF Keeps
    <2> QED
      BY <2>2, <2>3
  <1>5. ASSUME Keeps(nest2, g, o)
        PROVE  Keeps(nest, g, o) /\ (Seen(nest, n) => Kept(f, g, o))
    <2>1. ASSUME NEW p \in 1 .. n, Seen(nest, p - 1)
          PROVE  Kept(nest[p], g, o)
      <3>1. p \in 1 .. n + 1
        OBVIOUS
      <3> QED
        BY <1>2, <1>3, <1>5, <2>1, <3>1 DEF Keeps
    <2>2. ASSUME Seen(nest, n)
          PROVE  Kept(f, g, o)
      <3>1. n + 1 \in 1 .. n + 1 /\ n + 1 - 1 = n
        OBVIOUS
      <3>2. Seen(nest2, n + 1 - 1)
        BY <1>3, <2>2, <3>1
      <3> QED
        BY <1>2, <1>5, <3>1, <3>2 DEF Keeps
    <2> QED
      BY <1>1, <2>1, <2>2 DEF Keeps
  <1>6. Keeps(nest, g, o) /\ (Seen(nest, n) => Kept(f, g, o)) => Keeps(nest2, g, o)
    BY <1>2, <1>4 DEF Keeps
  <1> QED
    BY <1>1, <1>5, <1>6

LEMMA LoopingPushed ==
    ASSUME NEW nest, Len(nest) \in Nat, NEW f, NEW nest2, Deeper(nest, f, nest2)
    PROVE  /\ f.kind # "function" /\ Looping(nest) => Looping(nest2)
           /\ f.kind \notin Loops /\ Looping(nest2) => Looping(nest)
           /\ f.kind = "function" => ~Looping(nest2)
  <1>1. PICK n \in Nat : n = Len(nest)
    OBVIOUS
  <1>2. Len(nest2) = n + 1 /\ nest2[n + 1] = f /\ \A p \in 1 .. n : nest2[p] = nest[p]
    BY <1>1 DEF Deeper
  <1>3. ASSUME f.kind # "function", Looping(nest)
        PROVE  Looping(nest2)
    <2>1. PICK p \in 1 .. n : nest[p].kind \in Loops /\ \A r \in p + 1 .. n : nest[r].kind # "function"
      BY <1>1, <1>3 DEF Looping
    <2>2. ASSUME NEW r \in p + 1 .. n + 1
          PROVE  nest2[r].kind # "function"
      <3>1. r = n + 1 \/ (r \in p + 1 .. n /\ r \in 1 .. n)
        OBVIOUS
      <3> QED
        BY <1>2, <1>3, <2>1, <3>1
    <2>3. p \in 1 .. n + 1 /\ nest2[p].kind \in Loops
      BY <1>2, <2>1
    <2> QED
      BY <1>2, <2>2, <2>3 DEF Looping
  <1>4. ASSUME Looping(nest2), f.kind \notin Loops
        PROVE  Looping(nest) /\ f.kind # "function"
    <2>1. PICK p \in 1 .. n + 1 :
             nest2[p].kind \in Loops /\ \A r \in p + 1 .. n + 1 : nest2[r].kind # "function"
      BY <1>2, <1>4 DEF Looping
    <2>2. p # n + 1
      BY <1>2, <1>4, <2>1
    <2>3. p \in 1 .. n /\ n + 1 \in p + 1 .. n + 1
      BY <2>2
    <2>4. \A r \in p + 1 .. n : r \in p + 1 .. n + 1 /\ nest2[r] = nest[r]
      BY <1>2, <2>3
    <2>5. nest[p].kind \in Loops /\ \A r \in p + 1 .. n : nest[r].kind # "function"
      BY <1>2, <2>1, <2>3, <2>4
    <2> QED
      BY <1>1, <1>2, <2>1, <2>3, <2>5 DEF Looping
  <1>5. "function" \notin Loops
    BY DEF Loops
  <1> QED
    BY <1>3, <1>4, <1>5

-----------------------------------------------------------------------------
(* Steps that leave the graph as it is.                                    *)

LEMMA NothingAdded ==
    ASSUME NEW g, Formed(g), NEW E, E = {}
    PROVE  Adds(g, g, E)
  BY DEF Adds, Grows, Formed

\* Nothing is done to the graph, but the frames may wait for more.
LEMMA CountsStay ==
    ASSUME NEW g, Formed(g), NEW o, NEW o2, o \subseteq o2, NEW nest, NEW nest2, NEW C,
           Counts(nest, g, o, C), \A b : Awaited(nest, b) => Awaited(nest2, b)
    PROVE  Counts(nest2, g, o2, C)
  <1>1. PICK E : E = {}
    OBVIOUS
  <1>2. Adds(g, g, E)
    BY <1>1, NothingAdded
  <1>3. \A b \in Blocks(g) \ Ends(g) : Spared(nest, nest2, g, g, E, b)
    BY <1>1 DEF Spared, Waits
  <1>4. Homes(g) /\ C \subseteq Blocks(g) \ Ends(g)
    BY DEF Counts
  <1> QED
    BY <1>1, <1>2, <1>3, <1>4, CountsKept

LEMMA KeepsStay ==
    ASSUME NEW g, Formed(g), NEW o, NEW o2, o \subseteq o2, NEW nest, Keeps(nest, g, o)
    PROVE  Keeps(nest, g, o2)
  <1>1. ASSUME NEW f, Kept(f, g, o)
        PROVE  Kept(f, g, o2)
    BY <1>1, CleanBefore DEF Kept
  <1> QED
    BY <1>1 DEF Keeps

LEMMA FlowStay ==
    ASSUME NEW nest, NEW g, Formed(g), NEW o, NEW C, Flow(nest, g, o, C), NEW o2, o \subseteq o2
    PROVE  Flow(nest, g, o2, C)
  <1>1. Counts(nest, g, o2, C) /\ Keeps(nest, g, o2)
    BY CountsStay, KeepsStay DEF Flow
  <1> QED
    BY <1>1, CleanBefore DEF Flow

LEMMA FlowPush ==
    ASSUME NEW nest, Len(nest) \in Nat, NEW g, Formed(g), NEW o, NEW C, Flow(nest, g, o, C),
           NEW o2, o \subseteq o2, NEW f, NEW nest2, Deeper(nest, f, nest2),
           Seen(nest, Len(nest)) => Passive(f),
           Clean(Function(g), o2) /\ HasAfter(g, g.current) => f.kind # "function"
    PROVE  Flow(nest2, g, o2, C)
  <1>1. Counts(nest2, g, o2, C)
    BY AroundPushed, CountsStay DEF Flow
  <1>2. Passive(f) => Kept(f, g, o2)
    BY KeptOther DEF Passive, Loops
  <1>3. Keeps(nest2, g, o2)
    <2>1. Keeps(nest, g, o2)
      BY KeepsStay DEF Flow
    <2>2. Seen(nest, Len(nest)) => Kept(f, g, o2)
      BY <1>2
    <2> QED
      BY <2>1, <2>2, KeepsPushed
  <1>4. Clean(Function(g), o2) /\ HasAfter(g, g.current) => Looping(nest2)
    BY CleanBefore, LoopingPushed DEF Flow
  <1> QED
    BY <1>1, <1>3, <1>4 DEF Flow

LEMMA FlowPop ==
    ASSUME NEW nest, Len(nest) \in Nat, NEW g, Formed(g), NEW f, NEW nest2, Deeper(nest, f, nest2),
           NEW o, NEW C, Flow(nest2, g, o, C), NEW o2, o \subseteq o2,
           Seen(nest, Len(nest)) => Passive(f),
           Clean(Function(g), o2) /\ HasAfter(g, g.current) => f.kind \notin Loops
    PROVE  Flow(nest, g, o2, C)
  <1>1. Passive(f) => Later(f) = {}
    BY DEF Passive, Later, Loops
  <1>2. \A b : Awaited(nest2, b) => Awaited(nest, b)
    BY <1>1, AroundPushed
  <1>3. Counts(nest, g, o2, C)
    BY <1>2, CountsStay DEF Flow
  <1>4. Keeps(nest, g, o2)
    BY KeepsPushed, KeepsStay DEF Flow
  <1>5. Clean(Function(g), o2) /\ HasAfter(g, g.current) => Looping(nest)
    BY CleanBefore, LoopingPushed DEF Flow
  <1> QED
    BY <1>3, <1>4, <1>5 DEF Flow

-----------------------------------------------------------------------------
(* Steps that make something of the graph.                                 *)

\* Edges leave the current block and new ones, and lead to new ones and
\* those that others lead to.
Extends(g, h, E, o) ==
    \A e \in E :
        /\ e[1] \in Blocks(h) /\ (e[1] = g.current \/ e[1] \notin Blocks(g))
        /\ e[2] \in Blocks(g) =>
              e[2] \in Ends(g) \/ HasBefore(g, e[2]) \/ ~Clean(Fn(g, e[2]), o)

LEMMA ExtendsSpares ==
    ASSUME NEW nest, NEW ctx, NEW g, NEW o, NEW l, NEW fr, NEW hs, Walk(nest, ctx, g, o, l, fr, hs),
           Keeps(nest, g, o), NEW h, NEW E, NEW o2, Extends(g, h, E, o2)
    PROVE  Spare(nest, g, E, o2)
  <1> SUFFICES ASSUME NEW p \in 1 .. Len(nest), Seen(nest, p - 1)
               PROVE  /\ Own(nest[p]) \subseteq Blocks(g) /\ \A e \in E : e[1] \notin Own(nest[p])
                      /\ \A e \in E : e[2] = nest[p].after - 1 /\ nest[p].kind = "then" =>
                             HasBefore(g, nest[p].after - 1) \/ ~Clean(Fn(g, nest[p].after), o2)
    BY DEF Spare
  <1>1. PICK f : f = nest[p]
    OBVIOUS
  <1>2. Own(f) \subseteq Blocks(g) /\ g.current \notin Own(f) /\ Own(f) \cap Ends(g) = {}
    BY <1>1, OwnedApart
  <1>3. Kept(f, g, o)
    BY <1>1 DEF Keeps
  <1>4. \A e \in E : e[1] \notin Own(f)
    BY <1>2 DEF Extends
  <1>5. ASSUME NEW e \in E, f.kind = "then", e[2] = f.after - 1
        PROVE  HasBefore(g, f.after - 1) \/ ~Clean(Fn(g, f.after), o2)
    <2>1. f.after - 1 \in Own(f) /\ Fn(g, f.after - 1) = Fn(g, f.after)
      BY <1>3, <1>5, OwnBlocks DEF Kept
    <2> QED
      BY <1>2, <1>5, <2>1 DEF Extends
  <1> QED
    BY <1>1, <1>2, <1>4, <1>5

\* New decisions are new blocks.
Decided(g, h, C, C2) ==
    C \subseteq C2 /\ C2 \subseteq Blocks(h) /\ \A b \in C2 : b \in C \/ b \notin Blocks(g)

LEMMA BuildFlow ==
    ASSUME NEW nest, NEW ctx, NEW g, NEW o, NEW l, NEW fr, NEW hs, Walk(nest, ctx, g, o, l, fr, hs),
           NEW C, Flow(nest, g, o, C), NEW o2, o \subseteq o2,
           NEW h, Formed(h), NEW E, NEW R, Made(g, h, E, R), Extends(g, h, E, o2),
           NEW C2, Decided(g, h, C, C2),
           NEW nest2, Keeps(nest, h, o2) => Keeps(nest2, h, o2),
           \A b : Awaited(nest, b) => Awaited(nest2, b),
           Clean(Function(g), o2) =>
               /\ \A e \in E : Fn(h, e[2]) = Function(g)
               /\ Settled(nest2, h, g.current, C2)
               /\ \A b \in Blocks(h) \ Blocks(g) : Settled(nest2, h, b, C2)
               /\ HasAfter(h, h.current) => Looping(nest2)
    PROVE  Flow(nest2, h, o2, C2)
  <1>1. /\ Formed(g) /\ g.current \in Blocks(g) /\ g.current \notin Ends(g) /\ Ends(g) \subseteq Blocks(g)
        /\ Fn(g, g.current) = Function(g)
    BY DEF Walk, Formed, Fn
  <1>2. /\ Adds(g, h, E) /\ Function(h) = Function(g) /\ Ends(h) = Ends(g)
        /\ \A b \in Blocks(h) : b \notin Blocks(g) => Fn(h, b) = Function(g)
    BY <1>1, MadeAdds
  <1>3. \A e \in E : e[1] \notin Ends(g) /\ Fn(h, e[1]) = Function(g)
    <2>1. Fn(h, g.current) = Function(g)
      BY <1>1, <1>2, AddedEdges
    <2> QED
      BY <1>1, <1>2, <2>1 DEF Extends
  <1>4. Homes(h)
    BY <1>1, <1>3, HomesMade DEF Flow, Counts
  <1>5. Keeps(nest2, h, o2)
    BY <1>2, ExtendsSpares, KeepsKept DEF Flow
  <1>6. C2 \subseteq Blocks(h) \ Ends(h)
    <2>1. C \cap Ends(g) = {}
      BY DEF Flow, Counts
    <2> QED
      BY <1>1, <1>2, <2>1 DEF Decided
  <1>7. ASSUME NEW b \in Blocks(h) \ Ends(h), Clean(Fn(h, b), o2)
        PROVE  Settled(nest2, h, b, C2) \/ Spared(nest, nest2, g, h, E, b)
    <2>1. CASE b \notin Blocks(g)
      BY <1>2, <1>7, <2>1
    <2>2. CASE b = g.current
      BY <1>1, <1>2, <1>7, <2>2, AddedEdges
    <2>3. CASE b \in Blocks(g) /\ b # g.current
      <3>1. Fn(h, b) = Fn(g, b) /\ b \notin Ends(g)
        BY <1>2, <2>3, AddedEdges
      <3>2. \A e \in E : e[1] # b /\ (e[2] = b => HasBefore(g, b))
        BY <1>7, <2>3, <3>1 DEF Extends
      <3>3. Waits(nest, g, b) => Waits(nest2, h, b)
        BY <2>3 DEF Waits
      <3> QED
        BY <2>3, <3>2, <3>3 DEF Spared
    <2> QED
      BY <2>1, <2>2, <2>3
  <1>8. \A e \in E : Clean(Fn(h, e[1]), o2) => Fn(h, e[2]) = Fn(h, e[1])
    BY <1>3
  <1>9. Counts(nest2, h, o2, C2)
    <2>1. C \subseteq C2 /\ \A b \in C2 : b \in C \/ b \notin Blocks(g)
      BY DEF Decided
    <2>2. Counts(nest, g, o, C)
      BY DEF Flow
    <2> QED
      BY <1>2, <1>4, <1>6, <1>7, <1>8, <2>1, <2>2, CountsKept
  <1> QED
    BY <1>2, <1>5, <1>9 DEF Flow

-----------------------------------------------------------------------------
(* Blocks that are settled.                                                *)

LEMMA OneMade ==
    ASSUME NEW g, NEW h, NEW E, Adds(g, h, E), NEW b, ~HasAfter(g, b), NEW c \in Nat, <<b, c>> \in E,
           \A e \in E : e[1] = b => e[2] = c
    PROVE  One(h, b) /\ HasAfter(h, b)
  <1>1. \A e \in g.edges : e[1] # b
    BY DEF HasAfter
  <1>2. <<b, c>> \in h.edges /\ \A e \in h.edges : e[1] = b => e[2] = c
    BY <1>1 DEF Adds
  <1> QED
    BY <1>2 DEF One, HasAfter

LEMMA TwoMade ==
    ASSUME NEW g, NEW h, NEW E, Adds(g, h, E), NEW b, ~HasAfter(g, b), NEW c \in Nat, NEW d \in Nat, c # d,
           <<b, c>> \in E, <<b, d>> \in E, \A e \in E : e[1] = b => e[2] \in {c, d}
    PROVE  Two(h, b) /\ HasAfter(h, b)
  <1>1. \A e \in g.edges : e[1] # b
    BY DEF HasAfter
  <1>2. <<b, c>> \in h.edges /\ <<b, d>> \in h.edges /\ \A e \in h.edges : e[1] = b => e[2] \in {c, d}
    BY <1>1 DEF Adds
  <1> QED
    BY <1>2 DEF Two, HasAfter

LEMMA LedMade ==
    ASSUME NEW g, NEW h, NEW E, Adds(g, h, E), NEW a \in Blocks(h), NEW b, a < b, <<a, b>> \in E,
           Fn(h, a) = Fn(h, b), Entered(h, a)
    PROVE  Led(h, b) /\ Entered(h, b)
  <1>1. <<a, b>> \in h.edges
    BY DEF Adds
  <1> QED
    BY <1>1 DEF Led, Entered, HasBefore

LEMMA SettledOne ==
    ASSUME NEW h, NEW b, One(h, b), NEW C, b \notin C, Led(h, b), NEW nest
    PROVE  Settled(nest, h, b, C)
  BY DEF Settled

LEMMA SettledTwo ==
    ASSUME NEW h, NEW b, Two(h, b), NEW C, Entered(h, b), Led(h, b), b \in C, NEW nest
    PROVE  Settled(nest, h, b, C)
  BY DEF Settled

LEMMA SettledLater ==
    ASSUME NEW h, NEW b, ~HasAfter(h, b), NEW C, b \notin C, Led(h, b), NEW nest, Waits(nest, h, b)
    PROVE  Settled(nest, h, b, C)
  BY DEF Settled

LEMMA SettledNever ==
    ASSUME NEW h, NEW b, ~Entered(h, b), NEW C, b \notin C, NEW nest
    PROVE  Settled(nest, h, b, C)
  BY DEF Settled, Entered

\* The current block, when the first edge leaves it.
LEMMA HereSettled ==
    ASSUME NEW nest, NEW ctx, NEW g, NEW o, NEW l, NEW fr, NEW hs, Walk(nest, ctx, g, o, l, fr, hs),
           NEW C, Flow(nest, g, o, C), NEW o2, o \subseteq o2, Clean(Function(g), o2),
           NEW h, NEW E, Adds(g, h, E), ~HasAfter(g, g.current),
           NEW x \in Nat, <<g.current, x>> \in E, \A e \in E : e[1] = g.current => e[2] = x,
           \A e \in E : e[2] = g.current => HasBefore(g, g.current),
           NEW C2, g.current \in C2 => g.current \in C, NEW nest2
    PROVE  Settled(nest2, h, g.current, C2)
  <1>1. g.current \in Blocks(g) /\ Settled(nest, g, g.current, C) /\ g.current \notin C
    BY HereCounts
  <1>2. One(h, g.current)
    BY OneMade
  <1>3. HasBefore(h, g.current) <=> HasBefore(g, g.current)
    BY AddedEdges
  <1>4. Start(h, Fn(h, g.current)) = Start(g, Fn(g, g.current))
    BY <1>1, AddedEdges
  <1>5. HasBefore(h, g.current) /\ g.current # Start(h, Fn(h, g.current)) => Led(h, g.current)
    BY <1>1, <1>3, <1>4, LedKept DEF Settled
  <1> QED
    BY <1>1, <1>2, <1>5 DEF Settled

LEMMA NewBlock ==
    ASSUME NEW g, Formed(g), NEW h, Formed(h), NEW E, NEW R, Made(g, h, E, R),
           NEW b \in Blocks(h), b \notin Blocks(g)
    PROVE  /\ ~HasAfter(g, b) /\ Fn(h, b) = Function(g)
           /\ HasAfter(h, b) <=> \E e \in E : e[1] = b
           /\ HasBefore(h, b) <=> \E e \in E : e[2] = b
           /\ Entered(h, b) <=> \E e \in E : e[2] = b
           /\ \A a \in Blocks(h) : a < b /\ <<a, b>> \in E /\ Fn(h, a) = Function(g) /\ Entered(h, a) =>
                  Led(h, b)
  <1>1. Adds(g, h, E) /\ Fn(h, b) = Function(g) /\ Starts(h) = Starts(g)
    BY MadeAdds
  <1>2. ~HasAfter(g, b) /\ ~HasBefore(g, b)
    BY <1>1, AddedEdges
  <1>3. /\ HasAfter(h, b) <=> \E e \in E : e[1] = b
        /\ HasBefore(h, b) <=> \E e \in E : e[2] = b
    BY <1>1, <1>2, AddedEdges
  <1>4. b # Start(h, Fn(h, b))
    <2>1. Fn(h, b) \in Functions(h)
      BY FormedEdges
    <2>2. Start(h, Fn(h, b)) \in Starts(h)
      BY <2>1 DEF Starts
    <2>3. Start(h, Fn(h, b)) \in Blocks(g)
      BY <1>1, <2>2 DEF Formed
    <2> QED
      BY <2>3
  <1>5. Entered(h, b) <=> \E e \in E : e[2] = b
    BY <1>3, <1>4 DEF Entered, Fn
  <1>6. \A a \in Blocks(h) : a < b /\ <<a, b>> \in E /\ Fn(h, a) = Function(g) /\ Entered(h, a) => Led(h, b)
    BY <1>1, LedMade
  <1> QED
    BY <1>1, <1>2, <1>3, <1>5, <1>6

\* Where the walk is, when it can be there and the function is clean.
LEMMA HereAfter ==
    ASSUME NEW nest, NEW ctx, NEW g, NEW o, NEW l, NEW fr, NEW hs, Walk(nest, ctx, g, o, l, fr, hs),
           NEW C, Flow(nest, g, o, C), NEW o2, o \subseteq o2, Clean(Function(g), o2), Ready(g)
    PROVE  /\ ~HasAfter(g, g.current) /\ g.current \in Blocks(g) /\ g.current \in Nat
           /\ g.current \notin C /\ Fn(g, g.current) = Function(g) /\ Entered(g, g.current)
  <1>1. ~HasAfter(g, g.current) /\ Entered(g, g.current)
    BY DEF Ready
  <1>2. g.current \in Blocks(g) /\ Fn(g, g.current) = Function(g) /\ g.current \notin C
    BY <1>1, HereCounts
  <1> QED
    BY <1>1, <1>2 DEF Blocks

LEMMA ReadyFirst ==
    ASSUME NEW g, Ready(g), NEW n
    PROVE  First(g, n) = g.current /\ Total(g, n) = Size(g) + n
  BY DEF Ready, First, Total

LEMMA HereKept ==
    ASSUME NEW g, NEW h, NEW E, Adds(g, h, E), NEW c \in Blocks(g), NEW fn, Fn(g, c) = fn, Entered(g, c)
    PROVE  c \in Blocks(h) /\ Fn(h, c) = fn /\ Entered(h, c)
  BY AddedEdges

-----------------------------------------------------------------------------
(* The statements.                                                         *)

LEMMA SimpleFlow ==
    ASSUME NEW nest, NEW ctx, NEW g, NEW o, NEW l \in BOOLEAN, NEW fr, NEW hs,
           Walk(nest, ctx, g, o, l, fr, hs),
           NEW C, Flow(nest, g, o, C), NEW o2, o \subseteq o2, Clean(Function(g), o2) => l,
           NEW r \in BOOLEAN, Formed(AddInstruction(g, r))
    PROVE  /\ Flow(nest, AddInstruction(g, r), o2, C)
           /\ Clean(Function(g), o2) => /\ ~HasAfter(g, g.current)
                                        /\ Entered(AddInstruction(g, r), g.current)
                                        /\ AddInstruction(g, r).current = g.current
  <1>1. Formed(g) /\ g.current \in Blocks(g)
    BY DEF Walk, Formed
  <1>2. PICK h, E, R : h = AddInstruction(g, r) /\ E = {} /\ R = {<<First(g, 0), r>>}
    OBVIOUS
  <1>3. Formed(h) /\ Made(g, h, E, R) /\ h.current = First(g, 0) /\ Size(h) = Total(g, 0)
    BY <1>1, <1>2, SimpleMade
  <1>4. Extends(g, h, E, o2)
    BY <1>2 DEF Extends
  <1>5. Decided(g, h, C, C)
    <2>1. C \subseteq Blocks(g)
      BY DEF Flow, Counts
    <2> QED
      BY <1>1, <1>3, <2>1, MadeGrows DEF Decided, Grows
  <1>6. ASSUME Clean(Function(g), o2)
        PROVE  /\ ~HasAfter(g, g.current) /\ Entered(h, g.current) /\ h.current = g.current
               /\ Settled(nest, h, g.current, C) /\ Blocks(h) = Blocks(g) /\ ~HasAfter(h, h.current)
    <2>0. Ready(g)
      BY <1>6, HereLeads
    <2>1. ~HasAfter(g, g.current) /\ Entered(h, g.current) /\ h.current = g.current /\ Size(h) = Size(g) + 0
      <3>1. ~HasAfter(g, g.current) /\ Entered(g, g.current)
        BY <2>0 DEF Ready
      <3>2. First(g, 0) = g.current /\ Total(g, 0) = Size(g) + 0
        BY <2>0, ReadyFirst
      <3>3. Adds(g, h, E)
        BY <1>1, <1>3, MadeAdds
      <3>4. Entered(h, g.current)
        BY <1>1, <3>1, <3>3, AddedEdges
      <3> QED
        BY <1>3, <3>1, <3>2, <3>4
    <2>2. Size(g) + 0 = Size(g)
      BY <1>1, FormedEdges
    <2>3. Adds(g, h, E)
      BY <1>1, <1>3, MadeAdds
    <2>4. ~HasAfter(h, h.current)
      BY <1>2, <2>1, <2>3, AddedEdges
    <2>5. Spared(nest, nest, g, h, E, g.current)
      BY <1>1, <1>2, <2>1 DEF Spared, Waits
    <2>6. Settled(nest, g, g.current, C)
      BY <1>6, HereCounts
    <2>7. Settled(nest, h, g.current, C)
      BY <2>3, <2>5, <2>6, SettledKept
    <2> QED
      BY <2>1, <2>2, <2>4, <2>7 DEF Blocks
  <1>7. Flow(nest, h, o2, C)
    <2>1. \A e \in E : Fn(h, e[2]) = Function(g)
      BY <1>2
    <2>2. Clean(Function(g), o2) =>
               /\ \A e \in E : Fn(h, e[2]) = Function(g)
               /\ Settled(nest, h, g.current, C)
               /\ \A b \in Blocks(h) \ Blocks(g) : Settled(nest, h, b, C)
               /\ HasAfter(h, h.current) => Looping(nest)
      BY <1>6, <2>1
    <2> QED
      BY <1>3, <1>4, <1>5, <2>2, BuildFlow
  <1> QED
    BY <1>2, <1>6, <1>7

LEMMA ReturnFlow ==
    ASSUME NEW nest, NEW ctx, NEW g, NEW o, NEW l \in BOOLEAN, NEW fr, NEW hs,
           Walk(nest, ctx, g, o, l, fr, hs),
           NEW C, Flow(nest, g, o, C), NEW o2, o \subseteq o2, Clean(Function(g), o2) => l,
           Formed(ReturnBlocks(g, l))
    PROVE  Flow(nest, ReturnBlocks(g, l), o2, C)
  <1>1. Formed(g) /\ g.current \in Blocks(g) /\ Size(g) \in Nat
    BY FormedEdges DEF Walk, Formed
  <1>2. PICK c, e1 : c = g.current /\ e1 = End(g, Function(g))
    OBVIOUS
  <1>3. e1 \in Blocks(g) /\ e1 \in Ends(g) /\ Fn(g, e1) = Function(g) /\ c # e1
    <2>1. Function(g) \in Functions(g) /\ e1 \in Blocks(g) /\ e1 \in Ends(g)
      BY <1>1, <1>2, CurrentFunction
    <2> QED
      BY <1>2, <2>1 DEF Flow, Counts, Homes, Walk
  <1>4. PICK n \in Nat, b1 \in Nat, b2 \in Nat : n = Size(g) /\ b1 = n + 1 /\ b2 = n + 2
    BY <1>1
  <1>5. PICK h, E, R : h = ReturnBlocks(g, l) /\ E = {<<c, b1>>, <<b1, e1>>} /\ R = {<<b1, l>>}
    OBVIOUS
  <1>6. Formed(h) /\ Made(g, h, E, R) /\ h.current = b2 /\ Size(h) = b2
    BY <1>1, <1>2, <1>4, <1>5, ReturnMade
  <1>7. /\ b1 \in Blocks(h) /\ b2 \in Blocks(h) /\ b1 \notin Blocks(g) /\ b2 \notin Blocks(g) /\ b2 # b1
        /\ Blocks(g) \subseteq Blocks(h) /\ \A b \in Blocks(h) : b \in Blocks(g) \/ b = b1 \/ b = b2
        /\ \A b \in Blocks(g) : b < b1
    BY <1>4, <1>6 DEF Blocks
  <1>8. Extends(g, h, E, o2)
    <2>1. \A e \in E : e = <<c, b1>> \/ e = <<b1, e1>>
      BY <1>5
    <2> QED
      BY <1>1, <1>2, <1>3, <1>7, <2>1 DEF Extends
  <1>9. C \subseteq Blocks(g) /\ Decided(g, h, C, C)
    BY <1>7 DEF Decided, Flow, Counts
  <1>10. ASSUME Clean(Function(g), o2)
         PROVE  /\ \A e \in E : Fn(h, e[2]) = Function(g)
                /\ Settled(nest, h, g.current, C)
                /\ \A b \in Blocks(h) \ Blocks(g) : Settled(nest, h, b, C)
                /\ HasAfter(h, h.current) => Looping(nest)
    <2>1. \A e \in E : e[2] # g.current
      BY <1>1, <1>2, <1>3, <1>5, <1>7
    <2>2. \A e \in E : e[1] = c => e[2] = b1
      BY <1>1, <1>2, <1>5, <1>7
    <2>4. Adds(g, h, E)
      BY <1>1, <1>6, MadeAdds
    <2>3. ~HasAfter(g, c) /\ c \notin C /\ c \in Blocks(h) /\ Fn(h, c) = Function(g) /\ Entered(h, c)
      <3>1. Ready(g)
        BY <1>10, HereLeads, ZenonT(40)
      <3> QED
        <4>1. ~HasAfter(g, c) /\ c \in Blocks(g) /\ c \notin C /\ Fn(g, c) = Function(g) /\ Entered(g, c)
          BY <1>2, <1>10, <3>1, HereAfter
        <4> QED
          BY <2>4, <4>1, HereKept
    <2>10. Settled(nest, h, c, C)
      <3>1. <<c, b1>> \in E
        BY <1>5
      <3> QED
        BY <1>2, <1>10, <2>1, <2>2, <2>3, <2>4, <3>1, HereSettled
    <2>5. Settled(nest, h, b1, C)
      <3>1. ~HasAfter(g, b1) /\ Led(h, b1)
        <4>1. <<c, b1>> \in E /\ c < b1
          BY <1>1, <1>2, <1>5, <1>7
        <4> QED
          BY <1>1, <1>6, <1>7, <2>3, <4>1, NewBlock
      <3>2. One(h, b1)
        <4>1. <<b1, e1>> \in E /\ e1 \in Nat /\ \A e \in E : e[1] = b1 => e[2] = e1
          BY <1>1, <1>2, <1>3, <1>5, <1>7 DEF Blocks
        <4> QED
          BY <2>4, <3>1, <4>1, OneMade
      <3> QED
        BY <1>7, <1>9, <3>1, <3>2, SettledOne
    <2>6. ~Entered(h, b2) /\ ~HasAfter(h, b2)
      <3>1. \A e \in E : e[1] # b2 /\ e[2] # b2
        BY <1>1, <1>2, <1>3, <1>5, <1>7
      <3> QED
        BY <1>1, <1>6, <1>7, <3>1, NewBlock
    <2>7. Settled(nest, h, b2, C)
      BY <1>7, <1>9, <2>6, SettledNever
    <2>8. Fn(h, b1) = Function(g) /\ Fn(h, e1) = Function(g)
      <3>1. Fn(h, b1) = Function(g)
        BY <1>1, <1>6, <1>7, NewBlock
      <3>2. Fn(h, e1) = Fn(g, e1)
        BY <1>3, <2>4, AddedEdges
      <3> QED
        BY <1>3, <3>1, <3>2
    <2>9. \A e \in E : Fn(h, e[2]) = Function(g)
      BY <1>5, <2>8
    <2> QED
      BY <1>2, <1>6, <1>7, <2>5, <2>6, <2>7, <2>9, <2>10
  <1>11. Flow(nest, h, o2, C)
    BY <1>6, <1>8, <1>9, <1>10, BuildFlow
  <1> QED
    BY <1>5, <1>11

LEMMA JumpFlow ==
    ASSUME NEW nest, NEW ctx, NEW g, NEW o, NEW l \in BOOLEAN, NEW fr, NEW hs,
           Walk(nest, ctx, g, o, l, fr, hs),
           NEW C, Flow(nest, g, o, C), NEW o2, o \subseteq o2, Clean(Function(g), o2) => l,
           NEW to \in Blocks(g), to # g.current, Clean(Fn(g, to), o2) => HasBefore(g, to),
           Clean(Function(g), o2) => Looping(nest) /\ Fn(g, to) = Function(g),
           Formed(JumpBlock(g, to, l))
    PROVE  Flow(nest, JumpBlock(g, to, l), o2, C)
  <1>1. Formed(g) /\ g.current \in Blocks(g) /\ Size(g) \in Nat /\ to \in Nat
    BY FormedEdges DEF Walk, Formed
  <1>2. PICK c : c = g.current
    OBVIOUS
  <1>4. PICK n \in Nat, b1 \in Nat : n = Size(g) /\ b1 = n + 1
    BY <1>1
  <1>5. PICK h, E, R : h = JumpBlock(g, to, l) /\ E = {<<c, b1>>, <<b1, to>>} /\ R = {<<b1, l>>}
    OBVIOUS
  <1>6. Formed(h) /\ Made(g, h, E, R) /\ h.current = b1 /\ Size(h) = b1
    BY <1>1, <1>2, <1>4, <1>5, JumpMade
  <1>7. /\ b1 \in Blocks(h) /\ b1 \notin Blocks(g)
        /\ Blocks(g) \subseteq Blocks(h) /\ \A b \in Blocks(h) : b \in Blocks(g) \/ b = b1
        /\ \A b \in Blocks(g) : b < b1
    BY <1>4, <1>6 DEF Blocks
  <1>8. Extends(g, h, E, o2)
    <2>1. \A e \in E : e = <<c, b1>> \/ e = <<b1, to>>
      BY <1>5
    <2> QED
      BY <1>1, <1>2, <1>7, <2>1 DEF Extends
  <1>9. C \subseteq Blocks(g) /\ Decided(g, h, C, C)
    BY <1>7 DEF Decided, Flow, Counts
  <1>10. ASSUME Clean(Function(g), o2)
         PROVE  /\ \A e \in E : Fn(h, e[2]) = Function(g)
                /\ Settled(nest, h, g.current, C)
                /\ \A b \in Blocks(h) \ Blocks(g) : Settled(nest, h, b, C)
                /\ HasAfter(h, h.current) => Looping(nest)
    <2>1. \A e \in E : e[2] # g.current
      BY <1>1, <1>2, <1>5, <1>7
    <2>2. \A e \in E : e[1] = c => e[2] = b1
      BY <1>1, <1>2, <1>5, <1>7
    <2>4. Adds(g, h, E)
      BY <1>1, <1>6, MadeAdds
    <2>3. ~HasAfter(g, c) /\ c \notin C /\ c \in Blocks(h) /\ Fn(h, c) = Function(g) /\ Entered(h, c)
      <3>1. Ready(g)
        BY <1>10, HereLeads, ZenonT(40)
      <3> QED
        <4>1. ~HasAfter(g, c) /\ c \in Blocks(g) /\ c \notin C /\ Fn(g, c) = Function(g) /\ Entered(g, c)
          BY <1>2, <1>10, <3>1, HereAfter
        <4> QED
          BY <2>4, <4>1, HereKept
    <2>5. Settled(nest, h, c, C)
      <3>1. <<c, b1>> \in E
        BY <1>5
      <3> QED
        BY <1>2, <1>10, <2>1, <2>2, <2>3, <2>4, <3>1, HereSettled
    <2>6. Settled(nest, h, b1, C)
      <3>1. ~HasAfter(g, b1) /\ Led(h, b1)
        <4>1. <<c, b1>> \in E /\ c < b1
          BY <1>1, <1>2, <1>5, <1>7
        <4> QED
          BY <1>1, <1>6, <1>7, <2>3, <4>1, NewBlock
      <3>2. One(h, b1)
        <4>1. <<b1, to>> \in E /\ \A e \in E : e[1] = b1 => e[2] = to
          BY <1>1, <1>2, <1>5, <1>7
        <4> QED
          BY <1>1, <2>4, <3>1, <4>1, OneMade
      <3> QED
        BY <1>7, <1>9, <3>1, <3>2, SettledOne
    <2>7. \A e \in E : Fn(h, e[2]) = Function(g)
      <3>1. Fn(h, b1) = Function(g)
        BY <1>1, <1>6, <1>7, NewBlock
      <3>2. Fn(h, to) = Function(g)
        BY <1>10, <2>4, AddedEdges
      <3> QED
        BY <1>5, <3>1, <3>2
    <2> QED
      BY <1>2, <1>7, <1>10, <2>5, <2>6, <2>7
  <1>11. Flow(nest, h, o2, C)
    BY <1>6, <1>8, <1>9, <1>10, BuildFlow
  <1> QED
    BY <1>5, <1>11

\* What is decided in block b, when it is.
Chosen(C, C2, b, clean) == (C2 = C \/ C2 = C \cup {b}) /\ (clean => C2 = C \cup {b})

LEMMA IfFlow ==
    ASSUME NEW nest, NEW ctx, NEW g, NEW o, NEW l \in BOOLEAN, NEW fr, NEW hs,
           Walk(nest, ctx, g, o, l, fr, hs), Seen(nest, Len(nest)),
           NEW C, Flow(nest, g, o, C), NEW o2, o \subseteq o2,
           NEW cond, NEW hasElse, Clean(Function(g), o2) => l /\ cond = "any",
           NEW C2, Chosen(C, C2, Size(g) + 1, Clean(Function(g), o2)),
           NEW f, NEW nest2, Deeper(nest, f, nest2), IfFrame(g, hasElse, f),
           Formed(IfBlocks(g, cond, hasElse, l))
    PROVE  Flow(nest2, IfBlocks(g, cond, hasElse, l), o2, C2)
  <1>1. Formed(g) /\ g.current \in Blocks(g) /\ Size(g) \in Nat /\ Len(nest) \in Nat /\ hasElse \in BOOLEAN
    BY FormedEdges, WalkFacts DEF Formed, IfFrame
  <1>4. PICK n \in Nat, b1 \in Nat, b2 \in Nat, b3 \in Nat, b4 \in Nat :
             n = Size(g) /\ b1 = n + 1 /\ b2 = n + 2 /\ b3 = n + 3 /\ b4 = n + 4
    BY <1>1
  <1>2. PICK c : c = First(g, 4)
    OBVIOUS
  <1>5. PICK h, E, R : /\ h = IfBlocks(g, cond, hasElse, l) /\ R = IfShows(g, cond, hasElse, l)
                       /\ E = IfEdges(g, cond, hasElse)
    OBVIOUS
  <1>51. E = {<<c, b1>>} \cup (IF cond # "false" THEN {<<b1, b2>>} ELSE {})
             \cup (IF ~hasElse THEN {<<b1, b4>>} ELSE {})
             \cup (IF hasElse /\ cond # "true" THEN {<<b1, b3>>} ELSE {})
    BY <1>2, <1>4, <1>5 DEF IfEdges
  <1>6. Formed(h) /\ Made(g, h, E, R) /\ h.current = b2 /\ Size(h) = Total(g, 4)
    BY <1>1, <1>4, <1>5, IfMade
  <1>61. n + 4 <= Size(h) /\ c \in 1 .. Size(h) /\ (c = g.current \/ c = n + 5) /\ Size(h) \in Nat
    <2>1. /\ Total(g, 4) \in Nat /\ Size(g) + 4 <= Total(g, 4) /\ First(g, 4) \in 1 .. Total(g, 4)
          /\ First(g, 4) = g.current \/ First(g, 4) = Size(g) + 4 + 1
      BY <1>1, FirstType
    <2>2. Size(g) + 4 + 1 = n + 5
      BY <1>4
    <2> QED
      BY <1>2, <1>4, <1>6, <2>1, <2>2
  <1>7. /\ {b1, b2, b3, b4} \subseteq Blocks(h) /\ {b1, b2, b3, b4} \cap Blocks(g) = {}
        /\ c \in Blocks(h) /\ (c = g.current \/ c \notin Blocks(g)) /\ c \notin {b1, b2, b3, b4}
        /\ Blocks(g) \subseteq Blocks(h) /\ \A b \in Blocks(g) : b < b1
        /\ b1 < b2 /\ b1 < b3 /\ b1 < b4 /\ b2 # b3 /\ b2 # b4 /\ b3 # b4
    <2>1. PICK m \in Nat : m = Size(h)
      BY <1>61
    <2>2. g.current \in 1 .. n
      BY <1>1, <1>4 DEF Blocks
    <2>3. PICK x : x = g.current
      OBVIOUS
    <2>7. n + 4 <= m /\ c \in 1 .. m /\ (c = x \/ c = n + 5) /\ x \in 1 .. n
      BY <1>61, <2>1, <2>2, <2>3
    <2>8. PICK d \in Nat : d = c
      BY <2>7
    <2>9. b1 = n + 1 /\ b2 = n + 2 /\ b3 = n + 3 /\ b4 = n + 4
      BY <1>4
    <2>10. n + 4 <= m /\ d \in 1 .. m /\ (d \in 1 .. n \/ d = n + 5)
      BY <2>7, <2>8
    <2>11. /\ b1 \in 1 .. m /\ b1 \notin 1 .. n /\ b1 # d
           /\ b2 \in 1 .. m /\ b2 \notin 1 .. n /\ b2 # d
           /\ b3 \in 1 .. m /\ b3 \notin 1 .. n /\ b3 # d
           /\ b4 \in 1 .. m /\ b4 \notin 1 .. n /\ b4 # d
      BY <2>9, <2>10
    <2>4. \A b \in {b1, b2, b3, b4} : b \in 1 .. m /\ b \notin 1 .. n /\ b # c
      BY <2>8, <2>11
    <2>12. n + 5 \notin 1 .. n /\ 1 .. n \subseteq 1 .. m
      BY <2>10
    <2>5. c \in 1 .. m /\ (c = x \/ c \notin 1 .. n) /\ 1 .. n \subseteq 1 .. m
      BY <2>7, <2>12
    <2>6. /\ \A b \in 1 .. n : b < b1
          /\ b1 < b2 /\ b1 < b3 /\ b1 < b4 /\ b2 # b3 /\ b2 # b4 /\ b3 # b4
      BY <1>4, SMTT(30)
    <2> QED
      BY <1>4, <2>1, <2>3, <2>4, <2>5, <2>6 DEF Blocks
  <1>71. f.kind = "then" /\ f.hasElse = hasElse /\ f.after = b4 /\ f.after - 1 = b3
    BY <1>4 DEF IfFrame
  <1>72. \A e \in E : e[1] \in {c, b1} /\ e[2] \in {b1, b2, b3, b4}
    BY <1>51
  <1> HIDE <1>51
  <1>8. Extends(g, h, E, o2)
    BY <1>7, <1>72 DEF Extends
  <1>9. C \subseteq Blocks(g) /\ Decided(g, h, C, C2)
    <2>1. C \subseteq Blocks(g)
      BY DEF Flow, Counts
    <2> QED
      BY <1>4, <1>7, <2>1 DEF Decided, Chosen
  <1>73. \A b \in {b1, b2, b3, b4} : ~HasAfter(g, b) /\ Fn(h, b) = Function(g)
    BY <1>1, <1>6, <1>7, NewBlock
  <1>11. Adds(g, h, E)
    BY <1>1, <1>6, MadeAdds
  <1>10. ASSUME Clean(Function(g), o2)
         PROVE  /\ C2 = C \cup {b1} /\ c = g.current
                /\ \A b \in Blocks(h) \ Blocks(g) : b \in {b1, b2, b3, b4}
                /\ <<c, b1>> \in E /\ <<b1, b2>> \in E
                /\ IF hasElse THEN E = {<<c, b1>>, <<b1, b2>>, <<b1, b3>>}
                   ELSE E = {<<c, b1>>, <<b1, b2>>, <<b1, b4>>}
                /\ ~HasAfter(g, c) /\ c \notin C /\ Fn(h, c) = Function(g) /\ Entered(h, c)
    <2>1. Ready(g)
      BY <1>10, HereLeads, ZenonT(40)
    <2>2. /\ ~HasAfter(g, g.current) /\ g.current \notin C /\ Fn(h, g.current) = Function(g)
          /\ Entered(h, g.current) /\ First(g, 4) = g.current /\ Total(g, 4) = Size(g) + 4
      <3>1. /\ ~HasAfter(g, g.current) /\ g.current \in Blocks(g) /\ g.current \notin C
            /\ Fn(g, g.current) = Function(g) /\ Entered(g, g.current)
        BY <1>10, <2>1, HereAfter
      <3>2. Fn(h, g.current) = Function(g) /\ Entered(h, g.current)
        BY <1>11, <3>1, HereKept
      <3> QED
        BY <2>1, <3>1, <3>2, ReadyFirst
    <2>3. \A b \in Blocks(h) \ Blocks(g) : b \in {b1, b2, b3, b4}
      <3>1. Size(h) = n + 4
        BY <1>4, <1>6, <2>2
      <3>2. \A b \in 1 .. n + 4 : b \in 1 .. n \/ b = n + 1 \/ b = n + 2 \/ b = n + 3 \/ b = n + 4
        OBVIOUS
      <3>3. Blocks(h) = 1 .. n + 4 /\ Blocks(g) = 1 .. n
        BY <1>4, <3>1 DEF Blocks
      <3>4. \A b : b \in 1 .. n + 4 /\ b \notin 1 .. n => b = b1 \/ b = b2 \/ b = b3 \/ b = b4
        BY <1>4, <3>2
      <3> QED
        BY <3>3, <3>4
    <2>4. C2 = C \cup {b1}
      BY <1>4, <1>10 DEF Chosen
    <2>5. IF hasElse THEN E = {<<c, b1>>, <<b1, b2>>, <<b1, b3>>}
          ELSE E = {<<c, b1>>, <<b1, b2>>, <<b1, b4>>}
      <3>1. cond = "any"
        BY <1>10
      <3>2. E = {<<c, b1>>} \cup {<<b1, b2>>} \cup (IF ~hasElse THEN {<<b1, b4>>} ELSE {})
                \cup (IF hasElse THEN {<<b1, b3>>} ELSE {})
        BY <1>51, <3>1
      <3>3. CASE hasElse
        BY <3>2, <3>3
      <3>4. CASE ~hasElse
        BY <3>2, <3>4
      <3> QED
        BY <3>3, <3>4
    <2>6. c = g.current
      BY <1>2, <2>2
    <2>7. <<c, b1>> \in E /\ <<b1, b2>> \in E
      BY <1>1, <2>5
    <2> QED
      BY <2>2, <2>3, <2>4, <2>5, <2>6, <2>7
  <1>12. ASSUME Clean(Function(g), o2)
         PROVE  /\ Led(h, b1) /\ Led(h, b2) /\ Entered(h, b1) /\ Entered(h, b2)
                /\ IF hasElse THEN Led(h, b3) /\ Entered(h, b3) /\ HasBefore(h, b3) /\ ~Entered(h, b4)
                   ELSE Led(h, b4) /\ Entered(h, b4) /\ ~Entered(h, b3)
                /\ Two(h, b1) /\ ~HasAfter(h, b2) /\ ~HasAfter(h, b3) /\ ~HasAfter(h, b4)
    <2>1. Led(h, b1) /\ Entered(h, b1)
      <3>1. c < b1
        BY <1>1, <1>7, <1>10, <1>12
      <3> QED
        BY <1>7, <1>10, <1>11, <1>12, <1>73, <3>1, LedMade
    <2>2. Led(h, b2) /\ Entered(h, b2)
      BY <1>7, <1>10, <1>11, <1>12, <1>73, <2>1, LedMade
    <2>3. ~HasAfter(h, b2) /\ ~HasAfter(h, b3) /\ ~HasAfter(h, b4)
      <3>1. \A b \in {b2, b3, b4} : \A e \in E : e[1] # b
        BY <1>7, <1>72
      <3> QED
        BY <1>1, <1>6, <1>7, <3>1, NewBlock
    <2>4. CASE hasElse
      <3>1. <<b1, b3>> \in E /\ (\A e \in E : e[2] # b4) /\ \A e \in E : e[1] = b1 => e[2] \in {b2, b3}
        BY <1>7, <1>10, <1>12, <2>4
      <3>2. Led(h, b3) /\ Entered(h, b3)
        BY <1>7, <1>11, <1>73, <2>1, <3>1, LedMade
      <3>3. ~Entered(h, b4) /\ HasBefore(h, b3)
        BY <1>1, <1>6, <1>7, <3>1, NewBlock
      <3>4. Two(h, b1)
        BY <1>7, <1>10, <1>11, <1>12, <1>73, <3>1, TwoMade
      <3> QED
        BY <2>1, <2>2, <2>3, <2>4, <3>2, <3>3, <3>4
    <2>5. CASE ~hasElse
      <3>1. <<b1, b4>> \in E /\ (\A e \in E : e[2] # b3) /\ \A e \in E : e[1] = b1 => e[2] \in {b2, b4}
        BY <1>7, <1>10, <1>12, <2>5
      <3>2. Led(h, b4) /\ Entered(h, b4)
        BY <1>7, <1>11, <1>73, <2>1, <3>1, LedMade
      <3>3. ~Entered(h, b3)
        BY <1>1, <1>6, <1>7, <3>1, NewBlock
      <3>4. Two(h, b1)
        BY <1>7, <1>10, <1>11, <1>12, <1>73, <3>1, TwoMade
      <3> QED
        BY <2>1, <2>2, <2>3, <2>5, <3>2, <3>3, <3>4
    <2> QED
      BY <1>1, <2>4, <2>5
  <1>13. Keeps(nest, h, o2) => Keeps(nest2, h, o2)
    <2>1. Kept(f, h, o2)
      <3>1. f.kind \notin Loops
        BY <1>71 DEF Loops
      <3> QED
        BY <1>12, <1>71, <1>73, <3>1 DEF Kept
    <2> QED
      BY <1>1, <2>1, KeepsPushed
  <1>14. ASSUME Clean(Function(g), o2)
         PROVE  /\ \A e \in E : Fn(h, e[2]) = Function(g)
                /\ Settled(nest2, h, g.current, C2)
                /\ \A b \in Blocks(h) \ Blocks(g) : Settled(nest2, h, b, C2)
                /\ HasAfter(h, h.current) => Looping(nest2)
    <2>1. Settled(nest2, h, c, C2)
      <3>1. (\A e \in E : e[2] # c) /\ \A e \in E : e[1] = c => e[2] = b1
        BY <1>7, <1>72, <1>10, <1>14
      <3>2. c \notin C2
        BY <1>7, <1>10, <1>14
      <3> QED
        <4>1. /\ ~HasAfter(g, g.current) /\ <<g.current, b1>> \in E /\ g.current \notin C2
              /\ \A e \in E : e[1] = g.current => e[2] = b1
              /\ \A e \in E : e[2] = g.current => HasBefore(g, g.current)
          BY <1>10, <1>14, <3>1, <3>2
        <4>2. Settled(nest2, h, g.current, C2)
          BY <1>11, <1>14, <4>1, HereSettled
        <4> QED
          BY <1>10, <1>14, <4>2
    <2>2. C2 = C \cup {b1} /\ b2 \notin C2 /\ b3 \notin C2 /\ b4 \notin C2
      BY <1>7, <1>9, <1>10, <1>14
    <2>3. Settled(nest2, h, b1, C2)
      BY <1>12, <1>14, <2>2, SettledTwo
    <2>4. Settled(nest2, h, b2, C2)
      <3>1. Waits(nest2, h, b2)
        BY <1>6 DEF Waits
      <3> QED
        BY <1>12, <1>14, <2>2, <3>1, SettledLater
    <2>5. Waits(nest2, h, b3) /\ Waits(nest2, h, b4)
      <3>1. b3 \in Later(f) /\ b4 \in Later(f)
        <4>1. Later(f) = {f.after - 1, f.after}
          BY <1>71 DEF Later, Loops
        <4> QED
          BY <1>71, <4>1
      <3> QED
        BY <1>1, <3>1, AroundPushed DEF Waits
    <2>6. Settled(nest2, h, b3, C2) /\ Settled(nest2, h, b4, C2)
      BY <1>1, <1>12, <1>14, <2>2, <2>5, SettledLater, SettledNever
    <2> QED
      BY <1>6, <1>10, <1>12, <1>14, <1>72, <1>73, <2>1, <2>3, <2>4, <2>6
  <1>15. \A b : Awaited(nest, b) => Awaited(nest2, b)
    BY <1>1, AroundPushed
  <1>16. Flow(nest2, h, o2, C2)
    BY <1>6, <1>8, <1>9, <1>13, <1>14, <1>15, BuildFlow
  <1> QED
    BY <1>5, <1>16

LEMMA WhileFlow ==
    ASSUME NEW nest, NEW ctx, NEW g, NEW o, NEW l \in BOOLEAN, NEW fr, NEW hs,
           Walk(nest, ctx, g, o, l, fr, hs), Seen(nest, Len(nest)),
           NEW C, Flow(nest, g, o, C), NEW o2, o \subseteq o2,
           NEW cond, Clean(Function(g), o2) => l /\ cond = "any",
           NEW C2, Chosen(C, C2, Size(g) + 1, Clean(Function(g), o2)),
           NEW f, NEW nest2, Deeper(nest, f, nest2), WhileFrame(g, cond, f),
           Formed(WhileBlocks(g, cond, l))
    PROVE  Flow(nest2, WhileBlocks(g, cond, l), o2, C2)
  <1>1. Formed(g) /\ g.current \in Blocks(g) /\ Size(g) \in Nat /\ Len(nest) \in Nat
    BY FormedEdges, WalkFacts DEF Formed
  <1>4. PICK n \in Nat, b1 \in Nat, b2 \in Nat, b3 \in Nat :
             n = Size(g) /\ b1 = n + 1 /\ b2 = n + 2 /\ b3 = n + 3
    BY <1>1
  <1>2. PICK c : c = First(g, 3)
    OBVIOUS
  <1>5. PICK h, E, R : /\ h = WhileBlocks(g, cond, l) /\ R = WhileShows(g, cond, l)
                       /\ E = WhileEdges(g, cond)
    OBVIOUS
  <1>51. E = {<<c, b1>>} \cup (IF cond # "true" THEN {<<b1, b3>>} ELSE {})
             \cup (IF cond # "false" THEN {<<b1, b2>>} ELSE {})
    BY <1>2, <1>4, <1>5 DEF WhileEdges
  <1>6. Formed(h) /\ Made(g, h, E, R) /\ h.current = b2 /\ Size(h) = Total(g, 3)
    BY <1>1, <1>4, <1>5, WhileMade
  <1>61. n + 3 <= Size(h) /\ c \in 1 .. Size(h) /\ (c = g.current \/ c = n + 4) /\ Size(h) \in Nat
    <2>1. /\ Total(g, 3) \in Nat /\ Size(g) + 3 <= Total(g, 3) /\ First(g, 3) \in 1 .. Total(g, 3)
          /\ First(g, 3) = g.current \/ First(g, 3) = Size(g) + 3 + 1
      BY <1>1, FirstType
    <2>2. Size(g) + 3 + 1 = n + 4
      BY <1>4
    <2> QED
      BY <1>2, <1>4, <1>6, <2>1, <2>2
  <1>7. /\ {b1, b2, b3} \subseteq Blocks(h) /\ {b1, b2, b3} \cap Blocks(g) = {}
        /\ c \in Blocks(h) /\ (c = g.current \/ c \notin Blocks(g)) /\ c \notin {b1, b2, b3}
        /\ Blocks(g) \subseteq Blocks(h) /\ \A b \in Blocks(g) : b < b1
        /\ b1 < b2 /\ b1 < b3 /\ b1 # b2 /\ b1 # b3 /\ b2 # b3
    <2>1. PICK m \in Nat : m = Size(h)
      BY <1>61
    <2>2. g.current \in 1 .. n
      BY <1>1, <1>4 DEF Blocks
    <2>7. n + 3 <= m /\ c \in 1 .. m /\ (c = g.current \/ c = n + 4)
      BY <1>61, <2>1, <2>2
    <2>8. PICK d \in Nat : d = c
      BY <2>7
    <2>9. b1 = n + 1 /\ b2 = n + 2 /\ b3 = n + 3
      BY <1>4
    <2>10. n + 3 <= m /\ d \in 1 .. m /\ (d \in 1 .. n \/ d = n + 4)
      BY <2>2, <2>7, <2>8
    <2>11. /\ b1 \in 1 .. m /\ b1 \notin 1 .. n /\ b1 # d
           /\ b2 \in 1 .. m /\ b2 \notin 1 .. n /\ b2 # d
           /\ b3 \in 1 .. m /\ b3 \notin 1 .. n /\ b3 # d
      BY <2>9, <2>10
    <2>4. \A b \in {b1, b2, b3} : b \in 1 .. m /\ b \notin 1 .. n /\ b # c
      BY <2>8, <2>11
    <2>12. n + 4 \notin 1 .. n /\ 1 .. n \subseteq 1 .. m
      BY <2>10
    <2>5. c \in 1 .. m /\ (c = g.current \/ c \notin 1 .. n) /\ 1 .. n \subseteq 1 .. m
      BY <2>7, <2>12
    <2>6. (\A b \in 1 .. n : b < b1) /\ b1 < b2 /\ b1 < b3 /\ b1 # b2 /\ b1 # b3 /\ b2 # b3
      BY <2>9
    <2> QED
      BY <1>4, <2>1, <2>4, <2>5, <2>6 DEF Blocks
  <1>71. f.kind \in Loops /\ f.kind # "then" /\ f.test = b1 /\ f.after = b3
    BY <1>4 DEF WhileFrame, Loops
  <1>72. \A e \in E : e[1] \in {c, b1} /\ e[2] \in {b1, b2, b3}
    BY <1>51
  <1> HIDE <1>51
  <1>8. Extends(g, h, E, o2)
    BY <1>7, <1>72 DEF Extends
  <1>9. C \subseteq Blocks(g) /\ Decided(g, h, C, C2)
    <2>1. C \subseteq Blocks(g)
      BY DEF Flow, Counts
    <2> QED
      BY <1>4, <1>7, <2>1 DEF Decided, Chosen
  <1>73. \A b \in {b1, b2, b3} : ~HasAfter(g, b) /\ Fn(h, b) = Function(g)
    BY <1>1, <1>6, <1>7, NewBlock
  <1>11. Adds(g, h, E)
    BY <1>1, <1>6, MadeAdds
  <1>10. ASSUME Clean(Function(g), o2)
         PROVE  /\ C2 = C \cup {b1} /\ c = g.current
                /\ \A b \in Blocks(h) \ Blocks(g) : b \in {b1, b2, b3}
                /\ E = {<<c, b1>>, <<b1, b2>>, <<b1, b3>>}
                /\ ~HasAfter(g, c) /\ c \notin C /\ Fn(h, c) = Function(g) /\ Entered(h, c)
    <2>1. Ready(g)
      BY <1>10, HereLeads, ZenonT(40)
    <2>2. /\ ~HasAfter(g, g.current) /\ g.current \notin C /\ Fn(h, g.current) = Function(g)
          /\ Entered(h, g.current) /\ First(g, 3) = g.current /\ Total(g, 3) = Size(g) + 3
      <3>1. /\ ~HasAfter(g, g.current) /\ g.current \in Blocks(g) /\ g.current \notin C
            /\ Fn(g, g.current) = Function(g) /\ Entered(g, g.current)
        BY <1>10, <2>1, HereAfter
      <3>2. Fn(h, g.current) = Function(g) /\ Entered(h, g.current)
        BY <1>11, <3>1, HereKept
      <3> QED
        BY <2>1, <3>1, <3>2, ReadyFirst
    <2>3. \A b \in Blocks(h) \ Blocks(g) : b \in {b1, b2, b3}
      <3>1. Size(h) = n + 3
        BY <1>4, <1>6, <2>2
      <3>2. \A b \in 1 .. n + 3 : b \in 1 .. n \/ b = n + 1 \/ b = n + 2 \/ b = n + 3
        OBVIOUS
      <3>3. Blocks(h) = 1 .. n + 3 /\ Blocks(g) = 1 .. n
        BY <1>4, <3>1 DEF Blocks
      <3>4. \A b : b \in 1 .. n + 3 /\ b \notin 1 .. n => b = b1 \/ b = b2 \/ b = b3
        BY <1>4, <3>2
      <3> QED
        BY <3>3, <3>4
    <2>4. C2 = C \cup {b1}
      BY <1>4, <1>10 DEF Chosen
    <2>5. E = {<<c, b1>>, <<b1, b2>>, <<b1, b3>>}
      BY <1>1, <1>10, <1>51
    <2> QED
      BY <1>2, <2>2, <2>3, <2>4, <2>5
  <1>12. ASSUME Clean(Function(g), o2)
         PROVE  /\ Led(h, b1) /\ Led(h, b2) /\ Led(h, b3) /\ Entered(h, b1)
                /\ HasBefore(h, b1) /\ HasAfter(h, b1) /\ HasBefore(h, b3)
                /\ Two(h, b1) /\ ~HasAfter(h, b2) /\ ~HasAfter(h, b3)
    <2>1. Led(h, b1) /\ Entered(h, b1)
      <3>1. c < b1
        BY <1>1, <1>7, <1>10, <1>12
      <3> QED
        BY <1>7, <1>10, <1>11, <1>12, <1>73, <3>1, LedMade
    <2>6. <<c, b1>> \in E /\ <<b1, b2>> \in E /\ <<b1, b3>> \in E
      BY <1>10, <1>12
    <2>2. Led(h, b2)
      BY <1>7, <1>11, <1>73, <2>1, <2>6, LedMade
    <2>7. Led(h, b3)
      BY <1>7, <1>11, <1>73, <2>1, <2>6, LedMade
    <2>3. /\ ~HasAfter(h, b2) /\ ~HasAfter(h, b3) /\ HasBefore(h, b1) /\ HasAfter(h, b1) /\ HasBefore(h, b3)
      <3>1. \A b \in {b2, b3} : \A e \in E : e[1] # b
        BY <1>7, <1>72
      <3> QED
        BY <1>1, <1>6, <1>7, <2>6, <3>1, NewBlock
    <2>4. Two(h, b1)
      <3>1. \A e \in E : e[1] = b1 => e[2] \in {b2, b3}
        BY <1>7, <1>10, <1>12
      <3> QED
        BY <1>7, <1>11, <1>73, <2>6, <3>1, TwoMade
    <2> QED
      BY <2>1, <2>2, <2>3, <2>4, <2>7
  <1>13. Keeps(nest, h, o2) => Keeps(nest2, h, o2)
    <2>1. Kept(f, h, o2)
      BY <1>12, <1>71, <1>73 DEF Kept
    <2> QED
      BY <1>1, <2>1, KeepsPushed
  <1>14. ASSUME Clean(Function(g), o2)
         PROVE  /\ \A e \in E : Fn(h, e[2]) = Function(g)
                /\ Settled(nest2, h, g.current, C2)
                /\ \A b \in Blocks(h) \ Blocks(g) : Settled(nest2, h, b, C2)
                /\ HasAfter(h, h.current) => Looping(nest2)
    <2>1. Settled(nest2, h, c, C2)
      <3>1. (\A e \in E : e[2] # c) /\ \A e \in E : e[1] = c => e[2] = b1
        BY <1>7, <1>72, <1>10, <1>14
      <3>2. c \notin C2
        BY <1>7, <1>10, <1>14
      <3> QED
        <4>1. /\ ~HasAfter(g, g.current) /\ <<g.current, b1>> \in E /\ g.current \notin C2
              /\ \A e \in E : e[1] = g.current => e[2] = b1
              /\ \A e \in E : e[2] = g.current => HasBefore(g, g.current)
          BY <1>10, <1>14, <3>1, <3>2
        <4>2. Settled(nest2, h, g.current, C2)
          BY <1>11, <1>14, <4>1, HereSettled
        <4> QED
          BY <1>10, <1>14, <4>2
    <2>2. C2 = C \cup {b1} /\ b2 \notin C2 /\ b3 \notin C2
      BY <1>7, <1>9, <1>10, <1>14
    <2>3. Settled(nest2, h, b1, C2)
      BY <1>12, <1>14, <2>2, SettledTwo
    <2>4. Settled(nest2, h, b2, C2)
      <3>1. Waits(nest2, h, b2)
        BY <1>6 DEF Waits
      <3> QED
        BY <1>12, <1>14, <2>2, <3>1, SettledLater
    <2>5. Waits(nest2, h, b3)
      <3>1. b3 \in Later(f)
        <4>1. Later(f) = {f.after}
          BY <1>71 DEF Later, Loops
        <4> QED
          BY <1>71, <4>1
      <3> QED
        BY <1>1, <3>1, AroundPushed DEF Waits
    <2>6. Settled(nest2, h, b3, C2)
      BY <1>12, <1>14, <2>2, <2>5, SettledLater
    <2> QED
      BY <1>6, <1>10, <1>12, <1>14, <1>72, <1>73, <2>1, <2>3, <2>4, <2>6
  <1>15. \A b : Awaited(nest, b) => Awaited(nest2, b)
    BY <1>1, AroundPushed
  <1>16. Flow(nest2, h, o2, C2)
    BY <1>6, <1>8, <1>9, <1>13, <1>14, <1>15, BuildFlow
  <1> QED
    BY <1>5, <1>16

LEMMA ForInFlow ==
    ASSUME NEW nest, NEW ctx, NEW g, NEW o, NEW l \in BOOLEAN, NEW fr, NEW hs,
           Walk(nest, ctx, g, o, l, fr, hs), Seen(nest, Len(nest)),
           NEW C, Flow(nest, g, o, C), NEW o2, o \subseteq o2, Clean(Function(g), o2) => l,
           NEW m, m = Size(AddInstruction(g, l)),
           NEW C2, Chosen(C, C2, m + 2, Clean(Function(g), o2)),
           NEW f, NEW nest2, Deeper(nest, f, nest2), ForInFrame(m, f),
           Formed(ForInBlocks(g, l))
    PROVE  Flow(nest2, ForInBlocks(g, l), o2, C2)
  <1>1. Formed(g) /\ g.current \in Blocks(g) /\ Size(g) \in Nat /\ Len(nest) \in Nat
    BY FormedEdges, WalkFacts DEF Formed
  <1>3. PICK n, c : n = Total(g, 0) /\ c = First(g, 0)
    OBVIOUS
  <1>31. /\ n \in Nat /\ c \in 1 .. n /\ Size(g) <= n /\ (c = g.current \/ c = Size(g) + 1)
    <2>1. /\ Total(g, 0) \in Nat /\ Size(g) + 0 <= Total(g, 0) /\ First(g, 0) \in 1 .. Total(g, 0)
          /\ First(g, 0) = g.current \/ First(g, 0) = Size(g) + 0 + 1
      BY <1>1, FirstType
    <2>2. Size(g) + 0 = Size(g)
      BY <1>1
    <2> QED
      BY <1>3, <2>1, <2>2
  <1>4. PICK b1 \in Nat, b2 \in Nat, b3 \in Nat, b4 \in Nat :
             b1 = n + 1 /\ b2 = n + 2 /\ b3 = n + 3 /\ b4 = n + 4
    BY <1>31
  <1>5. PICK h, E, R : h = ForInBlocks(g, l) /\ R = ForInShows(c, n, l) /\ E = ForInEdges(c, n)
    OBVIOUS
  <1>51. E = {<<c, b1>>, <<b1, b2>>, <<b2, b3>>, <<b2, b4>>}
    BY <1>4, <1>5 DEF ForInEdges
  <1>6. Formed(h) /\ Made(g, h, E, R) /\ h.current = b3 /\ Size(h) = b4 /\ m = n
    BY <1>1, <1>3, <1>4, <1>5, ForInMade
  <1>7. /\ {b1, b2, b3, b4} \subseteq Blocks(h) /\ {b1, b2, b3, b4} \cap Blocks(g) = {}
        /\ c \in Blocks(h) /\ (c = g.current \/ c \notin Blocks(g)) /\ c \notin {b1, b2, b3, b4}
        /\ Blocks(g) \subseteq Blocks(h) /\ c < b1
        /\ b1 < b2 /\ b2 < b3 /\ b2 < b4
        /\ b1 # b2 /\ b1 # b3 /\ b1 # b4 /\ b2 # b3 /\ b2 # b4 /\ b3 # b4
    <2>1. PICK k \in Nat, d \in Nat : k = Size(g) /\ d = c
      BY <1>1, <1>31
    <2>2. d \in 1 .. n /\ k <= n /\ n \in Nat /\ b1 = n + 1 /\ b2 = n + 2 /\ b3 = n + 3 /\ b4 = n + 4
      BY <1>31, <1>4, <2>1
    <2>11. /\ b1 \in 1 .. b4 /\ b1 \notin 1 .. k /\ b1 # d
           /\ b2 \in 1 .. b4 /\ b2 \notin 1 .. k /\ b2 # d
           /\ b3 \in 1 .. b4 /\ b3 \notin 1 .. k /\ b3 # d
           /\ b4 \in 1 .. b4 /\ b4 \notin 1 .. k /\ b4 # d
      BY <2>2
    <2>4. \A b \in {b1, b2, b3, b4} : b \in 1 .. b4 /\ b \notin 1 .. k /\ b # c
      BY <2>1, <2>11
    <2>12. k + 1 \notin 1 .. k /\ 1 .. k \subseteq 1 .. b4 /\ d \in 1 .. b4 /\ d < b1
      BY <2>2
    <2>5. c \in 1 .. b4 /\ (c = g.current \/ c \notin 1 .. k) /\ 1 .. k \subseteq 1 .. b4 /\ c < b1
      BY <1>31, <2>1, <2>12
    <2>6. /\ b1 < b2 /\ b2 < b3 /\ b2 < b4
          /\ b1 # b2 /\ b1 # b3 /\ b1 # b4 /\ b2 # b3 /\ b2 # b4 /\ b3 # b4
      BY <2>2
    <2> QED
      BY <1>6, <2>1, <2>4, <2>5, <2>6 DEF Blocks
  <1>71. f.kind \in Loops /\ f.kind # "then" /\ f.test = b2 /\ f.after = b4
    BY <1>4, <1>6 DEF ForInFrame, Loops
  <1>72. \A e \in E : e[1] \in {c, b1, b2} /\ e[2] \in {b1, b2, b3, b4}
    BY <1>51
  <1>74. <<c, b1>> \in E /\ <<b1, b2>> \in E /\ <<b2, b3>> \in E /\ <<b2, b4>> \in E
    BY <1>51
  <1>75. /\ \A e \in E : e[1] = c => e[2] = b1
         /\ \A e \in E : e[1] = b1 => e[2] = b2
         /\ \A e \in E : e[1] = b2 => e[2] \in {b3, b4}
    BY <1>7, <1>51
  <1> HIDE <1>51
  <1>8. Extends(g, h, E, o2)
    BY <1>7, <1>72 DEF Extends
  <1>9. C \subseteq Blocks(g) /\ Decided(g, h, C, C2) /\ (Clean(Function(g), o2) => C2 = C \cup {b2})
    <2>1. C \subseteq Blocks(g)
      BY DEF Flow, Counts
    <2> QED
      BY <1>4, <1>6, <1>7, <2>1 DEF Decided, Chosen
  <1>73. \A b \in {b1, b2, b3, b4} : ~HasAfter(g, b) /\ Fn(h, b) = Function(g)
    BY <1>1, <1>6, <1>7, NewBlock
  <1>11. Adds(g, h, E)
    BY <1>1, <1>6, MadeAdds
  <1>10. ASSUME Clean(Function(g), o2)
         PROVE  /\ c = g.current
                /\ \A b \in Blocks(h) \ Blocks(g) : b \in {b1, b2, b3, b4}
                /\ ~HasAfter(g, c) /\ c \notin C /\ Fn(h, c) = Function(g) /\ Entered(h, c)
    <2>1. Ready(g)
      BY <1>10, HereLeads, ZenonT(40)
    <2>2. /\ ~HasAfter(g, g.current) /\ g.current \notin C /\ Fn(h, g.current) = Function(g)
          /\ Entered(h, g.current) /\ First(g, 0) = g.current /\ Total(g, 0) = Size(g) + 0
      <3>1. /\ ~HasAfter(g, g.current) /\ g.current \in Blocks(g) /\ g.current \notin C
            /\ Fn(g, g.current) = Function(g) /\ Entered(g, g.current)
        BY <1>10, <2>1, HereAfter
      <3>2. Fn(h, g.current) = Function(g) /\ Entered(h, g.current)
        BY <1>11, <3>1, HereKept
      <3> QED
        BY <2>1, <3>1, <3>2, ReadyFirst
    <2>3. \A b \in Blocks(h) \ Blocks(g) : b \in {b1, b2, b3, b4}
      <3>1. n = Size(g)
        BY <1>1, <1>3, <2>2
      <3>2. Size(h) = n + 4 /\ n \in Nat /\ Blocks(g) = 1 .. n /\ Blocks(h) = 1 .. Size(h)
        BY <1>31, <1>4, <1>6, <3>1 DEF Blocks
      <3>3. \A b \in 1 .. n + 4 : b \in 1 .. n \/ b = n + 1 \/ b = n + 2 \/ b = n + 3 \/ b = n + 4
        BY <3>2
      <3> QED
        BY <1>4, <3>2, <3>3
    <2> QED
      BY <1>3, <2>2, <2>3
  <1>12. ASSUME Clean(Function(g), o2)
         PROVE  /\ Led(h, b1) /\ Led(h, b2) /\ Led(h, b3) /\ Led(h, b4) /\ Entered(h, b2)
                /\ HasBefore(h, b2) /\ HasAfter(h, b2) /\ HasBefore(h, b4)
                /\ One(h, b1) /\ Two(h, b2) /\ ~HasAfter(h, b3) /\ ~HasAfter(h, b4)
    <2>1. Led(h, b1) /\ Entered(h, b1)
      BY <1>7, <1>10, <1>11, <1>12, <1>73, <1>74, LedMade
    <2>2. Led(h, b2) /\ Entered(h, b2)
      BY <1>7, <1>11, <1>73, <1>74, <2>1, LedMade
    <2>5. Led(h, b3)
      BY <1>7, <1>11, <1>73, <1>74, <2>2, LedMade
    <2>6. Led(h, b4)
      BY <1>7, <1>11, <1>73, <1>74, <2>2, LedMade
    <2>3. /\ ~HasAfter(h, b3) /\ ~HasAfter(h, b4) /\ HasBefore(h, b2) /\ HasAfter(h, b2) /\ HasBefore(h, b4)
      <3>1. \A b \in {b3, b4} : \A e \in E : e[1] # b
        BY <1>7, <1>72
      <3> QED
        BY <1>1, <1>6, <1>7, <1>74, <3>1, NewBlock
    <2>4. One(h, b1)
      BY <1>7, <1>11, <1>73, <1>74, <1>75, OneMade
    <2>7. Two(h, b2)
      BY <1>7, <1>11, <1>73, <1>74, <1>75, TwoMade
    <2> QED
      BY <2>1, <2>2, <2>3, <2>4, <2>5, <2>6, <2>7
  <1>13. Keeps(nest, h, o2) => Keeps(nest2, h, o2)
    <2>1. Kept(f, h, o2)
      BY <1>12, <1>71, <1>73 DEF Kept
    <2> QED
      BY <1>1, <2>1, KeepsPushed
  <1>14. ASSUME Clean(Function(g), o2)
         PROVE  /\ \A e \in E : Fn(h, e[2]) = Function(g)
                /\ Settled(nest2, h, g.current, C2)
                /\ \A b \in Blocks(h) \ Blocks(g) : Settled(nest2, h, b, C2)
                /\ HasAfter(h, h.current) => Looping(nest2)
    <2>1. Settled(nest2, h, c, C2)
      <3>1. \A e \in E : e[2] # c
        BY <1>7, <1>72, <1>10, <1>14
      <3>2. c \notin C2
        BY <1>7, <1>9, <1>10, <1>14
      <3>3. /\ ~HasAfter(g, g.current) /\ <<g.current, b1>> \in E /\ g.current \notin C2
            /\ \A e \in E : e[1] = g.current => e[2] = b1
            /\ \A e \in E : e[2] = g.current => HasBefore(g, g.current)
        BY <1>10, <1>14, <1>74, <1>75, <3>1, <3>2
      <3>4. Settled(nest2, h, g.current, C2)
        BY <1>11, <1>14, <3>3, HereSettled
      <3> QED
        BY <1>10, <1>14, <3>4
    <2>2. C2 = C \cup {b2} /\ b1 \notin C2 /\ b3 \notin C2 /\ b4 \notin C2
      BY <1>7, <1>9, <1>14
    <2>7. Settled(nest2, h, b1, C2)
      BY <1>12, <1>14, <2>2, SettledOne
    <2>3. Settled(nest2, h, b2, C2)
      BY <1>12, <1>14, <2>2, SettledTwo
    <2>4. Settled(nest2, h, b3, C2)
      <3>1. Waits(nest2, h, b3)
        BY <1>6 DEF Waits
      <3> QED
        BY <1>12, <1>14, <2>2, <3>1, SettledLater
    <2>5. Waits(nest2, h, b4)
      <3>1. b4 \in Later(f)
        <4>1. Later(f) = {f.after}
          BY <1>71 DEF Later, Loops
        <4> QED
          BY <1>71, <4>1
      <3> QED
        BY <1>1, <3>1, AroundPushed DEF Waits
    <2>6. Settled(nest2, h, b4, C2)
      BY <1>12, <1>14, <2>2, <2>5, SettledLater
    <2> QED
      BY <1>6, <1>10, <1>12, <1>14, <1>72, <1>73, <2>1, <2>3, <2>4, <2>6, <2>7
  <1>15. \A b : Awaited(nest, b) => Awaited(nest2, b)
    BY <1>1, AroundPushed
  <1>16. Flow(nest2, h, o2, C2)
    BY <1>6, <1>8, <1>9, <1>13, <1>14, <1>15, BuildFlow
  <1> QED
    BY <1>5, <1>16

LEMMA BeginFlow ==
    ASSUME NEW nest, NEW ctx, NEW g, NEW o, NEW l, NEW fr, NEW hs, Walk(nest, ctx, g, o, l, fr, hs),
           Seen(nest, Len(nest)), NEW C, Flow(nest, g, o, C),
           NEW f, NEW nest2, Deeper(nest, f, nest2), FunctionFrame(g, f)
    PROVE  Flow(nest2, BeginFunction(g), o, C)
  <1>1. Formed(g) /\ g.current \in Blocks(g) /\ Size(g) \in Nat /\ Len(nest) \in Nat
    BY FormedEdges, WalkFacts DEF Formed
  <1>2. PICK h, E : h = BeginFunction(g) /\ E = {}
    OBVIOUS
  <1>3. Began(g, h)
    BY <1>1, <1>2, FunctionBegun DEF Formed
  <1>4. /\ Formed(h) /\ Grows(g, h) /\ h.current \notin Blocks(g)
        /\ h.current = Start(h, Fn(h, h.current))
        /\ Ends(h) \subseteq Ends(g) \cup {h.current + 1} /\ h.current + 1 \notin Blocks(g)
    BY <1>1, <1>3, BeganGrows DEF Fn
  <1>5. Adds(g, h, E)
    BY <1>1, <1>2, <1>3, <1>4 DEF Adds, Began
  <1>6. \A b : (HasAfter(h, b) <=> HasAfter(g, b)) /\ (HasBefore(h, b) <=> HasBefore(g, b))
    BY <1>2, <1>5, AddedEdges
  <1>7. PICK n \in Nat, m \in Nat : n = Size(g) /\ m = Len(g.functions) + 1
    <2>1. Len(g.functions) \in Nat
      BY <1>1, CfgFields DEF Formed
    <2> QED
      BY <1>1, <2>1
  <1>8. /\ Size(h) = n + 2 /\ h.current = n + 1
        /\ h.functions[m] = <<n + 1, n + 2>>
        /\ \A b \in n + 1 .. n + 2 : h.block[b].function = m
        /\ Len(h.functions) = m
    BY <1>3, <1>7 DEF Began
  <1>9. /\ Start(h, m) = n + 1 /\ End(h, m) = n + 2
        /\ Fn(h, n + 1) = m /\ Fn(h, n + 2) = m
        /\ n + 1 \notin Blocks(g) /\ n + 2 \notin Blocks(g)
    BY <1>7, <1>8, SMTT(30) DEF Start, End, Fn, Blocks
  <1>10. /\ \A i \in Functions(h) : i \in Functions(g) \/ i = m
         /\ m \in Functions(h)
    <2>1. Len(g.functions) \in Nat
      BY <1>1, CfgFields DEF Formed
    <2> QED
      BY <1>7, <1>8, <2>1 DEF Functions
  <1>11. Homes(h)
    <2> SUFFICES ASSUME NEW i \in Functions(h)
                 PROVE  /\ Fn(h, Start(h, i)) = i /\ Fn(h, End(h, i)) = i /\ ~HasAfter(h, End(h, i))
                        /\ Start(h, i) # End(h, i)
      BY DEF Homes
    <2>1. CASE i = m
      <3>1. ~HasAfter(g, n + 2)
        BY <1>5, <1>9, AddedEdges
      <3> QED
        BY <1>6, <1>9, <2>1, <3>1
    <2>2. CASE i \in Functions(g)
      <3>1. Start(h, i) = Start(g, i) /\ End(h, i) = End(g, i)
        BY <1>4, <2>2 DEF Grows
      <3>2. Start(g, i) \in Blocks(g) /\ End(g, i) \in Blocks(g)
        BY <1>1, <2>2 DEF Formed, Starts, Ends
      <3>3. /\ Fn(g, Start(g, i)) = i /\ Fn(g, End(g, i)) = i /\ ~HasAfter(g, End(g, i))
            /\ Start(g, i) # End(g, i)
        BY <2>2 DEF Flow, Counts, Homes
      <3>4. Fn(h, Start(g, i)) = i /\ Fn(h, End(g, i)) = i
        BY <1>5, <3>2, <3>3, AddedEdges
      <3> QED
        BY <1>6, <3>1, <3>3, <3>4
    <2> QED
      BY <1>10, <2>1, <2>2
  <1>12. C \subseteq Blocks(g) /\ C \subseteq Blocks(h) \ Ends(h)
    <2>1. C \subseteq Blocks(g) \ Ends(g)
      BY DEF Flow, Counts
    <2> QED
      BY <1>4, <2>1 DEF Grows
  <1>13. ASSUME NEW b \in Blocks(h) \ Ends(h)
         PROVE  Settled(nest2, h, b, C) \/ Spared(nest, nest2, g, h, E, b)
    <2>1. CASE b \in Blocks(g)
      <3>1. Later(f) = {g.current}
        BY DEF Later, Loops, FunctionFrame
      <3>2. g.current \in Later(f)
        BY <3>1
      <3>3. Awaited(nest2, g.current)
        BY <1>1, <3>2, AroundPushed
      <3>4. Awaited(nest, b) => Awaited(nest2, b)
        BY <1>1, AroundPushed
      <3>5. Waits(nest, g, b) => Waits(nest2, h, b)
        BY <3>3, <3>4 DEF Waits
      <3> QED
        BY <1>2, <2>1, <3>5 DEF Spared
    <2>2. CASE b \notin Blocks(g)
      <3>1. b = h.current
        <4>1. n + 2 \in Ends(h)
          BY <1>9, <1>10 DEF Ends
        <4>2. b \in 1 .. n + 2 /\ b \notin 1 .. n /\ b # n + 2
          BY <1>7, <1>8, <2>2, <4>1 DEF Blocks
        <4> QED
          BY <1>8, <4>2
      <3>2. ~HasAfter(h, b) /\ ~HasBefore(h, b)
        BY <1>5, <1>6, <2>2, AddedEdges
      <3>3. b \notin C /\ Waits(nest2, h, b)
        BY <1>12, <2>2, <3>1 DEF Waits
      <3> QED
        BY <3>2, <3>3 DEF Settled
    <2> QED
      BY <2>1, <2>2
  <1>14. Counts(nest2, h, o, C)
    <2>1. \A e \in E : Clean(Fn(h, e[1]), o) => Fn(h, e[2]) = Fn(h, e[1])
      BY <1>2
    <2> QED
      BY <1>5, <1>11, <1>12, <1>13, <2>1, CountsKept DEF Flow
  <1>15. Keeps(nest2, h, o)
    <2>1. Spare(nest, g, E, o)
      BY <1>2, OwnedApart DEF Spare
    <2>2. Keeps(nest, h, o)
      BY <1>5, <2>1, KeepsKept DEF Flow
    <2>3. f.kind # "then" /\ f.kind \notin Loops
      BY DEF FunctionFrame, Loops
    <2>4. Kept(f, h, o)
      BY <2>3, KeptOther
    <2> QED
      BY <1>1, <2>2, <2>4, KeepsPushed
  <1>16. ~HasAfter(h, h.current)
    BY <1>4, <1>5, <1>6, AddedEdges
  <1> QED
    BY <1>2, <1>14, <1>15, <1>16 DEF Flow

-----------------------------------------------------------------------------
(* The ends of statements.                                                 *)

LEMMA NotChosen ==
    ASSUME NEW nest, NEW g, NEW o, NEW C, Counts(nest, g, o, C),
           NEW b \in Blocks(g) \ Ends(g), Clean(Fn(g, b), o)
    PROVE  Settled(nest, g, b, C) /\ (~HasAfter(g, b) => b \notin C)
  <1>1. Settled(nest, g, b, C)
    BY DEF Counts
  <1>2. Two(g, b) => HasAfter(g, b)
    <2> SUFFICES ASSUME Two(g, b) PROVE HasAfter(g, b)
      OBVIOUS
    <2>1. PICK c : <<b, c>> \in g.edges
      BY DEF Two
    <2> QED
      BY <2>1 DEF HasAfter
  <1> QED
    BY <1>1, <1>2 DEF Settled

\* The edges that end what the innermost frame stands for.
Ending(g, h, E, f) ==
    /\ Adds(g, h, E) /\ Homes(h) /\ Ends(h) = Ends(g) /\ Blocks(h) = Blocks(g)
    /\ \A e \in E : /\ e[1] = g.current \/ e[1] \in Own(f)
                    /\ e[2] \in Ends(g) \/ e[2] \in Own(f)
                    /\ Fn(h, e[2]) = Fn(h, e[1])

LEMMA EndingFlow ==
    ASSUME NEW nest, NEW ctx, NEW g, NEW o, NEW l, NEW fr, NEW hs, Walk(nest, ctx, g, o, l, fr, hs),
           Seen(nest, Len(nest)), NEW C, Flow(nest, g, o, C),
           NEW f, NEW nest2 \in Seq(Frame), Deeper(nest2, f, nest),
           NEW h, NEW E, Ending(g, h, E, f),
           \A b \in Own(f) \cup {g.current} : Clean(Fn(g, b), o) =>
               Settled(nest2, h, b, C) \/ Spared(nest, nest2, g, h, E, b),
           Clean(Function(h), o) => ~HasAfter(h, h.current)
    PROVE  Flow(nest2, h, o, C)
  <1>1. PICK m \in Nat : m = Len(nest2)
    OBVIOUS
  <1>2. Len(nest) = m + 1 /\ nest[m + 1] = f /\ \A p \in 1 .. m : nest[p] = nest2[p]
    BY <1>1 DEF Deeper
  <1>3. Adds(g, h, E) /\ Homes(h) /\ Ends(h) = Ends(g) /\ Blocks(h) = Blocks(g)
    BY DEF Ending
  <1>4. ASSUME NEW p \in 1 .. m
        PROVE  /\ Own(nest2[p]) \subseteq Blocks(g) /\ Own(nest2[p]) \cap Own(f) = {}
               /\ g.current \notin Own(nest2[p]) /\ Own(nest2[p]) \cap Ends(g) = {}
    <2>1. p \in 1 .. Len(nest) /\ m + 1 \in 1 .. Len(nest) /\ p # m + 1 /\ p - 1 \in 0 .. Len(nest)
      BY <1>2
    <2>2. Own(nest[p]) \cap Own(nest[m + 1]) = {}
      BY <2>1, SeenApart
    <2>3. Seen(nest, p - 1)
      BY <1>2, <2>1, SeenOuter
    <2>4. Own(nest[p]) \subseteq Blocks(g) /\ g.current \notin Own(nest[p]) /\ Own(nest[p]) \cap Ends(g) = {}
      BY <2>1, <2>3, OwnedApart
    <2> QED
      BY <1>2, <2>2, <2>4
  <1>5. Keeps(nest2, h, o)
    <2>1. Keeps(nest2, g, o)
      BY <1>1, KeepsPushed DEF Flow
    <2>2. Spare(nest2, g, E, o)
      <3> SUFFICES ASSUME NEW p \in 1 .. m
                   PROVE  /\ Own(nest2[p]) \subseteq Blocks(g) /\ \A e \in E : e[1] \notin Own(nest2[p])
                          /\ \A e \in E : nest2[p].kind = "then" => e[2] # nest2[p].after - 1
        BY <1>1 DEF Spare
      <3>1. PICK k : k = nest2[p]
        OBVIOUS
      <3>2. Own(k) \subseteq Blocks(g) /\ \A e \in E : e[1] \notin Own(k) /\ e[2] \notin Own(k)
        BY <1>4, <3>1 DEF Ending
      <3>3. k.kind = "then" => k.after - 1 \in Own(k)
        BY OwnBlocks
      <3> QED
        BY <3>1, <3>2, <3>3
    <2> QED
      BY <1>3, <2>1, <2>2, KeepsKept
  <1>6. ASSUME NEW b \in Blocks(h) \ Ends(h), Clean(Fn(h, b), o)
        PROVE  Settled(nest2, h, b, C) \/ Spared(nest, nest2, g, h, E, b)
    <2>1. b \in Blocks(g) /\ b \notin Ends(g) /\ Clean(Fn(g, b), o)
      BY <1>3, <1>6, AddedEdges
    <2>2. CASE b \in Own(f) \cup {g.current}
      BY <2>1, <2>2
    <2>3. CASE b \notin Own(f) \cup {g.current}
      <3>1. \A e \in E : e[1] # b /\ e[2] # b
        BY <2>1, <2>3 DEF Ending
      <3>2. Awaited(nest, b) => Awaited(nest2, b)
        <4>1. b \notin Later(f)
          BY <2>3, OwnBlocks
        <4> QED
          BY <1>1, <4>1, AroundPushed
      <3>3. Waits(nest, g, b) => Waits(nest2, h, b)
        BY <2>3, <3>2 DEF Waits
      <3> QED
        BY <2>1, <3>1, <3>3 DEF Spared
    <2> QED
      BY <2>2, <2>3
  <1>7. Counts(nest2, h, o, C)
    <2>1. Counts(nest, g, o, C) /\ C \subseteq Blocks(h) \ Ends(h)
      BY <1>3 DEF Flow, Counts
    <2>2. \A e \in E : Clean(Fn(h, e[1]), o) => Fn(h, e[2]) = Fn(h, e[1])
      BY DEF Ending
    <2> QED
      BY <1>3, <1>6, <2>1, <2>2, CountsKept
  <1> QED
    BY <1>5, <1>7 DEF Flow

\* The current block, when an edge leaves it unless one does already.
LEMMA ClosedSettled ==
    ASSUME NEW nest, NEW ctx, NEW g, NEW o, NEW l, NEW fr, NEW hs, Walk(nest, ctx, g, o, l, fr, hs),
           NEW C, Flow(nest, g, o, C), Clean(Function(g), o),
           NEW h, NEW E, Adds(g, h, E), NEW x \in Nat,
           ~HasAfter(g, g.current) => <<g.current, x>> \in E,
           \A e \in E : e[1] = g.current => e[2] = x /\ ~HasAfter(g, g.current),
           \A e \in E : e[2] # g.current, NEW nest2
    PROVE  Settled(nest2, h, g.current, C) \/ Spared(nest, nest2, g, h, E, g.current)
  <1>1. CASE HasAfter(g, g.current)
    <2>1. g.current \in Blocks(g)
      BY HereCounts
    <2> QED
      BY <1>1, <2>1 DEF Spared
  <1>2. CASE ~HasAfter(g, g.current)
    <2>1. g.current \notin C
      BY <1>2, HereCounts
    <2> QED
      BY <1>2, <2>1, HereSettled
  <1> QED
    BY <1>1, <1>2

LEMMA ThenFlow ==
    ASSUME NEW nest, NEW ctx, NEW g, NEW o, NEW l, NEW fr, NEW hs, Walk(nest, ctx, g, o, l, fr, hs),
           Seen(nest, Len(nest)), NEW C, Flow(nest, g, o, C),
           NEW f, NEW nest2 \in Seq(Frame), Deeper(nest2, f, nest), f.kind = "then",
           Formed(IfEnds(g, f.hasElse, f.after))
    PROVE  Flow(nest2, IfEnds(g, f.hasElse, f.after), o, C)
  <1>1. PICK c, d, fn : c = ctx[Len(nest2)] /\ d = ctx[Len(nest)] /\ fn = Head(c.stack)
    OBVIOUS
  <1>2. /\ f \in Frame /\ Own(f) \subseteq Blocks(g) /\ g.current \notin Own(f)
        /\ Matches(g, d) /\ EntersSeen(f, c, d) /\ Within(f, fn, g, o)
    BY <1>1, LastFrame
  <1>3. Formed(g) /\ g \in Cfgs /\ g.current \in Blocks(g) /\ g.current \notin Ends(g)
        /\ Fn(g, g.current) = Function(g)
    BY DEF Walk, Formed, Fn
  <1>4. PICK a, b, e : a = f.after /\ b = f.after - 1 /\ e = f.hasElse
    OBVIOUS
  <1>5. /\ Own(f) = {b, a} /\ Targets(f) = {a} /\ a \in Nat /\ e \in BOOLEAN
        /\ Own(f) \cap Ends(g) = {} /\ a \notin Starts(g)
    <2>1. a \in Nat /\ e \in BOOLEAN
      BY <1>2, <1>4 DEF Frame
    <2>2. Own(f) = {b, a} /\ Targets(f) = {a}
      BY <1>4 DEF Own, Targets, Loops
    <2>3. Own(f) \cap Ends(g) = {} /\ Targets(f) \cap Starts(g) = {}
      BY <1>2 DEF Within
    <2> QED
      BY <2>1, <2>2, <2>3
  <1>6. a \in Blocks(g) /\ b \in Blocks(g) /\ b # a /\ b < a /\ b \in Nat /\ g.current # a /\ g.current # b
    <2>1. a \in Blocks(g) /\ b \in Blocks(g) /\ g.current # a /\ g.current # b
      BY <1>2, <1>5
    <2>2. b \in Nat /\ b = a - 1
      BY <1>4, <2>1 DEF Blocks
    <2> QED
      BY <1>5, <2>1, <2>2
  <1>7. PICK h, E, R : /\ h = IfEnds(g, e, a) /\ R = {}
                       /\ E = Closing(g, a) \cup (IF e THEN {<<b, a>>} ELSE {})
    OBVIOUS
  <1>8. Made(g, h, E, R) /\ h.current = a /\ Size(h) = Size(g) /\ Formed(h)
    <2>1. b = a - 1
      BY <1>4
    <2>2. a - 1 \in Nat
      BY <1>6, <2>1
    <2>3. /\ Made(g, IfEnds(g, e, a), Closing(g, a) \cup (IF e THEN {<<a - 1, a>>} ELSE {}), {})
          /\ IfEnds(g, e, a).current = a /\ Size(IfEnds(g, e, a)) = Size(g)
      BY <1>3, <1>5, <2>2, IfEndsMade, Zenon
    <2> QED
      BY <1>4, <1>7, <2>1, <2>3, Zenon
  <1>9. Adds(g, h, E) /\ Function(h) = Function(g) /\ Ends(h) = Ends(g) /\ Blocks(h) = Blocks(g)
    BY <1>3, <1>8, MadeAdds DEF Blocks
  <1>10. fn = Function(g)
    BY <1>1, <1>2 DEF Matches, Function, EntersSeen, Enters
  <1>11. /\ Fn(g, a) = Function(g) /\ ~HasAfter(g, a) /\ (~e => HasBefore(g, a)) /\ Fn(g, b) = Fn(g, a)
         /\ Clean(Function(g), o) => IF e THEN HasBefore(g, b) /\ ~HasAfter(g, b) ELSE ~Entered(g, b)
    <2>1. Fn(g, a) = Function(g) /\ ~HasAfter(g, a) /\ (~e => HasBefore(g, a))
      BY <1>2, <1>4, <1>5, <1>10 DEF Within, Fn
    <2>2. Keeps(nest, g, o) /\ Len(nest2) \in Nat
      BY DEF Flow
    <2>3. Seen(nest2, Len(nest2))
      <3>1. Len(nest) = Len(nest2) + 1 /\ \A p \in 1 .. Len(nest2) : nest[p] = nest2[p]
        BY DEF Deeper
      <3>2. PICK m \in Nat : m = Len(nest2)
        BY <2>2
      <3>3. \A p \in 1 .. m : p \in 1 .. m + 1
        OBVIOUS
      <3> QED
        BY <3>1, <3>2, <3>3 DEF Seen
    <2>4. Kept(f, g, o)
      BY <2>2, <2>3, KeepsPushed
    <2> QED
      BY <1>4, <2>1, <2>4 DEF Kept
  <1>12. /\ \A x \in E : (x[1] = g.current \/ (x[1] = b /\ e)) /\ x[2] = a
         /\ \A x \in E : x[1] = g.current => ~HasAfter(g, g.current)
         /\ ~HasAfter(g, g.current) => <<g.current, a>> \in E
         /\ e => <<b, a>> \in E
    BY <1>6, <1>7 DEF Closing
  <1>13. Homes(h)
    <2>1. \A x \in E : x[1] \notin Ends(g)
      BY <1>3, <1>5, <1>12
    <2> QED
      BY <1>3, <1>8, <2>1, HomesMade DEF Flow, Counts
  <1>14. Fn(h, a) = Function(g) /\ Fn(h, b) = Function(g) /\ Fn(h, g.current) = Function(g)
    BY <1>3, <1>6, <1>9, <1>11, AddedEdges, ZenonT(40)
  <1>15. Ending(g, h, E, f)
    <2>1. \A x \in E : /\ x[1] = g.current \/ x[1] \in Own(f)
                       /\ x[2] \in Ends(g) \/ x[2] \in Own(f)
                       /\ Fn(h, x[2]) = Fn(h, x[1])
      BY <1>5, <1>12, <1>14
    <2> QED
      BY <1>9, <1>13, <2>1 DEF Ending
  <1>16. ~HasAfter(h, a)
    <2>1. \A x \in E : x[1] # a
      BY <1>6, <1>12
    <2> QED
      BY <1>9, <1>11, <2>1, AddedEdges
  <1>17. ASSUME Clean(Function(g), o)
         PROVE  /\ Settled(nest2, h, a, C) /\ Settled(nest2, h, b, C)
                /\ Settled(nest2, h, g.current, C) \/ Spared(nest, nest2, g, h, E, g.current)
    <2>1. Settled(nest2, h, g.current, C) \/ Spared(nest, nest2, g, h, E, g.current)
      <3>1. /\ \A x \in E : x[1] = g.current => x[2] = a /\ ~HasAfter(g, g.current)
            /\ \A x \in E : x[2] # g.current
        BY <1>6, <1>12
      <3> QED
        BY <1>5, <1>9, <1>12, <1>17, <3>1, ClosedSettled
    <2>2. Settled(nest, g, a, C) /\ a \notin C /\ Settled(nest, g, b, C)
      <3>1. Counts(nest, g, o, C) /\ a \in Blocks(g) \ Ends(g) /\ b \in Blocks(g) \ Ends(g)
        BY <1>5, <1>6 DEF Flow
      <3> QED
        BY <1>11, <1>17, <3>1, NotChosen
    <2>3. CASE e
      <3>1. HasBefore(g, b) /\ ~HasAfter(g, b) /\ <<b, a>> \in E
        BY <1>11, <1>12, <1>17, <2>3
      <3>2. b \notin C
        <4>1. Counts(nest, g, o, C) /\ b \in Blocks(g) \ Ends(g)
          BY <1>5, <1>6 DEF Flow
        <4> QED
          BY <1>11, <1>17, <3>1, <4>1, NotChosen
      <3>3. Entered(h, b) /\ b \in Blocks(h)
        <4>1. Entered(g, b)
          BY <3>1 DEF Entered
        <4> QED
          BY <1>6, <1>9, <4>1, AddedEdges
      <3>4. Led(h, a)
        BY <1>6, <1>9, <1>14, <3>1, <3>3, LedMade
      <3>5. Settled(nest2, h, a, C)
        <4>1. Waits(nest2, h, a)
          BY <1>8 DEF Waits
        <4> QED
          BY <1>16, <2>2, <3>4, <4>1, SettledLater
      <3>6. One(h, b)
        <4>1. \A x \in E : x[1] = b => x[2] = a
          BY <1>12
        <4> QED
          BY <1>5, <1>9, <3>1, <4>1, OneMade
      <3>7. b # Start(h, Fn(h, b)) => Led(h, b)
        <4>1. b # Start(g, Fn(g, b)) => Led(g, b)
          BY <2>2, <3>1 DEF Settled
        <4>2. Start(h, Fn(h, b)) = Start(g, Fn(g, b))
          BY <1>6, <1>9, AddedEdges
        <4> QED
          BY <1>6, <1>9, <4>1, <4>2, LedKept
      <3>8. Settled(nest2, h, b, C)
        BY <3>2, <3>6, <3>7 DEF Settled
      <3> QED
        BY <2>1, <3>5, <3>8
    <2>4. CASE ~e
      <3>1. ~Entered(g, b) /\ HasBefore(g, a)
        BY <1>11, <1>17, <2>4
      <3>2. b \notin C
        BY <2>2, <3>1 DEF Settled
      <3>3. ~Entered(h, b)
        <4>1. \A x \in E : x[2] # b
          BY <1>6, <1>12
        <4> QED
          BY <1>6, <1>9, <3>1, <4>1, AddedEdges
      <3>4. Led(h, a)
        <4>1. a # Start(g, Fn(g, a))
          <5>1. Function(g) \in Functions(g)
            BY <1>3, CurrentFunction
          <5>2. Start(g, Fn(g, a)) \in Starts(g)
            BY <1>11, <5>1 DEF Starts
          <5> QED
            BY <1>5, <5>2
        <4>2. Led(g, a)
          BY <2>2, <3>1, <4>1 DEF Settled
        <4> QED
          BY <1>6, <1>9, <4>2, LedKept
      <3>5. Settled(nest2, h, a, C)
        <4>1. Waits(nest2, h, a)
          BY <1>8 DEF Waits
        <4> QED
          BY <1>16, <2>2, <3>4, <4>1, SettledLater
      <3>6. Settled(nest2, h, b, C)
        BY <3>2, <3>3, SettledNever
      <3> QED
        BY <2>1, <3>5, <3>6
    <2> QED
      BY <2>3, <2>4
  <1>18. Flow(nest2, h, o, C)
    <2>1. \A x \in Own(f) \cup {g.current} : Clean(Fn(g, x), o) =>
               Settled(nest2, h, x, C) \/ Spared(nest, nest2, g, h, E, x)
      BY <1>3, <1>5, <1>11, <1>17
    <2>2. Clean(Function(h), o) => ~HasAfter(h, h.current)
      BY <1>8, <1>16
    <2> QED
      BY <1>15, <2>1, <2>2, EndingFlow
  <1> QED
    BY <1>4, <1>7, <1>18

LEMMA LoopFlow ==
    ASSUME NEW nest, NEW ctx, NEW g, NEW o, NEW l, NEW fr, NEW hs, Walk(nest, ctx, g, o, l, fr, hs),
           Seen(nest, Len(nest)), NEW C, Flow(nest, g, o, C),
           NEW f, NEW nest2 \in Seq(Frame), Deeper(nest2, f, nest), f.kind \in Loops,
           Formed(LoopEnds(g, f.test, f.after))
    PROVE  Flow(nest2, LoopEnds(g, f.test, f.after), o, C)
  <1>1. PICK c, d, fn : c = ctx[Len(nest2)] /\ d = ctx[Len(nest)] /\ fn = Head(c.stack)
    OBVIOUS
  <1>2. /\ f \in Frame /\ Own(f) \subseteq Blocks(g) /\ g.current \notin Own(f) /\ c \in Context
        /\ Matches(g, d) /\ EntersSeen(f, c, d) /\ Within(f, fn, g, o)
    BY <1>1, LastFrame
  <1>3. Formed(g) /\ g \in Cfgs /\ g.current \in Blocks(g) /\ g.current \notin Ends(g)
        /\ Fn(g, g.current) = Function(g)
    BY DEF Walk, Formed, Fn
  <1>4. PICK a, b : a = f.after /\ b = f.test
    OBVIOUS
  <1>5. /\ Own(f) = {b, a} /\ Targets(f) = {b, a} /\ a \in Nat /\ b \in Nat
        /\ Own(f) \cap Ends(g) = {}
    <2>1. a \in Nat /\ b \in Nat
      BY <1>2, <1>4 DEF Frame
    <2>2. Own(f) = {b, a} /\ Targets(f) = {b, a}
      BY <1>4 DEF Own, Targets, Loops
    <2>3. Own(f) \cap Ends(g) = {}
      BY <1>2 DEF Within
    <2> QED
      BY <2>1, <2>2, <2>3
  <1>6. a \in Blocks(g) /\ b \in Blocks(g) /\ b # a /\ g.current # a /\ g.current # b
    <2>1. b # a
      BY <1>2, <1>4 DEF Within
    <2> QED
      BY <1>2, <1>5, <2>1
  <1>7. g.breaks # <<>> /\ g.continues # <<>> /\ g.stack = c.stack
    <2>1. /\ d.breaks = Pushed(a, c.breaks) /\ d.continues = Pushed(b, c.continues)
          /\ d.stack = c.stack
      <3>1. f.kind \in Loops /\ f.kind # "function"
        BY DEF Loops
      <3> QED
        BY <1>2, <1>4, <3>1 DEF EntersSeen, Enters
    <2>2. PICK bs \in Seq(Nat), cs \in Seq(Nat) : bs = c.breaks /\ cs = c.continues
      BY <1>2 DEF Context
    <2>3. Pushed(a, bs) # <<>> /\ Pushed(b, cs) # <<>>
      BY <1>5, PushedProperties
    <2> QED
      BY <1>2, <2>1, <2>2, <2>3 DEF Matches
  <1>8. PICK h, E, R : h = LoopEnds(g, b, a) /\ E = Closing(g, b) /\ R = {}
    OBVIOUS
  <1>9. Made(g, h, E, R) /\ h.current = a /\ Size(h) = Size(g) /\ Formed(h)
    BY <1>3, <1>4, <1>5, <1>7, <1>8, LoopEndsMade
  <1>10. Adds(g, h, E) /\ Function(h) = Function(g) /\ Ends(h) = Ends(g) /\ Blocks(h) = Blocks(g)
    BY <1>3, <1>9, MadeAdds DEF Blocks
  <1>11. /\ Fn(g, a) = Function(g) /\ ~HasAfter(g, a) /\ Fn(g, b) = Fn(g, a)
         /\ Clean(Function(g), o) => HasBefore(g, b) /\ HasAfter(g, b) /\ HasBefore(g, a)
    <2>1. Fn(g, a) = Function(g) /\ ~HasAfter(g, a)
      BY <1>1, <1>2, <1>4, <1>5, <1>7 DEF Within, Fn, Function
    <2>2. Keeps(nest, g, o) /\ Len(nest2) \in Nat
      BY DEF Flow
    <2>3. Seen(nest2, Len(nest2))
      <3>1. Len(nest) = Len(nest2) + 1 /\ \A p \in 1 .. Len(nest2) : nest[p] = nest2[p]
        BY DEF Deeper
      <3>2. PICK m \in Nat : m = Len(nest2)
        BY <2>2
      <3>3. \A p \in 1 .. m : p \in 1 .. m + 1
        OBVIOUS
      <3> QED
        BY <3>1, <3>2, <3>3 DEF Seen
    <2>4. Kept(f, g, o)
      BY <2>2, <2>3, KeepsPushed
    <2> QED
      BY <1>4, <2>1, <2>4 DEF Kept
  <1>12. /\ \A x \in E : x[1] = g.current /\ x[2] = b /\ ~HasAfter(g, g.current)
         /\ ~HasAfter(g, g.current) => <<g.current, b>> \in E
    BY <1>8 DEF Closing
  <1>13. Homes(h)
    <2>1. \A x \in E : x[1] \notin Ends(g)
      BY <1>3, <1>12
    <2> QED
      BY <1>3, <1>9, <2>1, HomesMade DEF Flow, Counts
  <1>14. Fn(h, b) = Function(g) /\ Fn(h, g.current) = Function(g)
    BY <1>3, <1>6, <1>10, <1>11, AddedEdges
  <1>15. Ending(g, h, E, f)
    <2>1. \A x \in E : /\ x[1] = g.current \/ x[1] \in Own(f)
                       /\ x[2] \in Ends(g) \/ x[2] \in Own(f)
                       /\ Fn(h, x[2]) = Fn(h, x[1])
      BY <1>5, <1>12, <1>14
    <2> QED
      BY <1>10, <1>13, <2>1 DEF Ending
  <1>16. ~HasAfter(h, a)
    <2>1. \A x \in E : x[1] # a
      BY <1>6, <1>12
    <2> QED
      BY <1>10, <1>11, <2>1, AddedEdges
  <1>17. ASSUME Clean(Function(g), o)
         PROVE  /\ Spared(nest, nest2, g, h, E, a) /\ Spared(nest, nest2, g, h, E, b)
                /\ Settled(nest2, h, g.current, C) \/ Spared(nest, nest2, g, h, E, g.current)
    <2>1. Settled(nest2, h, g.current, C) \/ Spared(nest, nest2, g, h, E, g.current)
      <3>1. /\ \A x \in E : x[1] = g.current => x[2] = b /\ ~HasAfter(g, g.current)
            /\ \A x \in E : x[2] # g.current
        BY <1>6, <1>12
      <3> QED
        BY <1>5, <1>10, <1>12, <1>17, <3>1, ClosedSettled
    <2>2. Spared(nest, nest2, g, h, E, a)
      <3>1. Waits(nest2, h, a)
        BY <1>9 DEF Waits
      <3> QED
        BY <1>6, <1>12, <3>1 DEF Spared
    <2>3. Spared(nest, nest2, g, h, E, b)
      BY <1>6, <1>11, <1>12, <1>17 DEF Spared
    <2> QED
      BY <2>1, <2>2, <2>3
  <1>18. Flow(nest2, h, o, C)
    <2>1. \A x \in Own(f) \cup {g.current} : Clean(Fn(g, x), o) =>
               Settled(nest2, h, x, C) \/ Spared(nest, nest2, g, h, E, x)
      BY <1>3, <1>5, <1>11, <1>17
    <2>2. Clean(Function(h), o) => ~HasAfter(h, h.current)
      BY <1>9, <1>16
    <2> QED
      BY <1>15, <2>1, <2>2, EndingFlow
  <1> QED
    BY <1>4, <1>8, <1>18

\* The blocks of a function that ends, and of the one around it.
LEMMA FunctionEndFlow ==
    ASSUME NEW nest, NEW ctx, NEW g, NEW o, NEW l, NEW fr, NEW hs, Walk(nest, ctx, g, o, l, fr, hs),
           Seen(nest, Len(nest)), NEW C, Flow(nest, g, o, C),
           NEW f, NEW nest2 \in Seq(Frame), Deeper(nest2, f, nest), f.kind = "function",
           Formed(EndFunction(g, f.prev))
    PROVE  Flow(nest2, EndFunction(g, f.prev), o, C)
  <1>1. PICK c, d, fn : c = ctx[Len(nest2)] /\ d = ctx[Len(nest)] /\ fn = Head(c.stack)
    OBVIOUS
  <1>2. /\ f \in Frame /\ Own(f) \subseteq Blocks(g) /\ g.current \notin Own(f)
        /\ c \in Context /\ c.stack # <<>>
        /\ Matches(g, d) /\ EntersSeen(f, c, d) /\ Within(f, fn, g, o)
    BY <1>1, LastFrame
  <1>3. Formed(g) /\ g \in Cfgs /\ g.current \in Blocks(g) /\ g.current \notin Ends(g)
        /\ Fn(g, g.current) = Function(g)
    BY DEF Walk, Formed, Fn
  <1>4. PICK a, z : a = f.prev /\ z = End(g, Function(g))
    OBVIOUS
  <1>5. /\ Own(f) = {a} /\ a \in Blocks(g) /\ g.current # a /\ a \notin Ends(g)
        /\ Fn(g, a) = fn /\ Leads(g, a, TRUE, o)
    <2>1. Own(f) = {a}
      BY <1>4 DEF Own, Loops
    <2> QED
      BY <1>2, <1>4, <2>1 DEF Within, Fn
  <1>6. z \in Blocks(g) /\ z \in Ends(g) /\ Fn(g, z) = Function(g)
    <2>1. Function(g) \in Functions(g) /\ z \in Blocks(g) /\ z \in Ends(g)
      BY <1>3, <1>4, CurrentFunction
    <2> QED
      BY <1>4, <2>1 DEF Flow, Counts, Homes
  <1>7. PICK s, k, E : s = Tail(g.stack) /\ k = AddEdge(g, g.current, z) /\ E = {<<g.current, z>>}
    OBVIOUS
  <1>8. s = c.stack
    <2>1. f.kind \notin Loops /\ f.kind = "function"
      BY DEF Loops
    <2> QED
      BY <1>2, <1>7, <2>1 DEF EntersSeen, Enters, Matches
  <1>9. PICK h : h = EndFunction(g, f.prev)
    OBVIOUS
  <1>10. /\ h \in Cfgs /\ h.block = g.block /\ h.edges = g.edges \cup E /\ h.stack = s
         /\ h.functions = g.functions /\ h.current = a
    <2>1. h = [k EXCEPT !.stack = Tail(k.stack), !.current = a]
      BY <1>4, <1>7, <1>9 DEF EndFunction
    <2>2. k = [g EXCEPT !.edges = g.edges \cup E]
      BY <1>7 DEF AddEdge
    <2>3. /\ k.block = g.block /\ k.edges = g.edges \cup E /\ k.stack = g.stack
          /\ k.functions = g.functions /\ k.current = g.current
          /\ h.block = k.block /\ h.edges = k.edges /\ h.stack = Tail(k.stack)
          /\ h.functions = k.functions /\ h.current = a
      BY ONLY <1>3, <2>1, <2>2 DEF Cfgs
    <2>4. h \in Cfgs
      BY <1>9 DEF Formed
    <2> QED
      BY <1>7, <2>3, <2>4
  <1>11. /\ Size(h) = Size(g) /\ Blocks(h) = Blocks(g) /\ Functions(h) = Functions(g)
         /\ Starts(h) = Starts(g) /\ Ends(h) = Ends(g) /\ \A b : Fn(h, b) = Fn(g, b)
         /\ \A i : Start(h, i) = Start(g, i) /\ End(h, i) = End(g, i)
    BY <1>10 DEF Size, Blocks, Functions, Starts, Ends, Start, End, Fn
  <1>12. Grows(g, h)
    BY <1>10, <1>11 DEF Grows
  <1>13. Adds(g, h, E)
    BY <1>3, <1>9, <1>10, <1>12 DEF Adds
  <1>14. \A e \in E : e[1] = g.current /\ e[2] = z
    BY <1>7
  <1>15. Homes(h)
    <2> SUFFICES ASSUME NEW i \in Functions(h)
                 PROVE  /\ Fn(h, Start(h, i)) = i /\ Fn(h, End(h, i)) = i /\ ~HasAfter(h, End(h, i))
                        /\ Start(h, i) # End(h, i)
      BY DEF Homes
    <2>1. /\ Fn(g, Start(g, i)) = i /\ Fn(g, End(g, i)) = i /\ ~HasAfter(g, End(g, i))
          /\ Start(g, i) # End(g, i)
      BY <1>11 DEF Flow, Counts, Homes
    <2>2. End(g, i) # g.current
      BY <1>3, <1>11 DEF Ends
    <2>3. ~HasAfter(h, End(g, i))
      BY <1>13, <1>14, <2>1, <2>2, AddedEdges
    <2> QED
      BY <1>11, <2>1, <2>3
  <1>16. Ending(g, h, E, f)
    <2>1. \A e \in E : /\ e[1] = g.current \/ e[1] \in Own(f)
                       /\ e[2] \in Ends(g) \/ e[2] \in Own(f)
                       /\ Fn(h, e[2]) = Fn(h, e[1])
      BY <1>3, <1>6, <1>11, <1>14
    <2> QED
      BY <1>11, <1>13, <1>15, <2>1 DEF Ending
  <1>17. Clean(Function(g), o) => Settled(nest2, h, g.current, C) \/ Spared(nest, nest2, g, h, E, g.current)
    <2> SUFFICES ASSUME Clean(Function(g), o)
                 PROVE  Settled(nest2, h, g.current, C) \/ Spared(nest, nest2, g, h, E, g.current)
      OBVIOUS
    <2>1. ~HasAfter(g, g.current)
      <3>1. Len(nest2) \in Nat
        OBVIOUS
      <3>2. ~Looping(nest)
        BY <3>1, LoopingPushed
      <3> QED
        BY <3>2 DEF Flow
    <2>2. z \in Nat /\ z # g.current
      BY <1>3, <1>6 DEF Blocks
    <2>3. /\ <<g.current, z>> \in E /\ \A e \in E : e[1] = g.current => e[2] = z /\ ~HasAfter(g, g.current)
          /\ \A e \in E : e[2] # g.current
      BY <1>7, <1>14, <2>1, <2>2
    <2> QED
      BY <1>13, <2>2, <2>3, ClosedSettled
  <1>18. Spared(nest, nest2, g, h, E, a)
    <2>1. Waits(nest2, h, a)
      BY <1>10 DEF Waits
    <2>2. \A e \in E : e[1] # a /\ e[2] # a
      BY <1>5, <1>6, <1>14
    <2> QED
      BY <1>5, <2>1, <2>2 DEF Spared
  <1>19. Function(h) = fn
    BY <1>1, <1>8, <1>10 DEF Function
  <1>20. Clean(Function(h), o) => ~HasAfter(h, h.current)
    <2> SUFFICES ASSUME Clean(fn, o)
                 PROVE  ~HasAfter(h, a)
      BY <1>10, <1>19
    <2>1. ~Excused(fn, o)
      BY CleanExcuses
    <2>2. ~HasAfter(g, a)
      BY <1>5, <2>1 DEF Leads, Fn
    <2>3. \A e \in E : e[1] # a
      BY <1>5, <1>14
    <2> QED
      BY <1>13, <2>2, <2>3, AddedEdges
  <1>21. Flow(nest2, h, o, C)
    <2>1. \A x \in Own(f) \cup {g.current} : Clean(Fn(g, x), o) =>
               Settled(nest2, h, x, C) \/ Spared(nest, nest2, g, h, E, x)
      BY <1>3, <1>5, <1>17, <1>18
    <2> QED
      BY <1>16, <1>20, <2>1, EndingFlow
  <1> QED
    BY <1>9, <1>21

\* A break out of a frame.
LEMMA FlowLeft ==
    ASSUME NEW nest \in Seq(Frame), NEW i \in 1 .. Len(nest), NEW x \in {"live", "dead"},
           NEW nest2, Left(nest, i, x, nest2), NEW g, Formed(g), NEW o, NEW C, Flow(nest, g, o, C)
    PROVE  Flow(nest2, g, o, C)
  <1>1. PICK n \in Nat : n = Len(nest)
    OBVIOUS
  <1>2. nest2 \in Seq(Frame) /\ Len(nest2) = n /\ i \in 1 .. n
    BY <1>1 DEF Left
  <1>3. \A p \in 1 .. n : /\ nest2[p].kind = nest[p].kind /\ nest2[p].after = nest[p].after
                          /\ nest2[p].test = nest[p].test /\ nest2[p].prev = nest[p].prev
                          /\ nest2[p].hasElse = nest[p].hasElse
    <2> SUFFICES ASSUME NEW p \in 1 .. n
                 PROVE  /\ nest2[p].kind = nest[p].kind /\ nest2[p].after = nest[p].after
                        /\ nest2[p].test = nest[p].test /\ nest2[p].prev = nest[p].prev
                        /\ nest2[p].hasElse = nest[p].hasElse
      OBVIOUS
    <2>1. CASE p # i
      BY <1>1, <2>1 DEF Left
    <2>2. CASE p = i
      <3>1. nest[i] \in Frame /\ LeftBy(nest[i], x, nest2[i])
        BY DEF Left
      <3> QED
        BY <2>2, <3>1, LeftFields
    <2> QED
      BY <2>1, <2>2
  <1>4. ASSUME NEW p \in 1 .. n
        PROVE  /\ Seen(nest2, p - 1) <=> Seen(nest, p - 1)
               /\ Later(nest2[p]) = Later(nest[p])
               /\ Kept(nest[p], g, o) => Kept(nest2[p], g, o)
    <2>1. \A r \in 1 .. p - 1 : r \in 1 .. n
      OBVIOUS
    <2>2. Seen(nest2, p - 1) <=> Seen(nest, p - 1)
      BY <1>3, <2>1 DEF Seen
    <2>3. PICK f, f2 : f = nest[p] /\ f2 = nest2[p]
      OBVIOUS
    <2>4. /\ f2.kind = f.kind /\ f2.after = f.after /\ f2.test = f.test /\ f2.prev = f.prev
          /\ f2.hasElse = f.hasElse
      BY <1>3, <2>3
    <2>5. Later(f2) = Later(f)
      BY <2>4 DEF Later
    <2>6. Kept(f, g, o) => Kept(f2, g, o)
      BY <2>4 DEF Kept
    <2> QED
      BY <2>2, <2>3, <2>5, <2>6
  <1>5. Counts(nest2, g, o, C)
    <2>1. ASSUME NEW b, Awaited(nest, b)
          PROVE  Awaited(nest2, b)
      <3>1. PICK p \in 1 .. n : Seen(nest, p - 1) /\ b \in Later(nest[p])
        BY <1>1, <2>1 DEF Awaited
      <3> QED
        BY <1>2, <1>4, <3>1 DEF Awaited
    <2>2. Counts(nest, g, o, C) /\ o \subseteq o
      BY DEF Flow
    <2> QED
      BY <2>1, <2>2, CountsStay
  <1>6. Keeps(nest2, g, o)
    BY <1>1, <1>2, <1>4 DEF Flow, Keeps
  <1>7. Looping(nest) => Looping(nest2)
    <2> SUFFICES ASSUME Looping(nest)
                 PROVE  Looping(nest2)
      OBVIOUS
    <2>1. PICK p \in 1 .. n : nest[p].kind \in Loops /\ \A r \in p + 1 .. n : nest[r].kind # "function"
      BY <1>1 DEF Looping
    <2>2. \A r \in p + 1 .. n : r \in 1 .. n
      OBVIOUS
    <2>3. nest2[p].kind \in Loops /\ \A r \in p + 1 .. n : nest2[r].kind # "function"
      BY <1>3, <2>1, <2>2
    <2> QED
      BY <1>2, <2>1, <2>3 DEF Looping
  <1> QED
    BY <1>5, <1>6, <1>7 DEF Flow

-----------------------------------------------------------------------------
(* Jumps.                                                                  *)

\* The blocks of a loop that can be seen.
LEMMA LoopKept ==
    ASSUME NEW nest, NEW ctx, NEW g, NEW o, NEW l, NEW fr, NEW hs, Walk(nest, ctx, g, o, l, fr, hs),
           NEW C, Flow(nest, g, o, C), NEW i \in 1 .. Len(nest), nest[i].kind \in Loops, Seen(nest, i - 1),
           NEW to \in {nest[i].test, nest[i].after}
    PROVE  /\ to \in Blocks(g) /\ to # g.current /\ Fn(g, to) = Head(ctx[i - 1].stack)
           /\ Clean(Fn(g, to), o) => HasBefore(g, to)
  <1>1. PICK f : f = nest[i]
    OBVIOUS
  <1>2. Own(f) \subseteq Blocks(g) /\ g.current \notin Own(f)
    BY <1>1, OwnedApart
  <1>3. f.test \in Own(f) /\ f.after \in Own(f) /\ Targets(f) # {}
    BY <1>1 DEF Own, Targets, Loops
  <1>4. Kept(f, g, o)
    BY <1>1 DEF Flow, Keeps
  <1>5. Within(f, Head(ctx[i - 1].stack), g, o)
    BY <1>1 DEF Walk, Frames
  <1>6. Fn(g, f.after) = Head(ctx[i - 1].stack)
    BY <1>3, <1>5 DEF Within, Fn
  <1> QED
    BY <1>1, <1>2, <1>3, <1>4, <1>6 DEF Kept

\* A loop around the walk, in the same function.
LEMMA LoopHere ==
    ASSUME NEW nest, NEW ctx, NEW g, NEW o, NEW l, NEW fr, NEW hs, Walk(nest, ctx, g, o, l, fr, hs),
           Seen(nest, Len(nest)), NEW i \in 1 .. Len(nest), nest[i].kind \in Loops,
           \A r \in i + 1 .. Len(nest) : nest[r].kind # "function"
    PROVE  Looping(nest) /\ Seen(nest, i - 1) /\ Head(ctx[i - 1].stack) = Function(g)
  <1>1. Nesting(nest, ctx) /\ Matches(g, ctx[Len(nest)]) /\ Len(nest) \in Nat
    BY WalkFacts
  <1>2. Looping(nest)
    BY DEF Looping
  <1>3. PICK m \in Nat, j \in Nat : m = Len(nest) /\ j = i - 1
    BY <1>1
  <1>4. m \in 0 .. m /\ j \in 0 .. m /\ \A r \in j + 1 .. m : r = i \/ r \in i + 1 .. m
    BY <1>3
  <1>5. Seen(nest, j)
    BY <1>1, <1>3, <1>4, SeenOuter
  <1>6. nest[i].kind # "function"
    BY DEF Loops
  <1>7. \A r \in j + 1 .. m : nest[r].kind # "function"
    BY <1>3, <1>4, <1>6
  <1>8. Top(nest, ctx, j, m)
    BY <1>1, <1>3, <1>4 DEF Nesting
  <1>9. ctx[m].stack = ctx[j].stack
    BY <1>7, <1>8 DEF Top
  <1> QED
    BY <1>1, <1>2, <1>3, <1>5, <1>9 DEF Matches, Function

LEMMA ContinueFlow ==
    ASSUME NEW nest, NEW ctx, NEW g, NEW o, NEW l \in BOOLEAN, NEW fr, NEW hs,
           Walk(nest, ctx, g, o, l, fr, hs), Seen(nest, Len(nest)),
           NEW C, Flow(nest, g, o, C), NEW o2, o \subseteq o2, Clean(Function(g), o2) => l,
           NEW i \in 1 .. Len(nest), nest[i].kind \in Loops,
           \A r \in i + 1 .. Len(nest) : nest[r].kind \notin Loops \cup {"function"},
           NEW to, to = Head(g.continues) \/ to = Head(g.breaks), Formed(JumpBlock(g, to, l))
    PROVE  Flow(nest, JumpBlock(g, to, l), o2, C)
  <1>1. \A r \in i + 1 .. Len(nest) : nest[r].kind \notin Loops /\ nest[r].kind # "function"
    OBVIOUS
  <1>2. to \in {nest[i].test, nest[i].after}
    <2>1. Head(g.breaks) = nest[i].after /\ Head(g.continues) = nest[i].test
      BY <1>1, LoopTargets
    <2> QED
      BY <2>1
  <1>3. Looping(nest) /\ Seen(nest, i - 1) /\ Head(ctx[i - 1].stack) = Function(g)
    BY <1>1, LoopHere
  <1>4. /\ to \in Blocks(g) /\ to # g.current /\ Fn(g, to) = Head(ctx[i - 1].stack)
        /\ Clean(Fn(g, to), o) => HasBefore(g, to)
    BY <1>2, <1>3, LoopKept
  <1>5. Clean(Fn(g, to), o2) => HasBefore(g, to)
    BY <1>4, CleanBefore
  <1> QED
    BY <1>3, <1>4, <1>5, JumpFlow

\* A jump that is taken for one out of, or back to, a loop with a builder.
LEMMA AstrayFlow ==
    ASSUME NEW nest, NEW ctx, NEW g, NEW o, NEW l \in BOOLEAN, NEW fr, NEW hs,
           Walk(nest, ctx, g, o, l, fr, hs),
           NEW C, Flow(nest, g, o, C), NEW o2, o \subseteq o2, ~Clean(Function(g), o2),
           g.breaks # <<>> \/ g.continues # <<>>,
           NEW to, to = Head(g.continues) \/ to = Head(g.breaks), Formed(JumpBlock(g, to, l))
    PROVE  Flow(nest, JumpBlock(g, to, l), o2, C)
  <1>1. Nesting(nest, ctx) /\ Matches(g, ctx[Len(nest)]) /\ Len(nest) \in Nat
    BY WalkFacts
  <1>2. PICK m \in Nat : m = Len(nest)
    BY <1>1
  <1>3. Bound(nest, ctx, m)
    <2>1. m \in 0 .. m
      OBVIOUS
    <2> QED
      BY <1>1, <1>2, <2>1 DEF Nesting
  <1>4. PICK p \in 1 .. Len(nest) : Seen(nest, p - 1) /\ TopOf(nest[p], ctx[m])
    <2>1. g.breaks = ctx[m].breaks /\ g.continues = ctx[m].continues
      BY <1>1, <1>2 DEF Matches
    <2> QED
      BY <1>2, <1>3, <2>1 DEF Bound
  <1>5. nest[p].kind \in Loops /\ to \in {nest[p].test, nest[p].after}
    <2>1. g.breaks = ctx[m].breaks /\ g.continues = ctx[m].continues
      BY <1>1, <1>2 DEF Matches
    <2> QED
      BY <1>4, <2>1 DEF TopOf
  <1>6. to \in Blocks(g) /\ to # g.current /\ (Clean(Fn(g, to), o) => HasBefore(g, to))
    BY <1>4, <1>5, LoopKept
  <1>7. Clean(Fn(g, to), o2) => HasBefore(g, to)
    BY <1>6, CleanBefore
  <1> QED
    BY <1>6, <1>7, JumpFlow

\* The last edge of the program.
LEMMA FinishFlow ==
    ASSUME NEW nest, NEW ctx, NEW g, NEW o, NEW l, NEW fr, NEW hs, Walk(nest, ctx, g, o, l, fr, hs),
           nest = <<>>, NEW C, Flow(nest, g, o, C),
           NEW h, h = AddEdge(g, g.current, End(g, 1)), Formed(h)
    PROVE  Counts(nest, h, o, C) /\ HasAfter(h, h.current)
  <1>1. Formed(g) /\ g \in Cfgs /\ Nesting(nest, ctx) /\ Matches(g, ctx[0]) /\ g.current \in Blocks(g)
        /\ Fn(g, g.current) = Function(g) /\ g.current \notin Ends(g)
    BY DEF Walk, Formed, Fn
  <1>2. Function(g) = 1
    BY <1>1 DEF Nesting, Matches, Function
  <1>3. PICK z \in Nat : z = End(g, 1) /\ z \in Blocks(g) /\ z \in Ends(g) /\ 1 \in Functions(g)
    <2>1. End(g, 1) \in Blocks(g) /\ End(g, 1) \in Ends(g) /\ 1 \in Functions(g)
      BY <1>1, <1>2, CurrentFunction
    <2> QED
      BY <2>1 DEF Blocks
  <1>4. PICK E, R, c : E = {<<g.current, z>>} /\ R = {} /\ c = g.current
    OBVIOUS
  <1>5. Made(g, h, E, R) /\ h.current = g.current
    <2>1. PICK none : none = {}
      OBVIOUS
    <2>2. Made(g, g, none, none)
      BY <1>1, <2>1, NothingMade
    <2>3. Made(g, AddEdge(g, c, z), none \cup {<<c, z>>}, none) /\ AddEdge(g, c, z).current = g.current
      <3>1. c \in Nat
        BY <1>1, <1>4 DEF Blocks
      <3> QED
        BY <2>2, <3>1, MadeEdge
    <2> QED
      BY <1>3, <1>4, <2>1, <2>3
  <1>6. Adds(g, h, E) /\ Ends(h) = Ends(g)
    BY <1>1, <1>5, MadeAdds
  <1>7. \A e \in E : e[1] = g.current /\ e[2] = z /\ z # g.current
    BY <1>1, <1>3, <1>4
  <1>8. Homes(h)
    <2>1. \A e \in E : e[1] \notin Ends(g)
      BY <1>1, <1>7
    <2> QED
      BY <1>1, <1>5, <2>1, HomesMade DEF Flow, Counts
  <1>9. Blocks(h) = Blocks(g)
    <2>1. h = [g EXCEPT !.edges = g.edges \cup {<<g.current, End(g, 1)>>}]
      BY DEF AddEdge
    <2>2. h.block = g.block
      BY ONLY <1>1, <2>1 DEF Cfgs
    <2> QED
      BY <2>2 DEF Blocks, Size
  <1>10. \A e \in E : Clean(Fn(h, e[1]), o) => Fn(h, e[2]) = Fn(h, e[1])
    <2>1. \A b \in Blocks(g) : Fn(h, b) = Fn(g, b)
      BY <1>6, AddedEdges
    <2>2. Fn(g, z) = 1
      BY <1>3 DEF Flow, Counts, Homes
    <2> QED
      BY <1>1, <1>2, <1>3, <1>7, <2>1, <2>2
  <1>11. ASSUME NEW b \in Blocks(h) \ Ends(h), Clean(Fn(h, b), o)
         PROVE  Settled(nest, h, b, C) \/ Spared(nest, nest, g, h, E, b)
    <2>1. CASE b = g.current
      <3>1. Clean(Function(g), o)
        BY <1>1, <1>6, <1>11, <2>1, AddedEdges
      <3>2. ~Looping(nest)
        BY DEF Looping
      <3>3. ~HasAfter(g, g.current)
        BY <3>1, <3>2 DEF Flow
      <3>4. /\ <<g.current, z>> \in E /\ \A e \in E : e[1] = g.current => e[2] = z /\ ~HasAfter(g, g.current)
            /\ \A e \in E : e[2] # g.current
        BY <1>4, <1>7, <3>3
      <3> QED
        BY <1>6, <2>1, <3>1, <3>4, ClosedSettled
    <2>2. CASE b # g.current
      <3>1. \A e \in E : e[1] # b /\ e[2] # b
        <4>1. b # z
          BY <1>3, <1>6, <1>11
        <4> QED
          BY <1>7, <2>2, <4>1
      <3>2. Waits(nest, g, b) => Waits(nest, h, b)
        BY <1>5 DEF Waits
      <3> QED
        BY <1>9, <1>11, <3>1, <3>2 DEF Spared
    <2> QED
      BY <2>1, <2>2
  <1>12. Counts(nest, h, o, C)
    <2>1. Counts(nest, g, o, C) /\ C \subseteq Blocks(h) \ Ends(h) /\ o \subseteq o /\ C \subseteq C
      BY <1>6, <1>9 DEF Flow, Counts
    <2> QED
      BY <1>6, <1>8, <1>10, <1>11, <2>1, CountsKept
  <1>13. HasAfter(h, h.current)
    <2>1. <<g.current, z>> \in E
      BY <1>4
    <2>2. <<g.current, z>> \in h.edges
      BY <1>6, <2>1 DEF Adds
    <2> QED
      BY <1>5, <2>2 DEF HasAfter
  <1> QED
    BY <1>12, <1>13

LEMMA BeginningFlow ==
    ASSUME NEW h, h = BeginFunction(Empty), NEW nest, Len(nest) = 0, NEW o, NEW C, C = {}
    PROVE  Flow(nest, h, o, C)
  <1>1. PICK g : g = Empty
    OBVIOUS
  <1>2. /\ g \in Cfgs /\ Size(g) = 0 /\ Len(g.functions) = 0 /\ g.edges = {}
        /\ g.breaks = <<>> /\ g.continues = <<>> /\ g.stack = <<>>
    BY <1>1 DEF Empty, Cfgs, Size
  <1>3. Began(g, h)
    BY <1>1, <1>2, FunctionBegun
  <1>4. /\ Size(h) = 2 /\ h.current = 1 /\ h.edges = {}
        /\ Len(h.functions) = 1 /\ h.functions[1] = <<1, 2>>
        /\ h.block[1].function = 1 /\ h.block[2].function = 1
    BY <1>2, <1>3 DEF Began
  <1>5. Blocks(h) = {1, 2} /\ Functions(h) = {1} /\ Start(h, 1) = 1 /\ End(h, 1) = 2
    BY <1>4 DEF Blocks, Functions, Start, End
  <1>6. Ends(h) = {2} /\ Fn(h, 1) = 1 /\ Fn(h, 2) = 1
    BY <1>4, <1>5 DEF Ends, Fn
  <1>7. \A b : ~HasAfter(h, b) /\ ~HasBefore(h, b)
    BY <1>4 DEF HasAfter, HasBefore
  <1>8. Homes(h)
    BY <1>5, <1>6, <1>7 DEF Homes
  <1>9. Settled(nest, h, 1, C)
    BY <1>4, <1>7 DEF Settled, Waits
  <1>10. Counts(nest, h, o, C)
    BY <1>4, <1>5, <1>6, <1>8, <1>9 DEF Counts
  <1>11. Keeps(nest, h, o)
    BY DEF Keeps
  <1> QED
    BY <1>7, <1>10, <1>11 DEF Flow

-----------------------------------------------------------------------------
(* The walk at a state.                                                    *)

Flows(s, g, o, C) == Flow(Outer(s), g, o, C)

LEMMA FlowsStay ==
    ASSUME NEW s, NEW g, Formed(g), NEW o, NEW C, Flows(s, g, o, C), NEW o2, o \subseteq o2
    PROVE  Flows(s, g, o2, C)
  BY FlowStay DEF Flows

LEMMA FlowsPush ==
    ASSUME NEW s \in Seq(Frame), NEW g, Formed(g), NEW o, NEW C, Flows(s, g, o, C),
           NEW o2, o \subseteq o2, NEW f \in Frame, Passive(f) \/ Hidden(s),
           Clean(Function(g), o2) /\ HasAfter(g, g.current) => f.kind # "function",
           NEW t, t = <<f>> \o s
    PROVE  Flows(t, g, o2, C)
  <1>1. PICK nest, nest2 : nest = Outer(s) /\ nest2 = Outer(t)
    OBVIOUS
  <1>2. Deeper(nest, f, nest2) /\ Len(nest) \in Nat
    BY <1>1, OuterPushed, OuterType
  <1>3. Seen(nest, Len(nest)) => Passive(f)
    BY <1>1, Hiding
  <1>4. Flow(nest, g, o, C)
    BY <1>1 DEF Flows
  <1>5. Flow(nest2, g, o2, C)
    BY <1>2, <1>3, <1>4, FlowPush
  <1> QED
    BY <1>1, <1>5 DEF Flows

LEMMA FlowsPop ==
    ASSUME NEW s \in Seq(Frame), s # <<>>, NEW g, Formed(g), NEW o, NEW C, Flows(s, g, o, C),
           NEW o2, o \subseteq o2, NEW t, t = Tail(s), NEW f, f = Head(s), Passive(f) \/ Hidden(t),
           Clean(Function(g), o2) /\ HasAfter(g, g.current) => f.kind \notin Loops
    PROVE  Flows(t, g, o2, C)
  <1>1. PICK nest, nest2 : nest = Outer(t) /\ nest2 = Outer(s)
    OBVIOUS
  <1>2. t \in Seq(Frame) /\ Deeper(nest, f, nest2)
    BY <1>1, OuterPopped
  <1>3. Len(nest) \in Nat /\ (Seen(nest, Len(nest)) => Passive(f))
    <2>1. Len(nest) \in Nat
      BY <1>1, <1>2, OuterType
    <2>2. Hidden(t) => ~Seen(nest, Len(nest))
      BY <1>1, <1>2, Hiding
    <2> QED
      BY <2>1, <2>2
  <1>4. Flow(nest2, g, o, C)
    BY <1>1 DEF Flows
  <1>5. Flow(nest, g, o2, C)
    BY <1>2, <1>3, <1>4, FlowPop
  <1> QED
    BY <1>1, <1>5 DEF Flows

LEMMA HiddenReady ==
    ASSUME NEW s \in Seq(Frame), NEW g, NEW o, NEW l \in BOOLEAN, NEW fr, NEW hs, At(s, g, o, l, fr, hs),
           NEW o2, o \subseteq o2, Clean(Function(g), o2), Hidden(s)
    PROVE  ~HasAfter(g, g.current)
  <1>1. PICK nest, ctx : nest = Outer(s) /\ Walk(nest, ctx, g, o, l, fr, hs)
    BY DEF At
  <1>2. ~Seen(nest, Len(nest))
    BY <1>1, Hiding
  <1>3. Ready(g)
    BY <1>1, <1>2, HereLeads
  <1> QED
    BY <1>3 DEF Ready

LEMMA FlowsSimple ==
    ASSUME NEW s \in Seq(Frame), NEW g, NEW o, NEW l \in BOOLEAN, NEW fr, NEW hs, At(s, g, o, l, fr, hs),
           NEW C, Flows(s, g, o, C), NEW o2, o \subseteq o2, Clean(Function(g), o2) => l,
           NEW r \in BOOLEAN, Formed(AddInstruction(g, r))
    PROVE  Flows(s, AddInstruction(g, r), o2, C)
  <1>1. PICK nest, ctx : nest = Outer(s) /\ Walk(nest, ctx, g, o, l, fr, hs)
    BY DEF At
  <1>2. Flow(nest, g, o, C)
    BY <1>1 DEF Flows
  <1>3. Flow(nest, AddInstruction(g, r), o2, C)
    BY <1>1, <1>2, SimpleFlow
  <1> QED
    BY <1>1, <1>3 DEF Flows

LEMMA FlowsReturn ==
    ASSUME NEW s \in Seq(Frame), NEW g, NEW o, NEW l \in BOOLEAN, NEW fr, NEW hs, At(s, g, o, l, fr, hs),
           NEW C, Flows(s, g, o, C), NEW o2, o \subseteq o2, Clean(Function(g), o2) => l,
           Formed(ReturnBlocks(g, l))
    PROVE  Flows(s, ReturnBlocks(g, l), o2, C)
  <1>1. PICK nest, ctx : nest = Outer(s) /\ Walk(nest, ctx, g, o, l, fr, hs)
    BY DEF At
  <1>2. Flow(nest, g, o, C)
    BY <1>1 DEF Flows
  <1>3. Flow(nest, ReturnBlocks(g, l), o2, C)
    BY <1>1, <1>2, ReturnFlow
  <1> QED
    BY <1>1, <1>3 DEF Flows

LEMMA FlowsIf ==
    ASSUME NEW s \in Seq(Frame), NEW g, NEW o, NEW l \in BOOLEAN, NEW fr, NEW hs, At(s, g, o, l, fr, hs),
           ~Hidden(s), NEW C, Flows(s, g, o, C), NEW o2, o \subseteq o2,
           NEW cond, NEW hasElse, Clean(Function(g), o2) => l /\ cond = "any",
           NEW C2, Chosen(C, C2, Size(g) + 1, Clean(Function(g), o2)),
           NEW f \in Frame, IfFrame(g, hasElse, f), NEW t, t = <<f>> \o s,
           Formed(IfBlocks(g, cond, hasElse, l))
    PROVE  Flows(t, IfBlocks(g, cond, hasElse, l), o2, C2)
  <1>1. PICK nest, ctx : nest = Outer(s) /\ Walk(nest, ctx, g, o, l, fr, hs)
    BY DEF At
  <1>2. Flow(nest, g, o, C) /\ Seen(nest, Len(nest))
    BY <1>1, Hiding DEF Flows
  <1>3. PICK nest2 : nest2 = Outer(t) /\ Deeper(nest, f, nest2)
    BY <1>1, OuterPushed
  <1>4. Flow(nest2, IfBlocks(g, cond, hasElse, l), o2, C2)
    BY <1>1, <1>2, <1>3, IfFlow
  <1> QED
    BY <1>3, <1>4 DEF Flows

LEMMA FlowsWhile ==
    ASSUME NEW s \in Seq(Frame), NEW g, NEW o, NEW l \in BOOLEAN, NEW fr, NEW hs, At(s, g, o, l, fr, hs),
           ~Hidden(s), NEW C, Flows(s, g, o, C), NEW o2, o \subseteq o2,
           NEW cond, Clean(Function(g), o2) => l /\ cond = "any",
           NEW C2, Chosen(C, C2, Size(g) + 1, Clean(Function(g), o2)),
           NEW f \in Frame, WhileFrame(g, cond, f), NEW t, t = <<f>> \o s,
           Formed(WhileBlocks(g, cond, l))
    PROVE  Flows(t, WhileBlocks(g, cond, l), o2, C2)
  <1>1. PICK nest, ctx : nest = Outer(s) /\ Walk(nest, ctx, g, o, l, fr, hs)
    BY DEF At
  <1>2. Flow(nest, g, o, C) /\ Seen(nest, Len(nest))
    BY <1>1, Hiding DEF Flows
  <1>3. PICK nest2 : nest2 = Outer(t) /\ Deeper(nest, f, nest2)
    BY <1>1, OuterPushed
  <1>4. Flow(nest2, WhileBlocks(g, cond, l), o2, C2)
    BY <1>1, <1>2, <1>3, WhileFlow
  <1> QED
    BY <1>3, <1>4 DEF Flows

LEMMA FlowsForIn ==
    ASSUME NEW s \in Seq(Frame), NEW g, NEW o, NEW l \in BOOLEAN, NEW fr, NEW hs, At(s, g, o, l, fr, hs),
           ~Hidden(s), NEW C, Flows(s, g, o, C), NEW o2, o \subseteq o2, Clean(Function(g), o2) => l,
           NEW m, m = Size(AddInstruction(g, l)),
           NEW C2, Chosen(C, C2, m + 2, Clean(Function(g), o2)),
           NEW f \in Frame, ForInFrame(m, f), NEW t, t = <<f>> \o s, Formed(ForInBlocks(g, l))
    PROVE  Flows(t, ForInBlocks(g, l), o2, C2)
  <1>1. PICK nest, ctx : nest = Outer(s) /\ Walk(nest, ctx, g, o, l, fr, hs)
    BY DEF At
  <1>2. Flow(nest, g, o, C) /\ Seen(nest, Len(nest))
    BY <1>1, Hiding DEF Flows
  <1>3. PICK nest2 : nest2 = Outer(t) /\ Deeper(nest, f, nest2)
    BY <1>1, OuterPushed
  <1>4. Flow(nest2, ForInBlocks(g, l), o2, C2)
    BY <1>1, <1>2, <1>3, ForInFlow
  <1> QED
    BY <1>3, <1>4 DEF Flows

LEMMA FlowsFunction ==
    ASSUME NEW s \in Seq(Frame), NEW g, NEW o, NEW l, NEW fr, NEW hs, At(s, g, o, l, fr, hs),
           ~Hidden(s), NEW C, Flows(s, g, o, C),
           NEW f \in Frame, FunctionFrame(g, f), NEW t, t = <<f>> \o s
    PROVE  Flows(t, BeginFunction(g), o, C)
  <1>1. PICK nest, ctx : nest = Outer(s) /\ Walk(nest, ctx, g, o, l, fr, hs)
    BY DEF At
  <1>2. Flow(nest, g, o, C) /\ Seen(nest, Len(nest))
    BY <1>1, Hiding DEF Flows
  <1>3. PICK nest2 : nest2 = Outer(t) /\ Deeper(nest, f, nest2)
    BY <1>1, OuterPushed
  <1>4. Flow(nest2, BeginFunction(g), o, C)
    BY <1>1, <1>2, <1>3, BeginFlow
  <1> QED
    BY <1>3, <1>4 DEF Flows

LEMMA FlowsThen ==
    ASSUME NEW s \in Seq(Frame), NEW g, NEW o, NEW l, NEW fr, NEW hs, At(s, g, o, l, fr, hs),
           ~Hidden(s), s # <<>>, NEW C, Flows(s, g, o, C),
           NEW f, f = Head(s), f.kind = "then", NEW t, t = Tail(s), Formed(IfEnds(g, f.hasElse, f.after))
    PROVE  Flows(t, IfEnds(g, f.hasElse, f.after), o, C)
  <1>1. PICK nest, ctx : nest = Outer(s) /\ Walk(nest, ctx, g, o, l, fr, hs)
    BY DEF At
  <1>2. Flow(nest, g, o, C) /\ Seen(nest, Len(nest))
    BY <1>1, Hiding DEF Flows
  <1>3. PICK nest2 \in Seq(Frame) : nest2 = Outer(t) /\ Deeper(nest2, f, nest)
    BY <1>1, OuterPopped
  <1>4. Flow(nest2, IfEnds(g, f.hasElse, f.after), o, C)
    BY <1>1, <1>2, <1>3, ThenFlow
  <1> QED
    BY <1>3, <1>4 DEF Flows

LEMMA FlowsLoop ==
    ASSUME NEW s \in Seq(Frame), NEW g, NEW o, NEW l, NEW fr, NEW hs, At(s, g, o, l, fr, hs),
           ~Hidden(s), s # <<>>, NEW C, Flows(s, g, o, C),
           NEW f, f = Head(s), f.kind \in Loops, NEW t, t = Tail(s), Formed(LoopEnds(g, f.test, f.after))
    PROVE  Flows(t, LoopEnds(g, f.test, f.after), o, C)
  <1>1. PICK nest, ctx : nest = Outer(s) /\ Walk(nest, ctx, g, o, l, fr, hs)
    BY DEF At
  <1>2. Flow(nest, g, o, C) /\ Seen(nest, Len(nest))
    BY <1>1, Hiding DEF Flows
  <1>3. PICK nest2 \in Seq(Frame) : nest2 = Outer(t) /\ Deeper(nest2, f, nest)
    BY <1>1, OuterPopped
  <1>4. Flow(nest2, LoopEnds(g, f.test, f.after), o, C)
    BY <1>1, <1>2, <1>3, LoopFlow
  <1> QED
    BY <1>3, <1>4 DEF Flows

LEMMA FlowsFunctionEnd ==
    ASSUME NEW s \in Seq(Frame), NEW g, NEW o, NEW l, NEW fr, NEW hs, At(s, g, o, l, fr, hs),
           ~Hidden(s), s # <<>>, NEW C, Flows(s, g, o, C),
           NEW f, f = Head(s), f.kind = "function", NEW t, t = Tail(s), Formed(EndFunction(g, f.prev))
    PROVE  Flows(t, EndFunction(g, f.prev), o, C)
  <1>1. PICK nest, ctx : nest = Outer(s) /\ Walk(nest, ctx, g, o, l, fr, hs)
    BY DEF At
  <1>2. Flow(nest, g, o, C) /\ Seen(nest, Len(nest))
    BY <1>1, Hiding DEF Flows
  <1>3. PICK nest2 \in Seq(Frame) : nest2 = Outer(t) /\ Deeper(nest2, f, nest)
    BY <1>1, OuterPopped
  <1>4. Flow(nest2, EndFunction(g, f.prev), o, C)
    BY <1>1, <1>2, <1>3, FunctionEndFlow
  <1> QED
    BY <1>3, <1>4 DEF Flows

\* Every frame is found among the outer ones, with what is inside of it.
LEMMA OuterHas ==
    ASSUME NEW s \in Seq(Frame), NEW i \in 1 .. Len(s)
    PROVE  \E j \in 1 .. Len(Outer(s)) :
              /\ Outer(s)[j] = s[i]
              /\ \A r \in j + 1 .. Len(Outer(s)) : \E k \in 1 .. i - 1 : Outer(s)[r] = s[k]
  <1>1. PICK x \in {"live", "dead"} : TRUE
    OBVIOUS
  <1>2. PICK f2, t : LeftBy(s[i], x, f2) /\ Replaced(s, i, f2, t)
    BY DEF LeftBy, Replaced
  <1>3. \E j \in 1 .. Len(Outer(s)) : LeftAt(s, i, x, t, j)
    BY <1>2, OuterLeft
  <1> QED
    BY <1>3 DEF LeftAt

\* A jump to the innermost loop.
LEMMA FlowsJump ==
    ASSUME NEW s \in Seq(Frame), NEW g, NEW o, NEW l \in BOOLEAN, NEW fr, NEW hs, At(s, g, o, l, fr, hs),
           ~Hidden(s), NEW C, Flows(s, g, o, C), NEW o2, o \subseteq o2, Clean(Function(g), o2) => l,
           NEW kinds, Loops \subseteq kinds, NEW i, Innermost(s, i, kinds), s[i].kind \in Loops,
           NEW to, to = Head(g.continues) \/ to = Head(g.breaks), Formed(JumpBlock(g, to, l))
    PROVE  Flows(s, JumpBlock(g, to, l), o2, C)
  <1>1. PICK nest, ctx : nest = Outer(s) /\ Walk(nest, ctx, g, o, l, fr, hs)
    BY DEF At
  <1>2. Flow(nest, g, o, C) /\ Seen(nest, Len(nest))
    BY <1>1, Hiding DEF Flows
  <1>3. i \in 1 .. Len(s)
    BY DEF Innermost
  <1>4. PICK j \in 1 .. Len(nest) :
           nest[j] = s[i] /\ \A r \in j + 1 .. Len(nest) : \E k \in 1 .. i - 1 : nest[r] = s[k]
    BY <1>1, <1>3, OuterHas
  <1>5. nest[j].kind \in Loops /\ \A r \in j + 1 .. Len(nest) : nest[r].kind \notin Loops \cup {"function"}
    BY <1>4 DEF Innermost
  <1>6. Flow(nest, JumpBlock(g, to, l), o2, C)
    BY <1>1, <1>2, <1>5, ContinueFlow
  <1> QED
    BY <1>1, <1>6 DEF Flows

\* A jump that is taken for another.
LEMMA FlowsAstray ==
    ASSUME NEW s \in Seq(Frame), NEW g, NEW o, NEW l \in BOOLEAN, NEW fr, NEW hs, At(s, g, o, l, fr, hs),
           NEW C, Flows(s, g, o, C), NEW o2, o \subseteq o2, ~Clean(Function(g), o2),
           g.breaks # <<>> \/ g.continues # <<>>,
           NEW to, to = Head(g.continues) \/ to = Head(g.breaks), Formed(JumpBlock(g, to, l))
    PROVE  Flows(s, JumpBlock(g, to, l), o2, C)
  <1>1. PICK nest, ctx : nest = Outer(s) /\ Walk(nest, ctx, g, o, l, fr, hs)
    BY DEF At
  <1>2. Flow(nest, g, o, C)
    BY <1>1 DEF Flows
  <1>3. Flow(nest, JumpBlock(g, to, l), o2, C)
    BY <1>1, <1>2, AstrayFlow
  <1> QED
    BY <1>1, <1>3 DEF Flows

LEMMA FlowsLeft ==
    ASSUME NEW s \in Seq(Frame), NEW i \in 1 .. Len(s), NEW x \in {"live", "dead"},
           NEW f2, LeftBy(s[i], x, f2), NEW t, Replaced(s, i, f2, t),
           NEW g, Formed(g), NEW o, NEW C, Flows(s, g, o, C)
    PROVE  Flows(t, g, o, C)
  <1>1. PICK nest, nest2 : nest = Outer(s) /\ nest2 = Outer(t)
    OBVIOUS
  <1>2. nest \in Seq(Frame) /\ \E j \in 1 .. Len(nest) : Left(nest, j, x, nest2)
    <2>1. nest \in Seq(Frame)
      BY <1>1, OuterType
    <2>2. \E j \in 1 .. Len(Outer(s)) : LeftAt(s, i, x, t, j)
      BY OuterLeft
    <2> QED
      BY <1>1, <2>1, <2>2 DEF LeftAt
  <1>3. Flow(nest, g, o, C)
    BY <1>1 DEF Flows
  <1>4. Flow(nest2, g, o, C)
    BY <1>2, <1>3, FlowLeft
  <1> QED
    BY <1>1, <1>4 DEF Flows

-----------------------------------------------------------------------------
(* What each action does.                                                  *)

Flowing == Flows(open, cfg, odd, choices)

Counted == Counts(<<>>, cfg, odd, choices) /\ HasAfter(cfg, cfg.current)

FlowInv == (ended = "no" => Flowing) /\ (ended = "done" => Counted)

LEMMA BuildsClean ==
    ASSUME NEW g, NEW blocks, NEW cond, NEW never, Builds(g, blocks, cond, never)
    PROVE  Clean(Function(cfg), odd') => ~Hidden(open) /\ live /\ cond = "any"
  <1> SUFFICES ASSUME Clean(Function(cfg), odd')
               PROVE  ~Hidden(open) /\ live /\ cond = "any"
    OBVIOUS
  <1>1. \A what : <<Function(cfg), what>> \notin odd'
    BY DEF Clean
  <1>2. Unseen <=> Hidden(open)
    BY DEF Unseen, Hidden
  <1>3. ~Unseen
    <2>1. Unseen => <<Function(cfg), "unseen">> \in odd'
      BY DEF Builds, Odd
    <2> QED
      BY <1>1, <2>1
  <1>4. Tags(~live, "dead") \subseteq odd' /\ Tags(cond # "any", "constant") \subseteq odd'
    BY <1>3 DEF Builds
  <1>5. /\ ~live => <<Function(cfg), "dead">> \in odd'
        /\ cond # "any" => <<Function(cfg), "constant">> \in odd'
    BY <1>4 DEF Tags, Odd
  <1> QED
    BY <1>1, <1>2, <1>3, <1>5

LEMMA JumpsClean ==
    ASSUME NEW g, NEW astray, Jumps(g, astray)
    PROVE  Clean(Function(cfg), odd') => live /\ ~astray
  <1> SUFFICES ASSUME Clean(Function(cfg), odd')
               PROVE  live /\ ~astray
    OBVIOUS
  <1>1. \A what : <<Function(cfg), what>> \notin odd'
    BY DEF Clean
  <1>2. Tags(~live, "dead") \subseteq odd' /\ Tags(astray, "astray") \subseteq odd'
    BY DEF Jumps
  <1>3. /\ ~live => <<Function(cfg), "dead">> \in odd'
        /\ astray => <<Function(cfg), "astray">> \in odd'
    BY <1>2 DEF Tags, Odd
  <1> QED
    BY <1>1, <1>3

LEMMA DecidesChosen ==
    ASSUME NEW b, NEW cond, Decides(b, cond), NEW c, c => ~Hidden(open) /\ live /\ cond = "any"
    PROVE  Chosen(choices, choices', b, c) /\ (Hidden(open) => choices' = choices)
  <1>1. Unseen <=> Hidden(open)
    BY DEF Unseen, Hidden
  <1> QED
    BY <1>1 DEF Decides, Chosen

LEMMA ReadingFacts ==
    ASSUME Reading
    PROVE  open \in Seq(Frame) /\ live \in BOOLEAN /\ fresh \in BOOLEAN /\ Formed(cfg)
  BY AtFacts DEF Reading

LEMMA FormedNext ==
    ASSUME Reading'
    PROVE  Formed(cfg')
  <1>1. PICK s \in Seq(Frame) : s = open'
    BY DEF Reading
  <1>2. PICK g, o, l, fr, hs : g = cfg' /\ o = odd' /\ l = live' /\ fr = fresh' /\ hs = heads'
    OBVIOUS
  <1>3. At(s, g, o, l, fr, hs)
    BY <1>1, <1>2 DEF Reading
  <1>4. Formed(g)
    BY <1>3, AtFacts
  <1> QED
    BY <1>2, <1>4

LEMMA SimpleFlows ==
    ASSUME Reading, Reading', Flowing, Simple
    PROVE  Flowing'
  <1>1. /\ open' = open /\ choices' = choices /\ Builds(AddInstruction(cfg, live), 0, "any", {})
    BY DEF Simple
  <1>2. PICK s \in Seq(Frame), l \in BOOLEAN, fr \in BOOLEAN :
           s = open /\ l = live /\ fr = fresh /\ At(s, cfg, odd, l, fr, heads)
    BY DEF Reading
  <1>3. odd \subseteq odd' /\ Formed(cfg) /\ Formed(cfg') /\ Flows(s, cfg, odd, choices)
    BY <1>1, <1>2, BuildsFacts, ReadingFacts, FormedNext DEF Flowing
  <1>4. Clean(Function(cfg), odd') => l
    BY <1>1, <1>2, BuildsClean
  <1>5. CASE Hidden(s)
    <2>1. cfg' = cfg
      BY <1>1, <1>2, <1>5, BuildsFacts
    <2>2. Flows(s, cfg, odd', choices)
      BY <1>3, FlowsStay
    <2> QED
      BY <1>1, <1>2, <2>1, <2>2 DEF Flowing
  <1>6. CASE ~Hidden(s)
    <2>1. cfg' = AddInstruction(cfg, l)
      BY <1>1, <1>2, <1>6, BuildsFacts
    <2>2. Formed(AddInstruction(cfg, l))
      BY <1>3, <2>1
    <2>3. Flows(s, AddInstruction(cfg, l), odd', choices)
      BY <1>2, <1>3, <1>4, <2>2, FlowsSimple
    <2> QED
      BY <1>1, <1>2, <2>1, <2>3 DEF Flowing
  <1> QED
    BY <1>5, <1>6

LEMMA PassiveFlows ==
    ASSUME Reading, Flowing, Plain \/ Throw
    PROVE  Flowing'
  <1>1. open' = open /\ cfg' = cfg /\ choices' = choices /\ odd \subseteq odd'
    BY DEF Plain, Throw
  <1>2. Formed(cfg) /\ Flows(open, cfg, odd, choices)
    BY ReadingFacts DEF Flowing
  <1>3. Flows(open, cfg, odd', choices)
    BY <1>1, <1>2, FlowsStay
  <1> QED
    BY <1>1, <1>3 DEF Flowing

LEMMA ReturnFlows ==
    ASSUME Reading, Reading', Flowing, Return
    PROVE  Flowing'
  <1>1. open' = open /\ choices' = choices /\ Jumps(ReturnBlocks(cfg, live), InSwitch)
    BY DEF Return, Jumps
  <1>2. PICK s \in Seq(Frame), l \in BOOLEAN, fr \in BOOLEAN :
           s = open /\ l = live /\ fr = fresh /\ At(s, cfg, odd, l, fr, heads)
    BY DEF Reading
  <1>3. odd \subseteq odd' /\ Formed(cfg) /\ Formed(cfg') /\ Flows(s, cfg, odd, choices)
    BY <1>1, <1>2, JumpsFacts, ReadingFacts, FormedNext DEF Flowing
  <1>4. Clean(Function(cfg), odd') => l
    BY <1>1, <1>2, JumpsClean
  <1>5. CASE Hidden(s)
    <2>1. cfg' = cfg
      BY <1>1, <1>2, <1>5, JumpsFacts
    <2>2. Flows(s, cfg, odd', choices)
      BY <1>3, FlowsStay
    <2> QED
      BY <1>1, <1>2, <2>1, <2>2 DEF Flowing
  <1>6. CASE ~Hidden(s)
    <2>1. cfg' = ReturnBlocks(cfg, l)
      BY <1>1, <1>2, <1>6, JumpsFacts
    <2>2. Formed(ReturnBlocks(cfg, l))
      BY <1>3, <2>1
    <2>3. Flows(s, ReturnBlocks(cfg, l), odd', choices)
      BY <1>2, <1>3, <1>4, <2>2, FlowsReturn
    <2> QED
      BY <1>1, <1>2, <2>1, <2>3 DEF Flowing
  <1> QED
    BY <1>5, <1>6

\* What a jump does, on a path that goes on.
LEMMA JumpFlows ==
    ASSUME Reading, Reading', Flowing, NEW to, NEW astray, Jumps(JumpBlock(cfg, to, live), astray),
           Unseen \/ cfg.breaks # <<>> \/ cfg.continues # <<>>,
           to = Head(cfg.continues) \/ to = Head(cfg.breaks),
           NEW kinds, Loops \subseteq kinds, NEW i,
           ~astray => Innermost(open, i, kinds) /\ open[i].kind \in Loops
    PROVE  Flows(open, cfg', odd', choices')
  <1>1. PICK s \in Seq(Frame), l \in BOOLEAN, fr \in BOOLEAN :
           s = open /\ l = live /\ fr = fresh /\ At(s, cfg, odd, l, fr, heads)
    BY DEF Reading
  <1>2. choices' = choices
    BY DEF Jumps
  <1>3. odd \subseteq odd' /\ Formed(cfg) /\ Formed(cfg') /\ Flows(s, cfg, odd, choices)
    BY <1>1, JumpsFacts, ReadingFacts, FormedNext DEF Flowing
  <1>4. Clean(Function(cfg), odd') => l /\ ~astray
    BY <1>1, JumpsClean
  <1>5. CASE Hidden(s)
    <2>1. cfg' = cfg
      BY <1>1, <1>5, JumpsFacts
    <2>2. Flows(s, cfg, odd', choices)
      BY <1>3, FlowsStay
    <2> QED
      BY <1>1, <1>2, <2>1, <2>2
  <1>6. CASE ~Hidden(s)
    <2>1. cfg' = JumpBlock(cfg, to, l)
      BY <1>1, <1>6, JumpsFacts
    <2>2. Formed(JumpBlock(cfg, to, l))
      BY <1>3, <2>1
    <2>3. CASE ~astray
      <3>1. Flows(s, JumpBlock(cfg, to, l), odd', choices)
        BY <1>1, <1>3, <1>4, <1>6, <2>2, <2>3, FlowsJump
      <3> QED
        BY <1>1, <1>2, <2>1, <3>1
    <2>4. CASE astray
      <3>1. ~Clean(Function(cfg), odd')
        BY <1>4, <2>4
      <3>2. cfg.breaks # <<>> \/ cfg.continues # <<>>
        BY <1>1, <1>6 DEF Unseen, Hidden
      <3>3. Flows(s, JumpBlock(cfg, to, l), odd', choices)
        BY <1>1, <1>3, <2>2, <3>1, <3>2, FlowsAstray
      <3> QED
        BY <1>1, <1>2, <2>1, <3>3
    <2> QED
      BY <2>3, <2>4
  <1> QED
    BY <1>5, <1>6

LEMMA ContinueFlows ==
    ASSUME Reading, CfgInv', Flowing, Continue
    PROVE  FlowInv'
  <1>1. PICK kinds : kinds = {"while", "for in", "for"}
    OBVIOUS
  <1>2. open' = open /\ Leaves(kinds) # {}
    BY <1>1 DEF Continue
  <1>3. open \in Seq(Frame)
    BY ReadingFacts
  <1>4. PICK i : Innermost(open, i, kinds)
    BY <1>2, <1>3, LeavesInnermost
  <1>5. CASE cfg.continues = <<>> /\ ~Unseen
    BY <1>5 DEF Continue, FlowInv
  <1>6. CASE ~(cfg.continues = <<>> /\ ~Unseen)
    <2>1. ended' = "no" /\ Jumps(JumpBlock(cfg, Head(cfg.continues), live), InSwitch)
      BY <1>6 DEF Continue, Read, Reading
    <2>2. Reading'
      BY <2>1 DEF CfgInv, Reading
    <2>3. PICK to, astray : to = Head(cfg.continues) /\ astray = InSwitch
      OBVIOUS
    <2>4. ~astray => open[i].kind \in Loops
      <3>1. i \in DOMAIN open /\ open[i].kind \in {"while", "for in", "for"}
        <4>1. i \in 1 .. Len(open) /\ open[i].kind \in kinds
          BY <1>4 DEF Innermost
        <4>2. i \in DOMAIN open
          BY <1>3, <4>1
        <4> QED
          BY <1>1, <4>1, <4>2
      <3>2. ~InSwitch => open[i].kind # "for"
        BY <3>1 DEF InSwitch
      <3> QED
        BY <2>3, <3>1, <3>2 DEF Loops
    <2>5. Loops \subseteq kinds /\ (Unseen \/ cfg.breaks # <<>> \/ cfg.continues # <<>>)
      BY <1>1, <1>6 DEF Loops
    <2>6. Jumps(JumpBlock(cfg, to, live), astray)
      BY <2>1, <2>3
    <2>7. Flows(open, cfg', odd', choices')
      BY <1>4, <2>2, <2>3, <2>4, <2>5, <2>6, JumpFlows
    <2> QED
      BY <1>2, <2>1, <2>7 DEF FlowInv, Flowing
  <1> QED
    BY <1>5, <1>6

LEMMA BreakFlows ==
    ASSUME Reading, CfgInv', Flowing, Break
    PROVE  FlowInv'
  <1>1. PICK kinds : kinds = {"while", "for in", "for", "switch"}
    OBVIOUS
  <1>2. PICK i \in Around(kinds) :
           /\ open' = [open EXCEPT ![i].left = @ \cup {IF live THEN "live" ELSE "dead"}]
           /\ IF cfg.breaks = <<>> /\ ~Unseen
              THEN ended' = "error"
              ELSE /\ Jumps(JumpBlock(cfg, Head(cfg.breaks), live), InSwitch \/ i \notin Leaves(kinds))
                   /\ ended' = ended
    BY <1>1 DEF Break
  <1>3. PICK s \in Seq(Frame) : s = open
    BY ReadingFacts
  <1>4. i \in 1 .. Len(s) /\ s[i].kind \in kinds
    BY <1>2, <1>3, AroundInside
  <1>5. PICK x \in {"live", "dead"} : x = IF live THEN "live" ELSE "dead"
    OBVIOUS
  <1>6. PICK f2, t : LeftBy(s[i], x, f2) /\ Replaced(s, i, f2, t) /\ t = open'
    <2>1. PICK f2 : f2 = [s[i] EXCEPT !.left = s[i].left \cup {x}]
      OBVIOUS
    <2>2. open' = [s EXCEPT ![i] = f2]
      BY <1>2, <1>3, <1>5, <2>1
    <2> QED
      BY <2>1, <2>2 DEF LeftBy, Replaced
  <1>7. CASE cfg.breaks = <<>> /\ ~Unseen
    BY <1>2, <1>7 DEF FlowInv
  <1>8. CASE ~(cfg.breaks = <<>> /\ ~Unseen)
    <2>1. PICK to, astray : to = Head(cfg.breaks) /\ astray = (InSwitch \/ i \notin Leaves(kinds))
      OBVIOUS
    <2>2. ended' = "no" /\ Jumps(JumpBlock(cfg, to, live), astray)
      BY <1>2, <1>8, <2>1 DEF Reading
    <2>3. Reading'
      BY <2>2 DEF CfgInv, Reading
    <2>4. ~astray => Innermost(s, i, kinds) /\ s[i].kind \in Loops
      <3>1. ~astray => ~InSwitch /\ i \in Leaves(kinds)
        BY <2>1
      <3>2. ~astray => Innermost(s, i, kinds)
        BY <1>3, <3>1, LeavesInnermost
      <3>3. ~InSwitch => s[i].kind \notin {"for", "switch"}
        BY <1>3, <1>4 DEF InSwitch
      <3>4. s[i].kind \in {"while", "for in", "for", "switch"}
        BY <1>1, <1>4
      <3> QED
        BY <3>1, <3>2, <3>3, <3>4 DEF Loops
    <2>5. Loops \subseteq kinds /\ (Unseen \/ cfg.breaks # <<>> \/ cfg.continues # <<>>)
      BY <1>1, <1>8 DEF Loops
    <2>6. Flows(open, cfg', odd', choices')
      BY <1>3, <2>1, <2>2, <2>3, <2>4, <2>5, JumpFlows
    <2>7. Formed(cfg')
      BY <2>3, FormedNext
    <2>8. Flows(t, cfg', odd', choices')
      BY <1>3, <1>4, <1>6, <2>6, <2>7, FlowsLeft
    <2> QED
      BY <1>6, <2>2, <2>8 DEF FlowInv, Flowing
  <1> QED
    BY <1>7, <1>8

LEMMA OpenIfFlows ==
    ASSUME Reading, Reading', Flowing, NEW cond \in Conditions, NEW hasElse \in BOOLEAN,
           OpenIf(cond, hasElse)
    PROVE  Flowing'
  <1>1. PICK s \in Seq(Frame), l \in BOOLEAN, fr \in BOOLEAN :
           s = open /\ l = live /\ fr = fresh /\ At(s, cfg, odd, l, fr, heads)
    BY DEF Reading
  <1>2. Size(cfg) \in Nat
    BY <1>1, AtFacts, CfgFields
  <1>3. PICK a \in Nat : a = Size(cfg) + 4
    BY <1>2
  <1>4. PICK f : f = [Opened("then") EXCEPT !.cond = cond, !.hasElse = hasElse,
                                            !.after = Size(cfg) + 4]
    OBVIOUS
  <1>5. f \in Frame /\ f.kind = "then" /\ f.hasElse = hasElse /\ f.after = a
    <2>1. f = [Opened("then") EXCEPT !.cond = cond, !.hasElse = hasElse, !.after = a]
      BY <1>3, <1>4
    <2>2. f = OpenedWith("then", cond, hasElse, live, 0, a, 0)
      BY ONLY <2>1 DEF Opened, OpenedWith
    <2>3. live \in BOOLEAN
      BY <1>1
    <2>4. f \in Frame
      BY ONLY <2>2, <2>3, cond \in Conditions, hasElse \in BOOLEAN, a \in Nat DEF OpenedWith, Frame
    <2> QED
      BY <2>2, <2>4 DEF OpenedWith
  <1>6. PICK e : e = hasElse /\ IfFrame(cfg, e, f)
    BY <1>3, <1>5 DEF IfFrame
  <1>7. PICK t : t = <<f>> \o s
    OBVIOUS
  <1>8. /\ open' = t
        /\ Builds(IfBlocks(cfg, cond, hasElse, live), 4, cond, Never(cfg, cond, hasElse))
        /\ Decides(Size(cfg) + 1, cond)
    BY <1>1, <1>4, <1>7 DEF OpenIf, Never
  <1>9. odd \subseteq odd' /\ Formed(cfg) /\ Formed(cfg') /\ Flows(s, cfg, odd, choices)
    BY <1>1, <1>8, BuildsFacts, ReadingFacts, FormedNext DEF Flowing
  <1>10. Clean(Function(cfg), odd') => ~Hidden(open) /\ live /\ cond = "any"
    BY <1>8, BuildsClean
  <1>11. /\ Chosen(choices, choices', Size(cfg) + 1, Clean(Function(cfg), odd'))
         /\ Hidden(open) => choices' = choices
    BY <1>8, <1>10, DecidesChosen
  <1>12. Flows(t, cfg', odd', choices')
    <2>1. CASE Hidden(s)
      <3>1. cfg' = cfg /\ choices' = choices /\ ~Clean(Function(cfg), odd')
        BY <1>1, <1>8, <1>10, <1>11, <2>1, BuildsFacts
      <3>2. Flows(t, cfg, odd', choices)
        BY <1>5, <1>7, <1>9, <2>1, <3>1, FlowsPush
      <3> QED
        BY <3>1, <3>2
    <2>2. CASE ~Hidden(s)
      <3>1. cfg' = IfBlocks(cfg, cond, e, l)
        BY <1>1, <1>6, <1>8, <2>2, BuildsFacts
      <3>2. Formed(IfBlocks(cfg, cond, e, l))
        BY <1>9, <3>1
      <3>3. Clean(Function(cfg), odd') => l /\ cond = "any"
        BY <1>1, <1>10
      <3>4. PICK C2 : C2 = choices' /\ Chosen(choices, C2, Size(cfg) + 1, Clean(Function(cfg), odd'))
        BY <1>11
      <3>5. Flows(t, IfBlocks(cfg, cond, e, l), odd', C2)
        BY <1>1, <1>5, <1>6, <1>7, <1>9, <2>2, <3>2, <3>3, <3>4, FlowsIf
      <3> QED
        BY <3>1, <3>4, <3>5
    <2> QED
      BY <2>1, <2>2
  <1> QED
    BY <1>8, <1>12 DEF Flowing

LEMMA OpenWhileFlows ==
    ASSUME Reading, Reading', Flowing, NEW cond \in Conditions, OpenWhile(cond)
    PROVE  Flowing'
  <1>1. PICK s \in Seq(Frame), l \in BOOLEAN, fr \in BOOLEAN :
           s = open /\ l = live /\ fr = fresh /\ At(s, cfg, odd, l, fr, heads)
    BY DEF Reading
  <1>2. Size(cfg) \in Nat
    BY <1>1, AtFacts, CfgFields
  <1>3. PICK b \in Nat, a \in Nat : b = Size(cfg) + 1 /\ a = Size(cfg) + 3
    BY <1>2
  <1>4. PICK f : f = [Opened("while") EXCEPT !.cond = cond, !.test = Size(cfg) + 1,
                                             !.after = Size(cfg) + 3]
    OBVIOUS
  <1>5. f \in Frame /\ f.kind = "while" /\ f.cond = cond /\ f.left = {} /\ f.test = b /\ f.after = a
    <2>1. f = [Opened("while") EXCEPT !.cond = cond, !.test = b, !.after = a]
      BY <1>3, <1>4
    <2>2. f = OpenedWith("while", cond, FALSE, live, b, a, 0)
      BY ONLY <2>1 DEF Opened, OpenedWith
    <2>3. live \in BOOLEAN
      BY <1>1
    <2>4. f \in Frame
      BY ONLY <2>2, <2>3, cond \in Conditions, b \in Nat, a \in Nat DEF OpenedWith, Frame
    <2> QED
      BY <2>2, <2>4 DEF OpenedWith
  <1>6. WhileFrame(cfg, cond, f)
    BY <1>3, <1>5 DEF WhileFrame
  <1>7. PICK t : t = <<f>> \o s
    OBVIOUS
  <1>8. /\ open' = t
        /\ Builds(WhileBlocks(cfg, cond, live), 3, cond, NeverWhile(cfg, cond))
        /\ Decides(Size(cfg) + 1, cond)
    BY <1>1, <1>4, <1>7 DEF OpenWhile, NeverWhile
  <1>9. odd \subseteq odd' /\ Formed(cfg) /\ Formed(cfg') /\ Flows(s, cfg, odd, choices)
    BY <1>1, <1>8, BuildsFacts, ReadingFacts, FormedNext DEF Flowing
  <1>10. Clean(Function(cfg), odd') => ~Hidden(open) /\ live /\ cond = "any"
    BY <1>8, BuildsClean
  <1>11. /\ Chosen(choices, choices', Size(cfg) + 1, Clean(Function(cfg), odd'))
         /\ Hidden(open) => choices' = choices
    BY <1>8, <1>10, DecidesChosen
  <1>12. Flows(t, cfg', odd', choices')
    <2>1. CASE Hidden(s)
      <3>1. cfg' = cfg /\ choices' = choices /\ ~Clean(Function(cfg), odd')
        BY <1>1, <1>8, <1>10, <1>11, <2>1, BuildsFacts
      <3>2. Flows(t, cfg, odd', choices)
        BY <1>5, <1>7, <1>9, <2>1, <3>1, FlowsPush
      <3> QED
        BY <3>1, <3>2
    <2>2. CASE ~Hidden(s)
      <3>1. cfg' = WhileBlocks(cfg, cond, l)
        BY <1>1, <1>8, <2>2, BuildsFacts
      <3>2. Formed(WhileBlocks(cfg, cond, l))
        BY <1>9, <3>1
      <3>3. Clean(Function(cfg), odd') => l /\ cond = "any"
        BY <1>1, <1>10
      <3>4. PICK C2 : C2 = choices' /\ Chosen(choices, C2, Size(cfg) + 1, Clean(Function(cfg), odd'))
        BY <1>11
      <3>5. Flows(t, WhileBlocks(cfg, cond, l), odd', C2)
        BY <1>1, <1>5, <1>6, <1>7, <1>9, <2>2, <3>2, <3>3, <3>4, FlowsWhile
      <3> QED
        BY <3>1, <3>4, <3>5
    <2> QED
      BY <2>1, <2>2
  <1> QED
    BY <1>8, <1>12 DEF Flowing

LEMMA OpenForInFlows ==
    ASSUME Reading, Reading', Flowing, OpenForIn
    PROVE  Flowing'
  <1>1. PICK s \in Seq(Frame), l \in BOOLEAN, fr \in BOOLEAN :
           s = open /\ l = live /\ fr = fresh /\ At(s, cfg, odd, l, fr, heads)
    BY DEF Reading
  <1>2. PICK n \in Nat : n = Size(AddInstruction(cfg, l))
    <2>1. Formed(cfg)
      BY <1>1, AtFacts
    <2>2. Size(AddInstruction(cfg, l)) = Total(cfg, 0)
      BY <1>1, <2>1, SimpleMade
    <2>3. Total(cfg, 0) \in Nat
      BY <2>1, FirstType
    <2> QED
      BY <2>2, <2>3
  <1>3. PICK b \in Nat, a \in Nat : b = n + 2 /\ a = n + 4
    OBVIOUS
  <1>4. PICK f : f = [Opened("for in") EXCEPT !.test = n + 2, !.after = n + 4]
    OBVIOUS
  <1>5. f \in Frame /\ f.kind = "for in" /\ f.cond = "any" /\ f.left = {} /\ f.test = b /\ f.after = a
    <2>1. f = [Opened("for in") EXCEPT !.test = b, !.after = a]
      BY <1>3, <1>4
    <2>2. f = OpenedWith("for in", "any", FALSE, live, b, a, 0)
      BY ONLY <2>1 DEF Opened, OpenedWith
    <2>3. live \in BOOLEAN
      BY <1>1
    <2>4. f \in Frame
      BY ONLY <2>2, <2>3, b \in Nat, a \in Nat DEF OpenedWith, Frame
    <2> QED
      BY <2>2, <2>4 DEF OpenedWith
  <1>6. PICK m : m = Size(AddInstruction(cfg, l)) /\ ForInFrame(m, f)
    BY <1>2, <1>3, <1>5 DEF ForInFrame
  <1>7. PICK t : t = <<f>> \o s
    OBVIOUS
  <1>8. /\ open' = t
        /\ Builds(ForInBlocks(cfg, live), 0, "any", {})
        /\ Decides(m + 2, "any")
    BY <1>1, <1>2, <1>4, <1>6, <1>7 DEF OpenForIn
  <1>9. odd \subseteq odd' /\ Formed(cfg) /\ Formed(cfg') /\ Flows(s, cfg, odd, choices)
    BY <1>1, <1>8, BuildsFacts, ReadingFacts, FormedNext DEF Flowing
  <1>10. Clean(Function(cfg), odd') => ~Hidden(open) /\ live
    BY <1>8, BuildsClean
  <1>11. /\ Chosen(choices, choices', m + 2, Clean(Function(cfg), odd'))
         /\ Hidden(open) => choices' = choices
    BY <1>8, <1>10, DecidesChosen
  <1>12. Flows(t, cfg', odd', choices')
    <2>1. CASE Hidden(s)
      <3>1. cfg' = cfg /\ choices' = choices /\ ~Clean(Function(cfg), odd')
        BY <1>1, <1>8, <1>10, <1>11, <2>1, BuildsFacts
      <3>2. Flows(t, cfg, odd', choices)
        BY <1>5, <1>7, <1>9, <2>1, <3>1, FlowsPush
      <3> QED
        BY <3>1, <3>2
    <2>2. CASE ~Hidden(s)
      <3>1. cfg' = ForInBlocks(cfg, l)
        BY <1>1, <1>8, <2>2, BuildsFacts
      <3>2. Formed(ForInBlocks(cfg, l))
        BY <1>9, <3>1
      <3>3. Clean(Function(cfg), odd') => l
        BY <1>1, <1>10
      <3>4. PICK C2 : C2 = choices' /\ Chosen(choices, C2, m + 2, Clean(Function(cfg), odd'))
        BY <1>11
      <3>5. Flows(t, ForInBlocks(cfg, l), odd', C2)
        BY <1>1, <1>5, <1>6, <1>7, <1>9, <2>2, <3>2, <3>3, <3>4, FlowsForIn
      <3> QED
        BY <3>1, <3>4, <3>5
    <2> QED
      BY <2>1, <2>2
  <1> QED
    BY <1>8, <1>12 DEF Flowing

\* The beginning of a statement that is passed through.
LEMMA PassiveBeginFlows ==
    ASSUME Reading, Flowing, NEW kind \in {"for", "switch"}, NEW f, f = Opened(kind),
           open' = <<f>> \o open, cfg' = cfg, odd \subseteq odd', choices' = choices
    PROVE  Flowing'
  <1>1. PICK s \in Seq(Frame), l \in BOOLEAN : s = open /\ l = live
    BY ReadingFacts
  <1>2. f = OpenedWith(kind, "any", FALSE, live, 0, 0, 0)
    BY ONLY f = Opened(kind) DEF Opened, OpenedWith
  <1>3. f \in Frame /\ f.kind = kind
    <2>1. live \in BOOLEAN
      BY <1>1
    <2>2. f \in Frame
      BY ONLY <1>2, <2>1, kind \in {"for", "switch"} DEF OpenedWith, Frame
    <2> QED
      BY <1>2, <2>2 DEF OpenedWith
  <1>4. PICK t : t = <<f>> \o s
    OBVIOUS
  <1>5. Passive(f) /\ f.kind # "function" /\ Formed(cfg) /\ Flows(s, cfg, odd, choices)
    BY <1>1, <1>3, ReadingFacts DEF Passive, Flowing
  <1>6. Flows(t, cfg, odd', choices)
    BY <1>1, <1>3, <1>4, <1>5, FlowsPush
  <1> QED
    BY <1>1, <1>4, <1>6 DEF Flowing

LEMMA OpenSwitchFlows ==
    ASSUME Reading, Flowing, OpenSwitch
    PROVE  Flowing'
  <1>1. PICK f, kind : f = Opened(kind) /\ kind = "switch"
    OBVIOUS
  <1>2. open' = <<f>> \o open /\ cfg' = cfg /\ odd \subseteq odd' /\ choices' = choices
    BY <1>1 DEF OpenSwitch
  <1> QED
    BY <1>1, <1>2, PassiveBeginFlows

LEMMA OpenForFlows ==
    ASSUME Reading, Flowing, OpenFor
    PROVE  Flowing'
  <1>1. PICK f, kind : f = Opened(kind) /\ kind = "for"
    OBVIOUS
  <1>2. open' = <<f>> \o open /\ cfg' = cfg /\ odd \subseteq odd' /\ choices' = choices
    BY <1>1 DEF OpenFor
  <1> QED
    BY <1>1, <1>2, PassiveBeginFlows

LEMMA OpenFunctionFlows ==
    ASSUME Reading, Reading', Flowing, OpenFunction
    PROVE  Flowing'
  <1>1. PICK s \in Seq(Frame), l \in BOOLEAN, fr \in BOOLEAN :
           s = open /\ l = live /\ fr = fresh /\ At(s, cfg, odd, l, fr, heads)
    BY DEF Reading
  <1>2. Formed(cfg)
    BY <1>1, AtFacts
  <1>3. PICK g, y : g = AddInstruction(cfg, TRUE) /\ y = TRUE
    OBVIOUS
  <1>4. PICK p \in Nat : p = g.current
    <2>1. Made(cfg, g, {}, {<<First(cfg, 0), TRUE>>})
      BY <1>2, <1>3, SimpleMade
    <2>2. g \in Cfgs
      BY <2>1 DEF Made
    <2> QED
      BY <2>2, CfgFields
  <1>5. PICK f : f = [Opened("function") EXCEPT !.prev = p]
    OBVIOUS
  <1>6. f \in Frame /\ f.kind = "function" /\ f.prev = p
    <2>1. f = OpenedWith("function", "any", FALSE, live, 0, 0, p)
      BY ONLY <1>5 DEF Opened, OpenedWith
    <2>2. live \in BOOLEAN
      BY <1>1
    <2>3. f \in Frame
      BY ONLY <2>1, <2>2, p \in Nat DEF OpenedWith, Frame
    <2> QED
      BY <2>1, <2>3 DEF OpenedWith
  <1>7. PICK t : t = <<f>> \o s
    OBVIOUS
  <1>8. /\ open' = t /\ choices' = choices
        /\ odd' = odd \cup Tags(Unseen, "unseen") \cup Tags(~live, "hoisted")
        /\ cfg' = IF Unseen THEN cfg ELSE BeginFunction(g)
    BY <1>1, <1>3, <1>4, <1>5, <1>7 DEF OpenFunction
  <1>9. odd \subseteq odd' /\ Flows(s, cfg, odd, choices)
    BY <1>1, <1>8 DEF Flowing
  <1>10. Unseen <=> Hidden(s)
    BY <1>1 DEF Unseen, Hidden
  <1>11. Clean(Function(cfg), odd') => ~Unseen /\ live
    <2> SUFFICES ASSUME Clean(Function(cfg), odd')
                 PROVE  ~Unseen /\ live
      OBVIOUS
    <2>1. \A what : <<Function(cfg), what>> \notin odd'
      BY DEF Clean
    <2>2. Tags(Unseen, "unseen") \subseteq odd' /\ Tags(~live, "hoisted") \subseteq odd'
      BY <1>8
    <2>3. /\ Unseen => <<Function(cfg), "unseen">> \in odd'
          /\ ~live => <<Function(cfg), "hoisted">> \in odd'
      BY <2>2 DEF Tags, Odd
    <2> QED
      BY <2>1, <2>3
  <1>12. Flows(t, cfg', odd', choices)
    <2>1. CASE Hidden(s)
      <3>1. ~Clean(Function(cfg), odd')
        BY <1>10, <1>11, <2>1
      <3>2. Flows(t, cfg, odd', choices)
        BY <1>1, <1>2, <1>6, <1>7, <1>9, <2>1, <3>1, FlowsPush
      <3> QED
        BY <1>8, <1>10, <2>1, <3>2
    <2>2. CASE ~Hidden(s)
      <3>1. l \/ Excused(Function(cfg), odd')
        <4>1. CASE ~live
          <5>1. <<Function(cfg), "hoisted">> \in odd'
            BY <1>8, <4>1 DEF Tags, Odd
          <5> QED
            BY <5>1 DEF Excused, Excuses
        <4> QED
          BY <1>1, <4>1
      <3>2. PICK no : no = FALSE
        OBVIOUS
      <3>3. Follows(s, cfg, odd', y, no)
        BY <1>1, <1>9, <3>1, <3>2, QuietFollows
      <3>4. At(s, cfg, odd', y, no, heads)
        BY <1>1, <1>9, <3>3, AtStay
      <3>5. y \in BOOLEAN /\ no \in BOOLEAN /\ odd' \subseteq odd'
        BY <1>3, <3>2
      <3>6. At(s, AddInstruction(cfg, y), odd', y, FALSE, Heads(heads, no, First(cfg, 0)))
        BY <2>2, <3>4, <3>5, AtSimple
      <3>7. PICK hs2, no2 : At(s, g, odd', y, no2, hs2)
        BY <1>3, <3>6
      <3>8. Formed(AddInstruction(cfg, y))
        BY <1>3, <3>7, AtFacts
      <3>9. Clean(Function(cfg), odd') => l
        BY <1>1, <1>11
      <3>10. Flows(s, AddInstruction(cfg, y), odd', choices)
        BY <1>1, <1>9, <3>5, <3>8, <3>9, FlowsSimple
      <3>11. FunctionFrame(g, f) /\ Flows(s, g, odd', choices)
        BY <1>3, <1>4, <1>6, <3>10 DEF FunctionFrame
      <3>12. Flows(t, BeginFunction(g), odd', choices)
        BY <1>6, <1>7, <2>2, <3>7, <3>11, FlowsFunction
      <3> QED
        BY <1>8, <1>10, <2>2, <3>12
    <2> QED
      BY <2>1, <2>2
  <1> QED
    BY <1>8, <1>12 DEF Flowing

\* The end of a statement that builds nothing.
LEMMA PassiveEndFlows ==
    ASSUME Reading, Flowing, open # <<>>, Passive(Head(open)), open' = Tail(open),
           cfg' = cfg, odd \subseteq odd', choices' = choices
    PROVE  Flowing'
  <1>1. PICK f, t : f = Head(open) /\ t = Tail(open)
    OBVIOUS
  <1>2. PICK s \in Seq(Frame) : s = open
    BY ReadingFacts
  <1>3. /\ s # <<>> /\ Passive(f) /\ Formed(cfg) /\ Flows(s, cfg, odd, choices)
        /\ f = Head(s) /\ t = Tail(s) /\ f.kind \notin Loops
    BY <1>1, <1>2, ReadingFacts DEF Flowing, Passive, Loops
  <1>4. Flows(t, cfg, odd', choices)
    BY <1>2, <1>3, FlowsPop
  <1> QED
    BY <1>1, <1>4 DEF Flowing

LEMMA PassiveEnds ==
    ASSUME Reading, Flowing, EndElse \/ EndSwitch \/ EndAgain
    PROVE  Flowing'
  <1>1. open # <<>> /\ Passive(Head(open)) /\ open' = Tail(open) /\ cfg' = cfg /\ choices' = choices
    BY DEF EndElse, EndSwitch, EndAgain, Passive
  <1>2. odd \subseteq odd'
    BY DEF EndElse, EndSwitch, EndAgain
  <1> QED
    BY <1>1, <1>2, PassiveEndFlows

LEMMA NextCaseFlows ==
    ASSUME Reading, Flowing, NextCase
    PROVE  Flowing'
  <1>1. open' = open /\ cfg' = cfg /\ choices' = choices /\ odd \subseteq odd'
    BY DEF NextCase
  <1>2. Formed(cfg) /\ Flows(open, cfg, odd, choices)
    BY ReadingFacts DEF Flowing
  <1>3. Flows(open, cfg, odd', choices)
    BY <1>1, <1>2, FlowsStay
  <1> QED
    BY <1>1, <1>3 DEF Flowing

LEMMA EndLoopFlows ==
    ASSUME Reading, Reading', Flowing, EndLoop
    PROVE  Flowing'
  <1>1. PICK s \in Seq(Frame), l \in BOOLEAN, fr \in BOOLEAN :
           s = open /\ l = live /\ fr = fresh /\ At(s, cfg, odd, l, fr, heads)
    BY DEF Reading
  <1>2. PICK f, t : f = Head(s) /\ t = Tail(s)
    OBVIOUS
  <1>3. /\ s # <<>> /\ f.kind \in Loops /\ open' = t /\ odd' = odd /\ choices' = choices
        /\ cfg' = IF Unseen THEN cfg ELSE LoopEnds(cfg, f.test, f.after)
    BY <1>1, <1>2 DEF EndLoop, Loops
  <1>4. Formed(cfg) /\ Formed(cfg') /\ Flows(s, cfg, odd, choices)
    BY <1>1, ReadingFacts, FormedNext DEF Flowing
  <1>5. (Unseen <=> Hidden(s)) /\ (Hidden(s) <=> Hidden(t))
    BY <1>1, <1>2, <1>3, HiddenPopped DEF Unseen, Hidden, Loops
  <1>6. PICK o2 : o2 = odd /\ odd \subseteq o2
    OBVIOUS
  <1>7. Flows(t, cfg', odd, choices)
    <2>1. CASE Hidden(s)
      <3>1. Clean(Function(cfg), o2) => ~HasAfter(cfg, cfg.current)
        BY <1>1, <1>6, <2>1, HiddenReady
      <3>2. Flows(t, cfg, o2, choices)
        BY <1>2, <1>3, <1>4, <1>5, <1>6, <2>1, <3>1, FlowsPop
      <3> QED
        BY <1>3, <1>5, <1>6, <2>1, <3>2
    <2>2. CASE ~Hidden(s)
      <3>1. cfg' = LoopEnds(cfg, f.test, f.after)
        BY <1>3, <1>5, <2>2
      <3>2. Formed(LoopEnds(cfg, f.test, f.after))
        BY <1>4, <3>1
      <3>3. Flows(t, LoopEnds(cfg, f.test, f.after), odd, choices)
        BY <1>1, <1>2, <1>3, <1>4, <2>2, <3>2, FlowsLoop
      <3> QED
        BY <3>1, <3>3
    <2> QED
      BY <2>1, <2>2
  <1> QED
    BY <1>3, <1>7 DEF Flowing

LEMMA EndThenFlows ==
    ASSUME Reading, Reading', Flowing, EndThen
    PROVE  Flowing'
  <1>1. PICK s \in Seq(Frame), l \in BOOLEAN, fr \in BOOLEAN :
           s = open /\ l = live /\ fr = fresh /\ At(s, cfg, odd, l, fr, heads)
    BY DEF Reading
  <1>2. PICK f, t, f2 : f = Head(s) /\ t = Tail(s) /\ f2 = [f EXCEPT !.kind = "else", !.other = live]
    OBVIOUS
  <1>3. /\ s # <<>> /\ f.kind = "then" /\ odd' = odd /\ choices' = choices
        /\ cfg' = IF Unseen THEN cfg ELSE IfEnds(cfg, f.hasElse, f.after)
        /\ f.hasElse => open' = <<f2>> \o t
        /\ ~f.hasElse => open' = t
    BY <1>1, <1>2 DEF EndThen
  <1>4. f \in Frame /\ t \in Seq(Frame)
    BY <1>2, <1>3, OuterPopped
  <1>5. f2 \in Frame /\ f2.kind = "else"
    <2>1. live \in BOOLEAN
      BY <1>1
    <2> QED
      BY ONLY <1>2, <1>4, <2>1 DEF Frame
  <1>6. Formed(cfg) /\ Formed(cfg') /\ Flows(s, cfg, odd, choices)
    BY <1>1, ReadingFacts, FormedNext DEF Flowing
  <1>7. (Unseen <=> Hidden(s)) /\ (Hidden(s) <=> Hidden(t)) /\ f.kind \notin Loops
    BY <1>1, <1>2, <1>3, HiddenPopped DEF Unseen, Hidden, Loops
  <1>8. PICK o2 : o2 = odd /\ odd \subseteq o2
    OBVIOUS
  <1>9. Flows(t, cfg', odd, choices)
    <2>1. CASE Hidden(s)
      <3>1. Flows(t, cfg, o2, choices)
        BY <1>2, <1>3, <1>6, <1>7, <1>8, <2>1, FlowsPop
      <3> QED
        BY <1>3, <1>7, <1>8, <2>1, <3>1
    <2>2. CASE ~Hidden(s)
      <3>1. cfg' = IfEnds(cfg, f.hasElse, f.after)
        BY <1>3, <1>7, <2>2
      <3>2. Formed(IfEnds(cfg, f.hasElse, f.after))
        BY <1>6, <3>1
      <3>3. Flows(t, IfEnds(cfg, f.hasElse, f.after), odd, choices)
        BY <1>1, <1>2, <1>3, <1>6, <2>2, <3>2, FlowsThen
      <3> QED
        BY <3>1, <3>3
    <2> QED
      BY <2>1, <2>2
  <1>10. CASE ~f.hasElse
    BY <1>3, <1>9, <1>10 DEF Flowing
  <1>11. CASE f.hasElse
    <2>1. PICK u, h : u = <<f2>> \o t /\ h = cfg'
      OBVIOUS
    <2>2. Passive(f2) /\ f2.kind # "function" /\ Formed(h) /\ Flows(t, h, odd, choices)
      BY <1>5, <1>6, <1>9, <2>1 DEF Passive
    <2>3. Flows(u, h, o2, choices)
      BY <1>4, <1>5, <1>8, <2>1, <2>2, FlowsPush
    <2> QED
      BY <1>3, <1>8, <1>11, <2>1, <2>3 DEF Flowing
  <1> QED
    BY <1>10, <1>11

LEMMA EndInnerFunctionFlows ==
    ASSUME Reading, Reading', Flowing, EndInnerFunction
    PROVE  Flowing'
  <1>1. PICK s \in Seq(Frame), l \in BOOLEAN, fr \in BOOLEAN :
           s = open /\ l = live /\ fr = fresh /\ At(s, cfg, odd, l, fr, heads)
    BY DEF Reading
  <1>2. PICK f, t : f = Head(s) /\ t = Tail(s)
    OBVIOUS
  <1>3. s # <<>>
    BY <1>1 DEF EndInnerFunction
  <1>4. /\ f.kind = "function" /\ open' = t /\ odd' = odd /\ choices' = choices
        /\ cfg' = IF Unseen THEN cfg ELSE EndFunction(cfg, f.prev)
    BY <1>1, <1>2 DEF EndInnerFunction
  <1>5. Formed(cfg) /\ Formed(cfg') /\ Flows(s, cfg, odd, choices)
    BY <1>1, ReadingFacts, FormedNext DEF Flowing
  <1>6. (Unseen <=> Hidden(s)) /\ (Hidden(s) <=> Hidden(t)) /\ f.kind \notin Loops
    BY <1>1, <1>2, <1>3, <1>4, HiddenPopped DEF Unseen, Hidden, Loops
  <1>7. PICK o2 : o2 = odd /\ odd \subseteq o2
    OBVIOUS
  <1>8. Flows(t, cfg', odd, choices)
    <2>1. CASE Hidden(s)
      <3>1. Flows(t, cfg, o2, choices)
        BY <1>2, <1>3, <1>5, <1>6, <1>7, <2>1, FlowsPop
      <3> QED
        BY <1>4, <1>6, <1>7, <2>1, <3>1
    <2>2. CASE ~Hidden(s)
      <3>1. cfg' = EndFunction(cfg, f.prev)
        BY <1>4, <1>6, <2>2
      <3>2. Formed(EndFunction(cfg, f.prev))
        BY <1>5, <3>1
      <3>3. Flows(t, EndFunction(cfg, f.prev), odd, choices)
        BY <1>1, <1>2, <1>3, <1>4, <1>5, <2>2, <3>2, FlowsFunctionEnd
      <3> QED
        BY <3>1, <3>3
    <2> QED
      BY <2>1, <2>2
  <1> QED
    BY <1>4, <1>8 DEF Flowing

LEMMA EndDirectFunctionFlows ==
    ASSUME Reading, Reading', Flowing, EndDirectFunction
    PROVE  Flowing'
  <1>1. PICK s \in Seq(Frame), l \in BOOLEAN, fr \in BOOLEAN :
           s = open /\ l = live /\ fr = fresh /\ At(s, cfg, odd, l, fr, heads)
    BY DEF Reading
  <1>2. PICK f, t, f2 : f = Head(s) /\ t = Tail(s) /\ f2 = [f EXCEPT !.kind = "again"]
    OBVIOUS
  <1>3. Len(s) = 1 /\ s # <<>>
    <2>1. Len(s) = 1
      BY <1>1 DEF EndDirectFunction
    <2> QED
      BY <2>1, EmptySeq
  <1>4. /\ f.kind = "function" /\ open' = <<f2>> /\ odd \subseteq odd' /\ choices' = choices
        /\ cfg' = EndFunction(cfg, f.prev)
    BY <1>1, <1>2 DEF EndDirectFunction
  <1>5. f \in Frame /\ t \in Seq(Frame)
    BY <1>2, <1>3, OuterPopped
  <1>6. t = <<>>
    <2>1. Len(t) = 0
      BY <1>2, <1>3, HeadTailProperties
    <2> QED
      BY <1>5, <2>1, EmptySeq
  <1>7. f2 \in Frame /\ f2.kind = "again"
    BY ONLY <1>2, <1>5 DEF Frame
  <1>8. ~Hidden(s)
    BY <1>2, <1>3, <1>4, <1>6, HiddenPopped DEF Hidden
  <1>9. Formed(cfg) /\ Formed(cfg') /\ Flows(s, cfg, odd, choices)
    BY <1>1, ReadingFacts, FormedNext DEF Flowing
  <1>10. PICK h : h = cfg'
    OBVIOUS
  <1>11. Formed(h) /\ Flows(t, h, odd, choices)
    <2>1. Formed(EndFunction(cfg, f.prev))
      BY <1>4, <1>9
    <2>2. Flows(t, EndFunction(cfg, f.prev), odd, choices)
      BY <1>1, <1>2, <1>3, <1>4, <1>8, <1>9, <2>1, FlowsFunctionEnd
    <2> QED
      BY <1>4, <1>9, <1>10, <2>2
  <1>12. PICK u : u = <<f2>> \o t
    OBVIOUS
  <1>13. open' = u
    <2>1. <<f2>> \in Seq(Frame)
      BY <1>7
    <2>2. PICK one \in Seq(Frame) : one = <<f2>>
      BY <2>1
    <2>3. one \o <<>> = one
      BY ConcatEmptySeq
    <2> QED
      BY <1>4, <1>6, <1>12, <2>2, <2>3
  <1>14. Passive(f2) /\ f2.kind # "function"
    BY <1>7 DEF Passive
  <1>15. Flows(u, h, odd', choices)
    BY <1>4, <1>5, <1>7, <1>11, <1>12, <1>14, FlowsPush
  <1> QED
    BY <1>4, <1>10, <1>13, <1>15 DEF Flowing

LEMMA FinishFlows ==
    ASSUME Reading, CfgInv', Flowing, Finish
    PROVE  FlowInv'
  <1>1. /\ open = <<>> /\ odd' = odd /\ choices' = choices
        /\ ended' = "done" /\ cfg' = AddEdge(cfg, cfg.current, End(cfg, 1))
    BY DEF Finish
  <1>2. PICK nest : nest = Outer(open)
    OBVIOUS
  <1>3. PICK ctx : Walk(nest, ctx, cfg, odd, live, fresh, heads)
    BY <1>2 DEF Reading, At
  <1>4. nest = <<>>
    <2>1. open \in Seq(Frame)
      BY DEF Reading
    <2>2. nest \in Seq(Frame) /\ Len(nest) = Len(open)
      BY <1>2, <2>1, OuterType
    <2>3. Len(nest) = 0
      BY <1>1, <2>2
    <2> QED
      BY <2>2, <2>3, EmptySeq
  <1>5. PICK h : h = cfg'
    OBVIOUS
  <1>6. h = AddEdge(cfg, cfg.current, End(cfg, 1))
    BY <1>1, <1>5
  <1>7. Flow(nest, cfg, odd, choices)
    BY <1>2 DEF Flowing, Flows
  <1>8. Formed(h)
    BY <1>3, <1>4, <1>6, FinishStep
  <1>9. Counts(nest, h, odd, choices) /\ HasAfter(h, h.current)
    BY <1>3, <1>4, <1>6, <1>7, <1>8, FinishFlow
  <1>10. Counted'
    BY <1>1, <1>4, <1>5, <1>9 DEF Counted
  <1> QED
    BY <1>1, <1>10 DEF FlowInv

LEMMA InitFlows == Init => FlowInv
  <1> SUFFICES ASSUME Init
               PROVE  FlowInv
    OBVIOUS
  <1>1. PICK h : h = cfg /\ h = BeginFunction(Empty)
    BY DEF Init
  <1>2. PICK nest : nest = Outer(open)
    OBVIOUS
  <1>3. Len(nest) = 0
    <2>1. open \in Seq(Frame) /\ Len(open) = 0
      BY DEF Init
    <2> QED
      BY <1>2, <2>1, OuterType
  <1>4. choices = {} /\ ended = "no"
    BY DEF Init
  <1>5. Flow(nest, h, odd, choices)
    BY <1>1, <1>3, <1>4, BeginningFlow
  <1> QED
    BY <1>1, <1>2, <1>4, <1>5 DEF FlowInv, Flowing, Flows

LEMMA NextFlows == CfgInv /\ FlowInv /\ CfgInv' /\ [Next]_vars => FlowInv'
  <1> SUFFICES ASSUME CfgInv, FlowInv, CfgInv', [Next]_vars
               PROVE  FlowInv'
    OBVIOUS
  <1>1. CASE UNCHANGED vars
    BY <1>1 DEF FlowInv, Flowing, Counted, vars
  <1>2. CASE Next
    <2>1. ended = "no"
      BY <1>2 DEF Next, Simple, Plain, Throw, Return, Break, Continue, ConditionPanics, OpenWhile,
                  OpenIf, OpenForIn, OpenFor, OpenSwitch, OpenFunction, EndThen, EndElse, EndLoop, NextCase, EndSwitch, EndInnerFunction,
                  EndDirectFunction, EndAgain, Finish, Read
    <2>2. Reading /\ Flowing
      BY <2>1 DEF CfgInv, FlowInv, Reading
    <2>3. ASSUME Reading', Flowing'
          PROVE  FlowInv'
      BY <2>3 DEF Reading, FlowInv
    <2>4. CASE Simple \/ Plain \/ Throw \/ Return
      <3>1. Reading'
        BY <2>2, <2>4, SimpleKeeps, PlainKeeps, ThrowKeeps, ReturnKeeps
      <3>2. Flowing'
        BY <2>2, <2>4, <3>1, SimpleFlows, PassiveFlows, ReturnFlows
      <3> QED
        BY <2>3, <3>1, <3>2
    <2>5. CASE Break \/ Continue
      BY <2>2, <2>5, BreakFlows, ContinueFlows
    <2>6. ASSUME NEW cond \in Conditions, OpenWhile(cond)
          PROVE  FlowInv'
      <3>1. Reading'
        BY <2>2, <2>6, OpenWhileKeeps
      <3>2. Flowing'
        BY <2>2, <2>6, <3>1, OpenWhileFlows
      <3> QED
        BY <2>3, <3>1, <3>2
    <2>7. ASSUME NEW cond \in Conditions, NEW hasElse \in BOOLEAN, OpenIf(cond, hasElse)
          PROVE  FlowInv'
      <3>1. Reading'
        BY <2>2, <2>7, OpenIfKeeps
      <3>2. Flowing'
        BY <2>2, <2>7, <3>1, OpenIfFlows
      <3> QED
        BY <2>3, <3>1, <3>2
    <2>8. CASE OpenForIn \/ OpenFor \/ OpenSwitch \/ OpenFunction
      <3>1. Reading'
        BY <2>2, <2>8, OpenForInKeeps, OpenForKeeps, OpenSwitchKeeps, OpenFunctionKeeps
      <3>2. Flowing'
        BY <2>2, <2>8, <3>1, OpenForInFlows, OpenForFlows, OpenSwitchFlows, OpenFunctionFlows
      <3> QED
        BY <2>3, <3>1, <3>2
    <2>9. CASE EndThen \/ EndElse \/ EndLoop
      <3>1. Reading'
        BY <2>2, <2>9, EndThenKeeps, EndElseKeeps, EndLoopKeeps
      <3>2. Flowing'
        BY <2>2, <2>9, <3>1, EndThenFlows, PassiveEnds, EndLoopFlows
      <3> QED
        BY <2>3, <3>1, <3>2
    <2>10. CASE NextCase \/ EndSwitch \/ EndAgain
      <3>1. Reading'
        BY <2>2, <2>10, NextCaseKeeps, EndSwitchKeeps, EndAgainKeeps
      <3>2. Flowing'
        BY <2>2, <2>10, NextCaseFlows, PassiveEnds
      <3> QED
        BY <2>3, <3>1, <3>2
    <2>11. CASE EndInnerFunction \/ EndDirectFunction
      <3>1. Reading'
        BY <2>2, <2>11, EndInnerFunctionKeeps, EndDirectFunctionKeeps
      <3>2. Flowing'
        BY <2>2, <2>11, <3>1, EndInnerFunctionFlows, EndDirectFunctionFlows
      <3> QED
        BY <2>3, <3>1, <3>2
    <2>12. CASE Finish
      BY <2>2, <2>12, FinishFlows
    <2>13. CASE ConditionPanics
      <3>1. ended' = "error"
        BY <2>13 DEF ConditionPanics
      <3> QED
        BY <3>1 DEF FlowInv
    <2> QED
      BY <1>2, <2>4, <2>5, <2>6, <2>7, <2>8, <2>9, <2>10, <2>11, <2>12, <2>13 DEF Next
  <1> QED
    BY <1>1, <1>2

\* While a file is read, every block of a function with nothing odd in it that
\* an edge leads to has one edge from it, or two if something is decided there,
\* unless the walk has still to come back to it; and an edge leads to it from
\* a block that GetCfg made before it.
THEOREM FlowHolds == Spec => [](CfgInv /\ FlowInv)
  <1>1. Init => CfgInv /\ FlowInv
    BY InitKeeps, InitFlows
  <1>2. CfgInv /\ FlowInv /\ [Next]_vars => (CfgInv /\ FlowInv)'
    BY NextKeeps, NextFlows
  <1> QED
    BY <1>1, <1>2, PTL DEF Spec

-----------------------------------------------------------------------------
(* What is met from the start of a function.                               *)

\* A set of numbers up to n that has 0, and with each number the next, has all.
LEMMA UpTo ==
    ASSUME NEW n \in Nat, NEW T, 0 \in T, \A i \in 1 .. n : i - 1 \in T => i \in T
    PROVE  \A i \in 0 .. n : i \in T
  <1> DEFINE rest == {i \in 0 .. n : i \notin T}
  <1>1. rest \in SUBSET Nat
    OBVIOUS
  <1>2. rest = {}
    <2> SUFFICES ASSUME rest # {} PROVE FALSE
      OBVIOUS
    <2>1. PICK m \in rest : \A y \in rest : <<y, m>> \notin OpToRel(<, Nat)
      <3> HIDE DEF rest
      <3> QED
        BY <1>1, NatLessThanWellFounded, WFMin
    <2>2. m \in 1 .. n /\ m \notin T
      OBVIOUS
    <2>3. m - 1 \in 0 .. n /\ m - 1 \in Nat /\ m - 1 < m /\ m \in Nat
      BY <2>2
    <2>4. m - 1 \notin T
      BY <2>2, <2>3
    <2>5. m - 1 \in rest
      BY <2>3, <2>4
    <2> HIDE DEF rest
    <2> QED
      BY <2>1, <2>3, <2>5 DEF OpToRel
  <1> QED
    BY <1>2

\* The way over k edges.
Leading(E, a, x, k, p) ==
    /\ p \in [0 .. k -> Nat]
    /\ p[0] = a /\ p[k] = x
    /\ \A i \in 1 .. k : <<p[i - 1], p[i]>> \in E

\* What is met over n edges at most.
Met(E, a, n) == {x \in Nat : \E k \in 0 .. n : \E p : Leading(E, a, x, k, p)}

After(E, some) == some \cup {e[2] : e \in {d \in E : d[1] \in some}}

LEMMA MetNone ==
    ASSUME NEW E, NEW a \in Nat
    PROVE  Met(E, a, 0) = {a}
  <1>1. ASSUME NEW x \in Met(E, a, 0)
        PROVE  x = a
    <2>1. PICK k \in 0 .. 0 : \E p : Leading(E, a, x, k, p)
      BY <1>1 DEF Met
    <2>2. k = 0
      BY <2>1
    <2> QED
      BY <2>1, <2>2 DEF Leading
  <1>2. a \in Met(E, a, 0)
    <2>1. PICK p : p = [i \in 0 .. 0 |-> a]
      OBVIOUS
    <2>2. p \in [0 .. 0 -> Nat] /\ p[0] = a /\ 1 .. 0 = {} /\ 0 \in 0 .. 0
      BY <2>1
    <2>3. Leading(E, a, a, 0, p)
      BY <2>2 DEF Leading
    <2> QED
      BY <2>2, <2>3 DEF Met
  <1> QED
    BY <1>1, <1>2

\* A way over an edge more.
LEMMA LongerWay ==
    ASSUME NEW E, NEW a \in Nat, NEW x \in Nat, NEW k \in Nat, NEW p, Leading(E, a, x, k, p),
           NEW y \in Nat, <<x, y>> \in E
    PROVE  \E q : Leading(E, a, y, k + 1, q)
  <1>1. PICK m \in Nat : m = k + 1
    OBVIOUS
  <1>2. PICK q : q = [i \in 0 .. m |-> IF i = m THEN y ELSE p[i]]
    OBVIOUS
  <1>3. p \in [0 .. k -> Nat] /\ p[0] = a /\ p[k] = x /\ \A i \in 1 .. k : <<p[i - 1], p[i]>> \in E
    BY DEF Leading
  <1>4. /\ q[m] = y /\ m \in 0 .. m
        /\ \A i \in 0 .. k : i \in 0 .. m /\ i # m /\ q[i] = p[i]
    BY <1>1, <1>2
  <1>5. q \in [0 .. m -> Nat]
    <2>1. \A i \in 0 .. m : i = m \/ i \in 0 .. k
      BY <1>1
    <2>2. \A i \in 0 .. m : (IF i = m THEN y ELSE p[i]) \in Nat
      BY <1>3, <2>1
    <2> QED
      BY <1>2, <2>2
  <1>6. q[0] = a
    BY <1>3, <1>4
  <1>7. ASSUME NEW i \in 1 .. m
        PROVE  <<q[i - 1], q[i]>> \in E
    <2>1. CASE i = m
      <3>1. i - 1 = k /\ k \in 0 .. k
        BY <1>1, <2>1
      <3>2. q[i - 1] = x /\ q[i] = y
        BY <1>3, <1>4, <2>1, <3>1
      <3> QED
        BY <3>2
    <2>2. CASE i # m
      <3>1. i \in 1 .. k /\ i \in 0 .. k /\ i - 1 \in 0 .. k
        BY <1>1, <1>7, <2>2
      <3>2. q[i - 1] = p[i - 1] /\ q[i] = p[i]
        BY <1>4, <3>1
      <3> QED
        BY <1>3, <3>1, <3>2
    <2> QED
      BY <2>1, <2>2
  <1>8. Leading(E, a, y, m, q)
    BY <1>4, <1>5, <1>6, <1>7 DEF Leading
  <1> QED
    BY <1>1, <1>8

\* A way over an edge less.
LEMMA ShorterWay ==
    ASSUME NEW E, E \subseteq Nat \X Nat, NEW a \in Nat, NEW x \in Nat, NEW k \in Nat, k # 0,
           NEW p, Leading(E, a, x, k, p)
    PROVE  \E y \in Nat : <<y, x>> \in E /\ \E q : Leading(E, a, y, k - 1, q)
  <1>1. PICK m \in Nat : m = k - 1
    OBVIOUS
  <1>2. PICK q, y : q = [i \in 0 .. m |-> p[i]] /\ y = p[m]
    OBVIOUS
  <1>3. p \in [0 .. k -> Nat] /\ p[0] = a /\ p[k] = x /\ \A i \in 1 .. k : <<p[i - 1], p[i]>> \in E
    BY DEF Leading
  <1>4. \A i \in 0 .. m : i \in 0 .. k /\ q[i] = p[i]
    BY <1>1, <1>2
  <1>5. q \in [0 .. m -> Nat] /\ y \in Nat
    <2>1. \A i \in 0 .. m : p[i] \in Nat
      BY <1>3, <1>4
    <2> QED
      BY <1>2, <2>1
  <1>6. q[0] = a /\ q[m] = y /\ <<y, x>> \in E
    <2>1. 0 \in 0 .. m /\ m \in 0 .. m /\ k \in 1 .. k
      BY <1>1
    <2>2. <<p[k - 1], p[k]>> \in E
      BY <1>3, <2>1
    <2> QED
      BY <1>1, <1>2, <1>3, <1>4, <2>1, <2>2
  <1>7. ASSUME NEW i \in 1 .. m
        PROVE  <<q[i - 1], q[i]>> \in E
    <2>1. i \in 1 .. k /\ i \in 0 .. m /\ i - 1 \in 0 .. m
      BY <1>1, <1>7
    <2> QED
      BY <1>3, <1>4, <2>1
  <1>8. Leading(E, a, y, m, q)
    BY <1>5, <1>6, <1>7 DEF Leading
  <1> QED
    BY <1>1, <1>5, <1>6, <1>8

LEMMA MetNext ==
    ASSUME NEW E, E \subseteq Nat \X Nat, NEW a \in Nat, NEW n \in Nat, n # 0
    PROVE  Met(E, a, n) = After(E, Met(E, a, n - 1))
  <1>1. PICK m \in Nat : m = n - 1
    OBVIOUS
  <1>2. ASSUME NEW x \in Met(E, a, n)
        PROVE  x \in After(E, Met(E, a, m))
    <2>1. x \in Nat
      BY <1>2 DEF Met
    <2>2. PICK k \in 0 .. n : \E p : Leading(E, a, x, k, p)
      BY <1>2 DEF Met
    <2>3. k \in Nat
      BY <2>2
    <2>4. CASE k = 0
      <3>1. k \in 0 .. m
        BY <2>4
      <3>2. x \in Met(E, a, m)
        BY <2>1, <2>2, <3>1 DEF Met
      <3> QED
        BY <3>2 DEF After
    <2>5. CASE k # 0
      <3>1. PICK y \in Nat : <<y, x>> \in E /\ \E q : Leading(E, a, y, k - 1, q)
        BY <2>1, <2>2, <2>3, <2>5, ShorterWay
      <3>2. k - 1 \in 0 .. m
        BY <1>1, <2>2, <2>5
      <3>3. y \in Met(E, a, m)
        BY <3>1, <3>2 DEF Met
      <3>4. PICK e \in E : e = <<y, x>>
        BY <3>1
      <3>5. e[1] = y /\ e[2] = x
        BY <3>4
      <3> QED
        BY <3>3, <3>5 DEF After
    <2> QED
      BY <2>4, <2>5
  <1>3. ASSUME NEW x \in After(E, Met(E, a, m))
        PROVE  x \in Met(E, a, n)
    <2>1. CASE x \in Met(E, a, m)
      <3>1. 0 .. m \subseteq 0 .. n
        BY <1>1
      <3> QED
        BY <2>1, <3>1 DEF Met
    <2>2. CASE x \notin Met(E, a, m)
      <3>1. PICK e \in E : e[1] \in Met(E, a, m) /\ e[2] = x
        BY <1>3, <2>2 DEF After
      <3>2. PICK y : y = e[1]
        OBVIOUS
      <3>3. y \in Nat /\ x \in Nat /\ <<y, x>> \in E
        BY <3>1, <3>2
      <3>4. PICK k \in 0 .. m : \E p : Leading(E, a, y, k, p)
        BY <3>1, <3>2 DEF Met
      <3>5. k \in Nat /\ k + 1 \in 0 .. n
        BY <1>1, <3>4
      <3>6. PICK q : Leading(E, a, x, k + 1, q)
        BY <3>3, <3>4, <3>5, LongerWay
      <3> QED
        BY <3>3, <3>5, <3>6 DEF Met
    <2> QED
      BY <2>1, <2>2
  <1> QED
    BY <1>1, <1>2, <1>3

\* Downward is what its definition says.
LEMMA DownwardSteps ==
    ASSUME NEW f, Start(cfg, f) \in Nat, Size(cfg) \in Nat, cfg.edges \subseteq Nat \X Nat
    PROVE  \E w : /\ Downward(f) = w[Size(cfg)] /\ w[0] = {Start(cfg, f)}
                  /\ \A n \in 1 .. Size(cfg) : w[n] = After(cfg.edges, w[n - 1])
  <1>1. PICK a \in Nat, N \in Nat, E \in SUBSET (Nat \X Nat) :
           a = Start(cfg, f) /\ N = Size(cfg) /\ E = cfg.edges
    OBVIOUS
  <1> DEFINE Is(w) ==
        w = [n \in 0 .. N |-> IF n = 0 THEN {a} ELSE w[n - 1] \cup {e[2] : e \in {d \in E : d[1] \in w[n - 1]}}]
  <1>2. PICK w : w = [n \in 0 .. N |-> Met(E, a, n)]
    OBVIOUS
  <1>3. Is(w)
    <2>1. ASSUME NEW n \in 0 .. N
          PROVE  w[n] = IF n = 0 THEN {a} ELSE w[n - 1] \cup {e[2] : e \in {d \in E : d[1] \in w[n - 1]}}
      <3>1. CASE n = 0
        BY <1>2, <3>1, MetNone
      <3>2. CASE n # 0
        <4>1. n \in Nat /\ n - 1 \in 0 .. N
          BY <2>1, <3>2
        <4>2. w[n] = Met(E, a, n) /\ w[n - 1] = Met(E, a, n - 1)
          BY <1>2, <2>1, <4>1
        <4>3. w[n] = After(E, w[n - 1])
          BY <1>1, <3>2, <4>1, <4>2, MetNext
        <4> QED
          BY <3>2, <4>3 DEF After
      <3> QED
        BY <3>1, <3>2
    <2>2. w = [n \in 0 .. N |-> w[n]]
      BY <1>2
    <2> QED
      BY <2>1, <2>2
  <1>4. PICK v : v = CHOOSE u : Is(u)
    OBVIOUS
  <1>5. Downward(f) = v[N]
    BY <1>1, <1>4 DEF Downward
  <1> HIDE DEF Is
  <1>6. Is(v)
    BY <1>3, <1>4
  <1> USE DEF Is
  <1>7. v[0] = {a}
    <2>1. 0 \in 0 .. N
      OBVIOUS
    <2> QED
      BY <1>6, <2>1
  <1>8. ASSUME NEW n \in 1 .. N
        PROVE  v[n] = After(E, v[n - 1])
    <2>1. n \in 0 .. N /\ n # 0
      BY <1>8
    <2>2. v[n] = v[n - 1] \cup {e[2] : e \in {d \in E : d[1] \in v[n - 1]}}
      BY <1>6, <2>1
    <2> QED
      BY <2>2 DEF After
  <1> QED
    BY <1>1, <1>5, <1>7, <1>8

Steps(E, N, w, a) == w[0] = {a} /\ \A n \in 1 .. N : w[n] = After(E, w[n - 1])

\* From a the edges lead to X and z, and to each of X from one before it.
Reach(E, N, a, X, z) ==
    /\ a \in X /\ X \subseteq 1 .. N
    /\ \A e \in E : e[1] # z /\ (e[1] \in X => e[2] \in X \cup {z})
    /\ \A b \in X : b = a \/ \E e \in E : e[1] \in X /\ e[1] < b /\ e[2] = b

\* Then they lead to all of X, and to nothing but X and z.
LEMMA MetExactly ==
    ASSUME NEW E, NEW N \in Nat, NEW w, NEW a, Steps(E, N, w, a), NEW X, NEW z, Reach(E, N, a, X, z)
    PROVE  X \subseteq w[N] /\ w[N] \subseteq X \cup {z}
  <1> USE DEF Steps, Reach
  <1> DEFINE T == {n \in 0 .. N : /\ w[n] \subseteq X \cup {z} /\ a \in w[n]
                                  /\ \A b \in X : b <= n => b \in w[n]}
  <1>1. 0 \in T
    <2>1. \A b \in X : ~(b <= 0)
      OBVIOUS
    <2> QED
      BY <2>1
  <1>2. ASSUME NEW i \in 1 .. N, i - 1 \in T
        PROVE  i \in T
    <2>1. PICK u, v : u = w[i - 1] /\ v = w[i] /\ v = After(E, u)
      OBVIOUS
    <2>2. u \subseteq X \cup {z} /\ a \in u /\ \A b \in X : b <= i - 1 => b \in u
      BY <1>2, <2>1
    <2>3. v \subseteq X \cup {z}
      <3> SUFFICES ASSUME NEW x \in v, x \notin u
                   PROVE  x \in X \cup {z}
        BY <2>2
      <3>1. PICK e \in E : e[1] \in u /\ e[2] = x
        BY <2>1 DEF After
      <3>2. e[1] \in X
        BY <2>2, <3>1
      <3> QED
        BY <3>1, <3>2
    <2>4. u \subseteq v
      BY <2>1 DEF After
    <2>5. ASSUME NEW b \in X, b <= i
          PROVE  b \in v
      <3>1. CASE b <= i - 1
        BY <2>2, <2>4, <3>1
      <3>2. CASE b = a
        BY <2>2, <2>4, <3>2
      <3>3. CASE ~(b <= i - 1) /\ b # a
        <4>1. PICK e \in E : e[1] \in X /\ e[1] < b /\ e[2] = b
          BY <3>3
        <4>2. e[1] <= i - 1
          <5>1. PICK c \in X : c = e[1]
            BY <4>1
          <5>2. c \in Nat /\ b \in Nat /\ i \in Nat
            OBVIOUS
          <5>3. c < b /\ b <= i
            BY <2>5, <4>1, <5>1
          <5>4. c <= i - 1
            BY ONLY <5>2, <5>3
          <5> QED
            BY <5>1, <5>4
        <4>3. e[1] \in u
          BY <2>2, <4>1, <4>2
        <4> QED
          BY <2>1, <4>1, <4>3 DEF After
      <3> QED
        BY <3>1, <3>2, <3>3
    <2> QED
      BY <2>1, <2>2, <2>3, <2>4, <2>5
  <1>3. N \in T
    <2> HIDE DEF T
    <2>1. \A i \in 0 .. N : i \in T
      BY <1>1, <1>2, UpTo
    <2> QED
      BY <2>1
  <1> QED
    BY <1>3

-----------------------------------------------------------------------------
(* One edge, or two, from each block.                                      *)

LEMMA CountOne ==
    ASSUME NEW X, IsFiniteSet(X), NEW A, NEW first, A = {first[b] : b \in X},
           \A b \in X : first[b][1] = b
    PROVE  IsFiniteSet(A) /\ Cardinality(A) = Cardinality(X)
  <1>1. PICK F : F = [b \in X |-> first[b]]
    OBVIOUS
  <1>2. F \in [X -> A]
    BY <1>1
  <1>3. \A b, c \in X : F[b] = F[c] => b = c
    <2> SUFFICES ASSUME NEW b \in X, NEW c \in X, F[b] = F[c]
                 PROVE  b = c
      OBVIOUS
    <2>1. first[b] = first[c]
      BY <1>1
    <2>2. first[b][1] = b /\ first[c][1] = c
      OBVIOUS
    <2> QED
      BY <2>1, <2>2
  <1>4. \A e \in A : \E b \in X : F[b] = e
    BY <1>1
  <1>5. F \in Bijection(X, A)
    BY <1>2, <1>3, <1>4, Fun_IsBij
  <1>6. ExistsBijection(X, A)
    BY <1>5, Fun_ExistsBij
  <1> QED
    BY <1>6, FS_Bijection

From(E, b) == {e \in E : e[1] = b}

\* One edge for each block of X, and one more for each of Y.
LEMMA CountEdges ==
    ASSUME NEW X, IsFiniteSet(X), NEW Y, Y \subseteq X, NEW E, \A e \in E : e[1] \in X,
           \A b \in X : b \notin Y => \E c : From(E, b) = {c},
           \A b \in Y : \E c, d : c # d /\ From(E, b) = {c, d}
    PROVE  Cardinality(E) = Cardinality(X) + Cardinality(Y)
  <1>1. PICK first : first = [b \in X |-> CHOOSE e : e \in From(E, b)]
    OBVIOUS
  <1>2. PICK second : second = [b \in Y |-> CHOOSE e : e \in From(E, b) /\ e # first[b]]
    OBVIOUS
  <1>3. ASSUME NEW b \in X
        PROVE  first[b] \in From(E, b)
    <2>1. \E e : e \in From(E, b)
      OBVIOUS
    <2>2. (CHOOSE e : e \in From(E, b)) \in From(E, b)
      BY <2>1
    <2> QED
      BY <1>1, <2>2
  <1>4. ASSUME NEW b \in Y
        PROVE  second[b] \in From(E, b) /\ second[b] # first[b] /\ From(E, b) = {first[b], second[b]}
    <2>1. PICK c, d : c # d /\ From(E, b) = {c, d}
      OBVIOUS
    <2>2. first[b] \in {c, d}
      BY <1>3, <2>1
    <2>3. \E e : e \in From(E, b) /\ e # first[b]
      BY <2>1, <2>2
    <2>4. PICK s : s = CHOOSE e : e \in From(E, b) /\ e # first[b]
      OBVIOUS
    <2>5. s \in From(E, b) /\ s # first[b]
      BY <2>3, <2>4
    <2>6. s = second[b]
      BY <1>2, <2>4
    <2> QED
      BY <2>1, <2>2, <2>5, <2>6
  <1>5. PICK A, B : A = {first[b] : b \in X} /\ B = {second[b] : b \in Y}
    OBVIOUS
  <1>6. \A b \in X : first[b][1] = b /\ first[b] \in E
    BY <1>3 DEF From
  <1>7. \A b \in Y : second[b][1] = b /\ second[b] \in E
    BY <1>4 DEF From
  <1>8. IsFiniteSet(Y)
    BY FS_Subset
  <1>9. IsFiniteSet(A) /\ Cardinality(A) = Cardinality(X)
    BY <1>5, <1>6, CountOne
  <1>10. IsFiniteSet(B) /\ Cardinality(B) = Cardinality(Y)
    BY <1>5, <1>7, <1>8, CountOne
  <1>11. A \cap B = {}
    <2> SUFFICES ASSUME NEW e \in A, e \in B
                 PROVE  FALSE
      OBVIOUS
    <2>1. PICK b \in X : e = first[b]
      BY <1>5
    <2>2. PICK c \in Y : e = second[c]
      BY <1>5
    <2>3. b = c
      BY <1>6, <1>7, <2>1, <2>2
    <2> QED
      BY <1>4, <2>1, <2>2, <2>3
  <1>12. E = A \cup B
    <2>1. A \cup B \subseteq E
      BY <1>5, <1>6, <1>7
    <2>2. ASSUME NEW e \in E
          PROVE  e \in A \cup B
      <3>1. PICK b \in X : b = e[1]
        OBVIOUS
      <3>2. e \in From(E, b)
        BY <3>1 DEF From
      <3>3. CASE b \in Y
        <4>1. e = first[b] \/ e = second[b]
          BY <1>4, <3>2, <3>3
        <4> QED
          BY <1>5, <3>3, <4>1
      <3>4. CASE b \notin Y
        <4>1. PICK c : From(E, b) = {c}
          BY <3>4
        <4>2. e = first[b]
          BY <1>3, <3>2, <4>1
        <4> QED
          BY <1>5, <4>2
      <3> QED
        BY <3>3, <3>4
    <2> QED
      BY <2>1, <2>2
  <1>13. Cardinality(A \cup B) = Cardinality(A) + Cardinality(B) - Cardinality(A \cap B)
    BY <1>9, <1>10, FS_Union
  <1>14. Cardinality(A \cap B) = 0
    BY <1>11, FS_EmptySet
  <1>15. PICK m \in Nat, n \in Nat : m = Cardinality(A) /\ n = Cardinality(B)
    BY <1>9, <1>10, FS_CardinalityType
  <1>16. Cardinality(E) = m + n - 0
    BY <1>12, <1>13, <1>14, <1>15
  <1>17. m + n - 0 = m + n
    OBVIOUS
  <1> QED
    BY <1>9, <1>10, <1>15, <1>16, <1>17

-----------------------------------------------------------------------------
(* The graph of a whole file.                                              *)

\* The blocks of a function that are counted, but for its end.
Inner(g, f) == {b \in Blocks(g) \ Ends(g) : Fn(g, b) = f /\ Entered(g, b)}

Whole(g, o, C) ==
    Formed(g) /\ Counts(<<>>, g, o, C) /\ HasAfter(g, g.current)

LEMMA InnerSettled ==
    ASSUME NEW g, NEW o, NEW C, Whole(g, o, C), NEW f, Clean(f, o), NEW b \in Inner(g, f)
    PROVE  /\ b \in C => Two(g, b)
           /\ b \notin C => One(g, b)
           /\ b = Start(g, f) \/ Led(g, b)
  <1>1. b \in Blocks(g) \ Ends(g) /\ Fn(g, b) = f /\ Entered(g, b)
    BY DEF Inner
  <1>2. Settled(<<>>, g, b, C)
    BY <1>1 DEF Whole, Counts
  <1>3. ~Awaited(<<>>, b)
    BY DEF Awaited
  <1>4. Waits(<<>>, g, b) => HasAfter(g, b)
    BY <1>3 DEF Waits, Whole
  <1>5. IF b \in C THEN Two(g, b) ELSE One(g, b)
    BY <1>1, <1>2, <1>4 DEF Settled
  <1>6. HasBefore(g, b) \/ b = Start(g, f)
    BY <1>1 DEF Entered, Fn
  <1>7. HasBefore(g, b) /\ b # Start(g, f) => Led(g, b)
    BY <1>1, <1>2 DEF Settled
  <1> QED
    BY <1>5, <1>6, <1>7

\* The first and last block of a function.
LEMMA InnerEnds ==
    ASSUME NEW g, NEW o, NEW C, Whole(g, o, C), NEW f \in Functions(g)
    PROVE  /\ \A b \in Ends(g) : Fn(g, b) = f => b = End(g, f)
           /\ ~HasAfter(g, End(g, f)) /\ Start(g, f) \in Inner(g, f)
           /\ End(g, f) \notin Inner(g, f) /\ Inner(g, f) \subseteq Blocks(g)
  <1>1. \A i \in Functions(g) :
           /\ Fn(g, Start(g, i)) = i /\ Fn(g, End(g, i)) = i /\ Start(g, i) # End(g, i)
           /\ ~HasAfter(g, End(g, i))
    BY DEF Whole, Counts, Homes
  <1>2. \A b \in Ends(g) : Fn(g, b) = f => b = End(g, f)
    BY <1>1 DEF Ends
  <1>3. Start(g, f) \in Blocks(g)
    BY DEF Whole, Formed, Starts
  <1>4. Start(g, f) \notin Ends(g)
    BY <1>1, <1>2
  <1>5. Start(g, f) \in Inner(g, f)
    BY <1>1, <1>3, <1>4 DEF Inner, Entered, Fn
  <1>6. End(g, f) \in Ends(g)
    BY DEF Ends
  <1> QED
    BY <1>1, <1>2, <1>5, <1>6 DEF Inner

LEMMA InnerEdges ==
    ASSUME NEW g, NEW o, NEW C, Whole(g, o, C), NEW f \in Functions(g), Clean(f, o)
    PROVE  /\ \A e \in g.edges : e[1] \in Inner(g, f) => e[2] \in Inner(g, f) \cup {End(g, f)}
           /\ \A e \in g.edges : e[1] # End(g, f)
           /\ \A b \in Inner(g, f) :
                 b = Start(g, f) \/ \E e \in g.edges : e[1] \in Inner(g, f) /\ e[1] < b /\ e[2] = b
           /\ \A b \in C : Fn(g, b) = f => b \in Inner(g, f)
  <1>1. Formed(g)
    BY DEF Whole
  <1>2. /\ \A b \in Ends(g) : Fn(g, b) = f => b = End(g, f)
        /\ ~HasAfter(g, End(g, f))
    BY InnerEnds
  <1>3. ASSUME NEW e \in g.edges, e[1] \in Inner(g, f)
        PROVE  e[2] \in Inner(g, f) \cup {End(g, f)}
    <2>1. e[2] \in Blocks(g)
      BY <1>1, FormedEdges
    <2>2. Fn(g, e[1]) = f
      BY <1>3 DEF Inner
    <2>3. Fn(g, e[2]) = f
      BY <2>2 DEF Whole, Counts
    <2>4. Entered(g, e[2])
      BY DEF Entered, HasBefore
    <2> QED
      BY <1>2, <2>1, <2>3, <2>4 DEF Inner
  <1>4. \A e \in g.edges : e[1] # End(g, f)
    BY <1>2 DEF HasAfter
  <1>5. ASSUME NEW b \in Inner(g, f), b # Start(g, f)
        PROVE  \E e \in g.edges : e[1] \in Inner(g, f) /\ e[1] < b /\ e[2] = b
    <2>1. Led(g, b) /\ Fn(g, b) = f
      BY <1>5, InnerSettled DEF Inner
    <2>2. PICK a \in Blocks(g) :
             a < b /\ <<a, b>> \in g.edges /\ Fn(g, a) = f /\ Entered(g, a)
      BY <2>1 DEF Led
    <2>3. PICK e \in g.edges : e = <<a, b>>
      BY <2>2
    <2>4. e[1] = a /\ e[2] = b
      BY <2>3
    <2>5. a \notin Ends(g)
      BY <1>2, <1>4, <2>2, <2>4
    <2>6. a \in Inner(g, f)
      BY <2>2, <2>5 DEF Inner
    <2> QED
      BY <2>2, <2>4, <2>6
  <1>6. ASSUME NEW b \in C, Fn(g, b) = f
        PROVE  b \in Inner(g, f)
    <2>1. b \in Blocks(g) \ Ends(g)
      BY DEF Whole, Counts
    <2>2. Settled(<<>>, g, b, C)
      BY <1>6, <2>1 DEF Whole, Counts
    <2>3. Entered(g, b)
      BY <2>2 DEF Settled
    <2> QED
      BY <1>6, <2>1, <2>3 DEF Inner
  <1> QED
    BY <1>3, <1>4, <1>5, <1>6

\* The edges of a block that has one or two.
LEMMA FromOne ==
    ASSUME NEW g, Formed(g), NEW b, One(g, b), NEW E, E \subseteq g.edges, From(g.edges, b) \subseteq E
    PROVE  \E e : From(E, b) = {e}
  <1>1. PICK c \in Nat : <<b, c>> \in g.edges /\ \A e \in g.edges : e[1] = b => e[2] = c
    BY DEF One
  <1>2. PICK d \in g.edges : d = <<b, c>>
    BY <1>1
  <1>3. d[1] = b
    BY <1>2
  <1>4. \A e \in g.edges : e[1] = b => e = d
    BY <1>1, <1>2, FormedEdges
  <1>5. From(E, b) = {d}
    BY <1>3, <1>4 DEF From
  <1> QED
    BY <1>5

LEMMA FromTwo ==
    ASSUME NEW g, Formed(g), NEW b, Two(g, b), NEW E, E \subseteq g.edges, From(g.edges, b) \subseteq E
    PROVE  \E e, f : e # f /\ From(E, b) = {e, f}
  <1>1. PICK c \in Nat, d \in Nat :
           /\ c # d /\ <<b, c>> \in g.edges /\ <<b, d>> \in g.edges
           /\ \A e \in g.edges : e[1] = b => e[2] \in {c, d}
    BY DEF Two
  <1>2. PICK i \in g.edges, j \in g.edges : i = <<b, c>> /\ j = <<b, d>>
    BY <1>1
  <1>3. i[1] = b /\ j[1] = b /\ i[2] = c /\ j[2] = d /\ i # j
    BY <1>1, <1>2
  <1>4. \A e \in g.edges : e[1] = b => e = i \/ e = j
    BY <1>1, <1>2, FormedEdges
  <1>5. From(E, b) = {i, j}
    BY <1>3, <1>4 DEF From
  <1> QED
    BY <1>3, <1>5

LEMMA ComplexityCounts ==
    ASSUME NEW o, NEW C, Whole(cfg, o, C), NEW f \in Functions(cfg), Clean(f, o),
           End(cfg, f) \in Downward(f)
    PROVE  Complexity(f) = 1 + Cardinality({b \in C : Fn(cfg, b) = f})
  <1>1. PICK X, z, D, Y : /\ X = Inner(cfg, f) /\ z = End(cfg, f) /\ D = Downward(f)
                          /\ Y = {b \in C : Fn(cfg, b) = f}
    OBVIOUS
  <1>2. PICK E : E = {e \in cfg.edges : e[1] \in D}
    OBVIOUS
  <1>3. PICK N \in Nat : N = Size(cfg) /\ Blocks(cfg) = 1 .. N
    BY FormedEdges DEF Whole, Blocks
  <1>4. PICK a : a = Start(cfg, f)
    OBVIOUS
  <1>5. a \in X /\ z \notin X /\ X \subseteq 1 .. N
    BY <1>1, <1>3, <1>4, InnerEnds
  <1>6. /\ \A e \in cfg.edges : e[1] \in X => e[2] \in X \cup {z}
        /\ \A e \in cfg.edges : e[1] # z
        /\ \A b \in X : b = a \/ \E e \in cfg.edges : e[1] \in X /\ e[1] < b /\ e[2] = b
        /\ Y \subseteq X
    BY <1>1, <1>4, InnerEdges
  <1>7. D = X \cup {z}
    <2>1. a \in 1 .. N /\ a \in Nat /\ cfg.edges \subseteq Nat \X Nat
      BY <1>5, CfgFields DEF Whole, Formed
    <2>2. PICK w : /\ Downward(f) = w[Size(cfg)] /\ w[0] = {Start(cfg, f)}
                   /\ \A n \in 1 .. Size(cfg) : w[n] = After(cfg.edges, w[n - 1])
      BY <1>3, <1>4, <2>1, DownwardSteps
    <2>3. D = w[N] /\ Steps(cfg.edges, N, w, a)
      BY <1>1, <1>3, <1>4, <2>2 DEF Steps
    <2>4. Reach(cfg.edges, N, a, X, z)
      BY <1>5, <1>6 DEF Reach
    <2>5. X \subseteq w[N] /\ w[N] \subseteq X \cup {z}
      BY <2>3, <2>4, MetExactly
    <2>6. z \in D
      BY <1>1
    <2> QED
      BY <2>3, <2>5, <2>6
  <1>8. E = {e \in cfg.edges : e[1] \in X}
    BY <1>2, <1>6, <1>7
  <1>9. IsFiniteSet(X) /\ IsFiniteSet(Y)
    <2>1. IsFiniteSet(1 .. N)
      BY FS_Interval
    <2>2. IsFiniteSet(X)
      BY <1>5, <2>1, FS_Subset
    <2> QED
      BY <1>6, <2>2, FS_Subset
  <1>10. Cardinality(E) = Cardinality(X) + Cardinality(Y)
    <2>1. \A e \in E : e[1] \in X
      BY <1>8
    <2>2. ASSUME NEW b \in X, b \notin Y
          PROVE  \E e : From(E, b) = {e}
      <3>1. b \notin C
        BY <1>1, <2>2 DEF Inner
      <3>2. One(cfg, b)
        BY <1>1, <3>1, InnerSettled
      <3>3. Formed(cfg) /\ E \subseteq cfg.edges /\ From(cfg.edges, b) \subseteq E
        BY <1>8, <2>2 DEF Whole, From
      <3> QED
        BY <3>2, <3>3, FromOne
    <2>3. ASSUME NEW b \in Y
          PROVE  \E c, d : c # d /\ From(E, b) = {c, d}
      <3>1. b \in X /\ b \in C
        BY <1>1, <1>6
      <3>2. Two(cfg, b)
        BY <1>1, <3>1, InnerSettled
      <3>3. Formed(cfg) /\ E \subseteq cfg.edges /\ From(cfg.edges, b) \subseteq E
        BY <1>8, <3>1 DEF Whole, From
      <3> QED
        BY <3>2, <3>3, FromTwo
    <2> QED
      BY <1>6, <1>9, <2>1, <2>2, <2>3, CountEdges
  <1>11. Cardinality(D) = Cardinality(X) + 1
    BY <1>5, <1>7, <1>9, FS_AddElement
  <1>12. PICK m \in Nat, n \in Nat : m = Cardinality(X) /\ n = Cardinality(Y)
    BY <1>9, FS_CardinalityType
  <1>13. Complexity(f) = (m + n) + 2 - (m + 1)
    BY <1>1, <1>2, <1>10, <1>11, <1>12 DEF Complexity
  <1>14. (m + n) + 2 - (m + 1) = 1 + n
    OBVIOUS
  <1> QED
    BY <1>1, <1>12, <1>13, <1>14

LEMMA FlowCounts == CfgInv /\ FlowInv => ComplexityCountsDecisions
  <1> SUFFICES ASSUME CfgInv, FlowInv, ended = "done", NEW f \in DOMAIN cfg.functions,
                      End(cfg, f) \in Downward(f), \A o \in odd : o[1] # f
               PROVE  Complexity(f) = 1 + Cardinality({b \in choices : cfg.block[b].function = f})
    BY DEF ComplexityCountsDecisions
  <1>1. Formed(cfg) /\ Counted
    BY DEF CfgInv, Outcome, FlowInv
  <1>2. Whole(cfg, odd, choices)
    BY <1>1 DEF Whole, Counted
  <1>3. f \in Functions(cfg)
    <2>1. cfg \in Cfgs
      BY <1>1 DEF Formed
    <2> QED
      BY <2>1, CfgFields DEF Functions
  <1>4. Clean(f, odd)
    BY DEF Clean
  <1>5. Complexity(f) = 1 + Cardinality({b \in choices : Fn(cfg, b) = f})
    BY <1>2, <1>3, <1>4, ComplexityCounts
  <1> QED
    BY <1>5 DEF Fn

\* CalculateCyclomaticComplexity counts the edges and nodes met from the start
\* of a function: in a file of any length, edges less nodes plus two is one
\* more than the number of its ifs, whiles and for-ins, for every function that
\* can end and has no constant condition, no switch with cases, no loop without
\* a builder and no throw (the builder counts none of the three), no jump in or
\* out of such a part, and no code that is not seen or not reached.
THEOREM ComplexityHolds == Spec => []ComplexityCountsDecisions
  BY FlowHolds, FlowCounts, PTL
=============================================================================
