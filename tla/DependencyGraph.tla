--------------------------- MODULE DependencyGraph ---------------------------
(***************************************************************************)
(* Planning the execution of dependent transactions                        *)
(* (src/src/transaction/dependencyGraph.ts): an iterative depth-first      *)
(* search for cycles, then Kahn's algorithm, level by level. One action is *)
(* one turn of a loop. Identifiers are numbers, in their lexicographic     *)
(* order; that they are not blank and not repeated is checked before. A    *)
(* cycle is the set of its edges, which is the same wherever the search    *)
(* entered it; a plan's flat order is its groups one after another, each   *)
(* sorted, so that its length is all there is to know of it.               *)
(***************************************************************************)
EXTENDS Naturals, Sequences, FiniteSets

CONSTANTS
  NodeCount,
  Graphs          \* the dependencies declared, by node

VARIABLES
  dependsOn,      \* [node -> its dependencies, unknown identifiers among them]
  phase,          \* "search", "levels", "planned", "refused" or "shortfall"
  colour, stack, cycles,        \* findCycles
  remaining, ready, ordered, parallelGroups   \* planTransactionExecution

vars == <<dependsOn, phase, colour, stack, cycles, remaining, ready, ordered, parallelGroups>>

Nodes   == 1..NodeCount
Unknown == NodeCount + 1

\* A node on the path and those of its dependencies that are still to be followed.
Frames == [id : Nodes, left : SUBSET (1..Unknown)]

TypeOK ==
  /\ dependsOn \in Graphs
  /\ phase \in {"search", "levels", "planned", "refused", "shortfall"}
  /\ colour \in [Nodes -> {"white", "grey", "black"}]
  /\ stack \in Seq(Frames)
  /\ cycles \subseteq SUBSET (Nodes \X Nodes)
  /\ remaining \in [Nodes -> 0..Unknown]
  /\ ready \subseteq Nodes
  /\ ordered \in 0..NodeCount
  /\ parallelGroups \in Seq(SUBSET Nodes)

Init ==
  /\ dependsOn \in Graphs
  /\ phase = "search"
  /\ colour = [n \in Nodes |-> "white"] /\ stack = <<>> /\ cycles = {}
  /\ remaining = [n \in Nodes |-> Cardinality(dependsOn[n])]
  /\ ready = {} /\ ordered = 0 /\ parallelGroups = <<>>

-----------------------------------------------------------------------------
First(n, S) == n \in S /\ \A m \in S : n <= m

Top      == stack[Len(stack)]
BelowTop == SubSeq(stack, 1, Len(stack) - 1)
Frame(n) == [id |-> n, left |-> dependsOn[n]]

\* The frames of the path from a node on.
From(n) == {i \in DOMAIN stack : \E j \in 1..i : stack[j].id = n}

OnPath(n) == From(n) # {}

\* The path from a node to the top, and the edge from there back to it.
CycleAt(n) ==
  {<<stack[i].id, IF i = Len(stack) THEN n ELSE stack[i + 1].id>> : i \in From(n)}

levelVars == <<remaining, ready, ordered, parallelGroups>>

White == {n \in Nodes : colour[n] = "white"}

\* The next white root, in order.
StartRoot ==
  \E n \in Nodes :
    /\ phase = "search" /\ stack = <<>> /\ First(n, White)
    /\ colour' = [colour EXCEPT ![n] = "grey"]
    /\ stack' = <<Frame(n)>>
    /\ UNCHANGED <<dependsOn, phase, cycles, levelVars>>

Leave ==
  /\ phase = "search" /\ stack # <<>> /\ Top.left = {}
  /\ colour' = [colour EXCEPT ![Top.id] = "black"]
  /\ stack' = BelowTop
  /\ UNCHANGED <<dependsOn, phase, cycles, levelVars>>

\* An unknown identifier leads nowhere, a node on the path closes a cycle, and a
\* white one is entered.
FollowEdge ==
  \E n \in 1..Unknown :
    LET advanced == Append(BelowTop, [Top EXCEPT !.left = @ \ {n}])
    IN  /\ phase = "search" /\ stack # <<>> /\ First(n, Top.left)
        /\ IF n # Unknown /\ ~OnPath(n) /\ n \in White
           THEN /\ stack' = Append(advanced, Frame(n))
                /\ colour' = [colour EXCEPT ![n] = "grey"]
           ELSE stack' = advanced /\ UNCHANGED colour
        /\ cycles' = IF n # Unknown /\ OnPath(n) THEN cycles \cup {CycleAt(n)} ELSE cycles
        /\ UNCHANGED <<dependsOn, phase, levelVars>>

\* A dependency on itself or on an unknown node, or a cycle, refuses the graph.
Errors ==
  \/ \E n \in Nodes : n \in dependsOn[n] \/ Unknown \in dependsOn[n]
  \/ cycles # {}

SearchEnds ==
  /\ phase = "search" /\ stack = <<>> /\ White = {}
  /\ phase' = IF Errors THEN "refused" ELSE "levels"
  /\ ready' = IF Errors THEN {} ELSE {n \in Nodes : remaining[n] = 0}
  /\ UNCHANGED <<dependsOn, colour, stack, cycles, remaining, ordered, parallelGroups>>

\* A level is drained: each of its members releases its dependents.
Level ==
  LET left(n) == remaining[n] - Cardinality(dependsOn[n] \cap ready)
  IN  /\ phase = "levels" /\ ready # {}
      /\ parallelGroups' = Append(parallelGroups, ready)
      /\ ordered' = ordered + Cardinality(ready)
      /\ remaining' = [n \in Nodes |-> left(n)]
      /\ ready' = {n \in Nodes : left(n) = 0 /\ remaining[n] > 0}
      /\ UNCHANGED <<dependsOn, phase, colour, stack, cycles>>

LevelsEnd ==
  /\ phase = "levels" /\ ready = {}
  /\ phase' = IF ordered = NodeCount THEN "planned" ELSE "shortfall"
  /\ UNCHANGED <<dependsOn, colour, stack, cycles, levelVars>>

Next == StartRoot \/ Leave \/ FollowEdge \/ SearchEnds \/ Level \/ LevelsEnd

Spec == Init /\ [][Next]_vars

-----------------------------------------------------------------------------
\* Some nodes depend on each other in a circle.
Cyclic == \E S \in SUBSET Nodes : S # {} /\ \A n \in S : dependsOn[n] \cap S # {}

\* What is reported as a cycle leads along dependencies and never ends.
IsCycle(edges) ==
  edges # {} /\ \A e \in edges : e[2] \in dependsOn[e[1]] /\ \E f \in edges : f[1] = e[2]

\* The search and the ordering agree, on every graph: a plan is made exactly for
\* the graphs without cycle and unknown node, and a reported cycle is one; a plan
\* has every transaction in one group, behind the groups of its dependencies, and
\* none waits for a group that it does not depend on.
PlanIsSound ==
  /\ phase # "shortfall"
  /\ phase \in {"levels", "planned"} <=>
       phase # "search" /\ ~Cyclic /\ \A n \in Nodes : Unknown \notin dependsOn[n]
  /\ \A edges \in cycles : IsCycle(edges)
  /\ phase = "planned" =>
       \A n \in Nodes : \E i \in DOMAIN parallelGroups :
         /\ \A j \in DOMAIN parallelGroups : n \in parallelGroups[j] <=> j = i
         /\ \A d \in dependsOn[n] : \E j \in 1..(i - 1) : d \in parallelGroups[j]
         /\ i > 1 => dependsOn[n] \cap parallelGroups[i - 1] # {}
=============================================================================
