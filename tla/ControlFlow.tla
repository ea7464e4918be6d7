---------------------------- MODULE ControlFlow ----------------------------
(***************************************************************************)
(* ssa::ControlFlowGraph, ssa::DominatorTree and ssa::LoopAnalyzer as      *)
(* functions of a graph g: g.entry and, for every block, the sequence      *)
(* g.succ[b] of the targets of its branch, a target that occurs twice      *)
(* included.  The second half defines dominance, frontiers and loops by    *)
(* reachability alone, without the tree.                                   *)
(***************************************************************************)
EXTENDS Integers, Sequences, FiniteSets, SequencesExt

(***************************************************************************)
(* The numbering: depth first from the entry, successors in the order of   *)
(* the branch, a node gets its number when all below it have theirs.       *)
(***************************************************************************)
RECURSIVE VisitNode(_, _, _)
VisitNode(g, b, st) ==
    IF b \in st.seen THEN st
    ELSE LET below == FoldLeft(LAMBDA s, c : VisitNode(g, c, s),
                               [st EXCEPT !.seen = @ \cup {b}], g.succ[b])
         IN [below EXCEPT !.order = Append(@, b)]

PostOrder(g) == VisitNode(g, g.entry, [seen |-> {}, order |-> <<>>]).order
Nodes(g) == Range(PostOrder(g))

\* The predecessor lists hold a block once for every edge.
PredCount(g, b) ==
    FoldLeft(LAMBDA n, a : n + Cardinality({i \in DOMAIN g.succ[a] : g.succ[a][i] = b}), 0, PostOrder(g))
Preds(g, b) == {a \in Nodes(g) : b \in Range(g.succ[a])}

(***************************************************************************)
(* compute_idoms works on the post-order numbers 1..n, the entry being n;  *)
(* 0 stands for the -1 of a node not reached yet.                          *)
(***************************************************************************)
RECURSIVE Intersect(_, _, _)
Intersect(b1, b2, doms) ==
    IF b1 = b2 THEN b1
    ELSE IF b1 < b2 THEN Intersect(doms[b1], b2, doms) ELSE Intersect(b1, doms[b2], doms)

NewIdom(preds, doms) ==
    LET known == SetToSortSeq({p \in preds : doms[p] # 0}, <)
    IN IF known = <<>> THEN 0 ELSE FoldLeft(LAMBDA d, p : Intersect(d, p, doms), Head(known), Tail(known))

IdomPass(n, preds, doms) ==   \* mutant: one pass is taken to be enough
    FoldLeft(LAMBDA d, k : [d EXCEPT ![n - k] = NewIdom(preds[n - k], d)], doms, [k \in 1..n - 1 |-> k])
RECURSIVE IdomPasses(_, _, _)
IdomPasses(n, preds, doms) ==
    LET new == FoldLeft(LAMBDA d, k : [d EXCEPT ![n - k] = NewIdom(preds[n - k], d)], doms,
                        [k \in 1..n - 1 |-> k])
    IN IF new = doms THEN doms ELSE IdomPasses(n, preds, new)

\* The tree as the loops above leave it: the immediate dominator of every node, the entry its own.
Idoms(g) ==
    LET order == PostOrder(g)
        n == Len(order)
        number == [b \in Range(order) |-> CHOOSE i \in 1..n : order[i] = b]
        preds == [i \in 1..n |-> {number[a] : a \in Preds(g, order[i])}]
        doms == IdomPasses(n, preds, [i \in 1..n |-> IF i = n THEN n ELSE 0])
    IN [b \in Range(order) |-> order[doms[number[b]]]]

\* The children of a node in the order in which they are pushed.
Children(order, idoms, b) == SelectSeq(order, LAMBDA c : c # Last(order) /\ idoms[c] = b)

RECURSIVE Dominates(_, _, _)
Dominates(idoms, a, b) ==
    \/ a = b
    \/ \E c \in DOMAIN idoms : c # idoms[c] /\ idoms[c] = a /\ Dominates(idoms, c, b)

\* compute_dominance_frontiers: up from every predecessor of a join to the dominator of the join.
RECURSIVE Runners(_, _, _)
Runners(idoms, runner, stop) ==
    IF runner = stop THEN {} ELSE {runner} \cup Runners(idoms, idoms[runner], stop)

Frontier(g, idoms, b) ==
    {j \in DOMAIN idoms : /\ PredCount(g, j) >= 2
                          /\ \E p \in Preds(g, j) : b \in Runners(idoms, p, idoms[j])}

(***************************************************************************)
(* LoopAnalyzer: a back edge goes to a block that dominates its source;    *)
(* is_dominated_by climbs the tree but never looks at the root.            *)
(***************************************************************************)
RECURSIVE ClimbsTo(_, _, _)
ClimbsTo(idoms, idom, b) ==
    IF idoms[idom] = idom THEN FALSE ELSE idom = b \/ ClimbsTo(idoms, idoms[idom], b)
IsDominatedBy(idoms, a, b) == a = b \/ ClimbsTo(idoms, idoms[a], b)

RECURSIVE CollectBody(_, _, _)
CollectBody(g, body, b) ==
    IF b \in body THEN body
    ELSE FoldSet(LAMBDA p, s : CollectBody(g, s, p), body \cup {b}, Preds(g, b))

LoopOf(g, tail, header) ==
    LET body == CollectBody(g, {header}, tail)
    IN [header |-> header, tail |-> tail, body |-> body,
        entries |-> Preds(g, header) \ body,
        exits |-> {<<b, c>> \in body \X Nodes(g) : c \in Range(g.succ[b]) \ body}]

\* The loops in the order in which they are found; a branch whose two targets are the header finds its loop twice.
Loops(g) ==
    LET idoms == Idoms(g)
        back(b) == SelectSeq(g.succ[b], LAMBDA h : IsDominatedBy(idoms, b, h))
    IN FlattenSeq([i \in DOMAIN PostOrder(g) |->
          LET b == PostOrder(g)[i] IN [k \in DOMAIN back(b) |-> LoopOf(g, b, back(b)[k])]])

-----------------------------------------------------------------------------
\* The definitions without the tree.

RECURSIVE ReachFrom(_, _, _)
ReachFrom(g, avoid, S) ==
    LET next == S \cup (UNION {Range(g.succ[b]) : b \in S} \ avoid)
    IN IF next = S THEN S ELSE ReachFrom(g, avoid, next)
Reachable(g) == ReachFrom(g, {}, {g.entry})

\* Every path from the entry to b goes through a.
Dom(g, a, b) == a = b \/ a = g.entry \/ b \notin ReachFrom(g, {a}, {g.entry})
StrictDom(g, a, b) == a # b /\ Dom(g, a, b)
IdomDef(g, b) == CHOOSE a \in Reachable(g) :
    StrictDom(g, a, b) /\ \A c \in Reachable(g) : StrictDom(g, c, b) => Dom(g, c, a)
FrontierDef(g, b) ==
    {j \in Reachable(g) : /\ \E p \in Reachable(g) : j \in Range(g.succ[p]) /\ Dom(g, b, p)
                          /\ ~StrictDom(g, b, j)}
\* The natural loop of a back edge: what reaches its tail without passing its header.
Pred1(g, S, h) == S \cup ({a \in Reachable(g) : Range(g.succ[a]) \cap S # {}} \ {h})
RECURSIVE BackFrom(_, _, _)
BackFrom(g, S, h) == IF Pred1(g, S, h) = S THEN S ELSE BackFrom(g, Pred1(g, S, h), h)
NaturalLoop(g, t, h) == {h} \cup (IF t = h THEN {} ELSE BackFrom(g, {t}, h))
=============================================================================
