--------------------------- MODULE LivenessProofs ----------------------------
(***************************************************************************)
(* Proofs about Liveness for every function: the sweeps stop at a fixed    *)
(* point of the data flow equations, and at the least one; the registers   *)
(* that are live at the start of a block are those that some path needs;   *)
(* and the live ranges of a block are exact.                               *)
(***************************************************************************)
EXTENDS Liveness, MachineCodeProofs, FiniteSetTheorems

Out(b) == UNION {ins[s] : s \in Succs(func, b)}

\* Nothing is in a set that its own equation does not put there.
Below ==
    \A b \in Blocks(func) :
        outs[b] \subseteq Out(b) /\ ins[b] \subseteq Uses(func, b) \union (outs[b] \ Defs(func, b))

\* As long as a sweep has changed nothing, the equations hold in the blocks
\* it has passed.
Settled ==
    /\ phase = "order" => changes
    /\ phase = "sweep" /\ ~ changes => \A j \in (k + 1)..Len(order) : Equations(order[j])

IInv == TypeOK /\ Below /\ Settled /\ Fixpoint

\* The blocks of the function.
LEMMA BlocksOfFunc ==
    ASSUME TypeOK
    PROVE  /\ 0 \in Blocks(func)
           /\ \A b \in Blocks(func) : Succs(func, b) \subseteq Blocks(func)
BY FuncsAssumption DEF WellFormed, TypeOK, Blocks

\* A visit only adds registers to the sets of its block.
LEMMA VisitGrows ==
    ASSUME TypeOK, Visit
    PROVE  /\ order[k] \in Blocks(func) /\ k \in 1..Len(order)
           /\ ins' \in [Blocks(func) -> SUBSET Regs]
           /\ outs' \in [Blocks(func) -> SUBSET Regs]
           /\ \A b \in Blocks(func) : ins[b] \subseteq ins'[b] /\ outs[b] \subseteq outs'[b]
           /\ ins'[order[k]] = NewIns(order[k]) /\ outs'[order[k]] = NewOuts(order[k])
           /\ \A b \in Blocks(func) \ {order[k]} : ins'[b] = ins[b] /\ outs'[b] = outs[b]
<1>1. k \in 1..Len(order) /\ order[k] \in Blocks(func)
  BY DEF TypeOK, Visit
<1>2. \A s \in Succs(func, order[k]) : ins[s] \subseteq Regs
  BY <1>1, BlocksOfFunc DEF TypeOK
<1>3. NewOuts(order[k]) \subseteq Regs /\ outs[order[k]] \subseteq NewOuts(order[k])
  BY <1>1, <1>2 DEF NewOuts, TypeOK
<1>4. NewIns(order[k]) \subseteq Regs /\ ins[order[k]] \subseteq NewIns(order[k])
  BY <1>1, <1>3 DEF NewIns, Uses, TypeOK
<1> QED
  BY <1>1, <1>3, <1>4 DEF TypeOK, Visit

\* The state keeps its type.
LEMMA TypeStep ==
    ASSUME TypeOK, [Next]_vars
    PROVE  TypeOK'
<1>1. CASE Enter
  <2>1. PICK s \in Succs(func, Head(stack)) \ visited :
          visited' = visited \union {s} /\ stack' = <<s>> \o stack
    BY <1>1 DEF Enter
  <2>2. Head(stack) \in Blocks(func)
    BY <1>1 DEF Enter, TypeOK
  <2>3. s \in Blocks(func)
    BY <2>1, <2>2, BlocksOfFunc
  <2> QED
    BY <1>1, <2>1, <2>3 DEF Enter, TypeOK
<1>2. CASE Leave
  <2>1. Head(stack) \in Blocks(func) /\ Tail(stack) \in Seq(Blocks(func))
    BY <1>2 DEF Leave, TypeOK
  <2>2. order' \in Seq(Blocks(func)) /\ Len(order') = Len(order) + 1
    BY <1>2, <2>1 DEF Leave, TypeOK
  <2> QED
    BY <1>2, <2>1, <2>2 DEF Leave, TypeOK
<1>3. CASE Sweep
  <2>1. k' \in 0..Len(order) /\ phase' \in {"order", "sweep", "done"}
    BY <1>3 DEF Sweep, TypeOK
  <2>2. changes' \in BOOLEAN
    BY <1>3 DEF Sweep, TypeOK
  <2> QED
    BY <1>3, <2>1, <2>2 DEF Sweep, TypeOK
<1>4. CASE Visit
  <2>1. changes' \in BOOLEAN
    BY <1>4 DEF Visit, Changed, TypeOK
  <2>2. k' \in 0..Len(order')
    BY <1>4, VisitGrows DEF Visit, TypeOK
  <2> QED
    BY <1>4, <2>1, <2>2, VisitGrows DEF Visit, TypeOK
<1>5. CASE UNCHANGED vars
  BY <1>5 DEF vars, TypeOK
<1> QED
  BY <1>1, <1>2, <1>3, <1>4, <1>5 DEF Next

\* Below is kept: the right-hand sides of the equations only grow.
LEMMA BelowStep ==
    ASSUME TypeOK, Below, [Next]_vars
    PROVE  Below'
<1>1. CASE Visit
  <2>1. func' = func
    BY <1>1 DEF Visit
  <2>2. \A b \in Blocks(func) : Out(b) \subseteq Out(b)'
    BY <1>1, <2>1, VisitGrows, BlocksOfFunc DEF Out
  <2>3. SUFFICES ASSUME NEW b \in Blocks(func)
                 PROVE  /\ outs'[b] \subseteq Out(b)'
                        /\ ins'[b] \subseteq Uses(func, b) \union (outs'[b] \ Defs(func, b))
    BY <2>1 DEF Below
  <2>4. CASE b = order[k]
    <3>1. outs'[b] = outs[b] \union Out(b) /\ outs[b] \subseteq Out(b)
      BY <1>1, <2>4, VisitGrows DEF NewOuts, Out, Below
    <3>2. ins'[b] = ins[b] \union Uses(func, b) \union (outs'[b] \ Defs(func, b))
      BY <1>1, <2>4, VisitGrows DEF NewIns
    <3>3. ins[b] \subseteq Uses(func, b) \union (outs[b] \ Defs(func, b)) /\ outs[b] \subseteq outs'[b]
      BY <1>1, VisitGrows DEF Below
    <3> QED
      BY <2>2, <3>1, <3>2, <3>3
  <2>5. CASE b # order[k]
    BY <1>1, <2>2, <2>5, VisitGrows DEF Below
  <2> QED
    BY <2>4, <2>5
<1>2. CASE Enter \/ Leave \/ Sweep \/ UNCHANGED vars
  BY <1>2 DEF Enter, Leave, Sweep, vars, Below, Out
<1> QED
  BY <1>1, <1>2 DEF Next

\* A visit that finds no change settles its block; any other ends the claim.
LEMMA SettledStep ==
    ASSUME TypeOK, Below, Settled, [Next]_vars
    PROVE  Settled'
<1>1. CASE Visit
  <2>1. SUFFICES ASSUME ~ changes', NEW j \in k..Len(order)
                 PROVE  Equations(order[j])'
    BY <1>1 DEF Settled, Visit, TypeOK
  <2>2. /\ ~ changes
        /\ NewIns(order[k]) = ins[order[k]] /\ NewOuts(order[k]) = outs[order[k]]
    BY <1>1, <2>1 DEF Visit, Changed
  <2>3. ins' = ins /\ outs' = outs /\ func' = func /\ order' = order
    BY <1>1, <2>2 DEF Visit, TypeOK
  <2>4. Equations(order[j])
    <3>1. CASE j = k
      <4>1. order[k] \in Blocks(func)
        BY <1>1, VisitGrows
      <4>2. outs[order[k]] = Out(order[k])
        BY <2>2, <4>1 DEF NewOuts, Out, Below
      <4>3. ins[order[k]] = Uses(func, order[k]) \union (outs[order[k]] \ Defs(func, order[k]))
        BY <2>2, <4>1 DEF NewIns, Below
      <4> QED
        BY <3>1, <4>2, <4>3 DEF Equations, Out
    <3>2. CASE j # k
      BY <1>1, <2>2, <3>2 DEF Settled, Visit, TypeOK
    <3> QED
      BY <3>1, <3>2
  <2> QED
    BY <2>3, <2>4 DEF Equations
<1>2. CASE Sweep
  BY <1>2 DEF Sweep, Settled, TypeOK
<1>3. CASE Enter \/ Leave
  BY <1>3 DEF Enter, Leave, Settled
<1>4. CASE UNCHANGED vars
  BY <1>4 DEF vars, Settled, Equations
<1> QED
  BY <1>1, <1>2, <1>3, <1>4 DEF Next

\* The analysis ends after a sweep that has passed every block.
LEMMA FixpointStep ==
    ASSUME TypeOK, Settled, Fixpoint, [Next]_vars
    PROVE  Fixpoint'
<1>1. CASE Sweep
  <2>1. SUFFICES ASSUME phase' = "done", NEW j \in 1..Len(order)
                 PROVE  Equations(order[j])
    BY <1>1 DEF Sweep, Fixpoint, Listed, Equations
  <2>2. phase = "sweep" /\ k = 0 /\ ~ changes
    BY <1>1, <2>1 DEF Sweep, Settled
  <2> QED
    BY <2>2 DEF Settled
<1>2. CASE UNCHANGED vars
  BY <1>2 DEF vars, Fixpoint, Listed, Equations
<1>3. CASE Enter \/ Leave \/ Visit
  BY <1>3 DEF Enter, Leave, Visit, Fixpoint
<1> QED
  BY <1>1, <1>2, <1>3 DEF Next

\* The invariant holds at the start.
LEMMA Initially == Init => IInv
<1> SUFFICES ASSUME Init PROVE IInv
  OBVIOUS
<1>1. func \in Funcs /\ 0 \in Blocks(func)
  BY FuncsAssumption DEF Init, Blocks
<1>2. TypeOK
  BY <1>1 DEF Init, TypeOK
<1>3. Below /\ Settled /\ Fixpoint
  BY DEF Init, Below, Settled, Fixpoint
<1> QED
  BY <1>2, <1>3 DEF IInv

\* The inductive invariant holds in every state of the analysis.
THEOREM Invariance == Spec => []IInv
<1>1. IInv /\ [Next]_vars => IInv'
  BY TypeStep, BelowStep, SettledStep, FixpointStep DEF IInv
<1> QED
  BY Initially, <1>1, PTL DEF Spec

\* The sets, the order and the position of the sweep keep their type, for
\* every function (compute_ins_and_outs, liveness.cpp:45-85).
THEOREM TypeCorrect == Spec => []TypeOK
BY Invariance, PTL DEF IInv

\* For every function: when the loop of compute_ins_and_outs ends, the data
\* flow equations hold in every block the search has listed.
THEOREM AlwaysFixpoint == Spec => []Fixpoint
BY Invariance, PTL DEF IInv

\* For every function: no register is ever called live without need.
THEOREM AlwaysLeast == Spec => []Least
<1>1. Init => Least
  BY DEF Init, Least
<1>2. IInv /\ Least /\ [Next]_vars => Least'
  <2> SUFFICES ASSUME IInv, Least, [Next]_vars PROVE Least'
    OBVIOUS
  <2>1. CASE Visit
    <3>1. func' = func /\ TypeOK
      BY <2>1 DEF Visit, IInv
    <3>2. SUFFICES ASSUME NEW r \in Regs, NEW S \in SUBSET Blocks(func), Solution(r, S),
                          NEW b \in Blocks(func)
                   PROVE  /\ r \in ins'[b] => b \in S
                          /\ r \in outs'[b] => S \intersect Succs(func, b) # {}
      <4>1. \A r \in Regs, S \in SUBSET Blocks(func) : Solution(r, S)' => Solution(r, S)
        BY <3>1 DEF Solution
      <4> QED
        BY <3>1, <4>1, ZenonT(30) DEF Least
    <3>3. \A c \in Blocks(func) : r \in ins[c] => c \in S
      BY <3>2 DEF Least
    <3>4. (r \in ins[b] => b \in S) /\ (r \in outs[b] => S \intersect Succs(func, b) # {})
      BY <3>2 DEF Least
    <3>6. r \in NewOuts(b) => S \intersect Succs(func, b) # {}
      BY <3>1, <3>3, <3>4, BlocksOfFunc DEF NewOuts
    <3>7. r \in NewIns(b) => b \in S
      BY <3>2, <3>4, <3>6 DEF NewIns, Solution
    <3>8. CASE b = order[k]
      BY <2>1, <3>1, <3>6, <3>7, <3>8, VisitGrows
    <3>9. CASE b # order[k]
      BY <2>1, <3>1, <3>4, <3>9, VisitGrows
    <3> QED
      BY <3>8, <3>9
  <2>2. CASE Enter \/ Leave \/ Sweep \/ UNCHANGED vars
    BY <2>2 DEF Enter, Leave, Sweep, vars, Least, Solution
  <2> QED
    BY <2>1, <2>2 DEF Next
<1> QED
  BY <1>1, <1>2, Invariance, PTL DEF Spec

-----------------------------------------------------------------------------
(***************************************************************************)
(* What is live according to the paths of the control flow.  Uses and Defs *)
(* say what the instructions of a block do although they leave out the     *)
(* operands that are read and written; paths need not be longer than there *)
(* are blocks; and the sets of the analysis are those of the paths.        *)
(***************************************************************************)

\* A path of n blocks from b to one that uses r, through others that do not
\* define it, and the blocks from which there is one.
Leads(p, n, b, r) ==
    /\ p[1] = b
    /\ r \in Uses(func, p[n])
    /\ \A m \in 1..(n - 1) : p[m + 1] \in Succs(func, p[m]) /\ r \notin Defs(func, p[m])

Reach(r, n) == {b \in Blocks(func) : \E p \in [1..n -> Blocks(func)] : Leads(p, n, b, r)}

\* Paths of one block, and of one block more.
LEMMA ReachOne ==
    ASSUME NEW r \in Regs, NEW b \in Blocks(func)
    PROVE  b \in Reach(r, 1) <=> r \in Uses(func, b)
<1>1. ASSUME r \in Uses(func, b) PROVE b \in Reach(r, 1)
  <2> DEFINE p == [m \in 1..1 |-> b]
  <2>1. p \in [1..1 -> Blocks(func)] /\ Leads(p, 1, b, r)
    BY <1>1 DEF Leads
  <2> QED
    BY <2>1 DEF Reach
<1> QED
  BY <1>1 DEF Reach, Leads

\* Paths of one block more.
LEMMA ReachMore ==
    ASSUME func \in Funcs, NEW r \in Regs, NEW n \in Nat \ {0}, NEW b \in Blocks(func)
    PROVE  b \in Reach(r, n + 1) <=>
             r \notin Defs(func, b) /\ \E s \in Succs(func, b) : s \in Reach(r, n)
<1>1. ASSUME NEW p \in [1..(n + 1) -> Blocks(func)], Leads(p, n + 1, b, r)
      PROVE  r \notin Defs(func, b) /\ \E s \in Succs(func, b) : s \in Reach(r, n)
  <2> DEFINE q == [m \in 1..n |-> p[m + 1]]
  <2>1. q \in [1..n -> Blocks(func)] /\ \A m \in 1..n : q[m] = p[m + 1]
    OBVIOUS
  <2> HIDE DEF q
  <2>2. p[1] = b /\ r \in Uses(func, p[n + 1])
    BY <1>1 DEF Leads
  <2>3. \A m \in 1..n : p[m + 1] \in Succs(func, p[m]) /\ r \notin Defs(func, p[m])
    BY <1>1 DEF Leads
  <2>4. p[2] \in Succs(func, b) /\ r \notin Defs(func, b) /\ q[1] = p[2]
    BY <2>1, <2>2, <2>3
  <2>5. \A m \in 1..(n - 1) : q[m + 1] \in Succs(func, q[m]) /\ r \notin Defs(func, q[m])
    <3> SUFFICES ASSUME NEW m \in 1..(n - 1)
                 PROVE  q[m + 1] \in Succs(func, q[m]) /\ r \notin Defs(func, q[m])
      OBVIOUS
    <3>1. m \in 1..n /\ m + 1 \in 1..n
      OBVIOUS
    <3>2. q[m] = p[m + 1] /\ q[m + 1] = p[(m + 1) + 1]
      BY <2>1, <3>1
    <3> QED
      BY <2>3, <3>1, <3>2
  <2>6. Leads(q, n, p[2], r)
    BY <2>1, <2>2, <2>4, <2>5 DEF Leads
  <2>7. p[2] \in Reach(r, n)
    BY <2>1, <2>6 DEF Reach
  <2> QED
    BY <2>4, <2>7
<1>2. ASSUME NEW s \in Succs(func, b), NEW p \in [1..n -> Blocks(func)], Leads(p, n, s, r),
             r \notin Defs(func, b)
      PROVE  b \in Reach(r, n + 1)
  <2> DEFINE q == [m \in 1..(n + 1) |-> IF m = 1 THEN b ELSE p[m - 1]]
  <2>1. q \in [1..(n + 1) -> Blocks(func)] /\ q[1] = b /\ \A m \in 1..n : q[m + 1] = p[m]
    OBVIOUS
  <2> HIDE DEF q
  <2>2. p[1] = s /\ r \in Uses(func, p[n])
    BY <1>2 DEF Leads
  <2>3. \A m \in 1..(n - 1) : p[m + 1] \in Succs(func, p[m]) /\ r \notin Defs(func, p[m])
    BY <1>2 DEF Leads
  <2>4. \A m \in 1..n : q[m + 1] \in Succs(func, q[m]) /\ r \notin Defs(func, q[m])
    <3> SUFFICES ASSUME NEW m \in 1..n
                 PROVE  q[m + 1] \in Succs(func, q[m]) /\ r \notin Defs(func, q[m])
      OBVIOUS
    <3>1. CASE m = 1
      BY <1>2, <2>1, <2>2, <3>1
    <3>2. CASE m # 1
      <4>1. m - 1 \in 1..(n - 1) /\ m - 1 \in 1..n /\ (m - 1) + 1 = m
        BY <3>2
      <4>2. q[m] = p[m - 1] /\ q[m + 1] = p[m]
        BY <2>1, <4>1
      <4> QED
        BY <2>3, <4>1, <4>2
    <3> QED
      BY <3>1, <3>2
  <2>5. q[n + 1] = p[n]
    BY <2>1
  <2>6. Leads(q, n + 1, b, r)
    BY <2>1, <2>2, <2>4, <2>5 DEF Leads
  <2> QED
    BY <2>1, <2>6 DEF Reach
<1> QED
  BY <1>1, <1>2 DEF Reach

\* A path longer than there are blocks goes through one of them twice and
\* can leave out what is between.
LEMMA ReachShorter ==
    ASSUME func \in Funcs, NEW r \in Regs, NEW n \in Nat, n > Len(func.blocks),
           NEW b \in Reach(r, n)
    PROVE  \E m \in 1..(n - 1) : b \in Reach(r, m)
<1>0. Len(func.blocks) \in Nat \ {0}
  BY FuncsAssumption DEF WellFormed
<1>1. PICK p \in [1..n -> Blocks(func)] : Leads(p, n, b, r)
  BY DEF Reach
<1>2. PICK i \in 1..n, j \in 1..n : i < j /\ p[i] = p[j]
  <2>1. IsFiniteSet(1..n) /\ Cardinality(1..n) = n
    BY <1>0, FS_Interval
  <2>2. IsFiniteSet(Blocks(func)) /\ Cardinality(Blocks(func)) = Len(func.blocks)
    <3>1. PICK last \in Int : last = Len(func.blocks) - 1 /\ last >= 0
      BY <1>0
    <3>2. \A x, y \in Int : IsFiniteSet(x..y) /\ Cardinality(x..y) = IF x > y THEN 0 ELSE y - x + 1
      BY FS_Interval
    <3>4. PICK zero \in Int : zero = 0
      OBVIOUS
    <3>5. IsFiniteSet(zero..last) /\ Cardinality(zero..last) = IF zero > last THEN 0 ELSE last - zero + 1
      BY <3>2
    <3>3. IsFiniteSet(0..last) /\ Cardinality(0..last) = last + 1
      BY <3>1, <3>4, <3>5
    <3> QED
      BY <1>0, <3>1, <3>3 DEF Blocks
  <2>3. \E i, j \in 1..n : i # j /\ p[i] = p[j]
    BY <1>0, <2>1, <2>2, FS_PigeonHole
  <2>4. PICK i \in 1..n, j \in 1..n : i # j /\ p[i] = p[j]
    BY <2>3
  <2> QED
    BY <2>4
<1> DEFINE d == j - i
           q == [m \in 1..(n - d) |-> IF m <= i THEN p[m] ELSE p[m + d]]
<1>3. d \in 1..(n - 1) /\ j = i + d /\ n - d \in 1..(n - 1) /\ i + d <= n
  BY <1>2
<1> HIDE DEF d
<1>4. /\ q \in [1..(n - d) -> Blocks(func)]
      /\ \A m \in 1..(n - d) : q[m] = IF m <= i THEN p[m] ELSE p[m + d]
  BY <1>3
<1> HIDE DEF q
<1>5. b \in Blocks(func) /\ p[1] = b /\ r \in Uses(func, p[n])
  BY <1>1 DEF Leads, Reach
<1>6. \A m \in 1..(n - 1) : p[m + 1] \in Succs(func, p[m]) /\ r \notin Defs(func, p[m])
  BY <1>1 DEF Leads
<1>7. q[1] = b
  BY <1>3, <1>4, <1>5
<1>8. q[n - d] = p[n]
  <2>1. CASE n - d <= i
    <3>1. n - d = i /\ j = n
      BY <1>3, <2>1
    <3> QED
      BY <1>2, <1>3, <1>4, <3>1
  <2>2. CASE n - d > i
    BY <1>3, <1>4, <2>2
  <2> QED
    BY <1>3, <2>1, <2>2
<1>9. ASSUME NEW m \in 1..((n - d) - 1)
      PROVE  q[m + 1] \in Succs(func, q[m]) /\ r \notin Defs(func, q[m])
  <2>0. m \in 1..(n - d) /\ m + 1 \in 1..(n - d) /\ m \in 1..(n - 1)
    BY <1>3
  <2>1. CASE m < i
    <3>1. q[m] = p[m] /\ q[m + 1] = p[m + 1]
      BY <1>4, <2>0, <2>1
    <3> QED
      BY <1>6, <2>0, <3>1
  <2>2. CASE m = i
    <3>1. q[m] = p[i + d] /\ q[m + 1] = p[(i + d) + 1] /\ i + d \in 1..(n - 1)
      BY <1>2, <1>3, <1>4, <2>0, <2>2
    <3> QED
      BY <1>6, <3>1
  <2>3. CASE m > i
    <3>1. q[m] = p[m + d] /\ q[m + 1] = p[(m + d) + 1] /\ m + d \in 1..(n - 1)
      BY <1>3, <1>4, <2>0, <2>3
    <3> QED
      BY <1>6, <3>1
  <2> QED
    BY <2>1, <2>2, <2>3
<1>10. Leads(q, n - d, b, r)
  BY <1>5, <1>7, <1>8, <1>9 DEF Leads
<1> QED
  BY <1>3, <1>4, <1>5, <1>10 DEF Reach

\* A path need not enter a block twice.
LEMMA ReachShort ==
    ASSUME func \in Funcs, NEW r \in Regs, NEW n \in Nat \ {0}, NEW b \in Reach(r, n)
    PROVE  \E m \in 1..Len(func.blocks) : b \in Reach(r, m)
<1> DEFINE S == {m \in Nat \ {0} : b \in Reach(r, m)}
<1>1. S \subseteq Nat /\ n \in S
  OBVIOUS
<1>2. PICK m \in S : \A l \in S : m <= l
  BY <1>1, LeastNumber
<1>3. Len(func.blocks) \in Nat \ {0}
  BY FuncsAssumption DEF WellFormed
<1>4. CASE m > Len(func.blocks)
  <2>1. PICK l \in 1..(m - 1) : b \in Reach(r, l)
    BY <1>2, <1>4, ReachShorter
  <2> QED
    BY <1>2, <2>1
<1> QED
  BY <1>2, <1>3, <1>4

\* The paths of LiveIn are those.
LEMMA LiveInReach ==
    ASSUME func \in Funcs, NEW r \in Regs, NEW b \in Blocks(func)
    PROVE  LiveIn(b, r) <=> \E n \in 1..Len(func.blocks) : b \in Reach(r, n)
<1>0. Len(func.blocks) \in Nat \ {0}
  BY FuncsAssumption DEF WellFormed
<1>1. \A c \in Blocks(func) :
        /\ ReadFirst(func, c, r) <=> r \in Uses(func, c)
        /\ (\A i \in Instrs(func, c) : ~ Writes(func, c, i, r)) <=> r \notin Defs(func, c)
  BY FuncsAssumption, ReadsAreUses, WritesAreDefs
<1>2. ASSUME NEW n \in 1..Len(func.blocks), NEW p \in [1..n -> Blocks(func)]
      PROVE  Leads(p, n, b, r) <=>
               /\ p[1] = b
               /\ ReadFirst(func, p[n], r)
               /\ \A m \in 1..(n - 1) :
                    /\ p[m + 1] \in Succs(func, p[m])
                    /\ \A i \in Instrs(func, p[m]) : ~ Writes(func, p[m], i, r)
  <2>1. p[n] \in Blocks(func) /\ \A m \in 1..(n - 1) : p[m] \in Blocks(func)
    BY <1>0, <1>2
  <2> QED
    BY <1>1, <2>1 DEF Leads
<1>3. \A n \in 1..Len(func.blocks) : \A p \in [1..n -> Blocks(func)] : Len(p) = n
  <2> SUFFICES ASSUME NEW n \in 1..Len(func.blocks), NEW p \in [1..n -> Blocks(func)] PROVE Len(p) = n
    OBVIOUS
  <2>1. n \in Nat /\ p \in Seq(Blocks(func)) /\ DOMAIN p = 1..n
    BY <1>0
  <2> QED
    BY <2>1
<1>4. ASSUME LiveIn(b, r)
      PROVE  \E n \in 1..Len(func.blocks) : b \in Reach(r, n)
  <2>1. PICK n \in 1..Len(func.blocks) : \E p \in [1..n -> Blocks(func)] :
          /\ p[1] = b
          /\ ReadFirst(func, p[n], r)
          /\ \A m \in 1..(n - 1) :
               /\ p[m + 1] \in Succs(func, p[m])
               /\ \A i \in Instrs(func, p[m]) : ~ Writes(func, p[m], i, r)
    BY <1>3, <1>4 DEF LiveIn, Paths
  <2>2. \E p \in [1..n -> Blocks(func)] : Leads(p, n, b, r)
    BY <1>2, <2>1
  <2> QED
    BY <2>2 DEF Reach
<1>5. ASSUME NEW n \in 1..Len(func.blocks), b \in Reach(r, n)
      PROVE  LiveIn(b, r)
  <2>1. PICK p \in [1..n -> Blocks(func)] : Leads(p, n, b, r)
    BY <1>5 DEF Reach
  <2>2. p \in Paths /\ Len(p) = n
    BY <1>3 DEF Paths
  <2>3. /\ p[1] = b
        /\ ReadFirst(func, p[n], r)
        /\ \A m \in 1..(n - 1) :
             /\ p[m + 1] \in Succs(func, p[m])
             /\ \A i \in Instrs(func, p[m]) : ~ Writes(func, p[m], i, r)
    BY <1>2, <2>1
  <2> QED
    BY <2>2, <2>3 DEF LiveIn
<1> QED
  BY <1>4, <1>5

\* LiveIns, which the register allocator is checked with, is what the paths
\* say, for every block.
LEMMA LiveInsReach ==
    ASSUME func \in Funcs, NEW b \in Blocks(func)
    PROVE  LiveIns(func)[b] = {r \in Regs : LiveIn(b, r)}
<1>0. Len(func.blocks) \in Nat \ {0} /\ \A c \in Blocks(func) : Succs(func, c) \subseteq Blocks(func)
  BY FuncsAssumption DEF WellFormed
<1>1. PICK g : /\ LiveIns(func) = g[Len(func.blocks)]
               /\ \A n \in 0..Len(func.blocks) : g[n] = LiveRow(func, n, g[n - 1])
  BY LiveInsRows
<1> DEFINE Right(n) == \A c \in Blocks(func), r \in Regs : r \in g[n][c] <=> \E m \in 1..n : c \in Reach(r, m)
           Typed(n) == \A c \in Blocks(func) : g[n][c] \subseteq Regs
           Wrong == {n \in 0..Len(func.blocks) : ~(Right(n) /\ Typed(n))}
<1>2. Right(0) /\ Typed(0)
  <2>1. g[0] = [c \in Blocks(func) |-> {}]
    BY <1>0, <1>1 DEF LiveRow
  <2> QED
    BY <2>1
<1>3. ASSUME NEW n \in 0..Len(func.blocks), n # 0, Right(n - 1), Typed(n - 1)
      PROVE  Right(n) /\ Typed(n)
  <2>1. \A c \in Blocks(func) :
          g[n][c] = Uses(func, c) \union ((UNION {g[n - 1][s] : s \in Succs(func, c)}) \ Defs(func, c))
    BY <1>1, <1>3 DEF LiveRow
  <2>2. Typed(n)
    BY <1>0, <1>3, <2>1 DEF Uses
  <2>3. ASSUME NEW c \in Blocks(func), NEW r \in Regs
        PROVE  r \in g[n][c] <=> \E m \in 1..n : c \in Reach(r, m)
    <3>1. r \in g[n][c] <=>
            c \in Reach(r, 1) \/ (r \notin Defs(func, c) /\ \E s \in Succs(func, c) : r \in g[n - 1][s])
      BY <2>1, ReachOne
    <3>2. \A s \in Succs(func, c) : r \in g[n - 1][s] <=> \E m \in 1..(n - 1) : s \in Reach(r, m)
      BY <1>0, <1>3
    <3>3. \A m \in Nat \ {0} : c \in Reach(r, m + 1) <=>
            r \notin Defs(func, c) /\ \E s \in Succs(func, c) : s \in Reach(r, m)
      BY ReachMore
    <3>4. ASSUME c \in Reach(r, 1) \/ (r \notin Defs(func, c) /\ \E s \in Succs(func, c) : r \in g[n - 1][s])
          PROVE  \E m \in 1..n : c \in Reach(r, m)
      <4>1. CASE c \in Reach(r, 1)
        BY <1>3, <4>1
      <4>2. CASE r \notin Defs(func, c) /\ \E s \in Succs(func, c) : r \in g[n - 1][s]
        <5>1. PICK m \in 1..(n - 1) : \E s \in Succs(func, c) : s \in Reach(r, m)
          BY <3>2, <4>2
        <5>2. c \in Reach(r, m + 1) /\ m + 1 \in 1..n
          BY <1>3, <3>3, <4>2, <5>1
        <5> QED
          BY <5>2
      <4> QED
        BY <3>4, <4>1, <4>2
    <3>5. ASSUME NEW m \in 1..n, c \in Reach(r, m), c \notin Reach(r, 1)
          PROVE  r \notin Defs(func, c) /\ \E s \in Succs(func, c) : r \in g[n - 1][s]
      <4>1. m - 1 \in Nat \ {0} /\ m - 1 \in 1..(n - 1) /\ (m - 1) + 1 = m
        BY <1>3, <3>5
      <4> QED
        BY <3>2, <3>3, <3>5, <4>1
    <3> QED
      BY <3>1, <3>4, <3>5
  <2> QED
    BY <2>2, <2>3
<1>4. Wrong = {}
  <2> SUFFICES ASSUME Wrong # {} PROVE FALSE
    OBVIOUS
  <2>1. Wrong \subseteq Nat
    BY <1>0
  <2>2. PICK n \in Wrong : \A m \in Wrong : n <= m
    BY <2>1, LeastNumber
  <2> HIDE DEF Right, Typed
  <2>3. n # 0 /\ n \in 0..Len(func.blocks) /\ n - 1 \in 0..Len(func.blocks) /\ n - 1 < n
    BY <1>0, <1>2, <2>2
  <2>4. Right(n - 1) /\ Typed(n - 1)
    BY <2>2, <2>3
  <2> QED
    BY <1>3, <2>2, <2>3, <2>4
<1>5. Right(Len(func.blocks)) /\ Typed(Len(func.blocks))
  <2> HIDE DEF Right, Typed
  <2> QED
    BY <1>0, <1>4
<1>6. \A r \in Regs : r \in LiveIns(func)[b] <=> LiveIn(b, r)
  BY <1>1, <1>5, LiveInReach
<1> QED
  BY <1>1, <1>5, <1>6

\* What the search has seen it is inside of or has listed, with everything
\* that follows; when it is over, the list is closed under control flow.
InStack == {stack[j] : j \in 1..Len(stack)}

Ordered ==
    /\ visited \subseteq InStack \union Listed
    /\ \A b \in Listed : Succs(func, b) \subseteq visited
    /\ phase # "order" => stack = <<>>

\* A step keeps Ordered.
LEMMA OrderedStep ==
    ASSUME TypeOK, Ordered, [Next]_vars
    PROVE  Ordered'
<1>1. CASE Enter
  <2>1. PICK s \in Succs(func, Head(stack)) \ visited :
          visited' = visited \union {s} /\ stack' = <<s>> \o stack
    BY <1>1 DEF Enter
  <2>2. stack \in Seq(Blocks(func)) /\ Len(stack') = Len(stack) + 1 /\ stack'[1] = s
        /\ \A j \in 1..Len(stack) : stack'[j + 1] = stack[j]
    BY <2>1 DEF TypeOK
  <2>3. InStack \subseteq InStack' /\ s \in InStack'
    <3>1. ASSUME NEW j \in 1..Len(stack) PROVE stack[j] \in InStack'
      <4>1. j + 1 \in 1..Len(stack')
        BY <2>2
      <4> QED
        BY <2>2, <4>1 DEF InStack
    <3>2. s \in InStack'
      BY <2>2 DEF InStack
    <3> QED
      BY <3>1, <3>2 DEF InStack
  <2>4. Listed' = Listed /\ phase' = "order" /\ func' = func
    BY <1>1 DEF Enter, Listed
  <2> QED
    BY <2>1, <2>3, <2>4 DEF Ordered
<1>2. CASE Leave
  <2>1. /\ stack \in Seq(Blocks(func)) /\ stack # <<>> /\ order \in Seq(Blocks(func))
        /\ order' = Append(order, Head(stack)) /\ stack' = Tail(stack)
        /\ visited' = visited /\ func' = func /\ phase' = "order"
        /\ Succs(func, Head(stack)) \subseteq visited
    BY <1>2 DEF Leave, TypeOK
  <2>2. Listed' = Listed \union {Head(stack)}
    <3>1. /\ Len(order') = Len(order) + 1
          /\ order'[Len(order) + 1] = Head(stack)
          /\ \A j \in 1..Len(order) : order'[j] = order[j]
      BY <2>1
    <3>2. \A j \in 1..Len(order') : j \in 1..Len(order) \/ j = Len(order) + 1
      BY <2>1, <3>1
    <3>3. 1..Len(order) \subseteq 1..Len(order') /\ Len(order) + 1 \in 1..Len(order')
      BY <2>1, <3>1
    <3> QED
      BY <3>1, <3>2, <3>3 DEF Listed
  <2>3. InStack \subseteq InStack' \union {Head(stack)}
    <3>1. \A j \in 1..Len(stack) : j = 1 \/ (j - 1 \in 1..Len(stack') /\ stack'[j - 1] = stack[j])
      BY <2>1
    <3>2. stack[1] = Head(stack)
      BY <2>1
    <3>3. \A j \in 1..Len(stack') : stack'[j] \in InStack'
      BY DEF InStack
    <3> QED
      BY <3>1, <3>2, <3>3, SMTT(60) DEF InStack
  <2> QED
    BY <2>1, <2>2, <2>3 DEF Ordered
<1>3. CASE Sweep
  BY <1>3 DEF Sweep, Ordered, InStack, Listed
<1>4. CASE Visit
  BY <1>4 DEF Visit, Ordered, InStack, Listed
<1>5. CASE UNCHANGED vars
  BY <1>5 DEF vars, Ordered, InStack, Listed
<1> QED
  BY <1>1, <1>2, <1>3, <1>4, <1>5 DEF Next

\* Ordered holds at the start.
LEMMA OrderedAtFirst == Init => Ordered
<1> SUFFICES ASSUME Init PROVE Ordered
  OBVIOUS
<1>1. InStack = {0} /\ Listed = {}
  BY DEF Init, InStack, Listed
<1> QED
  BY <1>1 DEF Init, Ordered

\* Where a path from a listed block uses a register, the equations have made
\* it live at the block.
LEMMA ReachedIsLive ==
    ASSUME IInv, Ordered, phase = "done", NEW r \in Regs, NEW b \in Listed,
           NEW n \in Nat \ {0}, b \in Reach(r, n)
    PROVE  r \in ins[b]
<1> DEFINE S == {m \in Nat \ {0} : \E c \in Listed : c \in Reach(r, m) /\ r \notin ins[c]}
<1>0. func \in Funcs /\ Listed \subseteq Blocks(func)
  BY DEF IInv, TypeOK, Listed
<1>1. /\ \A c \in Listed : Equations(c)
      /\ \A c \in Listed : Succs(func, c) \subseteq Listed
  <2>1. InStack = {}
    BY DEF Ordered, InStack
  <2> QED
    BY <2>1 DEF IInv, Fixpoint, Ordered
<1>2. S = {}
  <2> SUFFICES ASSUME S # {} PROVE FALSE
    OBVIOUS
  <2>1. PICK m \in S : \A l \in S : m <= l
    BY LeastNumber
  <2>2. PICK c \in Listed : c \in Reach(r, m) /\ r \notin ins[c]
    BY <2>1
  <2>3. ins[c] = Uses(func, c) \union ((UNION {ins[s] : s \in Succs(func, c)}) \ Defs(func, c))
    BY <1>1, <2>2 DEF Equations
  <2>4. m # 1
    BY <1>0, <2>2, <2>3, ReachOne
  <2>5. m - 1 \in Nat \ {0} /\ (m - 1) + 1 = m /\ m - 1 < m
    BY <2>1, <2>4
  <2>6. r \notin Defs(func, c) /\ \E s \in Succs(func, c) : s \in Reach(r, m - 1)
    BY <1>0, <2>2, <2>5, ReachMore
  <2>7. PICK s \in Succs(func, c) : s \in Reach(r, m - 1)
    BY <2>6
  <2>8. s \in Listed /\ m - 1 \notin S
    BY <1>1, <2>1, <2>2, <2>5, <2>7
  <2>9. r \in ins[s]
    BY <2>5, <2>7, <2>8
  <2> QED
    BY <2>2, <2>3, <2>6, <2>7, <2>9
<1> QED
  BY <1>2

\* What the analysis has found anywhere some path needs: the blocks with a
\* path to a use solve the equations, and the analysis finds the least
\* solution.
LEMMA LiveIsReached ==
    ASSUME IInv, Least, NEW r \in Regs, NEW b \in Blocks(func), r \in ins[b]
    PROVE  \E n \in Nat \ {0} : b \in Reach(r, n)
<1> DEFINE S == {c \in Blocks(func) : \E n \in Nat \ {0} : c \in Reach(r, n)}
<1>1. func \in Funcs
  BY DEF IInv, TypeOK
<1>2. Solution(r, S)
  <2> SUFFICES ASSUME NEW c \in Blocks(func), c \notin S
               PROVE  /\ r \notin Uses(func, c)
                      /\ r \in Defs(func, c) \/ S \intersect Succs(func, c) = {}
    BY DEF Solution
  <2>1. r \notin Uses(func, c)
    BY ReachOne
  <2>2. ASSUME r \notin Defs(func, c), NEW s \in Succs(func, c), s \in S
        PROVE  FALSE
    <3>1. PICK n \in Nat \ {0} : s \in Reach(r, n)
      BY <2>2
    <3>2. c \in Reach(r, n + 1) /\ n + 1 \in Nat \ {0}
      BY <1>1, <2>2, <3>1, ReachMore
    <3> QED
      BY <3>2
  <2> QED
    BY <2>1, <2>2
<1>3. S \in SUBSET Blocks(func)
  OBVIOUS
<1> HIDE DEF S
<1>4. b \in S
  BY <1>2, <1>3 DEF Least
<1> QED
  BY <1>4 DEF S

\* For every function: a register is live at the start of a block that the
\* search has listed if and only if some path from there reads it before
\* writing it, and the sets are the ones that LiveIns hands to the allocator
\* (compute_ins_and_outs and collect_uses_and_defs, liveness.cpp:20-85).
THEOREM InsAlwaysExact == Spec => []LiveInsExact
<1>1. Spec => []Ordered
  <2>1. TypeOK /\ Ordered /\ [Next]_vars => Ordered'
    BY OrderedStep
  <2> QED
    BY OrderedAtFirst, <2>1, TypeCorrect, PTL DEF Spec
<1>2. IInv /\ Ordered /\ Least => LiveInsExact
  <2> SUFFICES ASSUME IInv, Ordered, Least, phase = "done", NEW b \in Listed
               PROVE  ins[b] = {r \in Regs : LiveIn(b, r)} /\ ins[b] = LiveIns(func)[b]
    BY DEF LiveInsExact
  <2>1. func \in Funcs /\ b \in Blocks(func) /\ ins[b] \subseteq Regs
    BY DEF IInv, TypeOK, Listed
  <2>2. Len(func.blocks) \in Nat
    BY <2>1, FuncsAssumption DEF WellFormed
  <2>3. ASSUME NEW r \in Regs
        PROVE  r \in ins[b] <=> LiveIn(b, r)
    <3>1. ASSUME LiveIn(b, r) PROVE r \in ins[b]
      <4>1. PICK n \in 1..Len(func.blocks) : b \in Reach(r, n)
        BY <2>1, <3>1, LiveInReach
      <4>2. n \in Nat \ {0}
        BY <2>2
      <4> QED
        BY <4>1, <4>2, ReachedIsLive
    <3>2. ASSUME r \in ins[b] PROVE LiveIn(b, r)
      <4>1. PICK n \in Nat \ {0} : b \in Reach(r, n)
        BY <2>1, <3>2, LiveIsReached
      <4>2. \E m \in 1..Len(func.blocks) : b \in Reach(r, m)
        BY <2>1, <4>1, ReachShort
      <4> QED
        BY <2>1, <4>2, LiveInReach
    <3> QED
      BY <3>1, <3>2
  <2>4. LiveIns(func)[b] = {r \in Regs : LiveIn(b, r)}
    BY <2>1, LiveInsReach
  <2> QED
    BY <2>1, <2>3, <2>4
<1> QED
  BY <1>1, <1>2, Invariance, AlwaysLeast, PTL

\* For every function: the registers that are live at the start of the
\* blocks and the live ranges of the blocks with plain calls are exactly what
\* control flow allows (LivenessAnalysis::compute, liveness.cpp).
THEOREM AlwaysExact == Spec => []Exact
<1>1. Spec => []Ordered
  <2>1. TypeOK /\ Ordered /\ [Next]_vars => Ordered'
    BY OrderedStep
  <2> QED
    BY OrderedAtFirst, <2>1, TypeCorrect, PTL DEF Spec
<1>2. IInv /\ Ordered /\ LiveInsExact => RangesExact
  <2> SUFFICES ASSUME IInv, Ordered, LiveInsExact, phase = "done",
                      NEW b \in Listed, Block(func, b) # <<>>, PlainCalls(func, b, LiveAtEnd(b)), NEW r \in Regs
               PROVE  Covered(b, r) = Needed(func, b, r, LiveAtEnd(b))
    BY DEF RangesExact, RangesRight
  <2>1. func \in Funcs /\ b \in Blocks(func) /\ TypeOK /\ Equations(b) /\ WellFormed(func)
    BY FuncsAssumption DEF IInv, TypeOK, Listed, Fixpoint
  <2>2. Succs(func, b) \subseteq Listed
    <3>1. InStack = {}
      BY DEF Ordered, InStack
    <3> QED
      BY <3>1 DEF Ordered
  <2>3. outs[b] = LiveAtEnd(b)
    <3>1. \A c \in Succs(func, b) : \A q \in Regs : q \in ins[c] <=> LiveIn(c, q)
      BY <2>2 DEF LiveInsExact
    <3>2. outs[b] \subseteq Regs
      BY <2>1 DEF TypeOK
    <3> QED
      BY <2>1, <3>1, <3>2 DEF Equations, LiveAtEnd
  <2>4. ASSUME NEW q \in Regs
        PROVE  q \in ins[b] <=> NeededAt(func, b, 0, q, LiveAtEnd(b))
    BY <2>1, <2>3, NeededAtStart DEF Equations
  <2>5. LiveAtEnd(b) \in SUBSET Regs
    BY DEF LiveAtEnd
  <2>6. Cover(PreciseRanges(func, b, ins[b], LiveAtEnd(b)).ranges[r]) = Needed(func, b, r, LiveAtEnd(b))
    BY <2>1, <2>4, <2>5, RangesOfBlock
  <2> QED
    BY <2>3, <2>6 DEF Covered, Cover
<1> QED
  BY <1>1, <1>2, Invariance, InsAlwaysExact, PTL DEF Exact
==============================================================================
