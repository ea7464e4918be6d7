-------------------------- MODULE BinaryBuilderProofs --------------------------
(***************************************************************************)
(* For every program and every distance: a branch that was relaxed never   *)
(* fits into one byte again, and if each JG is near enough to its block,   *)
(* every branch of the finished text section reaches its own, and calls    *)
(* and symbols agree with the bytes.                                       *)
(*                                                                         *)
(* The argument has three parts.  Where an item lies is known from the     *)
(* slice it begins in and the bytes of that slice before it (Placement),   *)
(* which no phase changes.  The offsets of the slices are at every moment  *)
(* the sums of the sizes before them (Offsets).  A pass of                 *)
(* apply_relaxation that changes nothing has seen every near branch fit    *)
(* (NearFits), and pushing slices out only moves the target of a far one   *)
(* away (FarAway).  That the recursive sum ItemAt gives the same places is *)
(* shown by the least item for which it would not.  What encode may be    *)
(* given is WellFormed, assumed of the constants in BinaryBuilder.         *)
(*                                                                         *)
(* A JG that is too far is never relaxed; resolve_relaxable_slice makes it *)
(* longer when nothing is moved any more.  All the parts hold until then,  *)
(* and afterwards as long as there is no such JG: what is inductive is     *)
(* JgsFit => IInv.                                                         *)
(***************************************************************************)
EXTENDS BinaryBuilder, FiniteSetTheorems, NaturalsInduction, TLAPS

\* The items that are encoded are those before this one.
Reached == IF phase = "encode" THEN next ELSE Len(items) + 1

\* The slice in which item k begins: of plain bytes, the one before the
\* branch if the item is a branch.
Before(k) == BranchSlice(k - 1) + 1

IsBranch(k) == items[k].kind = "branch"

\* The bytes of an item that is encoded in place.
Bytes(k) == CASE items[k].kind = "symbol" -> 0
              [] items[k].kind = "plain" -> items[k].size
              [] items[k].kind = "call" -> 5

Slice == [size : Nat, branch : BOOLEAN, opcode : Nat, target : Symbols \cup {0}, at : Nat, value : Int]
Use == [slice : Nat, at : Nat, target : Symbols \cup Externals, value : Int, resolved : BOOLEAN]
Phases == {"encode", "offsets", "relax", "resolve", "bake", "done"}

TypeOK ==
    /\ items \in Programs
    /\ phase \in Phases
    /\ next \in Nat \ {0}
    /\ phase = "encode" => next <= Len(items) + 1
    /\ slices \in Seq(Slice)
    /\ offsets \in Seq(Int)
    /\ defs \in [Symbols -> [slice : Nat, local : Nat]]
    /\ uses \subseteq Use
    /\ continue \in BOOLEAN

\* Every item has its place: "local" bytes behind the beginning of the plain
\* slice it begins in.  The symbols and the calls were recorded there, and a
\* branch ends that slice and has the next one for itself.
ItemsPlaced(local) == \A k \in 1..(Reached - 1) :
    /\ ~ IsBranch(k) => local[k + 1] = local[k] + Bytes(k)
    /\ IsBranch(k) => /\ local[k + 1] = 0
                      /\ slices[Before(k)].size = local[k]
                      /\ ~ slices[Before(k)].branch
                      /\ slices[BranchSlice(k)].branch
                      /\ slices[BranchSlice(k)].target = items[k].target
    /\ items[k].kind = "symbol" =>
           defs[items[k].name] = [slice |-> Before(k), local |-> local[k]]

UseOf(u, k, local) ==
    u.slice = Before(k) /\ u.at = local[k] + 1 /\ u.target = items[k].target

CallsPlaced(local) ==
    /\ \A k \in 1..(Reached - 1) : items[k].kind = "call" => \E u \in uses : UseOf(u, k, local)
    /\ \A u \in uses : \E k \in 1..(Reached - 1) : items[k].kind = "call" /\ UseOf(u, k, local)

\* The next item goes to the end of the last slice.
EndPlaced(local) ==
    /\ Last = Before(Reached)
    /\ ~ slices[Last].branch
    /\ slices[Last].size = local[Reached]

Placement(local) ==
    local[1] = 0 /\ ItemsPlaced(local) /\ CallsPlaced(local) /\ EndPlaced(local)

Placed == \E local \in [1..Reached -> Nat] : Placement(local)

\* A branch is as it was made, or as relax_jmp or relax_jcc left it, and
\* goes to a symbol.
Shape == \A k \in DOMAIN slices : slices[k].branch =>
    /\ slices[k].target \in Symbols
    /\ \/ slices[k].opcode \in RelaxableJcc \cup {Jg, NearJmp} /\ slices[k].size = 2 /\ slices[k].at = 1
       \/ slices[k].opcode = FarJmp /\ slices[k].size = 5 /\ slices[k].at = 1
       \/ slices[k].opcode = FarJcc /\ slices[k].size = 6 /\ slices[k].at = 2

Far(k) == slices[k].branch /\ FieldWidth(slices[k].opcode) = 4
Near(k) == slices[k].branch /\ FieldWidth(slices[k].opcode) = 1 /\ slices[k].opcode # Jg

NearAtFirst == phase \in {"encode", "offsets"} =>
    \A k \in DOMAIN slices : ~ Far(k)

\* Symbols are attached within plain slices.
DefsPlain == \A s \in Symbols :
    /\ defs[s].slice \in DOMAIN slices
    /\ ~ slices[defs[s].slice].branch
    /\ defs[s].local <= slices[defs[s].slice].size

\* The offsets are the sums of the sizes, at every moment.
Offsets ==
    /\ phase = "encode" => offsets = <<>>
    /\ phase = "offsets" => Len(offsets) = next - 1 /\ next <= Last + 1
    /\ phase \in {"relax", "resolve", "bake", "done"} => Len(offsets) = Last
    /\ offsets # <<>> => offsets[1] = 0
    /\ \A k \in 1..(Len(offsets) - 1) : offsets[k + 1] = offsets[k] + slices[k].size
    /\ \A i, j \in 1..Len(offsets) : i < j => offsets[i] + slices[i].size <= offsets[j]

\* The target of a relaxed branch is too far ahead, or too far behind.
FarAway == phase \in {"relax", "resolve"} =>
    \A k \in DOMAIN slices : Far(k) =>
        /\ defs[slices[k].target].slice > k => compute_branch_displacement(k) > 127
        /\ defs[slices[k].target].slice < k => compute_branch_displacement(k) < -128

\* While a pass has changed nothing, the near branches it has seen fit,
\* apart from JG.
NearFits ==
    /\ phase = "relax" /\ ~ continue =>
           \A k \in DOMAIN slices : k < next /\ Near(k) => fits_in_i8(compute_branch_displacement(k))
    /\ phase = "resolve" =>
           \A k \in DOMAIN slices : Near(k) => fits_in_i8(compute_branch_displacement(k))

\* After resolve_internal_symbols the fields hold the distances.
BranchesResolved == phase \in {"bake", "done"} =>
    \A k \in DOMAIN slices : slices[k].branch => slices[k].value = compute_branch_displacement(k)

UsesResolved ==
    /\ phase \notin {"bake", "done"} => \A u \in uses : ~ u.resolved
    /\ phase \in {"bake", "done"} => \A u \in uses :
           /\ u.resolved <=> u.target \in Symbols
           /\ u.resolved => u.value = Displacement(u.slice, u.at, u.target) - 4

ModuleCreated == phase = "done" =>
    /\ symbols = [s \in Symbols |-> offsets[defs[s].slice] + defs[s].local]
    /\ relocations = {[address |-> offsets[u.slice] + u.at, symbol |-> u.target] :
                         u \in {v \in uses : ~ v.resolved}}

IInv == /\ TypeOK /\ Placed /\ Shape /\ NearAtFirst /\ DefsPlain /\ Offsets /\ FarAway /\ NearFits
        /\ BranchesResolved /\ UsesResolved /\ ModuleCreated

-----------------------------------------------------------------------------
\* A non-empty set of natural numbers has a least one.
LEMMA LeastNat ==
    ASSUME NEW T, T \subseteq Nat, T # {}
    PROVE  \E x \in T : \A y \in T : x <= y
<1> DEFINE R == {ss \in Nat \X Nat : ss[1] < ss[2]}
<1>1. OpToRel(<, Nat) = R
    BY DEF OpToRel
<1>2. IsWellFoundedOn(R, Nat)
    BY <1>1, NatLessThanWellFounded
<1>3. \A x, y \in Nat : x < y => <<x, y>> \in R
    OBVIOUS
<1> HIDE DEF R
<1>4. PICK x \in T : \A y \in T : ~ (<<y, x>> \in R)
    BY <1>2, WFMin, ZenonT(30)
<1>5. \A y \in T : ~ (y < x)
    BY <1>3, <1>4
<1> QED BY <1>5

\* The slices that the first k items need: two more for each branch.
LEMMA BranchSlices ==
    ASSUME NEW k \in Nat
    PROVE  /\ BranchSlice(0) = 0
           /\ BranchSlice(k) \in Nat
           /\ BranchSlice(k + 1) = BranchSlice(k) + (IF IsBranch(k + 1) THEN 2 ELSE 0)
<1> DEFINE Bs(n) == {j \in 1..n : IsBranch(j)}
<1>1. \A n \in Nat : BranchSlice(n) = 2 * Cardinality(Bs(n))
    BY DEF BranchSlice, IsBranch
<1>2. Bs(0) = {}
    OBVIOUS
<1>3. IsFiniteSet(Bs(k)) /\ Cardinality(Bs(k)) \in Nat
    <2>1. IsFiniteSet(1..k) /\ Bs(k) \in SUBSET (1..k)
        BY FS_Interval
    <2> HIDE DEF Bs
    <2> QED BY <2>1, FS_Subset, FS_CardinalityType
<1>4. Bs(k + 1) = IF IsBranch(k + 1) THEN Bs(k) \cup {k + 1} ELSE Bs(k)
    OBVIOUS
<1>5. k + 1 \notin Bs(k)
    OBVIOUS
<1> HIDE DEF Bs
<1>6. Cardinality(Bs(k + 1)) = Cardinality(Bs(k)) + IF IsBranch(k + 1) THEN 1 ELSE 0
    BY <1>3, <1>4, <1>5, FS_AddElement
<1>7. Cardinality(Bs(0)) = 0
    BY <1>2, FS_EmptySet
<1> QED BY <1>1, <1>3, <1>6, <1>7

\* More items need no fewer slices.
LEMMA BranchSlicesGrow ==
    ASSUME NEW k \in Nat, NEW j \in 0..k
    PROVE  BranchSlice(j) \in Nat /\ BranchSlice(j) <= BranchSlice(k)
<1> DEFINE Bs(n) == {i \in 1..n : IsBranch(i)}
<1>1. \A n \in Nat : BranchSlice(n) = 2 * Cardinality(Bs(n))
    BY DEF BranchSlice, IsBranch
<1>2. IsFiniteSet(Bs(k)) /\ IsFiniteSet(Bs(j)) /\ Bs(j) \in SUBSET Bs(k)
    <2>1. /\ IsFiniteSet(1..k) /\ Bs(k) \in SUBSET (1..k)
          /\ IsFiniteSet(1..j) /\ Bs(j) \in SUBSET (1..j)
          /\ Bs(j) \in SUBSET Bs(k)
        BY FS_Interval
    <2> HIDE DEF Bs
    <2> QED BY <2>1, FS_Subset
<1> HIDE DEF Bs
<1>3. /\ Cardinality(Bs(j)) <= Cardinality(Bs(k))
      /\ Cardinality(Bs(j)) \in Nat /\ Cardinality(Bs(k)) \in Nat
    BY <1>2, FS_Subset, FS_CardinalityType
<1> QED BY <1>1, <1>3

\* What the items of a text are.
LEMMA Items ==
    ASSUME WellFormed, items \in Programs
    PROVE  /\ Len(items) \in Nat /\ DOMAIN items = 1..Len(items)
           /\ \A k \in 1..Len(items) :
                /\ items[k].kind \in {"symbol", "plain", "call", "branch"}
                /\ items[k].kind = "symbol" => items[k].name \in Symbols
                /\ items[k].kind = "plain" => items[k].size \in Nat
                /\ items[k].kind = "call" => items[k].target \in Symbols \cup Externals
                /\ items[k].kind = "branch" => /\ items[k].target \in Symbols
                                               /\ items[k].opcode \in RelaxableJcc \cup {Jg, NearJmp}
                /\ ~ IsBranch(k) => Bytes(k) \in Nat
<1>1. items \in Seq(Item)
    BY DEF WellFormed, IsText
<1>2. \A k \in 1..Len(items) : items[k] \in Item
    BY <1>1
<1> QED BY <1>1, <1>2 DEF Item, IsBranch, Bytes

\* A symbol is attached by one item only.
LEMMA OneHome ==
    ASSUME WellFormed, items \in Programs, NEW s \in Symbols
    PROVE  \E k \in 1..Len(items) :
               /\ items[k].kind = "symbol" /\ items[k].name = s
               /\ \A j \in 1..Len(items) :
                      items[j].kind = "symbol" /\ items[j].name = s => j = k
<1>1. DOMAIN items = 1..Len(items)
    BY Items
<1> QED BY <1>1 DEF WellFormed, IsText, DefinesSymbol

\* Encoding begins with one empty slice.
LEMMA InitIInv ==
    ASSUME WellFormed, Init
    PROVE  IInv
<1>1. TypeOK
    <2>1. Len(items) \in Nat
        BY Items DEF Init
    <2>2. slices \in Seq(Slice)
        BY DEF Init, Plain, Slice
    <2>3. defs \in [Symbols -> [slice : Nat, local : Nat]]
        BY DEF Init
    <2>4. offsets \in Seq(Int) /\ uses \subseteq Use /\ next = 1
        BY DEF Init
    <2>5. items \in Programs /\ phase \in Phases /\ continue \in BOOLEAN
        BY DEF Init, Phases
    <2> QED BY <2>1, <2>2, <2>3, <2>4, <2>5 DEF TypeOK
<1>2. Placed
    <2> DEFINE loc == [k \in 1..1 |-> 0]
    <2>1. Reached = 1 /\ Before(1) = 1 /\ Last = 1
        <3>1. BranchSlice(0) = 0 /\ 1 - 1 = 0
            BY BranchSlices
        <3> QED BY <3>1 DEF Init, Reached, Before, Last
    <2>2. loc \in [1..Reached -> Nat] /\ Placement(loc)
        BY <2>1 DEF Init, Placement, ItemsPlaced, CallsPlaced, EndPlaced, Plain
    <2> QED BY <2>2 DEF Placed
<1>3. Shape /\ NearAtFirst /\ DefsPlain /\ Offsets
    BY DEF Init, Shape, NearAtFirst, DefsPlain, Offsets, Plain, Far
<1>4. FarAway /\ NearFits /\ BranchesResolved /\ UsesResolved /\ ModuleCreated
    BY DEF Init, FarAway, NearFits, BranchesResolved, UsesResolved, ModuleCreated
<1> QED BY <1>1, <1>2, <1>3, <1>4 DEF IInv

\* The branches encoded so far have slices before the last one.
LEMMA EarlierSlices ==
    ASSUME TypeOK, Reached - 1 \in Nat, NEW local, EndPlaced(local)
    PROVE  /\ Last \in Nat \ {0} /\ DOMAIN slices = 1..Last
           /\ \A k \in 1..(Reached - 1) : IsBranch(k) =>
                  /\ Before(k) \in 1..(Last - 1)
                  /\ BranchSlice(k) \in 1..(Last - 1)
                  /\ BranchSlice(k) = Before(k) + 1
<1>1. BranchSlice(Reached - 1) \in Nat /\ Last = BranchSlice(Reached - 1) + 1
    BY BranchSlices DEF EndPlaced, Before
<1>2. Last \in Nat \ {0} /\ DOMAIN slices = 1..Last
    BY <1>1 DEF TypeOK, Last
<1>3. ASSUME NEW k \in 1..(Reached - 1), IsBranch(k)
      PROVE  /\ Before(k) \in 1..(Last - 1)
             /\ BranchSlice(k) \in 1..(Last - 1)
             /\ BranchSlice(k) = Before(k) + 1
    <2>1. k - 1 \in Nat /\ k \in Nat /\ k \in 0..(Reached - 1) /\ (k - 1) + 1 = k
        OBVIOUS
    <2>2. BranchSlice(k) = BranchSlice(k - 1) + 2 /\ BranchSlice(k - 1) \in Nat
        BY <1>3, <2>1, BranchSlices
    <2>3. BranchSlice(k) <= BranchSlice(Reached - 1)
        BY <2>1, BranchSlicesGrow
    <2> QED BY <1>1, <2>2, <2>3 DEF Before
<1> QED BY <1>2, <1>3

\* resolve_symbol keeps the place and the target of a use.
LEMMA ResolvedUses ==
    ASSUME NEW u \in Use
    PROVE  /\ ResolvedUse(u).slice = u.slice
           /\ ResolvedUse(u).at = u.at
           /\ ResolvedUse(u).target = u.target
BY DEF ResolvedUse, Use

\* Where the items lie depends on no more of the slices than which of them
\* are branches and how long the others are, and not on what calls hold.
LEMMA PlacedKept ==
    ASSUME Placed, TypeOK, UNCHANGED <<items, defs>>, Reached' = Reached, Reached - 1 \in Nat,
           Last' = Last,
           \A k \in DOMAIN slices :
               /\ slices'[k].branch = slices[k].branch
               /\ slices'[k].target = slices[k].target
               /\ ~ slices[k].branch => slices'[k].size = slices[k].size,
           uses' \in {uses, {ResolvedUse(u) : u \in uses}}
    PROVE  Placed'
<1>1. PICK local \in [1..Reached -> Nat] : Placement(local)
    BY DEF Placed
<1>2. \A k : IsBranch(k)' = IsBranch(k) /\ Bytes(k)' = Bytes(k)
    BY DEF IsBranch, Bytes
<1>3. \A k : BranchSlice(k)' = BranchSlice(k) /\ Before(k)' = Before(k)
    BY DEF BranchSlice, Before
<1>4. \A k \in 1..(Reached - 1) : IsBranch(k) =>
          Before(k) \in DOMAIN slices /\ BranchSlice(k) \in DOMAIN slices
    BY <1>1, EarlierSlices DEF Placement
<1>5. Last \in DOMAIN slices
    BY <1>1, EarlierSlices DEF Placement
<1>6. \A u \in uses : \E v \in uses' : v.slice = u.slice /\ v.at = u.at /\ v.target = u.target
    <2>1. CASE uses' = uses
        BY <2>1
    <2>2. CASE uses' = {ResolvedUse(u) : u \in uses}
        BY <2>2, ResolvedUses DEF TypeOK
    <2> QED BY <2>1, <2>2
<1>7. \A v \in uses' : \E u \in uses : v.slice = u.slice /\ v.at = u.at /\ v.target = u.target
    <2>1. CASE uses' = uses
        BY <2>1
    <2>2. CASE uses' = {ResolvedUse(u) : u \in uses}
        BY <2>2, ResolvedUses DEF TypeOK
    <2> QED BY <2>1, <2>2
<1>8. ItemsPlaced(local)'
    <2>1. \A k \in 1..(Reached - 1) :
             /\ ~ IsBranch(k) => local[k + 1] = local[k] + Bytes(k)
             /\ IsBranch(k) => /\ local[k + 1] = 0
                               /\ slices'[Before(k)].size = local[k]
                               /\ ~ slices'[Before(k)].branch
                               /\ slices'[BranchSlice(k)].branch
                               /\ slices'[BranchSlice(k)].target = items[k].target
             /\ items[k].kind = "symbol" =>
                    defs[items[k].name] = [slice |-> Before(k), local |-> local[k]]
        BY <1>1, <1>4 DEF Placement, ItemsPlaced
    <2> QED BY <1>2, <1>3, <2>1 DEF ItemsPlaced
<1>9. CallsPlaced(local)'
    <2>1. \A u, k : UseOf(u, k, local)' <=> UseOf(u, k, local)
        BY <1>3 DEF UseOf
    <2>2. \A u, v, k : v.slice = u.slice /\ v.at = u.at /\ v.target = u.target =>
              (UseOf(u, k, local) <=> UseOf(v, k, local))
        BY DEF UseOf
    <2>3. \A k \in 1..(Reached - 1) : items[k].kind = "call" => \E u \in uses' : UseOf(u, k, local)
        BY <1>1, <1>6, <2>2 DEF Placement, CallsPlaced
    <2>4. \A u \in uses' : \E k \in 1..(Reached - 1) : items[k].kind = "call" /\ UseOf(u, k, local)
        BY <1>1, <1>7, <2>2 DEF Placement, CallsPlaced
    <2> QED BY <2>1, <2>3, <2>4 DEF CallsPlaced
<1>10. EndPlaced(local)'
    BY <1>1, <1>3, <1>5 DEF Placement, EndPlaced
<1>11. Placement(local)'
    BY <1>1, <1>8, <1>9, <1>10 DEF Placement
<1> QED BY <1>11 DEF Placed

-----------------------------------------------------------------------------
\* An item that is not a branch goes to the end of the last slice.
LEMMA InPlace ==
    ASSUME WellFormed, TypeOK, Placed, phase = "encode", next <= Len(items), ~ IsBranch(next),
           UNCHANGED <<items, phase>>, next' = next + 1, Last' = Last,
           \A k \in 1..(Last - 1) : slices'[k] = slices[k],
           ~ slices'[Last].branch, slices'[Last].size = slices[Last].size + Bytes(next),
           \A k \in 1..(next - 1) : items[k].kind = "symbol" =>
               defs'[items[k].name] = defs[items[k].name],
           items[next].kind = "symbol" =>
               defs'[items[next].name] = [slice |-> Last, local |-> slices[Last].size],
           NEW u, items[next].kind = "call" =>
               /\ u.slice = Last /\ u.at = slices[Last].size + 1
               /\ u.target = items[next].target,
           uses' = IF items[next].kind = "call" THEN uses \cup {u} ELSE uses
    PROVE  Placed'
<1>1. PICK local \in [1..Reached -> Nat] : Placement(local)
    BY DEF Placed
<1>2. /\ Reached = next /\ Reached' = next + 1
      /\ next \in 1..Len(items) /\ next - 1 \in Nat /\ (next - 1) + 1 = next /\ (next + 1) - 1 = next
    BY Items DEF Reached, TypeOK
<1>3. Bytes(next) \in Nat /\ local[next] \in Nat
    BY <1>1, <1>2, Items, SMTT(60) DEF TypeOK
<1>4. PICK loc \in [1..(next + 1) -> Nat] :
          /\ \A k \in 1..next : loc[k] = local[k]
          /\ loc[next + 1] = local[next] + Bytes(next)
    <2> DEFINE l == [k \in 1..(next + 1) |-> IF k <= next THEN local[k] ELSE local[next] + Bytes(next)]
    <2>1. /\ l \in [1..(next + 1) -> Nat]
          /\ \A k \in 1..next : l[k] = local[k]
          /\ l[next + 1] = local[next] + Bytes(next)
        BY <1>1, <1>2, <1>3
    <2> QED BY <2>1
<1>5. /\ Last = Before(next) /\ slices[Last].size = local[next]
      /\ \A k \in 1..(next - 1) : IsBranch(k) =>
             Before(k) \in 1..(Last - 1) /\ BranchSlice(k) \in 1..(Last - 1)
    BY <1>1, <1>2, EarlierSlices DEF Placement, EndPlaced
<1>6. /\ \A k : IsBranch(k)' = IsBranch(k) /\ Bytes(k)' = Bytes(k)
      /\ \A k : BranchSlice(k)' = BranchSlice(k) /\ Before(k)' = Before(k)
    BY DEF IsBranch, Bytes, BranchSlice, Before
<1>7. Before(next + 1) = Last
    BY <1>2, <1>5, BranchSlices DEF Before
<1>8. ItemsPlaced(loc)'
    <2>1. ASSUME NEW k \in 1..next
          PROVE  /\ ~ IsBranch(k) => loc[k + 1] = loc[k] + Bytes(k)
                 /\ IsBranch(k) => /\ loc[k + 1] = 0
                                   /\ slices'[Before(k)].size = loc[k]
                                   /\ ~ slices'[Before(k)].branch
                                   /\ slices'[BranchSlice(k)].branch
                                   /\ slices'[BranchSlice(k)].target = items[k].target
                 /\ items[k].kind = "symbol" =>
                        defs'[items[k].name] = [slice |-> Before(k), local |-> loc[k]]
        <3>1. CASE k = next
            BY <1>2, <1>4, <1>5, <3>1
        <3>2. CASE k # next
            <4>1. k \in 1..(next - 1) /\ k \in 1..next /\ k + 1 \in 1..next
                BY <1>2, <3>2
            <4>2. loc[k] = local[k] /\ loc[k + 1] = local[k + 1]
                BY <1>4, <4>1
            <4>3. k \in 1..(Reached - 1)
                BY <1>2, <4>1
            <4>4. IsBranch(k) => /\ slices'[Before(k)] = slices[Before(k)]
                                 /\ slices'[BranchSlice(k)] = slices[BranchSlice(k)]
                BY <1>5, <4>1
            <4>5. items[k].kind = "symbol" => defs'[items[k].name] = defs[items[k].name]
                BY <4>1
            <4> QED BY <1>1, <4>2, <4>3, <4>4, <4>5 DEF Placement, ItemsPlaced
        <3> QED BY <3>1, <3>2
    <2> QED BY <1>2, <1>6, <2>1 DEF ItemsPlaced
<1>9. CallsPlaced(loc)'
    <2>1. \A v, k : UseOf(v, k, loc)' <=> UseOf(v, k, loc)
        BY <1>6 DEF UseOf
    <2>2. \A v : \A k \in 1..(next - 1) : UseOf(v, k, loc) <=> UseOf(v, k, local)
        BY <1>2, <1>4 DEF UseOf
    <2>3. items[next].kind = "call" => UseOf(u, next, loc)
        BY <1>2, <1>4, <1>5 DEF UseOf
    <2>4. \A k \in 1..next : items[k].kind = "call" => \E v \in uses' : UseOf(v, k, loc)
        <3>1. \A k \in 1..(next - 1) : items[k].kind = "call" => \E v \in uses : UseOf(v, k, local)
            BY <1>1, <1>2 DEF Placement, CallsPlaced
        <3>2. \A k \in 1..next : k \in 1..(next - 1) \/ k = next
            BY <1>2
        <3> QED BY <2>2, <2>3, <3>1, <3>2
    <2>5. \A v \in uses' : \E k \in 1..next : items[k].kind = "call" /\ UseOf(v, k, loc)
        <3>1. \A v \in uses : \E k \in 1..(next - 1) : items[k].kind = "call" /\ UseOf(v, k, local)
            BY <1>1, <1>2 DEF Placement, CallsPlaced
        <3>2. \A k \in 1..(next - 1) : k \in 1..next
            BY <1>2
        <3>3. \A v \in uses : \E k \in 1..next : items[k].kind = "call" /\ UseOf(v, k, loc)
            BY <2>2, <3>1, <3>2
        <3>4. next \in 1..next
            BY <1>2
        <3> QED BY <2>3, <3>3, <3>4
    <2> QED BY <1>2, <2>1, <2>4, <2>5 DEF CallsPlaced
<1>10. EndPlaced(loc)'
    BY <1>2, <1>4, <1>5, <1>6, <1>7 DEF EndPlaced
<1>11. Placement(loc)'
    BY <1>1, <1>2, <1>4, <1>8, <1>9, <1>10 DEF Placement
<1> QED BY <1>2, <1>4, <1>11 DEF Placed

\* A branch ends the last slice: it gets one of its own, and an empty one
\* follows.
LEMMA BranchPlaced ==
    ASSUME WellFormed, TypeOK, Placed, EncodeBranch
    PROVE  Placed'
<1>1. PICK local \in [1..Reached -> Nat] : Placement(local)
    BY DEF Placed
<1>2. /\ Reached = next /\ Reached' = next + 1 /\ IsBranch(next)
      /\ next \in 1..Len(items) /\ next - 1 \in Nat /\ (next - 1) + 1 = next /\ (next + 1) - 1 = next
    BY Items DEF Reached, TypeOK, EncodeBranch, Encoding, IsBranch
<1>3. PICK loc \in [1..(next + 1) -> Nat] :
          (\A k \in 1..next : loc[k] = local[k]) /\ loc[next + 1] = 0
    <2> DEFINE l == [k \in 1..(next + 1) |-> IF k <= next THEN local[k] ELSE 0]
    <2>1. /\ l \in [1..(next + 1) -> Nat]
          /\ (\A k \in 1..next : l[k] = local[k]) /\ l[next + 1] = 0
        BY <1>1, <1>2
    <2> QED BY <2>1
<1>4. /\ Last = Before(next) /\ slices[Last].size = local[next] /\ ~ slices[Last].branch
      /\ \A k \in 1..(next - 1) : IsBranch(k) =>
             Before(k) \in 1..(Last - 1) /\ BranchSlice(k) \in 1..(Last - 1)
      /\ Last \in Nat \ {0}
    BY <1>1, <1>2, EarlierSlices DEF Placement, EndPlaced
<1>5. /\ \A k : IsBranch(k)' = IsBranch(k) /\ Bytes(k)' = Bytes(k)
      /\ \A k : BranchSlice(k)' = BranchSlice(k) /\ Before(k)' = Before(k)
    BY DEF IsBranch, Bytes, BranchSlice, Before, EncodeBranch
<1>6. Before(next + 1) = Last + 2 /\ BranchSlice(next) = Last + 1
    <2>1. /\ BranchSlice(next) = BranchSlice(next - 1) + 2
          /\ BranchSlice(next - 1) \in Nat
        BY <1>2, BranchSlices
    <2> QED BY <1>2, <1>4, <2>1 DEF Before
<1>7. /\ Last' = Last + 2
      /\ \A k \in 1..Last : slices'[k] = slices[k]
      /\ slices'[Last + 1] = Branch(items[next].opcode, items[next].target)
      /\ slices'[Last + 2] = Plain(0)
    BY <1>4 DEF EncodeBranch, Last, TypeOK
<1>8. ItemsPlaced(loc)'
    <2>1. ASSUME NEW k \in 1..next
          PROVE  /\ ~ IsBranch(k) => loc[k + 1] = loc[k] + Bytes(k)
                 /\ IsBranch(k) => /\ loc[k + 1] = 0
                                   /\ slices'[Before(k)].size = loc[k]
                                   /\ ~ slices'[Before(k)].branch
                                   /\ slices'[BranchSlice(k)].branch
                                   /\ slices'[BranchSlice(k)].target = items[k].target
                 /\ items[k].kind = "symbol" =>
                        defs[items[k].name] = [slice |-> Before(k), local |-> loc[k]]
        <3>1. CASE k = next
            BY <1>2, <1>3, <1>4, <1>6, <1>7, <3>1 DEF Branch, IsBranch
        <3>2. CASE k # next
            <4>1. k \in 1..(next - 1) /\ k \in 1..next /\ k + 1 \in 1..next
                BY <1>2, <3>2
            <4>2. \A j \in 1..(Last - 1) : slices'[j] = slices[j]
                BY <1>4, <1>7
            <4>3. loc[k] = local[k] /\ loc[k + 1] = local[k + 1]
                BY <1>3, <4>1
            <4>4. k \in 1..(Reached - 1)
                BY <1>2, <4>1
            <4>5. IsBranch(k) => /\ slices'[Before(k)] = slices[Before(k)]
                                 /\ slices'[BranchSlice(k)] = slices[BranchSlice(k)]
                BY <1>4, <4>1, <4>2
            <4> QED BY <1>1, <4>3, <4>4, <4>5 DEF Placement, ItemsPlaced
        <3> QED BY <3>1, <3>2
    <2> QED BY <1>2, <1>5, <2>1 DEF ItemsPlaced, EncodeBranch
<1>9. CallsPlaced(loc)'
    <2>1. \A v, k : UseOf(v, k, loc)' <=> UseOf(v, k, loc)
        BY <1>5 DEF UseOf, EncodeBranch
    <2>2. \A v : \A k \in 1..(next - 1) : UseOf(v, k, loc) <=> UseOf(v, k, local)
        BY <1>2, <1>3 DEF UseOf
    <2>3. \A k \in 1..(next - 1) : items[k].kind = "call" => \E v \in uses : UseOf(v, k, loc)
        BY <1>1, <1>2, <2>2 DEF Placement, CallsPlaced
    <2>4. \A v \in uses : \E k \in 1..(next - 1) : items[k].kind = "call" /\ UseOf(v, k, loc)
        BY <1>1, <1>2, <2>2 DEF Placement, CallsPlaced
    <2>5. \A k \in 1..next : items[k].kind = "call" => k \in 1..(next - 1)
        BY <1>2 DEF IsBranch
    <2>6. 1..(next - 1) \subseteq 1..next
        BY <1>2
    <2> QED BY <1>2, <2>1, <2>3, <2>4, <2>5, <2>6 DEF CallsPlaced, EncodeBranch
<1>10. EndPlaced(loc)'
    BY <1>2, <1>3, <1>5, <1>6, <1>7 DEF EndPlaced, Plain
<1>11. Placement(loc)'
    BY <1>1, <1>2, <1>3, <1>8, <1>9, <1>10 DEF Placement
<1> QED BY <1>2, <1>3, <1>11 DEF Placed

\* While encoding, the last slice takes the next bytes.
LEMMA LastSlice ==
    ASSUME WellFormed, IInv, phase = "encode"
    PROVE  /\ Last \in Nat \ {0} /\ Last = Len(slices) /\ DOMAIN slices = 1..Last
           /\ slices[Last] \in Slice /\ ~ slices[Last].branch
           /\ offsets = <<>> /\ \A k \in DOMAIN slices : ~ Far(k)
           /\ \A u \in uses : ~ u.resolved
<1>1. PICK local \in [1..Reached -> Nat] : EndPlaced(local)
    BY DEF IInv, Placed, Placement
<1>2. Reached - 1 \in Nat
    BY DEF Reached, IInv, TypeOK
<1>3. Last \in Nat \ {0} /\ Last = Len(slices) /\ DOMAIN slices = 1..Last
    BY <1>1, <1>2, EarlierSlices DEF IInv, Last
<1>4. slices[Last] \in Slice /\ ~ slices[Last].branch
    BY <1>1, <1>3 DEF EndPlaced, IInv, TypeOK
<1> QED BY <1>3, <1>4 DEF IInv, Offsets, NearAtFirst, UsesResolved

\* Nothing is resolved or relaxed while encoding goes on.
LEMMA LaterParts ==
    ASSUME phase' = "encode" \/ phase' = "offsets"
    PROVE  (FarAway /\ NearFits /\ BranchesResolved /\ ModuleCreated)'
BY DEF FarAway, NearFits, BranchesResolved, ModuleCreated

\* Attaching a symbol adds no bytes.
LEMMA AttachIInv ==
    ASSUME WellFormed, IInv, AttachSymbolDef
    PROVE  IInv'
<1> DEFINE s == items[next].name
<1>1. /\ phase = "encode" /\ next \in 1..Len(items) /\ items[next].kind = "symbol"
      /\ s \in Symbols /\ Len(items) \in Nat
      /\ defs' = [defs EXCEPT ![s] = [slice |-> Last, local |-> slices[Last].size]]
      /\ next' = next + 1
      /\ UNCHANGED <<items, phase, slices, offsets, uses, continue, symbols, relocations>>
    BY Items DEF AttachSymbolDef, Encoding, IInv, TypeOK
<1> HIDE DEF s
<1>2. slices[Last].size \in Nat /\ Last \in Nat \ {0} /\ DOMAIN slices = 1..Last
    BY <1>1, LastSlice DEF Slice
<1>3. /\ defs'[s] = [slice |-> Last, local |-> slices[Last].size]
      /\ \A r \in Symbols : r # s => defs'[r] = defs[r]
    BY <1>1 DEF IInv, TypeOK
<1>4. TypeOK'
    <2>1. defs' \in [Symbols -> [slice : Nat, local : Nat]]
        BY <1>1, <1>2 DEF IInv, TypeOK
    <2> QED BY <1>1, <2>1 DEF IInv, TypeOK
<1>5. Placed'
    <2>1. \A k \in 1..(next - 1) : items[k].kind = "symbol" =>
              defs'[items[k].name] = defs[items[k].name]
        <3> SUFFICES ASSUME NEW k \in 1..(next - 1), items[k].kind = "symbol"
                     PROVE  defs'[items[k].name] = defs[items[k].name]
            OBVIOUS
        <3>1. k \in 1..Len(items) /\ k # next
            BY <1>1
        <3>2. items[k].name \in Symbols
            BY <3>1, Items DEF IInv, TypeOK
        <3>3. items[k].name # s
            BY <1>1, <3>1, <3>2, OneHome DEF IInv, TypeOK, s
        <3> QED BY <1>3, <3>2, <3>3
    <2>2. Last' = Last /\ \A k \in 1..(Last - 1) : slices'[k] = slices[k]
        BY <1>1 DEF Last
    <2>3. slices'[Last].size = slices[Last].size + Bytes(next)
        BY <1>1, <1>2 DEF Bytes
    <2>4. ~ IsBranch(next) /\ ~ slices'[Last].branch
        BY <1>1, LastSlice DEF IsBranch
    <2>5. defs'[items[next].name] = [slice |-> Last, local |-> slices[Last].size]
        BY <1>3 DEF s
    <2> QED BY <1>1, <2>1, <2>2, <2>3, <2>4, <2>5, InPlace DEF IInv
<1>6. (Shape /\ NearAtFirst)'
    BY <1>1 DEF IInv, Shape, NearAtFirst, Far
<1>7. DefsPlain'
    BY <1>1, <1>2, <1>3, LastSlice DEF IInv, DefsPlain
<1>8. (Offsets /\ UsesResolved)'
    BY <1>1, LastSlice DEF Offsets, UsesResolved
<1> QED BY <1>1, <1>4, <1>5, <1>6, <1>7, <1>8, LaterParts DEF IInv

\* Bytes are added behind all that refers to the last slice.
LEMMA GrowthKeeps ==
    ASSUME WellFormed, IInv, phase = "encode", NEW n \in Nat,
           slices' = [slices EXCEPT ![Last].size = @ + n], UNCHANGED defs
    PROVE  /\ slices' \in Seq(Slice) /\ Last' = Last
           /\ \A k \in 1..(Last - 1) : slices'[k] = slices[k]
           /\ ~ slices'[Last].branch /\ slices'[Last].size = slices[Last].size + n
           /\ Shape' /\ DefsPlain'
           /\ \A k \in DOMAIN slices' : ~ Far(k)'
<1>1. /\ Last \in Nat \ {0} /\ Last = Len(slices) /\ DOMAIN slices = 1..Last
      /\ slices[Last] \in Slice /\ ~ slices[Last].branch
      /\ \A k \in DOMAIN slices : ~ Far(k)
    BY LastSlice
<1>2. /\ DOMAIN slices' = 1..Last /\ Last' = Last
      /\ \A k \in 1..Last : k # Last => slices'[k] = slices[k]
      /\ slices'[Last] = [slices[Last] EXCEPT !.size = @ + n]
    <2> DEFINE longer == [slices[Last] EXCEPT !.size = @ + n]
    <2>1. longer \in Slice
        BY <1>1 DEF Slice
    <2>2. slices' = [slices EXCEPT ![Last] = longer]
        OBVIOUS
    <2> HIDE DEF longer
    <2>3. slices \in Seq(Slice)
        BY DEF IInv, TypeOK
    <2>4. /\ DOMAIN slices' = 1..Last /\ Len(slices') = Len(slices)
          /\ \A k \in 1..Last : k # Last => slices'[k] = slices[k]
          /\ slices'[Last] = longer
        BY <1>1, <2>1, <2>2, <2>3
    <2> QED BY <1>1, <2>4 DEF Last, longer
<1>3. /\ slices'[Last] \in Slice /\ ~ slices'[Last].branch
      /\ slices'[Last].size = slices[Last].size + n
      /\ slices[Last].size \in Nat
    BY <1>1, <1>2 DEF Slice
<1>4. slices' \in Seq(Slice)
    BY <1>1, <1>2, <1>3 DEF IInv, TypeOK
<1>5. Shape'
    BY <1>1, <1>2, <1>3 DEF IInv, Shape
<1>6. DefsPlain'
    <2> SUFFICES ASSUME NEW s \in Symbols
                 PROVE  /\ defs[s].slice \in DOMAIN slices'
                        /\ ~ slices'[defs[s].slice].branch
                        /\ defs[s].local <= slices'[defs[s].slice].size
        BY DEF DefsPlain
    <2>1. /\ defs[s].slice \in DOMAIN slices /\ ~ slices[defs[s].slice].branch
          /\ defs[s].local <= slices[defs[s].slice].size /\ defs[s].local \in Nat
        BY DEF IInv, DefsPlain, TypeOK
    <2> QED BY <1>1, <1>2, <1>3, <2>1
<1>7. \A k \in DOMAIN slices' : ~ Far(k)'
    BY <1>1, <1>2, <1>3 DEF Far
<1> QED BY <1>2, <1>3, <1>4, <1>5, <1>6, <1>7

\* What one item changes besides the slices.
LEMMA EncodeType ==
    ASSUME WellFormed, IInv, phase = "encode", next <= Len(items), next' = next + 1,
           slices' \in Seq(Slice), uses' \subseteq Use,
           UNCHANGED <<items, phase, offsets, defs, continue>>
    PROVE  TypeOK' /\ Offsets'
<1>1. Len(items) \in Nat /\ next \in Nat \ {0}
    BY Items DEF IInv, TypeOK
<1>2. TypeOK'
    BY <1>1 DEF IInv, TypeOK
<1>3. offsets' = <<>> /\ phase' = "encode"
    BY DEF IInv, Offsets
<1> QED BY <1>2, <1>3 DEF Offsets

\* An instruction that is encoded in place.
LEMMA PlainIInv ==
    ASSUME WellFormed, IInv, EncodePlain
    PROVE  IInv'
<1> DEFINE n == items[next].size
<1>1. /\ phase = "encode" /\ next \in 1..Len(items) /\ items[next].kind = "plain" /\ n \in Nat
      /\ slices' = [slices EXCEPT ![Last].size = @ + n] /\ next' = next + 1
      /\ UNCHANGED <<items, phase, offsets, defs, uses, continue, symbols, relocations>>
    BY Items DEF EncodePlain, Encoding, IInv, TypeOK
<1>2. Bytes(next) = n /\ ~ IsBranch(next)
    BY <1>1 DEF Bytes, IsBranch
<1> HIDE DEF n
<1>3. /\ slices' \in Seq(Slice) /\ Last' = Last
      /\ \A k \in 1..(Last - 1) : slices'[k] = slices[k]
      /\ ~ slices'[Last].branch /\ slices'[Last].size = slices[Last].size + n
      /\ Shape' /\ DefsPlain'
      /\ \A k \in DOMAIN slices' : ~ Far(k)'
    BY <1>1, GrowthKeeps
<1>4. TypeOK' /\ Offsets'
    BY <1>1, <1>3, EncodeType DEF IInv, TypeOK
<1>5. Placed'
    BY <1>1, <1>2, <1>3, InPlace DEF IInv
<1>6. NearAtFirst' /\ UsesResolved'
    BY <1>1, <1>3 DEF NearAtFirst, IInv, UsesResolved
<1> QED BY <1>1, <1>3, <1>4, <1>5, <1>6, LaterParts DEF IInv

\* A call leaves a use of its target behind.
LEMMA CallIInv ==
    ASSUME WellFormed, IInv, EncodeCall
    PROVE  IInv'
<1> DEFINE u == [slice |-> Last, at |-> slices[Last].size + 1,
                 target |-> items[next].target, value |-> 0, resolved |-> FALSE]
<1>1. /\ phase = "encode" /\ next \in 1..Len(items) /\ items[next].kind = "call"
      /\ items[next].target \in Symbols \cup Externals
      /\ slices' = [slices EXCEPT ![Last].size = @ + 5] /\ next' = next + 1
      /\ uses' = uses \cup {u}
      /\ UNCHANGED <<items, phase, offsets, defs, continue, symbols, relocations>>
    BY Items DEF EncodeCall, Encoding, IInv, TypeOK
<1>2. Bytes(next) = 5 /\ ~ IsBranch(next)
    BY <1>1 DEF Bytes, IsBranch
<1>3. /\ slices' \in Seq(Slice) /\ Last' = Last
      /\ \A k \in 1..(Last - 1) : slices'[k] = slices[k]
      /\ ~ slices'[Last].branch /\ slices'[Last].size = slices[Last].size + 5
      /\ Shape' /\ DefsPlain'
      /\ \A k \in DOMAIN slices' : ~ Far(k)'
    BY <1>1, GrowthKeeps
<1>4. /\ u \in Use /\ ~ u.resolved /\ u.slice = Last /\ u.at = slices[Last].size + 1
      /\ u.target = items[next].target
    <2>1. Last \in Nat /\ slices[Last].size \in Nat
        BY <1>1, LastSlice DEF Slice
    <2> QED BY <1>1, <2>1 DEF Use
<1> HIDE DEF u
<1>5. TypeOK' /\ Offsets'
    BY <1>1, <1>3, <1>4, EncodeType DEF IInv, TypeOK
<1>6. Placed'
    BY <1>1, <1>2, <1>3, <1>4, InPlace DEF IInv
<1>7. NearAtFirst' /\ UsesResolved'
    BY <1>1, <1>3, <1>4 DEF NearAtFirst, IInv, UsesResolved
<1> QED BY <1>1, <1>3, <1>5, <1>6, <1>7, LaterParts DEF IInv

\* A branch gets a slice of its own, and what follows another one.
LEMMA BranchIInv ==
    ASSUME WellFormed, IInv, EncodeBranch
    PROVE  IInv'
<1> DEFINE b == Branch(items[next].opcode, items[next].target)
<1>1. /\ phase = "encode" /\ next \in 1..Len(items) /\ items[next].kind = "branch"
      /\ items[next].target \in Symbols /\ items[next].opcode \in RelaxableJcc \cup {Jg, NearJmp}
      /\ slices' = Append(Append(slices, b), Plain(0)) /\ next' = next + 1
      /\ UNCHANGED <<items, phase, offsets, defs, uses, continue, symbols, relocations>>
    BY Items DEF EncodeBranch, Encoding, IInv, TypeOK
<1>2. /\ b \in Slice /\ b.branch /\ b.target \in Symbols /\ b.size = 2 /\ b.at = 1
      /\ b.opcode \in RelaxableJcc \cup {Jg, NearJmp} /\ FieldWidth(b.opcode) = 1
    <2>1. items[next].opcode \in Nat
        BY <1>1 DEF RelaxableJcc, Jg, NearJmp
    <2>2. b \in Slice
        BY <1>1, <2>1 DEF Branch, Slice
    <2>3. /\ b.branch /\ b.target \in Symbols /\ b.size = 2 /\ b.at = 1
          /\ b.opcode = items[next].opcode
        BY <1>1 DEF Branch
    <2>4. b.opcode # FarJcc /\ b.opcode # FarJmp
        BY <1>1, <2>3, SMTT(60) DEF RelaxableJcc, Jg, NearJmp, FarJcc, FarJmp
    <2>5. FieldWidth(b.opcode) = 1
        BY <2>4 DEF FieldWidth
    <2> HIDE DEF b
    <2> QED BY <1>1, <2>2, <2>3, <2>5
<1>3. Plain(0) \in Slice /\ ~ Plain(0).branch
    BY DEF Plain, Slice
<1> HIDE DEF b
<1>4. /\ slices' \in Seq(Slice) /\ DOMAIN slices' = 1..(Last + 2) /\ Last \in Nat
      /\ DOMAIN slices = 1..Last
      /\ \A k \in 1..Last : slices'[k] = slices[k]
      /\ slices'[Last + 1] = b /\ slices'[Last + 2] = Plain(0)
    <2>1. slices \in Seq(Slice)
        BY DEF IInv, TypeOK
    <2> QED BY <1>1, <1>2, <1>3, <2>1 DEF Last
<1>5. \A k \in DOMAIN slices' : k \in DOMAIN slices \/ k = Last + 1 \/ k = Last + 2
    BY <1>4
<1>6. TypeOK' /\ Offsets'
    BY <1>1, <1>4, EncodeType DEF IInv, TypeOK
<1>7. Placed'
    BY BranchPlaced DEF IInv
<1>8. Shape'
    BY <1>2, <1>3, <1>4, <1>5 DEF IInv, Shape
<1>9. DefsPlain'
    BY <1>1, <1>4 DEF IInv, DefsPlain
<1>10. NearAtFirst' /\ UsesResolved'
    <2>1. \A k \in DOMAIN slices' : ~ Far(k)'
        BY <1>1, <1>2, <1>3, <1>4, <1>5, LastSlice DEF Far
    <2> QED BY <1>1, <2>1 DEF NearAtFirst, IInv, UsesResolved
<1> QED BY <1>1, <1>6, <1>7, <1>8, <1>9, <1>10, LaterParts DEF IInv

\* All items are encoded.
LEMMA EncodingEndsIInv ==
    ASSUME WellFormed, IInv, EncodingEnds
    PROVE  IInv'
<1>1. /\ phase = "encode" /\ phase' = "offsets" /\ next' = 1 /\ next = Len(items) + 1
      /\ Len(items) \in Nat /\ offsets = <<>>
      /\ UNCHANGED <<items, slices, offsets, defs, uses, continue, symbols, relocations>>
    BY Items, LastSlice DEF EncodingEnds, IInv, TypeOK
<1>2. TypeOK'
    BY <1>1 DEF IInv, TypeOK, Phases
<1>3. Placed'
    <2>1. Reached = Len(items) + 1 /\ Reached' = Reached /\ Last' = Last /\ Reached - 1 \in Nat
        BY <1>1 DEF Reached, Last
    <2> QED BY <1>1, <2>1, PlacedKept DEF IInv
<1>4. (Shape /\ NearAtFirst /\ DefsPlain /\ UsesResolved)'
    BY <1>1 DEF IInv, Shape, NearAtFirst, DefsPlain, UsesResolved, Far
<1>5. Offsets'
    <2>1. offsets' = <<>> /\ Len(offsets') = 0
        BY <1>1
    <2>2. phase' = "offsets" /\ next' = 1
        BY <1>1
    <2>3. Len(offsets') = next' - 1 /\ next' <= Last' + 1
        <3>1. Len(offsets') = 0
            BY <2>1
        <3>2. next' = 1
            BY <2>2
        <3>3. next' - 1 = 0
            BY <3>2
        <3>4. next' <= Last' + 1
            <4>1. Last' = Last
                BY <1>1 DEF Last
            <4>2. Last \in Nat
                BY <1>1, LastSlice
            <4>3. next' <= Last + 1
                BY <3>2, <4>2
            <4> QED BY <4>1, <4>3, ZenonT(30)
        <3> QED BY <3>1, <3>3, <3>4
    <2>4. 1..Len(offsets') = {} /\ 1..(Len(offsets') - 1) = {}
        <3>1. Len(offsets') = 0
            BY <2>1
        <3> QED BY <3>1
    <2> QED BY <2>1, <2>2, <2>3, <2>4, ZenonT(30) DEF Offsets
<1> QED BY <1>1, <1>2, <1>3, <1>4, <1>5, LaterParts DEF IInv

-----------------------------------------------------------------------------
\* Once the items are encoded, the slices are laid out.
LEMMA Slices ==
    ASSUME IInv
    PROVE  /\ DOMAIN slices = 1..Last /\ Last \in Nat /\ Last = Len(slices)
           /\ \A k \in 1..Last : /\ slices[k] \in Slice
                                 /\ slices[k].size \in Nat /\ slices[k].at \in Nat
                                 /\ slices[k].opcode \in Nat
           /\ DOMAIN offsets = 1..Len(offsets) /\ Len(offsets) \in Nat
           /\ \A k \in 1..Len(offsets) : offsets[k] \in Int
           /\ next \in Nat \ {0}
<1>1. slices \in Seq(Slice) /\ offsets \in Seq(Int) /\ next \in Nat \ {0}
    BY DEF IInv, TypeOK
<1>2. DOMAIN slices = 1..Last /\ Last \in Nat /\ Last = Len(slices)
    BY <1>1 DEF Last
<1>3. \A k \in 1..Last : slices[k] \in Slice
    BY <1>1, <1>2
<1> QED BY <1>1, <1>2, <1>3 DEF Slice

\* compute_slice_offsets: an offset is the end of the slice before.
LEMMA ComputeOffsetIInv ==
    ASSUME WellFormed, IInv, ComputeSliceOffset
    PROVE  IInv'
<1> DEFINE o == IF next = 1 THEN 0 ELSE offsets[next - 1] + slices[next - 1].size
<1>1. /\ phase = "offsets" /\ phase' = "offsets" /\ next <= Last /\ next' = next + 1
      /\ offsets' = Append(offsets, o)
      /\ UNCHANGED <<items, slices, defs, uses, continue, symbols, relocations>>
    BY DEF ComputeSliceOffset
<1>2. Len(offsets) = next - 1
    BY <1>1 DEF IInv, Offsets
<1>3. o \in Int
    BY <1>1, <1>2, Slices
<1>4. next = 1 => o = 0
    OBVIOUS
<1>5. next # 1 => o = offsets[next - 1] + slices[next - 1].size
    OBVIOUS
<1> HIDE DEF o
<1>6. /\ offsets' \in Seq(Int) /\ Len(offsets') = next
      /\ \A k \in 1..(next - 1) : offsets'[k] = offsets[k]
      /\ offsets'[next] = o
    BY <1>1, <1>2, <1>3, Slices DEF IInv, TypeOK
<1>7. TypeOK'
    BY <1>1, <1>6, Slices DEF IInv, TypeOK
<1>8. Placed'
    <2>1. Reached = Len(items) + 1 /\ Reached' = Reached /\ Last' = Last /\ Reached - 1 \in Nat
        BY <1>1, Items DEF Reached, Last, IInv, TypeOK
    <2> QED BY <1>1, <2>1, PlacedKept DEF IInv
<1>9. (Shape /\ NearAtFirst /\ DefsPlain /\ UsesResolved)'
    BY <1>1 DEF IInv, Shape, NearAtFirst, DefsPlain, UsesResolved, Far
<1>10. Offsets'
    <2>1. Len(offsets') = next' - 1 /\ next' <= Last' + 1
        BY <1>1, <1>6, Slices DEF Last
    <2>2. offsets'[1] = 0
        <3>1. next # 1 => offsets # <<>> /\ 1 \in 1..(next - 1)
            BY <1>2, Slices
        <3> QED BY <1>4, <1>6, <3>1 DEF IInv, Offsets
    <2>3. ASSUME NEW k \in 1..(next - 1)
          PROVE  offsets'[k + 1] = offsets'[k] + slices[k].size
        <3>1. CASE k = next - 1
            BY <1>5, <1>6, <3>1, Slices
        <3>2. CASE k # next - 1
            <4>1. k \in 1..(Len(offsets) - 1) /\ k + 1 \in 1..(next - 1)
                BY <1>2, <3>2, Slices
            <4> QED BY <1>6, <4>1 DEF IInv, Offsets
        <3> QED BY <3>1, <3>2
    <2>4. ASSUME NEW i \in 1..next, NEW j \in 1..next, i < j
          PROVE  offsets'[i] + slices[i].size <= offsets'[j]
        <3>1. CASE j # next
            <4>1. i \in 1..Len(offsets) /\ j \in 1..Len(offsets)
                BY <1>2, <2>4, <3>1, Slices
            <4> QED BY <1>2, <1>6, <2>4, <4>1 DEF IInv, Offsets
        <3>2. CASE j = next /\ i = next - 1
            BY <1>5, <1>6, <2>4, <3>2, Slices
        <3>3. CASE j = next /\ i # next - 1
            <4>1. /\ i \in 1..Len(offsets) /\ next - 1 \in 1..Len(offsets) /\ i < next - 1
                  /\ next # 1
                BY <1>2, <2>4, <3>3, Slices
            <4>2. offsets[i] + slices[i].size <= offsets[next - 1]
                BY <4>1 DEF IInv, Offsets
            <4>3. /\ offsets[i] \in Int /\ offsets[next - 1] \in Int
                  /\ slices[i].size \in Nat /\ slices[next - 1].size \in Nat
                BY <1>1, <1>2, <4>1, Slices
            <4>4. offsets'[i] = offsets[i] /\ offsets'[next] = offsets[next - 1] + slices[next - 1].size
                BY <1>2, <1>5, <1>6, <4>1
            <4> QED BY <3>3, <4>2, <4>3, <4>4
        <3> QED BY <3>1, <3>2, <3>3
    <2>5. phase' = "offsets" /\ slices' = slices
        BY <1>1
    <2> QED BY <1>6, <2>1, <2>2, <2>3, <2>4, <2>5 DEF Offsets
<1> QED BY <1>1, <1>7, <1>8, <1>9, <1>10, LaterParts DEF IInv

\* Relaxing begins with branches that are all near.
LEMMA OffsetsEndIInv ==
    ASSUME WellFormed, IInv, OffsetsEnd
    PROVE  IInv'
<1>1. /\ phase = "offsets" /\ phase' = "relax" /\ next' = 1 /\ next > Last /\ continue' = FALSE
      /\ UNCHANGED <<items, slices, offsets, defs, uses, symbols, relocations>>
    BY DEF OffsetsEnd
<1>2. \A k \in DOMAIN slices : ~ Far(k)
    BY <1>1 DEF IInv, NearAtFirst
<1>3. TypeOK'
    <2>1. phase' \in Phases /\ phase' # "encode"
        BY <1>1, ZenonT(30) DEF Phases
    <2>2. continue' \in BOOLEAN
        BY <1>1
    <2>3. next' \in Nat \ {0}
        BY <1>1
    <2> QED BY <1>1, <2>1, <2>2, <2>3 DEF IInv, TypeOK
<1>4. Placed'
    <2>1. Reached = Len(items) + 1 /\ Reached' = Reached /\ Last' = Last /\ Reached - 1 \in Nat
        BY <1>1, Items DEF Reached, Last, IInv, TypeOK
    <2> QED BY <1>1, <2>1, PlacedKept DEF IInv
<1>5. (Shape /\ NearAtFirst /\ DefsPlain /\ UsesResolved)'
    BY <1>1 DEF IInv, Shape, NearAtFirst, DefsPlain, UsesResolved
<1>6. Offsets'
    <2>1. Len(offsets) = Last
        BY <1>1, Slices DEF IInv, Offsets
    <2> QED BY <1>1, <2>1 DEF IInv, Offsets, Last
<1>7. FarAway' /\ NearFits'
    <2>1. \A k \in DOMAIN slices : ~ k < 1
        BY Slices
    <2> QED BY <1>1, <1>2, <2>1 DEF FarAway, NearFits, Far
<1>8. (BranchesResolved /\ ModuleCreated)'
    BY <1>1 DEF BranchesResolved, ModuleCreated
<1> QED BY <1>3, <1>4, <1>5, <1>6, <1>7, <1>8 DEF IInv

-----------------------------------------------------------------------------
\* What a displacement is made of, once there are offsets.
LEMMA Distance ==
    ASSUME IInv, phase \in {"relax", "resolve", "bake", "done"}, NEW k \in 1..Last, slices[k].branch
    PROVE  LET t == slices[k].target
               d == defs[t].slice
           IN  /\ t \in Symbols /\ d \in 1..Last /\ d # k
               /\ offsets[d] \in Int /\ offsets[k] \in Int
               /\ defs[t].local \in Nat /\ defs[t].local <= slices[d].size
               /\ slices[d].size \in Nat /\ slices[k].at \in Nat
               /\ FieldWidth(slices[k].opcode) \in {1, 4}
               /\ compute_branch_displacement(k) =
                      offsets[d] + defs[t].local - offsets[k] - slices[k].at
                          - FieldWidth(slices[k].opcode)
               /\ compute_branch_displacement(k) \in Int
<1> DEFINE t == slices[k].target
           d == defs[t].slice
<1>1. t \in Symbols
    BY Slices DEF IInv, Shape
<1>2. d \in 1..Last /\ d # k /\ defs[t].local \in Nat /\ defs[t].local <= slices[d].size
    BY <1>1, Slices DEF IInv, DefsPlain, TypeOK
<1>3. /\ offsets[d] \in Int /\ offsets[k] \in Int
      /\ slices[d].size \in Nat /\ slices[k].at \in Nat
    <2>1. Len(offsets) = Last
        BY DEF IInv, Offsets
    <2> QED BY <1>2, <2>1, Slices
<1>4. FieldWidth(slices[k].opcode) \in {1, 4}
    BY DEF FieldWidth
<1>5. compute_branch_displacement(k) =
          (offsets[d] + defs[t].local) - (offsets[k] + slices[k].at) - FieldWidth(slices[k].opcode)
    BY DEF compute_branch_displacement, Displacement
<1> HIDE DEF d
<1>6. /\ compute_branch_displacement(k) =
             offsets[d] + defs[t].local - offsets[k] - slices[k].at - FieldWidth(slices[k].opcode)
      /\ compute_branch_displacement(k) \in Int
    BY <1>2, <1>3, <1>4, <1>5
<1> QED BY <1>1, <1>2, <1>3, <1>4, <1>6 DEF d

\* While relaxing, a step that writes no more than values keeps all but the
\* account of which branches were seen.
LEMMA SameLayout ==
    ASSUME WellFormed, IInv, phase \in {"relax", "resolve"}, phase' \in {"relax", "resolve", "bake"},
           next' \in Nat \ {0}, continue' \in BOOLEAN, slices' \in Seq(Slice), Last' = Last,
           \A k \in 1..Last :
               /\ slices'[k].branch = slices[k].branch /\ slices'[k].size = slices[k].size
               /\ slices'[k].opcode = slices[k].opcode /\ slices'[k].target = slices[k].target
               /\ slices'[k].at = slices[k].at,
           UNCHANGED <<items, offsets, defs>>,
           uses' \in {uses, {ResolvedUse(u) : u \in uses}}, uses' \subseteq Use
    PROVE  /\ TypeOK' /\ Placed' /\ Shape' /\ NearAtFirst' /\ DefsPlain' /\ Offsets' /\ FarAway'
           /\ ModuleCreated'
           /\ DOMAIN slices' = 1..Last
           /\ \A k \in 1..Last :
                  /\ compute_branch_displacement(k)' = compute_branch_displacement(k)
                  /\ Far(k)' = Far(k) /\ Near(k)' = Near(k)
<1>1. DOMAIN slices = 1..Last /\ DOMAIN slices' = 1..Last
    BY Slices DEF Last
<1>2. phase \notin {"encode", "offsets"} /\ phase' \notin {"encode", "offsets", "done"}
    OBVIOUS
<1>3. TypeOK'
    BY <1>2 DEF IInv, TypeOK, Phases
<1>4. Placed'
    <2>1. Reached = Len(items) + 1 /\ Reached' = Reached /\ Reached - 1 \in Nat
        BY <1>2, Items DEF Reached, IInv, TypeOK
    <2> QED BY <1>1, <2>1, PlacedKept DEF IInv
<1>5. Shape'
    BY <1>1 DEF IInv, Shape
<1>6. NearAtFirst' /\ ModuleCreated'
    BY <1>2 DEF NearAtFirst, ModuleCreated
<1>7. DefsPlain'
    BY <1>1 DEF IInv, DefsPlain
<1>8. Offsets'
    <2>1. Len(offsets) = Last /\ Last \in Nat
        BY <1>2, Slices DEF IInv, Offsets
    <2>2. /\ offsets # <<>> => offsets[1] = 0
          /\ \A k \in 1..(Last - 1) : offsets[k + 1] = offsets[k] + slices'[k].size
          /\ \A i, j \in 1..Last : i < j => offsets[i] + slices'[i].size <= offsets[j]
        BY <2>1, SMTT(60) DEF IInv, Offsets
    <2> QED BY <1>2, <2>1, <2>2 DEF Offsets
<1>9. ASSUME NEW k \in 1..Last
      PROVE  /\ compute_branch_displacement(k)' = compute_branch_displacement(k)
             /\ Far(k)' = Far(k) /\ Near(k)' = Near(k)
    BY DEF compute_branch_displacement, Displacement, Far, Near
<1>10. FarAway'
    <2>1. \A k \in 1..Last : Far(k) =>
              /\ defs[slices[k].target].slice > k => compute_branch_displacement(k) > 127
              /\ defs[slices[k].target].slice < k => compute_branch_displacement(k) < -128
        BY <1>1 DEF IInv, FarAway
    <2> QED BY <1>1, <1>9, <2>1 DEF FarAway
<1> QED BY <1>1, <1>3, <1>4, <1>5, <1>6, <1>7, <1>8, <1>9, <1>10

\* A slice that is not a branch, a branch that is far and a JG that does not
\* fit are passed by.
LEMMA PassByIInv ==
    ASSUME WellFormed, IInv, SkipSlice \/ LeaveFar
    PROVE  IInv'
<1>1. /\ phase = "relax" /\ phase' = "relax" /\ next' = next + 1 /\ next \in 1..Last
      /\ UNCHANGED <<items, slices, offsets, defs, uses, continue, symbols, relocations>>
    BY Slices DEF SkipSlice, LeaveFar, Visiting
<1>2. ~ Near(next)
    <2>1. CASE SkipSlice
        BY <2>1 DEF SkipSlice, Near
    <2>2. CASE LeaveFar
        <3>1. slices[next].branch /\ slices[next].opcode \notin RelaxableJcc \cup {NearJmp}
            BY <2>2 DEF LeaveFar
        <3>2. slices[next].opcode \in {Jg, FarJmp, FarJcc}
            BY <1>1, <3>1, Slices DEF IInv, Shape
        <3> QED BY <3>2 DEF Near, FieldWidth
    <2> QED BY <2>1, <2>2
<1>3. /\ TypeOK' /\ Placed' /\ Shape' /\ NearAtFirst' /\ DefsPlain' /\ Offsets' /\ FarAway'
      /\ ModuleCreated' /\ DOMAIN slices' = 1..Last
      /\ \A k \in 1..Last :
             /\ compute_branch_displacement(k)' = compute_branch_displacement(k)
             /\ Far(k)' = Far(k) /\ Near(k)' = Near(k)
    <2>1. /\ next' \in Nat \ {0} /\ continue' \in BOOLEAN /\ slices' \in Seq(Slice) /\ Last' = Last
          /\ uses' \subseteq Use
        BY <1>1 DEF IInv, TypeOK, Last
    <2> QED BY <1>1, <2>1, SameLayout
<1>4. NearFits'
    <2>1. \A k \in 1..Last : k < next + 1 => k < next \/ k = next
        BY <1>1
    <2>2. ~ continue => \A k \in 1..Last : k < next /\ Near(k) => fits_in_i8(compute_branch_displacement(k))
        BY <1>1, Slices DEF IInv, NearFits
    <2>3. phase' # "resolve"
        BY <1>1
    <2>4. ~ continue' => \A k \in 1..Last : k < next' /\ Near(k) => fits_in_i8(compute_branch_displacement(k))
        BY <1>1, <1>2, <2>1, <2>2
    <2> QED BY <1>3, <2>3, <2>4 DEF NearFits, fits_in_i8
<1>5. BranchesResolved' /\ UsesResolved'
    BY <1>1 DEF BranchesResolved, UsesResolved, IInv
<1> QED BY <1>3, <1>4, <1>5 DEF IInv

\* A near branch that fits is left as it is.
LEMMA WriteNearIInv ==
    ASSUME WellFormed, IInv, WriteNear
    PROVE  IInv'
<1> DEFINE value == compute_branch_displacement(next)
<1>1. /\ phase = "relax" /\ phase' = "relax" /\ next' = next + 1 /\ next \in 1..Last
      /\ slices[next].branch /\ fits_in_i8(value)
      /\ slices' = [slices EXCEPT ![next].value = value]
      /\ UNCHANGED <<items, offsets, defs, uses, continue, symbols, relocations>>
    BY Slices DEF WriteNear, Visiting
<1>2. value \in Int
    BY <1>1, Distance
<1>3. fits_in_i8(compute_branch_displacement(next))
    BY <1>1
<1> HIDE DEF value
<1>4. /\ slices' \in Seq(Slice) /\ Last' = Last
      /\ \A k \in 1..Last :
             /\ slices'[k].branch = slices[k].branch /\ slices'[k].size = slices[k].size
             /\ slices'[k].opcode = slices[k].opcode /\ slices'[k].target = slices[k].target
             /\ slices'[k].at = slices[k].at
    <2>1. slices \in Seq(Slice) /\ DOMAIN slices = 1..Last /\ Len(slices) = Last
        BY Slices DEF IInv, TypeOK
    <2> DEFINE written == [slices[next] EXCEPT !.value = value]
    <2>2. /\ written \in Slice
          /\ written.branch = slices[next].branch /\ written.size = slices[next].size
          /\ written.opcode = slices[next].opcode /\ written.target = slices[next].target
          /\ written.at = slices[next].at
        BY <1>1, <1>2, Slices DEF Slice
    <2>3. slices' = [slices EXCEPT ![next] = written]
        BY <1>1
    <2> HIDE DEF written
    <2>4. /\ slices' \in Seq(Slice) /\ Len(slices') = Len(slices)
          /\ \A k \in 1..Last : k # next => slices'[k] = slices[k]
          /\ slices'[next] = written
        BY <1>1, <2>1, <2>2, <2>3
    <2> QED BY <2>2, <2>4 DEF Last
<1>5. /\ TypeOK' /\ Placed' /\ Shape' /\ NearAtFirst' /\ DefsPlain' /\ Offsets' /\ FarAway'
      /\ ModuleCreated' /\ DOMAIN slices' = 1..Last
      /\ \A k \in 1..Last :
             /\ compute_branch_displacement(k)' = compute_branch_displacement(k)
             /\ Far(k)' = Far(k) /\ Near(k)' = Near(k)
    <2>1. next' \in Nat \ {0} /\ continue' \in BOOLEAN /\ uses' \subseteq Use
        BY <1>1 DEF IInv, TypeOK
    <2> QED BY <1>1, <1>4, <2>1, SameLayout
<1>6. NearFits'
    <2>1. \A k \in 1..Last : k < next + 1 => k < next \/ k = next
        BY <1>1
    <2>2. ~ continue => \A k \in 1..Last : k < next /\ Near(k) => fits_in_i8(compute_branch_displacement(k))
        BY <1>1, Slices DEF IInv, NearFits
    <2>3. phase' # "resolve"
        BY <1>1
    <2>4. ~ continue' => \A k \in 1..Last : k < next' /\ Near(k) => fits_in_i8(compute_branch_displacement(k))
        BY <1>1, <1>3, <2>1, <2>2
    <2> QED BY <1>5, <2>3, <2>4 DEF NearFits, fits_in_i8
<1>7. BranchesResolved' /\ UsesResolved'
    BY <1>1 DEF BranchesResolved, UsesResolved, IInv
<1> QED BY <1>5, <1>6, <1>7 DEF IInv

\* A pass that changed nothing was the last.
LEMMA PassEndsIInv ==
    ASSUME WellFormed, IInv, PassEnds
    PROVE  IInv'
<1>1. /\ phase = "relax" /\ phase' = (IF continue THEN "relax" ELSE "resolve")
      /\ next > Last /\ next' = 1 /\ continue' = FALSE
      /\ UNCHANGED <<items, slices, offsets, defs, uses, symbols, relocations>>
    BY DEF PassEnds
<1>2. /\ TypeOK' /\ Placed' /\ Shape' /\ NearAtFirst' /\ DefsPlain' /\ Offsets' /\ FarAway'
      /\ ModuleCreated' /\ DOMAIN slices' = 1..Last
      /\ \A k \in 1..Last :
             /\ compute_branch_displacement(k)' = compute_branch_displacement(k)
             /\ Far(k)' = Far(k) /\ Near(k)' = Near(k)
    <2>1. /\ continue' \in BOOLEAN /\ slices' \in Seq(Slice) /\ Last' = Last
          /\ uses' \subseteq Use
        BY <1>1 DEF IInv, TypeOK, Last
    <2>2. next' \in Nat \ {0}
        BY <1>1
    <2>3. phase' \in {"relax", "resolve", "bake"}
        BY <1>1
    <2> QED BY <1>1, <2>1, <2>2, <2>3, SameLayout
<1>3. NearFits'
    <2>1. \A k \in 1..Last : k < next /\ ~ k < 1
        BY <1>1, Slices
    <2>2. phase' = "resolve" => ~ continue
        BY <1>1
    <2>3. phase' = "resolve" =>
              \A k \in 1..Last : Near(k) => fits_in_i8(compute_branch_displacement(k))
        BY <1>1, <2>1, <2>2, Slices DEF IInv, NearFits
    <2>4. \A k \in 1..Last : ~ k < next'
        BY <1>1, <2>1
    <2> QED BY <1>2, <2>3, <2>4 DEF NearFits, fits_in_i8
<1>4. BranchesResolved' /\ UsesResolved'
    <2>1. phase' \notin {"bake", "done"} /\ phase \notin {"bake", "done"}
        BY <1>1
    <2> QED BY <1>1, <2>1 DEF BranchesResolved, UsesResolved, IInv
<1> QED BY <1>2, <1>3, <1>4 DEF IInv

\* A slice with other fields is a slice.
LEMMA ChangedSlice ==
    ASSUME NEW s \in Slice
    PROVE  \A opcode, size \in Nat, value \in Int :
               /\ [s EXCEPT !.opcode = opcode, !.size = size, !.value = value] \in Slice
               /\ [s EXCEPT !.opcode = opcode, !.size = size, !.at = @ + 1, !.value = value] \in Slice
<1> SUFFICES ASSUME NEW opcode \in Nat, NEW size \in Nat, NEW value \in Int
             PROVE  /\ [s EXCEPT !.opcode = opcode, !.size = size, !.value = value] \in Slice
                    /\ [s EXCEPT !.opcode = opcode, !.size = size, !.at = @ + 1, !.value = value] \in Slice
    OBVIOUS
<1>1. [s EXCEPT !.opcode = opcode, !.size = size, !.value = value] \in Slice
    BY DEF Slice
<1>2. s.at + 1 \in Nat
    BY DEF Slice
<1>3. [s EXCEPT !.opcode = opcode, !.size = size, !.at = @ + 1, !.value = value] \in Slice
    BY <1>2 DEF Slice
<1> QED BY <1>1, <1>3

\* What relax_jmp and relax_jcc do to the branch and to what follows.
LEMMA RelaxEffect ==
    ASSUME WellFormed, IInv, RelaxBranch
    PROVE  \E g \in {3, 4} :
               /\ next \in 1..Last /\ slices[next].branch
               /\ slices[next].size = 2 /\ slices[next].at = 1
               /\ FieldWidth(slices[next].opcode) = 1
               /\ DOMAIN slices' = 1..Last /\ slices' \in Seq(Slice) /\ Last' = Last
               /\ \A k \in 1..Last : k # next => slices'[k] = slices[k]
               /\ slices'[next].branch /\ slices'[next].target = slices[next].target
               /\ \/ slices'[next].opcode = FarJmp /\ slices'[next].at = 1 /\ g = 3
                  \/ slices'[next].opcode = FarJcc /\ slices'[next].at = 2 /\ g = 4
               /\ slices'[next].size = 2 + g
               /\ FieldWidth(slices'[next].opcode) = 4
               /\ offsets' \in Seq(Int) /\ Len(offsets') = Last /\ Len(offsets) = Last
               /\ \A k \in 1..Last :
                      offsets'[k] = IF k > next THEN offsets[k] + g ELSE offsets[k]
<1> DEFINE r == Relaxed(slices[next])
           g == Growth(slices[next].opcode)
<1>1. /\ phase = "relax" /\ next \in 1..Last /\ slices[next].branch
      /\ slices[next].opcode \in RelaxableJcc \cup {NearJmp}
      /\ slices' = [slices EXCEPT ![next] = r]
      /\ offsets' = PushOutSlices(next + 1, g)
    BY Slices DEF RelaxBranch, Visiting
<1>2. slices \in Seq(Slice) /\ DOMAIN slices = 1..Last /\ Len(slices) = Last /\ Last \in Nat
    BY Slices DEF IInv, TypeOK
<1>3. /\ slices[next] \in Slice /\ slices[next].size = 2 /\ slices[next].at = 1
      /\ FieldWidth(slices[next].opcode) = 1
    BY <1>1, <1>2, SMTT(60) DEF IInv, Shape, RelaxableJcc, Jg, NearJmp, FarJmp, FarJcc, FieldWidth
<1>4. /\ r \in Slice /\ r.branch /\ r.target = slices[next].target /\ g \in {3, 4}
      /\ \/ r.opcode = FarJmp /\ r.at = 1 /\ g = 3
         \/ r.opcode = FarJcc /\ r.at = 2 /\ g = 4
      /\ r.size = 2 + g /\ FieldWidth(r.opcode) = 4
    <2>1. CASE slices[next].opcode = NearJmp
        <3>1. r = [slices[next] EXCEPT !.opcode = FarJmp, !.size = 5, !.value = 0] /\ g = 3
            BY <2>1 DEF Relaxed, Growth
        <3>2. /\ r.opcode = FarJmp /\ r.size = 5 /\ r.value = 0 /\ r.at = slices[next].at
              /\ r.branch = slices[next].branch /\ r.target = slices[next].target
            BY <1>3, <3>1 DEF Slice
        <3>3. r \in Slice
            <4>1. FarJmp \in Nat /\ 5 \in Nat /\ 0 \in Int
                BY DEF FarJmp
            <4>2. [slices[next] EXCEPT !.opcode = FarJmp, !.size = 5, !.value = 0] \in Slice
                BY <1>3, <4>1, ChangedSlice
            <4> QED BY <3>1, <4>2, ZenonT(30)
        <3>4. FieldWidth(r.opcode) = 4
            BY <3>2 DEF FieldWidth
        <3> QED BY <1>1, <1>3, <3>1, <3>2, <3>3, <3>4
    <2>2. CASE slices[next].opcode # NearJmp
        <3>1. /\ r = [slices[next] EXCEPT !.opcode = FarJcc, !.size = 6, !.at = @ + 1, !.value = 0]
              /\ g = 4
            BY <2>2 DEF Relaxed, Growth
        <3>2. /\ r.opcode = FarJcc /\ r.size = 6 /\ r.value = 0 /\ r.at = slices[next].at + 1
              /\ r.branch = slices[next].branch /\ r.target = slices[next].target
            BY <1>3, <3>1 DEF Slice
        <3>3. r \in Slice
            <4>1. FarJcc \in Nat /\ 6 \in Nat /\ 0 \in Int
                BY DEF FarJcc
            <4>2. [slices[next] EXCEPT !.opcode = FarJcc, !.size = 6, !.at = @ + 1, !.value = 0] \in Slice
                BY <1>3, <4>1, ChangedSlice
            <4> QED BY <3>1, <4>2, ZenonT(30)
        <3>4. FieldWidth(r.opcode) = 4
            BY <3>2 DEF FieldWidth
        <3> QED BY <1>1, <1>3, <3>1, <3>2, <3>3, <3>4
    <2> QED BY <2>1, <2>2
<1>5. DOMAIN offsets = 1..Last /\ Len(offsets) = Last /\ \A k \in 1..Last : offsets[k] \in Int
    BY <1>1, Slices DEF IInv, Offsets
<1> HIDE DEF r, g
<1>6. /\ slices' \in Seq(Slice) /\ Len(slices') = Last /\ DOMAIN slices' = 1..Last
      /\ \A k \in 1..Last : k # next => slices'[k] = slices[k]
      /\ slices'[next] = r
    BY <1>1, <1>2, <1>4
<1>7. /\ offsets' \in Seq(Int) /\ Len(offsets') = Last
      /\ \A k \in 1..Last : offsets'[k] = IF k > next THEN offsets[k] + g ELSE offsets[k]
    <2>1. offsets' = [k \in 1..Last |-> IF k >= next + 1 THEN offsets[k] + g ELSE offsets[k]]
        BY <1>1, <1>5 DEF PushOutSlices
    <2>2. offsets' \in [1..Last -> Int]
        BY <1>4, <1>5, <2>1
    <2>3. \A k \in 1..Last : k >= next + 1 <=> k > next
        BY <1>1
    <2> QED BY <1>2, <2>1, <2>2, <2>3
<1>8. Last' = Last
    BY <1>6 DEF Last
<1>9. g \in {3, 4}
    BY <1>4
<1> QED BY <1>1, <1>3, <1>4, <1>5, <1>6, <1>7, <1>8, <1>9

\* A branch that is too far for one byte becomes longer: what lies behind it
\* is pushed out, and no branch that is far comes nearer to its target.
LEMMA RelaxIInv ==
    ASSUME WellFormed, IInv, RelaxBranch
    PROVE  IInv'
<1>1. /\ phase = "relax" /\ phase' = "relax" /\ next' = next + 1 /\ continue' = TRUE
      /\ ~ fits_in_i8(compute_branch_displacement(next))
      /\ UNCHANGED <<items, defs, uses, symbols, relocations>>
    BY DEF RelaxBranch, Visiting
<1>2. PICK g \in {3, 4} :
          /\ next \in 1..Last /\ slices[next].branch
          /\ slices[next].size = 2 /\ slices[next].at = 1
          /\ FieldWidth(slices[next].opcode) = 1
          /\ DOMAIN slices' = 1..Last /\ slices' \in Seq(Slice) /\ Last' = Last
          /\ \A k \in 1..Last : k # next => slices'[k] = slices[k]
          /\ slices'[next].branch /\ slices'[next].target = slices[next].target
          /\ \/ slices'[next].opcode = FarJmp /\ slices'[next].at = 1 /\ g = 3
             \/ slices'[next].opcode = FarJcc /\ slices'[next].at = 2 /\ g = 4
          /\ slices'[next].size = 2 + g
          /\ FieldWidth(slices'[next].opcode) = 4
          /\ offsets' \in Seq(Int) /\ Len(offsets') = Last /\ Len(offsets) = Last
          /\ \A k \in 1..Last :
                 offsets'[k] = IF k > next THEN offsets[k] + g ELSE offsets[k]
    BY RelaxEffect
<1>3. /\ DOMAIN slices = 1..Last /\ Last \in Nat /\ next \in Nat \ {0} /\ g \in Nat
      /\ \A k \in 1..Last : offsets[k] \in Int /\ slices[k].size \in Nat
    BY <1>2, Slices
<1>4. TypeOK'
    <2>1. continue' \in BOOLEAN /\ phase' # "encode" /\ phase' = phase
        BY <1>1
    <2>2. next' \in Nat \ {0}
        BY <1>1, <1>3
    <2> QED BY <1>1, <1>2, <2>1, <2>2, ZenonT(30) DEF IInv, TypeOK
<1>5. Placed'
    <2>1. Reached = Len(items) + 1 /\ Reached' = Reached /\ Reached - 1 \in Nat
        BY <1>1, Items DEF Reached, IInv, TypeOK
    <2>2. \A k \in 1..Last :
              /\ slices'[k].branch = slices[k].branch
              /\ slices'[k].target = slices[k].target
              /\ ~ slices[k].branch => slices'[k].size = slices[k].size
        <3>1. slices'[next].branch = slices[next].branch
            <4>1. slices'[next].branch \in BOOLEAN /\ slices[next].branch \in BOOLEAN
                BY <1>2, <1>3 DEF Slice, IInv, TypeOK
            <4> QED BY <1>2, <4>1
        <3> QED BY <1>2, <3>1
    <2> QED BY <1>1, <1>2, <1>3, <2>1, <2>2, PlacedKept DEF IInv
<1>6. Shape'
    BY <1>2, <1>3, SMTT(60) DEF IInv, Shape
<1>7. NearAtFirst' /\ BranchesResolved' /\ UsesResolved' /\ ModuleCreated' /\ NearFits'
    BY <1>1 DEF IInv, NearAtFirst, BranchesResolved, UsesResolved, ModuleCreated, NearFits
<1>8. DefsPlain'
    BY <1>1, <1>2, <1>3 DEF IInv, DefsPlain
<1>9. /\ Last > 0 => offsets[1] = 0
      /\ \A k \in 1..(Last - 1) : offsets[k + 1] = offsets[k] + slices[k].size
      /\ \A i, j \in 1..Last : i < j => offsets[i] + slices[i].size <= offsets[j]
    BY <1>2, <1>3 DEF IInv, Offsets
<1>10. Offsets'
    <2>1. /\ \A k \in 1..Last : offsets'[k] = IF k > next THEN offsets[k] + g ELSE offsets[k]
          /\ \A k \in 1..Last : k # next => slices'[k].size = slices[k].size
          /\ slices'[next].size = 2 + g /\ slices[next].size = 2
        BY <1>2
    <2>2. offsets'[1] = 0
        BY <1>2, <1>3, <1>9
    <2>3. ASSUME NEW k \in 1..(Last - 1)
          PROVE  offsets'[k + 1] = offsets'[k] + slices'[k].size
        <3>1. k \in 1..Last /\ k + 1 \in 1..Last /\ offsets[k + 1] = offsets[k] + slices[k].size
            BY <1>3, <1>9
        <3>2. /\ offsets'[k] = IF k > next THEN offsets[k] + g ELSE offsets[k]
              /\ offsets'[k + 1] = IF k + 1 > next THEN offsets[k + 1] + g ELSE offsets[k + 1]
            BY <2>1, <3>1
        <3>3. offsets[k] \in Int /\ offsets[k + 1] \in Int /\ slices[k].size \in Nat
            BY <1>3, <3>1
        <3>4. slices'[k].size = IF k = next THEN 2 + g ELSE slices[k].size
            BY <2>1, <3>1
        <3>5. k = next => slices[k].size = 2
            BY <2>1
        <3>6. k \in Nat /\ next \in Nat /\ g \in Nat
            BY <1>3
        <3> QED BY <3>1, <3>2, <3>3, <3>4, <3>5, <3>6
    <2>4. ASSUME NEW i \in 1..Last, NEW j \in 1..Last, i < j
          PROVE  offsets'[i] + slices'[i].size <= offsets'[j]
        <3>1. offsets[i] + slices[i].size <= offsets[j]
            BY <1>9, <2>4
        <3>2. /\ offsets'[i] = IF i > next THEN offsets[i] + g ELSE offsets[i]
              /\ offsets'[j] = IF j > next THEN offsets[j] + g ELSE offsets[j]
            BY <2>1
        <3>3. offsets[i] \in Int /\ offsets[j] \in Int /\ slices[i].size \in Nat
            BY <1>3
        <3>4. slices'[i].size = IF i = next THEN 2 + g ELSE slices[i].size
            BY <2>1
        <3>5. i = next => slices[i].size = 2
            BY <2>1
        <3>6. i \in Nat /\ j \in Nat /\ next \in Nat /\ g \in Nat
            BY <1>3
        <3> QED BY <2>4, <3>1, <3>2, <3>3, <3>4, <3>5, <3>6
    <2>5. Len(offsets') = Last' /\ phase' \notin {"encode", "offsets"}
        BY <1>1, <1>2
    <2>6. \A k \in 1..(Len(offsets') - 1) : offsets'[k + 1] = offsets'[k] + slices'[k].size
        BY <1>2, <2>3
    <2>7. \A i, j \in 1..Len(offsets') : i < j => offsets'[i] + slices'[i].size <= offsets'[j]
        BY <1>2, <2>4
    <2> QED BY <2>2, <2>5, <2>6, <2>7, ZenonT(30) DEF Offsets
<1>11. FarAway'
    <2> SUFFICES ASSUME NEW k \in 1..Last, Far(k)'
                 PROVE  /\ defs[slices'[k].target].slice > k => compute_branch_displacement(k)' > 127
                        /\ defs[slices'[k].target].slice < k => compute_branch_displacement(k)' < -128
        BY <1>1, <1>2 DEF FarAway
    <2> DEFINE t == slices[k].target
               d == defs[t].slice
               local == defs[t].local
    <2>1. slices'[k].target = slices[k].target /\ slices[k].branch
        BY <1>2, <1>3 DEF Far
    <2>2. /\ t \in Symbols /\ d \in 1..Last /\ d # k
          /\ offsets[d] \in Int /\ offsets[k] \in Int
          /\ local \in Nat /\ local <= slices[d].size
          /\ slices[d].size \in Nat /\ slices[k].at \in Nat
          /\ FieldWidth(slices[k].opcode) \in {1, 4}
          /\ compute_branch_displacement(k) =
                 offsets[d] + local - offsets[k] - slices[k].at - FieldWidth(slices[k].opcode)
          /\ compute_branch_displacement(k) \in Int
        BY <1>1, <2>1, Distance
    <2>3. PICK b : b = compute_branch_displacement(k)'
        OBVIOUS
    <2>4. PICK a : a = compute_branch_displacement(k)
        OBVIOUS
    <2>5. b = (offsets'[d] + local) - (offsets'[k] + slices'[k].at) - FieldWidth(slices'[k].opcode)
        BY <1>1, <2>1, <2>3 DEF compute_branch_displacement, Displacement
    <2> HIDE DEF d, local
    <2>6. /\ offsets'[d] = IF d > next THEN offsets[d] + g ELSE offsets[d]
          /\ offsets'[k] = IF k > next THEN offsets[k] + g ELSE offsets[k]
        BY <1>2, <2>2
    <2>7. a \in Int /\ d \in Int /\ k \in Int /\ next \in Int
        BY <1>3, <2>2, <2>4
    <2>8. CASE k # next
        <3>1. slices'[k] = slices[k]
            BY <1>2, <2>8
        <3>2. Far(k)
            BY <3>1 DEF Far
        <3>3. (d > k => a > 127) /\ (d < k => a < -128)
            BY <1>1, <1>3, <2>4, <3>2 DEF IInv, FarAway, d
        <3>4. PICK w \in {1, 4} : w = FieldWidth(slices[k].opcode)
            BY <2>2
        <3>5. /\ a = offsets[d] + local - offsets[k] - slices[k].at - w
              /\ b = (offsets'[d] + local) - (offsets'[k] + slices[k].at) - w
            BY <2>2, <2>4, <2>5, <3>1, <3>4
        <3>6. offsets[d] \in Int /\ offsets[k] \in Int /\ local \in Nat /\ slices[k].at \in Nat
            BY <2>2
        <3>7. offsets'[d] \in Int /\ offsets'[k] \in Int
            BY <1>3, <2>6, <3>6
        <3>8. b = a + (offsets'[d] - offsets[d]) - (offsets'[k] - offsets[k])
            BY <3>4, <3>5, <3>6, <3>7
        <3>9. d > k => b > 127
            <4>1. d > k => offsets'[d] - offsets[d] >= offsets'[k] - offsets[k]
                BY <1>3, <2>6, <2>7, <3>6
            <4> QED BY <2>7, <3>3, <3>6, <3>7, <3>8, <4>1
        <3>10. d < k => b < -128
            <4>1. d < k => offsets'[d] - offsets[d] <= offsets'[k] - offsets[k]
                BY <1>3, <2>6, <2>7, <3>6
            <4> QED BY <2>7, <3>3, <3>6, <3>7, <3>8, <4>1
        <3> QED BY <2>1, <2>3, <3>9, <3>10 DEF d
    <2>9. CASE k = next
        <3>1. a \notin -128..127
            BY <1>1, <2>4, <2>9 DEF fits_in_i8
        <3>2. slices[k].at = 1 /\ FieldWidth(slices[k].opcode) = 1
            BY <1>2, <2>9
        <3>3. /\ FieldWidth(slices'[k].opcode) = 4
              /\ \/ slices'[k].at = 1 /\ g = 3
                 \/ slices'[k].at = 2 /\ g = 4
            BY <1>2, <2>9
        <3>4. offsets[d] \in Int /\ offsets[k] \in Int /\ local \in Nat
            BY <2>2
        <3>5. a = offsets[d] + local - offsets[k] - 2
            <4>1. a = offsets[d] + local - offsets[k] - slices[k].at - FieldWidth(slices[k].opcode)
                BY <2>2, <2>4
            <4> QED BY <3>2, <3>4, <4>1
        <3>6. b = offsets'[d] + local - offsets[k] - (IF g = 3 THEN 5 ELSE 6)
            <4>1. offsets'[k] = offsets[k]
                BY <2>6, <2>7, <2>9
            <4>2. offsets'[d] \in Int
                BY <1>3, <2>6, <3>4
            <4>3. b = (offsets'[d] + local) - (offsets[k] + slices'[k].at) - 4
                BY <2>5, <3>3, <4>1
            <4> QED BY <3>3, <3>4, <4>2, <4>3
        <3>7. ASSUME d > k
              PROVE  b > 127
            <4>1. offsets[k] + 2 <= offsets[d]
                BY <1>2, <1>9, <2>2, <2>9, <3>7
            <4>2. a > 127
                BY <2>7, <3>1, <3>4, <3>5, <4>1
            <4>3. offsets'[d] = offsets[d] + g
                BY <2>6, <2>9, <3>7
            <4> QED BY <3>4, <3>5, <3>6, <4>2, <4>3
        <3>8. ASSUME d < k
              PROVE  b < -128
            <4>1. offsets[d] + slices[d].size <= offsets[k]
                BY <1>9, <2>2, <3>8
            <4>2. slices[d].size \in Nat /\ local <= slices[d].size
                BY <2>2
            <4>3. a < -128
                BY <2>7, <3>1, <3>4, <3>5, <4>1, <4>2
            <4>4. offsets'[d] = offsets[d]
                BY <2>6, <2>7, <2>9, <3>8
            <4> QED BY <3>4, <3>5, <3>6, <4>3, <4>4
        <3> QED BY <2>1, <2>3, <3>7, <3>8 DEF d
    <2> QED BY <2>8, <2>9
<1> QED BY <1>4, <1>5, <1>6, <1>7, <1>8, <1>10, <1>11 DEF IInv

\* resolve_relaxable_slice writes the distance into the field, and does not
\* reach beyond the slice, unless that is of a JG too far away.
LEMMA ResolvedSlice ==
    ASSUME IInv, phase = "resolve", NEW k \in 1..Last, slices[k].branch,
           slices[k].opcode = Jg => fits_in_i8(compute_branch_displacement(k))
    PROVE  /\ Resolved(k) \in Slice
           /\ Resolved(k).value = compute_branch_displacement(k)
           /\ Resolved(k).branch = slices[k].branch /\ Resolved(k).size = slices[k].size
           /\ Resolved(k).opcode = slices[k].opcode /\ Resolved(k).target = slices[k].target
           /\ Resolved(k).at = slices[k].at
<1>1. slices[k] \in Slice /\ slices[k].size \in Nat /\ slices[k].at \in Nat /\ k \in DOMAIN slices
    BY Slices
<1>2. compute_branch_displacement(k) \in Int
    BY Distance
<1>3. Resolved(k) = [slices[k] EXCEPT !.value = compute_branch_displacement(k)]
    <2>1. CASE FieldWidth(slices[k].opcode) = 1
        <3>1. fits_in_i8(compute_branch_displacement(k))
            BY <1>1, <2>1 DEF IInv, NearFits, Near
        <3> QED BY <2>1, <3>1, ZenonT(30) DEF Resolved
    <2>2. CASE FieldWidth(slices[k].opcode) = 4
        <3>1. slices[k].size = slices[k].at + 4
            BY <1>1, <2>2 DEF IInv, Shape, FieldWidth, RelaxableJcc, Jg, NearJmp, FarJmp, FarJcc
        <3>2. ~ fits_in_i8(compute_branch_displacement(k))
            <4>1. Far(k)
                BY <2>2 DEF Far
            <4>2. /\ defs[slices[k].target].slice # k
                  /\ defs[slices[k].target].slice \in 1..Last
                BY Distance
            <4>3. compute_branch_displacement(k) > 127 \/ compute_branch_displacement(k) < -128
                BY <1>1, <4>1, <4>2 DEF IInv, FarAway
            <4> QED BY <1>2, <4>3 DEF fits_in_i8
        <3>3. FieldWidth(slices[k].opcode) # 1
            BY <2>2
        <3>4. (IF slices[k].size < slices[k].at + 4 THEN slices[k].at + 4 ELSE slices[k].size) = slices[k].size
            BY <1>1, <3>1
        <3>5. Resolved(k) = [slices[k] EXCEPT !.value = compute_branch_displacement(k), !.size = slices[k].size]
            BY <3>2, <3>3, <3>4, ZenonT(30) DEF Resolved
        <3> QED BY <1>1, <3>5 DEF Slice
    <2>3. FieldWidth(slices[k].opcode) \in {1, 4}
        BY DEF FieldWidth
    <2> QED BY <2>1, <2>2, <2>3
<1> QED BY <1>1, <1>2, <1>3 DEF Slice

\* What resolve_relaxable_slice never changes.
LEMMA ResolvedKeeps ==
    ASSUME NEW k, slices[k] \in Slice
    PROVE  /\ Resolved(k).branch = slices[k].branch /\ Resolved(k).opcode = slices[k].opcode
           /\ Resolved(k).target = slices[k].target /\ Resolved(k).at = slices[k].at
BY DEF Resolved, Slice

\* Whether a JG fits is not changed by resolving.
LEMMA JgsFitBefore ==
    ASSUME IInv, ResolveInternalSymbols, JgsFit'
    PROVE  \A k \in 1..Last : slices[k].branch /\ slices[k].opcode = Jg
                                   => fits_in_i8(compute_branch_displacement(k))
<1> SUFFICES ASSUME NEW k \in 1..Last, slices[k].branch, slices[k].opcode = Jg
             PROVE  fits_in_i8(compute_branch_displacement(k))
    OBVIOUS
<1>1. /\ phase' = "bake" /\ UNCHANGED <<offsets, defs>>
      /\ slices' = [j \in DOMAIN slices |-> IF slices[j].branch THEN Resolved(j) ELSE slices[j]]
    BY DEF ResolveInternalSymbols
<1>2. k \in DOMAIN slices /\ slices[k] \in Slice
    BY Slices
<1>3. k \in DOMAIN slices' /\ slices'[k] = Resolved(k)
    BY <1>1, <1>2
<1>4. /\ slices'[k].branch = slices[k].branch /\ slices'[k].opcode = slices[k].opcode
      /\ slices'[k].target = slices[k].target /\ slices'[k].at = slices[k].at
    BY <1>2, <1>3, ResolvedKeeps
<1>5. compute_branch_displacement(k)' = compute_branch_displacement(k)
    BY <1>1, <1>4 DEF compute_branch_displacement, Displacement
<1>6. fits_in_i8(compute_branch_displacement(k)')
    BY <1>1, <1>3, <1>4 DEF JgsFit, fits_in_i8
<1> QED BY <1>5, <1>6

\* Resolving internal symbols fills in fields and moves nothing.
LEMMA ResolveIInv ==
    ASSUME WellFormed, IInv, ResolveInternalSymbols, JgsFit'
    PROVE  IInv'
<1>1. /\ phase = "resolve" /\ phase' = "bake"
      /\ slices' = [k \in DOMAIN slices |-> IF slices[k].branch THEN Resolved(k) ELSE slices[k]]
      /\ uses' = {ResolvedUse(u) : u \in uses}
      /\ UNCHANGED <<items, next, offsets, defs, continue, symbols, relocations>>
    BY DEF ResolveInternalSymbols
<1>2. /\ DOMAIN slices = 1..Last /\ Last \in Nat /\ Len(offsets) = Last
      /\ \A k \in 1..Last : slices[k] \in Slice /\ offsets[k] \in Int
    BY <1>1, Slices DEF IInv, Offsets
<1>3. /\ slices' \in Seq(Slice) /\ Last' = Last
      /\ \A k \in 1..Last :
             /\ slices'[k].branch = slices[k].branch /\ slices'[k].size = slices[k].size
             /\ slices'[k].opcode = slices[k].opcode /\ slices'[k].target = slices[k].target
             /\ slices'[k].at = slices[k].at
    <2>1. \A k \in 1..Last : slices[k].branch \in BOOLEAN
        BY <1>2 DEF Slice
    <2>2. slices' \in [1..Last -> Slice]
        BY <1>1, <1>2, ResolvedSlice, JgsFitBefore
    <2>3. slices' \in Seq(Slice) /\ Len(slices') = Last
        BY <1>2, <2>2
    <2>4. \A k \in 1..Last :
              /\ slices[k].branch => slices'[k] = Resolved(k)
              /\ ~ slices[k].branch => slices'[k] = slices[k]
        BY <1>1, <1>2
    <2>5. \A k \in 1..Last :
             /\ slices'[k].branch = slices[k].branch /\ slices'[k].size = slices[k].size
             /\ slices'[k].opcode = slices[k].opcode /\ slices'[k].target = slices[k].target
             /\ slices'[k].at = slices[k].at
        BY <1>1, <2>4, ResolvedSlice, JgsFitBefore
    <2> QED BY <2>3, <2>5 DEF Last
<1>4. ASSUME NEW u \in uses
      PROVE  /\ ResolvedUse(u) \in Use
             /\ ResolvedUse(u).slice = u.slice /\ ResolvedUse(u).at = u.at
             /\ ResolvedUse(u).target = u.target
             /\ ResolvedUse(u).resolved <=> u.target \in Symbols
             /\ u.target \in Symbols =>
                    ResolvedUse(u).value = Displacement(u.slice, u.at, u.target) - 4
    <2>1. u \in Use /\ ~ u.resolved
        BY <1>1 DEF IInv, TypeOK, UsesResolved
    <2>2. CASE u.target \notin Symbols
        BY <2>1, <2>2 DEF ResolvedUse
    <2>3. CASE u.target \in Symbols
        <3> DEFINE v == Displacement(u.slice, u.at, u.target) - 4
        <3>1. \E k \in 1..Last : u.slice = k
            <4>1. PICK local \in [1..Reached -> Nat] : Placement(local)
                BY DEF IInv, Placed
            <4>2. PICK k \in 1..(Reached - 1) : items[k].kind = "call" /\ UseOf(u, k, local)
                BY <4>1 DEF Placement, CallsPlaced
            <4>3. Reached - 1 \in Nat /\ k \in Nat /\ k - 1 \in Nat /\ k - 1 \in 0..(Reached - 1)
                BY <1>1, Items DEF Reached, IInv, TypeOK
            <4>4. /\ BranchSlice(k - 1) \in Nat /\ BranchSlice(k - 1) <= BranchSlice(Reached - 1)
                  /\ BranchSlice(Reached - 1) \in Nat
                BY <4>3, BranchSlices, BranchSlicesGrow
            <4>5. Last = BranchSlice(Reached - 1) + 1 /\ u.slice = BranchSlice(k - 1) + 1
                BY <4>1, <4>2 DEF Placement, EndPlaced, UseOf, Before
            <4> QED BY <4>4, <4>5
        <3>2. offsets[u.slice] \in Int /\ u.at \in Nat
            BY <1>2, <2>1, <3>1 DEF Use
        <3>3. offsets[defs[u.target].slice] \in Int /\ defs[u.target].local \in Nat
            BY <1>2, <2>3 DEF IInv, DefsPlain, TypeOK
        <3>4. v \in Int
            BY <3>2, <3>3 DEF Displacement
        <3>5. ResolvedUse(u) = [u EXCEPT !.value = v, !.resolved = TRUE]
            BY <2>3 DEF ResolvedUse
        <3> HIDE DEF v
        <3>6. /\ ResolvedUse(u) \in Use
              /\ ResolvedUse(u).slice = u.slice /\ ResolvedUse(u).at = u.at
              /\ ResolvedUse(u).target = u.target
              /\ ResolvedUse(u).resolved /\ ResolvedUse(u).value = v
            BY <2>1, <3>4, <3>5 DEF Use
        <3> QED BY <2>3, <3>6 DEF v
    <2> QED BY <2>2, <2>3
<1>5. uses' \subseteq Use
    BY <1>1, <1>4
<1>6. /\ TypeOK' /\ Placed' /\ Shape' /\ NearAtFirst' /\ DefsPlain' /\ Offsets' /\ FarAway'
      /\ ModuleCreated' /\ DOMAIN slices' = 1..Last
      /\ \A k \in 1..Last :
             /\ compute_branch_displacement(k)' = compute_branch_displacement(k)
             /\ Far(k)' = Far(k) /\ Near(k)' = Near(k)
    <2>1. next' \in Nat \ {0} /\ continue' \in BOOLEAN
        BY <1>1 DEF IInv, TypeOK
    <2> QED BY <1>1, <1>3, <1>5, <2>1, SameLayout
<1>7. NearFits'
    BY <1>1 DEF NearFits
<1>8. BranchesResolved'
    <2>1. ASSUME NEW k \in 1..Last, slices'[k].branch
          PROVE  slices'[k].value = compute_branch_displacement(k)
        <3>1. slices[k].branch
            BY <1>3, <2>1
        <3>2. slices'[k] = Resolved(k)
            BY <1>1, <1>2, <3>1
        <3> QED BY <1>1, <3>1, <3>2, ResolvedSlice, JgsFitBefore
    <2> QED BY <1>6, <2>1 DEF BranchesResolved
<1>9. UsesResolved'
    <2>1. \A s, at, t : Displacement(s, at, t)' = Displacement(s, at, t)
        BY <1>1 DEF Displacement
    <2>2. \A u \in uses' : /\ u.resolved <=> u.target \in Symbols
                           /\ u.resolved => u.value = Displacement(u.slice, u.at, u.target) - 4
        BY <1>1, <1>4
    <2> QED BY <1>1, <2>1, <2>2 DEF UsesResolved
<1> QED BY <1>6, <1>7, <1>8, <1>9 DEF IInv

\* The object file is made of what was found.
LEMMA CreateIInv ==
    ASSUME WellFormed, IInv, CreateModule
    PROVE  IInv'
<1>1. /\ phase = "bake" /\ phase' = "done"
      /\ symbols' = [s \in Symbols |-> offsets[defs[s].slice] + defs[s].local]
      /\ relocations' = {[address |-> offsets[u.slice] + u.at, symbol |-> u.target] :
                            u \in {v \in uses : ~ v.resolved}}
      /\ UNCHANGED <<items, next, slices, offsets, defs, uses, continue>>
    BY DEF CreateModule
<1>2. TypeOK'
    BY <1>1 DEF IInv, TypeOK, Phases
<1>3. Placed'
    <2>1. Reached = Len(items) + 1 /\ Reached' = Reached /\ Last' = Last /\ Reached - 1 \in Nat
        BY <1>1, Items DEF Reached, Last, IInv, TypeOK
    <2> QED BY <1>1, <2>1, PlacedKept DEF IInv
<1>4. (Shape /\ NearAtFirst /\ DefsPlain)'
    BY <1>1 DEF IInv, Shape, NearAtFirst, DefsPlain
<1>5. Offsets'
    <2>1. Len(offsets) = Last
        BY <1>1 DEF IInv, Offsets
    <2> QED BY <1>1, <2>1 DEF IInv, Offsets, Last
<1>6. (FarAway /\ NearFits)'
    BY <1>1 DEF FarAway, NearFits
<1>7. BranchesResolved'
    <2>1. \A k : compute_branch_displacement(k)' = compute_branch_displacement(k)
        BY <1>1 DEF compute_branch_displacement, Displacement
    <2> QED BY <1>1, <2>1 DEF BranchesResolved, IInv
<1>8. UsesResolved'
    <2>1. \A s, at, t : Displacement(s, at, t)' = Displacement(s, at, t)
        BY <1>1 DEF Displacement
    <2> QED BY <1>1, <2>1 DEF UsesResolved, IInv
<1>9. ModuleCreated'
    BY <1>1 DEF ModuleCreated
<1> QED BY <1>2, <1>3, <1>4, <1>5, <1>6, <1>7, <1>8, <1>9 DEF IInv

\* Nothing changes.
LEMMA StutterIInv ==
    ASSUME WellFormed, IInv, UNCHANGED vars
    PROVE  IInv'
<1>1. TypeOK'
    BY DEF vars, IInv, TypeOK
<1>2. Placed'
    <2>1. Reached - 1 \in Nat
        BY Items DEF IInv, TypeOK, Reached
    <2>2. Reached' = Reached /\ Last' = Last
        BY DEF vars, Reached, Last
    <2> QED BY <2>1, <2>2, PlacedKept DEF IInv, vars
<1>3. (Shape /\ NearAtFirst /\ DefsPlain /\ Offsets)'
    BY DEF vars, IInv, Shape, NearAtFirst, DefsPlain, Offsets, Far, Last
<1>4. (FarAway /\ NearFits /\ BranchesResolved /\ UsesResolved /\ ModuleCreated)'
    BY DEF vars, IInv, FarAway, NearFits, BranchesResolved, UsesResolved, ModuleCreated, Far, Near,
           compute_branch_displacement, Displacement
<1> QED BY <1>1, <1>2, <1>3, <1>4 DEF IInv

\* A JG that fits has fitted before: once branches are resolved nothing moves.
LEMMA JgsFitOnce ==
    ASSUME WellFormed, JgsFit => IInv, [Next]_vars, JgsFit'
    PROVE  IInv
<1>1. CASE phase \notin {"bake", "done"}
    BY <1>1 DEF JgsFit
<1>2. CASE phase \in {"bake", "done"}
    <2>1. CreateModule \/ UNCHANGED vars
        BY <1>2 DEF Next, AttachSymbolDef, EncodePlain, EncodeCall, EncodeBranch, Encoding, EncodingEnds,
                    ComputeSliceOffset, OffsetsEnd, SkipSlice, WriteNear, RelaxBranch, LeaveFar, Visiting,
                    PassEnds, ResolveInternalSymbols
    <2>2. phase' \in {"bake", "done"} /\ UNCHANGED <<slices, offsets, defs>>
        BY <1>2, <2>1 DEF CreateModule, vars
    <2>3. \A k : compute_branch_displacement(k)' = compute_branch_displacement(k)
        BY <2>2 DEF compute_branch_displacement, Displacement
    <2>4. JgsFit
        BY <2>2, <2>3 DEF JgsFit
    <2> QED BY <2>4
<1> QED BY <1>1, <1>2

\* The invariant holds of every text that encode may be given until the
\* branches are resolved, and afterwards unless a JG is too far.
THEOREM Invariance == Spec => [](JgsFit => IInv)
<1>1. Init => IInv
    BY InitIInv, TextsAssumption
<1>2. (JgsFit => IInv) /\ [Next]_vars => (JgsFit => IInv)'
    <2> SUFFICES ASSUME JgsFit => IInv, [Next]_vars, JgsFit'
                 PROVE  IInv'
        OBVIOUS
    <2>1. WellFormed /\ IInv
        BY JgsFitOnce, TextsAssumption
    <2> QED BY <2>1, AttachIInv, PlainIInv, CallIInv, BranchIInv, EncodingEndsIInv, ComputeOffsetIInv,
               OffsetsEndIInv, PassByIInv, WriteNearIInv, RelaxIInv, PassEndsIInv, ResolveIInv,
               CreateIInv, StutterIInv DEF Next
<1> QED BY <1>1, <1>2, PTL DEF Spec

-----------------------------------------------------------------------------
\* The sum of the bytes before an item, one item at a time.
LEMMA ItemAtSum ==
    ASSUME NEW n \in Nat, Len(items) = n, NEW p,
           n > 0 => p[1] = 0,
           \A k \in 1..n : k # 1 => p[k] = p[k - 1] + ItemSize(k - 1)
    PROVE  \A k \in 1..n : ItemAt[k] = p[k]
<1> DEFINE Sum(f) == f = [k \in 1..n |-> IF k = 1 THEN 0 ELSE f[k - 1] + ItemSize(k - 1)]
           q == [k \in 1..n |-> p[k]]
<1>1. Sum(q)
    <2>1. ASSUME NEW k \in 1..n
          PROVE  q[k] = IF k = 1 THEN 0 ELSE q[k - 1] + ItemSize(k - 1)
        <3>1. CASE k = 1
            BY <3>1
        <3>2. CASE k # 1
            <4>1. k - 1 \in 1..n
                BY <3>2
            <4> QED BY <3>2, <4>1
        <3> QED BY <3>1, <3>2
    <2> QED BY <2>1
<1>2. ItemAt = CHOOSE f : Sum(f)
    BY DEF ItemAt
<1> HIDE DEF Sum
<1>3. Sum(ItemAt)
    BY <1>1, <1>2
<1> USE DEF Sum
<1>4. /\ \A k \in 1..n : ItemAt[k] = IF k = 1 THEN 0 ELSE ItemAt[k - 1] + ItemSize(k - 1)
    BY <1>3
<1> DEFINE T == {k \in 1..n : ItemAt[k] # p[k]}
<1>5. SUFFICES ASSUME T # {}
               PROVE  FALSE
    OBVIOUS
<1>6. PICK k \in T : \A j \in T : k <= j
    <2>1. T \subseteq Nat
        OBVIOUS
    <2> HIDE DEF T
    <2> QED BY <1>5, <2>1, LeastNat
<1>7. k \in 1..n /\ ItemAt[k] # p[k]
    BY <1>6
<1>8. k # 1
    BY <1>4, <1>7
<1>9. k - 1 \in 1..n /\ ItemAt[k - 1] = p[k - 1]
    <2>1. k - 1 \in 1..n /\ ~ (k <= k - 1)
        BY <1>7, <1>8
    <2> QED BY <1>6, <2>1
<1> QED BY <1>4, <1>7, <1>8, <1>9

\* Where an item lies: the offset of the slice it begins in and the bytes of
\* that slice before it.
LEMMA Positions ==
    ASSUME WellFormed, IInv, phase = "done"
    PROVE  \E local \in [1..(Len(items) + 1) -> Nat] :
               /\ Placement(local) /\ Reached = Len(items) + 1
               /\ \A k \in 1..Len(items) : /\ ItemAt[k] = offsets[Before(k)] + local[k]
                                           /\ Before(k) \in 1..Last
                                           /\ IsBranch(k) => BranchSlice(k) \in 1..(Last - 1)
                                           /\ IsBranch(k) => BranchSlice(k) = Before(k) + 1
<1>1. PICK local \in [1..Reached -> Nat] : Placement(local)
    BY DEF IInv, Placed
<1>2. Reached = Len(items) + 1 /\ Len(items) \in Nat /\ Reached - 1 = Len(items)
    BY Items DEF Reached, IInv, TypeOK
<1>3. /\ Len(offsets) = Last /\ Last \in Nat \ {0}
      /\ \A k \in 1..Last : offsets[k] \in Int /\ slices[k].size \in Nat
      /\ offsets[1] = 0
      /\ \A k \in 1..(Last - 1) : offsets[k + 1] = offsets[k] + slices[k].size
    <2>1. Len(offsets) = Last /\ Last \in Nat \ {0}
        BY <1>1, <1>2, EarlierSlices DEF IInv, Offsets, Placement
    <2>2. offsets # <<>>
        BY <2>1
    <2> QED BY <2>1, <2>2, Slices DEF IInv, Offsets
<1>4. \A k \in 1..Len(items) : /\ k \in Nat /\ k - 1 \in Nat /\ (k - 1) + 1 = k
                               /\ k - 1 \in 0..Len(items)
    BY <1>2
<1>5. Last = BranchSlice(Len(items)) + 1
    BY <1>1, <1>2 DEF Placement, EndPlaced, Before
<1>6. \A k \in 1..Len(items) :
          /\ Before(k) \in 1..Last
          /\ IsBranch(k) => BranchSlice(k) \in 1..(Last - 1) /\ BranchSlice(k) = Before(k) + 1
    <2> SUFFICES ASSUME NEW k \in 1..Len(items)
                 PROVE  /\ Before(k) \in 1..Last
                        /\ IsBranch(k) => /\ BranchSlice(k) \in 1..(Last - 1)
                                          /\ BranchSlice(k) = Before(k) + 1
        OBVIOUS
    <2>1. BranchSlice(k - 1) \in Nat /\ BranchSlice(k - 1) <= BranchSlice(Len(items))
        BY <1>2, <1>4, BranchSlicesGrow
    <2>2. BranchSlice(Len(items)) \in Nat
        BY <1>2, BranchSlices
    <2>3. Before(k) \in 1..Last
        BY <1>5, <2>1, <2>2 DEF Before
    <2>4. IsBranch(k) => BranchSlice(k) \in 1..(Last - 1) /\ BranchSlice(k) = Before(k) + 1
        BY <1>1, <1>2, EarlierSlices DEF Placement, IInv
    <2> QED BY <2>3, <2>4
<1> DEFINE p == [k \in 1..Len(items) |-> offsets[Before(k)] + local[k]]
<1>7. Len(items) > 0 => p[1] = 0
    <2>1. Before(1) = 1
        <3>1. 1 - 1 = 0 /\ BranchSlice(0) = 0
            BY BranchSlices
        <3> QED BY <3>1 DEF Before
    <2>2. Len(items) > 0 => 1 \in 1..Len(items)
        BY <1>2
    <2> QED BY <1>1, <1>3, <2>1, <2>2 DEF Placement
<1>8. ASSUME NEW k \in 1..Len(items), k # 1
      PROVE  p[k] = p[k - 1] + ItemSize(k - 1)
    <2> DEFINE j == k - 1
    <2>1. j \in 1..Len(items) /\ j - 1 \in Nat /\ (j - 1) + 1 = j /\ j + 1 = k /\ j \in Nat
        BY <1>2, <1>8
    <2>2. p[k] = offsets[Before(k)] + local[k] /\ p[j] = offsets[Before(j)] + local[j]
        BY <2>1
    <2>3. /\ BranchSlice(j) = BranchSlice(j - 1) + (IF IsBranch(j) THEN 2 ELSE 0)
          /\ BranchSlice(j - 1) \in Nat
        BY <2>1, BranchSlices
    <2>4. Before(k) = Before(j) + (IF IsBranch(j) THEN 2 ELSE 0)
        BY <2>3 DEF Before
    <2>5. /\ Before(j) \in 1..Last /\ Before(k) \in 1..Last
          /\ local[j] \in Nat /\ local[k] \in Nat
        BY <1>1, <1>2, <1>6, <2>1, SMTT(60)
    <2> HIDE DEF p, j
    <2>6. CASE ~ IsBranch(j)
        <3>1. local[k] = local[j] + Bytes(j)
            BY <1>1, <1>2, <2>1, <2>6 DEF Placement, ItemsPlaced
        <3>2. ItemSize(j) = Bytes(j) /\ Bytes(j) \in Nat
            <4>1. /\ items[j].kind \in {"symbol", "plain", "call"}
                  /\ Bytes(j) \in Nat
                BY <2>1, <2>6, Items DEF IsBranch, IInv, TypeOK
            <4>2. CASE items[j].kind = "symbol"
                BY <4>1, <4>2 DEF ItemSize, Bytes
            <4>3. CASE items[j].kind = "plain"
                BY <4>1, <4>3 DEF ItemSize, Bytes
            <4>4. CASE items[j].kind = "call"
                BY <4>1, <4>4 DEF ItemSize, Bytes
            <4> QED BY <4>1, <4>2, <4>3, <4>4
        <3>3. Before(k) = Before(j)
            BY <2>4, <2>5, <2>6
        <3>4. offsets[Before(j)] \in Int
            BY <1>3, <2>5
        <3> QED BY <2>2, <2>5, <3>1, <3>2, <3>3, <3>4 DEF j
    <2>7. CASE IsBranch(j)
        <3>1. local[k] = 0 /\ slices[Before(j)].size = local[j]
            BY <1>1, <1>2, <2>1, <2>7 DEF Placement, ItemsPlaced
        <3>2. BranchSlice(j) = Before(j) + 1 /\ Before(k) = BranchSlice(j) + 1
            BY <1>6, <2>1, <2>4, <2>5, <2>7
        <3>3. ItemSize(j) = slices[BranchSlice(j)].size
            BY <2>7, ZenonT(30) DEF ItemSize, IsBranch
        <3>4. /\ offsets[BranchSlice(j)] = offsets[Before(j)] + slices[Before(j)].size
              /\ offsets[Before(k)] = offsets[BranchSlice(j)] + slices[BranchSlice(j)].size
            <4>1. Before(j) \in 1..(Last - 1) /\ BranchSlice(j) \in 1..(Last - 1)
                BY <1>3, <2>5, <3>2, SMTT(60)
            <4>2. \A b \in 1..(Last - 1) : offsets[b + 1] = offsets[b] + slices[b].size
                BY <1>3
            <4> QED BY <3>2, <4>1, <4>2
        <3>5. offsets[Before(j)] \in Int /\ slices[BranchSlice(j)].size \in Nat
            BY <1>3, <2>5, <3>2
        <3> QED BY <2>2, <2>5, <3>1, <3>3, <3>4, <3>5 DEF j
    <2> QED BY <2>6, <2>7
<1>9. \A k \in 1..Len(items) : ItemAt[k] = p[k]
    <2> HIDE DEF p
    <2> QED BY <1>2, <1>7, <1>8, ItemAtSum
<1> QED BY <1>1, <1>2, <1>6, <1>9

\* The home of a symbol is where the slice it was attached in begins, and the
\* bytes of that slice before it.
LEMMA Homes ==
    ASSUME WellFormed, IInv, phase = "done", NEW s \in Symbols
    PROVE  Home(s) = offsets[defs[s].slice] + defs[s].local
<1>1. PICK local \in [1..(Len(items) + 1) -> Nat] :
          /\ Placement(local) /\ Reached = Len(items) + 1
          /\ \A k \in 1..Len(items) : ItemAt[k] = offsets[Before(k)] + local[k]
    BY Positions
<1>2. PICK k \in 1..Len(items) :
          /\ items[k].kind = "symbol" /\ items[k].name = s
          /\ \A j \in 1..Len(items) : items[j].kind = "symbol" /\ items[j].name = s => j = k
    BY OneHome DEF IInv, TypeOK
<1>3. DOMAIN items = 1..Len(items) /\ Len(items) \in Nat
    BY Items DEF IInv, TypeOK
<1>4. (CHOOSE j \in DOMAIN items : items[j].kind = "symbol" /\ items[j].name = s) = k
    BY <1>2, <1>3
<1>5. Home(s) = ItemAt[k]
    BY <1>4 DEF Home
<1>6. defs[s] = [slice |-> Before(k), local |-> local[k]]
    <2>1. k \in 1..(Reached - 1)
        BY <1>1, <1>3
    <2> QED BY <1>1, <1>2, <2>1 DEF Placement, ItemsPlaced
<1> QED BY <1>1, <1>5, <1>6

\* The branches of the finished section reach their blocks.
LEMMA LandInductive ==
    ASSUME WellFormed, IInv
    PROVE  BranchesLand
<1> SUFFICES ASSUME phase = "done", NEW k \in DOMAIN items, items[k].kind = "branch"
             PROVE  ItemAt[k] + BranchLength(slices[BranchSlice(k)].opcode)
                        + slices[BranchSlice(k)].value = Home(slices[BranchSlice(k)].target)
    BY ZenonT(30) DEF BranchesLand
<1> DEFINE b == BranchSlice(k)
           t == slices[b].target
           d == defs[t].slice
<1>1. PICK local \in [1..(Len(items) + 1) -> Nat] :
          /\ Placement(local) /\ Reached = Len(items) + 1
          /\ \A j \in 1..Len(items) : /\ ItemAt[j] = offsets[Before(j)] + local[j]
                                      /\ Before(j) \in 1..Last
                                      /\ IsBranch(j) => BranchSlice(j) \in 1..(Last - 1)
                                      /\ IsBranch(j) => BranchSlice(j) = Before(j) + 1
    BY Positions
<1>2. k \in 1..Len(items) /\ k \in 1..(Reached - 1) /\ IsBranch(k)
    BY <1>1, Items DEF IInv, TypeOK, IsBranch
<1>3. b \in 1..(Last - 1) /\ b = Before(k) + 1 /\ Before(k) \in 1..Last
    BY <1>1, <1>2
<1>4. /\ slices[Before(k)].size = local[k] /\ slices[b].branch
    BY <1>1, <1>2 DEF Placement, ItemsPlaced
<1>5. /\ Last \in Nat /\ Len(offsets) = Last /\ b \in 1..Last /\ b \in DOMAIN slices
    BY <1>3, Slices DEF IInv, Offsets
<1>6. offsets[b] = offsets[Before(k)] + local[k]
    <2>1. Before(k) \in 1..(Len(offsets) - 1)
        BY <1>3, <1>5
    <2>2. offsets[Before(k) + 1] = offsets[Before(k)] + slices[Before(k)].size
        BY <2>1 DEF IInv, Offsets
    <2> QED BY <1>3, <1>4, <2>2
<1>7. ItemAt[k] = offsets[b]
    BY <1>1, <1>2, <1>6
<1>8. /\ t \in Symbols /\ offsets[d] \in Int /\ offsets[b] \in Int /\ defs[t].local \in Nat
      /\ slices[b].at \in Nat
      /\ compute_branch_displacement(b) =
             offsets[d] + defs[t].local - offsets[b] - slices[b].at - FieldWidth(slices[b].opcode)
    BY <1>4, <1>5, Distance
<1>9. slices[b].value = compute_branch_displacement(b)
    BY <1>4, <1>5 DEF IInv, BranchesResolved
<1>10. BranchLength(slices[b].opcode) = slices[b].at + FieldWidth(slices[b].opcode)
    <2>1. \/ slices[b].opcode \in RelaxableJcc \cup {Jg, NearJmp} /\ slices[b].at = 1
          \/ slices[b].opcode = FarJmp /\ slices[b].at = 1
          \/ slices[b].opcode = FarJcc /\ slices[b].at = 2
        BY <1>4, <1>5 DEF IInv, Shape
    <2>2. CASE slices[b].opcode \in RelaxableJcc \cup {Jg, NearJmp} /\ slices[b].at = 1
        <3>1. slices[b].opcode # FarJcc /\ slices[b].opcode # FarJmp
            BY <2>2, SMTT(60) DEF RelaxableJcc, Jg, NearJmp, FarJcc, FarJmp
        <3>2. FieldWidth(slices[b].opcode) = 1 /\ BranchLength(slices[b].opcode) = 2
            BY <3>1 DEF FieldWidth, BranchLength
        <3> QED BY <2>2, <3>2
    <2>3. CASE slices[b].opcode = FarJmp /\ slices[b].at = 1
        <3>1. FarJmp # FarJcc
            BY DEF FarJmp, FarJcc
        <3>2. FieldWidth(slices[b].opcode) = 4 /\ BranchLength(slices[b].opcode) = 5
            BY <2>3, <3>1 DEF FieldWidth, BranchLength
        <3> QED BY <2>3, <3>2
    <2>4. CASE slices[b].opcode = FarJcc /\ slices[b].at = 2
        <3>1. FieldWidth(slices[b].opcode) = 4 /\ BranchLength(slices[b].opcode) = 6
            <4>1. FarJcc # FarJmp
                BY DEF FarJmp, FarJcc
            <4> QED BY <2>4, <4>1 DEF FieldWidth, BranchLength
        <3> QED BY <2>4, <3>1
    <2> QED BY <2>1, <2>2, <2>3, <2>4
<1>11. Home(t) = offsets[d] + defs[t].local
    BY <1>8, Homes
<1>12. FieldWidth(slices[b].opcode) \in Nat
    BY DEF FieldWidth
<1> HIDE DEF b, d, t
<1>13. ItemAt[k] + BranchLength(slices[b].opcode) + slices[b].value = Home(t)
    BY <1>7, <1>8, <1>9, <1>10, <1>11, <1>12
<1> QED BY <1>13 DEF b, t

\* For every text the encoder can emit, JG included: if no JG is farther from
\* its block than a byte reaches, each branch of the finished section reaches
\* the first byte of its block, as the processor reads the opcode, the width
\* of the field and the value in it.  (apply_relaxation, push_out_slices,
\* resolve_relaxable_slice)
THEOREM BranchesAlwaysLand == Spec => [](JgsFit => BranchesLand)
<1>1. (JgsFit => IInv) => (JgsFit => BranchesLand)
    BY LandInductive, TextsAssumption
<1> QED BY <1>1, Invariance, PTL

\* A branch that was made longer never needs to be short again: while the
\* others grow, its target only moves away.  (apply_relaxation,
\* resolve_relaxable_slice)
THEOREM RelaxedAlwaysFar == Spec => []RelaxedStaysFar
<1>1. ASSUME JgsFit => IInv
      PROVE  RelaxedStaysFar
    <2> SUFFICES ASSUME phase \in {"relax", "resolve"}, NEW k \in DOMAIN slices, Far(k)
                 PROVE  ~ fits_in_i8(compute_branch_displacement(k))
        BY DEF RelaxedStaysFar, Far
    <2>0. IInv /\ k \in 1..Last
        <3>1. IInv
            BY <1>1 DEF JgsFit
        <3> QED BY <3>1, Slices
    <2>1. /\ defs[slices[k].target].slice # k /\ defs[slices[k].target].slice \in 1..Last
          /\ compute_branch_displacement(k) \in Int
        BY <2>0, Distance DEF Far
    <2>3. compute_branch_displacement(k) > 127 \/ compute_branch_displacement(k) < -128
        BY <2>0, <2>1 DEF IInv, FarAway
    <2> QED BY <2>1, <2>3 DEF fits_in_i8
<1> QED BY <1>1, Invariance, PTL

\* The symbols and the calls of the finished section.
LEMMA LinkedInductive ==
    ASSUME WellFormed, IInv
    PROVE  Linked
<1> SUFFICES ASSUME phase = "done"
             PROVE  /\ \A s \in Symbols : symbols[s] = Home(s)
                    /\ \A k \in DOMAIN items : items[k].kind = "call" /\ items[k].target \in Symbols =>
                           \E u \in uses : /\ ItemAt[k] + 1 = offsets[u.slice] + u.at
                                           /\ ItemAt[k] + 5 + u.value = Home(items[k].target)
                    /\ relocations = {[address |-> ItemAt[k] + 1, symbol |-> items[k].target] :
                                          k \in {j \in DOMAIN items : /\ items[j].kind = "call"
                                                                      /\ items[j].target \in Externals}}
    BY ZenonT(30) DEF Linked
<1>1. PICK local \in [1..(Len(items) + 1) -> Nat] :
          /\ Placement(local) /\ Reached = Len(items) + 1
          /\ \A k \in 1..Len(items) : ItemAt[k] = offsets[Before(k)] + local[k] /\ Before(k) \in 1..Last
    BY Positions
<1>2. DOMAIN items = 1..Len(items) /\ Len(items) \in Nat /\ Reached - 1 = Len(items)
    BY <1>1, Items DEF IInv, TypeOK
<1>3. \A k \in 1..Last : offsets[k] \in Int
    BY Slices DEF IInv, Offsets
<1>4. \A s \in Symbols : symbols[s] = Home(s)
    BY Homes DEF IInv, ModuleCreated
<1>5. ASSUME NEW k \in 1..Len(items), NEW u \in uses, UseOf(u, k, local)
      PROVE  /\ u.target = items[k].target
             /\ offsets[u.slice] + u.at = ItemAt[k] + 1
             /\ offsets[u.slice] \in Int /\ u.at \in Nat
    <2>1. offsets[u.slice] = offsets[Before(k)] /\ offsets[Before(k)] \in Int
        BY <1>1, <1>3, <1>5 DEF UseOf
    <2>2. u.at = local[k] + 1 /\ local[k] \in Nat
        BY <1>1, <1>2, <1>5 DEF UseOf
    <2>3. ItemAt[k] = offsets[Before(k)] + local[k]
        BY <1>1
    <2> QED BY <1>5, <2>1, <2>2, <2>3 DEF UseOf
<1>6. ASSUME NEW k \in DOMAIN items, items[k].kind = "call", items[k].target \in Symbols
      PROVE  \E u \in uses : /\ ItemAt[k] + 1 = offsets[u.slice] + u.at
                             /\ ItemAt[k] + 5 + u.value = Home(items[k].target)
    <2>1. PICK u \in uses : UseOf(u, k, local)
        BY <1>1, <1>2, <1>6 DEF Placement, CallsPlaced
    <2> DEFINE t == items[k].target
    <2>2. /\ u.target = t /\ offsets[u.slice] + u.at = ItemAt[k] + 1
          /\ offsets[u.slice] \in Int /\ u.at \in Nat
        BY <1>2, <1>5, <2>1
    <2>3. u.resolved /\ u.value = Displacement(u.slice, u.at, t) - 4
        BY <1>6, <2>2 DEF IInv, UsesResolved
    <2>4. offsets[defs[t].slice] \in Int /\ defs[t].local \in Nat
        BY <1>3, <1>6, Slices DEF IInv, DefsPlain, TypeOK
    <2>5. Home(t) = offsets[defs[t].slice] + defs[t].local
        BY <1>6, Homes
    <2>6. ItemAt[k] \in Int
        <3>1. k \in 1..Len(items) /\ local[k] \in Nat /\ offsets[Before(k)] \in Int
            BY <1>1, <1>2, <1>3
        <3> QED BY <1>1, <3>1
    <2>7. u.value = (offsets[defs[t].slice] + defs[t].local) - (offsets[u.slice] + u.at) - 4
        BY <2>3 DEF Displacement
    <2> HIDE DEF t
    <2>8. ItemAt[k] + 5 + u.value = Home(t)
        BY <2>2, <2>4, <2>5, <2>6, <2>7
    <2> QED BY <2>2, <2>8 DEF t
<1> DEFINE open == {v \in uses : ~ v.resolved}
           calls == {j \in DOMAIN items : items[j].kind = "call" /\ items[j].target \in Externals}
<1>7. \A u \in open : \E k \in calls : /\ offsets[u.slice] + u.at = ItemAt[k] + 1
                                       /\ u.target = items[k].target
    <2> SUFFICES ASSUME NEW u \in open
                 PROVE  \E k \in calls : /\ offsets[u.slice] + u.at = ItemAt[k] + 1
                                         /\ u.target = items[k].target
        OBVIOUS
    <2>1. u \in Use /\ u.target \notin Symbols
        BY DEF IInv, TypeOK, UsesResolved
    <2>2. u.target \in Externals
        BY <2>1 DEF Use
    <2>3. PICK k \in 1..Len(items) : items[k].kind = "call" /\ UseOf(u, k, local)
        BY <1>1, <1>2 DEF Placement, CallsPlaced
    <2>4. /\ u.target = items[k].target /\ offsets[u.slice] + u.at = ItemAt[k] + 1
        BY <1>5, <2>3
    <2> QED BY <1>2, <2>2, <2>3, <2>4
<1>8. \A k \in calls : \E u \in open : /\ offsets[u.slice] + u.at = ItemAt[k] + 1
                                       /\ u.target = items[k].target
    <2> SUFFICES ASSUME NEW k \in calls
                 PROVE  \E u \in open : /\ offsets[u.slice] + u.at = ItemAt[k] + 1
                                        /\ u.target = items[k].target
        OBVIOUS
    <2>1. PICK u \in uses : UseOf(u, k, local)
        BY <1>1, <1>2 DEF Placement, CallsPlaced
    <2>2. u.target = items[k].target /\ offsets[u.slice] + u.at = ItemAt[k] + 1
        BY <1>2, <1>5, <2>1
    <2>3. u.target \notin Symbols
        BY <2>2 DEF WellFormed
    <2>4. ~ u.resolved
        BY <2>3 DEF IInv, UsesResolved
    <2> QED BY <2>1, <2>2, <2>4
<1>9. relocations = {[address |-> offsets[u.slice] + u.at, symbol |-> u.target] : u \in open}
    BY DEF IInv, ModuleCreated
<1> HIDE DEF open, calls
<1>10. relocations = {[address |-> ItemAt[k] + 1, symbol |-> items[k].target] : k \in calls}
    <2>1. \A u \in open : \E k \in calls :
              [address |-> offsets[u.slice] + u.at, symbol |-> u.target]
                  = [address |-> ItemAt[k] + 1, symbol |-> items[k].target]
        BY <1>7
    <2>2. \A k \in calls : \E u \in open :
              [address |-> offsets[u.slice] + u.at, symbol |-> u.target]
                  = [address |-> ItemAt[k] + 1, symbol |-> items[k].target]
        BY <1>8
    <2>3. ASSUME NEW r \in relocations
          PROVE  r \in {[address |-> ItemAt[k] + 1, symbol |-> items[k].target] : k \in calls}
        <3>1. PICK u \in open : r = [address |-> offsets[u.slice] + u.at, symbol |-> u.target]
            BY <1>9
        <3>2. PICK k \in calls : r = [address |-> ItemAt[k] + 1, symbol |-> items[k].target]
            BY <2>1, <3>1, ZenonT(30)
        <3> QED BY <3>2
    <2>4. \A r \in {[address |-> ItemAt[k] + 1, symbol |-> items[k].target] : k \in calls} :
              r \in relocations
        BY <1>9, <2>2
    <2> QED BY <2>3, <2>4
<1> QED BY <1>4, <1>6, <1>10 DEF calls

\* For every text the encoder can emit, JG included: if no JG is farther from
\* its block than a byte reaches, the symbols of the object file are at the
\* bytes of their functions and blocks, the calls within the section reach
\* them, and the field of every other call has its relocation, and nothing
\* else has.  (resolve_symbol, bake_symbol_locations, bake)
THEOREM AlwaysLinked == Spec => [](JgsFit => Linked)
<1>1. (JgsFit => IInv) => (JgsFit => Linked)
    BY LinkedInductive, TextsAssumption
<1> QED BY <1>1, Invariance, PTL
==============================================================================
