---------------------------- MODULE MCHotReloader ----------------------------
(***************************************************************************)
(* Instances of HotReloader for TLC.  Contents: a is what the executable   *)
(* was built from, b a version of the same size, c a shorter one that      *)
(* defines one more function and drops another, e does not compile.        *)
(***************************************************************************)
EXTENDS HotReloader, TLC

CONSTANTS f1, f2, txt, t1, t2, a, b, c, e, gone, main, aux, new

MCDefines == [x \in Contents |->
    CASE x \in {a, b} -> {main, aux}
      [] x = c        -> {main, new}
      [] OTHER        -> {}]

\* One function per file is enough where the question is which files load.
OneDefines == [x \in Contents |-> IF x \in {a, b, c} THEN {main} ELSE {}]

SameSize == [x \in Contents |-> IF x = gone THEN 0 ELSE 3]
ShorterC == [x \in Contents |-> IF x = gone THEN 0 ELSE IF x = c THEN 2 ELSE 3]

\* The user saves anything, or never saves what a file already contained.
AnyEdit == [x \in Contents |-> Contents \ {x}]
NewEdit == [x \in Contents |->
    CASE x = a    -> Contents \ {a}
      [] x = b    -> Contents \ {a, b}
      [] x = gone -> Contents \ {a, b, gone}
      [] OTHER    -> {}]

ThreadSymmetry == Permutations({t1, t2})
==============================================================================
