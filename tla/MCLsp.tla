-------------------------------- MODULE MCLsp --------------------------------
(* A library a, a module b that exports a name of it, and a user c.        *)
EXTENDS LspWorkspace

CONSTANTS a, b, c, Texts

Text(defs, uses, calls, broken) ==
    [defs |-> defs, uses |-> uses, calls |-> calls, broken |-> broken]
From(m, n) == n :> m

\* a declares x in several ways and depends on nothing, as it may have a syntax
\* error; b and c depend on each other, in one case in a circle.
TextsOfA == {
    Text(<<"x">>, << >>, {}, FALSE),
    Text(<<"y", "x">>, << >>, {"x"}, FALSE),
    Text(<<"y">>, << >>, {}, TRUE)}
TextsOfB == {
    Text(<<"v">>, From(a, "x") @@ From(c, "z"), {"x", "z"}, FALSE),
    Text(<<"v">>, From(a, "x"), {}, FALSE),
    Text(<<"v">>, From(c, "x"), {}, FALSE),
    Text(<<"x", "v">>, << >>, {}, FALSE)}
TextsOfC == {
    Text(<<"z">>, From(b, "x") @@ From(b, "v"), {"x", "v"}, FALSE),
    Text(<<"z">>, From(a, "x"), {"x", "z"}, FALSE)}
BrokenOfC == {
    Text(<<"z">>, From(a, "x"), {"x"}, TRUE)}
EmptyC == {
    Text(<<>>, << >>, {"x"}, FALSE), Text(<<>>, << >>, {}, FALSE)}

MCTextsOf(m) ==
    CASE m = a -> TextsOfA
      [] m = b -> TextsOfB
      [] m = c -> CASE Texts = "sound"  -> TextsOfC
                    [] Texts = "broken" -> BrokenOfC
                    [] Texts = "empty"  -> TextsOfC \union EmptyC

\* "broken" and "empty" are the texts for which errors are lost.
ASSUME SoundOrNot == Texts = "sound" <=> SoundTexts
==============================================================================
