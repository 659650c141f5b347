---------------------------- MODULE MCDeduplication ----------------------------
(* The four bands of the code, two bits wide; four articles, two cleaners. *)
EXTENDS Deduplication, TLC

CONSTANTS u1, u2, u3, u4, c1, c2

MCIds == {u1, u2, u3, u4}
MCCleaners == {c1, c2}
MCBylines == {"x"}

\* Words are numbers.  The hashes of the shingles put the bodies at distances on
\* both sides of the threshold and of the gray zone, some with a sign bit, one without
\* any bit.
MCFeatureHash(feature) ==
    CASE feature = <<1, 1>> -> {0, 2, 4, 6}
      [] feature = <<1, 2>> -> {0, 2, 5, 7}
      [] feature = <<2, 1>> -> {1, 3, 5, 7}
      [] feature = <<2, 2>> -> {0, 1, 2}
      [] feature = <<1>>    -> {0, 2, 4, 7}
      [] OTHER              -> {}

MCBodies == {<<1>>, <<2>>, <<1, 2>>, <<2, 1>>, <<2, 2, 1, 1>>}

Symmetric == Permutations(MCIds) \cup Permutations(MCCleaners)
=============================================================================
