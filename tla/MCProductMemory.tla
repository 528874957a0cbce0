--------------------------- MODULE MCProductMemory ---------------------------
(***************************************************************************)
(* One maker with two models, two codenames, and what is seen of them      *)
(* before adb answers.                                                     *)
(***************************************************************************)
EXTENDS ProductMemory

Id(maker, model, code) == [maker |-> maker, model |-> model, code |-> code]

MCIdentities == {Id("x", "m", "unknown"), Id("unknown", "unknown", "c"), Id("unknown", "m", "c"),
                 Id("x", "m", "c"), Id("x", "m", "d"), Id("x", "n", "c"),
                 Id("unknown", "android", "unknown")}
MCVague == {"unknown", "android"}
MCSymmetry == Permutations(Calls)
=============================================================================
