----------------------------- MODULE MCPromotion -----------------------------
(***************************************************************************)
(* Two sessions of one phone, as after a change of the date, and one of    *)
(* another model.                                                          *)
(***************************************************************************)
EXTENDS Promotion

MCKeyOf == [s \in Sessions |-> IF s = "other" THEN "k" ELSE "j"]
=============================================================================
