--------------------------- MODULE MCAcquisition ---------------------------
(***************************************************************************)
(* Instances of Acquisition: hosts that differ in what the code asks for,  *)
(* and sizes on both sides of its thresholds.                              *)
(***************************************************************************)
EXTENDS Acquisition

Host(repo, builds, command, codename) ==
  [repo |-> repo, builds |-> builds, command |-> command, env |-> command,
   codename |-> codename, samsung |-> FALSE]

MCHosts == {Host(FALSE, TRUE, FALSE, TRUE), Host(TRUE, TRUE, TRUE, TRUE), Host(FALSE, FALSE, FALSE, TRUE)}
=============================================================================
