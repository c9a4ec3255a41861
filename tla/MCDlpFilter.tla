----------------------------- MODULE MCDlpFilter -----------------------------
(***************************************************************************)
(* DlpFilter for TLC: a document on the system drive and one on a USB      *)
(* drive, which may get the same index, and names that leave the type.     *)
(***************************************************************************)
EXTENDS DlpFilter

CONSTANTS local, stick, plain, short, i1, i2, c1, c2

MCSymmetry == Permutations({i1, i2}) \cup Permutations({c1, c2})

MCSuffix == (local :> {"hwp"}) @@ (stick :> {"hwp"}) @@ (plain :> {}) @@ (short :> {})
=============================================================================
