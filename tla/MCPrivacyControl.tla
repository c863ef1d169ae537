-------------------------- MODULE MCPrivacyControl --------------------------
(***************************************************************************)
(* PrivacyControl for TLC: callers are interchangeable.                    *)
(***************************************************************************)
EXTENDS PrivacyControl, TLC

ClientSymmetry == Permutations(Clients)

=============================================================================
