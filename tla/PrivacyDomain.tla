--------------------------- MODULE PrivacyDomain ---------------------------
(***************************************************************************)
(* The vocabulary of hiddensteps-domain that every component shares: the   *)
(* five privacy levels, the singleton privacy_state row, and the pure      *)
(* decisions the privacy engine and the enterprise policy take on them.    *)
(* updated_at is left out of the row: no decision reads it.                *)
(***************************************************************************)
EXTENDS Integers

Levels == 0..4
Manual == 0
MaximumAssistance == 4

\* No release has shipped a second manifest yet; 0 is "never consented".
CurrentManifestVersion == 1
ManifestVersions == 0..CurrentManifestVersion

PrivacyStates ==
    [level : Levels, consented : ManifestVersions, active : BOOLEAN]

\* The row a new profile starts with, and the one delete-all writes back.
InitialPrivacyState ==
    [level |-> Manual, consented |-> 0, active |-> FALSE]

RequiresReconsent(consented) == consented < CurrentManifestVersion

\* What the observation loop tests before it polls anything.
Permits(row) ==
    /\ row.active
    /\ row.level # Manual
    /\ ~RequiresReconsent(row.consented)

(***************************************************************************)
(* The enterprise floor.  A policy without a floor, and no policy at all,  *)
(* impose nothing: both are the floor Manual.                              *)
(***************************************************************************)
\* Mutant: the floor caps the level instead of raising it.
FloorAsCeiling(floor, choice) == IF floor < choice THEN floor ELSE choice

EffectivePrivacyLevel(floor, choice) == IF floor > choice THEN floor ELSE choice

=============================================================================
