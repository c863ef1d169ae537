----------------------------- MODULE PrivacyRow -----------------------------
(***************************************************************************)
(* What the privacy commands promise the rest of the program: each one     *)
(* changes its own field of the privacy_state row and nothing else, at     *)
(* once.  PrivacyControl shows when the handlers keep this promise;        *)
(* ObservationLoop is composed with it.                                    *)
(***************************************************************************)
EXTENDS PrivacyDomain

CONSTANT RowLevels  \* levels set_privacy_level may write, among Levels

VARIABLE privacyState

Init == privacyState = InitialPrivacyState

SetPrivacyLevel(level) == privacyState' = [privacyState EXCEPT !.level = level]

AcknowledgeManifest ==
    privacyState' = [privacyState EXCEPT !.consented = CurrentManifestVersion]

PauseObservation == privacyState' = [privacyState EXCEPT !.active = FALSE]

\* complete_onboarding and resume_observation write the same thing.
StartObservation == privacyState' = [privacyState EXCEPT !.active = TRUE]

DeleteAllData == privacyState' = InitialPrivacyState

\* Every command but delete-all, which also empties the other tables.
Command ==
    \/ \E level \in RowLevels : SetPrivacyLevel(level)
    \/ AcknowledgeManifest
    \/ PauseObservation
    \/ StartObservation

Next == Command \/ DeleteAllData

Spec == Init /\ [][Next]_privacyState

=============================================================================
