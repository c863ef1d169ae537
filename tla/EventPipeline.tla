--------------------------- MODULE EventPipeline ---------------------------
(***************************************************************************)
(* hiddensteps-pipeline: the Capture -> Classify -> Redact -> Summarize    *)
(* decision for one signal.  A signal's content is abstracted to what the  *)
(* redaction engine makes of it: "clean", "secret" (a confident match,     *)
(* which is masked) or "ambiguous" (an uncertain one).                     *)
(***************************************************************************)
EXTENDS PrivacyDomain

SignalTypes ==
    {"AppFocusChange", "WindowTitle", "ShortcutUsed",
     "AppActionEvent", "BrowserDomainVisited", "ClipboardMetadata",
     "FileOperationMetadata", "OcrText", "Screenshot", "AccessibilityTree"}

\* AppActionEvent has no payload: nothing can capture it yet.
PayloadTypes == SignalTypes \ {"AppActionEvent"}

Contents == {"clean", "secret", "ambiguous"}

MinimumLevelFor(type) ==
    CASE type \in {"AppFocusChange", "WindowTitle", "ShortcutUsed"} -> 1
      [] type \in {"OcrText", "Screenshot", "AccessibilityTree"}   -> MaximumAssistance
      [] OTHER -> 2

\* Clipboard metadata is a content type and a size: nothing to redact.  Every
\* other payload has one text field that is scanned.
Passthrough(type) == type = "ClipboardMetadata"

\* Binary content; the build has no text extractor (NoTextExtraction).
RequiresExtraction(type) == type = "Screenshot"

\* Mutant: an uncertain match is kept as if it were clean.
KeepsUncertain(type, content, level) ==
    CASE MinimumLevelFor(type) > level -> "SignalNotAllowedAtCurrentLevel"
      [] MinimumLevelFor(type) <= level /\ RequiresExtraction(type) -> "OcrUnavailable"
      [] OTHER -> "none"

\* Why a signal is dropped at a level, or "none" if it is summarized.
DropReason(type, content, level) ==
    CASE MinimumLevelFor(type) > level -> "SignalNotAllowedAtCurrentLevel"
      [] MinimumLevelFor(type) <= level /\ RequiresExtraction(type) -> "OcrUnavailable"
      [] /\ MinimumLevelFor(type) <= level
         /\ ~RequiresExtraction(type) /\ ~Passthrough(type)
         /\ content = "ambiguous" -> "RedactionUncertain"
      [] OTHER -> "none"

\* The text that ends up in the summary.
Summarized(type, content) ==
    IF Passthrough(type) THEN "metadata"
    ELSE IF content = "secret" THEN "masked" ELSE content

\* EventSummary::new with the TTL the pipeline attaches (always Some(90 days)
\* in Deep mode for EventPipeline::new()).
Summary(type, content, level) ==
    [type    |-> type,
     level   |-> level,
     text    |-> Summarized(type, content),
     deep    |-> level = MaximumAssistance,
     expires |-> level = MaximumAssistance]

=============================================================================
