---------------------------- MODULE PatternDetection ----------------------------
(* crates/patterns: repeated action sequences in an event history, and the graph *)
(* of which action follows which.  An action key is formatted text in the code;  *)
(* here it is the pair of the parts it is formatted from.                        *)
EXTENDS Integers, SequencesExt, FiniteSetsExt

Missing == "missing"        \* a summary field that is absent or not a string
NoExtension == "no_extension"

(* The summary field that tells what an event of this type was about.  A file   *)
(* operation is told by its operation and the extension of its path; titles and *)
(* the types of Deep mode have no subject.                                       *)
SubjectField ==
  [app_focus_change |-> "app", shortcut_used |-> "shortcut", browser_domain_visited |-> "domain",
   clipboard_metadata |-> "content_type", file_operation_metadata |-> "operation"]

Field(e, f) == IF f \in DOMAIN e.summary THEN e.summary[f] ELSE Missing

Subject(e) ==
  LET named == Field(e, SubjectField[e.signalType])
      extension == Field(e, "extension")
  IN IF e.signalType \notin DOMAIN SubjectField THEN Missing
     ELSE IF named = Missing \/ e.signalType # "file_operation_metadata" THEN named
     ELSE <<named, IF extension = Missing THEN NoExtension ELSE extension>>

ActionKey(e) ==
  IF Subject(e) = Missing THEN <<e.source, e.signalType>> ELSE <<e.signalType, Subject(e)>>

Keys(events) == [i \in DOMAIN events |-> ActionKey(events[i])]

ContainsVerbatim(signature) == \E i \in DOMAIN signature : signature[i][1] = "browser_domain_visited"

-----------------------------------------------------------------------------
(* detect *)

Signature(events, start, window) == SubSeq(Keys(events), start, start + window - 1)
Starts(events, window) == 1 .. (Len(events) - window + 1)

(* Mutant: an occurrence may begin at the last event of the one before it. *)
SelectTouching(starts, window) ==
  LET after[k \in 0 .. Max(starts \cup {0})] ==
        IF k = 0 THEN <<>>
        ELSE LET chosen == after[k - 1] IN
             IF k \in starts /\ (chosen = <<>> \/ k >= Last(chosen) + window - 1) THEN Append(chosen, k) ELSE chosen
  IN after[Max(starts \cup {0})]

(* Earliest first, each start that is not inside the occurrence chosen before it. *)
SelectNonOverlapping(starts, window) ==
  LET after[k \in 0 .. Max(starts \cup {0})] ==
        IF k = 0 THEN <<>>
        ELSE LET chosen == after[k - 1] IN
             IF k \in starts /\ (chosen = <<>> \/ k >= Last(chosen) + window) THEN Append(chosen, k) ELSE chosen
  IN after[Max(starts \cup {0})]

Occurrences(events, signature) ==
  LET window == Len(signature) IN
  SelectNonOverlapping({s \in Starts(events, window) : Signature(events, s, window) = signature}, window)

(* Mutant: the evidence begins with the second occurrence. *)
DescribeWithoutFirst(events, signature) ==
  LET starts == Occurrences(events, signature)
      slices == [i \in DOMAIN starts |-> SubSeq(events, starts[i], starts[i] + Len(signature) - 1)]
  IN [signature |-> signature, count |-> Len(starts),
      firstSeen |-> Min({s[1].at : s \in ToSet(slices)}), lastSeen |-> Max({Last(s).at : s \in ToSet(slices)}),
      evidence |-> FlattenSeq(Tail([i \in DOMAIN slices |-> [j \in DOMAIN slices[i] |-> slices[i][j].id]])),
      verbatim |-> ContainsVerbatim(signature)]

(* One detected pattern; the mean span of an occurrence is left out. *)
Describe(events, signature) ==
  LET starts == Occurrences(events, signature)
      slices == [i \in DOMAIN starts |-> SubSeq(events, starts[i], starts[i] + Len(signature) - 1)]
  IN [signature |-> signature, count |-> Len(starts),
      firstSeen |-> Min({s[1].at : s \in ToSet(slices)}), lastSeen |-> Max({Last(s).at : s \in ToSet(slices)}),
      evidence |-> FlattenSeq([i \in DOMAIN slices |-> [j \in DOMAIN slices[i] |-> slices[i][j].id]]),
      verbatim |-> ContainsVerbatim(signature)]

DetectForWindow(events, window, minOccurrences) ==
  {Describe(events, g) : g \in {h \in {Signature(events, s, window) : s \in Starts(events, window)} :
                                  Len(Occurrences(events, h)) >= minOccurrences}}

(* A window of no event, or longer than the history, finds nothing. *)
Detect(events, windowSizes, minOccurrences) ==
  UNION {DetectForWindow(events, w, minOccurrences) : w \in {v \in windowSizes : v # 0 /\ Len(events) >= v}}

-----------------------------------------------------------------------------
(* build_workflow_graph *)

Transitions(events) == {<<ActionKey(events[i]), ActionKey(events[i + 1])>> : i \in 1 .. (Len(events) - 1)}

(* Mutant: a transition seen again does not add to its weight. *)
WeightOnce(events, t) == Cardinality({t} \cap Transitions(events))

Weight(events, t) ==
  Cardinality({i \in 1 .. (Len(events) - 1) : <<ActionKey(events[i]), ActionKey(events[i + 1])>> = t})

BuildWorkflowGraph(events) ==
  [nodes |-> IF Len(events) = 1 THEN {ActionKey(events[1])} ELSE UNION {{t[1], t[2]} : t \in Transitions(events)},
   edges |-> [t \in Transitions(events) |-> Weight(events, t)]]
=============================================================================
