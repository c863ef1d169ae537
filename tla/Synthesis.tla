-------------------------------- MODULE Synthesis --------------------------------
(* crates/recommendations: what makes a provider's answer acceptable.  A        *)
(* response is a sequence of characters, of which only the ones JSON's structure *)
(* hangs on are told apart; a text of the recommendation is a sequence of words.  *)
EXTENDS Integers, SequencesExt, FiniteSetsExt

-----------------------------------------------------------------------------
(* extract_json_object *)

Open == "{"
Close == "}"
Quote == "quote"
Backslash == "backslash"

AtStart == [depth |-> 0, inString |-> FALSE, escaped |-> FALSE, end |-> 0]

(* Mutant: braces count inside strings too. *)
ScanBraces(scan, c, i) ==
  IF scan.end # 0 THEN scan
  ELSE IF c = Open THEN [scan EXCEPT !.depth = @ + 1]
  ELSE IF c = Close THEN [scan EXCEPT !.depth = @ - 1, !.end = IF scan.depth = 1 THEN i ELSE 0]
  ELSE scan

Scan(scan, c, i) ==
  IF scan.end # 0 THEN scan
  ELSE IF scan.inString THEN
    [scan EXCEPT !.escaped = ~@ /\ c = Backslash, !.inString = scan.escaped \/ c # Quote]
  ELSE IF c = Quote THEN [scan EXCEPT !.inString = TRUE]
  ELSE IF c = Open THEN [scan EXCEPT !.depth = @ + 1]
  ELSE IF c = Close THEN [scan EXCEPT !.depth = @ - 1, !.end = IF scan.depth = 1 THEN i ELSE 0]
  ELSE scan

(* Where the scan is at the end of a text, if it begins at start. *)
ScanFrom(text, start) ==
  LET after[k \in 0 .. (Len(text) - start + 1)] ==
        IF k = 0 THEN AtStart ELSE Scan(after[k - 1], text[start + k - 1], start + k - 1)
  IN after[Len(text) - start + 1]

(* The object found, as a set of at most one. *)
ExtractJsonObject(text) ==
  LET opens == {i \in DOMAIN text : text[i] = Open}
      scan == ScanFrom(text, Min(opens))
  IN IF opens = {} \/ scan.end = 0 THEN {} ELSE {SubSeq(text, Min(opens), scan.end)}

-----------------------------------------------------------------------------
(* mentioned_counts.  A word is [kind, value]: a numeral, a tens word, a ones    *)
(* word (one .. nineteen), "once" or "twice", a keyword (times, occurrences,      *)
(* instances), or any other.  A numeral too large for u32 has the value TooLarge. *)

TooLarge == -1
Kind(text, i) == text[i].kind
Keywords(text) == {i \in DOMAIN text : Kind(text, i) = "keyword"}

Mention(from, to, n) == [from |-> from, to |-> to, value |-> n]

Numerals(text) ==
  {Mention(k - 1, k, text[k - 1].value) :
     k \in {j \in Keywords(text) : j > 1 /\ Kind(text, j - 1) = "numeral" /\ text[j - 1].value # TooLarge}}

Compounds(text) ==
  {Mention(k - 2, k, text[k - 2].value + text[k - 1].value) :
     k \in {j \in Keywords(text) : j > 2 /\ Kind(text, j - 2) = "tens" /\ Kind(text, j - 1) = "ones"
                                     /\ text[j - 1].value < 10}}

(* A number word before a keyword, unless it is inside a mention already read. *)
Singles(text, read) ==
  {m \in {Mention(k - 1, k, text[k - 1].value) :
            k \in {j \in Keywords(text) : j > 1 /\ Kind(text, j - 1) \in {"tens", "ones"}}} :
     ~ \E r \in read : m.from >= r.from /\ m.to <= r.to}

OnceOrTwice(text) ==
  {Mention(i, i, text[i].value) : i \in {j \in DOMAIN text : Kind(text, j) = "onceOrTwice"}}

MentionedCounts(text) ==
  LET read == Numerals(text) \cup Compounds(text)
  IN read \cup Singles(text, read) \cup OnceOrTwice(text)

ContradictsOccurrenceCount(text, count) == \E m \in MentionedCounts(text) : m.value # count

-----------------------------------------------------------------------------
(* try_build and synthesize.  A response is [failed, object, shaped, texts,      *)
(* known, confidence]: whether the provider failed, an object was found, it has   *)
(* the expected shape, its free texts by field, whether its category and levels   *)
(* are known ones, and its confidence in percent.                                 *)

TextFields == {"why", "title", "privacyImplications", "implementationEffort",
               "assumptions", "ignoredInformation", "alternatives"}

(* Mutant: only the main text is checked. *)
AcceptsByWhy(response, detected) ==
  /\ response.object /\ response.shaped
  /\ ~ContradictsOccurrenceCount(response.texts["why"], detected.count)
  /\ response.known
  /\ response.confidence \in 0 .. 100

Accepts(response, detected) ==
  /\ response.object /\ response.shaped
  /\ \A f \in TextFields : ~ContradictsOccurrenceCount(response.texts[f], detected.count)
  /\ response.known
  /\ response.confidence \in 0 .. 100

(* The estimate comes from the detector, never from the response. *)
Recommendation(response, detected) ==
  [texts |-> response.texts, confidence |-> response.confidence,
   timeSaved |-> detected.minutes * detected.count]

(* One attempt after the other until one is accepted or the provider fails. *)
Synthesize(responses, detected, maxAttempts) ==
  LET attempts == Min({Max({maxAttempts, 1}), Len(responses)})
      ends == {i \in 1 .. attempts : responses[i].failed \/ Accepts(responses[i], detected)}
  IN IF ends = {} THEN [result |-> "exhausted", attempts |-> attempts]
     ELSE IF responses[Min(ends)].failed THEN [result |-> "provider", attempts |-> Min(ends)]
     ELSE [result |-> "accepted", attempts |-> Min(ends), made |-> Recommendation(responses[Min(ends)], detected)]
=============================================================================
