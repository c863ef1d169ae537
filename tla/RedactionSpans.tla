----------------------------- MODULE RedactionSpans -----------------------------
(* crates/redaction: which spans of a text the detectors find, and what is left  *)
(* of the text once they are replaced.  A text is a sequence of atoms, the        *)
(* pieces the regular expressions tell apart, digits one by one; a span is           *)
(* [detector, from, to], the place of its detector among all and its ends, both        *)
(* inclusive.  How random a text is, its atoms do not say: which runs are judged to    *)
(* be secrets is given with it.                                                         *)
EXTENDS Ordering, SequencesExt, FiniteSetsExt

DigitNames == <<"0", "1", "2", "3", "4", "5", "6", "7", "8", "9">>
Digits == {DigitNames[d] : d \in 1 .. 10}
Value(digit) == CHOOSE d \in 0 .. 9 : DigitNames[d + 1] = digit

Capitals == {"BEGIN", "END", "PRIVATE", "KEY"}

Letters ==
  {"word",      \* four letters or more, none of the others
   "host",      \* example.com
   "token",     \* an AWS key or a GitHub token, which hold no dot and no dash
   "secret",    \* twenty or more characters of high entropy in no known format
   "hexid"}     \* a hexadecimal id of a usual length
  \cup Capitals

KeyNames ==
  {"password",  \* password= , api_key= , ...
   "medical"}   \* diagnosis= , mrn= , ...

Atoms ==
  Digits \cup Letters \cup KeyNames \cup
  {"dash",      \* - between two digits
   "dashes",    \* -----
   "at",        \* @
   "slash",     \* / or = : part of a high-entropy candidate, not of a word
   "bang",      \* ! : part of a value, of nothing else
   "space"}     \* one blank

WordEnds == Letters \cup Digits
WordStarts == WordEnds \cup KeyNames
Local == WordEnds \cup {"dash", "dashes"}
Candidate == WordStarts \cup {"dash", "dashes", "slash"}
NoWord == {"dash", "dashes", "slash"}

(* What the atoms stand for takes no letter or digit beside it: only a word and       *)
(* digits go on into one another and into a keyword.                                    *)
Whole == Letters \ {"word"}

WellFormed(text) ==
  /\ \A i \in 1 .. (Len(text) - 1) :
       /\ ~(text[i] \in WordEnds /\ text[i + 1] \in WordStarts /\ {text[i], text[i + 1]} \cap Whole # {})
       /\ <<text[i], text[i + 1]>> \notin
            {<<"word", "word">>, <<"space", "space">>, <<"at", "dashes">>, <<"host", "dashes">>}
  /\ \A i \in DOMAIN text :
       text[i] = "dash" => i > 1 /\ i < Len(text) /\ {text[i - 1], text[i + 1]} \subseteq Digits

Span(detector, from, to) == [detector |-> detector, from |-> from, to |-> to]

(* Where the atoms of a class that follow one another from i on end. *)
EndOfRun(text, class, i) ==
  LET others == {j \in i .. Len(text) : text[j] \notin class}
  IN IF others = {} THEN Len(text) ELSE Min(others) - 1

(* Where the matches begin that a scan finds which goes on behind each match:       *)
(* ends[i] is the end of the match that begins at i, or 0.                            *)
Matched(ends) ==
  LET after[i \in 0 .. Len(ends)] ==
        IF i = 0 THEN {}
        ELSE LET before == after[i - 1] IN
             IF ends[i] = 0 \/ \E j \in before : i <= ends[j] THEN before ELSE before \cup {i}
  IN after[Len(ends)]

(* The match at i ends at the first, or the last, of the places it can end at. *)
FirstOf(places) == IF places = {} THEN 0 ELSE Min(places)
LastOf(places) == IF places = {} THEN 0 ELSE Max(places)

Isolated(text, from, to) ==
  (from > 1 => text[from - 1] \notin WordEnds) /\ (to < Len(text) => text[to + 1] \notin WordStarts)

-----------------------------------------------------------------------------
(* Keys, values and addresses *)

(* -----BEGIN, any words in capitals, PRIVATE KEY-----, to the first such END. *)
PemKeys(text) ==
  LET lines(word) == {i \in 1 .. Len(text) - 6 : SubSeq(text, i, i + 2) = <<"dashes", word, "space">>}
      begins == lines("BEGIN")
      footers == lines("END")
      ends(i) == {e \in i + 6 .. Len(text) :
                    /\ SubSeq(text, e - 3, e) = <<"PRIVATE", "space", "KEY", "dashes">>
                    /\ \A k \in i + 3 .. e - 1 : text[k] \in Capitals \cup {"space"}}
      last(i) == UNION {ends(j) : j \in {k \in footers : \E e \in ends(i) : e < k}}
      end == [i \in DOMAIN text |-> IF i \in begins THEN FirstOf(last(i)) ELSE 0]
  IN {<<i, end[i]>> : i \in Matched(end)}

(* How many characters an atom has at least. *)
Characters(atom) ==
  CASE atom \in {"END", "KEY"} -> 3
    [] atom = "dashes" -> 5
    [] atom \in Digits \cup {"dash", "at", "slash", "bang", "space"} -> 1
    [] OTHER -> 4

(* The value behind a keyword: to the next space, and no shorter than least; one   *)
(* space may come before it.                                                         *)
Values(text, keyword, least) ==
  LET first(i) == IF i < Len(text) /\ text[i + 1] = "space" THEN i + 2 ELSE i + 1
      end(i) == EndOfRun(text, Atoms \ {"space"}, first(i))
      length(i) == MapThenSumSet(LAMBDA k : Characters(text[k]), first(i) .. end(i))
      hasValue(i) == /\ text[i] = keyword
                     /\ first(i) <= Len(text) /\ text[first(i)] # "space" /\ length(i) >= least
  IN {<<first(i), end(i)>> : i \in Matched([i \in DOMAIN text |-> IF hasValue(i) THEN end(i) ELSE 0])}

(* All the letters, digits and dashes before an @ are its address's. *)
Emails(text) ==
  LET at(i) == EndOfRun(text, Local, i) + 1
      isEmail(i) == /\ text[i] \in WordEnds /\ (i > 1 => text[i - 1] \notin WordEnds)
                    /\ at(i) < Len(text) /\ text[at(i)] = "at" /\ text[at(i) + 1] = "host"
      end == [i \in DOMAIN text |-> IF isEmail(i) THEN at(i) + 1 ELSE 0]
  IN {<<i, end[i]>> : i \in Matched(end)}

Single(text, atom) == {<<i, i>> : i \in {j \in DOMAIN text : text[j] = atom}}

-----------------------------------------------------------------------------
(* Numbers *)

IsPlausibleSsn(area, group, serial) ==
  /\ area \notin {<<"0", "0", "0">>, <<"6", "6", "6">>} /\ area[1] # "9"
  /\ group # <<"0", "0">> /\ serial # <<"0", "0", "0", "0">>

(* Three, two and four digits with dashes, spaces or nothing between them. *)
Ssns(text, gap) ==
  LET n == Len(gap)
      last(i) == i + 8 + 2 * n
      area(i) == SubSeq(text, i, i + 2)
      group(i) == SubSeq(text, i + 3 + n, i + 4 + n)
      serial(i) == SubSeq(text, i + 5 + 2 * n, last(i))
      isSsn(i) == /\ last(i) <= Len(text) /\ Isolated(text, i, last(i))
                  /\ Range(area(i) \o group(i) \o serial(i)) \subseteq Digits
                  /\ SubSeq(text, i, last(i)) = area(i) \o gap \o group(i) \o gap \o serial(i)
                  /\ IsPlausibleSsn(area(i), group(i), serial(i))
  IN {<<i, last(i)>> : i \in {j \in DOMAIN text : isSsn(j)}}

(* find_luhn_valid_window over a sequence of digits. *)

LuhnValid(digits) ==
  LET fromRight(i) == Len(digits) - i
      weighed(i) == LET d == digits[i] IN
                    IF fromRight(i) % 2 = 0 THEN d ELSE IF 2 * d > 9 THEN 2 * d - 9 ELSE 2 * d
  IN Len(digits) >= 13 /\ FoldLeft(LAMBDA sum, i : sum + weighed(i), 0, [i \in DOMAIN digits |-> i]) % 10 = 0

(* Mutant: only the whole run of digits is tried. *)
WholeRunOnly(digits) ==
  IF Len(digits) \in 13 .. 19 /\ LuhnValid(digits) THEN {<<1, Len(digits)>>} ELSE {}

(* The longest window that is valid, the first of its length; at most one digit   *)
(* is left out.                                                                     *)
FindLuhnValidWindow(digits) ==
  LET maxLen == Min({Len(digits), 19})
      minLen == Max({maxLen - 1, 13})
      valid(n) == {s \in 1 .. (Len(digits) - n + 1) : LuhnValid(SubSeq(digits, s, s + n - 1))}
      lengths == {n \in minLen .. maxLen : valid(n) # {}}
  IN IF Len(digits) < 13 \/ lengths = {} THEN {}
     ELSE {<<Min(valid(Max(lengths))), Min(valid(Max(lengths))) + Max(lengths) - 1>>}

DigitsIn(text, from, to) == {i \in from .. to : text[i] \in Digits}

(* Thirteen to nineteen digits with no more than a dash or a space between two, as    *)
(* many as there are, up to the end of a word.                                           *)
CardCandidates(text) ==
  LET begins(i) == text[i] \in Digits /\ (i > 1 => text[i - 1] \notin WordEnds)
      ends(i) == {e \in i .. EndOfRun(text, Digits \cup {"dash", "space"}, i) :
                    /\ text[e] \in Digits /\ Isolated(text, i, e)
                    /\ Cardinality(DigitsIn(text, i, e)) \in 13 .. 19}
      end == [i \in DOMAIN text |-> IF begins(i) THEN LastOf(ends(i)) ELSE 0]
  IN {<<i, end[i]>> : i \in Matched(end)}

(* The valid window of each candidate; it may be of digits of several numbers. *)
Cards(text) ==
  LET windows(S) ==
        LET places == Ordered(S, {p \in S \X S : p[1] < p[2]})
            digits == [k \in DOMAIN places |-> Value(text[places[k]])]
        IN {<<places[w[1]], places[w[2]]>> : w \in FindLuhnValidWindow(digits)}
  IN UNION {windows(DigitsIn(text, c[1], c[2])) : c \in CardCandidates(text)}

-----------------------------------------------------------------------------
(* Detection and replacement *)

Found(detector, pairs) == {Span(detector, p[1], p[2]) : p \in pairs}

(* The known formats, in the order the detectors run. *)
KnownFormats(text) ==
       Found(1, PemKeys(text))
  \cup Found(2, Single(text, "token"))
  \cup Found(3, Values(text, "password", 4))
  \cup Found(4, Values(text, "medical", 2))
  \cup Found(5, Emails(text))
  \cup Found(6, Ssns(text, <<"dash">>))
  \cup Found(7, Ssns(text, <<"space">>))
  \cup Found(8, Ssns(text, <<>>))
  \cup Found(9, Cards(text))

AmbiguousSecret == 10

Overlap(s, t) == s.from <= t.to /\ t.from <= s.to

(* The candidates: the maximal runs of their atoms, from the first word in them to   *)
(* the last, for a candidate begins and ends at a word character.                       *)
EntropyCandidates(text) ==
  LET runs == {<<i, EndOfRun(text, Candidate, i)>> :
                 i \in {j \in DOMAIN text : text[j] \in Candidate /\ (j > 1 => text[j - 1] \notin Candidate)}}
      words(r) == {i \in r[1] .. r[2] : text[i] \notin NoWord}
  IN {Span(AmbiguousSecret, Min(words(r)), Max(words(r))) : r \in {q \in runs : words(q) # {}}}

(* Which candidates can be judged secrets, as wholes: at least twenty characters, a   *)
(* letter and another character among them, no usual id, and high entropy.  A secret   *)
(* alone is one; joined to others, it depends on them.                                    *)
CanBeSuspicious(text, suspicious) ==
  LET candidates == EntropyCandidates(text) IN
  /\ suspicious \subseteq {<<c.from, c.to>> : c \in candidates}
  /\ \A c \in candidates : c.from = c.to =>
       /\ text[c.from] = "secret" => <<c.from, c.to>> \in suspicious
       /\ <<c.from, c.to>> \in suspicious => text[c.from] \in {"secret", "token"}
  /\ \A p \in suspicious : \E i \in p[1] .. p[2] : text[i] \in Letters \cup KeyNames

Suspicious(text, suspicious) == {c \in EntropyCandidates(text) : <<c.from, c.to>> \in suspicious}

(* Mutant: a candidate counts as claimed as soon as anything was found. *)
AmbiguousUnlessFound(text, suspicious, known) == {c \in Suspicious(text, suspicious) : known = {}}

Ambiguous(text, suspicious, known) == {c \in Suspicious(text, suspicious) : ~ \E s \in known : Overlap(s, c)}

InTextOrder(spans) ==
  {p \in spans \X spans : p[1].from < p[2].from \/ (p[1].from = p[2].from /\ p[1].detector < p[2].detector)}

(* Mutant: the spans stay in the order of the detectors. *)
DetectUnsorted(text, suspicious) ==
  LET known == KnownFormats(text)
      found == known \cup Ambiguous(text, suspicious, known)
  IN Ordered(found, {p \in found \X found : p[1].detector < p[2].detector \/ (p[1].detector = p[2].detector /\ p[1].from < p[2].from)})

(* A stable sort by start: of spans with one start, the detector that ran first. *)
DetectAll(text, suspicious) ==
  LET known == KnownFormats(text)
      found == known \cup Ambiguous(text, suspicious, known)
  IN Ordered(found, InTextOrder(found))

(* The end of the span replaced last, after each of the spans: one that starts      *)
(* before that end is skipped.                                                        *)
Cursor(detections) ==
  LET after[k \in 0 .. Len(detections)] ==
        IF k = 0 THEN 0
        ELSE LET before == after[k - 1] IN IF detections[k].from <= before THEN before ELSE detections[k].to
  IN after

(* What the replacement leaves standing. *)
Survivors(text, detections) ==
  LET replaced == {k \in DOMAIN detections : detections[k].from > Cursor(detections)[k - 1]}
  IN {i \in DOMAIN text : ~ \E k \in replaced : detections[k].from <= i /\ i <= detections[k].to}

ScanText(text, suspicious) ==
  LET detections == DetectAll(text, suspicious) IN
  IF detections = <<>> THEN [outcome |-> "clean", survivors |-> DOMAIN text]
  ELSE IF \E k \in DOMAIN detections : detections[k].detector = AmbiguousSecret
    THEN [outcome |-> "drop", survivors |-> {}]
  ELSE [outcome |-> "redacted", survivors |-> Survivors(text, detections)]
=============================================================================
