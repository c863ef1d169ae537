----------------------------- MODULE RedactionProofs -----------------------------
(* Proofs about the redaction of texts of every length: which spans the detectors    *)
(* find, in which order they are replaced, and that what was found cannot survive.     *)
EXTENDS AlgorithmsProofs

-----------------------------------------------------------------------------
(* Runs and matches *)

(* A run goes on to the last atom of its class, and no further. *)
LEMMA RunEnds ==
  ASSUME NEW text \in Seq(Atoms), NEW class, NEW i \in DOMAIN text, text[i] \in class
  PROVE  /\ EndOfRun(text, class, i) \in i .. Len(text)
         /\ \A k \in i .. EndOfRun(text, class, i) : text[k] \in class
         /\ EndOfRun(text, class, i) < Len(text) => text[EndOfRun(text, class, i) + 1] \notin class
         /\ \A j \in i .. Len(text) : (\A k \in i .. j : text[k] \in class) => j <= EndOfRun(text, class, i)
<1> DEFINE n == Len(text)
           others == {j \in i .. n : text[j] \notin class}
           end == EndOfRun(text, class, i)
<1>1. n \in Nat /\ i \in 1 .. n
  BY LenProperties
<1>2. end = IF others = {} THEN n ELSE Min(others) - 1
  BY DEF EndOfRun
<1> HIDE DEF n, end
<1>3. CASE others = {}
  <2>1. end = n /\ \A k \in i .. n : text[k] \in class
    BY <1>2, <1>3
  <2>2. end \in i .. n /\ ~(end < n) /\ \A j \in i .. n : j <= end
    BY <1>1, <2>1
  <2> QED BY <2>1, <2>2 DEF n, end
<1>4. CASE others # {}
  <2>1. others \in SUBSET Nat
    BY <1>1
  <2> DEFINE first == Min(others)
  <2>2. first \in others /\ \A k \in others : first <= k
    <3> HIDE DEF others
    <3> QED BY <1>4, <2>1, MinIsLeast
  <2>3. end = first - 1
    BY <1>2, <1>4
  <2> HIDE DEF first
  <2>4. first \in i + 1 .. n /\ text[first] \notin class
    BY <1>1, <2>2
  <2>5. end \in i .. n /\ end + 1 = first /\ end < first
    BY <1>1, <2>3, <2>4
  <2>6. \A k \in i .. end : text[k] \in class
    <3>1. \A k \in i .. end : k \in i .. n /\ ~(first <= k)
      BY <1>1, <2>4, <2>5
    <3> QED BY <2>2, <3>1
  <2>7. \A j \in i .. n : (\A k \in i .. j : text[k] \in class) => j <= end
    <3> SUFFICES ASSUME NEW j \in i .. n, \A k \in i .. j : text[k] \in class PROVE j <= end
      OBVIOUS
    <3>1. first \notin i .. j
      BY <2>4
    <3> QED BY <1>1, <2>4, <2>5, <3>1
  <2> QED BY <2>4, <2>5, <2>6, <2>7 DEF n, end
<1> QED BY <1>3, <1>4

(* The places of a text where a match may begin. *)
Places(ends) == SUBSET (1 .. Len(ends))

(* The matches as they are found, one place of the text after the other. *)
MatchedAfter(g, ends) ==
  /\ g \in [0 .. Len(ends) -> Places(ends)]
  /\ g[0] = {}
  /\ \A k \in 1 .. Len(ends) : g[k] = (IF ends[k] = 0 \/ \E j \in g[k - 1] : k <= ends[j] THEN g[k - 1] ELSE g[k - 1] \cup {k})
  /\ Matched(ends) = g[Len(ends)]

LEMMA MatchedSteps ==
  ASSUME NEW ends \in Seq(Nat)
  PROVE  \E g : MatchedAfter(g, ends)
<1> DEFINE n == Len(ends)
           first == {}
           F == [k \in 1 .. n |-> [x \in Places(ends) |-> (IF ends[k] = 0 \/ \E j \in x : k <= ends[j] THEN x ELSE x \cup {k})]]
           Recursion(g) == g = [k \in 0 .. n |-> IF k = 0 THEN first ELSE (IF ends[k] = 0 \/ \E j \in g[k - 1] : k <= ends[j] THEN g[k - 1] ELSE g[k - 1] \cup {k})]
           after == CHOOSE g : Recursion(g)
<1>1. n \in Nat
  BY LenProperties
<1>2. first \in Places(ends)
  BY DEF Places
<1>3. ASSUME NEW k \in 1 .. n, NEW x \in Places(ends) PROVE (IF ends[k] = 0 \/ \E j \in x : k <= ends[j] THEN x ELSE x \cup {k}) \in Places(ends)
  BY DEF Places
<1>4. Stays(F, n, Places(ends))
  <2> HIDE DEF n
  <2> QED BY <1>3 DEF Stays
<1>5. \A k \in 1 .. n : \A x \in Places(ends) : F[k][x] = (IF ends[k] = 0 \/ \E j \in x : k <= ends[j] THEN x ELSE x \cup {k})
  OBVIOUS
<1> HIDE DEF F, first
<1>6. PICK g : GoesOn(g, first, F, n, Places(ends))
  <2> HIDE DEF n
  <2> QED BY ONLY <1>1, <1>2, <1>4, RecursionDefines
<1>7. Recursion(g)
  <2>1. \A k \in 0 .. n : k # 0 => k \in 1 .. n /\ g[k - 1] \in Places(ends)
    <3>1. \A k \in 0 .. n : k # 0 => k \in 1 .. n /\ k - 1 \in 0 .. n
      BY ONLY <1>1
    <3>2. \A k \in 0 .. n : g[k] \in Places(ends)
      BY <1>6 DEF GoesOn
    <3> QED BY ONLY <3>1, <3>2
  <2>2. \A k \in 0 .. n : g[k] = IF k = 0 THEN first ELSE (IF ends[k] = 0 \/ \E j \in g[k - 1] : k <= ends[j] THEN g[k - 1] ELSE g[k - 1] \cup {k})
    BY <1>5, <1>6, <2>1 DEF GoesOn
  <2> HIDE DEF n
  <2> QED BY <1>6, <2>2 DEF GoesOn
<1>8. Recursion(after)
  <2> HIDE DEF Recursion
  <2> QED BY <1>7
<1>9. /\ after[0] = first /\ DOMAIN after = 0 .. n
      /\ \A k \in 1 .. n : after[k] = (IF ends[k] = 0 \/ \E j \in after[k - 1] : k <= ends[j] THEN after[k - 1] ELSE after[k - 1] \cup {k})
  <2> HIDE DEF after, n
  <2>1. DOMAIN after = 0 .. n /\ \A k \in 0 .. n : after[k] = IF k = 0 THEN first ELSE (IF ends[k] = 0 \/ \E j \in after[k - 1] : k <= ends[j] THEN after[k - 1] ELSE after[k - 1] \cup {k})
    BY <1>8
  <2>2. 0 \in 0 .. n /\ \A k \in 1 .. n : k \in 0 .. n /\ k # 0
    BY <1>1
  <2> QED BY <2>1, <2>2
<1>10. \A k \in 0 .. n : after[k] \in Places(ends)
  <2> DEFINE P == {k \in 0 .. n : after[k] \in Places(ends)}
  <2> HIDE DEF after
  <2>1. 0 \in P
    BY <1>1, <1>2, <1>9
  <2>2. ASSUME NEW k \in 1 .. n, k - 1 \in P PROVE k \in P
    <3>1. after[k - 1] \in Places(ends) /\ after[k] = (IF ends[k] = 0 \/ \E j \in after[k - 1] : k <= ends[j] THEN after[k - 1] ELSE after[k - 1] \cup {k})
      BY <1>9, <2>2
    <3>2. after[k] \in Places(ends) /\ k \in 0 .. n
      <4>1. after[k] \in Places(ends)
        BY <1>3, <3>1
      <4>2. k \in 0 .. n
        BY ONLY <1>1
      <4> QED BY <4>1, <4>2
    <3> QED BY <3>2
  <2>3. \A k \in 0 .. n : k \in P
    <3> HIDE DEF P, n
    <3> QED BY ONLY <1>1, <2>1, <2>2, IntervalInduction
  <2> QED BY <2>3
<1>11. Matched(ends) = after[Len(ends)]
  BY DEF Matched, first
<1>12. after \in [0 .. n -> Places(ends)]
  <2>1. after = [k \in 0 .. n |-> after[k]]
    <3> HIDE DEF after
    <3> QED BY <1>8
  <2> HIDE DEF after
  <2> QED BY <1>10, <2>1
<1> HIDE DEF after
<1>13. MatchedAfter(after, ends)
  BY <1>9, <1>11, <1>12 DEF first, MatchedAfter
<1> QED BY <1>13

(* What the matches have in common: there is something, and no two of them overlap. *)
LEMMA MatchesApart ==
  ASSUME NEW ends \in Seq(Nat)
  PROVE  /\ Matched(ends) \subseteq DOMAIN ends
         /\ \A i \in Matched(ends) : ends[i] # 0
         /\ \A i, j \in Matched(ends) : i < j => ends[i] < j
<1> DEFINE n == Len(ends)
<1>1. n \in Nat /\ DOMAIN ends = 1 .. n
  BY LenProperties
<1>2. PICK g : MatchedAfter(g, ends)
  BY MatchedSteps
<1>3. /\ g[0] = {}
      /\ \A k \in 1 .. n : g[k] = IF ends[k] = 0 \/ \E j \in g[k - 1] : k <= ends[j] THEN g[k - 1] ELSE g[k - 1] \cup {k}
      /\ Matched(ends) = g[n]
  BY <1>2 DEF MatchedAfter
<1> DEFINE ApartUpTo(k) == /\ g[k] \subseteq 1 .. k
                           /\ \A i \in g[k] : ends[i] # 0
                           /\ \A i, j \in g[k] : i < j => ends[i] < j
           P == {k \in 0 .. n : ApartUpTo(k)}
<1>4. 0 \in P
  BY <1>1, <1>3
<1>5. ASSUME NEW k \in 1 .. n, k - 1 \in P PROVE k \in P
  <2>1. ApartUpTo(k - 1)
    BY <1>5
  <2>2. CASE ends[k] = 0 \/ \E j \in g[k - 1] : k <= ends[j]
    <3>1. g[k] = g[k - 1]
      BY <1>3, <2>2
    <3>2. g[k] \subseteq 1 .. k
      BY <1>1, <2>1, <3>1
    <3> QED BY <1>1, <2>1, <3>1, <3>2
  <2>3. CASE ends[k] # 0 /\ \A j \in g[k - 1] : ~(k <= ends[j])
    <3>1. g[k] = g[k - 1] \cup {k}
      BY <1>3, <2>3
    <3>2. g[k] \subseteq 1 .. k
      BY <1>1, <2>1, <3>1
    <3>3. \A i \in g[k] : ends[i] # 0
      BY <2>1, <2>3, <3>1
    <3>4. \A i \in g[k - 1] : ends[i] \in Nat /\ i < k
      BY <1>1, <2>1
    <3>5. \A i, j \in g[k] : i < j => ends[i] < j
      BY <1>1, <2>1, <2>3, <3>1, <3>4
    <3> QED BY <1>1, <3>2, <3>3, <3>5
  <2> QED BY <2>2, <2>3
<1>6. n \in P
  <2>1. \A k \in 0 .. n : k \in P
    <3> HIDE DEF P, n
    <3> QED BY ONLY <1>1, <1>4, <1>5, IntervalInduction
  <2> QED BY <1>1, <2>1
<1> QED BY <1>1, <1>3, <1>6

-----------------------------------------------------------------------------
(* What the detectors find *)

(* Matches lie in the text, and no two begin at one place. *)
AreMatches(text, pairs) ==
  /\ \A p \in pairs : p = <<p[1], p[2]>> /\ p[1] \in DOMAIN text /\ p[2] \in p[1] .. Len(text)
  /\ \A p, q \in pairs : p[1] = q[1] => p[2] = q[2]

(* What a scan finds from left to right is matches, of which no two overlap. *)
LEMMA ScannedAreMatches ==
  ASSUME NEW text \in Seq(Atoms), NEW end, DOMAIN end = DOMAIN text, end = [i \in DOMAIN text |-> end[i]],
         \A i \in DOMAIN text : end[i] = 0 \/ end[i] \in i .. Len(text)
  PROVE  /\ AreMatches(text, {<<i, end[i]>> : i \in Matched(end)})
         /\ \A p, q \in {<<i, end[i]>> : i \in Matched(end)} : p[1] < q[1] => p[2] < q[1]
         /\ \A i \in Matched(end) : i \in DOMAIN text /\ end[i] \in i .. Len(text)
<1> DEFINE n == Len(text)
           pairs == {<<i, end[i]>> : i \in Matched(end)}
<1>1. n \in Nat /\ DOMAIN text = 1 .. n
  BY LenProperties
<1>2. end \in Seq(Nat)
  <2>1. \A i \in 1 .. n : end[i] \in Nat
    <3> SUFFICES ASSUME NEW i \in 1 .. n PROVE end[i] \in Nat
      OBVIOUS
    <3>1. end[i] = 0 \/ end[i] \in i .. n
      BY <1>1
    <3> QED BY <1>1, <3>1
  <2> HIDE DEF n
  <2>2. end \in [1 .. n -> Nat]
    BY <1>1, <2>1
  <2> QED BY <1>1, <2>2
<1>3. \A i \in Matched(end) : i \in DOMAIN text /\ end[i] \in i .. n
  BY <1>2, MatchesApart
<1>4. \A i, j \in Matched(end) : i < j => end[i] < j
  BY <1>2, MatchesApart
<1>5. \A p \in pairs : p[1] \in Matched(end) /\ p[2] = end[p[1]] /\ p = <<p[1], p[2]>>
  OBVIOUS
<1> HIDE DEF pairs, n
<1>6. AreMatches(text, pairs)
  <2>1. \A p \in pairs : p = <<p[1], p[2]>> /\ p[1] \in DOMAIN text /\ p[2] \in p[1] .. n
    <3> SUFFICES ASSUME NEW p \in pairs PROVE p = <<p[1], p[2]>> /\ p[1] \in DOMAIN text /\ p[2] \in p[1] .. n
      OBVIOUS
    <3>1. p[1] \in Matched(end) /\ p[2] = end[p[1]] /\ p = <<p[1], p[2]>>
      BY <1>5
    <3>2. p[1] \in DOMAIN text /\ end[p[1]] \in p[1] .. n
      BY <1>3, <3>1
    <3> QED BY <3>1, <3>2
  <2>2. \A p, q \in pairs : p[1] = q[1] => p[2] = q[2]
    <3> SUFFICES ASSUME NEW p \in pairs, NEW q \in pairs, p[1] = q[1] PROVE p[2] = q[2]
      OBVIOUS
    <3>1. p[2] = end[p[1]] /\ q[2] = end[q[1]]
      BY <1>5
    <3> QED BY <3>1
  <2> QED BY <2>1, <2>2 DEF AreMatches, n
<1>7. \A p, q \in pairs : p[1] < q[1] => p[2] < q[1]
  BY <1>4, <1>5
<1> QED BY <1>3, <1>6, <1>7 DEF pairs, n

LEMMA FirstAndLast ==
  ASSUME NEW a \in Nat, NEW b \in Nat, NEW places \in SUBSET (a .. b)
  PROVE  /\ FirstOf(places) = 0 \/ FirstOf(places) \in places
         /\ LastOf(places) = 0 \/ LastOf(places) \in places
<1>1. places # {} => Min(places) \in places
  <2>1. places \in SUBSET Nat
    OBVIOUS
  <2> QED BY <2>1, MinIsLeast
<1>2. places # {} => Max(places) \in places
  <2>1. places \in SUBSET Int /\ \A t \in places : t <= b
    OBVIOUS
  <2> QED BY <2>1, MaxIsGreatest
<1> QED BY <1>1, <1>2 DEF FirstOf, LastOf

LEMMA PemKeysMatch ==
  ASSUME NEW text \in Seq(Atoms)
  PROVE  AreMatches(text, PemKeys(text))
<1> DEFINE n == Len(text)
           lines(word) == {i \in 1 .. Len(text) - 6 : SubSeq(text, i, i + 2) = <<"dashes", word, "space">>}
           begins == lines("BEGIN")
           footers == lines("END")
           ends(i) == {e \in i + 6 .. Len(text) :
                         /\ SubSeq(text, e - 3, e) = <<"PRIVATE", "space", "KEY", "dashes">>
                         /\ \A k \in i + 3 .. e - 1 : text[k] \in Capitals \cup {"space"}}
           last(i) == UNION {ends(j) : j \in {k \in footers : \E e \in ends(i) : e < k}}
           end == [i \in DOMAIN text |-> IF i \in begins THEN FirstOf(last(i)) ELSE 0]
<1>1. n \in Nat /\ DOMAIN text = 1 .. n
  BY LenProperties
<1>2. \A i : ends(i) \subseteq i + 6 .. n
  OBVIOUS
<1>3. footers \subseteq 1 .. n
  BY <1>1
<1> HIDE DEF ends, begins, footers, lines
<1>4. \A i \in 1 .. n : last(i) \subseteq i .. n
  <2> SUFFICES ASSUME NEW i \in 1 .. n, NEW f \in last(i) PROVE f \in i .. n
    OBVIOUS
  <2>1. PICK j \in footers : f \in ends(j) /\ \E e \in ends(i) : e < j
    OBVIOUS
  <2>2. PICK e \in ends(i) : e < j
    BY <2>1
  <2>3. e \in i + 6 .. n /\ f \in j + 6 .. n /\ j \in 1 .. n
    BY <1>2, <1>3, <2>1, <2>2
  <2> HIDE DEF n
  <2> QED BY <1>1, <2>2, <2>3
<1> HIDE DEF last
<1>5. \A i \in DOMAIN text : end[i] = 0 \/ end[i] \in i .. n
  <2> SUFFICES ASSUME NEW i \in DOMAIN text, i \in begins PROVE FirstOf(last(i)) = 0 \/ FirstOf(last(i)) \in i .. n
    OBVIOUS
  <2>1. i \in Nat /\ last(i) \in SUBSET (i .. n)
    BY <1>1, <1>4
  <2> QED BY <1>1, <2>1, FirstAndLast
<1>6. PemKeys(text) = {<<i, end[i]>> : i \in Matched(end)}
  BY DEF PemKeys, last, ends, begins, footers, lines
<1>7. DOMAIN end = DOMAIN text /\ end = [i \in DOMAIN text |-> end[i]]
  OBVIOUS
<1> HIDE DEF end
<1> QED BY <1>5, <1>6, <1>7, ScannedAreMatches

LEMMA SinglesMatch ==
  ASSUME NEW text \in Seq(Atoms), NEW atom
  PROVE  AreMatches(text, Single(text, atom))
<1>1. Len(text) \in Nat /\ DOMAIN text = 1 .. Len(text)
  BY LenProperties
<1>2. \A p \in Single(text, atom) : p[1] \in DOMAIN text /\ p[2] = p[1] /\ p = <<p[1], p[2]>>
  BY DEF Single
<1>3. \A p \in Single(text, atom) : p[2] \in p[1] .. Len(text)
  BY <1>1, <1>2
<1> QED BY <1>2, <1>3 DEF AreMatches

NoSpace == Atoms \ {"space"}

(* The value that begins at v[1] goes to the next space. *)
LEMMA ValuesEnd ==
  ASSUME NEW text \in Seq(Atoms), NEW keyword, NEW least, NEW v \in Values(text, keyword, least)
  PROVE  /\ v = <<v[1], v[2]>>
         /\ v[1] \in DOMAIN text /\ v[2] \in v[1] .. Len(text)
         /\ v[2] = EndOfRun(text, NoSpace, v[1])
         /\ v[2] < Len(text) => text[v[2] + 1] \notin NoSpace
<1> DEFINE n == Len(text)
           first(i) == IF i < n /\ text[i + 1] = "space" THEN i + 2 ELSE i + 1
           end(i) == EndOfRun(text, NoSpace, first(i))
           length(i) == MapThenSumSet(LAMBDA k : Characters(text[k]), first(i) .. end(i))
           hasValue(i) == /\ text[i] = keyword
                          /\ first(i) <= n /\ text[first(i)] # "space" /\ length(i) >= least
           ends == [i \in DOMAIN text |-> IF hasValue(i) THEN end(i) ELSE 0]
<1>1. n \in Nat /\ DOMAIN text = 1 .. n /\ \A i \in 1 .. n : text[i] \in Atoms
  BY LenProperties
<1>2. \A i \in 1 .. n : first(i) \in Nat /\ first(i) >= 1
  BY <1>1
<1>3. ASSUME NEW i \in 1 .. n, hasValue(i)
      PROVE  /\ first(i) \in DOMAIN text /\ text[first(i)] \in NoSpace
             /\ end(i) \in first(i) .. n
             /\ end(i) < n => text[end(i) + 1] \notin NoSpace
  <2> HIDE DEF n
  <2>1. first(i) <= n /\ text[first(i)] # "space"
    BY <1>3
  <2>2. first(i) \in 1 .. n
    BY <1>1, <1>2, <2>1
  <2>3. first(i) \in DOMAIN text /\ text[first(i)] \in NoSpace
    BY <1>1, <2>1, <2>2 DEF NoSpace
  <2> HIDE DEF first
  <2> QED BY <2>3, RunEnds DEF n
<1>4. ends \in Seq(Nat)
  <2>1. \A i \in 1 .. n : (IF hasValue(i) THEN end(i) ELSE 0) \in Nat
    <3> HIDE DEF end, hasValue, n
    <3>1. \A i \in 1 .. n : hasValue(i) => end(i) \in Nat
      <4> SUFFICES ASSUME NEW i \in 1 .. n, hasValue(i) PROVE end(i) \in Nat
        OBVIOUS
      <4>1. end(i) \in first(i) .. n /\ first(i) \in Nat
        BY <1>2, <1>3
      <4> HIDE DEF first
      <4> QED BY <1>1, <4>1
    <3> QED BY <3>1
  <2> HIDE DEF end, hasValue, n
  <2>2. ends \in [1 .. n -> Nat]
    BY <1>1, <2>1
  <2> QED BY <1>1, <2>2
<1>5. Values(text, keyword, least) = {<<first(i), end(i)>> : i \in Matched(ends)}
  BY DEF Values, NoSpace
<1>6. PICK i \in Matched(ends) : v = <<first(i), end(i)>>
  <2> HIDE DEF first, end, ends
  <2> QED BY <1>5
<1>7. i \in DOMAIN ends /\ ends[i] # 0
  <2> HIDE DEF ends
  <2> QED BY <1>4, MatchesApart
<1>8. i \in 1 .. n /\ hasValue(i)
  <2> HIDE DEF end, hasValue, n
  <2> QED BY <1>1, <1>7
<1>9. v[1] = first(i) /\ v[2] = end(i) /\ v = <<v[1], v[2]>>
  <2> HIDE DEF first, end
  <2> QED BY <1>6
<1> HIDE DEF first, hasValue
<1> QED BY <1>3, <1>8, <1>9

LEMMA ValuesMatch ==
  ASSUME NEW text \in Seq(Atoms), NEW keyword, NEW least
  PROVE  AreMatches(text, Values(text, keyword, least))
BY ValuesEnd DEF AreMatches

LEMMA EmailsMatch ==
  ASSUME NEW text \in Seq(Atoms)
  PROVE  AreMatches(text, Emails(text))
<1> DEFINE n == Len(text)
           at(i) == EndOfRun(text, Local, i) + 1
           isEmail(i) == /\ text[i] \in WordEnds /\ (i > 1 => text[i - 1] \notin WordEnds)
                         /\ at(i) < Len(text) /\ text[at(i)] = "at" /\ text[at(i) + 1] = "host"
           end == [i \in DOMAIN text |-> IF isEmail(i) THEN at(i) + 1 ELSE 0]
<1>1. n \in Nat /\ DOMAIN text = 1 .. n
  BY LenProperties
<1>2. \A i \in DOMAIN text : end[i] = 0 \/ end[i] \in i .. n
  <2> SUFFICES ASSUME NEW i \in DOMAIN text, isEmail(i) PROVE at(i) + 1 \in i .. n
    OBVIOUS
  <2>1. text[i] \in Local
    BY DEF Local
  <2>2. EndOfRun(text, Local, i) \in i .. n
    BY <2>1, RunEnds
  <2> QED BY <1>1, <2>2
<1>3. Emails(text) = {<<i, end[i]>> : i \in Matched(end)}
  BY DEF Emails
<1>4. DOMAIN end = DOMAIN text /\ end = [i \in DOMAIN text |-> end[i]]
  OBVIOUS
<1> HIDE DEF end
<1> QED BY <1>2, <1>3, <1>4, ScannedAreMatches

LEMMA SsnsMatch ==
  ASSUME NEW text \in Seq(Atoms), NEW gap, Len(gap) \in Nat
  PROVE  AreMatches(text, Ssns(text, gap))
<1> DEFINE n == Len(gap)
           last(i) == i + 8 + 2 * n
           area(i) == SubSeq(text, i, i + 2)
           group(i) == SubSeq(text, i + 3 + n, i + 4 + n)
           serial(i) == SubSeq(text, i + 5 + 2 * n, last(i))
           isSsn(i) == /\ last(i) <= Len(text) /\ Isolated(text, i, last(i))
                       /\ Range(area(i) \o group(i) \o serial(i)) \subseteq Digits
                       /\ SubSeq(text, i, last(i)) = area(i) \o gap \o group(i) \o gap \o serial(i)
                       /\ IsPlausibleSsn(area(i), group(i), serial(i))
<1>1. Len(text) \in Nat /\ DOMAIN text = 1 .. Len(text)
  BY LenProperties
<1>2. \A p \in Ssns(text, gap) : p[1] \in DOMAIN text /\ p[2] = last(p[1]) /\ last(p[1]) <= Len(text) /\ p = <<p[1], p[2]>>
  <2>1. Ssns(text, gap) = {<<i, last(i)>> : i \in {j \in DOMAIN text : isSsn(j)}}
    BY DEF Ssns
  <2>2. \A i : isSsn(i) => last(i) <= Len(text)
    OBVIOUS
  <2> HIDE DEF isSsn, last
  <2> QED BY <2>1, <2>2
<1> HIDE DEF isSsn
<1> HIDE DEF n
<1>3. \A p \in Ssns(text, gap) : p[2] \in p[1] .. Len(text)
  <2>1. n \in Nat
    BY DEF n
  <2> QED BY <1>1, <1>2, <2>1
<1> HIDE DEF last
<1> QED BY <1>2, <1>3 DEF AreMatches

(* The window is one, and within the digits. *)
LEMMA WindowInDigits ==
  ASSUME NEW digits, NEW w \in FindLuhnValidWindow(digits), Len(digits) \in Nat
  PROVE  /\ w[1] \in 1 .. Len(digits) /\ w[2] \in w[1] .. Len(digits)
         /\ FindLuhnValidWindow(digits) = {w}
<1> DEFINE n == Len(digits)
           maxLen == Min({n, 19})
           minLen == Max({maxLen - 1, 13})
           valid(k) == {s \in 1 .. (n - k + 1) : LuhnValid(SubSeq(digits, s, s + k - 1))}
           lengths == {k \in minLen .. maxLen : valid(k) # {}}
           longest == Max(lengths)
           first == Min(valid(longest))
<1>1. n \in Nat /\ n >= 13 /\ lengths # {} /\ FindLuhnValidWindow(digits) = {<<first, first + longest - 1>>}
  <2>1. FindLuhnValidWindow(digits) = IF n < 13 \/ lengths = {} THEN {} ELSE {<<first, first + longest - 1>>}
    BY DEF FindLuhnValidWindow
  <2>2. n \in Nat
    OBVIOUS
  <2> HIDE DEF n, lengths, first, longest
  <2>3. ~(n < 13 \/ lengths = {})
    BY <2>1
  <2> QED BY <2>1, <2>2, <2>3
<1>2. maxLen \in Nat /\ maxLen >= 13
  <2>1. {n, 19} \in SUBSET Nat /\ {n, 19} # {}
    BY <1>1
  <2>2. maxLen \in {n, 19}
    BY <2>1, MinIsLeast
  <2> QED BY <1>1, <2>2
<1> HIDE DEF maxLen
<1>3. minLen \in Nat /\ minLen >= 13
  <2> DEFINE both == {maxLen - 1, 13}
  <2>1. both \in SUBSET Int /\ both # {} /\ \E b \in Int : \A t \in both : t <= b
    <3>1. both \in SUBSET Int /\ both # {} /\ \A t \in both : t <= maxLen + 13
      BY <1>2
    <3>2. maxLen + 13 \in Int
      BY <1>2
    <3> QED BY <3>1, <3>2
  <2>2. Max(both) \in both /\ \A t \in both : t <= Max(both)
    <3> HIDE DEF both
    <3> QED BY <2>1, MaxIsGreatest
  <2>3. 13 \in both /\ \A t \in both : t \in Int
    BY <1>2
  <2> HIDE DEF both
  <2> QED BY <2>2, <2>3 DEF both
<1> HIDE DEF minLen, valid
<1>4. longest \in lengths
  <2>1. lengths \in SUBSET Int /\ (\A k \in lengths : k <= maxLen) /\ maxLen \in Int
    BY <1>2, <1>3
  <2> HIDE DEF lengths
  <2>2. lengths # {}
    BY <1>1
  <2>3. \E b \in Int : \A k \in lengths : k <= b
    BY <2>1
  <2> QED BY <2>1, <2>2, <2>3, MaxIsGreatest
<1>5. longest \in Nat /\ longest >= 13 /\ valid(longest) # {}
  <2> HIDE DEF longest
  <2>1. longest \in minLen .. maxLen /\ valid(longest) # {}
    BY <1>4
  <2> QED BY <1>2, <1>3, <2>1
<1> HIDE DEF longest, lengths
<1>6. first \in 1 .. (n - longest + 1)
  <2>1. valid(longest) \subseteq 1 .. (n - longest + 1)
    BY DEF valid
  <2>2. valid(longest) \in SUBSET Nat
    BY <1>1, <1>5, <2>1
  <2> QED BY <1>5, <2>1, <2>2, MinIsLeast
<1> HIDE DEF first
<1>7. w = <<first, first + longest - 1>>
  BY <1>1
<1>8. first \in 1 .. n /\ first + longest - 1 \in first .. n
  BY <1>1, <1>5, <1>6
<1> QED BY <1>1, <1>7, <1>8

LEMMA CandidatesMatch ==
  ASSUME NEW text \in Seq(Atoms)
  PROVE  /\ AreMatches(text, CardCandidates(text))
         /\ \A c, d \in CardCandidates(text) : c[1] < d[1] => c[2] < d[1]
<1> DEFINE n == Len(text)
           begins(i) == text[i] \in Digits /\ (i > 1 => text[i - 1] \notin WordEnds)
           ends(i) == {e \in i .. EndOfRun(text, Digits \cup {"dash", "space"}, i) :
                         /\ text[e] \in Digits /\ Isolated(text, i, e)
                         /\ Cardinality(DigitsIn(text, i, e)) \in 13 .. 19}
           end == [i \in DOMAIN text |-> IF begins(i) THEN LastOf(ends(i)) ELSE 0]
<1>1. n \in Nat /\ DOMAIN text = 1 .. n
  BY LenProperties
<1>2. \A i \in DOMAIN text : end[i] = 0 \/ end[i] \in i .. n
  <2> SUFFICES ASSUME NEW i \in DOMAIN text, begins(i) PROVE LastOf(ends(i)) = 0 \/ LastOf(ends(i)) \in i .. n
    OBVIOUS
  <2>1. EndOfRun(text, Digits \cup {"dash", "space"}, i) \in i .. n
    BY RunEnds
  <2>2. ends(i) \subseteq i .. EndOfRun(text, Digits \cup {"dash", "space"}, i)
    OBVIOUS
  <2> DEFINE end1 == EndOfRun(text, Digits \cup {"dash", "space"}, i)
  <2> HIDE DEF ends, n, end1
  <2>3. i \in Nat /\ ends(i) \in SUBSET (i .. n)
    <3>1. end1 \in i .. n /\ ends(i) \subseteq i .. end1
      BY <2>1, <2>2 DEF end1
    <3>2. i .. end1 \subseteq i .. n
      BY <1>1, <3>1
    <3> QED BY <1>1, <3>1, <3>2
  <2> QED BY <1>1, <2>3, FirstAndLast
<1>3. CardCandidates(text) = {<<i, end[i]>> : i \in Matched(end)}
  BY DEF CardCandidates
<1>4. DOMAIN end = DOMAIN text /\ end = [i \in DOMAIN text |-> end[i]]
  OBVIOUS
<1> HIDE DEF end
<1> QED BY <1>2, <1>3, <1>4, ScannedAreMatches

(* The places of the digits in a candidate, one after the other. *)
PlacesOf(S) == Ordered(S, {p \in S \X S : p[1] < p[2]})
WindowsOf(text, S) ==
  {<<PlacesOf(S)[w[1]], PlacesOf(S)[w[2]]>> : w \in FindLuhnValidWindow([k \in DOMAIN PlacesOf(S) |-> Value(text[PlacesOf(S)[k]])])}

(* A candidate has one window at most, from one of its digits to another. *)
OneWindowIn(text, S, a, b) ==
  \A p \in WindowsOf(text, S) :
    /\ p = <<p[1], p[2]>> /\ p[1] \in a .. b /\ p[2] \in p[1] .. b
    /\ \A q \in WindowsOf(text, S) : q = p

LEMMA WindowsInCandidate ==
  ASSUME NEW text, NEW a \in Nat, NEW b \in Nat, NEW S \in SUBSET (a .. b)
  PROVE  OneWindowIn(text, S, a, b)
<1> SUFFICES ASSUME NEW p \in WindowsOf(text, S)
             PROVE  /\ p = <<p[1], p[2]>> /\ p[1] \in a .. b /\ p[2] \in p[1] .. b
                    /\ \A q \in WindowsOf(text, S) : q = p
  BY DEF OneWindowIn
<1> DEFINE n == Cardinality(S)
           before == {x \in S \X S : x[1] < x[2]}
           places == PlacesOf(S)
           digits == [k \in DOMAIN places |-> Value(text[places[k]])]
<1>1. IsFiniteSet(S)
  <2>1. IsFiniteSet(a .. b)
    BY FS_Interval
  <2> QED BY <2>1, FS_Subset
<1>2. n \in Nat
  BY <1>1, FS_CardinalityType
<1>3. \A x \in S : x \in Nat
  OBVIOUS
<1>4. \A x, y \in S : <<x, y>> \in before <=> x < y
  OBVIOUS
<1> HIDE DEF before
<1>5. /\ \A x \in S : <<x, x>> \notin before
      /\ \A x, y, z \in S : <<x, y>> \in before /\ <<y, z>> \in before => <<x, z>> \in before
      /\ \A x, y \in S : x = y \/ <<x, y>> \in before \/ <<y, x>> \in before
  BY <1>3, <1>4
<1>6. places \in [1 .. n -> S] /\ \A i, j \in 1 .. n : i < j => <<places[i], places[j]>> \in before
  BY <1>1, <1>5, OrderedSorts DEF PlacesOf, before
<1> HIDE DEF places, n
<1>7. Len(digits) = n
  <2>1. DOMAIN digits = 1 .. n
    BY <1>6
  <2> HIDE DEF digits
  <2> QED BY <1>2, <2>1
<1>8. WindowsOf(text, S) = {<<places[w[1]], places[w[2]]>> : w \in FindLuhnValidWindow(digits)}
  BY DEF WindowsOf, places
<1> HIDE DEF digits
<1>9. PICK w \in FindLuhnValidWindow(digits) : p = <<places[w[1]], places[w[2]]>>
  BY <1>8
<1>10. /\ w[1] \in 1 .. n /\ w[2] \in w[1] .. n /\ FindLuhnValidWindow(digits) = {w}
  BY <1>2, <1>7, <1>9, WindowInDigits
<1>11. w[2] \in 1 .. n /\ (w[1] = w[2] \/ w[1] < w[2])
  BY <1>2, <1>10
<1>12. places[w[1]] \in S /\ places[w[2]] \in S /\ (w[1] = w[2] \/ places[w[1]] < places[w[2]])
  BY <1>4, <1>6, <1>10, <1>11
<1>13. p[1] = places[w[1]] /\ p[2] = places[w[2]] /\ p = <<p[1], p[2]>>
  BY <1>9
<1>14. p[1] \in a .. b /\ p[2] \in a .. b /\ p[1] <= p[2]
  BY <1>3, <1>11, <1>12, <1>13
<1>15. p[2] \in p[1] .. b
  BY <1>14
<1>16. \A q \in WindowsOf(text, S) : q = p
  BY <1>8, <1>9, <1>10
<1> QED BY <1>13, <1>14, <1>15, <1>16

LEMMA CardsMatch ==
  ASSUME NEW text \in Seq(Atoms)
  PROVE  AreMatches(text, Cards(text))
<1> DEFINE n == Len(text)
           windows(c) == WindowsOf(text, DigitsIn(text, c[1], c[2]))
<1>1. n \in Nat /\ DOMAIN text = 1 .. n
  BY LenProperties
<1>2. Cards(text) = UNION {windows(c) : c \in CardCandidates(text)}
  BY DEF Cards, WindowsOf, PlacesOf
<1>3. \A c \in CardCandidates(text) : c[1] \in 1 .. n /\ c[2] \in c[1] .. n
  BY <1>1, CandidatesMatch DEF AreMatches
<1>4. ASSUME NEW c \in CardCandidates(text), NEW p \in windows(c)
      PROVE  /\ p = <<p[1], p[2]>> /\ p[1] \in c[1] .. c[2] /\ p[2] \in p[1] .. c[2]
             /\ \A q \in windows(c) : q = p
  <2>1. c[1] \in Nat /\ c[2] \in Nat
    BY <1>1, <1>3
  <2>2. DigitsIn(text, c[1], c[2]) \in SUBSET (c[1] .. c[2])
    BY DEF DigitsIn
  <2>3. OneWindowIn(text, DigitsIn(text, c[1], c[2]), c[1], c[2])
    BY <2>1, <2>2, WindowsInCandidate
  <2> QED BY <1>4, <2>3 DEF OneWindowIn
<1> HIDE DEF windows
<1>5. ASSUME NEW p \in Cards(text)
      PROVE  p = <<p[1], p[2]>> /\ p[1] \in DOMAIN text /\ p[2] \in p[1] .. n
  <2>1. PICK c \in CardCandidates(text) : p \in windows(c)
    BY <1>2
  <2>2. p = <<p[1], p[2]>> /\ p[1] \in c[1] .. c[2] /\ p[2] \in p[1] .. c[2]
    BY <1>4, <2>1
  <2>3. c[1] \in 1 .. n /\ c[2] \in c[1] .. n
    BY <1>3
  <2> QED BY <1>1, <2>2, <2>3
<1>6. ASSUME NEW p \in Cards(text), NEW q \in Cards(text), p[1] = q[1]
      PROVE  p[2] = q[2]
  <2>1. PICK c \in CardCandidates(text) : p \in windows(c)
    BY <1>2
  <2>2. PICK d \in CardCandidates(text) : q \in windows(d)
    BY <1>2
  <2>3. p[1] \in c[1] .. c[2] /\ q[1] \in d[1] .. d[2]
    BY <1>4, <2>1, <2>2
  <2>4. c[1] \in 1 .. n /\ c[2] \in c[1] .. n /\ d[1] \in 1 .. n /\ d[2] \in d[1] .. n
    BY <1>3
  <2>5. ~(c[2] < d[1]) /\ ~(d[2] < c[1])
    BY <1>1, <1>6, <2>3, <2>4
  <2>6. ~(c[1] < d[1]) /\ ~(d[1] < c[1])
    BY <2>5, CandidatesMatch
  <2>7. c[1] = d[1]
    BY <1>1, <2>4, <2>6
  <2>8. c = d
    <3>1. c = <<c[1], c[2]>> /\ d = <<d[1], d[2]>> /\ c[2] = d[2]
      BY <2>7, CandidatesMatch DEF AreMatches
    <3> QED BY <2>7, <3>1
  <2> QED BY <1>4, <2>1, <2>2, <2>8
<1> QED BY <1>5, <1>6 DEF AreMatches

(* What is known of a span that a detector of known formats finds. *)
IsKnown(text, s) ==
  /\ s.detector \in 1 .. 9 /\ s.from \in DOMAIN text /\ s.to \in s.from .. Len(text)
  /\ s = Span(s.detector, s.from, s.to)

(* Each detector finds matches, and only its own. *)
LEMMA KnownFormatsAreMatches ==
  ASSUME NEW text \in Seq(Atoms)
  PROVE  \E pairs : /\ \A d \in 1 .. 9 : AreMatches(text, pairs[d])
                    /\ KnownFormats(text) = UNION {Found(d, pairs[d]) : d \in 1 .. 9}
<1> DEFINE pairs == <<PemKeys(text), Single(text, "token"), Values(text, "password", 4), Values(text, "medical", 2),
                      Emails(text), Ssns(text, <<"dash">>), Ssns(text, <<"space">>), Ssns(text, <<>>), Cards(text)>>
<1>1. /\ pairs[1] = PemKeys(text) /\ pairs[2] = Single(text, "token") /\ pairs[3] = Values(text, "password", 4)
      /\ pairs[4] = Values(text, "medical", 2) /\ pairs[5] = Emails(text) /\ pairs[6] = Ssns(text, <<"dash">>)
      /\ pairs[7] = Ssns(text, <<"space">>) /\ pairs[8] = Ssns(text, <<>>) /\ pairs[9] = Cards(text)
  OBVIOUS
<1> HIDE DEF pairs
<1>2. \A d \in 1 .. 9 : d \in {1, 2, 3, 4, 5, 6, 7, 8, 9}
  OBVIOUS
<1>3. Len(<<"dash">>) \in Nat /\ Len(<<"space">>) \in Nat /\ Len(<<>>) \in Nat
  OBVIOUS
<1>4. \A d \in 1 .. 9 : AreMatches(text, pairs[d])
  <2>1. AreMatches(text, pairs[1]) /\ AreMatches(text, pairs[2]) /\ AreMatches(text, pairs[5])
    BY <1>1, PemKeysMatch, SinglesMatch, EmailsMatch
  <2>2. AreMatches(text, pairs[3]) /\ AreMatches(text, pairs[4])
    BY <1>1, ValuesMatch
  <2>3. AreMatches(text, pairs[6]) /\ AreMatches(text, pairs[7]) /\ AreMatches(text, pairs[8])
    BY <1>1, <1>3, SsnsMatch
  <2>4. AreMatches(text, pairs[9])
    BY <1>1, CardsMatch
  <2> QED BY <1>2, <2>1, <2>2, <2>3, <2>4
<1>5. KnownFormats(text) = UNION {Found(d, pairs[d]) : d \in 1 .. 9}
  <2>1. KnownFormats(text) = Found(1, pairs[1]) \cup Found(2, pairs[2]) \cup Found(3, pairs[3]) \cup Found(4, pairs[4])
                             \cup Found(5, pairs[5]) \cup Found(6, pairs[6]) \cup Found(7, pairs[7])
                             \cup Found(8, pairs[8]) \cup Found(9, pairs[9])
    BY <1>1 DEF KnownFormats
  <2>2. 1 .. 9 = {1, 2, 3, 4, 5, 6, 7, 8, 9}
    OBVIOUS
  <2> QED BY <2>1, <2>2
<1> QED BY <1>4, <1>5

LEMMA FoundSpans ==
  ASSUME NEW detector, NEW pairs, NEW s \in Found(detector, pairs)
  PROVE  \E p \in pairs : s = Span(detector, p[1], p[2]) /\ s.detector = detector /\ s.from = p[1] /\ s.to = p[2]
BY DEF Found, Span

LEMMA KnownFormatsAreKnown ==
  ASSUME NEW text \in Seq(Atoms)
  PROVE  /\ \A s \in KnownFormats(text) : IsKnown(text, s)
         /\ \A s, t \in KnownFormats(text) : s.from = t.from /\ s.detector = t.detector => s = t
<1>1. PICK pairs : /\ \A d \in 1 .. 9 : AreMatches(text, pairs[d])
                   /\ KnownFormats(text) = UNION {Found(d, pairs[d]) : d \in 1 .. 9}
  BY KnownFormatsAreMatches
<1>2. ASSUME NEW s \in KnownFormats(text)
      PROVE  /\ s.detector \in 1 .. 9 /\ s = Span(s.detector, s.from, s.to)
             /\ \E p \in pairs[s.detector] : s.from = p[1] /\ s.to = p[2]
  <2>1. PICK d \in 1 .. 9 : s \in Found(d, pairs[d])
    BY <1>1
  <2> QED BY <2>1, FoundSpans
<1>3. ASSUME NEW s \in KnownFormats(text) PROVE IsKnown(text, s)
  BY <1>1, <1>2 DEF IsKnown, AreMatches
<1>4. ASSUME NEW s \in KnownFormats(text), NEW t \in KnownFormats(text), s.from = t.from, s.detector = t.detector
      PROVE  s = t
  <2>1. s.to = t.to
    BY <1>1, <1>2, <1>4 DEF AreMatches
  <2> QED BY <1>2, <1>4, <2>1
<1> QED BY <1>3, <1>4

(* A candidate lies in one run of the atoms a candidate is made of. *)
IsCandidate(text, c) ==
  \E i \in DOMAIN text :
    /\ text[i] \in Candidate /\ (i > 1 => text[i - 1] \notin Candidate)
    /\ c = Span(AmbiguousSecret, c.from, c.to) /\ c.detector = AmbiguousSecret
    /\ c.from \in i .. EndOfRun(text, Candidate, i) /\ c.to \in c.from .. EndOfRun(text, Candidate, i)
    /\ c.to = Max({k \in i .. EndOfRun(text, Candidate, i) : text[k] \notin NoWord})
    /\ \A k \in i .. EndOfRun(text, Candidate, i) : text[k] \notin NoWord => c.from <= k /\ k <= c.to

(* Every run with a word in it makes one. *)
LEMMA RunMakesCandidate ==
  ASSUME NEW text \in Seq(Atoms), NEW i \in DOMAIN text,
         text[i] \in Candidate, i > 1 => text[i - 1] \notin Candidate,
         NEW words, words = {k \in i .. EndOfRun(text, Candidate, i) : text[k] \notin NoWord}, words # {}
  PROVE  /\ IsCandidate(text, Span(AmbiguousSecret, Min(words), Max(words)))
         /\ Span(AmbiguousSecret, Min(words), Max(words)) \in EntropyCandidates(text)
<1> DEFINE end == EndOfRun(text, Candidate, i)
           c == Span(AmbiguousSecret, Min(words), Max(words))
<1>1. Len(text) \in Nat /\ i \in 1 .. Len(text)
  BY LenProperties
<1>2. end \in i .. Len(text)
  BY RunEnds
<1>3. words \in SUBSET Nat /\ words \in SUBSET Int /\ end \in Int /\ \A t \in words : t <= end
  BY <1>1, <1>2
<1>4. Min(words) \in words /\ \A k \in words : Min(words) <= k
  <2> HIDE DEF end
  <2> QED BY <1>3, MinIsLeast
<1>5. Max(words) \in words /\ \A k \in words : k <= Max(words)
  <2> HIDE DEF end
  <2> QED BY <1>3, MaxIsGreatest
<1>6. c.detector = AmbiguousSecret /\ c.from = Min(words) /\ c.to = Max(words) /\ c = Span(AmbiguousSecret, c.from, c.to)
  BY DEF Span
<1>7. Min(words) \in i .. end /\ Max(words) \in Min(words) .. end
  BY <1>1, <1>2, <1>4, <1>5
<1>8. IsCandidate(text, c)
  <2>1. \A k \in i .. end : text[k] \notin NoWord => k \in words
    OBVIOUS
  <2> HIDE DEF c, end
  <2> QED BY <1>4, <1>5, <1>6, <1>7, <2>1 DEF IsCandidate, end
<1>9. c \in EntropyCandidates(text)
  <2> DEFINE runs == {<<j, EndOfRun(text, Candidate, j)>> :
                        j \in {k \in DOMAIN text : text[k] \in Candidate /\ (k > 1 => text[k - 1] \notin Candidate)}}
             wordsOf(r) == {k \in r[1] .. r[2] : text[k] \notin NoWord}
  <2>1. <<i, end>> \in runs
    OBVIOUS
  <2>2. wordsOf(<<i, end>>) = words
    OBVIOUS
  <2>3. EntropyCandidates(text) =
          {Span(AmbiguousSecret, Min(wordsOf(r)), Max(wordsOf(r))) : r \in {q \in runs : wordsOf(q) # {}}}
    BY DEF EntropyCandidates
  <2> HIDE DEF runs, wordsOf
  <2> QED BY <2>1, <2>2, <2>3
<1> QED BY <1>8, <1>9

LEMMA CandidatesAre ==
  ASSUME NEW text \in Seq(Atoms), NEW c \in EntropyCandidates(text)
  PROVE  IsCandidate(text, c)
<1> DEFINE runs == {<<j, EndOfRun(text, Candidate, j)>> :
                      j \in {k \in DOMAIN text : text[k] \in Candidate /\ (k > 1 => text[k - 1] \notin Candidate)}}
           wordsOf(r) == {k \in r[1] .. r[2] : text[k] \notin NoWord}
<1>1. EntropyCandidates(text) =
        {Span(AmbiguousSecret, Min(wordsOf(r)), Max(wordsOf(r))) : r \in {q \in runs : wordsOf(q) # {}}}
  BY DEF EntropyCandidates
<1>2. PICK r \in runs : wordsOf(r) # {} /\ c = Span(AmbiguousSecret, Min(wordsOf(r)), Max(wordsOf(r)))
  <2> HIDE DEF runs, wordsOf
  <2> QED BY <1>1
<1>3. PICK i \in DOMAIN text : /\ text[i] \in Candidate /\ (i > 1 => text[i - 1] \notin Candidate)
                               /\ r = <<i, EndOfRun(text, Candidate, i)>>
  BY <1>2
<1>4. wordsOf(r) = {k \in i .. EndOfRun(text, Candidate, i) : text[k] \notin NoWord}
  BY <1>3
<1> HIDE DEF wordsOf
<1> QED BY <1>2, <1>3, <1>4, RunMakesCandidate

(* Two runs that share a place are one. *)
LEMMA RunsAreApart ==
  ASSUME NEW text \in Seq(Atoms), NEW i \in DOMAIN text, NEW j \in DOMAIN text, NEW k \in DOMAIN text,
         text[i] \in Candidate, i > 1 => text[i - 1] \notin Candidate,
         text[j] \in Candidate, j > 1 => text[j - 1] \notin Candidate,
         k \in i .. EndOfRun(text, Candidate, i), k \in j .. EndOfRun(text, Candidate, j)
  PROVE  i = j
<1>1. Len(text) \in Nat /\ DOMAIN text = 1 .. Len(text)
  BY LenProperties
<1>2. /\ EndOfRun(text, Candidate, i) \in i .. Len(text) /\ \A m \in i .. EndOfRun(text, Candidate, i) : text[m] \in Candidate
      /\ EndOfRun(text, Candidate, j) \in j .. Len(text) /\ \A m \in j .. EndOfRun(text, Candidate, j) : text[m] \in Candidate
  BY RunEnds
<1>3. ~(i < j)
  <2> SUFFICES ASSUME i < j PROVE FALSE
    OBVIOUS
  <2>1. j > 1 /\ j - 1 \in i .. EndOfRun(text, Candidate, i)
    BY <1>1, <1>2
  <2> QED BY <1>2, <2>1
<1>4. ~(j < i)
  <2> SUFFICES ASSUME j < i PROVE FALSE
    OBVIOUS
  <2>1. i > 1 /\ i - 1 \in j .. EndOfRun(text, Candidate, j)
    BY <1>1, <1>2
  <2> QED BY <1>2, <2>1
<1> QED BY <1>1, <1>3, <1>4

-----------------------------------------------------------------------------
(* The order of the detections *)

FoundIn(text, suspicious) == KnownFormats(text) \cup Ambiguous(text, suspicious, KnownFormats(text))

IsFound(text, s) ==
  /\ s.detector \in 1 .. 10 /\ s.from \in DOMAIN text /\ s.to \in s.from .. Len(text)
  /\ s.detector # 10 => s \in KnownFormats(text) /\ IsKnown(text, s)
  /\ s.detector = 10 => IsCandidate(text, s)

LEMMA FoundAre ==
  ASSUME NEW text \in Seq(Atoms), NEW suspicious, NEW s \in FoundIn(text, suspicious)
  PROVE  IsFound(text, s)
<1>1. Len(text) \in Nat /\ DOMAIN text = 1 .. Len(text)
  BY LenProperties
<1>2. CASE s \in KnownFormats(text)
  <2>1. IsKnown(text, s)
    BY <1>2, KnownFormatsAreKnown
  <2>2. s.detector \in 1 .. 9 /\ s.from \in DOMAIN text /\ s.to \in s.from .. Len(text)
    BY <2>1 DEF IsKnown
  <2> QED BY <1>2, <2>1, <2>2 DEF IsFound
<1>3. CASE s \in EntropyCandidates(text)
  <2>1. IsCandidate(text, s)
    BY <1>3, CandidatesAre
  <2>2. PICK i \in DOMAIN text : /\ text[i] \in Candidate /\ s.detector = 10
                                 /\ s.from \in i .. EndOfRun(text, Candidate, i)
                                 /\ s.to \in s.from .. EndOfRun(text, Candidate, i)
    BY <2>1 DEF IsCandidate, AmbiguousSecret
  <2>3. EndOfRun(text, Candidate, i) \in i .. Len(text)
    BY <2>2, RunEnds
  <2>4. s.from \in DOMAIN text /\ s.to \in s.from .. Len(text)
    BY <1>1, <2>2, <2>3
  <2> QED BY <2>1, <2>2, <2>4 DEF IsFound
<1> QED BY <1>2, <1>3 DEF FoundIn, Ambiguous, Suspicious

(* A detector finds no two spans that begin at one place. *)
LEMMA SpansDiffer ==
  ASSUME NEW text \in Seq(Atoms), NEW suspicious, NEW s \in FoundIn(text, suspicious), NEW t \in FoundIn(text, suspicious),
         s.from = t.from, s.detector = t.detector
  PROVE  s = t
<1>1. IsFound(text, s) /\ IsFound(text, t)
  BY FoundAre
<1>2. CASE s.detector # 10
  <2>1. s \in KnownFormats(text) /\ t \in KnownFormats(text)
    BY <1>1, <1>2 DEF IsFound
  <2> QED BY <2>1, KnownFormatsAreKnown
<1>3. CASE s.detector = 10
  <2>1. IsCandidate(text, s) /\ IsCandidate(text, t)
    BY <1>1, <1>3 DEF IsFound
  <2>2. s.from \in DOMAIN text
    BY <1>1 DEF IsFound
  <2>3. PICK i \in DOMAIN text :
          /\ text[i] \in Candidate /\ (i > 1 => text[i - 1] \notin Candidate)
          /\ s = Span(AmbiguousSecret, s.from, s.to) /\ s.from \in i .. EndOfRun(text, Candidate, i)
          /\ s.to = Max({k \in i .. EndOfRun(text, Candidate, i) : text[k] \notin NoWord})
    BY <2>1 DEF IsCandidate
  <2>4. PICK j \in DOMAIN text :
          /\ text[j] \in Candidate /\ (j > 1 => text[j - 1] \notin Candidate)
          /\ t = Span(AmbiguousSecret, t.from, t.to) /\ t.from \in j .. EndOfRun(text, Candidate, j)
          /\ t.to = Max({k \in j .. EndOfRun(text, Candidate, j) : text[k] \notin NoWord})
    BY <2>1 DEF IsCandidate
  <2>5. i = j
    BY <2>2, <2>3, <2>4, RunsAreApart
  <2> QED BY <2>3, <2>4, <2>5
<1> QED BY <1>2, <1>3

(* The detections are the spans that were found, in the order of the text. *)
LEMMA DetectionsInOrder ==
  ASSUME NEW text \in Seq(Atoms), NEW suspicious
  PROVE  \E N \in Nat :
           /\ DetectAll(text, suspicious) \in [1 .. N -> FoundIn(text, suspicious)] /\ DetectAll(text, suspicious) \in Seq(FoundIn(text, suspicious))
           /\ \A s \in FoundIn(text, suspicious) : \E k \in 1 .. N : DetectAll(text, suspicious)[k] = s
           /\ \A i, j \in 1 .. N : i < j =>
                \/ DetectAll(text, suspicious)[i].from < DetectAll(text, suspicious)[j].from
                \/ /\ DetectAll(text, suspicious)[i].from = DetectAll(text, suspicious)[j].from
                   /\ DetectAll(text, suspicious)[i].detector < DetectAll(text, suspicious)[j].detector
<1> DEFINE found == FoundIn(text, suspicious)
           n == Len(text)
           D == DetectAll(text, suspicious)
           N == Cardinality(found)
           before == InTextOrder(found)
<1>1. n \in Nat /\ DOMAIN text = 1 .. n
  BY LenProperties
<1>2. \A s \in found : s.detector \in 1 .. 10 /\ s.from \in 1 .. n
  BY <1>1, FoundAre DEF IsFound
<1>3. IsFiniteSet(found)
  <2> DEFINE place == [s \in found |-> <<s.from, s.detector>>]
             places == (1 .. n) \X (1 .. 10)
  <2>1. IsFiniteSet(places)
    <3>0. n \in Int /\ 1 \in Int /\ 10 \in Int
      BY <1>1
    <3>1. IsFiniteSet(1 .. n) /\ IsFiniteSet(1 .. 10)
      BY ONLY <3>0, FS_Interval
    <3> QED BY <3>1, FS_Product
  <2>2. place \in [found -> places]
    <3> HIDE DEF found, n
    <3> QED BY <1>2
  <2>3. \A s, t \in found : place[s] = place[t] => s = t
    BY SpansDiffer
  <2>4. place \in Injection(found, places)
    <3> HIDE DEF found, place, places
    <3> QED BY <2>2, <2>3 DEF Injection, IsInjective
  <2> HIDE DEF found, place, places
  <2> QED BY <2>1, <2>4, FS_Injection
<1>4. N \in Nat
  BY <1>3, FS_CardinalityType
<1>5. \A s, t \in found : <<s, t>> \in before <=> s.from < t.from \/ (s.from = t.from /\ s.detector < t.detector)
  BY DEF InTextOrder
<1>6. /\ \A s \in found : <<s, s>> \notin before
      /\ \A s, t, u \in found : <<s, t>> \in before /\ <<t, u>> \in before => <<s, u>> \in before
  <2>1. \A s \in found : s.from \in Int /\ s.detector \in Int
    BY <1>1, <1>2
  <2> HIDE DEF found, before, n
  <2>2. ASSUME NEW s \in found PROVE <<s, s>> \notin before
    BY ONLY <1>5, <2>1, <2>2
  <2>3. ASSUME NEW s \in found, NEW t \in found, NEW u \in found, <<s, t>> \in before, <<t, u>> \in before
        PROVE  <<s, u>> \in before
    BY ONLY <1>5, <2>1, <2>3
  <2> QED BY <2>2, <2>3
<1>7. \A s, t \in found : s = t \/ <<s, t>> \in before \/ <<t, s>> \in before
  <2>1. \A s, t \in found : s.from = t.from /\ s.detector = t.detector => s = t
    BY SpansDiffer
  <2>2. \A s \in found : s.from \in Int /\ s.detector \in Int
    BY <1>1, <1>2
  <2> HIDE DEF found, before, n
  <2>3. ASSUME NEW s \in found, NEW t \in found PROVE s = t \/ <<s, t>> \in before \/ <<t, s>> \in before
    BY ONLY <1>5, <2>1, <2>2, <2>3
  <2> QED BY <2>3
<1>8. D = Ordered(found, before)
  BY DEF DetectAll, FoundIn
<1> HIDE DEF found, before, n, D, N
<1>9. /\ D \in [1 .. N -> found]
      /\ \A s \in found : \E k \in 1 .. N : D[k] = s
      /\ \A i, j \in 1 .. N : i < j => <<D[i], D[j]>> \in before
  BY <1>3, <1>6, <1>7, <1>8, OrderedSorts DEF N
<1>10. \A i, j \in 1 .. N : i < j => D[i].from < D[j].from \/ (D[i].from = D[j].from /\ D[i].detector < D[j].detector)
  BY <1>5, <1>9
<1>11. D \in Seq(found)
  BY <1>4, <1>9
<1> QED BY <1>4, <1>9, <1>10, <1>11 DEF found, D

-----------------------------------------------------------------------------
(* What the replacement covers *)

Detections == Seq([detector : 1 .. 10, from : Nat, to : Nat])

LEMMA DetectionsAre ==
  ASSUME NEW D \in Detections
  PROVE  /\ Len(D) \in Nat /\ DOMAIN D = 1 .. Len(D)
         /\ \A k \in 1 .. Len(D) : D[k].from \in Nat /\ D[k].to \in Nat
<1> DEFINE S == [detector : 1 .. 10, from : Nat, to : Nat]
<1>1. D \in Seq(S)
  BY DEF Detections
<1>2. \A s \in S : s.from \in Nat /\ s.to \in Nat
  OBVIOUS
<1> HIDE DEF S
<1>3. Len(D) \in Nat /\ DOMAIN D = 1 .. Len(D) /\ \A k \in 1 .. Len(D) : D[k] \in S
  BY <1>1, LenProperties
<1> QED BY <1>2, <1>3

(* The cursor, one detection after the other. *)
CursorAfter(g, detections) ==
  /\ g \in [0 .. Len(detections) -> Nat]
  /\ g[0] = 0
  /\ \A k \in 1 .. Len(detections) : g[k] = (IF detections[k].from <= g[k - 1] THEN g[k - 1] ELSE detections[k].to)
  /\ Cursor(detections) = g

LEMMA CursorSteps ==
  ASSUME NEW detections \in Detections
  PROVE  \E g : CursorAfter(g, detections)
<1> DEFINE n == Len(detections)
           first == 0
           F == [k \in 1 .. n |-> [x \in Nat |-> (IF detections[k].from <= x THEN x ELSE detections[k].to)]]
           Recursion(g) == g = [k \in 0 .. n |-> IF k = 0 THEN first ELSE (IF detections[k].from <= g[k - 1] THEN g[k - 1] ELSE detections[k].to)]
           after == CHOOSE g : Recursion(g)
<1>1. n \in Nat
  BY DetectionsAre
<1>2. first \in Nat
  OBVIOUS
<1>3. ASSUME NEW k \in 1 .. n, NEW x \in Nat PROVE (IF detections[k].from <= x THEN x ELSE detections[k].to) \in Nat
  BY DetectionsAre
<1>4. Stays(F, n, Nat)
  <2> HIDE DEF n
  <2> QED BY <1>3 DEF Stays
<1>5. \A k \in 1 .. n : \A x \in Nat : F[k][x] = (IF detections[k].from <= x THEN x ELSE detections[k].to)
  OBVIOUS
<1> HIDE DEF F, first
<1>6. PICK g : GoesOn(g, first, F, n, Nat)
  <2> HIDE DEF n
  <2> QED BY ONLY <1>1, <1>2, <1>4, RecursionDefines
<1>7. Recursion(g)
  <2>1. \A k \in 0 .. n : k # 0 => k \in 1 .. n /\ g[k - 1] \in Nat
    BY <1>1, <1>6 DEF GoesOn
  <2>2. \A k \in 0 .. n : g[k] = IF k = 0 THEN first ELSE (IF detections[k].from <= g[k - 1] THEN g[k - 1] ELSE detections[k].to)
    BY <1>5, <1>6, <2>1 DEF GoesOn
  <2> HIDE DEF n
  <2> QED BY <1>6, <2>2 DEF GoesOn
<1>8. Recursion(after)
  <2> HIDE DEF Recursion
  <2> QED BY <1>7
<1>9. /\ after[0] = first /\ DOMAIN after = 0 .. n
      /\ \A k \in 1 .. n : after[k] = (IF detections[k].from <= after[k - 1] THEN after[k - 1] ELSE detections[k].to)
  <2> HIDE DEF after, n
  <2>1. DOMAIN after = 0 .. n /\ \A k \in 0 .. n : after[k] = IF k = 0 THEN first ELSE (IF detections[k].from <= after[k - 1] THEN after[k - 1] ELSE detections[k].to)
    BY <1>8
  <2>2. 0 \in 0 .. n /\ \A k \in 1 .. n : k \in 0 .. n /\ k # 0
    BY <1>1
  <2> QED BY <2>1, <2>2
<1>10. \A k \in 0 .. n : after[k] \in Nat
  <2> DEFINE P == {k \in 0 .. n : after[k] \in Nat}
  <2> HIDE DEF after
  <2>1. 0 \in P
    BY <1>1, <1>2, <1>9
  <2>2. ASSUME NEW k \in 1 .. n, k - 1 \in P PROVE k \in P
    <3>1. after[k - 1] \in Nat /\ after[k] = (IF detections[k].from <= after[k - 1] THEN after[k - 1] ELSE detections[k].to)
      BY <1>9, <2>2
    <3>2. after[k] \in Nat /\ k \in 0 .. n
      BY <1>1, <1>3, <3>1
    <3> QED BY <3>2
  <2>3. \A k \in 0 .. n : k \in P
    <3> HIDE DEF P, n
    <3> QED BY ONLY <1>1, <2>1, <2>2, IntervalInduction
  <2> QED BY <2>3
<1>11. Cursor(detections) = after
  BY DEF Cursor, first
<1>12. after \in [0 .. n -> Nat]
  <2>1. after = [k \in 0 .. n |-> after[k]]
    <3> HIDE DEF after
    <3> QED BY <1>8
  <2> HIDE DEF after
  <2> QED BY <1>10, <2>1
<1> HIDE DEF after
<1>13. CursorAfter(after, detections)
  BY <1>9, <1>11, <1>12 DEF first, CursorAfter
<1> QED BY <1>13

IsReplaced(detections, k) == k \in DOMAIN detections /\ detections[k].from > Cursor(detections)[k - 1]

(* A detection that is skipped begins within one that is replaced, which came first. *)
LEMMA SkippedBeginsInside ==
  ASSUME NEW detections \in Detections,
         \A i, j \in DOMAIN detections : i < j => detections[i].from <= detections[j].from,
         \A i \in DOMAIN detections : detections[i].from <= detections[i].to /\ detections[i].from > 0,
         NEW k \in DOMAIN detections
  PROVE  \E m \in 1 .. k : /\ IsReplaced(detections, m)
                           /\ detections[m].from <= detections[k].from /\ detections[k].from <= detections[m].to
<1> DEFINE D == detections
           n == Len(D)
           c == Cursor(D)
<1>1. n \in Nat /\ DOMAIN D = 1 .. n /\ \A i \in 1 .. n : D[i].from \in Nat /\ D[i].to \in Nat
  BY DetectionsAre
<1>2. /\ c \in [0 .. n -> Nat] /\ c[0] = 0
      /\ \A i \in 1 .. n : c[i] = IF D[i].from <= c[i - 1] THEN c[i - 1] ELSE D[i].to
  BY CursorSteps DEF CursorAfter
<1> DEFINE P == {i \in 0 .. n : c[i] = 0 \/ \E m \in 1 .. i : D[m].from > c[m - 1] /\ c[i] = D[m].to}
<1> HIDE DEF c, n
<1>3. 0 \in P
  BY <1>1, <1>2
<1>4. ASSUME NEW i \in 1 .. n, i - 1 \in P PROVE i \in P
  <2>1. CASE D[i].from <= c[i - 1]
    <3>1. c[i] = c[i - 1]
      BY <1>2, <2>1
    <3>2. \A m \in 1 .. i - 1 : m \in 1 .. i
      BY <1>1
    <3> QED BY <1>1, <1>4, <3>1, <3>2
  <2>2. CASE ~(D[i].from <= c[i - 1])
    <3>1. c[i] = D[i].to /\ i - 1 \in 0 .. n
      BY <1>1, <1>2, <2>2
    <3>2. D[i].from > c[i - 1] /\ i \in 1 .. i
      BY <1>1, <1>2, <2>2, <3>1
    <3> QED BY <1>1, <3>1, <3>2
  <2> QED BY <2>1, <2>2
<1>5. \A i \in 0 .. n : i \in P
  <2> HIDE DEF P
  <2> QED BY ONLY <1>1, <1>3, <1>4, IntervalInduction
<1>6. k \in 1 .. n /\ k - 1 \in 0 .. n /\ c[k - 1] \in Nat
  BY <1>1, <1>2
<1>7. CASE D[k].from > c[k - 1]
  <2>1. IsReplaced(D, k) /\ k \in 1 .. k
    BY <1>1, <1>6, <1>7 DEF IsReplaced, c
  <2> QED BY <1>1, <1>6, <2>1
<1>8. CASE D[k].from <= c[k - 1]
  <2>1. c[k - 1] # 0
    BY <1>1, <1>6, <1>8
  <2>2. PICK m \in 1 .. k - 1 : D[m].from > c[m - 1] /\ c[k - 1] = D[m].to
    BY <1>5, <1>6, <2>1
  <2>3. m \in DOMAIN D /\ m < k /\ m \in 1 .. k
    BY <1>1, <1>6, <2>2
  <2>4. IsReplaced(D, m)
    BY <2>2, <2>3 DEF IsReplaced, c
  <2>5. D[m].from <= D[k].from
    BY <1>1, <1>6, <2>3
  <2> QED BY <1>8, <2>2, <2>3, <2>4, <2>5
<1> QED BY <1>1, <1>6, <1>7, <1>8

(* Nothing at which a span begins is left, and what covers it was before it in the   *)
(* order of the text.                                                                  *)
LEMMA BeginningsAreCovered ==
  ASSUME NEW text \in Seq(Atoms), NEW suspicious, NEW s \in FoundIn(text, suspicious)
  PROVE  \E r \in FoundIn(text, suspicious) :
           /\ r.from <= s.from /\ s.from <= r.to
           /\ r = s \/ r.from < s.from \/ r.detector < s.detector
           /\ \A i \in Survivors(text, DetectAll(text, suspicious)) : ~(r.from <= i /\ i <= r.to)
<1> DEFINE D == DetectAll(text, suspicious)
<1>1. PICK N \in Nat :
        /\ D \in [1 .. N -> FoundIn(text, suspicious)] /\ D \in Seq(FoundIn(text, suspicious))
        /\ \A x \in FoundIn(text, suspicious) : \E k \in 1 .. N : D[k] = x
        /\ \A i, j \in 1 .. N : i < j => \/ D[i].from < D[j].from
                                         \/ D[i].from = D[j].from /\ D[i].detector < D[j].detector
  BY DetectionsInOrder
<1> HIDE DEF D
<1>2. \A x \in FoundIn(text, suspicious) : /\ x \in [detector : 1 .. 10, from : Nat, to : Nat] /\ x.from <= x.to /\ x.from > 0
  <2> SUFFICES ASSUME NEW x \in FoundIn(text, suspicious)
               PROVE  x \in [detector : 1 .. 10, from : Nat, to : Nat] /\ x.from <= x.to /\ x.from > 0
    OBVIOUS
  <2>1. IsFound(text, x)
    BY FoundAre
  <2>2. x = Span(x.detector, x.from, x.to)
    BY <2>1 DEF IsFound, IsKnown, IsCandidate
  <2>3. Len(text) \in Nat /\ DOMAIN text = 1 .. Len(text)
    BY LenProperties
  <2>4. x.from \in Nat /\ x.to \in Nat /\ x.from <= x.to /\ x.from > 0 /\ x.detector \in 1 .. 10
    BY <2>1, <2>3 DEF IsFound
  <2>5. [detector |-> x.detector, from |-> x.from, to |-> x.to] \in [detector : 1 .. 10, from : Nat, to : Nat]
    BY <2>4
  <2> QED BY <2>2, <2>4, <2>5 DEF Span
<1> DEFINE S == [detector : 1 .. 10, from : Nat, to : Nat]
<1>3. D \in Detections /\ DOMAIN D = 1 .. N
  <2>1. FoundIn(text, suspicious) \subseteq S
    BY <1>2
  <2> HIDE DEF S
  <2>2. D \in Seq(S)
    BY <1>1, <2>1
  <2>3. DOMAIN D = 1 .. N
    BY <1>1
  <2> QED BY <2>2, <2>3 DEF Detections, S
<1>4. \A i \in 1 .. N : D[i] \in FoundIn(text, suspicious) /\ D[i].from \in Nat /\ D[i].to \in Nat
  <2>1. \A i \in 1 .. N : D[i] \in FoundIn(text, suspicious)
    BY <1>1
  <2>2. \A x \in S : x.from \in Nat /\ x.to \in Nat
    OBVIOUS
  <2> QED BY <1>2, <2>1, <2>2
<1> HIDE DEF S
<1>5. \A i, j \in DOMAIN D : i < j => D[i].from <= D[j].from
  <2> SUFFICES ASSUME NEW i \in 1 .. N, NEW j \in 1 .. N, i < j PROVE D[i].from <= D[j].from
    BY <1>3
  <2>1. D[i].from < D[j].from \/ D[i].from = D[j].from
    BY <1>1
  <2>2. D[i].from \in Nat /\ D[j].from \in Nat
    BY <1>4
  <2> QED BY ONLY <2>1, <2>2
<1>6. PICK k \in DOMAIN D : D[k] = s
  BY <1>1, <1>3
<1>7. PICK m \in 1 .. k : IsReplaced(D, m) /\ D[m].from <= D[k].from /\ D[k].from <= D[m].to
  BY <1>1, <1>2, <1>3, <1>5, SkippedBeginsInside
<1>8. m \in 1 .. N /\ (m = k \/ m < k)
  BY <1>3, <1>6, <1>7
<1>9. D[m] = s \/ D[m].from < s.from \/ D[m].detector < s.detector
  BY <1>1, <1>3, <1>6, <1>8
<1>10. \A i \in Survivors(text, D) : ~(D[m].from <= i /\ i <= D[m].to)
  BY <1>7 DEF Survivors, IsReplaced
<1> QED BY <1>4, <1>6, <1>7, <1>8, <1>9, <1>10 DEF D

(* What a scan leaves standing, by what was found. *)
LEMMA ScanLeaves ==
  ASSUME NEW text \in Seq(Atoms), NEW suspicious, NEW i \in ScanText(text, suspicious).survivors
  PROVE  /\ i \in DOMAIN text
         /\ \/ FoundIn(text, suspicious) = {}
            \/ i \in Survivors(text, DetectAll(text, suspicious)) /\ \A s \in FoundIn(text, suspicious) : s.detector # 10
<1> DEFINE D == DetectAll(text, suspicious)
<1>1. PICK N \in Nat :
        /\ D \in [1 .. N -> FoundIn(text, suspicious)] /\ D \in Seq(FoundIn(text, suspicious))
        /\ \A s \in FoundIn(text, suspicious) : \E k \in 1 .. N : D[k] = s
        /\ \A k, m \in 1 .. N : k < m => \/ D[k].from < D[m].from
                                         \/ D[k].from = D[m].from /\ D[k].detector < D[m].detector
  BY DetectionsInOrder
<1> HIDE DEF D
<1>2. CASE D = <<>>
  <2>1. DOMAIN D = {} /\ DOMAIN D = 1 .. N
    BY <1>1, <1>2
  <2>2. FoundIn(text, suspicious) = {}
    BY <1>1, <2>1
  <2> QED BY <1>2, <2>2 DEF ScanText, D
<1>3. CASE D # <<>> /\ \E k \in DOMAIN D : D[k].detector = AmbiguousSecret
  <2>1. ScanText(text, suspicious).survivors = {}
    BY <1>3 DEF ScanText, D
  <2> QED BY <2>1
<1>4. CASE D # <<>> /\ ~ \E k \in DOMAIN D : D[k].detector = AmbiguousSecret
  <2>1. i \in Survivors(text, D)
    BY <1>4 DEF ScanText, D
  <2>2. \A s \in FoundIn(text, suspicious) : s.detector # 10
    BY <1>1, <1>4 DEF AmbiguousSecret
  <2>3. i \in DOMAIN text
    BY <2>1 DEF Survivors
  <2> QED BY <2>1, <2>2, <2>3 DEF D
<1> QED BY <1>2, <1>3, <1>4

(* engine.rs apply_redactions: in a text of any length, whatever is found in it, a match *)
(* of a known format loses its beginning, and the rest as well unless an earlier match       *)
(* reaches into it and ends before the rest begins.                                            *)
THEOREM KnownFormatsSound == Spec => []MatchesSurviveOnlyBehindOverlaps
<1>1. Given /\ Computed => MatchesSurviveOnlyBehindOverlaps
  <2> SUFFICES ASSUME Given, Computed, done, input.kind = "text",
                      NEW s \in KnownFormats(input.text), NEW i \in outcome.survivors \cap (s.from .. s.to)
               PROVE  \E r \in KnownFormats(input.text) \ {s} : r.from <= s.from /\ s.from <= r.to /\ r.to < i
    BY DEF MatchesSurviveOnlyBehindOverlaps
  <2> DEFINE text == input.text
             suspicious == input.suspicious
  <2>1. text \in Seq(Atoms) /\ i \in ScanText(text, suspicious).survivors
    BY TextsAssumption DEF Given, Computed, IsAnswer, IsText
  <2>2. s \in KnownFormats(text) /\ i \in s.from .. s.to
    OBVIOUS
  <2> HIDE DEF text, suspicious
  <2>3. s \in FoundIn(text, suspicious)
    BY <2>2 DEF FoundIn
  <2>4. /\ i \in Survivors(text, DetectAll(text, suspicious))
        /\ \A x \in FoundIn(text, suspicious) : x.detector # 10
    BY <2>1, <2>3, ScanLeaves
  <2>5. PICK r \in FoundIn(text, suspicious) : r.from <= s.from /\ s.from <= r.to /\ ~(r.from <= i /\ i <= r.to)
    BY <2>1, <2>3, <2>4, BeginningsAreCovered
  <2>6. r \in KnownFormats(text)
    BY <2>1, <2>4, FoundAre DEF IsFound
  <2>7. IsKnown(text, r) /\ IsKnown(text, s)
    BY <2>1, <2>2, <2>6, KnownFormatsAreKnown
  <2>8. Len(text) \in Nat /\ DOMAIN text = 1 .. Len(text)
    BY <2>1, LenProperties
  <2>9. r.from \in Nat /\ r.to \in Nat /\ s.from \in Nat /\ s.to \in Nat /\ i \in Nat /\ s.from <= i /\ i <= s.to
    BY <2>2, <2>7, <2>8 DEF IsKnown
  <2>10. r.to < i
    BY <2>5, <2>9
  <2>11. r # s
    BY <2>9, <2>10
  <2> QED BY <2>5, <2>6, <2>10, <2>11 DEF text
<1> QED BY <1>1, OutcomeIsComputed, PTL

(* The run that an atom of a candidate lies in. *)
LEMMA RunAround ==
  ASSUME NEW text \in Seq(Atoms), NEW i \in DOMAIN text, text[i] \in Candidate
  PROVE  \E j \in DOMAIN text : /\ text[j] \in Candidate /\ (j > 1 => text[j - 1] \notin Candidate)
                                /\ i \in j .. EndOfRun(text, Candidate, j)
<1> DEFINE T == {j \in 1 .. i : \A k \in j .. i : text[k] \in Candidate}
<1>1. Len(text) \in Nat /\ DOMAIN text = 1 .. Len(text)
  BY LenProperties
<1>2. T \in SUBSET Nat /\ i \in T
  BY <1>1
<1>3. PICK j \in T : \A t \in T : j <= t
  <2> HIDE DEF T
  <2> QED BY <1>2, LeastElement
<1>4. j \in DOMAIN text /\ text[j] \in Candidate /\ i \in j .. Len(text) /\ \A k \in j .. i : text[k] \in Candidate
  BY <1>1, <1>3
<1>5. j > 1 => text[j - 1] \notin Candidate
  <2> SUFFICES ASSUME j > 1, text[j - 1] \in Candidate PROVE FALSE
    OBVIOUS
  <2>1. j - 1 \in 1 .. i /\ \A k \in j - 1 .. i : k = j - 1 \/ k \in j .. i
    BY <1>1, <1>3
  <2>2. j - 1 \in T
    BY <1>4, <2>1
  <2> QED BY <1>1, <1>3, <2>2
<1>6. i <= EndOfRun(text, Candidate, j) /\ EndOfRun(text, Candidate, j) \in j .. Len(text)
  BY <1>4, RunEnds
<1>7. i \in j .. EndOfRun(text, Candidate, j)
  BY <1>1, <1>4, <1>6
<1> QED BY <1>4, <1>5, <1>7

(* detectors.rs detect_all and engine.rs scan: in a text of any length an unknown secret *)
(* is kept from being stored, unless it is joined to a match of a known format or lies in    *)
(* a longer run that is not judged a secret.                                                   *)
THEOREM UncertainSound == Spec => []UncertainSurvivesOnlyJoined
<1>1. Given /\ Computed => UncertainSurvivesOnlyJoined
  <2> SUFFICES ASSUME Given, Computed, done, input.kind = "text", NEW i \in outcome.survivors, input.text[i] = "secret"
               PROVE  \/ \E s \in KnownFormats(input.text) : \E j \in s.from .. s.to : Glued(input.text, i, j)
                      \/ \E c \in EntropyCandidates(input.text) :
                           c.from <= i /\ i <= c.to /\ c.from < c.to /\ <<c.from, c.to>> \notin input.suspicious
    BY DEF UncertainSurvivesOnlyJoined
  <2> DEFINE text == input.text
             suspicious == input.suspicious
             known == KnownFormats(text)
  <2>1. /\ text \in Seq(Atoms) /\ i \in ScanText(text, suspicious).survivors /\ text[i] = "secret"
        /\ CanBeSuspicious(text, suspicious)
    BY TextsAssumption DEF Given, Computed, IsAnswer, IsText
  <2> HIDE DEF text, suspicious
  <2>2. Len(text) \in Nat /\ DOMAIN text = 1 .. Len(text) /\ i \in DOMAIN text
    BY <2>1, ScanLeaves, LenProperties
  <2>3. text[i] \in Candidate /\ text[i] \notin NoWord
    BY <2>1 DEF Candidate, WordStarts, WordEnds, Letters, NoWord
  <2>4. PICK r \in DOMAIN text : /\ text[r] \in Candidate /\ (r > 1 => text[r - 1] \notin Candidate)
                                 /\ i \in r .. EndOfRun(text, Candidate, r)
    BY <2>1, <2>2, <2>3, RunAround
  <2> DEFINE end == EndOfRun(text, Candidate, r)
             words == {k \in r .. end : text[k] \notin NoWord}
             c == Span(AmbiguousSecret, Min(words), Max(words))
  <2>5. end \in r .. Len(text) /\ \A k \in r .. end : text[k] \in Candidate
    BY <2>1, <2>4, RunEnds
  <2>6. i \in words
    BY <2>3, <2>4
  <2>7. c \in EntropyCandidates(text)
    <3> HIDE DEF c
    <3>1. words # {}
      BY <2>6
    <3> HIDE DEF words
    <3> QED BY <2>1, <2>4, <3>1, RunMakesCandidate DEF words, c
  <2>8. /\ c.from = Min(words) /\ c.to = Max(words) /\ c.detector = 10
    BY DEF Span, AmbiguousSecret
  <2>9. /\ c.from \in words /\ c.to \in words /\ c.from <= i /\ i <= c.to
    <3>1. words \in SUBSET Nat /\ words \in SUBSET Int /\ end \in Int /\ \A t \in words : t <= end
      BY <2>2, <2>5
    <3> HIDE DEF words, c, end
    <3>2. Min(words) \in words /\ Min(words) <= i
      BY <2>6, <3>1, MinIsLeast
    <3>3. Max(words) \in words /\ i <= Max(words)
      BY <2>6, <3>1, MaxIsGreatest
    <3> QED BY <2>8, <3>2, <3>3
  <2>10. c.from \in Nat /\ c.to \in Nat /\ c.from \in r .. end /\ c.to \in r .. end /\ end \in Nat /\ r \in Nat /\ i \in Nat
    <3>1. words \subseteq r .. end
      OBVIOUS
    <3>2. end \in Nat /\ r \in Nat /\ i \in Nat
      BY <2>2, <2>5
    <3> HIDE DEF words, c, end
    <3>3. c.from \in r .. end /\ c.to \in r .. end
      BY <2>9, <3>1
    <3>4. \A k \in r .. end : k \in Nat
      BY <3>2
    <3> QED BY <3>2, <3>3, <3>4
  <2> HIDE DEF c, words, end
  <2>11. CASE <<c.from, c.to>> \notin suspicious
    <3>1. c.from # c.to
      <4> SUFFICES ASSUME c.from = c.to PROVE FALSE
        OBVIOUS
      <4>1. text[c.from] = "secret"
        BY <2>1, <2>9, <2>10
      <4> QED BY <2>1, <2>7, <2>11, <4>1 DEF CanBeSuspicious
    <3>2. c.from < c.to
      BY <2>9, <2>10, <3>1
    <3> QED BY <2>7, <2>9, <2>11, <3>2 DEF text, suspicious
  <2>12. CASE <<c.from, c.to>> \in suspicious
    <3>1. PICK s \in known : Overlap(s, c)
      <4>1. c \notin FoundIn(text, suspicious)
        BY <2>1, <2>8, ScanLeaves
      <4> QED BY <2>7, <2>12, <4>1 DEF FoundIn, Ambiguous, Suspicious
    <3>2. s.from \in Nat /\ s.to \in Nat /\ s.from <= s.to
      <4>1. IsKnown(text, s)
        BY <2>1, KnownFormatsAreKnown
      <4> QED BY <2>2, <4>1 DEF IsKnown
    <3>3. s.from <= c.to /\ c.from <= s.to
      BY <3>1 DEF Overlap
    <3>4. PICK j \in s.from .. s.to : j \in c.from .. c.to
      <4>1. CASE s.from >= c.from
        <5>1. s.from \in s.from .. s.to /\ s.from \in c.from .. c.to
          BY <2>10, <3>2, <3>3, <4>1
        <5> QED BY <5>1
      <4>2. CASE s.from < c.from
        <5>1. c.from \in s.from .. s.to /\ c.from \in c.from .. c.to
          BY <2>9, <2>10, <3>2, <3>3, <4>2
        <5> QED BY <5>1
      <4> QED BY <2>10, <3>2, <4>1, <4>2
    <3>5. \A k \in (i .. j) \cup (j .. i) : k \in r .. end
      BY <2>9, <2>10, <3>2, <3>4
    <3>6. Glued(text, i, j)
      BY <2>5, <3>5 DEF Glued, end
    <3> QED BY <3>4, <3>6 DEF text
  <2> QED BY <2>11, <2>12
<1> QED BY <1>1, OutcomeIsComputed, PTL
=============================================================================
