----------------------------- MODULE AlgorithmsProofs -----------------------------
(* Proofs about Algorithms: what the properties say of a bounded number of inputs    *)
(* when TLC checks them holds for inputs of every length.                              *)
EXTENDS Algorithms, InductionLemmas, SequenceTheorems

-----------------------------------------------------------------------------
(* The one invariant all the theorems share: an input is what its kind says, and the *)
(* outcome is what the algorithm of that kind makes of it.                             *)

Given ==
  /\ input.kind = "history" => input \in Histories
  /\ input.kind = "table" => input \in Tables
  /\ input.kind = "text" => input \in Texts
  /\ input.kind = "card" => input \in CardNumbers
  /\ input.kind = "answer" => input \in Answers
  /\ input.kind = "responses" => input \in Conversations
  /\ input.kind = "plugin" => input \in PluginRuns
  /\ input.kind = "exchange" => input \in Exchanges
  /\ input.kind = "runtimes" => input \in Runtimes
  /\ input.kind = "clipboard" => input \in Clipboards

IsAnswer(out, in) ==
  /\ in.kind = "history" => out = PatternsAndGraph(in)
  /\ in.kind = "table" => out = ListedAndKept(in)
  /\ in.kind = "text" => out = ScanText(in.text, in.suspicious)
  /\ in.kind = "card" => out = FindLuhnValidWindow(in.digits)
  /\ in.kind = "answer" => out = ExtractJsonObject(in.text)
  /\ in.kind = "responses" => out = Synthesized(in)
  /\ in.kind = "plugin" => out = PluginLife(in)
  /\ in.kind = "exchange" => out = Complete(in.client, in.exchange)
  /\ in.kind = "runtimes" => out = DetectRuntimes(in.candidates, in.servers, in.timeout)
  /\ in.kind = "clipboard" => out = Reports(in.rounds)

Computed == done => IsAnswer(outcome, input)

(* Whatever is asked is answered once, by the algorithm it is meant for. *)
LEMMA OutcomeIsComputed == Spec => [](Given /\ Computed)
<1>1. Init => Given /\ Computed
  <2> SUFFICES ASSUME Init PROVE Given /\ Computed
    OBVIOUS
  <2>1. Computed
    BY DEF Init, Computed
  <2>2. Given
    BY HistoriesAssumption, TablesAssumption, TextsAssumption, CardNumbersAssumption, AnswersAssumption,
       ConversationsAssumption, PluginRunsAssumption, ExchangesAssumption, RuntimesAssumption, ClipboardsAssumption
    DEF Init, Given, IsHistory, IsTable, IsText, IsReply, IsCardNumber, IsConversation, IsPluginRun, IsExchange, IsRuntimes
  <2> QED BY <2>1, <2>2
<1>2. Given /\ Computed /\ [Next]_vars => (Given /\ Computed)'
  <2> SUFFICES ASSUME Given, Computed, [Next]_vars PROVE Given' /\ Computed'
    OBVIOUS
  <2>1. Given'
    <3>1. input' = input
      BY DEF Next, Apply, CompleteExchange, DetectProviders, PollClipboard, RunPlugin, DetectPatterns, ListAndExpire,
             ScanForSecrets, FindCard, ExtractObject, SynthesizeAnswer, vars
    <3> QED BY <3>1 DEF Given
  <2>2. Computed'
    <3>1. CASE UNCHANGED vars
      BY <3>1 DEF vars, Computed
    <3>2. CASE DetectPatterns
      BY <3>2 DEF DetectPatterns, Apply, Computed, IsAnswer
    <3>3. CASE ListAndExpire
      BY <3>3 DEF ListAndExpire, Apply, Computed, IsAnswer
    <3>4. CASE ScanForSecrets
      BY <3>4 DEF ScanForSecrets, Apply, Computed, IsAnswer
    <3>5. CASE FindCard
      BY <3>5 DEF FindCard, Apply, Computed, IsAnswer
    <3>6. CASE ExtractObject
      BY <3>6 DEF ExtractObject, Apply, Computed, IsAnswer
    <3>7. CASE SynthesizeAnswer
      BY <3>7 DEF SynthesizeAnswer, Apply, Computed, IsAnswer
    <3>8. CASE RunPlugin
      BY <3>8 DEF RunPlugin, Apply, Computed, IsAnswer
    <3>9. CASE CompleteExchange
      BY <3>9 DEF CompleteExchange, Apply, Computed, IsAnswer
    <3>10. CASE DetectProviders
      BY <3>10 DEF DetectProviders, Apply, Computed, IsAnswer
    <3>11. CASE PollClipboard
      BY <3>11 DEF PollClipboard, Apply, Computed, IsAnswer
    <3> QED BY <3>1, <3>2, <3>3, <3>4, <3>5, <3>6, <3>7, <3>8, <3>9, <3>10, <3>11 DEF Next
  <2> QED BY <2>1, <2>2
<1> QED BY <1>1, <1>2, PTL DEF Spec

-----------------------------------------------------------------------------
(* The event store *)

(* The characters behind the seconds are a text that its last one, the Z, ends: they    *)
(* are numbers as far as there are any, and only the last is an 11.                       *)
LEMMA CharsAfter ==
  ASSUME NEW f \in Seq(0 .. 9), NEW i \in 1 .. (Len(f) + 2)
  PROVE  /\ CharAfter(f, i) \in Int
         /\ CharAfter(f, 1) = IF f = <<>> THEN 11 ELSE 0
         /\ f # <<>> /\ i # Len(f) + 2 => CharAfter(f, i) <= 10
         /\ i = Len(f) + 2 => CharAfter(f, i) = 11
         /\ f # <<>> /\ i \in 2 .. (Len(f) + 1) => CharAfter(f, i) = 1 + f[i - 1]
<1>1. Len(f) \in Nat /\ i \in Int
  OBVIOUS
<1>2. f # <<>> /\ i \in 2 .. (Len(f) + 1) => f[i - 1] \in 0 .. 9
  BY <1>1
<1> QED BY <1>1, <1>2, SMTT(20) DEF CharAfter

(* Two such texts end together or differ before one of them ends. *)
LEMMA CharsInBoth ==
  ASSUME NEW f \in Seq(0 .. 9), NEW g \in Seq(0 .. 9), NEW i \in 1 .. (Len(f) + 2),
         \A j \in 1 .. (i - 1) : CharAfter(f, j) = CharAfter(g, j)
  PROVE  i \in 1 .. (Len(g) + 2)
<1> DEFINE k == Len(g) + 2
<1>1. Len(f) \in Nat /\ Len(g) \in Nat /\ i \in Int
  OBVIOUS
<1>2. SUFFICES ASSUME i > k PROVE FALSE
  BY <1>1
<1>3. f # <<>>
  BY <1>1, <1>2
<1>4. k \in 1 .. (i - 1) /\ k \in 1 .. (Len(f) + 2) /\ k # Len(f) + 2 /\ k \in 1 .. (Len(g) + 2)
  BY <1>1, <1>2
<1>5. CharAfter(f, k) <= 10
  BY <1>3, <1>4, CharsAfter
<1>6. CharAfter(g, k) = 11
  BY <1>4, CharsAfter
<1> QED BY <1>4, <1>5, <1>6

LEMMA CharsDetermine ==
  ASSUME NEW f \in Seq(0 .. 9), NEW g \in Seq(0 .. 9),
         \A i \in 1 .. (Len(f) + 2) : CharAfter(f, i) = CharAfter(g, i)
  PROVE  f = g
<1> DEFINE n == Len(f)
<1>1. n \in Nat /\ Len(g) \in Nat /\ 1 \in 1 .. (n + 2) /\ 1 \in 1 .. (Len(g) + 2) /\ n + 2 \in 1 .. (n + 2)
  OBVIOUS
<1>2. f = <<>> <=> g = <<>>
  <2>1. CharAfter(f, 1) = CharAfter(g, 1)
    BY <1>1
  <2> QED BY <1>1, <2>1, CharsAfter
<1>3. CASE f # <<>>
  <2>1. n + 2 \in 1 .. (Len(g) + 2)
    BY <1>1, CharsInBoth
  <2>2. CharAfter(g, n + 2) = 11
    BY <1>1, CharsAfter
  <2>3. n + 2 = Len(g) + 2
    BY <1>2, <1>3, <2>1, <2>2, CharsAfter
  <2>4. ASSUME NEW i \in 1 .. n PROVE f[i] = g[i]
    <3>1. i + 1 \in 2 .. (n + 1) /\ i + 1 \in 1 .. (n + 2) /\ i + 1 - 1 = i /\ n = Len(g)
      BY <1>1, <2>3
    <3>2. CharAfter(f, i + 1) = 1 + f[i] /\ CharAfter(g, i + 1) = 1 + g[i]
      BY <1>2, <1>3, <3>1, CharsAfter
    <3>3. f[i] \in Int /\ g[i] \in Int
      <4>1. f[i] \in 0 .. 9 /\ g[i] \in 0 .. 9
        BY <3>1
      <4> QED BY ONLY <4>1
    <3> QED BY <3>1, <3>2, <3>3
  <2> QED BY <1>1, <2>3, <2>4, SeqEqual
<1> QED BY <1>2, <1>3

(* The order of the texts of times is strict, and total. *)
LEMMA TextBeforeIrreflexive ==
  ASSUME NEW s \in Time PROVE ~TextBefore(s, s)
<1>1. s.second \in Nat /\ s.fraction \in Seq(0 .. 9)
  BY DEF Time
<1>2. \A i \in 1 .. (Len(s.fraction) + 2) : CharAfter(s.fraction, i) \in Int
  BY <1>1, CharsAfter
<1> QED BY <1>1, <1>2 DEF TextBefore

LEMMA TextBeforeTransitive ==
  ASSUME NEW s \in Time, NEW t \in Time, NEW u \in Time, TextBefore(s, t), TextBefore(t, u)
  PROVE  TextBefore(s, u)
<1> DEFINE f == s.fraction
           g == t.fraction
           h == u.fraction
           First(a, b, i) == /\ \A j \in 1 .. (i - 1) : CharAfter(a, j) = CharAfter(b, j)
                             /\ CharAfter(a, i) < CharAfter(b, i)
<1>1. /\ s.second \in Nat /\ t.second \in Nat /\ u.second \in Nat
      /\ f \in Seq(0 .. 9) /\ g \in Seq(0 .. 9) /\ h \in Seq(0 .. 9)
      /\ Len(f) \in Nat /\ Len(g) \in Nat /\ Len(h) \in Nat
  BY DEF Time
<1>2. CASE s.second < t.second \/ t.second < u.second
  BY <1>1, <1>2 DEF TextBefore
<1>3. CASE s.second = t.second /\ t.second = u.second
  <2>1. PICK i \in 1 .. (Len(f) + 2) : First(f, g, i)
    BY <1>1, <1>3 DEF TextBefore
  <2>2. PICK j \in 1 .. (Len(g) + 2) : First(g, h, j)
    BY <1>1, <1>3 DEF TextBefore
  <2>3. i \in 1 .. (Len(g) + 2) /\ j \in 1 .. (Len(h) + 2)
    BY <1>1, <2>1, <2>2, CharsInBoth
  <2>4. /\ CharAfter(f, i) \in Int /\ CharAfter(g, i) \in Int
        /\ CharAfter(g, j) \in Int /\ CharAfter(h, j) \in Int
    BY <1>1, <2>1, <2>2, <2>3, CharsAfter
  <2>5. \E k \in 1 .. (Len(f) + 2) : First(f, h, k)
    <3>1. CASE i < j
      <4>1. CharAfter(g, i) = CharAfter(h, i)
        BY <1>1, <2>1, <2>2, <3>1
      <4>2. First(f, h, i)
        BY <1>1, <2>1, <2>2, <3>1, <4>1
      <4> QED BY <4>2
    <3>2. CASE i = j
      <4>1. First(f, h, i)
        BY <1>1, <2>1, <2>2, <2>4, <3>2
      <4> QED BY <4>1
    <3>3. CASE j < i
      <4>1. CharAfter(f, j) = CharAfter(g, j) /\ j \in 1 .. (Len(f) + 2)
        BY <1>1, <2>1, <2>2, <3>3
      <4>2. First(f, h, j)
        BY <1>1, <2>1, <2>2, <3>3, <4>1
      <4> QED BY <4>1, <4>2
    <3> QED BY <2>1, <2>2, <3>1, <3>2, <3>3
  <2> QED BY <1>3, <2>5 DEF TextBefore
<1> QED BY <1>1, <1>2, <1>3 DEF TextBefore

LEMMA TextBeforeTotal ==
  ASSUME NEW s \in Time, NEW t \in Time
  PROVE  s = t \/ TextBefore(s, t) \/ TextBefore(t, s)
<1> DEFINE f == s.fraction
           g == t.fraction
           differ == {i \in 1 .. (Len(f) + 2) : CharAfter(f, i) # CharAfter(g, i)}
<1>1. /\ s.second \in Nat /\ t.second \in Nat /\ f \in Seq(0 .. 9) /\ g \in Seq(0 .. 9)
      /\ Len(f) \in Nat /\ Len(g) \in Nat
      /\ s.second = t.second /\ f = g => s = t
  BY DEF Time
<1>2. CASE s.second # t.second
  BY <1>1, <1>2 DEF TextBefore
<1>3. CASE s.second = t.second /\ differ = {}
  <2>1. f = g
    BY <1>1, <1>3, CharsDetermine
  <2> QED BY <1>1, <1>3, <2>1
<1>4. CASE s.second = t.second /\ differ # {}
  <2>1. differ \in SUBSET Nat
    BY <1>1
  <2>2. PICK i \in differ : \A j \in differ : i <= j
    BY <1>4, <2>1, LeastElement
  <2>3. i \in 1 .. (Len(f) + 2) /\ \A j \in 1 .. (i - 1) : CharAfter(f, j) = CharAfter(g, j)
    BY <1>1, <2>2
  <2>4. i \in 1 .. (Len(g) + 2)
    BY <1>1, <2>3, CharsInBoth
  <2>5. CharAfter(f, i) \in Int /\ CharAfter(g, i) \in Int /\ CharAfter(f, i) # CharAfter(g, i)
    BY <1>1, <2>2, <2>3, <2>4, CharsAfter
  <2>6. CharAfter(f, i) < CharAfter(g, i) \/ CharAfter(g, i) < CharAfter(f, i)
    BY <2>5
  <2> QED BY <1>4, <2>3, <2>4, <2>6 DEF TextBefore
<1> QED BY <1>2, <1>3, <1>4

LEMMA FirstOnes ==
  ASSUME NEW S, NEW s \in Seq(S), NEW m \in 0 .. Len(s)
  PROVE  SubSeq(s, 1, m) \in Seq(S) /\ Len(SubSeq(s, 1, m)) = m /\ \A i \in 1 .. m : SubSeq(s, 1, m)[i] = s[i]
OBVIOUS

(* store.rs list_recent_events: whatever rows there are, they are listed by the second *)
(* they are of, and what the limit cuts off is no newer than what it leaves.             *)
THEOREM ListedSound == Spec => []ListedInOrderOfSeconds
<1>1. Given /\ Computed => ListedInOrderOfSeconds
  <2> SUFFICES ASSUME Given, Computed, done, input.kind = "table" PROVE ListedInOrderOfSeconds
    BY DEF ListedInOrderOfSeconds
  <2> DEFINE rows == input.rows
             before == NewestFirst(rows)
             sorted == Ordered(rows, before)
             n == Cardinality(rows)
             m == IF input.limit < n THEN input.limit ELSE n
             recent == outcome.recent
  <2>1. /\ input.limit \in Nat /\ IsFiniteSet(rows)
        /\ \A r \in rows : r.id \in Nat /\ r.at \in Time
        /\ \A r, s \in rows : r.id = s.id => r = s
    BY TablesAssumption DEF Given, IsTable
  <2>2. n \in Nat
    BY <2>1, FS_CardinalityType
  <2>3. \A x, y : <<x, y>> \in before <=>
                    x \in rows /\ y \in rows /\ (TextBefore(y.at, x.at) \/ (x.at = y.at /\ x.id < y.id))
    <3> SUFFICES ASSUME NEW x, NEW y
                 PROVE  <<x, y>> \in before <=>
                          x \in rows /\ y \in rows /\ (TextBefore(y.at, x.at) \/ (x.at = y.at /\ x.id < y.id))
      OBVIOUS
    <3>1. ASSUME <<x, y>> \in before
          PROVE  x \in rows /\ y \in rows /\ (TextBefore(y.at, x.at) \/ (x.at = y.at /\ x.id < y.id))
      BY <3>1 DEF NewestFirst
    <3>2. ASSUME x \in rows, y \in rows, TextBefore(y.at, x.at) \/ (x.at = y.at /\ x.id < y.id)
          PROVE  <<x, y>> \in before
      <4>1. PICK p \in rows \X rows : p = <<x, y>>
        BY <3>2
      <4>2. p[1] = x /\ p[2] = y
        BY <4>1
      <4>3. p \in before
        BY <3>2, <4>2 DEF NewestFirst
      <4> QED BY <4>1, <4>3
    <3> QED BY <3>1, <3>2
  <2> HIDE DEF before
  <2>4. \A x \in rows : <<x, x>> \notin before
    BY <2>1, <2>3, TextBeforeIrreflexive
  <2>5. \A x, y, z \in rows : <<x, y>> \in before /\ <<y, z>> \in before => <<x, z>> \in before
    BY <2>1, <2>3, TextBeforeTransitive
  <2>6. \A x, y \in rows : x = y \/ <<x, y>> \in before \/ <<y, x>> \in before
    <3> SUFFICES ASSUME NEW x \in rows, NEW y \in rows, x # y PROVE <<x, y>> \in before \/ <<y, x>> \in before
      OBVIOUS
    <3>1. x.at = y.at \/ TextBefore(x.at, y.at) \/ TextBefore(y.at, x.at)
      BY <2>1, TextBeforeTotal
    <3>2. x.id < y.id \/ y.id < x.id
      BY <2>1
    <3> QED BY <2>3, <3>1, <3>2
  <2>7. /\ sorted \in [1 .. n -> rows]
        /\ \A x \in rows : \E k \in 1 .. n : sorted[k] = x
        /\ \A i, j \in 1 .. n : i < j => <<sorted[i], sorted[j]>> \in before
    BY <2>1, <2>4, <2>5, <2>6, OrderedSorts
  <2> HIDE DEF sorted, n
  <2>8. sorted \in Seq(rows) /\ Len(sorted) = n
    BY <2>2, <2>7
  <2>9. outcome.recent = SubSeq(sorted, 1, m) /\ outcome.input = Reverse(outcome.recent)
    <3>1. outcome = ListedAndKept(input)
      BY DEF Computed, IsAnswer
    <3>2. outcome.recent = ListRecentEvents(rows, input.limit) /\ outcome.input = DetectionInput(rows, input.limit)
      BY <3>1 DEF ListedAndKept
    <3>3. ListRecentEvents(rows, input.limit) = SubSeq(sorted, 1, IF input.limit < Len(sorted) THEN input.limit ELSE Len(sorted))
      BY DEF ListRecentEvents, sorted, before
    <3> QED BY <2>8, <3>2, <3>3 DEF DetectionInput
  <2>10. m \in 0 .. n /\ m <= input.limit /\ (m < input.limit => m = n)
    BY <2>1, <2>2
  <2> HIDE DEF m
  <2>11. /\ recent \in Seq(rows) /\ Len(recent) = m /\ DOMAIN recent = 1 .. m
         /\ \A i \in 1 .. m : recent[i] = sorted[i] /\ i \in 1 .. n
    <3>1. recent = SubSeq(sorted, 1, m) /\ sorted \in Seq(rows) /\ 1 \in 1 .. n + 1 /\ m \in 1 - 1 .. Len(sorted)
      BY <2>2, <2>8, <2>9, <2>10
    <3> HIDE DEF recent
    <3>2. m \in 0 .. Len(sorted)
      BY <2>8, <2>10
    <3>3. recent \in Seq(rows) /\ Len(recent) = m /\ \A i \in 1 .. m : recent[i] = sorted[i]
      BY <2>8, <3>1, <3>2, FirstOnes
    <3> QED BY <2>2, <2>10, <3>3
  <2>12. \A i, j \in 1 .. n : i < j => sorted[i].at.second >= sorted[j].at.second
    <3> SUFFICES ASSUME NEW i \in 1 .. n, NEW j \in 1 .. n, i < j
                 PROVE  sorted[i].at.second >= sorted[j].at.second
      OBVIOUS
    <3>1. TextBefore(sorted[j].at, sorted[i].at) \/ sorted[i].at = sorted[j].at
      BY <2>3, <2>7
    <3>2. sorted[i].at.second \in Nat /\ sorted[j].at.second \in Nat
      BY <2>1, <2>7 DEF Time
    <3> QED BY <3>1, <3>2 DEF TextBefore
  <2>13. Range(recent) = {sorted[i] : i \in 1 .. m}
    BY <2>11 DEF Range
  <2>14. Range(recent) \subseteq rows
    BY <2>7, <2>11, <2>13
  <2>15. m < input.limit => Range(recent) = rows
    BY <2>7, <2>10, <2>13, <2>14
  <2>16. \A i, j \in 1 .. m : i < j => recent[i].at.second >= recent[j].at.second
    BY <2>11, <2>12
  <2>17. \A r \in rows \ Range(recent), s \in Range(recent) : r.at.second <= s.at.second
    <3> SUFFICES ASSUME NEW r \in rows \ Range(recent), NEW s \in Range(recent) PROVE r.at.second <= s.at.second
      OBVIOUS
    <3>1. PICK i \in 1 .. m : s = sorted[i]
      BY <2>13
    <3>2. PICK j \in 1 .. n : r = sorted[j]
      BY <2>7
    <3>3. j \notin 1 .. m
      BY <2>13, <3>2
    <3>4. i \in 1 .. n /\ i < j
      BY <2>2, <2>10, <3>1, <3>2, <3>3
    <3>5. sorted[i].at.second >= sorted[j].at.second
      BY <2>12, <3>2, <3>4
    <3>6. r.at.second \in Nat /\ s.at.second \in Nat
      BY <2>1, <2>14 DEF Time
    <3> QED BY <3>1, <3>2, <3>5, <3>6
  <2>18. /\ Len(outcome.input) = m /\ DOMAIN outcome.input = 1 .. m
         /\ \A i \in 1 .. m : outcome.input[i] = recent[(m - i) + 1] /\ (m - i) + 1 \in 1 .. m
    <3> HIDE DEF recent
    <3>1. outcome.input = [i \in 1 .. m |-> recent[(m - i) + 1]]
      BY <2>9, <2>11 DEF Reverse, recent
    <3>2. outcome.input \in Seq(rows)
      <4>1. \A i \in 1 .. m : recent[(m - i) + 1] \in rows
        BY <2>2, <2>10, <2>11
      <4> QED BY <2>2, <2>10, <3>1, <4>1
    <3> QED BY <2>2, <2>10, <3>1, <3>2
  <2>19. \A i, j \in 1 .. m : i < j => outcome.input[i].at.second <= outcome.input[j].at.second
    <3> SUFFICES ASSUME NEW i \in 1 .. m, NEW j \in 1 .. m, i < j
                 PROVE  outcome.input[i].at.second <= outcome.input[j].at.second
      OBVIOUS
    <3>1. recent[(m - j) + 1].at.second >= recent[(m - i) + 1].at.second
      BY <2>10, <2>16, <2>18
    <3>2. recent[(m - j) + 1] \in rows /\ recent[(m - i) + 1] \in rows
      <4>1. \A k \in 1 .. m : recent[k] \in rows
        BY <2>11
      <4> HIDE DEF recent
      <4> QED BY <2>18, <4>1
    <3>3. recent[(m - j) + 1].at.second \in Nat /\ recent[(m - i) + 1].at.second \in Nat
      BY <2>1, <3>2 DEF Time
    <3> QED BY <2>18, <3>1, <3>3
  <2> HIDE DEF recent
  <2> QED BY <2>10, <2>11, <2>14, <2>15, <2>16, <2>17, <2>18, <2>19 DEF ListedInOrderOfSeconds, recent
<1> QED BY <1>1, OutcomeIsComputed, PTL

(* store.rs delete_expired_events: whatever the times, a sweep takes away no row        *)
(* before the second it expires in, and leaves none after it.                             *)
THEOREM ExpirySound == Spec => []ExpiryWithinASecond
<1>1. Given /\ Computed => ExpiryWithinASecond
  <2> SUFFICES ASSUME Given, Computed, done, input.kind = "table", NEW now \in Times, NEW r \in input.rows
      PROVE /\ r.expires = NoTime => r \in outcome.kept[now]
            /\ r.expires # NoTime /\ r.expires.second < now.second => r \notin outcome.kept[now]
            /\ r.expires.second > now.second => r \in outcome.kept[now]
    BY DEF ExpiryWithinASecond
  <2>1. outcome.kept[now] = DeleteExpiredEvents(input.rows, now)
    BY DEF Computed, IsAnswer, ListedAndKept
  <2>2. now.second \in Nat
    BY TimesAssumption DEF Time
  <2>3. r.expires.second \in Int
    BY TablesAssumption DEF Given, IsTable, Time, NoTime
  <2> QED BY <2>1, <2>2, <2>3 DEF DeleteExpiredEvents, TextBefore
<1> QED BY <1>1, OutcomeIsComputed, PTL

-----------------------------------------------------------------------------
(* Provider clients *)

(* llm-provider complete: for answers of any number of parts, what is handed on is a    *)
(* text of a successful answer, and the three clients agree on what is a failure.         *)
THEOREM CompletionsSound == Spec => []CompletionsAreAnswers
<1>1. Given /\ Computed => CompletionsAreAnswers
  <2> SUFFICES ASSUME Given, Computed, done, input.kind = "exchange" PROVE CompletionsAreAnswers
    BY DEF CompletionsAreAnswers
  <2> DEFINE e == input.exchange
             n == Len(e.parts)
             texts == {i \in DOMAIN e.parts : e.parts[i].type = "text" /\ e.parts[i].text # NoText}
             Right(text) == \/ text = NoText /\ ~(n = 1 /\ texts # {})
                            \/ \E i \in texts : text = e.parts[i].text
  <2>1. /\ IsExchange(input) /\ e.parts \in Seq([type : STRING, text : STRING])
        /\ n \in Nat /\ DOMAIN e.parts = 1 .. n
    BY ExchangesAssumption DEF Given, IsExchange
  <2>2. outcome = Complete(input.client, e)
    BY DEF Computed, IsAnswer
  <2>3. ASSUME NEW text, Right(text), outcome = Exchanged(e, text) PROVE CompletionsAreAnswers
    BY <2>3 DEF CompletionsAreAnswers, Exchanged, Failure, Completion
  <2>4. CASE input.client = "ollama"
    <3>1. Right(Head(e.parts).text)
      <4>1. n = 1 /\ \A i \in DOMAIN e.parts : i \in texts
        BY <2>1, <2>4 DEF IsExchange
      <4>2. 1 \in texts
        BY <2>1, <4>1
      <4>3. Head(e.parts) = e.parts[1]
        BY <2>1, <4>1
      <4> HIDE DEF texts
      <4> QED BY <4>2, <4>3
    <3>2. outcome = Exchanged(e, Head(e.parts).text)
      BY <2>2, <2>4 DEF Complete, OllamaComplete
    <3> QED BY <2>3, <3>1, <3>2
  <2>5. CASE input.client = "openai"
    <3> DEFINE text == IF e.parts = <<>> THEN NoText ELSE Last(e.parts).text
    <3>1. Right(text)
      <4>1. CASE e.parts = <<>>
        BY <2>1, <4>1
      <4>2. CASE e.parts # <<>>
        <5>1. n \in texts /\ Last(e.parts) = e.parts[n]
          BY <2>1, <2>5, <4>2 DEF IsExchange, Last
        <5> QED BY <5>1, <4>2
      <4> QED BY <4>1, <4>2
    <3>2. outcome = Exchanged(e, text)
      BY <2>2, <2>5 DEF Complete, OpenAiComplete
    <3> QED BY <2>3, <3>1, <3>2
  <2>6. CASE input.client = "anthropic"
    <3> DEFINE blocks == {i \in DOMAIN e.parts : e.parts[i].type = "text"}
               text == IF blocks = {} THEN NoText ELSE e.parts[Min(blocks)].text
    <3>1. Right(text)
      <4>1. CASE blocks = {}
        BY <4>1
      <4>2. CASE blocks # {}
        <5>1. Min(blocks) \in blocks
          <6>1. blocks \in SUBSET Nat
            BY <2>1
          <6> QED BY <4>2, <6>1, MinIsLeast
        <5>2. CASE e.parts[Min(blocks)].text = NoText
          <6>1. n = 1 => DOMAIN e.parts = {1}
            BY <2>1
          <6>2. n = 1 => texts = {}
            BY <5>1, <5>2, <6>1
          <6> QED BY <4>2, <5>2, <6>2
        <5>3. CASE e.parts[Min(blocks)].text # NoText
          <6>1. Min(blocks) \in texts
            BY <5>1, <5>3
          <6> QED BY <4>2, <6>1
        <5> QED BY <5>2, <5>3
      <4> QED BY <4>1, <4>2
    <3>2. outcome = Exchanged(e, text)
      BY <2>2, <2>6 DEF Complete, AnthropicComplete
    <3> QED BY <2>3, <3>1, <3>2
  <2> QED BY <2>1, <2>4, <2>5, <2>6 DEF IsExchange
<1> QED BY <1>1, OutcomeIsComputed, PTL

-----------------------------------------------------------------------------
(* Card numbers *)

(* Of a card number with a stray digit the window that is found is the longest that is  *)
(* valid, so it is one of the three that hold all of the number but one digit.             *)
LEMMA WindowOnCard ==
  ASSUME NEW c, IsCardNumber(c)
  PROVE  \E from, to \in Int : /\ FindLuhnValidWindow(c.digits) = {<<from, to>>}
                               /\ from <= 2 /\ c.length <= to
<1> DEFINE d == c.digits
           n == c.length
           maxLen == Min({Len(d), 19})
           minLen == Max({maxLen - 1, 13})
           valid(k) == {s \in 1 .. (Len(d) - k + 1) : LuhnValid(SubSeq(d, s, s + k - 1))}
           lengths == {k \in minLen .. maxLen : valid(k) # {}}
           longest == Max(lengths)
           first == Min(valid(longest))
<1>1. n \in 13 .. 18 /\ Len(d) = n + 1
  BY DEF IsCardNumber
<1>2. maxLen = n + 1
  <2>1. {Len(d), 19} \in SUBSET Nat /\ {Len(d), 19} # {}
    BY <1>1
  <2> QED BY <1>1, <2>1, MinIsLeast
<1>3. minLen = n
  <2> DEFINE both == {maxLen - 1, 13}
  <2>1. both \in SUBSET Int /\ both # {} /\ \E b \in Int : \A t \in both : t <= b
    <3>1. both \in SUBSET Int /\ both # {} /\ \A t \in both : t <= 18
      BY <1>1, <1>2
    <3> QED BY <3>1
  <2>2. Max(both) \in both /\ \A t \in both : t <= Max(both)
    <3> HIDE DEF both
    <3> QED BY <2>1, MaxIsGreatest
  <2> QED BY <1>1, <1>2, <2>2
<1> HIDE DEF maxLen, minLen
<1>4. valid(n) # {}
  <2>1. CASE c.before
    <3>1. LuhnValid(SubSeq(d, 2, 2 + n - 1))
      <4>1. 2 + n - 1 = n + 1
        BY <1>1
      <4> QED BY <2>1, <4>1 DEF IsCardNumber
    <3>2. 2 \in 1 .. (Len(d) - n + 1)
      BY <1>1
    <3> QED BY <3>1, <3>2
  <2>2. CASE ~c.before
    <3>1. LuhnValid(SubSeq(d, 1, 1 + n - 1))
      <4>1. 1 + n - 1 = n
        BY <1>1
      <4> QED BY <2>2, <4>1 DEF IsCardNumber
    <3>2. 1 \in 1 .. (Len(d) - n + 1)
      BY <1>1
    <3> QED BY <3>1, <3>2
  <2> QED BY <2>1, <2>2
<1> HIDE DEF valid
<1>5. longest \in {n, n + 1} /\ valid(longest) # {} /\ lengths # {}
  <2>1. n \in lengths /\ \A k \in lengths : k \in {n, n + 1} /\ valid(k) # {}
    BY <1>1, <1>2, <1>3, <1>4
  <2> HIDE DEF lengths
  <2>2. lengths \in SUBSET Int /\ \E b \in Int : \A k \in lengths : k <= b
    <3>1. lengths \in SUBSET Int /\ \A k \in lengths : k <= n + 1
      BY <1>1, <2>1
    <3>2. n + 1 \in Int
      BY <1>1
    <3> QED BY <3>1, <3>2
  <2>3. longest \in lengths
    BY <2>1, <2>2, MaxIsGreatest
  <2> QED BY <2>1, <2>3
<1> HIDE DEF longest
<1>6. first \in 1 .. (n + 1 - longest + 1)
  <2>1. valid(longest) \subseteq 1 .. (n + 1 - longest + 1)
    BY <1>1, <1>5, SMTT(20) DEF valid
  <2>2. valid(longest) \in SUBSET Nat
    BY <1>1, <1>5, <2>1
  <2>3. first \in valid(longest)
    BY <1>5, <2>2, MinIsLeast
  <2> QED BY <2>1, <2>3
<1>7. FindLuhnValidWindow(d) = {<<first, first + longest - 1>>}
  <2>1. ~(Len(d) < 13)
    BY <1>1
  <2> QED BY <1>5, <2>1 DEF FindLuhnValidWindow, maxLen, minLen, valid, longest
<1> HIDE DEF first, lengths
<1>8. first \in Int /\ first + longest - 1 \in Int /\ first <= 2 /\ n <= first + longest - 1
  BY <1>1, <1>5, <1>6
<1> QED BY <1>7, <1>8

(* detectors.rs find_luhn_valid_window: whatever the digits of a card number and the     *)
(* stray one beside it, no more than one digit of the number is left standing.             *)
THEOREM StrayDigitSound == Spec => []StrayDigitDoesNotHideCard
<1>1. Given /\ Computed => StrayDigitDoesNotHideCard
  <2> SUFFICES ASSUME Given, Computed, done, input.kind = "card" PROVE StrayDigitDoesNotHideCard
    BY DEF StrayDigitDoesNotHideCard
  <2> DEFINE n == input.length
             card == IF input.before THEN 2 .. n + 1 ELSE 1 .. n
  <2>1. IsCardNumber(input) /\ n \in 13 .. 18
    BY CardNumbersAssumption DEF Given, IsCardNumber
  <2>2. PICK from, to \in Int : outcome = {<<from, to>>} /\ from <= 2 /\ n <= to
    BY <2>1, WindowOnCard DEF Computed, IsAnswer
  <2>3. Cardinality(outcome) = 1
    BY <2>2, FS_Singleton
  <2>4. Cardinality((from .. to) \cap card) >= n - 1
    <3>1. (2 .. n) \subseteq (from .. to) \cap card
      BY <2>1, <2>2
    <3>2. IsFiniteSet(from .. to) /\ IsFiniteSet((from .. to) \cap card)
      BY <2>2, FS_Interval, FS_Intersection
    <3>3. Cardinality(2 .. n) = n - 1
      <4>1. 2 \in Int /\ n \in Int /\ n > 2
        BY <2>1
      <4> HIDE DEF n
      <4>2. Cardinality(2 .. n) = IF 2 > n THEN 0 ELSE n - 2 + 1
        BY ONLY <4>1, FS_Interval
      <4> QED BY <4>1, <4>2
    <3>4. Cardinality(2 .. n) <= Cardinality((from .. to) \cap card)
      <4> HIDE DEF card
      <4> QED BY <3>1, <3>2, FS_Subset
    <3> QED BY <3>3, <3>4
  <2>5. \A w \in outcome : w[1] = from /\ w[2] = to
    BY <2>2
  <2> QED BY <2>3, <2>4, <2>5 DEF StrayDigitDoesNotHideCard
<1> QED BY <1>1, OutcomeIsComputed, PTL

-----------------------------------------------------------------------------
(* Synthesis *)

LEMMA WordValues ==
  ASSUME NEW phrase \in Seq(Word), NEW i \in DOMAIN phrase
  PROVE  /\ phrase[i].kind \in {"tens", "ones", "onceOrTwice"} => phrase[i].value \in Nat
         /\ phrase[i].kind = "numeral" => phrase[i].value \in Nat \cup {TooLarge}
<1>1. phrase[i] \in Word
  OBVIOUS
<1> QED BY <1>1 DEF Word

(* The mentions that are read one kind after the other, without reading a word twice,    *)
(* are the counts the phrase states.                                                        *)
LEMMA MentionedIsStated ==
  ASSUME NEW phrase \in Seq(Word), NEW m \in MentionedCounts(phrase)
  PROVE  m.value \in StatedCounts(phrase)
<1> USE DEF Keywords, Kind, Mention, TooLarge
<1>1. Len(phrase) \in Nat /\ DOMAIN phrase = 1 .. Len(phrase)
  OBVIOUS
<1>2. ASSUME NEW k \in Keywords(phrase), k > 1, phrase[k - 1].kind \in {"numeral", "tens", "ones"},
             m.value = NumberBefore(phrase, k), m.value # TooLarge
      PROVE  m.value \in StatedCounts(phrase)
  <2>1. k \in DOMAIN phrase \ {1} /\ phrase[k].kind = "keyword"
    BY <1>2
  <2> QED BY <1>2, <2>1 DEF StatedCounts
<1>3. CASE m \in Numerals(phrase)
  <2>1. PICK k \in Keywords(phrase) : /\ k > 1 /\ phrase[k - 1].kind = "numeral" /\ phrase[k - 1].value # TooLarge
                                      /\ m.value = phrase[k - 1].value
    BY <1>3 DEF Numerals
  <2> QED BY <1>2, <2>1 DEF NumberBefore
<1>4. CASE m \in Compounds(phrase)
  <2>1. PICK k \in Keywords(phrase) : /\ k > 2 /\ phrase[k - 2].kind = "tens" /\ phrase[k - 1].kind = "ones"
                                      /\ phrase[k - 1].value < 10
                                      /\ m.value = phrase[k - 2].value + phrase[k - 1].value
    BY <1>4 DEF Compounds
  <2>2. k - 1 \in DOMAIN phrase /\ k - 2 \in DOMAIN phrase /\ k > 1
    BY <1>1, <2>1
  <2>3. m.value # TooLarge
    <3>1. phrase[k - 2].value \in Nat /\ phrase[k - 1].value \in Nat
      BY <2>1, <2>2, WordValues
    <3>2. m.value = phrase[k - 2].value + phrase[k - 1].value
      BY <2>1
    <3> QED BY ONLY <3>1, <3>2 DEF TooLarge
  <2>4. m.value = NumberBefore(phrase, k)
    BY <2>1 DEF NumberBefore
  <2> QED BY <1>2, <2>1, <2>2, <2>3, <2>4
<1>5. CASE m \in Singles(phrase, Numerals(phrase) \cup Compounds(phrase))
  <2>1. PICK k \in Keywords(phrase) : /\ k > 1 /\ phrase[k - 1].kind \in {"tens", "ones"}
                                      /\ m = Mention(k - 1, k, phrase[k - 1].value)
    BY <1>5 DEF Singles
  <2>2. ~(k > 2 /\ phrase[k - 2].kind = "tens" /\ phrase[k - 1].kind = "ones" /\ phrase[k - 1].value < 10)
    <3> SUFFICES ASSUME k > 2, phrase[k - 2].kind = "tens", phrase[k - 1].kind = "ones", phrase[k - 1].value < 10
        PROVE FALSE
      OBVIOUS
    <3> DEFINE r == Mention(k - 2, k, phrase[k - 2].value + phrase[k - 1].value)
    <3>1. r \in Compounds(phrase)
      BY DEF Compounds
    <3>2. m.from >= r.from /\ m.to <= r.to
      BY <1>1, <2>1
    <3> QED BY <1>5, <3>1, <3>2 DEF Singles
  <2>3. m.value = NumberBefore(phrase, k)
    BY <2>1, <2>2 DEF NumberBefore
  <2>4. k - 1 \in DOMAIN phrase
    BY <1>1, <2>1
  <2>5. m.value # TooLarge
    BY <2>1, <2>4, WordValues
  <2> QED BY <1>2, <2>1, <2>3, <2>5
<1>6. CASE m \in OnceOrTwice(phrase)
  <2>1. PICK i \in DOMAIN phrase : phrase[i].kind = "onceOrTwice" /\ m.value = phrase[i].value
    BY <1>6 DEF OnceOrTwice
  <2>2. m.value # TooLarge
    BY <2>1, WordValues
  <2> QED BY <2>1, <2>2 DEF StatedCounts
<1> QED BY <1>3, <1>4, <1>5, <1>6 DEF MentionedCounts

LEMMA StatedIsMentioned ==
  ASSUME NEW phrase \in Seq(Word), NEW n \in StatedCounts(phrase)
  PROVE  \E m \in MentionedCounts(phrase) : m.value = n
<1> USE DEF Keywords, Kind, Mention
<1>1. Len(phrase) \in Nat /\ DOMAIN phrase = 1 .. Len(phrase)
  OBVIOUS
<1>2. CASE \E i \in DOMAIN phrase : phrase[i].kind = "onceOrTwice" /\ n = phrase[i].value
  <2>1. PICK i \in DOMAIN phrase : phrase[i].kind = "onceOrTwice" /\ n = phrase[i].value
    BY <1>2
  <2>2. Mention(i, i, n) \in OnceOrTwice(phrase)
    BY <2>1 DEF OnceOrTwice
  <2> QED BY <2>2 DEF MentionedCounts
<1>3. ASSUME NEW k \in DOMAIN phrase, k # 1, phrase[k].kind = "keyword",
             phrase[k - 1].kind \in {"numeral", "tens", "ones"}, n = NumberBefore(phrase, k), n # TooLarge
      PROVE  \E m \in MentionedCounts(phrase) : m.value = n
  <2>1. k \in Keywords(phrase) /\ k > 1 /\ k - 1 \in DOMAIN phrase
    BY <1>1, <1>3
  <2>2. CASE phrase[k - 1].kind = "numeral"
    <3>1. n = phrase[k - 1].value
      BY <1>3, <2>2 DEF NumberBefore
    <3>2. Mention(k - 1, k, n) \in Numerals(phrase)
      BY <1>3, <2>1, <2>2, <3>1 DEF Numerals
    <3> QED BY <3>2 DEF MentionedCounts
  <2> DEFINE compound == k > 2 /\ phrase[k - 2].kind = "tens" /\ phrase[k - 1].kind = "ones" /\ phrase[k - 1].value < 10
  <2>3. CASE compound
    <3>1. n = phrase[k - 2].value + phrase[k - 1].value
      BY <1>3, <2>3 DEF NumberBefore
    <3>2. Mention(k - 2, k, n) \in Compounds(phrase)
      BY <2>1, <2>3, <3>1 DEF Compounds
    <3> QED BY <3>2 DEF MentionedCounts
  <2>4. CASE phrase[k - 1].kind \in {"tens", "ones"} /\ ~compound
    <3> DEFINE m == Mention(k - 1, k, n)
    <3>1. n = phrase[k - 1].value
      BY <1>3, <2>4 DEF NumberBefore
    <3>2. ASSUME NEW r \in Numerals(phrase), m.from >= r.from, m.to <= r.to PROVE FALSE
      <4>1. PICK j \in Keywords(phrase) : j > 1 /\ phrase[j - 1].kind = "numeral" /\ r.from = j - 1 /\ r.to = j
        BY DEF Numerals
      <4>2. j = k
        BY <1>1, <3>2, <4>1
      <4> QED BY <2>4, <4>1, <4>2
    <3>3. ASSUME NEW r \in Compounds(phrase), m.from >= r.from, m.to <= r.to PROVE FALSE
      <4>1. PICK j \in Keywords(phrase) : /\ j > 2 /\ phrase[j - 2].kind = "tens" /\ phrase[j - 1].kind = "ones"
                                          /\ phrase[j - 1].value < 10 /\ r.from = j - 2 /\ r.to = j
        BY DEF Compounds
      <4>2. j = k \/ j = k + 1
        BY <1>1, <3>3, <4>1
      <4>3. CASE j = k + 1
        BY <1>1, <1>3, <4>1, <4>3
      <4>4. CASE j = k
        BY <2>4, <4>1, <4>4
      <4> QED BY <4>2, <4>3, <4>4
    <3>4. m \in Singles(phrase, Numerals(phrase) \cup Compounds(phrase))
      BY <2>1, <2>4, <3>1, <3>2, <3>3 DEF Singles
    <3> QED BY <3>4 DEF MentionedCounts
  <2> QED BY <1>3, <2>2, <2>3, <2>4
<1>4. \/ \E i \in DOMAIN phrase : phrase[i].kind = "onceOrTwice" /\ n = phrase[i].value
      \/ \E k \in DOMAIN phrase \ {1} : /\ phrase[k].kind = "keyword" /\ phrase[k - 1].kind \in {"numeral", "tens", "ones"}
                                       /\ n = NumberBefore(phrase, k) /\ n # TooLarge
  BY DEF StatedCounts
<1> QED BY <1>2, <1>3, <1>4

(* contradicts_occurrence_count turns a text down exactly if it states another count.     *)
LEMMA ContradictionIsStated ==
  ASSUME NEW phrase \in Seq(Word), NEW count
  PROVE  ContradictsOccurrenceCount(phrase, count) <=> ~(StatedCounts(phrase) \subseteq {count})
BY MentionedIsStated, StatedIsMentioned DEF ContradictsOccurrenceCount

(* synthesizer.rs and validate.rs: whatever a provider answers, in words or numerals,    *)
(* the first honest answer is the one that is accepted, and no other.                      *)
THEOREM HonestSound == Spec => []OnlyHonestCountsAccepted
<1>1. Given /\ Computed => OnlyHonestCountsAccepted
  <2> SUFFICES ASSUME Given, Computed, done, input.kind = "responses" PROVE OnlyHonestCountsAccepted
    BY DEF OnlyHonestCountsAccepted
  <2> DEFINE response(i) == input.responses[i]
             wellFormed(r) == r.object /\ r.shaped /\ r.known /\ r.confidence \in 0 .. 100
             honest(r) == \A f \in TextFields : StatedCounts(r.texts[f]) \subseteq {input.detected.count}
             n == Len(input.responses)
             most == Max({input.maxAttempts, 1})
             attempts == Min({most, n})
             ends == {i \in 1 .. attempts : response(i).failed \/ Accepts(response(i), input.detected)}
             last == response(outcome.attempts)
  <2>1. /\ IsConversation(input) /\ input.maxAttempts \in Nat
        /\ n \in Nat \ {0} /\ DOMAIN input.responses = 1 .. n
        /\ \A i \in 1 .. n : response(i) \in Response
    BY ConversationsAssumption DEF Given, IsConversation
  <2>2. outcome = Synthesize(input.responses, input.detected, input.maxAttempts)
    BY DEF Computed, IsAnswer, Synthesized
  <2>3. \A i \in 1 .. n : Accepts(response(i), input.detected) <=> wellFormed(response(i)) /\ honest(response(i))
    <3> SUFFICES ASSUME NEW i \in 1 .. n
                 PROVE  Accepts(response(i), input.detected) <=> wellFormed(response(i)) /\ honest(response(i))
      OBVIOUS
    <3>1. \A f \in TextFields : response(i).texts[f] \in Seq(Word)
      BY <2>1 DEF Response
    <3>2. \A f \in TextFields : ~ContradictsOccurrenceCount(response(i).texts[f], input.detected.count)
                              <=> StatedCounts(response(i).texts[f]) \subseteq {input.detected.count}
      BY <3>1, ContradictionIsStated
    <3> QED BY <3>2 DEF Accepts
  <2>4. attempts \in 1 .. n /\ (attempts <= input.maxAttempts \/ attempts = 1)
    <3>1. most \in {input.maxAttempts, 1} /\ input.maxAttempts <= most /\ 1 <= most
      <4> DEFINE both == {input.maxAttempts, 1}
      <4>1. both \in SUBSET Int /\ both # {} /\ \A t \in both : t <= input.maxAttempts + 1
        BY <2>1
      <4>2. input.maxAttempts + 1 \in Int /\ input.maxAttempts \in both /\ 1 \in both
        BY <2>1
      <4> HIDE DEF both
      <4>3. Max(both) \in both /\ \A t \in both : t <= Max(both)
        BY <4>1, <4>2, MaxIsGreatest
      <4> QED BY <4>2, <4>3 DEF both
    <3> HIDE DEF most
    <3>2. {most, n} \in SUBSET Nat /\ {most, n} # {}
      BY <2>1, <3>1
    <3>3. attempts \in {most, n} /\ attempts <= most /\ attempts <= n
      BY <3>2, MinIsLeast
    <3> QED BY <2>1, <3>1, <3>3
  <2>5. outcome = IF ends = {} THEN [result |-> "exhausted", attempts |-> attempts]
                  ELSE IF response(Min(ends)).failed THEN [result |-> "provider", attempts |-> Min(ends)]
                  ELSE [result |-> "accepted", attempts |-> Min(ends),
                        made |-> Recommendation(response(Min(ends)), input.detected)]
    BY <2>2 DEF Synthesize
  <2> HIDE DEF attempts
  <2>6. \A i \in 1 .. n : response(i).failed \in BOOLEAN
    BY <2>1 DEF Response
  <2>7. CASE ends = {}
    <3>1. outcome.result = "exhausted" /\ outcome.attempts = attempts
      BY <2>5, <2>7
    <3>2. \A i \in 1 .. attempts : ~response(i).failed /\ ~(wellFormed(response(i)) /\ honest(response(i)))
      <4>1. \A i \in 1 .. attempts : i \in 1 .. n /\ ~response(i).failed /\ ~Accepts(response(i), input.detected)
        BY <2>1, <2>4, <2>7
      <4> HIDE DEF wellFormed, honest, ends
      <4> QED BY <2>3, <4>1
    <3>3. \A i \in 1 .. (attempts - 1) : i \in 1 .. attempts
      BY <2>4
    <3>4. attempts \in 1 .. attempts
      BY <2>4
    <3> HIDE DEF wellFormed, honest
    <3> QED BY <2>1, <2>4, <3>1, <3>2, <3>3, <3>4 DEF OnlyHonestCountsAccepted, wellFormed, honest
  <2>8. CASE ends # {}
    <3>1. ends \in SUBSET Nat
      BY <2>4
    <3>2. Min(ends) \in ends /\ \A i \in ends : Min(ends) <= i
      BY <2>8, <3>1, MinIsLeast
    <3> DEFINE first == Min(ends)
    <3> HIDE DEF first
    <3>3. first \in 1 .. attempts /\ first \in 1 .. n /\ (response(first).failed \/ Accepts(response(first), input.detected))
      BY <2>4, <3>2 DEF first
    <3>4. \A i \in 1 .. (first - 1) : ~response(i).failed /\ ~Accepts(response(i), input.detected)
      <4>1. \A i \in 1 .. (first - 1) : i \in 1 .. attempts /\ ~(first <= i)
        BY <2>4, <3>3
      <4> QED BY <3>2, <4>1 DEF first
    <3>5. \A i \in 1 .. (first - 1) : i \in 1 .. n
      BY <2>4, <3>3
    <3>6. outcome.attempts = first
      BY <2>5, <2>8 DEF first
    <3>7. first <= input.maxAttempts \/ first = 1
      BY <2>1, <2>4, <3>3
    <3>8. CASE response(first).failed
      <4>1. outcome.result = "provider"
        BY <2>5, <2>8, <3>8 DEF first
      <4> HIDE DEF ends
      <4> QED BY <2>1, <2>3, <3>3, <3>4, <3>5, <3>6, <3>7, <3>8, <4>1 DEF OnlyHonestCountsAccepted
    <3>9. CASE ~response(first).failed
      <4>1. outcome.result = "accepted" /\ outcome.made = Recommendation(response(first), input.detected)
        BY <2>5, <2>8, <3>9 DEF first
      <4>2. wellFormed(response(first)) /\ honest(response(first))
        BY <2>3, <3>3, <3>9
      <4>3. /\ outcome.made.timeSaved = input.detected.minutes * input.detected.count
            /\ outcome.made.texts = response(first).texts
        BY <4>1 DEF Recommendation
      <4>4. outcome.result # "provider" /\ outcome.result # "exhausted"
        BY <4>1
      <4>5. \A i \in 1 .. (first - 1) : ~response(i).failed /\ ~(wellFormed(response(i)) /\ honest(response(i)))
        <5> HIDE DEF wellFormed, honest
        <5> QED BY <2>3, <3>4, <3>5
      <4> HIDE DEF ends, wellFormed, honest
      <4> QED BY <2>1, <3>3, <3>6, <3>7, <3>9, <4>2, <4>3, <4>4, <4>5 DEF OnlyHonestCountsAccepted, wellFormed, honest
    <3> QED BY <3>8, <3>9
  <2> QED BY <2>7, <2>8
<1> QED BY <1>1, OutcomeIsComputed, PTL

-----------------------------------------------------------------------------
(* The object in an answer *)

Scans == [depth : Int, inString : BOOLEAN, escaped : BOOLEAN, end : Nat]

LEMMA ScanStays ==
  ASSUME NEW scan \in Scans, NEW c, NEW i \in Nat
  PROVE  /\ Scan(scan, c, i) \in Scans
         /\ scan.end # 0 => Scan(scan, c, i) = scan
<1>1. CASE scan.end # 0
  BY <1>1 DEF Scan
<1>2. CASE scan.end = 0 /\ scan.inString
  <2> DEFINE escaped == ~scan.escaped /\ c = Backslash
             inString == scan.escaped \/ c # Quote
  <2>1. Scan(scan, c, i) = [scan EXCEPT !.escaped = escaped, !.inString = inString]
    BY <1>2 DEF Scan
  <2>2. escaped \in BOOLEAN /\ inString \in BOOLEAN
    OBVIOUS
  <2> HIDE DEF escaped, inString
  <2> QED BY <1>2, <2>1, <2>2 DEF Scans
<1>3. CASE scan.end = 0 /\ ~scan.inString
  <2>1. CASE c = Quote
    <3>1. Scan(scan, c, i) = [scan EXCEPT !.inString = TRUE]
      BY <1>3, <2>1 DEF Scan
    <3> QED BY <1>3, <3>1 DEF Scans
  <2>2. CASE c # Quote /\ c = Open
    <3>1. Scan(scan, c, i) = [scan EXCEPT !.depth = @ + 1]
      BY <1>3, <2>2 DEF Scan
    <3> QED BY <1>3, <3>1 DEF Scans
  <2>3. CASE c # Quote /\ c # Open /\ c = Close
    <3> DEFINE end == IF scan.depth = 1 THEN i ELSE 0
    <3>1. Scan(scan, c, i) = [scan EXCEPT !.depth = @ - 1, !.end = end]
      BY <1>3, <2>3 DEF Scan
    <3>2. end \in Nat
      OBVIOUS
    <3> DEFINE depth == scan.depth - 1
    <3>3. Scan(scan, c, i) = [scan EXCEPT !.depth = depth, !.end = end] /\ depth \in Int
      BY <3>1 DEF Scans
    <3> HIDE DEF end, depth
    <3>4. [scan EXCEPT !.depth = depth, !.end = end] \in Scans
      BY <3>2, <3>3 DEF Scans
    <3> QED BY <1>3, <3>3, <3>4
  <2>4. CASE c # Quote /\ c # Open /\ c # Close
    BY <1>3, <2>4 DEF Scan
  <2> QED BY <2>1, <2>2, <2>3, <2>4
<1>4. scan.end = 0 \/ scan.end # 0
  OBVIOUS
<1> QED BY <1>1, <1>2, <1>3, <1>4 DEF Scans

(* The scan of a text from a place on, one character after the other. *)
ScannedAfter(g, text, start) ==
  /\ g \in [0 .. (Len(text) - start + 1) -> Scans]
  /\ g[0] = AtStart
  /\ \A k \in 1 .. (Len(text) - start + 1) : g[k] = Scan(g[k - 1], text[start + k - 1], start + k - 1)
  /\ ScanFrom(text, start) = g[Len(text) - start + 1]

LEMMA ScanSteps ==
  ASSUME NEW text, NEW start \in Nat, Len(text) \in Nat, start >= 1, start <= Len(text) + 1
  PROVE  \E g : ScannedAfter(g, text, start)
<1> DEFINE n == (Len(text) - start + 1)
           first == AtStart
           F == [k \in 1 .. n |-> [x \in Scans |-> Scan(x, text[start + k - 1], start + k - 1)]]
           Recursion(g) == g = [k \in 0 .. n |-> IF k = 0 THEN first ELSE Scan(g[k - 1], text[start + k - 1], start + k - 1)]
           after == CHOOSE g : Recursion(g)
<1>1. n \in Nat
  OBVIOUS
<1>2. first \in Scans
  BY DEF AtStart, Scans
<1>3. ASSUME NEW k \in 1 .. n, NEW x \in Scans PROVE Scan(x, text[start + k - 1], start + k - 1) \in Scans
  <2>1. start + k - 1 \in Nat
    BY <1>1
  <2> QED BY <2>1, ScanStays
<1>4. Stays(F, n, Scans)
  <2> HIDE DEF n
  <2> QED BY <1>3 DEF Stays
<1>5. \A k \in 1 .. n : \A x \in Scans : F[k][x] = Scan(x, text[start + k - 1], start + k - 1)
  OBVIOUS
<1> HIDE DEF F, first
<1>6. PICK g : GoesOn(g, first, F, n, Scans)
  <2> HIDE DEF n
  <2> QED BY ONLY <1>1, <1>2, <1>4, RecursionDefines
<1>7. Recursion(g)
  <2>1. \A k \in 0 .. n : k # 0 => k \in 1 .. n /\ g[k - 1] \in Scans
    BY <1>1, <1>6 DEF GoesOn
  <2>2. \A k \in 0 .. n : g[k] = IF k = 0 THEN first ELSE Scan(g[k - 1], text[start + k - 1], start + k - 1)
    BY <1>5, <1>6, <2>1 DEF GoesOn
  <2> HIDE DEF n
  <2> QED BY <1>6, <2>2 DEF GoesOn
<1>8. Recursion(after)
  <2> HIDE DEF Recursion
  <2> QED BY <1>7
<1>9. /\ after[0] = first /\ DOMAIN after = 0 .. n
      /\ \A k \in 1 .. n : after[k] = Scan(after[k - 1], text[start + k - 1], start + k - 1)
  <2> HIDE DEF after, n
  <2>1. DOMAIN after = 0 .. n /\ \A k \in 0 .. n : after[k] = IF k = 0 THEN first ELSE Scan(after[k - 1], text[start + k - 1], start + k - 1)
    BY <1>8
  <2>2. 0 \in 0 .. n /\ \A k \in 1 .. n : k \in 0 .. n /\ k # 0
    BY <1>1
  <2> QED BY <2>1, <2>2
<1>10. \A k \in 0 .. n : after[k] \in Scans
  <2> DEFINE P == {k \in 0 .. n : after[k] \in Scans}
  <2> HIDE DEF after
  <2>1. 0 \in P
    BY <1>1, <1>2, <1>9
  <2>2. ASSUME NEW k \in 1 .. n, k - 1 \in P PROVE k \in P
    <3>1. after[k - 1] \in Scans /\ after[k] = Scan(after[k - 1], text[start + k - 1], start + k - 1)
      BY <1>9, <2>2
    <3>2. after[k] \in Scans /\ k \in 0 .. n
      BY <1>1, <1>3, <3>1
    <3> QED BY <3>2
  <2>3. \A k \in 0 .. n : k \in P
    <3> HIDE DEF P, n
    <3> QED BY ONLY <1>1, <2>1, <2>2, IntervalInduction
  <2> QED BY <2>3
<1>11. ScanFrom(text, start) = after[Len(text) - start + 1]
  BY DEF ScanFrom, first
<1>12. after \in [0 .. n -> Scans]
  <2>1. after = [k \in 0 .. n |-> after[k]]
    <3> HIDE DEF after
    <3> QED BY <1>8
  <2> HIDE DEF after
  <2> QED BY <1>10, <2>1
<1> HIDE DEF after
<1>13. ScannedAfter(after, text, start)
  BY <1>9, <1>11, <1>12 DEF first, ScannedAfter
<1> QED BY <1>13

(* Counting the places of a text up to the next. *)
LEMMA CountNext ==
  ASSUME NEW i \in Nat, i > 0, NEW T \in SUBSET (1 .. i - 1)
  PROVE  /\ Cardinality(T) \in Nat /\ Cardinality(T \cup {i}) = Cardinality(T) + 1
         /\ Odd(T \cup {i}) <=> ~Odd(T)
<1>1. IsFiniteSet(T)
  <2>1. 1 \in Int /\ i - 1 \in Int
    OBVIOUS
  <2>2. IsFiniteSet(1 .. i - 1)
    BY ONLY <2>1, FS_Interval
  <2> QED BY <2>2, FS_Subset
<1>2. i \notin T
  OBVIOUS
<1>3. Cardinality(T) \in Nat /\ Cardinality(T \cup {i}) = Cardinality(T) + 1
  BY <1>1, <1>2, FS_CardinalityType, FS_AddElement
<1> DEFINE c == Cardinality(T)
<1>4. c \in Nat => ((c + 1) % 2 = 1 <=> ~(c % 2 = 1))
  <2> HIDE DEF c
  <2> QED OBVIOUS
<1> QED BY <1>3, <1>4 DEF Odd

Unclosed(object, i) == Cardinality(Braces(object, Open, i)) - Cardinality(Braces(object, Close, i))

(* What has been counted up to a character, from what had been up to the one before. *)
LEMMA CountedNext ==
  ASSUME NEW object, NEW i \in Nat, i > 0
  PROVE  /\ Odd(Backslashes(object, i)) <=> object[i] = Backslash /\ ~Odd(Backslashes(object, i - 1))
         /\ Odd(Quotes(object, i)) <=>
              IF object[i] = Quote /\ ~Odd(Backslashes(object, i - 1)) THEN ~Odd(Quotes(object, i - 1))
              ELSE Odd(Quotes(object, i - 1))
         /\ Unclosed(object, i - 1) \in Int
         /\ Unclosed(object, i) =
              IF Odd(Quotes(object, i - 1)) THEN Unclosed(object, i - 1)
              ELSE IF object[i] = Open THEN Unclosed(object, i - 1) + 1
              ELSE IF object[i] = Close THEN Unclosed(object, i - 1) - 1
              ELSE Unclosed(object, i - 1)
<1>1. \A j \in 1 .. i : j \in 1 .. i - 1 \/ j = i
  OBVIOUS
<1>2. \A j \in 1 .. i - 1 : j \in 1 .. i /\ j # i
  OBVIOUS
<1>3. i \in 1 .. i
  OBVIOUS
<1>4. ASSUME NEW j \in 1 .. i - 1 PROVE i \in j .. i /\ (\A k \in j .. i - 1 : k \in j .. i) /\ \A k \in j .. i : k \in j .. i - 1 \/ k = i
  OBVIOUS
<1>5. Odd(Backslashes(object, i)) <=> object[i] = Backslash /\ ~Odd(Backslashes(object, i - 1))
  <2>1. CASE object[i] = Backslash
    <3>1. Backslashes(object, i) = Backslashes(object, i - 1) \cup {i}
      <4>1. ASSUME NEW j \in 1 .. i - 1
            PROVE  (\A k \in j .. i : object[k] = Backslash) <=> (\A k \in j .. i - 1 : object[k] = Backslash)
        BY <1>4, <2>1
      <4>2. \A k \in i .. i : object[k] = Backslash
        BY <2>1
      <4>3. \A j \in 1 .. i : j \in Backslashes(object, i) <=> \A k \in j .. i : object[k] = Backslash
        BY DEF Backslashes
      <4>4. \A j \in 1 .. i - 1 : j \in Backslashes(object, i - 1) <=> \A k \in j .. i - 1 : object[k] = Backslash
        BY DEF Backslashes
      <4>5. Backslashes(object, i) \subseteq 1 .. i /\ Backslashes(object, i - 1) \subseteq 1 .. i - 1
        BY DEF Backslashes
      <4> QED BY <1>1, <1>2, <1>3, <4>1, <4>2, <4>3, <4>4, <4>5
    <3>2. Backslashes(object, i - 1) \in SUBSET (1 .. i - 1)
      BY DEF Backslashes
    <3> QED BY <2>1, <3>1, <3>2, CountNext, ZenonT(30)
  <2>2. CASE object[i] # Backslash
    <3>1. Backslashes(object, i) = {}
      <4>1. \A j \in 1 .. i : i \in j .. i
        OBVIOUS
      <4> QED BY <2>2, <4>1 DEF Backslashes
    <3>2. Cardinality({}) = 0
      BY FS_EmptySet
    <3>3. ~Odd(Backslashes(object, i))
      BY <3>1, <3>2 DEF Odd
    <3> QED BY <2>2, <3>3
  <2> QED BY <2>1, <2>2
<1>6. Odd(Quotes(object, i)) <=>
        IF object[i] = Quote /\ ~Odd(Backslashes(object, i - 1)) THEN ~Odd(Quotes(object, i - 1))
        ELSE Odd(Quotes(object, i - 1))
  <2>1. Quotes(object, i - 1) \in SUBSET (1 .. i - 1)
    BY DEF Quotes
  <2>2. CASE object[i] = Quote /\ ~Odd(Backslashes(object, i - 1))
    <3>1. Quotes(object, i) = Quotes(object, i - 1) \cup {i}
      BY <1>1, <1>2, <1>3, <2>2 DEF Quotes
    <3> QED BY <2>1, <2>2, <3>1, CountNext, ZenonT(30)
  <2>3. CASE ~(object[i] = Quote /\ ~Odd(Backslashes(object, i - 1)))
    <3>1. Quotes(object, i) = Quotes(object, i - 1)
      BY <1>1, <1>2, <1>3, <2>3 DEF Quotes
    <3> QED BY <2>3, <3>1
  <2> QED BY <2>2, <2>3
<1>7. ASSUME NEW brace
      PROVE  /\ Cardinality(Braces(object, brace, i - 1)) \in Nat
             /\ Cardinality(Braces(object, brace, i)) =
                  IF object[i] = brace /\ ~InString(object, i) THEN Cardinality(Braces(object, brace, i - 1)) + 1
                  ELSE Cardinality(Braces(object, brace, i - 1))
  <2>1. Braces(object, brace, i - 1) \in SUBSET (1 .. i - 1)
    BY DEF Braces
  <2>2. CASE object[i] = brace /\ ~InString(object, i)
    <3>1. Braces(object, brace, i) = Braces(object, brace, i - 1) \cup {i}
      BY <1>1, <1>2, <1>3, <2>2 DEF Braces
    <3> QED BY <2>1, <2>2, <3>1, CountNext
  <2>3. CASE ~(object[i] = brace /\ ~InString(object, i))
    <3>1. Braces(object, brace, i) = Braces(object, brace, i - 1)
      BY <1>1, <1>2, <1>3, <2>3 DEF Braces
    <3> QED BY <2>1, <2>3, <3>1, CountNext
  <2> QED BY <2>2, <2>3
<1>8. InString(object, i) <=> Odd(Quotes(object, i - 1))
  BY DEF InString
<1>9. Open # Close
  BY DEF Open, Close
<1> DEFINE a == Cardinality(Braces(object, Open, i - 1))
           b == Cardinality(Braces(object, Close, i - 1))
           c == Cardinality(Braces(object, Open, i))
           d == Cardinality(Braces(object, Close, i))
<1>10. /\ a \in Nat /\ c = IF object[i] = Open /\ ~InString(object, i) THEN a + 1 ELSE a
       /\ b \in Nat /\ d = IF object[i] = Close /\ ~InString(object, i) THEN b + 1 ELSE b
  BY <1>7
<1>11. Unclosed(object, i - 1) = a - b /\ Unclosed(object, i) = c - d
  BY DEF Unclosed
<1> HIDE DEF a, b, c, d
<1>12. /\ Unclosed(object, i - 1) \in Int
       /\ Unclosed(object, i) =
            IF Odd(Quotes(object, i - 1)) THEN Unclosed(object, i - 1)
            ELSE IF object[i] = Open THEN Unclosed(object, i - 1) + 1
            ELSE IF object[i] = Close THEN Unclosed(object, i - 1) - 1
            ELSE Unclosed(object, i - 1)
  BY <1>8, <1>9, <1>10, <1>11
<1> QED BY <1>5, <1>6, <1>12

(* Where the scan is behind the first i characters of an object. *)
At(object, i) ==
  [depth |-> Unclosed(object, i), inString |-> Odd(Quotes(object, i)),
   escaped |-> Odd(Quotes(object, i)) /\ Odd(Backslashes(object, i)), end |-> 0]

LEMMA ObjectBegins ==
  ASSUME NEW object
  PROVE  At(object, 0) = AtStart /\ ~Odd(Quotes(object, 0)) /\ ~Odd(Backslashes(object, 0)) /\ Unclosed(object, 0) = 0
<1>1. Quotes(object, 0) = {} /\ Backslashes(object, 0) = {} /\ Braces(object, Open, 0) = {} /\ Braces(object, Close, 0) = {}
  BY DEF Quotes, Backslashes, Braces
<1>2. Cardinality({}) = 0 /\ Odd({}) = FALSE
  BY FS_EmptySet DEF Odd
<1>3. Unclosed(object, 0) = 0
  BY <1>1, <1>2 DEF Unclosed
<1>4. At(object, 0) = [depth |-> 0, inString |-> FALSE, escaped |-> FALSE, end |-> 0]
  <2>1. (Odd({}) /\ Odd({})) = FALSE
    BY <1>2
  <2> QED BY <1>1, <1>2, <1>3, <2>1 DEF At
<1> QED BY <1>1, <1>2, <1>3, <1>4 DEF AtStart

LEMMA OutsideNothingIsEscaped ==
  ASSUME NEW object, IsObject(object), NEW i \in 0 .. Len(object), ~Odd(Quotes(object, i))
  PROVE  ~Odd(Backslashes(object, i))
<1>1. Len(object) \in Nat /\ DOMAIN object = 1 .. Len(object)
  BY LenProperties DEF IsObject
<1>2. CASE i = 0
  BY <1>2, ObjectBegins
<1>3. CASE i > 0 /\ object[i] # Backslash
  BY <1>1, <1>3, CountedNext
<1>4. CASE i > 0 /\ object[i] = Backslash
  <2>1. Odd(Quotes(object, i - 1))
    BY <1>1, <1>4 DEF IsObject, InString
  <2>2. Backslash # Quote
    BY DEF Backslash, Quote
  <2> QED BY <1>1, <1>4, <2>1, <2>2, CountedNext
<1> QED BY <1>1, <1>2, <1>3, <1>4

(* A character of the object takes the scan along, and the last one ends it. *)
LEMMA ScanFollows ==
  ASSUME NEW object, IsObject(object), NEW i \in 1 .. Len(object), NEW p
  PROVE  /\ i < Len(object) => Scan(At(object, i - 1), object[i], p) = At(object, i)
         /\ i = Len(object) => Scan(At(object, i - 1), object[i], p).end = p
<1> DEFINE before == At(object, i - 1)
           q == Odd(Quotes(object, i - 1))
           b == Odd(Backslashes(object, i - 1))
           u == Unclosed(object, i - 1)
           c == object[i]
           n == Len(object)
<1>1. Len(object) \in Nat /\ DOMAIN object = 1 .. Len(object) /\ Len(object) >= 2
  BY LenProperties DEF IsObject
<1>2. q \in BOOLEAN /\ b \in BOOLEAN
  BY DEF Odd
<1>3. /\ Odd(Backslashes(object, i)) <=> c = Backslash /\ ~b
      /\ Odd(Quotes(object, i)) <=> IF c = Quote /\ ~b THEN ~q ELSE q
      /\ u \in Int
      /\ Unclosed(object, i) = IF q THEN u ELSE IF c = Open THEN u + 1 ELSE IF c = Close THEN u - 1 ELSE u
  BY <1>1, CountedNext
<1>4. Odd(Backslashes(object, i)) \in BOOLEAN /\ Odd(Quotes(object, i)) \in BOOLEAN
  BY DEF Odd
<1>5. before = [depth |-> u, inString |-> q, escaped |-> q /\ b, end |-> 0]
  BY DEF At
<1>6. /\ i < Len(object) => Unclosed(object, i) > 0
      /\ i = Len(object) => Unclosed(object, i) = 0 /\ u > 0
  <2>1. ASSUME NEW k \in 1 .. Len(object)
        PROVE  (k = Len(object) => Unclosed(object, k) = 0) /\ (k # Len(object) => Unclosed(object, k) > 0)
    <3>1. k \in DOMAIN object
      BY <1>1
    <3> QED BY <3>1 DEF IsObject, Unclosed
  <2>2. /\ i < n => i # n
        /\ i = n => i - 1 \in 1 .. n /\ i - 1 # n
    <3>1. i \in 1 .. n /\ n \in Nat /\ n >= 2
      BY <1>1
    <3> HIDE DEF n
    <3> QED BY ONLY <3>1
  <2> QED BY <2>1, <2>2
<1>7. Quote # Backslash /\ Quote # Open /\ Quote # Close /\ Open # Close /\ Backslash # Open /\ Backslash # Close
  BY DEF Quote, Backslash, Open, Close
<1>8. ~q => ~b /\ c # Backslash
  <2>1. i - 1 \in 0 .. Len(object)
    BY <1>1
  <2>2. c = Backslash => q
    BY <1>1 DEF IsObject, InString
  <2> QED BY <2>1, <2>2, OutsideNothingIsEscaped
<1>9. At(object, i) = [depth |-> Unclosed(object, i), inString |-> Odd(Quotes(object, i)),
                       escaped |-> Odd(Quotes(object, i)) /\ Odd(Backslashes(object, i)), end |-> 0]
  BY DEF At
<1> DEFINE q2 == Odd(Quotes(object, i))
           b2 == Odd(Backslashes(object, i))
           u2 == Unclosed(object, i)
<1>19. /\ i \in Nat /\ n \in Nat /\ i <= n /\ u \in Int
       /\ i < n => u2 > 0
       /\ i = n => u2 = 0 /\ u > 0
  <2>1. i \in 1 .. n /\ n \in Nat
    BY <1>1
  <2>2. i \in Nat /\ i <= n
    <3> HIDE DEF n
    <3> QED BY ONLY <2>1
  <2> QED BY <1>3, <1>6, <2>1, <2>2
<1> HIDE DEF q, b, u, c, before, q2, b2, u2, n
<1>10. CASE q
  <2>1. Scan(before, c, p) = [before EXCEPT !.escaped = ~@ /\ c = Backslash, !.inString = before.escaped \/ c # Quote]
    BY <1>5, <1>10 DEF Scan
  <2>2. Scan(before, c, p) = [depth |-> u, inString |-> b \/ c # Quote, escaped |-> ~b /\ c = Backslash, end |-> 0]
    BY <1>5, <1>10, <2>1
  <2>3. u2 = u /\ (q2 <=> b \/ c # Quote) /\ (q2 /\ b2 <=> ~b /\ c = Backslash)
    BY <1>2, <1>3, <1>4, <1>7, <1>10 DEF q2, b2, u2
  <2>4. (q2 = (b \/ c # Quote)) /\ ((q2 /\ b2) = (~b /\ c = Backslash))
    BY <1>2, <1>4, <2>3 DEF q2, b2
  <2>5. i # n
    BY <1>19, <2>3
  <2>6. Scan(before, c, p) = At(object, i)
    BY <1>9, <2>2, <2>3, <2>4 DEF q2, b2, u2
  <2> QED BY <2>5, <2>6 DEF before, c, n
<1>11. CASE ~q
  <2>1. /\ q2 <=> c = Quote
        /\ ~b2
    BY <1>2, <1>3, <1>4, <1>8, <1>11 DEF q2, b2
  <2>2. before.end = 0 /\ before.inString = FALSE /\ before.escaped = FALSE /\ before.depth = u
    BY <1>2, <1>5, <1>11
  <2>3. before = [depth |-> u, inString |-> FALSE, escaped |-> FALSE, end |-> 0]
    BY <1>2, <1>5, <1>11
  <2>4. At(object, i) = [depth |-> u2, inString |-> c = Quote, escaped |-> FALSE, end |-> 0]
    <3>1. q2 = (c = Quote) /\ b2 = FALSE
      BY <1>4, <2>1 DEF q2, b2
    <3> QED BY <1>9, <3>1 DEF q2, b2, u2
  <2>5. u2 = IF c = Open THEN u + 1 ELSE IF c = Close THEN u - 1 ELSE u
    BY <1>3, <1>11 DEF u2
  <2>6. CASE c = Quote
    <3>1. Scan(before, c, p) = [before EXCEPT !.inString = TRUE]
      BY <2>2, <2>6 DEF Scan
    <3>2. u2 = u
      BY <1>7, <2>5, <2>6
    <3>3. Scan(before, c, p) = At(object, i)
      BY <2>3, <2>4, <2>6, <3>1, <3>2
    <3>4. i # n
      BY <1>19, <3>2
    <3> QED BY <3>3, <3>4 DEF before, c, n
  <2>7. CASE c = Open
    <3>1. Scan(before, c, p) = [before EXCEPT !.depth = @ + 1]
      BY <1>7, <2>2, <2>7 DEF Scan
    <3>2. u2 = u + 1
      BY <2>5, <2>7
    <3>3. Scan(before, c, p) = At(object, i)
      BY <1>7, <2>3, <2>4, <2>7, <3>1, <3>2
    <3>4. i # n
      BY <1>19, <3>2
    <3> QED BY <3>3, <3>4 DEF before, c, n
  <2>8. CASE c = Close
    <3>1. Scan(before, c, p) = [before EXCEPT !.depth = @ - 1, !.end = IF before.depth = 1 THEN p ELSE 0]
      BY <1>7, <2>2, <2>8 DEF Scan
    <3>2. u2 = u - 1
      BY <1>7, <2>5, <2>8
    <3>3. CASE i = n
      <4>1. u = 1
        BY <1>19, <3>2, <3>3
      <4>2. Scan(before, c, p).end = p
        BY <2>3, <3>1, <4>1
      <4> QED BY <1>1, <3>3, <4>2 DEF before, c, n
    <3>4. CASE i # n
      <4>1. u # 1
        BY <1>19, <3>2, <3>4
      <4>2. Scan(before, c, p) = At(object, i)
        BY <1>7, <2>3, <2>4, <2>8, <3>1, <3>2, <4>1
      <4> QED BY <3>4, <4>2 DEF before, c, n
    <3> QED BY <3>3, <3>4
  <2>9. CASE c # Quote /\ c # Open /\ c # Close
    <3>1. Scan(before, c, p) = before
      BY <2>2, <2>9 DEF Scan
    <3>2. u2 = u
      BY <2>5, <2>9
    <3>3. Scan(before, c, p) = At(object, i)
      BY <2>3, <2>4, <2>9, <3>1, <3>2
    <3>4. i # n
      BY <1>19, <3>2
    <3> QED BY <3>3, <3>4 DEF before, c, n
  <2> QED BY <2>6, <2>7, <2>8, <2>9
<1> QED BY <1>2, <1>10, <1>11

(* prompt.rs extract_json_object: of an answer of any length an object comes out whole,  *)
(* whatever its strings hold and whatever prose without a brace stands before it; of an    *)
(* answer that is cut off before the end of its object nothing comes out.                   *)
THEOREM ExtractsSound == Spec => []ExtractsTheObject
<1>1. Given /\ Computed => ExtractsTheObject
  <2> SUFFICES ASSUME Given, Computed, done, input.kind = "answer"
               PROVE  outcome = IF input.cut THEN {} ELSE {input.object}
    BY DEF ExtractsTheObject
  <2> DEFINE text == input.text
             object == input.object
             n == Len(text)
             L == Len(object)
             opens == {i \in DOMAIN text : text[i] = Open}
  <2>1. IsReply(input) /\ outcome = ExtractJsonObject(text)
    BY AnswersAssumption DEF Given, Computed, IsAnswer
  <2>2. PICK b \in 0 .. n, kept \in 0 .. L :
          /\ \A i \in 1 .. b : text[i] # Open
          /\ b + kept <= n /\ \A i \in 1 .. kept : text[b + i] = object[i]
          /\ IF input.cut THEN kept < L /\ n = b + kept ELSE kept = L
    BY <2>1 DEF IsReply
  <2>3. /\ IsObject(object) /\ object \in Seq(STRING) /\ text \in Seq(STRING) /\ input.cut \in BOOLEAN
        /\ n \in Nat /\ DOMAIN text = 1 .. n /\ L \in Nat /\ L >= 2 /\ DOMAIN object = 1 .. L
    BY <2>1, LenProperties DEF IsReply, IsObject
  <2> HIDE DEF text, object, n, L
  <2>4. b \in Nat /\ kept \in Nat /\ b <= n /\ kept <= L
    BY <2>2, <2>3
  <2>5. CASE kept = 0
    <3>1. input.cut /\ n = b
      BY <2>2, <2>3, <2>4, <2>5
    <3>2. opens = {}
      BY <2>2, <2>3, <3>1
    <3> HIDE DEF opens
    <3> QED BY <2>1, <3>1, <3>2 DEF ExtractJsonObject, opens
  <2>6. CASE kept > 0
    <3> DEFINE m == IF kept = L THEN L - 1 ELSE kept
               N == n - (b + 1) + 1
    <3>1. object[1] = Open
      <4>1. Unclosed(object, 1) > 0
        <5>1. 1 \in DOMAIN object /\ 1 # Len(object)
          BY <2>3 DEF L
        <5> QED BY <2>3, <5>1 DEF IsObject, Unclosed
      <4>2. Unclosed(object, 1 - 1) = 0 /\ ~Odd(Quotes(object, 1 - 1))
        BY ObjectBegins
      <4> QED BY <4>1, <4>2, CountedNext
    <3>2. text[b + 1] = Open /\ b + 1 \in 1 .. n
      BY <2>2, <2>3, <2>4, <2>6, <3>1
    <3>3. opens # {} /\ Min(opens) = b + 1
      <4>1. opens \in SUBSET Nat /\ b + 1 \in opens
        BY <2>3, <3>2
      <4>2. \A i \in opens : i >= b + 1
        BY <2>2, <2>3, <2>4
      <4> HIDE DEF opens
      <4>3. Min(opens) \in opens /\ Min(opens) <= b + 1
        BY <4>1, MinIsLeast
      <4>4. Min(opens) \in Nat /\ Min(opens) >= b + 1
        BY <4>1, <4>2, <4>3
      <4> QED BY <2>4, <4>1, <4>3, <4>4
    <3>4. N \in Nat /\ N = n - b /\ m \in Nat /\ m <= N /\ m < L
      BY <2>2, <2>3, <2>4, <2>6
    <3>5. PICK g : ScannedAfter(g, text, b + 1)
      <4>1. b + 1 \in Nat /\ b + 1 >= 1 /\ b + 1 <= Len(text) + 1 /\ Len(text) \in Nat
        BY <2>3, <2>4 DEF n
      <4> QED BY ONLY <4>1, ScanSteps
    <3>6. /\ g \in [0 .. N -> Scans] /\ g[0] = AtStart /\ ScanFrom(text, b + 1) = g[N]
          /\ \A k \in 1 .. N : g[k] = Scan(g[k - 1], text[(b + 1) + k - 1], (b + 1) + k - 1)
      BY <3>5 DEF ScannedAfter, n
    <3> HIDE DEF m, N
    <3>7. \A k \in 1 .. N : k <= kept => g[k] = Scan(g[k - 1], object[k], b + k)
      <4> SUFFICES ASSUME NEW k \in 1 .. N, k <= kept PROVE g[k] = Scan(g[k - 1], object[k], b + k)
        OBVIOUS
      <4>1. (b + 1) + k - 1 = b + k /\ k \in 1 .. kept
        BY <2>4, <3>4
      <4> QED BY <2>2, <3>6, <4>1
    <3> DEFINE P == {k \in 0 .. N : k <= m => g[k] = At(object, k)}
    <3>8. \A k \in 0 .. N : k \in P
      <4>1. 0 \in P
        BY <3>4, <3>6, ObjectBegins
      <4>2. ASSUME NEW k \in 1 .. N, k - 1 \in P PROVE k \in P
        <5> SUFFICES ASSUME k <= m PROVE g[k] = At(object, k)
          BY <3>4
        <5>1. k - 1 <= m /\ k <= kept /\ k \in 1 .. L /\ k < L
          BY <2>3, <2>4, <3>4 DEF m
        <5>2. g[k - 1] = At(object, k - 1)
          BY <4>2, <5>1
        <5>3. g[k] = Scan(At(object, k - 1), object[k], b + k)
          BY <3>7, <5>1, <5>2
        <5> QED BY <2>3, <5>1, <5>3, ScanFollows DEF L
      <4> HIDE DEF P
      <4> QED BY ONLY <3>4, <4>1, <4>2, IntervalInduction
    <3>9. g[m] = At(object, m)
      BY <3>4, <3>8
    <3>10. CASE input.cut
      <4>1. m = N
        BY <2>2, <2>3, <2>4, <3>4, <3>10 DEF m
      <4>2. ScanFrom(text, b + 1).end = 0
        BY <3>6, <3>9, <4>1 DEF At
      <4>3. ExtractJsonObject(text) = {}
        BY <3>3, <4>2 DEF ExtractJsonObject
      <4> QED BY <2>1, <3>10, <4>3
    <3>11. CASE ~input.cut
      <4>1. kept = L /\ m = L - 1 /\ L \in 1 .. N
        BY <2>2, <2>3, <2>4, <3>4, <3>11 DEF m
      <4>2. g[L].end = b + L
        <5>1. g[L] = Scan(At(object, L - 1), object[L], b + L)
          BY <2>3, <3>7, <3>9, <4>1
        <5>2. L \in 1 .. Len(object)
          BY <2>3 DEF L
        <5>3. IsObject(object) /\ b + L \in Nat
          BY <2>3, <5>2
        <5> QED BY <2>3, <5>1, <5>2, ScanFollows, SMTT(20) DEF L
      <4> DEFINE Q == {k \in 0 .. N : k >= L => g[k] = g[L]}
      <4>3. \A k \in 0 .. N : k \in Q
        <5>1. 0 \in Q
          BY <2>3, <3>4
        <5>2. ASSUME NEW k \in 1 .. N, k - 1 \in Q PROVE k \in Q
          <6> SUFFICES ASSUME k > L PROVE g[k] = g[L]
            BY <2>3, <3>4
          <6>1. k - 1 >= L /\ (b + 1) + k - 1 \in Nat /\ k - 1 \in 0 .. N
            BY <2>3, <2>4, <3>4
          <6>2. g[k - 1] = g[L] /\ g[k - 1] \in Scans /\ g[k - 1].end # 0
            BY <2>3, <2>4, <3>6, <4>2, <5>2, <6>1
          <6>3. Scan(g[k - 1], text[(b + 1) + k - 1], (b + 1) + k - 1) = g[k - 1]
            BY <6>1, <6>2, ScanStays
          <6> QED BY <3>6, <6>2, <6>3
        <5> HIDE DEF Q
        <5> QED BY ONLY <3>4, <5>1, <5>2, IntervalInduction
      <4>4. ScanFrom(text, b + 1).end = b + L /\ b + L # 0
        <5>1. N \in Q /\ N >= L
          BY <3>4, <4>1, <4>3
        <5> QED BY <2>3, <2>4, <3>6, <4>2, <5>1
      <4>5. SubSeq(text, b + 1, b + L) = object
        <5> DEFINE s == SubSeq(text, b + 1, b + L)
        <5>1. b + 1 \in 1 .. n /\ b + L \in Nat /\ b + L <= n
          BY <2>2, <2>3, <2>4, <3>2, <4>1
        <5>2. \A i \in b + 1 .. b + L : text[i] \in STRING
          <6>1. \A i \in b + 1 .. b + L : i \in DOMAIN text
            BY <2>3, <2>4, <5>1
          <6> QED BY <2>3, <6>1
        <5>3. /\ s \in Seq(STRING) /\ Len(s) = IF b + 1 <= b + L THEN (b + L) - (b + 1) + 1 ELSE 0
              /\ \A i \in 1 .. (b + L) - (b + 1) + 1 : s[i] = text[(b + 1) + i - 1]
          <6>1. b + 1 \in Int /\ b + L \in Int
            BY <2>3, <2>4
          <6> QED BY ONLY <5>2, <6>1, SubSeqProperties
        <5>4. Len(s) = L /\ (b + L) - (b + 1) + 1 = L
          BY <2>3, <2>4, <5>3
        <5>5. \A i \in 1 .. L : s[i] = object[i]
          <6>1. \A i \in 1 .. L : (b + 1) + i - 1 = b + i
            BY <2>3, <2>4
          <6> QED BY <2>2, <4>1, <5>3, <5>4, <6>1
        <5> HIDE DEF s
        <5>6. s = object
          <6>1. Len(s) = Len(object)
            BY <5>4 DEF L
          <6> QED BY <2>3, <5>3, <5>4, <5>5, <6>1, SeqEqual
        <5> QED BY <5>6 DEF s
      <4>6. ExtractJsonObject(text) = {object}
        BY <3>3, <4>4, <4>5 DEF ExtractJsonObject
      <4> QED BY <2>1, <3>11, <4>6 DEF object
    <3> QED BY <2>3, <3>10, <3>11
  <2> QED BY <2>4, <2>5, <2>6
<1> QED BY <1>1, OutcomeIsComputed, PTL

-----------------------------------------------------------------------------
(* The plugin host *)

Instance == [fuel : Nat, pages : Nat, log : Seq(HostFunctions), trapped : BOOLEAN]

Stepped(instance, next, instruction, maxPages) ==
  /\ instance.trapped => next = instance
  /\ ~instance.trapped /\ instance.fuel = 0 => next = [instance EXCEPT !.trapped = TRUE]
  /\ ~instance.trapped /\ instance.fuel > 0 =>
       /\ next.fuel = instance.fuel - 1
       /\ next.trapped <=> instruction = "trap"
       /\ instance.pages <= maxPages => next.pages <= maxPages
       /\ next.log = (IF instruction \in HostFunctions THEN Append(instance.log, instruction) ELSE instance.log)

LEMMA StepKeepsInstance ==
  ASSUME NEW instance \in Instance, NEW instruction \in Instructions, NEW maxPages \in Nat
  PROVE  /\ Step(instance, instruction, maxPages) \in Instance
         /\ Stepped(instance, Step(instance, instruction, maxPages), instruction, maxPages)
<1>1. /\ instance.trapped \in BOOLEAN
      /\ instance = [fuel |-> instance.fuel, pages |-> instance.pages, log |-> instance.log, trapped |-> instance.trapped]
      /\ instance.fuel \in Nat /\ instance.pages \in Nat /\ instance.log \in Seq(HostFunctions)
  BY DEF Instance
<1>2. CASE instance.trapped
  BY <1>1, <1>2 DEF Step, Stepped
<1>3. CASE ~instance.trapped /\ instance.fuel = 0
  <2>1. Step(instance, instruction, maxPages) = [instance EXCEPT !.trapped = TRUE]
    BY <1>3 DEF Step
  <2>2. [instance EXCEPT !.trapped = TRUE] \in Instance
    BY DEF Instance
  <2> QED BY <1>3, <2>1, <2>2 DEF Stepped
<1>4. CASE ~instance.trapped /\ instance.fuel > 0
  <2> DEFINE next == Step(instance, instruction, maxPages)
             pages == IF instruction = "grow" /\ instance.pages < maxPages THEN instance.pages + 1 ELSE instance.pages
             log == IF instruction \in HostFunctions THEN Append(instance.log, instruction) ELSE instance.log
             trap == instruction = "trap"
  <2>1. next = [fuel |-> instance.fuel - 1, pages |-> pages, log |-> log, trapped |-> trap]
    BY <1>1, <1>4 DEF Step
  <2>2. instance.fuel - 1 \in Nat /\ pages \in Nat /\ log \in Seq(HostFunctions) /\ trap \in BOOLEAN
    <3>1. instance.fuel - 1 \in Nat /\ pages \in Nat
      BY <1>1, <1>4
    <3>2. log \in Seq(HostFunctions)
      BY <1>1
    <3>3. trap \in BOOLEAN
      OBVIOUS
    <3> QED BY <3>1, <3>2, <3>3
  <2>3. instance.pages <= maxPages => pages <= maxPages
    BY <1>1
  <2> HIDE DEF next, pages, log, trap
  <2>4. next \in Instance
    BY <2>1, <2>2 DEF Instance
  <2>5. next.trapped <=> trap
    BY <2>1
  <2>6. next.fuel = instance.fuel - 1 /\ (instance.pages <= maxPages => next.pages <= maxPages) /\ next.log = log
    BY <2>1, <2>3
  <2>7. instance.fuel # 0
    BY <1>4
  <2> QED BY <1>4, <2>4, <2>5, <2>6, <2>7 DEF next, log, trap, Stepped
<1> QED BY <1>1, <1>2, <1>3, <1>4

(* Running code is going from instance to instance, one step for each instruction.       *)
LEMMA RunSteps ==
  ASSUME NEW instance \in Instance, NEW code \in Seq(Instructions), NEW maxPages \in Nat
  PROVE  \E g \in [0 .. Len(code) -> Instance] :
           /\ g[0] = [instance EXCEPT !.trapped = FALSE]
           /\ \A k \in 1 .. Len(code) : g[k] = Step(g[k - 1], code[k], maxPages)
           /\ Run(instance, code, maxPages) = g[Len(code)]
<1> DEFINE n == Len(code)
           first == [instance EXCEPT !.trapped = FALSE]
           F == [k \in 1 .. n |-> [x \in Instance |-> Step(x, code[k], maxPages)]]
           Recursion(g) == g = [k \in 0 .. n |-> IF k = 0 THEN first ELSE Step(g[k - 1], code[k], maxPages)]
           after == CHOOSE g : Recursion(g)
<1>1. n \in Nat /\ \A k \in 1 .. n : code[k] \in Instructions
  OBVIOUS
<1>2. first \in Instance
  BY DEF Instance
<1>3. Stays(F, n, Instance)
  BY <1>1, StepKeepsInstance DEF Stays
<1>4. \A k \in 1 .. n : \A x \in Instance : F[k][x] = Step(x, code[k], maxPages)
  OBVIOUS
<1> HIDE DEF F, first
<1>5. PICK g : GoesOn(g, first, F, n, Instance)
  <2> HIDE DEF n
  <2> QED BY <1>1, <1>2, <1>3, RecursionDefines
<1>6. Recursion(g)
  <2>1. \A k \in 0 .. n : k # 0 => k \in 1 .. n /\ g[k - 1] \in Instance
    BY <1>1, <1>5 DEF GoesOn
  <2>2. \A k \in 0 .. n : g[k] = IF k = 0 THEN first ELSE Step(g[k - 1], code[k], maxPages)
    BY <1>4, <1>5, <2>1 DEF GoesOn
  <2> QED BY <1>5, <2>2 DEF GoesOn
<1>7. Recursion(after)
  <2> HIDE DEF Recursion
  <2> QED BY <1>6
<1>8. /\ after[0] = first /\ DOMAIN after = 0 .. n
      /\ \A k \in 1 .. n : after[k] = Step(after[k - 1], code[k], maxPages)
  <2> HIDE DEF after
  <2> QED BY <1>1, <1>7
<1>9. \A k \in 0 .. n : after[k] \in Instance
  <2> DEFINE P == {k \in 0 .. n : after[k] \in Instance}
  <2> HIDE DEF after
  <2>1. 0 \in P
    BY <1>1, <1>2, <1>8
  <2>2. ASSUME NEW k \in 1 .. n, k - 1 \in P PROVE k \in P
    <3>1. after[k - 1] \in Instance /\ code[k] \in Instructions /\ after[k] = Step(after[k - 1], code[k], maxPages)
      BY <1>1, <1>8, <2>2
    <3>2. after[k] \in Instance
      BY <3>1, StepKeepsInstance
    <3> QED BY <3>2
  <2>3. \A k \in 0 .. n : k \in P
    <3> HIDE DEF P, n
    <3> QED BY <1>1, <2>1, <2>2, IntervalInduction
  <2> QED BY <2>3
<1>10. Run(instance, code, maxPages) = after[n]
  BY DEF Run, first
<1>11. after \in [0 .. n -> Instance]
  <2>1. after = [k \in 0 .. n |-> after[k]]
    <3> HIDE DEF after
    <3> QED BY <1>7
  <2> HIDE DEF after
  <2> QED BY <1>9, <2>1
<1> HIDE DEF after
<1> QED BY <1>8, <1>10, <1>11 DEF first

(* What a run leaves of an instance, of which it is the k-th step or the whole. *)
Left(before, after, code, k, maxPages) ==
  /\ after.fuel <= before.fuel
  /\ before.pages <= maxPages => after.pages <= maxPages
  /\ Range(after.log) \subseteq Range(before.log) \cup (Range(code) \cap HostFunctions)
  /\ Len(after.log) - Len(before.log) <= before.fuel - after.fuel
  /\ ~after.trapped => after.fuel = before.fuel - k
  /\ after.fuel > 0 /\ "trap" \notin Range(code) => ~after.trapped

LEMMA StepLeaves ==
  ASSUME NEW before \in Instance, NEW x \in Instance, NEW code \in Seq(Instructions), NEW maxPages \in Nat,
         NEW k \in 1 .. Len(code), Left(before, x, code, k - 1, maxPages)
  PROVE  Left(before, Step(x, code[k], maxPages), code, k, maxPages)
<1> DEFINE next == Step(x, code[k], maxPages)
<1>0. code[k] \in Instructions /\ Stepped(x, next, code[k], maxPages)
  <2>1. code[k] \in Instructions
    OBVIOUS
  <2> QED BY <2>1, StepKeepsInstance
<1>1. /\ k \in Int /\ code[k] \in Instructions /\ code[k] \in Range(code)
      /\ before.fuel \in Nat /\ before.pages \in Nat /\ Len(before.log) \in Nat
      /\ x.fuel \in Nat /\ x.pages \in Nat /\ x.log \in Seq(HostFunctions) /\ Len(x.log) \in Nat
      /\ x.trapped \in BOOLEAN
  BY DEF Instance, Range
<1>2. CASE x.trapped
  <2>1. next = x
    BY <1>0, <1>2 DEF Stepped
  <2> HIDE DEF next
  <2> QED BY <1>2, <2>1 DEF Left, next
<1>3. CASE ~x.trapped /\ x.fuel = 0
  <2>0. x.fuel = 0
    BY <1>3
  <2>1. next = [x EXCEPT !.trapped = TRUE]
    BY <1>0, <1>3 DEF Stepped
  <2>2. next.fuel = x.fuel /\ next.pages = x.pages /\ next.log = x.log /\ next.trapped
    BY <2>1 DEF Instance
  <2> HIDE DEF next
  <2>3. Left(before, next, code, k, maxPages)
    <3>1. /\ x.fuel <= before.fuel /\ (before.pages <= maxPages => x.pages <= maxPages)
          /\ Range(x.log) \subseteq Range(before.log) \cup (Range(code) \cap HostFunctions)
          /\ Len(x.log) - Len(before.log) <= before.fuel - x.fuel
      BY DEF Left
    <3>2. ~(next.fuel > 0)
      BY <2>0, <2>2
    <3> QED BY <2>2, <3>1, <3>2 DEF Left
  <2> QED BY <2>3 DEF next
<1>4. CASE ~x.trapped /\ x.fuel > 0
  <2>1. /\ next.fuel = x.fuel - 1 /\ (next.trapped <=> code[k] = "trap")
        /\ x.pages <= maxPages => next.pages <= maxPages
        /\ next.log = (IF code[k] \in HostFunctions THEN Append(x.log, code[k]) ELSE x.log)
    BY <1>0, <1>1, <1>4 DEF Stepped
  <2>2. Range(next.log) \subseteq Range(x.log) \cup (Range(code) \cap HostFunctions)
    <3>1. CASE code[k] \in HostFunctions
      <4>1. \A i \in DOMAIN Append(x.log, code[k]) :
               Append(x.log, code[k])[i] = code[k] \/ (i \in DOMAIN x.log /\ Append(x.log, code[k])[i] = x.log[i])
        BY <1>1, <3>1
      <4>2. next.log = Append(x.log, code[k])
        BY <2>1, <3>1
      <4> HIDE DEF next
      <4> QED BY <1>1, <3>1, <4>1, <4>2 DEF Range
    <3>2. CASE code[k] \notin HostFunctions
      BY <2>1, <3>2
    <3> QED BY <3>1, <3>2
  <2>3. Len(next.log) <= Len(x.log) + 1 /\ Len(next.log) \in Nat
    <3>1. CASE code[k] \in HostFunctions
      <4>1. Len(Append(x.log, code[k])) = Len(x.log) + 1
        BY <1>1, <3>1
      <4> QED BY <1>1, <2>1, <3>1, <4>1
    <3>2. CASE code[k] \notin HostFunctions
      BY <1>1, <2>1, <3>2
    <3> QED BY <3>1, <3>2
  <2> HIDE DEF next
  <2>4. /\ x.fuel <= before.fuel /\ (before.pages <= maxPages => x.pages <= maxPages)
        /\ Range(x.log) \subseteq Range(before.log) \cup (Range(code) \cap HostFunctions)
        /\ Len(x.log) - Len(before.log) <= before.fuel - x.fuel
        /\ x.fuel = before.fuel - (k - 1)
    BY <1>4 DEF Left
  <2>5. next.fuel <= before.fuel /\ next.fuel = before.fuel - k
    BY <1>1, <2>1, <2>4
  <2>6. Len(next.log) - Len(before.log) <= before.fuel - next.fuel
    <3>1. next.fuel = x.fuel - 1
      BY <2>1
    <3> DEFINE a == Len(next.log)
               b == Len(before.log)
               c == Len(x.log)
    <3>2. a \in Nat /\ b \in Nat /\ c \in Nat /\ a <= c + 1 /\ c - b <= before.fuel - x.fuel
      BY <1>1, <2>3, <2>4
    <3> HIDE DEF a, b, c
    <3>3. a - b <= before.fuel - next.fuel
      <4>1. before.fuel \in Nat /\ x.fuel \in Nat
        BY <1>1
      <4> QED BY ONLY <3>1, <3>2, <4>1
    <3> QED BY <3>3 DEF a, b
  <2>7. next.fuel > 0 /\ "trap" \notin Range(code) => ~next.trapped
    BY <1>1, <2>1
  <2>8. before.pages <= maxPages => next.pages <= maxPages
    BY <2>1, <2>4
  <2>9. Range(next.log) \subseteq Range(before.log) \cup (Range(code) \cap HostFunctions)
    BY <2>2, <2>4
  <2>10. Left(before, next, code, k, maxPages)
    BY <2>5, <2>6, <2>7, <2>8, <2>9 DEF Left
  <2> QED BY <2>10 DEF next
<1> QED BY <1>1, <1>2, <1>3, <1>4

LEMMA RunLeaves ==
  ASSUME NEW instance \in Instance, NEW code \in Seq(Instructions), NEW maxPages \in Nat
  PROVE  /\ Run(instance, code, maxPages) \in Instance
         /\ Left(instance, Run(instance, code, maxPages), code, Len(code), maxPages)
<1> DEFINE n == Len(code)
<1>1. PICK g \in [0 .. n -> Instance] : /\ g[0] = [instance EXCEPT !.trapped = FALSE]
                                        /\ \A k \in 1 .. n : g[k] = Step(g[k - 1], code[k], maxPages)
                                        /\ Run(instance, code, maxPages) = g[n]
  BY RunSteps
<1> DEFINE P == {k \in 0 .. n : Left(instance, g[k], code, k, maxPages)}
<1>2. n \in Nat
  OBVIOUS
<1>3. 0 \in P
  <2>1. /\ g[0].fuel = instance.fuel /\ g[0].pages = instance.pages /\ g[0].log = instance.log /\ ~g[0].trapped
        /\ instance.fuel \in Nat /\ Len(instance.log) \in Nat
    BY <1>1 DEF Instance
  <2>2. Left(instance, g[0], code, 0, maxPages)
    BY <2>1 DEF Left
  <2> QED BY <1>2, <2>2
<1>4. ASSUME NEW k \in 1 .. n, k - 1 \in P PROVE k \in P
  <2>1. g[k - 1] \in Instance /\ g[k] = Step(g[k - 1], code[k], maxPages) /\ k \in 0 .. n
    BY <1>1
  <2>2. Left(instance, g[k - 1], code, k - 1, maxPages)
    BY <1>4
  <2>3. Left(instance, g[k], code, k, maxPages)
    BY <2>1, <2>2, StepLeaves
  <2> QED BY <2>1, <2>3
<1>5. n \in P
  <2> HIDE DEF P, n
  <2>1. \A k \in 0 .. n : k \in P
    BY ONLY <1>2, <1>3, <1>4, IntervalInduction
  <2> QED BY <1>2, <2>1
<1> QED BY <1>1, <1>2, <1>5

(* Calling one export after the other is going from instance to instance, too. *)
Called(g, instance, module, calls, limits) ==
  /\ g \in [0 .. Len(calls) -> Instance]
  /\ g[0] = instance
  /\ \A k \in 1 .. Len(calls) : g[k] = CallI32(g[k - 1], module, calls[k], limits)
  /\ CallEach(instance, module, calls, limits) = g[Len(calls)]

LEMMA CallSteps ==
  ASSUME NEW instance \in Instance, NEW module, IsPlugin(module), NEW calls \in Seq(STRING), NEW limits, limits.pages \in Nat
  PROVE  \E g : Called(g, instance, module, calls, limits)
<1> DEFINE n == Len(calls)
           first == instance
           F == [k \in 1 .. n |-> [x \in Instance |-> CallI32(x, module, calls[k], limits)]]
           Recursion(g) == g = [k \in 0 .. n |-> IF k = 0 THEN first ELSE CallI32(g[k - 1], module, calls[k], limits)]
           after == CHOOSE g : Recursion(g)
<1>1. n \in Nat
  OBVIOUS
<1>2. first \in Instance
  OBVIOUS
<1>3. ASSUME NEW k \in 1 .. n, NEW x \in Instance PROVE CallI32(x, module, calls[k], limits) \in Instance
  <2>1. CASE calls[k] \in DOMAIN module.exports
    <3>1. module.exports[calls[k]] \in Seq(Instructions)
      BY <2>1 DEF IsPlugin
    <3> QED BY <2>1, <3>1, RunLeaves DEF CallI32
  <2>2. CASE calls[k] \notin DOMAIN module.exports
    BY <2>2 DEF CallI32
  <2> QED BY <2>1, <2>2
<1>4. Stays(F, n, Instance)
  <2> HIDE DEF n
  <2> QED BY <1>3 DEF Stays
<1>5. \A k \in 1 .. n : \A x \in Instance : F[k][x] = CallI32(x, module, calls[k], limits)
  OBVIOUS
<1> HIDE DEF F, first
<1>6. PICK g : GoesOn(g, first, F, n, Instance)
  <2> HIDE DEF n
  <2> QED BY ONLY <1>1, <1>2, <1>4, RecursionDefines
<1>7. Recursion(g)
  <2>1. \A k \in 0 .. n : k # 0 => k \in 1 .. n /\ g[k - 1] \in Instance
    BY <1>1, <1>6 DEF GoesOn
  <2>2. \A k \in 0 .. n : g[k] = IF k = 0 THEN first ELSE CallI32(g[k - 1], module, calls[k], limits)
    BY <1>5, <1>6, <2>1 DEF GoesOn
  <2> HIDE DEF n
  <2> QED BY <1>6, <2>2 DEF GoesOn
<1>8. Recursion(after)
  <2> HIDE DEF Recursion
  <2> QED BY <1>7
<1>9. /\ after[0] = first /\ DOMAIN after = 0 .. n
      /\ \A k \in 1 .. n : after[k] = CallI32(after[k - 1], module, calls[k], limits)
  <2> HIDE DEF after, n
  <2>1. DOMAIN after = 0 .. n /\ \A k \in 0 .. n : after[k] = IF k = 0 THEN first ELSE CallI32(after[k - 1], module, calls[k], limits)
    BY <1>8
  <2>2. 0 \in 0 .. n /\ \A k \in 1 .. n : k \in 0 .. n /\ k # 0
    BY <1>1
  <2> QED BY <2>1, <2>2
<1>10. \A k \in 0 .. n : after[k] \in Instance
  <2> DEFINE P == {k \in 0 .. n : after[k] \in Instance}
  <2> HIDE DEF after
  <2>1. 0 \in P
    BY <1>1, <1>2, <1>9
  <2>2. ASSUME NEW k \in 1 .. n, k - 1 \in P PROVE k \in P
    <3>1. after[k - 1] \in Instance /\ after[k] = CallI32(after[k - 1], module, calls[k], limits)
      BY <1>9, <2>2
    <3>2. after[k] \in Instance /\ k \in 0 .. n
      BY <1>1, <1>3, <3>1
    <3> QED BY <3>2
  <2>3. \A k \in 0 .. n : k \in P
    <3> HIDE DEF P, n
    <3> QED BY ONLY <1>1, <2>1, <2>2, IntervalInduction
  <2> QED BY <2>3
<1>11. CallEach(instance, module, calls, limits) = after[Len(calls)]
  BY DEF CallEach, first
<1>12. after \in [0 .. n -> Instance]
  <2>1. after = [k \in 0 .. n |-> after[k]]
    <3> HIDE DEF after
    <3> QED BY <1>8
  <2> HIDE DEF after
  <2> QED BY <1>10, <2>1
<1> HIDE DEF after
<1>13. Called(after, instance, module, calls, limits)
  BY <1>9, <1>11, <1>12 DEF first, Called
<1> QED BY <1>13

Of(run, k) == IF run.calls[k] \in DOMAIN run.module.exports THEN Len(run.module.exports[run.calls[k]]) ELSE 0

(* The instructions of the calls are counted one call after the other. *)
LEMMA InstructedSteps ==
  ASSUME NEW run, IsPluginRun(run)
  PROVE  \E g \in [0 .. Len(run.calls) -> Nat] :
           /\ g[0] = Len(run.module.start)
           /\ \A k \in 1 .. Len(run.calls) : g[k] = g[k - 1] + Of(run, k)
           /\ Instructed(run) = g[Len(run.calls)]
<1> DEFINE n == Len(run.calls)
           first == Len(run.module.start)
           F == [k \in 1 .. n |-> [x \in Nat |-> x + Of(run, k)]]
           Recursion(g) == g = [k \in 0 .. n |-> IF k = 0 THEN first ELSE g[k - 1] + Of(run, k)]
           after == CHOOSE g : Recursion(g)
<1>1. n \in Nat
  BY DEF IsPluginRun
<1>2. first \in Nat
  BY DEF IsPluginRun, IsPlugin
<1>3. ASSUME NEW k \in 1 .. n PROVE Of(run, k) \in Nat
  <2>1. CASE run.calls[k] \in DOMAIN run.module.exports
    <3>1. run.module.exports[run.calls[k]] \in Seq(Instructions)
      BY <2>1 DEF IsPluginRun, IsPlugin
    <3>2. Len(run.module.exports[run.calls[k]]) \in Nat
      BY ONLY <3>1, LenProperties
    <3>3. Of(run, k) = Len(run.module.exports[run.calls[k]])
      BY <2>1 DEF Of
    <3>4. Of(run, k) \in Nat
      BY <3>2, <3>3
    <3> QED BY <3>4
  <2>2. CASE run.calls[k] \notin DOMAIN run.module.exports
    BY <2>2 DEF Of
  <2> QED BY <2>1, <2>2
<1>4. Stays(F, n, Nat)
  <2> HIDE DEF n
  <2>1. \A k \in 1 .. n : \A x \in Nat : x + Of(run, k) \in Nat
    BY <1>3
  <2> QED BY <2>1 DEF Stays
<1>5. \A k \in 1 .. n : \A x \in Nat : F[k][x] = x + Of(run, k)
  OBVIOUS
<1> HIDE DEF F, first
<1>6. PICK g : GoesOn(g, first, F, n, Nat)
  <2> HIDE DEF n
  <2> QED BY ONLY <1>1, <1>2, <1>4, RecursionDefines
<1>7. Recursion(g)
  <2>1. \A k \in 0 .. n : k # 0 => k \in 1 .. n /\ g[k - 1] \in Nat
    BY <1>1, <1>6 DEF GoesOn
  <2>2. \A k \in 0 .. n : g[k] = IF k = 0 THEN first ELSE g[k - 1] + Of(run, k)
    BY <1>5, <1>6, <2>1 DEF GoesOn
  <2> HIDE DEF n
  <2> QED BY <1>6, <2>2 DEF GoesOn
<1>8. Recursion(after)
  <2> HIDE DEF Recursion
  <2> QED BY <1>7
<1>9. /\ after[0] = first /\ DOMAIN after = 0 .. n
      /\ \A k \in 1 .. n : after[k] = after[k - 1] + Of(run, k)
  <2> HIDE DEF after, n
  <2>1. DOMAIN after = 0 .. n /\ \A k \in 0 .. n : after[k] = IF k = 0 THEN first ELSE after[k - 1] + Of(run, k)
    BY <1>8
  <2>2. 0 \in 0 .. n /\ \A k \in 1 .. n : k \in 0 .. n /\ k # 0
    BY <1>1
  <2> QED BY <2>1, <2>2
<1>10. \A k \in 0 .. n : after[k] \in Nat
  <2> DEFINE P == {k \in 0 .. n : after[k] \in Nat}
  <2> HIDE DEF after
  <2>1. 0 \in P
    BY <1>1, <1>2, <1>9
  <2>2. ASSUME NEW k \in 1 .. n, k - 1 \in P PROVE k \in P
    <3> DEFINE a == after[k - 1]
               b == Of(run, k)
    <3>1. a \in Nat /\ b \in Nat /\ after[k] = a + b
      BY <1>3, <1>9, <2>2
    <3> HIDE DEF a, b
    <3>2. after[k] \in Nat
      BY ONLY <3>1
    <3>3. k \in 0 .. n
      BY <1>1
    <3> QED BY <3>2, <3>3
  <2>3. \A k \in 0 .. n : k \in P
    <3> HIDE DEF P, n
    <3> QED BY ONLY <1>1, <2>1, <2>2, IntervalInduction
  <2> QED BY <2>3
<1>11. Instructed(run) = after[Len(run.calls)]
  BY DEF Instructed, Of, first
<1>12. after \in [0 .. n -> Nat]
  <2>1. after = [k \in 0 .. n |-> after[k]]
    <3> HIDE DEF after
    <3> QED BY <1>8
  <2> HIDE DEF after
  <2> QED BY <1>10, <2>1
<1> HIDE DEF after
<1> QED BY <1>9, <1>11, <1>12 DEF first

(* A plugin that was instantiated was valid, granted no more than it declared, and all it *)
(* imports is linked; its start function ended without a trap.                             *)
LEMMA PluginBegins ==
  ASSUME NEW run, IsPluginRun(run), PluginLife(run).error = "none"
  PROVE  /\ Valid(run.manifest) /\ run.granted \subseteq run.manifest.capabilities
         /\ run.module.imports \subseteq Linked(run.granted) /\ run.limits.pages >= 1
         /\ \E fresh \in Instance :
              /\ ~fresh.trapped
              /\ Left([fuel |-> run.limits.fuel, pages |-> 1, log |-> <<>>, trapped |-> FALSE], fresh,
                      run.module.start, Len(run.module.start), run.limits.pages)
              /\ PluginLife(run).instance = CallEach(fresh, run.module, run.calls, run.limits)
<1> DEFINE first == [fuel |-> run.limits.fuel, pages |-> 1, log |-> <<>>, trapped |-> FALSE]
           fresh == Run(first, run.module.start, run.limits.pages)
           made == InstantiateFromManifest(run.module, run.manifest, run.granted, run.limits)
<1>1. /\ run.limits.pages \in Nat /\ run.limits.fuel \in Nat /\ run.module.start \in Seq(Instructions)
  BY DEF IsPluginRun, IsPlugin
<1>2. first \in Instance
  <2>1. <<>> \in Seq(HostFunctions)
    OBVIOUS
  <2> QED BY <1>1, <2>1 DEF Instance
<1>3. fresh \in Instance /\ Left(first, fresh, run.module.start, Len(run.module.start), run.limits.pages)
  <2> HIDE DEF first
  <2> QED BY <1>1, <1>2, RunLeaves
<1> HIDE DEF fresh, first
<1>4. made = IF ~Valid(run.manifest) THEN [error |-> "manifest"]
             ELSE IF ~(run.granted \subseteq run.manifest.capabilities) THEN [error |-> "undeclared"]
             ELSE IF ~(run.module.imports \subseteq Linked(run.granted)) \/ run.limits.pages < 1 \/ fresh.trapped
             THEN [error |-> "instantiate"] ELSE [error |-> "none", instance |-> fresh]
  BY DEF InstantiateFromManifest, Instantiate, fresh, first
<1> HIDE DEF made
<1>5. PluginLife(run) = IF made.error # "none" THEN made
                        ELSE [error |-> "none", instance |-> CallEach(made.instance, run.module, run.calls, run.limits)]
  BY DEF PluginLife, made
<1>6. made.error = "none"
  BY <1>5
<1>7. /\ Valid(run.manifest) /\ run.granted \subseteq run.manifest.capabilities
      /\ run.module.imports \subseteq Linked(run.granted) /\ ~(run.limits.pages < 1) /\ ~fresh.trapped
      /\ made = [error |-> "none", instance |-> fresh]
  BY <1>4, <1>6
<1>8. made.instance = fresh
  BY <1>7
<1>9. PluginLife(run).instance = CallEach(fresh, run.module, run.calls, run.limits)
  BY <1>5, <1>6, <1>8
<1> QED BY <1>1, <1>3, <1>7, <1>9 DEF first

Exported(module) == UNION {Range(module.exports[e]) : e \in DOMAIN module.exports}

(* What all of a plugin's life leaves of its budget, and what it reached.                  *)
LEMMA PluginLives ==
  ASSUME NEW run, IsPluginRun(run), PluginLife(run).error = "none"
  PROVE  /\ PluginLife(run).instance \in Instance
         /\ PluginLife(run).instance.pages <= run.limits.pages
         /\ Range(PluginLife(run).instance.log) \subseteq
               (Range(run.module.start) \cup Exported(run.module)) \cap HostFunctions
         /\ Len(PluginLife(run).instance.log) <= run.limits.fuel - PluginLife(run).instance.fuel
         /\ Len(run.module.start) <= run.limits.fuel - PluginLife(run).instance.fuel
         /\ PluginLife(run).instance.fuel > 0 /\ "trap" \notin Exported(run.module) =>
              run.limits.fuel - PluginLife(run).instance.fuel = Instructed(run)
<1> DEFINE n == Len(run.calls)
           first == [fuel |-> run.limits.fuel, pages |-> 1, log |-> <<>>, trapped |-> FALSE]
           reach == (Range(run.module.start) \cup Exported(run.module)) \cap HostFunctions
           life == PluginLife(run).instance
<1>1. /\ run.limits.pages \in Nat /\ run.limits.fuel \in Nat /\ run.calls \in Seq(STRING) /\ n \in Nat
      /\ IsPlugin(run.module) /\ run.module.start \in Seq(Instructions) /\ Len(run.module.start) \in Nat
  <2>1. run.module.start \in Seq(Instructions)
    BY DEF IsPluginRun, IsPlugin
  <2>2. Len(run.module.start) \in Nat
    BY ONLY <2>1, LenProperties
  <2> QED BY <2>1, <2>2 DEF IsPluginRun
<1>2. PICK fresh \in Instance :
        /\ ~fresh.trapped /\ Left(first, fresh, run.module.start, Len(run.module.start), run.limits.pages)
        /\ life = CallEach(fresh, run.module, run.calls, run.limits)
  BY PluginBegins
<1>3. run.limits.pages >= 1
  BY PluginBegins
<1> HIDE DEF life
<1>4. PICK g : Called(g, fresh, run.module, run.calls, run.limits)
  BY <1>1, CallSteps
<1>5. /\ g \in [0 .. n -> Instance] /\ g[0] = fresh
      /\ \A k \in 1 .. n : g[k] = CallI32(g[k - 1], run.module, run.calls[k], run.limits)
      /\ CallEach(fresh, run.module, run.calls, run.limits) = g[n]
  BY <1>4 DEF Called
<1>6. PICK t \in [0 .. n -> Nat] : /\ t[0] = Len(run.module.start)
                                   /\ \A k \in 1 .. n : t[k] = t[k - 1] + Of(run, k)
                                   /\ Instructed(run) = t[n]
  BY InstructedSteps
<1> DEFINE Inv(k) == /\ g[k].fuel <= run.limits.fuel - Len(run.module.start)
                     /\ g[k].pages <= run.limits.pages
                     /\ Range(g[k].log) \subseteq reach
                     /\ Len(g[k].log) <= run.limits.fuel - g[k].fuel
                     /\ g[k].fuel > 0 /\ "trap" \notin Exported(run.module) => run.limits.fuel - g[k].fuel = t[k]
           P == {k \in 0 .. n : Inv(k)}
<1>7. \A k \in 0 .. n : /\ g[k] \in Instance /\ g[k].fuel \in Nat /\ g[k].pages \in Nat
                         /\ g[k].log \in Seq(HostFunctions) /\ Len(g[k].log) \in Nat /\ t[k] \in Nat
  BY <1>5, <1>6 DEF Instance
<1>8. 0 \in P
  <2>1. /\ first.fuel = run.limits.fuel /\ first.pages = 1 /\ first.log = <<>>
    OBVIOUS
  <2> HIDE DEF first
  <2>2. Range(first.log) = {} /\ Len(first.log) = 0
    BY <2>1 DEF Range
  <2>3. /\ fresh.fuel = run.limits.fuel - Len(run.module.start)
        /\ fresh.pages <= run.limits.pages
        /\ Range(fresh.log) \subseteq Range(run.module.start) \cap HostFunctions
        /\ Len(fresh.log) <= run.limits.fuel - fresh.fuel
    BY <1>1, <1>2, <1>3, <1>5, <1>7, <2>1, <2>2 DEF Left
  <2>4. Inv(0)
    BY <1>1, <1>5, <1>6, <1>7, <2>3
  <2> HIDE DEF Inv
  <2> QED BY <1>1, <2>4
<1>9. ASSUME NEW k \in 1 .. n, k - 1 \in P PROVE k \in P
  <2>1. k \in Nat /\ k \in 0 .. n /\ k - 1 \in 0 .. n /\ Inv(k - 1)
    BY <1>1, <1>9
  <2>2. CASE run.calls[k] \notin DOMAIN run.module.exports
    <3>1. g[k] = g[k - 1] /\ Of(run, k) = 0
      BY <1>5, <2>2 DEF CallI32, Of
    <3>2. t[k] = t[k - 1]
      <4>1. t[k] = t[k - 1] + Of(run, k) /\ t[k - 1] \in Nat
        BY <1>6, <1>7, <2>1
      <4> QED BY ONLY <3>1, <4>1
    <3>3. Inv(k)
      BY <2>1, <3>1, <3>2
    <3> HIDE DEF Inv
    <3> QED BY <2>1, <3>3
  <2>3. CASE run.calls[k] \in DOMAIN run.module.exports
    <3> DEFINE code == run.module.exports[run.calls[k]]
               x == g[k - 1]
               next == Run(x, code, run.limits.pages)
    <3>1. code \in Seq(Instructions)
      BY <1>1, <2>3 DEF IsPlugin
    <3>2. Len(code) \in Nat
      BY ONLY <3>1, LenProperties
    <3>3. g[k] = next /\ Of(run, k) = Len(code)
      BY <1>5, <2>3 DEF CallI32, Of
    <3>4. Left(x, next, code, Len(code), run.limits.pages)
      <4>1. x \in Instance
        BY <1>7, <2>1
      <4> HIDE DEF x, code
      <4> QED BY <1>1, <3>1, <4>1, RunLeaves
    <3>5. Range(code) \subseteq Exported(run.module)
      BY <2>3 DEF Exported
    <3>6. /\ next.fuel <= x.fuel /\ (x.pages <= run.limits.pages => next.pages <= run.limits.pages)
          /\ Range(next.log) \subseteq Range(x.log) \cup (Range(code) \cap HostFunctions)
          /\ Len(next.log) - Len(x.log) <= x.fuel - next.fuel
          /\ next.fuel > 0 /\ "trap" \notin Range(code) => next.fuel = x.fuel - Len(code)
      <4> HIDE DEF next, x, code
      <4> QED BY <3>4 DEF Left
    <3>7. /\ next.fuel \in Nat /\ next.pages \in Nat /\ Len(next.log) \in Nat
          /\ x.fuel \in Nat /\ x.pages \in Nat /\ Len(x.log) \in Nat
          /\ t[k] \in Nat /\ t[k - 1] \in Nat /\ t[k] = t[k - 1] + Len(code)
      BY <1>6, <1>7, <2>1, <3>3
    <3>8. /\ x.fuel <= run.limits.fuel - Len(run.module.start) /\ x.pages <= run.limits.pages
          /\ Range(x.log) \subseteq reach /\ Len(x.log) <= run.limits.fuel - x.fuel
          /\ x.fuel > 0 /\ "trap" \notin Exported(run.module) => run.limits.fuel - x.fuel = t[k - 1]
      BY <2>1
    <3> HIDE DEF x, code, next
    <3>9. Range(next.log) \subseteq reach
      BY <3>5, <3>6, <3>8
    <3>10. Len(next.log) <= run.limits.fuel - next.fuel
      <4> DEFINE a == Len(next.log)
                 b == Len(x.log)
      <4>1. a \in Nat /\ b \in Nat /\ a - b <= x.fuel - next.fuel /\ b <= run.limits.fuel - x.fuel
        BY <3>6, <3>7, <3>8
      <4> HIDE DEF a, b
      <4>2. next.fuel \in Nat /\ x.fuel \in Nat /\ run.limits.fuel \in Nat
        BY <1>1, <3>7
      <4>3. a <= run.limits.fuel - next.fuel
        BY ONLY <4>1, <4>2
      <4> QED BY <4>3 DEF a
    <3>11. next.fuel <= run.limits.fuel - Len(run.module.start) /\ next.pages <= run.limits.pages
      <4> DEFINE m == Len(run.module.start)
      <4>1. /\ next.fuel \in Nat /\ x.fuel \in Nat /\ run.limits.fuel \in Nat /\ m \in Nat
            /\ next.fuel <= x.fuel /\ x.fuel <= run.limits.fuel - m
        BY <1>1, <3>6, <3>7, <3>8
      <4>2. next.pages <= run.limits.pages
        BY <3>6, <3>8
      <4> HIDE DEF m
      <4>3. next.fuel <= run.limits.fuel - m
        BY ONLY <4>1
      <4> QED BY <4>2, <4>3 DEF m
    <3>12. ASSUME next.fuel > 0, "trap" \notin Exported(run.module) PROVE run.limits.fuel - next.fuel = t[k]
      <4>1. x.fuel > 0 /\ next.fuel = x.fuel - Len(code)
        <5>1. next.fuel = x.fuel - Len(code)
          BY <3>5, <3>6, <3>12
        <5>2. x.fuel > 0
          <6>1. next.fuel \in Nat /\ x.fuel \in Nat /\ next.fuel <= x.fuel
            BY <3>6, <3>7
          <6> QED BY ONLY <6>1, <3>12
        <5> QED BY <5>1, <5>2
      <4>2. /\ next.fuel \in Nat /\ x.fuel \in Nat /\ run.limits.fuel \in Nat
            /\ t[k] \in Nat /\ t[k - 1] \in Nat
        BY <1>1, <3>7
      <4>3. run.limits.fuel - x.fuel = t[k - 1] /\ t[k] = t[k - 1] + Len(code)
        BY <3>7, <3>8, <3>12, <4>1
      <4> DEFINE m == Len(code)
                 before == t[k - 1]
                 after == t[k]
                 budget == run.limits.fuel
                 left == x.fuel
                 rest == next.fuel
      <4>4. /\ m \in Nat /\ rest \in Nat /\ left \in Nat /\ budget \in Nat /\ after \in Nat /\ before \in Nat
            /\ rest = left - m /\ after = before + m /\ budget - left = before
        BY <3>2, <4>1, <4>2, <4>3
      <4> HIDE DEF m, before, after, budget, left, rest
      <4>5. budget - rest = after
        BY ONLY <4>4
      <4> QED BY <4>5 DEF budget, rest, after
    <3>13. Inv(k)
      BY <3>3, <3>9, <3>10, <3>11, <3>12
    <3> HIDE DEF Inv
    <3> QED BY <2>1, <3>13
  <2> QED BY <2>2, <2>3
<1>10. Inv(n)
  <2> HIDE DEF Inv
  <2>1. \A k \in 0 .. n : k \in P
    <3> HIDE DEF P, n
    <3> QED BY ONLY <1>1, <1>8, <1>9, IntervalInduction
  <2> QED BY <1>1, <2>1
<1>11. life = g[n] /\ n \in 0 .. n
  BY <1>1, <1>2, <1>5
<1> HIDE DEF n
<1>12. /\ life \in Instance /\ life.fuel \in Nat /\ life.pages <= run.limits.pages /\ Range(life.log) \subseteq reach
       /\ Len(life.log) <= run.limits.fuel - life.fuel
       /\ life.fuel <= run.limits.fuel - Len(run.module.start)
       /\ life.fuel > 0 /\ "trap" \notin Exported(run.module) => run.limits.fuel - life.fuel = Instructed(run)
  BY <1>6, <1>7, <1>10, <1>11
<1>13. Len(run.module.start) <= run.limits.fuel - life.fuel
  <2> DEFINE m == Len(run.module.start)
  <2>1. m \in Nat /\ run.limits.fuel \in Nat /\ life.fuel \in Nat /\ life.fuel <= run.limits.fuel - m
    BY <1>1, <1>12
  <2> HIDE DEF m
  <2>2. m <= run.limits.fuel - life.fuel
    BY ONLY <2>1
  <2> QED BY <2>2 DEF m
<1>14. /\ life \in Instance /\ life.pages <= run.limits.pages /\ Range(life.log) \subseteq reach
       /\ Len(life.log) <= run.limits.fuel - life.fuel /\ Len(run.module.start) <= run.limits.fuel - life.fuel
  BY <1>12, <1>13
<1>15. life.fuel > 0 /\ "trap" \notin Exported(run.module) => run.limits.fuel - life.fuel = Instructed(run)
  BY <1>12
<1> QED BY ONLY <1>14, <1>15 DEF life

(* host.rs: whatever a plugin does, however often it is called, it reaches no host function *)
(* but those its granted capabilities stand for.                                             *)
THEOREM PluginGrantSound == Spec => []PluginStaysInItsGrant
<1>1. Given /\ Computed => PluginStaysInItsGrant
  <2> SUFFICES ASSUME Given, Computed, done, input.kind = "plugin", outcome.error = "none"
               PROVE  PluginStaysInItsGrant
    BY DEF PluginStaysInItsGrant
  <2>1. IsPluginRun(input) /\ outcome = PluginLife(input)
    BY PluginRunsAssumption DEF Given, Computed, IsAnswer
  <2>2. /\ Valid(input.manifest) /\ input.granted \subseteq input.manifest.capabilities
        /\ input.module.imports \subseteq Linked(input.granted)
    BY <2>1, PluginBegins
  <2>3. Range(outcome.instance.log) \subseteq (Range(input.module.start) \cup Exported(input.module)) \cap HostFunctions
    BY <2>1, PluginLives
  <2>4. Range(outcome.instance.log) \subseteq Linked(input.granted)
    BY <2>1, <2>2, <2>3 DEF IsPluginRun, IsPlugin, Exported
  <2>5. input.granted \cap input.manifest.capabilities = input.granted
    BY <2>2
  <2>6. ASSUME NEW f \in Linked(input.granted)
        PROVE  /\ f = "network_fetch" => "NetworkOutbound" \in input.granted
               /\ f = "read_file_metadata" => "FilesystemReadMetadata" \in input.granted
               /\ f = "llm_complete" => "ProviderLlm" \in input.granted
               /\ f = "emit_signal" => input.granted \cap Observing # {}
    BY DEF Linked
  <2>7. "ObserveScreenshot" \in input.granted => input.manifest.minPrivacyLevel = 4
    BY <2>2 DEF Valid, RequiresLevelFour
  <2>8. input.granted \cap Observing # {} =>
          \/ input.granted \cap {"ObserveActiveWindow", "ObserveClipboardMetadata", "ObserveFileOperations"} # {}
          \/ "ObserveScreenshot" \in input.granted /\ input.manifest.minPrivacyLevel = 4
    BY <2>7 DEF Observing
  <2> QED BY <2>4, <2>5, <2>6, <2>8 DEF PluginStaysInItsGrant
<1> QED BY <1>1, OutcomeIsComputed, PTL

(* host.rs DEFAULT_FUEL_BUDGET: whatever the budget and the calls, all of them together and *)
(* the start function live on that one budget, and memory on its cap.                        *)
THEOREM BudgetSound == Spec => []BudgetIsForLife
<1>1. Given /\ Computed => BudgetIsForLife
  <2> SUFFICES ASSUME Given, Computed, done, input.kind = "plugin", outcome.error = "none"
               PROVE  BudgetIsForLife
    BY DEF BudgetIsForLife
  <2>1. IsPluginRun(input) /\ outcome = PluginLife(input)
    BY PluginRunsAssumption DEF Given, Computed, IsAnswer
  <2>2. /\ outcome.instance \in Instance /\ outcome.instance.pages <= input.limits.pages
        /\ Len(outcome.instance.log) <= input.limits.fuel - outcome.instance.fuel
        /\ Len(input.module.start) <= input.limits.fuel - outcome.instance.fuel
        /\ outcome.instance.fuel > 0 /\ "trap" \notin Exported(input.module) =>
             input.limits.fuel - outcome.instance.fuel = Instructed(input)
    BY <2>1, PluginLives
  <2>3. outcome.instance.fuel \in Nat
    BY <2>2 DEF Instance
  <2>4. "trap" \in Exported(input.module) <=> \E e \in DOMAIN input.module.exports : "trap" \in Range(input.module.exports[e])
    BY DEF Exported
  <2> QED BY <2>2, <2>3, <2>4 DEF BudgetIsForLife
<1> QED BY <1>1, OutcomeIsComputed, PTL

-----------------------------------------------------------------------------
(* Detecting the local runtimes *)

Runtime == [name : STRING, reachable : BOOLEAN, models : Seq(STRING)]
Candidates == [name : STRING, format : Formats]

Shifts(candidate, server, begun, timeout) ==
  LET probe == Probe(candidate, server, begun, begun + timeout) IN
  /\ probe.runtime = Probe(candidate, server, 0, timeout).runtime
  /\ probe.runtime \in Runtime /\ (probe.runtime.models # <<>> => probe.runtime.reachable)
  /\ probe.ended \in begun .. (begun + timeout)

(* A probe takes as long and reports the same whenever it begins.                           *)
LEMMA ProbeShifts ==
  ASSUME NEW candidate \in Candidates, NEW server \in Server, NEW begun \in Nat, NEW timeout \in Nat
  PROVE  Shifts(candidate, server, begun, timeout)
<1> DEFINE reached(b) == b + server.head <= b + timeout /\ server.success
           ended(b) == IF reached(b) THEN b + server.head + server.body ELSE b + server.head
           models(b) == IF reached(b) /\ ended(b) <= b + timeout THEN ParseModels(candidate.format, server) ELSE <<>>
           runtime(b) == [name |-> candidate.name, reachable |-> reached(b), models |-> models(b)]
           end(b) == IF ended(b) <= b + timeout THEN ended(b) ELSE b + timeout
<1>1. /\ server.head \in Nat /\ server.body \in Nat /\ server.success \in BOOLEAN /\ server.models \in Seq(STRING)
      /\ candidate.name \in STRING
  BY DEF Server, Candidates
<1>2. Probe(candidate, server, begun, begun + timeout) = [runtime |-> runtime(begun), ended |-> end(begun)]
  BY DEF Probe
<1>3. Probe(candidate, server, 0, timeout).runtime = runtime(0)
  <2>1. 0 + timeout = timeout
    OBVIOUS
  <2> QED BY <2>1 DEF Probe
<1>4. reached(begun) <=> reached(0)
  BY <1>1
<1>5. reached(begun) \in BOOLEAN /\ reached(0) \in BOOLEAN
  BY <1>1
<1>6. ended(begun) <= begun + timeout <=> ended(0) <= 0 + timeout
  BY <1>1, <1>4
<1>7. end(begun) \in begun .. (begun + timeout)
  BY <1>1
<1> HIDE DEF reached, ended, end
<1>8. models(begun) = models(0)
  BY <1>4, <1>6
<1> HIDE DEF models
<1>9. models(begun) \in Seq(STRING) /\ (models(begun) # <<>> => reached(begun))
  <2>1. <<>> \in Seq(STRING)
    OBVIOUS
  <2>2. ParseModels(candidate.format, server) \in Seq(STRING)
    BY <1>1, <2>1 DEF ParseModels
  <2> QED BY <2>1, <2>2 DEF models
<1>10. reached(begun) = reached(0)
  BY <1>4, <1>5
<1>11. runtime(begun) = runtime(0) /\ runtime(begun) \in Runtime
  BY <1>1, <1>5, <1>8, <1>9, <1>10 DEF Runtime
<1>12. runtime(begun).models # <<>> => runtime(begun).reachable
  BY <1>9
<1> HIDE DEF runtime
<1> QED BY <1>2, <1>3, <1>7, <1>11, <1>12 DEF Shifts

Detection == [now : Nat, runtimes : Seq(Runtime)]
Probed(x, candidate, server, timeout) ==
  [now |-> Probe(candidate, server, x.now, x.now + timeout).ended,
   runtimes |-> Append(x.runtimes, Probe(candidate, server, x.now, x.now + timeout).runtime)]

(* Probing one candidate after the other. *)
Detected(g, candidates, servers, timeout) ==
  /\ g \in [0 .. Len(candidates) -> Detection]
  /\ g[0] = [now |-> 0, runtimes |-> <<>>]
  /\ \A k \in 1 .. Len(candidates) : g[k] = Probed(g[k - 1], candidates[k], servers[k], timeout)
  /\ DetectRuntimes(candidates, servers, timeout) = g[Len(candidates)]

LEMMA DetectionSteps ==
  ASSUME NEW candidates \in Seq(Candidates), NEW servers \in Seq(Server), Len(servers) = Len(candidates), NEW timeout \in Nat
  PROVE  \E g : Detected(g, candidates, servers, timeout)
<1> DEFINE n == Len(candidates)
           first == [now |-> 0, runtimes |-> <<>>]
           F == [k \in 1 .. n |-> [x \in Detection |-> Probed(x, candidates[k], servers[k], timeout)]]
           Recursion(g) == g = [k \in 0 .. n |-> IF k = 0 THEN first ELSE Probed(g[k - 1], candidates[k], servers[k], timeout)]
           after == CHOOSE g : Recursion(g)
<1>1. n \in Nat
  OBVIOUS
<1>2. first \in Detection
  <2>1. <<>> \in Seq(Runtime)
    OBVIOUS
  <2> QED BY <2>1 DEF Detection
<1>3. ASSUME NEW k \in 1 .. n, NEW x \in Detection PROVE Probed(x, candidates[k], servers[k], timeout) \in Detection
  <2>1. /\ candidates[k] \in Candidates /\ servers[k] \in Server
        /\ x.now \in Nat /\ x.runtimes \in Seq(Runtime)
    BY DEF Detection
  <2> DEFINE probe == Probe(candidates[k], servers[k], x.now, x.now + timeout)
  <2>2. probe.ended \in x.now .. (x.now + timeout) /\ probe.runtime \in Runtime
    BY <2>1, ProbeShifts DEF Shifts
  <2> HIDE DEF probe
  <2>3. probe.ended \in Nat /\ Append(x.runtimes, probe.runtime) \in Seq(Runtime)
    BY <2>1, <2>2
  <2> QED BY <2>3 DEF Probed, Detection, probe
<1>4. Stays(F, n, Detection)
  <2> HIDE DEF n
  <2> QED BY <1>3 DEF Stays
<1>5. \A k \in 1 .. n : \A x \in Detection : F[k][x] = Probed(x, candidates[k], servers[k], timeout)
  OBVIOUS
<1> HIDE DEF F, first
<1>6. PICK g : GoesOn(g, first, F, n, Detection)
  <2> HIDE DEF n
  <2> QED BY ONLY <1>1, <1>2, <1>4, RecursionDefines
<1>7. Recursion(g)
  <2>1. \A k \in 0 .. n : k # 0 => k \in 1 .. n /\ g[k - 1] \in Detection
    BY <1>1, <1>6 DEF GoesOn
  <2>2. \A k \in 0 .. n : g[k] = IF k = 0 THEN first ELSE Probed(g[k - 1], candidates[k], servers[k], timeout)
    BY <1>5, <1>6, <2>1 DEF GoesOn
  <2> HIDE DEF n
  <2> QED BY <1>6, <2>2 DEF GoesOn
<1>8. Recursion(after)
  <2> HIDE DEF Recursion
  <2> QED BY <1>7
<1>9. /\ after[0] = first /\ DOMAIN after = 0 .. n
      /\ \A k \in 1 .. n : after[k] = Probed(after[k - 1], candidates[k], servers[k], timeout)
  <2> HIDE DEF after, n
  <2>1. DOMAIN after = 0 .. n /\ \A k \in 0 .. n : after[k] = IF k = 0 THEN first ELSE Probed(after[k - 1], candidates[k], servers[k], timeout)
    BY <1>8
  <2>2. 0 \in 0 .. n /\ \A k \in 1 .. n : k \in 0 .. n /\ k # 0
    BY <1>1
  <2> QED BY <2>1, <2>2
<1>10. \A k \in 0 .. n : after[k] \in Detection
  <2> DEFINE P == {k \in 0 .. n : after[k] \in Detection}
  <2> HIDE DEF after
  <2>1. 0 \in P
    BY <1>1, <1>2, <1>9
  <2>2. ASSUME NEW k \in 1 .. n, k - 1 \in P PROVE k \in P
    <3>1. after[k - 1] \in Detection /\ after[k] = Probed(after[k - 1], candidates[k], servers[k], timeout)
      BY <1>9, <2>2
    <3>2. after[k] \in Detection /\ k \in 0 .. n
      BY <1>1, <1>3, <3>1
    <3> QED BY <3>2
  <2>3. \A k \in 0 .. n : k \in P
    <3> HIDE DEF P, n
    <3> QED BY ONLY <1>1, <2>1, <2>2, IntervalInduction
  <2> QED BY <2>3
<1>11. DetectRuntimes(candidates, servers, timeout) = after[Len(candidates)]
  BY DEF DetectRuntimes, Probed, first
<1>12. after \in [0 .. n -> Detection]
  <2>1. after = [k \in 0 .. n |-> after[k]]
    <3> HIDE DEF after
    <3> QED BY <1>8
  <2> HIDE DEF after
  <2> QED BY <1>10, <2>1
<1> HIDE DEF after
<1>13. Detected(after, candidates, servers, timeout)
  BY <1>9, <1>11, <1>12 DEF first, Detected
<1> QED BY <1>13

(* detection.rs detect: with any number of candidates and whatever servers, each is reported *)
(* as if it had been probed alone, and none keeps the others waiting beyond its timeout.       *)
THEOREM ProbesSound == Spec => []ProbesAreIndependent
<1>1. Given /\ Computed => ProbesAreIndependent
  <2> SUFFICES ASSUME Given, Computed, done, input.kind = "runtimes" PROVE ProbesAreIndependent
    BY DEF ProbesAreIndependent
  <2> DEFINE candidates == input.candidates
             servers == input.servers
             timeout == input.timeout
             n == Len(candidates)
             alone(i) == Probe(candidates[i], servers[i], 0, timeout).runtime
  <2>1. /\ candidates \in Seq(Candidates) /\ servers \in Seq(Server) /\ Len(servers) = n /\ timeout \in Nat
        /\ n \in Nat /\ DOMAIN candidates = 1 .. n
        /\ \A i \in 1 .. n : candidates[i] \in Candidates /\ servers[i] \in Server
    <3>1. candidates \in Seq(Candidates) /\ servers \in Seq(Server) /\ Len(servers) = n /\ timeout \in Nat
      BY RuntimesAssumption DEF Given, IsRuntimes, Candidates
    <3> HIDE DEF candidates, servers
    <3> QED BY <3>1
  <2>2. PICK g : Detected(g, candidates, servers, timeout)
    BY <2>1, DetectionSteps
  <2>3. /\ g \in [0 .. n -> Detection] /\ g[0] = [now |-> 0, runtimes |-> <<>>]
        /\ \A k \in 1 .. n : g[k] = Probed(g[k - 1], candidates[k], servers[k], timeout)
        /\ outcome = g[n]
    BY <2>2 DEF Detected, Computed, IsAnswer
  <2> HIDE DEF candidates, servers, timeout, n
  <2> DEFINE Inv(k) == /\ g[k].now <= k * timeout
                       /\ Len(g[k].runtimes) = k
                       /\ \A i \in 1 .. k : g[k].runtimes[i] = alone(i)
             P == {k \in 0 .. n : Inv(k)}
  <2>4. 0 \in P
    <3>1. g[0].now = 0 /\ g[0].runtimes = <<>> /\ 0 * timeout = 0
      BY <2>1, <2>3
    <3>2. Inv(0)
      BY <3>1
    <3> HIDE DEF Inv
    <3> QED BY <2>1, <3>2
  <2>5. ASSUME NEW k \in 1 .. n, k - 1 \in P PROVE k \in P
    <3> DEFINE x == g[k - 1]
               probe == Probe(candidates[k], servers[k], x.now, x.now + timeout)
    <3>1. /\ k \in Nat /\ k \in 0 .. n /\ x.now \in Nat /\ x.runtimes \in Seq(Runtime)
          /\ candidates[k] \in Candidates /\ servers[k] \in Server
      <4>1. k \in Nat /\ k \in 0 .. n /\ k - 1 \in 0 .. n
        BY <2>1
      <4>2. x \in Detection
        BY <2>3, <4>1
      <4> QED BY <2>1, <4>1, <4>2 DEF Detection
    <3>2. probe.runtime = alone(k) /\ probe.ended <= x.now + timeout /\ probe.ended \in Nat /\ probe.runtime \in Runtime
      <4>1. Shifts(candidates[k], servers[k], x.now, timeout)
        BY <2>1, <3>1, ProbeShifts
      <4>2. probe.runtime = alone(k) /\ probe.runtime \in Runtime /\ probe.ended \in x.now .. (x.now + timeout)
        BY <4>1 DEF Shifts
      <4> HIDE DEF probe, alone
      <4> QED BY <2>1, <3>1, <4>2
    <3>3. g[k] = [now |-> probe.ended, runtimes |-> Append(x.runtimes, probe.runtime)]
      BY <2>3 DEF Probed
    <3>4. Inv(k - 1)
      BY <2>5
    <3> HIDE DEF probe, alone
    <3>5. g[k].now <= k * timeout
      <4>1. (k - 1) * timeout + timeout = k * timeout /\ (k - 1) * timeout \in Int /\ k * timeout \in Int
        BY <2>1, <3>1
      <4>2. x.now <= (k - 1) * timeout
        BY <3>4
      <4> HIDE DEF x
      <4>3. probe.ended <= k * timeout
        BY <2>1, <3>1, <3>2, <4>1, <4>2
      <4> QED BY <3>3, <4>3
    <3>6. Len(g[k].runtimes) = k
      <4>1. Len(x.runtimes) = k - 1
        BY <3>4
      <4> HIDE DEF x
      <4> QED BY <3>1, <3>2, <3>3, <4>1
    <3>7. \A i \in 1 .. k : g[k].runtimes[i] = alone(i)
      <4>1. Len(x.runtimes) = k - 1 /\ \A i \in 1 .. (k - 1) : x.runtimes[i] = alone(i)
        BY <3>4
      <4> HIDE DEF x
      <4>2. g[k].runtimes = Append(x.runtimes, probe.runtime)
        BY <3>3
      <4>3. \A i \in 1 .. k : Append(x.runtimes, probe.runtime)[i] = IF i = k THEN probe.runtime ELSE x.runtimes[i]
        BY <3>1, <3>2, <4>1
      <4> QED BY <3>1, <3>2, <4>1, <4>2, <4>3
    <3>8. Inv(k)
      BY <3>5, <3>6, <3>7
    <3> HIDE DEF Inv
    <3> QED BY <3>1, <3>8
  <2>6. Inv(n)
    <3> HIDE DEF Inv
    <3>1. \A k \in 0 .. n : k \in P
      <4> HIDE DEF P
      <4> QED BY ONLY <2>1, <2>4, <2>5, IntervalInduction
    <3> QED BY <2>1, <3>1
  <2>7. \A i \in 1 .. n : alone(i).models # <<>> => alone(i).reachable
    <3> SUFFICES ASSUME NEW i \in 1 .. n PROVE alone(i).models # <<>> => alone(i).reachable
      OBVIOUS
    <3>1. 0 + timeout = timeout /\ 0 \in Nat
      BY <2>1
    <3>2. candidates[i] \in Candidates /\ servers[i] \in Server
      BY <2>1
    <3>3. Shifts(candidates[i], servers[i], 0, timeout)
      BY <2>1, <3>1, <3>2, ProbeShifts
    <3> QED BY <3>1, <3>3 DEF Shifts
  <2> QED BY <2>1, <2>3, <2>6, <2>7 DEF ProbesAreIndependent, candidates, servers, timeout, n
<1> QED BY <1>1, OutcomeIsComputed, PTL

-----------------------------------------------------------------------------
(* The clipboard source *)

Answer == [owner : Nat, holds : {"nothing"}] \cup [owner : Nat, holds : {"targets"}, targets : Seq(STRING)]
          \cup [owner : Nat, holds : {"data"}, of : STRING]
Sources == [lastOwner : Nat, queue : Seq(BOOLEAN), property : Answer]

Requested(source, answer, when) ==
  LET request == Request(source, answer, when) IN
  /\ request.source \in Sources /\ request.source.lastOwner = source.lastOwner
  /\ request.read \in Answer \cup {Nothing, Refusal}
  /\ source.queue = <<>> =>
       /\ when \in {"fast", "timely"} => request.read = answer
       /\ when \in {"late", "never"} => request.read = Nothing
       /\ when # "late" => request.source.queue = <<>>

LEMMA NotifiedIsSource ==
  ASSUME NEW source \in Sources, NEW answer \in Answer \cup {Refusal}
  PROVE  /\ Written(source, answer) \in Sources /\ Written(source, answer).lastOwner = source.lastOwner
         /\ Written(source, answer).queue = source.queue
         /\ Notified(source, answer) \in Sources /\ Notified(source, answer).lastOwner = source.lastOwner
         /\ Notified(source, answer).queue = Append(source.queue, answer = Refusal)
<1> DEFINE written == Written(source, answer)
           refused == answer = Refusal
<1>1. written \in Sources /\ written.lastOwner = source.lastOwner /\ written.queue = source.queue
  BY DEF Written, Sources
<1>2. refused \in BOOLEAN
  OBVIOUS
<1>3. Notified(source, answer) = [written EXCEPT !.queue = Append(written.queue, refused)]
  BY <1>1 DEF Notified, Sources
<1> HIDE DEF written, refused
<1>4. Append(written.queue, refused) \in Seq(BOOLEAN)
  BY <1>1, <1>2 DEF Sources
<1>5. [written EXCEPT !.queue = Append(written.queue, refused)] \in Sources
  BY <1>1, <1>4 DEF Sources
<1>6. /\ [written EXCEPT !.queue = Append(written.queue, refused)].lastOwner = source.lastOwner
      /\ [written EXCEPT !.queue = Append(written.queue, refused)].queue = Append(source.queue, refused)
  BY <1>1 DEF Sources
<1> QED BY <1>1, <1>3, <1>5, <1>6 DEF written, refused

(* What a request leaves of the source, and what it reads if no notification is left over. *)
LEMMA RequestReads ==
  ASSUME NEW source \in Sources, NEW answer \in Answer \cup {Refusal}, NEW when \in Timings
  PROVE  Requested(source, answer, when)
<1> DEFINE request == Request(source, answer, when)
<1>1. /\ source.queue \in Seq(BOOLEAN) /\ source.property \in Answer
      /\ when \in {"fast", "timely", "late", "never"}
  BY DEF Sources, Timings
<1>2. CASE source.queue = <<>>
  <2>1. CASE when \in {"fast", "timely"}
    <3>1. request = [read |-> IF answer = Refusal THEN Refusal ELSE answer, source |-> Written(source, answer)]
      BY <1>2, <2>1 DEF Request
    <3>2. request.read = answer /\ request.source = Written(source, answer)
      BY <3>1
    <3> HIDE DEF request
    <3> QED BY <1>2, <2>1, <3>2, NotifiedIsSource DEF Requested, request
  <2>2. CASE when = "late"
    <3>1. request = [read |-> Nothing, source |-> Notified(source, answer)]
      BY <1>2, <2>2 DEF Request
    <3>2. request.read = Nothing /\ request.source = Notified(source, answer)
      BY <3>1
    <3> HIDE DEF request
    <3> QED BY <1>2, <2>2, <3>2, NotifiedIsSource DEF Requested, request
  <2>3. CASE when = "never"
    <3>1. request = [read |-> Nothing, source |-> source]
      BY <1>2, <2>3 DEF Request
    <3>2. request.read = Nothing /\ request.source = source
      BY <3>1
    <3> HIDE DEF request
    <3> QED BY <1>2, <2>3, <3>2 DEF Requested, request
  <2> QED BY <1>1, <2>1, <2>2, <2>3
<1>3. CASE source.queue # <<>>
  <2> DEFINE early == IF when = "fast" THEN Notified(source, answer) ELSE source
             taken == [early EXCEPT !.queue = Tail(early.queue)]
             left == IF when \in {"timely", "late"} THEN Notified(taken, answer) ELSE taken
  <2>1. early \in Sources /\ early.lastOwner = source.lastOwner
    BY NotifiedIsSource
  <2>2. early.queue # <<>> /\ early.queue \in Seq(BOOLEAN)
    <3>1. Notified(source, answer).queue = Append(source.queue, answer = Refusal)
      BY NotifiedIsSource
    <3>2. Append(source.queue, answer = Refusal) # <<>>
      <4> DEFINE refused == answer = Refusal
      <4> HIDE DEF refused
      <4>1. Append(source.queue, refused) # <<>>
        BY <1>1
      <4> QED BY <4>1 DEF refused
    <3>3. early.queue \in Seq(BOOLEAN)
      <4> HIDE DEF early
      <4> QED BY <2>1 DEF Sources
    <3> QED BY <1>3, <3>1, <3>2, <3>3
  <2> HIDE DEF early
  <2>3. taken \in Sources /\ taken.lastOwner = source.lastOwner /\ taken.property \in Answer
    <3>1. Tail(early.queue) \in Seq(BOOLEAN)
      <4> DEFINE queue == early.queue
      <4>1. queue \in Seq(BOOLEAN) /\ queue # <<>>
        BY <2>2
      <4> HIDE DEF queue
      <4>2. Tail(queue) \in Seq(BOOLEAN)
        BY ONLY <4>1, HeadTailProperties
      <4> QED BY <4>2 DEF queue
    <3> QED BY <2>1, <3>1 DEF Sources
  <2>4. request = [read |-> IF Head(source.queue) THEN Refusal ELSE taken.property, source |-> left]
    <3>1. taken = [early EXCEPT !.queue = Tail(@)]
      BY <2>1 DEF Sources
    <3> QED BY <1>3, <3>1 DEF Request, early
  <2> HIDE DEF taken
  <2>5. left \in Sources /\ left.lastOwner = source.lastOwner
    BY <2>3, NotifiedIsSource
  <2> HIDE DEF left
  <2>6. request.read \in Answer \cup {Refusal} /\ request.source = left
    <3> HIDE DEF request
    <3>1. CASE Head(source.queue)
      BY <2>4, <3>1
    <3>2. CASE ~Head(source.queue)
      BY <2>3, <2>4, <3>2
    <3> QED BY <3>1, <3>2
  <2> HIDE DEF request
  <2> QED BY <1>3, <2>5, <2>6 DEF Requested, request
<1> QED BY <1>2, <1>3

LEMMA ChosenIsOffered ==
  ASSUME NEW targets \in Seq(STRING), targets # <<>>
  PROVE  /\ ChosenTarget(targets) \in Range(targets) /\ ChosenTarget(targets) \in STRING
         /\ Range(targets) \cap Textual # {} => ChosenTarget(targets) \in Textual
<1> DEFINE texts == {i \in DOMAIN targets : targets[i] \in Textual}
<1>1. Len(targets) \in Nat \ {0} /\ DOMAIN targets = 1 .. Len(targets) /\ \A i \in DOMAIN targets : targets[i] \in STRING
  OBVIOUS
<1>2. CASE texts # {}
  <2>1. texts \in SUBSET Nat
    BY <1>1
  <2>2. Min(texts) \in texts
    BY <1>2, <2>1, MinIsLeast
  <2>3. ChosenTarget(targets) = targets[Min(texts)]
    BY <1>2 DEF ChosenTarget
  <2> QED BY <1>1, <2>2, <2>3 DEF Range
<1>3. CASE texts = {}
  <2>1. ChosenTarget(targets) = targets[1] /\ 1 \in DOMAIN targets
    BY <1>1, <1>3 DEF ChosenTarget
  <2>2. Range(targets) \cap Textual = {}
    BY <1>3 DEF Range
  <2> QED BY <1>1, <2>1, <2>2 DEF Range
<1> QED BY <1>2, <1>3

(* One poll: what it leaves, and what it reports. *)
PollAsks(source, round) == round.owner \notin {NoOwner, source.lastOwner}
Reported(source, round) ==
  LET poll == Poll(source, round)
      report(target) == [type |-> target, sizeOf |-> [owner |-> round.owner, holds |-> "data", of |-> target]]
  IN
  /\ poll.source \in Sources /\ poll.source.lastOwner = round.owner
  /\ poll.report # <<>> => PollAsks(source, round)
  /\ source.queue = <<>> =>
       /\ poll.source.queue = <<>> \/ (PollAsks(source, round) /\ "late" \in {round.targetsAnswer, round.dataAnswer})
       /\ IF PollAsks(source, round) /\ InTime(round) /\ round.targets # <<>>
          THEN poll.report = <<report(ChosenTarget(round.targets))>> ELSE poll.report = <<>>

LEMMA PollReports ==
  ASSUME NEW source \in Sources, NEW round \in Round
  PROVE  Reported(source, round)
<1> DEFINE poll == Poll(source, round)
           known == [source EXCEPT !.lastOwner = round.owner]
           offer == [owner |-> round.owner, holds |-> "targets", targets |-> round.targets]
           first == Request(known, offer, round.targetsAnswer)
           target == ChosenTarget(first.read.targets)
           data(t) == [owner |-> round.owner, holds |-> "data", of |-> t]
           answer == IF target \in ToSet(round.targets) THEN data(target) ELSE Refusal
           second == Request(first.source, answer, round.dataAnswer)
<1>1. /\ round.owner \in Nat /\ round.targets \in Seq(STRING) /\ round.targetsAnswer \in Timings /\ round.dataAnswer \in Timings
  BY DEF Round
<1>2. known \in Sources /\ known.lastOwner = round.owner /\ known.queue = source.queue
  BY <1>1 DEF Sources
<1>3. offer \in Answer /\ offer.holds = "targets" /\ offer.targets = round.targets
  BY <1>1 DEF Answer
<1>4. Requested(known, offer, round.targetsAnswer)
  <2> HIDE DEF known, offer
  <2> QED BY <1>1, <1>2, <1>3, RequestReads
<1>5. /\ first.source \in Sources /\ first.source.lastOwner = round.owner
      /\ first.read \in Answer \cup {Nothing, Refusal}
      /\ source.queue = <<>> =>
           /\ round.targetsAnswer \in {"fast", "timely"} => first.read = offer
           /\ round.targetsAnswer \in {"late", "never"} => first.read = Nothing
           /\ round.targetsAnswer # "late" => first.source.queue = <<>>
  <2> HIDE DEF known, offer
  <2> QED BY <1>2, <1>4 DEF Requested
<1>6. poll = IF round.owner = NoOwner \/ round.owner = source.lastOwner
             THEN [source |-> known, report |-> <<>>]
             ELSE IF first.read.holds # "targets" \/ (first.read.holds = "targets" /\ first.read.targets = <<>>)
             THEN [source |-> first.source, report |-> <<>>]
             ELSE [source |-> second.source,
                   report |-> IF second.read \in {Nothing, Refusal} THEN <<>>
                              ELSE <<[type |-> target, sizeOf |-> second.read]>>]
  BY DEF Poll
<1> HIDE DEF poll, known, first
<1>7. CASE ~PollAsks(source, round)
  <2>1. poll.source = known /\ poll.report = <<>>
    BY <1>6, <1>7 DEF PollAsks
  <2> QED BY <1>2, <1>7, <2>1 DEF Reported, poll
<1>8. CASE PollAsks(source, round) /\ first.read.holds # "targets"
  <2>1. poll.source = first.source /\ poll.report = <<>>
    BY <1>6, <1>8 DEF PollAsks
  <2>2. source.queue = <<>> => round.targetsAnswer \notin {"fast", "timely"}
    BY <1>3, <1>5, <1>8
  <2> QED BY <1>5, <1>8, <2>1, <2>2 DEF Reported, poll, InTime
<1>9. CASE PollAsks(source, round) /\ first.read.holds = "targets" /\ first.read.targets = <<>>
  <2>1. poll.source = first.source /\ poll.report = <<>>
    BY <1>6, <1>9 DEF PollAsks
  <2>2. source.queue = <<>> => ~(round.targetsAnswer \in {"fast", "timely"} /\ round.targets # <<>>)
    BY <1>3, <1>5, <1>9
  <2> QED BY <1>5, <1>9, <2>1, <2>2 DEF Reported, poll, InTime
<1>10. CASE PollAsks(source, round) /\ first.read.holds = "targets" /\ first.read.targets # <<>>
  <2>1. poll = [source |-> second.source, report |-> IF second.read \in {Nothing, Refusal} THEN <<>>
                                                     ELSE <<[type |-> target, sizeOf |-> second.read]>>]
    BY <1>6, <1>10 DEF PollAsks
  <2>2. first.read.targets \in Seq(STRING)
    BY <1>5, <1>10 DEF Answer, Nothing, Refusal
  <2>3. target \in STRING
    BY <1>10, <2>2, ChosenIsOffered
  <2> HIDE DEF target
  <2>4. answer \in Answer \cup {Refusal}
    BY <1>1, <2>3 DEF Answer
  <2>5. Requested(first.source, answer, round.dataAnswer)
    <3> HIDE DEF answer
    <3> QED BY <1>1, <1>5, <2>4, RequestReads
  <2>6. /\ second.source \in Sources /\ second.source.lastOwner = round.owner
        /\ first.source.queue = <<>> =>
             /\ round.dataAnswer \in {"fast", "timely"} => second.read = answer
             /\ round.dataAnswer \in {"late", "never"} => second.read = Nothing
             /\ round.dataAnswer # "late" => second.source.queue = <<>>
    <3> HIDE DEF answer
    <3> QED BY <1>5, <2>5 DEF Requested
  <2> HIDE DEF second
  <2>7. poll.source = second.source
    BY <2>1
  <2>8. ASSUME source.queue = <<>>
        PROVE  /\ poll.source.queue = <<>> \/ "late" \in {round.targetsAnswer, round.dataAnswer}
               /\ IF InTime(round) /\ round.targets # <<>>
                  THEN poll.report = <<[type |-> ChosenTarget(round.targets), sizeOf |-> data(ChosenTarget(round.targets))]>>
                  ELSE poll.report = <<>>
    <3>1. round.targetsAnswer \in {"fast", "timely"} /\ first.read = offer /\ first.source.queue = <<>>
      <4>1. first.read # Nothing
        BY <1>10 DEF Nothing
      <4> QED BY <1>1, <1>5, <2>8, <4>1 DEF Timings
    <3>2. target = ChosenTarget(round.targets) /\ round.targets # <<>>
      BY <1>3, <1>10, <3>1 DEF target
    <3>3. target \in ToSet(round.targets)
      <4>1. target \in Range(round.targets)
        BY <1>1, <3>2, ChosenIsOffered
      <4> QED BY <4>1 DEF Range, ToSet
    <3>4. answer = data(target) /\ data(target).holds = "data"
      BY <3>3
    <3>5. data(target) \notin {Nothing, Refusal}
      BY <3>4 DEF Nothing, Refusal
    <3> HIDE DEF data, answer
    <3>6. CASE round.dataAnswer \in {"fast", "timely"}
      <4>1. second.read = data(target) /\ second.source.queue = <<>>
        BY <2>6, <3>1, <3>4, <3>6
      <4>2. poll.report = <<[type |-> target, sizeOf |-> second.read]>>
        BY <2>1, <3>5, <4>1
      <4> QED BY <2>7, <3>1, <3>2, <3>6, <4>1, <4>2 DEF InTime
    <3>7. CASE round.dataAnswer \in {"late", "never"}
      <4>1. second.read = Nothing
        BY <2>6, <3>1, <3>7
      <4>2. poll.report = <<>>
        BY <2>1, <4>1
      <4>3. round.dataAnswer # "late" => second.source.queue = <<>>
        BY <2>6, <3>1
      <4> QED BY <2>7, <3>7, <4>2, <4>3 DEF InTime
    <3> QED BY <1>1, <3>6, <3>7 DEF Timings
  <2> QED BY <1>10, <2>6, <2>7, <2>8 DEF Reported, poll
<1> QED BY <1>7, <1>8, <1>9, <1>10

(* Polling time and again. *)
PolledBy(g, rounds) ==
  /\ g \in [0 .. Len(rounds) -> Sources]
  /\ g[0] = Source
  /\ \A k \in 1 .. Len(rounds) : g[k] = Poll(g[k - 1], rounds[k]).source
  /\ Polled(rounds) = g

LEMMA PolledSteps ==
  ASSUME NEW rounds \in Seq(Round)
  PROVE  \E g : PolledBy(g, rounds)
<1> DEFINE n == Len(rounds)
           first == Source
           F == [k \in 1 .. n |-> [x \in Sources |-> Poll(x, rounds[k]).source]]
           Recursion(g) == g = [k \in 0 .. n |-> IF k = 0 THEN first ELSE Poll(g[k - 1], rounds[k]).source]
           after == CHOOSE g : Recursion(g)
<1>1. n \in Nat
  OBVIOUS
<1>2. first \in Sources
  BY DEF Source, Sources, Answer, NoOwner
<1>3. ASSUME NEW k \in 1 .. n, NEW x \in Sources PROVE Poll(x, rounds[k]).source \in Sources
  <2>1. rounds[k] \in Round
    OBVIOUS
  <2> QED BY <2>1, PollReports DEF Reported
<1>4. Stays(F, n, Sources)
  <2> HIDE DEF n
  <2> QED BY <1>3 DEF Stays
<1>5. \A k \in 1 .. n : \A x \in Sources : F[k][x] = Poll(x, rounds[k]).source
  OBVIOUS
<1> HIDE DEF F, first
<1>6. PICK g : GoesOn(g, first, F, n, Sources)
  <2> HIDE DEF n
  <2> QED BY ONLY <1>1, <1>2, <1>4, RecursionDefines
<1>7. Recursion(g)
  <2>1. \A k \in 0 .. n : k # 0 => k \in 1 .. n /\ g[k - 1] \in Sources
    BY <1>1, <1>6 DEF GoesOn
  <2>2. \A k \in 0 .. n : g[k] = IF k = 0 THEN first ELSE Poll(g[k - 1], rounds[k]).source
    BY <1>5, <1>6, <2>1 DEF GoesOn
  <2> HIDE DEF n
  <2> QED BY <1>6, <2>2 DEF GoesOn
<1>8. Recursion(after)
  <2> HIDE DEF Recursion
  <2> QED BY <1>7
<1>9. /\ after[0] = first /\ DOMAIN after = 0 .. n
      /\ \A k \in 1 .. n : after[k] = Poll(after[k - 1], rounds[k]).source
  <2> HIDE DEF after, n
  <2>1. DOMAIN after = 0 .. n /\ \A k \in 0 .. n : after[k] = IF k = 0 THEN first ELSE Poll(after[k - 1], rounds[k]).source
    BY <1>8
  <2>2. 0 \in 0 .. n /\ \A k \in 1 .. n : k \in 0 .. n /\ k # 0
    BY <1>1
  <2> QED BY <2>1, <2>2
<1>10. \A k \in 0 .. n : after[k] \in Sources
  <2> DEFINE P == {k \in 0 .. n : after[k] \in Sources}
  <2> HIDE DEF after
  <2>1. 0 \in P
    BY <1>1, <1>2, <1>9
  <2>2. ASSUME NEW k \in 1 .. n, k - 1 \in P PROVE k \in P
    <3>1. after[k - 1] \in Sources /\ after[k] = Poll(after[k - 1], rounds[k]).source
      BY <1>9, <2>2
    <3>2. after[k] \in Sources /\ k \in 0 .. n
      BY <1>1, <1>3, <3>1
    <3> QED BY <3>2
  <2>3. \A k \in 0 .. n : k \in P
    <3> HIDE DEF P, n
    <3> QED BY ONLY <1>1, <2>1, <2>2, IntervalInduction
  <2> QED BY <2>3
<1>11. Polled(rounds) = after
  BY DEF Polled, first
<1>12. after \in [0 .. n -> Sources]
  <2>1. after = [k \in 0 .. n |-> after[k]]
    <3> HIDE DEF after
    <3> QED BY <1>8
  <2> HIDE DEF after
  <2> QED BY <1>10, <2>1
<1> HIDE DEF after
<1>13. PolledBy(after, rounds)
  BY <1>9, <1>11, <1>12 DEF first, PolledBy
<1> QED BY <1>13

(* clipboard.rs poll: however often it is polled and whoever answers when, what is reported  *)
(* is what the owner of the moment holds, unless an answer came late before.                   *)
THEOREM ClipboardSound == Spec => []ClipboardReportsAreTrue
<1>1. Given /\ Computed => ClipboardReportsAreTrue
  <2> SUFFICES ASSUME Given, Computed, done, input.kind = "clipboard" PROVE ClipboardReportsAreTrue
    BY DEF ClipboardReportsAreTrue
  <2> DEFINE rounds == input.rounds
             n == Len(rounds)
  <2>1. rounds \in Seq(Round) /\ outcome = Reports(rounds)
    BY ClipboardsAssumption DEF Given, Computed, IsAnswer
  <2> HIDE DEF rounds
  <2>2. n \in Nat /\ DOMAIN rounds = 1 .. n /\ \A k \in 1 .. n : rounds[k] \in Round
    BY <2>1
  <2>3. PICK g : PolledBy(g, rounds)
    BY <2>1, PolledSteps
  <2>4. /\ g \in [0 .. n -> Sources] /\ g[0] = Source
        /\ \A k \in 1 .. n : g[k] = Poll(g[k - 1], rounds[k]).source
        /\ Polled(rounds) = g
    BY <2>3 DEF PolledBy
  <2>5. \A k \in 1 .. n : outcome[k] = Poll(g[k - 1], rounds[k]).report
    BY <2>1, <2>2, <2>4 DEF Reports
  <2>6. \A k \in 1 .. n : k - 1 \in 0 .. n /\ k \in 0 .. n /\ g[k - 1] \in Sources /\ Reported(g[k - 1], rounds[k])
    <3> SUFFICES ASSUME NEW k \in 1 .. n PROVE k - 1 \in 0 .. n /\ k \in 0 .. n /\ g[k - 1] \in Sources /\ Reported(g[k - 1], rounds[k])
      OBVIOUS
    <3>1. k - 1 \in 0 .. n /\ k \in 0 .. n
      BY <2>2
    <3>2. g[k - 1] \in Sources
      BY <2>4, <3>1
    <3> QED BY <2>2, <3>1, <3>2, PollReports
  <2> HIDE DEF n
  <2>7. \A k \in 1 .. n : PollAsks(g[k - 1], rounds[k]) <=> Asked(rounds, k)
    <3> SUFFICES ASSUME NEW k \in 1 .. n PROVE PollAsks(g[k - 1], rounds[k]) <=> Asked(rounds, k)
      OBVIOUS
    <3>1. CASE k = 1
      <4>1. g[k - 1].lastOwner = NoOwner
        BY <2>4, <3>1 DEF Source
      <4> QED BY <3>1, <4>1 DEF PollAsks, Asked
    <3>2. CASE k # 1
      <4>1. k - 1 \in 1 .. n
        BY <2>2, <3>2
      <4>2. g[k - 1].lastOwner = rounds[k - 1].owner
        BY <2>4, <2>6, <4>1 DEF Reported
      <4> QED BY <3>2, <4>2 DEF PollAsks, Asked
    <3> QED BY <3>1, <3>2
  <2> DEFINE P == {k \in 0 .. n : (\A j \in 1 .. k : ~Late(rounds, j)) => g[k].queue = <<>>}
  <2>8. 0 \in P
    BY <2>2, <2>4 DEF Source
  <2>9. ASSUME NEW k \in 1 .. n, k - 1 \in P PROVE k \in P
    <3>1. SUFFICES ASSUME \A j \in 1 .. k : ~Late(rounds, j) PROVE g[k].queue = <<>>
      BY <2>6
    <3>2. k \in 1 .. k /\ \A j \in 1 .. (k - 1) : j \in 1 .. k
      BY <2>2
    <3>3. g[k - 1].queue = <<>>
      BY <2>9, <3>1, <3>2
    <3>4. ~(PollAsks(g[k - 1], rounds[k]) /\ "late" \in {rounds[k].targetsAnswer, rounds[k].dataAnswer})
      BY <2>7, <3>1, <3>2 DEF Late
    <3> QED BY <2>4, <2>6, <3>3, <3>4 DEF Reported
  <2>10. \A k \in 0 .. n : k \in P
    <3> HIDE DEF P
    <3> QED BY ONLY <2>2, <2>8, <2>9, IntervalInduction
  <2> SUFFICES ASSUME NEW i \in 1 .. n
               PROVE  LET round == rounds[i]
                          report(target) == [type |-> target, sizeOf |-> [owner |-> round.owner, holds |-> "data", of |-> target]]
                      IN /\ outcome[i] # <<>> => Asked(rounds, i)
                         /\ (\A j \in 1 .. (i - 1) : ~Late(rounds, j)) =>
                              IF Asked(rounds, i) /\ InTime(round) /\ round.targets # <<>>
                              THEN \E target \in Range(round.targets) :
                                     /\ outcome[i] = <<report(target)>>
                                     /\ Range(round.targets) \cap Textual # {} => target \in Textual
                              ELSE outcome[i] = <<>>
    BY <2>2 DEF ClipboardReportsAreTrue, rounds
  <2> DEFINE round == rounds[i]
             report(target) == [type |-> target, sizeOf |-> [owner |-> round.owner, holds |-> "data", of |-> target]]
  <2>11. outcome[i] # <<>> => Asked(rounds, i)
    BY <2>5, <2>6, <2>7 DEF Reported
  <2>12. ASSUME \A j \in 1 .. (i - 1) : ~Late(rounds, j)
         PROVE  IF Asked(rounds, i) /\ InTime(round) /\ round.targets # <<>>
                THEN outcome[i] = <<report(ChosenTarget(round.targets))>> ELSE outcome[i] = <<>>
    <3>1. i - 1 \in P
      BY <2>6, <2>10
    <3>2. g[i - 1].queue = <<>>
      BY <2>12, <3>1
    <3> HIDE DEF P
    <3> QED BY <2>5, <2>6, <2>7, <3>2 DEF Reported
  <2>13. round.targets # <<>> =>
           /\ ChosenTarget(round.targets) \in Range(round.targets)
           /\ Range(round.targets) \cap Textual # {} => ChosenTarget(round.targets) \in Textual
    BY <2>2, ChosenIsOffered DEF Round
  <2> HIDE DEF P, round, report
  <2>14. ASSUME \A j \in 1 .. (i - 1) : ~Late(rounds, j)
         PROVE  IF Asked(rounds, i) /\ InTime(round) /\ round.targets # <<>>
                THEN \E target \in Range(round.targets) :
                       /\ outcome[i] = <<report(target)>>
                       /\ Range(round.targets) \cap Textual # {} => target \in Textual
                ELSE outcome[i] = <<>>
    <3>1. CASE Asked(rounds, i) /\ InTime(round) /\ round.targets # <<>>
      <4> DEFINE target == ChosenTarget(round.targets)
      <4>1. outcome[i] = <<report(target)>>
        BY <2>12, <2>14, <3>1
      <4>2. target \in Range(round.targets) /\ (Range(round.targets) \cap Textual # {} => target \in Textual)
        BY <2>13, <3>1
      <4> HIDE DEF target
      <4> QED BY <3>1, <4>1, <4>2
    <3>2. CASE ~(Asked(rounds, i) /\ InTime(round) /\ round.targets # <<>>)
      BY <2>12, <2>14, <3>2
    <3> QED BY <3>1, <3>2
  <2> QED BY <2>11, <2>14 DEF round, report
<1> QED BY <1>1, OutcomeIsComputed, PTL
-----------------------------------------------------------------------------
(* Patterns: the choice of the occurrences *)

Top(starts) == Max(starts \cup {0})

LEMMA TopIsGreatest ==
  ASSUME NEW top \in Nat, NEW starts \in SUBSET (1 .. top)
  PROVE  Top(starts) \in Nat /\ \A s \in starts : s <= Top(starts)
<1> DEFINE T == starts \cup {0}
<1>1. T \in SUBSET Int /\ T # {} /\ \A t \in T : t <= top
  OBVIOUS
<1>2. T \subseteq Nat /\ starts \subseteq T
  OBVIOUS
<1>3. top \in Int
  OBVIOUS
<1> HIDE DEF T
<1>4. Max(T) \in T /\ \A t \in T : t <= Max(T)
  BY ONLY <1>1, <1>3, MaxIsGreatest
<1> QED BY <1>2, <1>4 DEF Top, T

(* The choice, one place of the history after the other. *)
SelectedAfter(g, starts, window) ==
  /\ g \in [0 .. Top(starts) -> Seq(Nat)]
  /\ g[0] = <<>>
  /\ \A k \in 1 .. Top(starts) : g[k] = (IF k \in starts /\ (g[k - 1] = <<>> \/ k >= Last(g[k - 1]) + window) THEN Append(g[k - 1], k) ELSE g[k - 1])
  /\ SelectNonOverlapping(starts, window) = g[Top(starts)]

LEMMA SelectSteps ==
  ASSUME NEW top \in Nat, NEW starts \in SUBSET (1 .. top), NEW window \in Nat
  PROVE  \E g : SelectedAfter(g, starts, window)
<1> DEFINE n == Top(starts)
           first == <<>>
           F == [k \in 1 .. n |-> [x \in Seq(Nat) |-> (IF k \in starts /\ (x = <<>> \/ k >= Last(x) + window) THEN Append(x, k) ELSE x)]]
           Recursion(g) == g = [k \in 0 .. n |-> IF k = 0 THEN first ELSE (IF k \in starts /\ (g[k - 1] = <<>> \/ k >= Last(g[k - 1]) + window) THEN Append(g[k - 1], k) ELSE g[k - 1])]
           after == CHOOSE g : Recursion(g)
<1>1. n \in Nat
  BY TopIsGreatest
<1>2. first \in Seq(Nat)
  OBVIOUS
<1>3. ASSUME NEW k \in 1 .. n, NEW x \in Seq(Nat) PROVE (IF k \in starts /\ (x = <<>> \/ k >= Last(x) + window) THEN Append(x, k) ELSE x) \in Seq(Nat)
  <2>1. k \in Nat
    BY <1>1
  <2> QED BY <2>1
<1>4. Stays(F, n, Seq(Nat))
  <2> HIDE DEF n
  <2> QED BY <1>3 DEF Stays
<1>5. \A k \in 1 .. n : \A x \in Seq(Nat) : F[k][x] = (IF k \in starts /\ (x = <<>> \/ k >= Last(x) + window) THEN Append(x, k) ELSE x)
  OBVIOUS
<1> HIDE DEF F, first
<1>6. PICK g : GoesOn(g, first, F, n, Seq(Nat))
  <2> HIDE DEF n
  <2> QED BY ONLY <1>1, <1>2, <1>4, RecursionDefines
<1>7. Recursion(g)
  <2>1. \A k \in 0 .. n : k # 0 => k \in 1 .. n /\ g[k - 1] \in Seq(Nat)
    BY <1>1, <1>6 DEF GoesOn
  <2>2. \A k \in 0 .. n : g[k] = IF k = 0 THEN first ELSE (IF k \in starts /\ (g[k - 1] = <<>> \/ k >= Last(g[k - 1]) + window) THEN Append(g[k - 1], k) ELSE g[k - 1])
    BY <1>5, <1>6, <2>1 DEF GoesOn
  <2> HIDE DEF n
  <2> QED BY <1>6, <2>2 DEF GoesOn
<1>8. Recursion(after)
  <2> HIDE DEF Recursion
  <2> QED BY <1>7
<1>9. /\ after[0] = first /\ DOMAIN after = 0 .. n
      /\ \A k \in 1 .. n : after[k] = (IF k \in starts /\ (after[k - 1] = <<>> \/ k >= Last(after[k - 1]) + window) THEN Append(after[k - 1], k) ELSE after[k - 1])
  <2> HIDE DEF after, n
  <2>1. DOMAIN after = 0 .. n /\ \A k \in 0 .. n : after[k] = IF k = 0 THEN first ELSE (IF k \in starts /\ (after[k - 1] = <<>> \/ k >= Last(after[k - 1]) + window) THEN Append(after[k - 1], k) ELSE after[k - 1])
    BY <1>8
  <2>2. 0 \in 0 .. n /\ \A k \in 1 .. n : k \in 0 .. n /\ k # 0
    BY <1>1
  <2> QED BY <2>1, <2>2
<1>10. \A k \in 0 .. n : after[k] \in Seq(Nat)
  <2> DEFINE P == {k \in 0 .. n : after[k] \in Seq(Nat)}
  <2> HIDE DEF after
  <2>1. 0 \in P
    BY <1>1, <1>2, <1>9
  <2>2. ASSUME NEW k \in 1 .. n, k - 1 \in P PROVE k \in P
    <3>1. after[k - 1] \in Seq(Nat) /\ after[k] = (IF k \in starts /\ (after[k - 1] = <<>> \/ k >= Last(after[k - 1]) + window) THEN Append(after[k - 1], k) ELSE after[k - 1])
      BY <1>9, <2>2
    <3>2. after[k] \in Seq(Nat) /\ k \in 0 .. n
      BY <1>1, <1>3, <3>1
    <3> QED BY <3>2
  <2>3. \A k \in 0 .. n : k \in P
    <3> HIDE DEF P, n
    <3> QED BY ONLY <1>1, <2>1, <2>2, IntervalInduction
  <2> QED BY <2>3
<1>11. SelectNonOverlapping(starts, window) = after[Top(starts)]
  BY DEF SelectNonOverlapping, Top, first
<1>12. after \in [0 .. n -> Seq(Nat)]
  <2>1. after = [k \in 0 .. n |-> after[k]]
    <3> HIDE DEF after
    <3> QED BY <1>8
  <2> HIDE DEF after
  <2> QED BY <1>10, <2>1
<1> HIDE DEF after
<1>13. SelectedAfter(after, starts, window)
  BY <1>9, <1>11, <1>12 DEF first, SelectedAfter
<1> QED BY <1>13

(* Occurrences that can be told apart, and each start up to k is inside one of them. *)
ToldApart(c, starts, window, k) ==
  /\ c \in Seq(Nat)
  /\ \A i \in 1 .. Len(c) : c[i] \in starts /\ c[i] <= k
  /\ \A i, j \in 1 .. Len(c) : i < j => c[i] + window <= c[j]
  /\ \A s \in starts : s <= k => \E i \in 1 .. Len(c) : c[i] <= s /\ s < c[i] + window

LEMMA SelectionTellsApart ==
  ASSUME NEW top \in Nat, NEW starts \in SUBSET (1 .. top), NEW window \in Nat, window > 0
  PROVE  ToldApart(SelectNonOverlapping(starts, window), starts, window, Top(starts))
<1> DEFINE n == Top(starts)
<1>1. n \in Nat
  BY TopIsGreatest
<1>2. PICK g : SelectedAfter(g, starts, window)
  BY SelectSteps
<1>3. /\ g \in [0 .. n -> Seq(Nat)] /\ g[0] = <<>> /\ SelectNonOverlapping(starts, window) = g[n]
      /\ \A k \in 1 .. n :
           g[k] = IF k \in starts /\ (g[k - 1] = <<>> \/ k >= Last(g[k - 1]) + window) THEN Append(g[k - 1], k) ELSE g[k - 1]
  BY <1>2 DEF SelectedAfter
<1> HIDE DEF n
<1> DEFINE P == {k \in 0 .. n : ToldApart(g[k], starts, window, k)}
<1>4. 0 \in P
  <2>1. g[0] \in Seq(Nat) /\ Len(g[0]) = 0
    BY <1>3
  <2>2. \A s \in starts : ~(s <= 0)
    OBVIOUS
  <2>3. ToldApart(g[0], starts, window, 0)
    BY <2>1, <2>2 DEF ToldApart
  <2> QED BY <1>1, <2>3
<1>5. ASSUME NEW k \in 1 .. n, k - 1 \in P PROVE k \in P
  <2> DEFINE c == g[k - 1]
             m == Len(c)
  <2>1. /\ c \in Seq(Nat) /\ m \in Nat /\ k \in Nat
        /\ \A i \in 1 .. m : c[i] \in starts /\ c[i] <= k - 1
        /\ \A i, j \in 1 .. m : i < j => c[i] + window <= c[j]
        /\ \A s \in starts : s <= k - 1 => \E i \in 1 .. m : c[i] <= s /\ s < c[i] + window
    <3>1. ToldApart(c, starts, window, k - 1)
      BY <1>5
    <3>2. k \in Nat
      BY <1>1
    <3> HIDE DEF c
    <3>3. c \in Seq(Nat)
      BY <3>1 DEF ToldApart
    <3>4. m \in Nat
      BY <3>3, LenProperties
    <3> QED BY <3>1, <3>2, <3>3, <3>4 DEF ToldApart
  <2>2. \A i \in 1 .. m : c[i] \in Nat
    BY <2>1
  <2>3. g[k] = IF k \in starts /\ (c = <<>> \/ k >= Last(c) + window) THEN Append(c, k) ELSE c
    BY <1>3
  <2>4. (c = <<>> <=> m = 0) /\ Last(c) = c[m]
    BY <2>1 DEF Last
  <2> HIDE DEF c, m
  <2>5. CASE k \in starts /\ (m = 0 \/ k >= c[m] + window)
    <3> DEFINE d == Append(c, k)
    <3>1. g[k] = d
      BY <2>3, <2>4, <2>5
    <3>2. d \in Seq(Nat) /\ Len(d) = m + 1 /\ d[m + 1] = k /\ \A i \in 1 .. m : d[i] = c[i]
      BY <2>1, AppendProperties DEF m
    <3> HIDE DEF d
    <3>3. \A i \in 1 .. m + 1 : i \in 1 .. m \/ i = m + 1
      BY <2>1
    <3>4. ASSUME NEW i \in 1 .. m + 1 PROVE d[i] \in starts /\ d[i] <= k
      <4>1. CASE i = m + 1
        BY <2>1, <2>5, <3>2, <4>1
      <4>2. CASE i \in 1 .. m
        <5>1. d[i] = c[i] /\ c[i] \in starts /\ c[i] \in Nat /\ c[i] <= k - 1
          BY <2>1, <2>2, <3>2, <4>2
        <5> QED BY <2>1, <5>1
      <4> QED BY <3>3, <4>1, <4>2
    <3>5. ASSUME NEW i \in 1 .. m PROVE c[i] + window <= k
      <4>1. m \in Nat /\ m # 0 /\ i \in 1 .. m
        BY <2>1
      <4>2. (i = m \/ i < m) /\ m \in 1 .. m
        BY ONLY <4>1
      <4>3. c[m] \in Nat /\ c[i] \in Nat /\ c[m] + window <= k /\ (i < m => c[i] + window <= c[m])
        BY <2>1, <2>2, <2>5, <4>1, <4>2
      <4>4. CASE i = m
        BY <4>3, <4>4
      <4>5. CASE i < m
        <5> DEFINE x == c[m]
                   y == c[i]
        <5>1. x \in Nat /\ y \in Nat /\ x + window <= k /\ y + window <= x /\ k \in Nat
          BY <2>1, <4>3, <4>5
        <5>2. y + window <= k
          <6> HIDE DEF x, y
          <6> QED BY <5>1
        <5> QED BY <5>2
      <4> QED BY <4>2, <4>4, <4>5
    <3>6. ASSUME NEW i \in 1 .. m + 1, NEW j \in 1 .. m + 1, i < j PROVE d[i] + window <= d[j]
      <4>1. i \in 1 .. m
        BY <2>1, <3>6
      <4>2. CASE j \in 1 .. m
        BY <2>1, <3>2, <3>6, <4>1, <4>2
      <4>3. CASE j = m + 1
        BY <3>2, <3>5, <4>1, <4>3
      <4> QED BY <3>3, <4>2, <4>3
    <3>7. ASSUME NEW s \in starts, s <= k PROVE \E i \in 1 .. m + 1 : d[i] <= s /\ s < d[i] + window
      <4>1. CASE s = k
        <5>1. m + 1 \in 1 .. m + 1
          BY <2>1
        <5>2. d[m + 1] <= s /\ s < d[m + 1] + window
          BY <2>1, <3>2, <4>1
        <5> QED BY <5>1, <5>2
      <4>2. CASE s # k
        <5>1. s <= k - 1
          BY <2>1, <3>7, <4>2
        <5>2. PICK i \in 1 .. m : c[i] <= s /\ s < c[i] + window
          BY <2>1, <5>1
        <5>3. i \in 1 .. m + 1 /\ d[i] = c[i]
          BY <2>1, <3>2
        <5> QED BY <5>2, <5>3
      <4> QED BY <4>1, <4>2
    <3>8. ToldApart(g[k], starts, window, k)
      BY <3>1, <3>2, <3>4, <3>6, <3>7 DEF ToldApart
    <3> QED BY <1>1, <3>8
  <2>6. CASE ~(k \in starts /\ (m = 0 \/ k >= c[m] + window))
    <3>1. g[k] = c
      BY <2>3, <2>4, <2>6
    <3>2. \A i \in 1 .. m : c[i] \in starts /\ c[i] <= k
      BY <2>1, <2>2
    <3>3. ASSUME NEW s \in starts, s <= k PROVE \E i \in 1 .. m : c[i] <= s /\ s < c[i] + window
      <4>1. CASE s = k
        <5>1. m # 0 /\ k < c[m] + window /\ m \in 1 .. m
          BY <2>1, <2>2, <2>6, <4>1
        <5>2. c[m] <= k
          BY <2>1, <3>2, <5>1
        <5> QED BY <4>1, <5>1, <5>2
      <4>2. CASE s # k
        <5>1. s <= k - 1
          BY <2>1, <3>3, <4>2
        <5> QED BY <2>1, <5>1
      <4> QED BY <4>1, <4>2
    <3>4. ToldApart(g[k], starts, window, k)
      BY <2>1, <3>1, <3>2, <3>3 DEF ToldApart, m
    <3> QED BY <1>1, <3>4
  <2> QED BY <2>5, <2>6
<1>6. n \in P
  <2>1. \A k \in 0 .. n : k \in P
    <3> HIDE DEF P
    <3> QED BY ONLY <1>1, <1>4, <1>5, IntervalInduction
  <2> QED BY <1>1, <2>1
<1> QED BY <1>3, <1>6 DEF n

(* No choice of occurrences that do not overlap is larger. *)
Apart(S, window) == \A s, t \in S : s < t => s + window <= t

LEMMA SelectionIsGreatest ==
  ASSUME NEW top \in Nat, NEW starts \in SUBSET (1 .. top), NEW window \in Nat, window > 0
  PROVE  LET c == SelectNonOverlapping(starts, window) IN
         /\ c \in Seq(Nat) /\ Len(c) \in Nat
         /\ Max({Cardinality(S) : S \in {C \in SUBSET starts : Apart(C, window)}}) = Len(c)
<1> DEFINE c == SelectNonOverlapping(starts, window)
           n == Len(c)
           Selections == {C \in SUBSET starts : Apart(C, window)}
           Sizes == {Cardinality(S) : S \in Selections}
<1>1. ToldApart(c, starts, window, Top(starts))
  BY SelectionTellsApart
<1> HIDE DEF c
<1>2. \A s \in starts : s \in Nat /\ s <= Top(starts)
  <2>1. \A s \in starts : s \in Nat
    OBVIOUS
  <2> QED BY <2>1, TopIsGreatest
<1>3. /\ c \in Seq(Nat) /\ n \in Nat /\ DOMAIN c = 1 .. n
      /\ \A i \in 1 .. n : c[i] \in starts /\ c[i] \in Nat
      /\ \A i, j \in 1 .. n : i < j => c[i] + window <= c[j]
      /\ \A s \in starts : \E i \in 1 .. n : c[i] <= s /\ s < c[i] + window
  BY <1>1, <1>2, LenProperties DEF ToldApart
<1> HIDE DEF n
<1>4. IsFiniteSet(1 .. n) /\ Cardinality(1 .. n) = n
  <2>1. 1 \in Int /\ n \in Int
    BY <1>3
  <2>2. IsFiniteSet(1 .. n) /\ Cardinality(1 .. n) = IF 1 > n THEN 0 ELSE n - 1 + 1
    BY ONLY <2>1, FS_Interval
  <2> QED BY <1>3, <2>2
<1>5. ASSUME NEW S \in Selections PROVE Cardinality(S) \in Nat /\ Cardinality(S) <= n
  <2> DEFINE of == [s \in S |-> CHOOSE i \in 1 .. n : c[i] <= s /\ s < c[i] + window]
  <2>1. \A s \in S : of[s] \in 1 .. n /\ c[of[s]] <= s /\ s < c[of[s]] + window
    BY <1>3
  <2>2. of \in [S -> 1 .. n]
    BY <2>1
  <2> HIDE DEF of
  <2>3. ASSUME NEW s \in S, NEW t \in S, of[s] = of[t] PROVE s = t
    <3>1. s \in Nat /\ t \in Nat /\ c[of[s]] \in Nat
      BY <1>2, <1>3, <2>1
    <3>2. s < c[of[s]] + window /\ c[of[s]] <= s /\ t < c[of[s]] + window /\ c[of[s]] <= t
      BY <2>1, <2>3
    <3>3. ~(s < t) /\ ~(t < s)
      <4>1. (s < t => s + window <= t) /\ (t < s => t + window <= s)
        BY DEF Apart
      <4> QED BY <3>1, <3>2, <4>1
    <3> QED BY <3>1, <3>3
  <2>4. of \in Injection(S, 1 .. n)
    BY <2>2, <2>3 DEF Injection, IsInjective
  <2>5. IsFiniteSet(S) /\ Cardinality(S) <= Cardinality(1 .. n)
    BY <1>4, <2>4, FS_Injection
  <2> QED BY <1>4, <2>5, FS_CardinalityType
<1>6. n \in Sizes
  <2> DEFINE R == {c[i] : i \in 1 .. n}
  <2>1. R \in Selections
    <3>1. R \in SUBSET starts
      BY <1>3
    <3>2. ASSUME NEW s \in R, NEW t \in R, s < t PROVE s + window <= t
      <4>1. PICK i \in 1 .. n, j \in 1 .. n : s = c[i] /\ t = c[j]
        OBVIOUS
      <4>2. c[i] \in Nat /\ c[j] \in Nat /\ c[i] < c[j]
        BY <1>3, <3>2, <4>1
      <4>3. ~(j < i) /\ i # j
        <5>1. j < i => c[j] + window <= c[i]
          BY <1>3
        <5> QED BY <4>2, <5>1
      <4>4. i < j
        BY <1>3, <4>3
      <4> QED BY <1>3, <4>1, <4>4
    <3> HIDE DEF R
    <3> QED BY <3>1, <3>2 DEF Apart
  <2>2. Cardinality(R) = n
    <3> DEFINE f == [i \in 1 .. n |-> c[i]]
    <3>1. f \in [1 .. n -> R] /\ \A r \in R : \E i \in 1 .. n : f[i] = r
      OBVIOUS
    <3>2. ASSUME NEW i \in 1 .. n, NEW j \in 1 .. n, f[i] = f[j] PROVE i = j
      <4>1. c[i] = c[j] /\ c[i] \in Nat /\ c[j] \in Nat
        BY <1>3, <3>2
      <4>2. (i < j => c[i] + window <= c[j]) /\ (j < i => c[j] + window <= c[i])
        BY <1>3
      <4>3. ~(i < j) /\ ~(j < i)
        BY <4>1, <4>2
      <4> QED BY <1>3, <4>3
    <3> HIDE DEF f, R
    <3>3. f \in Injection(1 .. n, R)
      BY <3>1, <3>2 DEF Injection, IsInjective
    <3>4. f \in Surjection(1 .. n, R)
      BY <3>1 DEF Surjection
    <3>5. f \in Bijection(1 .. n, R)
      BY <3>3, <3>4 DEF Bijection
    <3>6. ExistsBijection(1 .. n, R)
      BY <3>5 DEF ExistsBijection
    <3> QED BY <1>3, <3>6, FS_CountingElements
  <2> HIDE DEF R, Selections
  <2> QED BY <2>1, <2>2
<1>7. Max(Sizes) = n
  <2>1. Sizes \in SUBSET Int /\ \A x \in Sizes : x <= n
    BY <1>5
  <2> HIDE DEF Sizes
  <2>2. Max(Sizes) \in Sizes /\ \A x \in Sizes : x <= Max(Sizes)
    <3>1. n \in Int
      BY <1>3
    <3> QED BY <1>6, <2>1, <3>1, MaxIsGreatest
  <2>3. Max(Sizes) \in Int /\ Max(Sizes) <= n /\ n <= Max(Sizes)
    BY <1>6, <2>1, <2>2
  <2> QED BY <1>3, <2>3
<1> QED BY <1>3, <1>7 DEF c, n

(* What is known of a history, in the terms of the proofs. *)
IsEvents(events) ==
  /\ Len(events) \in Nat /\ DOMAIN events = 1 .. Len(events)
  /\ \A e \in Range(events) :
       /\ e.at \in Nat /\ e.signalType \in Types /\ e.source \notin Types
       /\ "domain" \in DOMAIN e.summary <=> e.signalType = "browser_domain_visited"
       /\ e.signalType = "browser_domain_visited" => e.summary["domain"] # Missing
  /\ \A i, j \in DOMAIN events : i < j => events[i].id # events[j].id /\ events[i].at <= events[j].at

Occurring(events, g, w) == {s \in Starts(events, w) : Signature(events, s, w) = g}

(* The keys of a window of events. *)
LEMMA SignatureIs ==
  ASSUME NEW events, IsEvents(events), NEW w \in Nat, w > 0, NEW s \in Starts(events, w)
  PROVE  /\ Len(Signature(events, s, w)) = w /\ DOMAIN Signature(events, s, w) = 1 .. w
         /\ s \in Nat /\ s > 0 /\ s + w - 1 <= Len(events)
         /\ \A j \in 1 .. w : s + j - 1 \in 1 .. Len(events) /\ Signature(events, s, w)[j] = ActionKey(events[s + j - 1])
<1> DEFINE n == Len(events)
           S == {ActionKey(events[i]) : i \in 1 .. n}
           keys == Keys(events)
           g == SubSeq(keys, s, s + w - 1)
<1>1. n \in Nat /\ DOMAIN events = 1 .. n
  BY DEF IsEvents
<1>2. s \in 1 .. (n - w + 1)
  BY DEF Starts
<1>3. keys = [i \in 1 .. n |-> ActionKey(events[i])]
  BY <1>1 DEF Keys
<1>4. Signature(events, s, w) = g
  BY DEF Signature
<1> HIDE DEF n, keys
<1>5. s \in Nat /\ s > 0 /\ s + w - 1 <= n /\ s + w - 1 \in Int /\ s \in Int
  BY <1>1, <1>2
<1>6. \A j \in 1 .. w : s + j - 1 \in 1 .. n
  BY <1>1, <1>5
<1>7. \A i \in s .. s + w - 1 : i \in 1 .. n
  BY <1>1, <1>5
<1>8. \A i \in s .. s + w - 1 : keys[i] \in S
  BY <1>3, <1>7
<1> HIDE DEF S
<1>9. /\ g \in Seq(S) /\ Len(g) = IF s <= s + w - 1 THEN (s + w - 1) - s + 1 ELSE 0
      /\ \A j \in 1 .. (s + w - 1) - s + 1 : g[j] = keys[s + j - 1]
  BY ONLY <1>5, <1>8, SubSeqProperties
<1> HIDE DEF g
<1>10. Len(g) = w /\ DOMAIN g = 1 .. w /\ (s + w - 1) - s + 1 = w
  BY <1>5, <1>9, LenProperties
<1>11. \A j \in 1 .. w : g[j] = ActionKey(events[s + j - 1])
  BY <1>3, <1>6, <1>9, <1>10
<1> QED BY <1>4, <1>5, <1>6, <1>10, <1>11 DEF n

(* A pattern is a signature of a window that occurs often enough. *)
LEMMA DetectedAre ==
  ASSUME NEW events, IsEvents(events), NEW minOccurrences \in Nat
  PROVE  /\ \A p \in Detect(events, 2 .. 5, minOccurrences) :
              \E w \in 2 .. 5 : \E s \in Starts(events, w) :
                /\ p = Describe(events, Signature(events, s, w))
                /\ Len(Occurrences(events, Signature(events, s, w))) >= minOccurrences
         /\ \A w \in 2 .. 5 : \A s \in Starts(events, w) :
              Len(Occurrences(events, Signature(events, s, w))) >= minOccurrences
                => Describe(events, Signature(events, s, w)) \in Detect(events, 2 .. 5, minOccurrences)
<1>1. \A w \in 2 .. 5 : \A p \in DetectForWindow(events, w, minOccurrences) :
        \E s \in Starts(events, w) : /\ p = Describe(events, Signature(events, s, w))
                                     /\ Len(Occurrences(events, Signature(events, s, w))) >= minOccurrences
  BY DEF DetectForWindow
<1>2. ASSUME NEW w \in 2 .. 5, NEW s \in Starts(events, w),
             Len(Occurrences(events, Signature(events, s, w))) >= minOccurrences
      PROVE  Describe(events, Signature(events, s, w)) \in Detect(events, 2 .. 5, minOccurrences)
  <2>1. Describe(events, Signature(events, s, w)) \in DetectForWindow(events, w, minOccurrences)
    BY <1>2 DEF DetectForWindow
  <2>2. w # 0 /\ Len(events) >= w
    BY DEF IsEvents, Starts
  <2> QED BY <2>1, <2>2 DEF Detect
<1>3. ASSUME NEW p \in Detect(events, 2 .. 5, minOccurrences)
      PROVE  \E w \in 2 .. 5 : p \in DetectForWindow(events, w, minOccurrences)
  BY DEF Detect
<1> QED BY <1>1, <1>2, <1>3

(* How the occurrences c of a signature g lie in the history. *)
Lying(events, w, g, c) ==
  /\ Len(g) = w /\ DOMAIN g = 1 .. w
  /\ c \in Seq(Nat) /\ Len(c) \in Nat /\ Len(c) > 0 /\ DOMAIN c = 1 .. Len(c)
  /\ \A i \in 1 .. Len(c) : /\ c[i] \in Nat /\ c[i] > 0 /\ c[i] + w - 1 <= Len(events)
                            /\ \A j \in 1 .. w : /\ c[i] + j - 1 \in 1 .. Len(events)
                                                 /\ ActionKey(events[c[i] + j - 1]) = g[j]
  /\ \A i, j \in 1 .. Len(c) : i < j => c[i] + w <= c[j]
  /\ Max({Cardinality(S) : S \in {C \in SUBSET Occurring(events, g, w) : Apart(C, w)}}) = Len(c)

LEMMA OccurrencesLie ==
  ASSUME NEW events, IsEvents(events), NEW w \in 2 .. 5, NEW s \in Starts(events, w),
         NEW g, g = Signature(events, s, w), NEW c, c = Occurrences(events, g)
  PROVE  Lying(events, w, g, c)
<1> DEFINE starts == Occurring(events, g, w)
           n == Len(events)
<1>1. w \in Nat /\ w > 0
  OBVIOUS
<1>2. Len(g) = w /\ DOMAIN g = 1 .. w
  BY <1>1, SignatureIs
<1>3. c = SelectNonOverlapping(starts, w)
  BY <1>2 DEF Occurrences, Occurring
<1>4. n \in Nat /\ \A t \in starts : t \in 1 .. n
  <2>1. n \in Nat
    BY DEF IsEvents
  <2>2. \A t \in Starts(events, w) : t \in 1 .. n
    BY <1>1, <2>1 DEF Starts
  <2> QED BY <2>1, <2>2 DEF Occurring
<1>5. starts \in SUBSET (1 .. n)
  BY <1>4
<1> HIDE DEF starts, n
<1>6. ToldApart(c, starts, w, Top(starts))
  BY <1>1, <1>3, <1>4, <1>5, SelectionTellsApart
<1>7. /\ c \in Seq(Nat) /\ Len(c) \in Nat
      /\ Max({Cardinality(S) : S \in {C \in SUBSET starts : Apart(C, w)}}) = Len(c)
  BY <1>1, <1>3, <1>4, <1>5, SelectionIsGreatest
<1>8. s \in starts /\ s <= Top(starts)
  <2>1. s \in starts
    BY DEF starts, Occurring
  <2> QED BY <1>4, <1>5, <2>1, TopIsGreatest
<1>9. \A i \in 1 .. Len(c) : c[i] \in starts
  BY <1>6 DEF ToldApart
<1>10. ASSUME NEW i \in 1 .. Len(c)
       PROVE  /\ c[i] \in Nat /\ c[i] > 0 /\ c[i] + w - 1 <= n
              /\ \A j \in 1 .. w : c[i] + j - 1 \in 1 .. n /\ ActionKey(events[c[i] + j - 1]) = g[j]
  <2>1. c[i] \in Starts(events, w) /\ Signature(events, c[i], w) = g
    BY <1>9 DEF starts, Occurring
  <2> DEFINE t == c[i]
             h == Signature(events, t, w)
  <2>2. t \in Starts(events, w) /\ h = g
    BY <2>1
  <2> HIDE DEF t
  <2>3. /\ t \in Nat /\ t > 0 /\ t + w - 1 <= n
        /\ \A j \in 1 .. w : t + j - 1 \in 1 .. n /\ ActionKey(events[t + j - 1]) = h[j]
    BY <1>1, <2>2, SignatureIs DEF n
  <2> HIDE DEF h
  <2> QED BY <2>2, <2>3 DEF t
<1>11. Len(c) > 0
  <2>1. \E i \in 1 .. Len(c) : c[i] <= s
    BY <1>6, <1>8 DEF ToldApart
  <2> QED BY <1>7, <2>1
<1>12. \A i, j \in 1 .. Len(c) : i < j => c[i] + w <= c[j]
  BY <1>6 DEF ToldApart
<1>13. DOMAIN c = 1 .. Len(c)
  BY <1>7, LenProperties
<1> QED BY <1>2, <1>7, <1>10, <1>11, <1>12, <1>13 DEF n, starts, Lying

(* detector.rs select_non_overlapping: in a history of any length taking each earliest  *)
(* occurrence finds as many as any choice of occurrences that do not overlap, and a      *)
(* sequence of actions is a pattern exactly if that is often enough.                      *)
THEOREM PatternsSound == Spec => []PatternsCountRepetitions
<1>1. Given /\ Computed => PatternsCountRepetitions
  <2> SUFFICES ASSUME Given, Computed, done, input.kind = "history", NEW w \in 2 .. 5, NEW s \in Starts(input.events, w),
                      NEW g, g = Signature(input.events, s, w)
               PROVE  LET found == {p \in outcome.patterns : p.signature = g} IN
                      IF Most(g, w) >= input.minOccurrences
                      THEN Cardinality(found) = 1 /\ \A p \in found : p.count = Most(g, w)
                      ELSE found = {}
    BY DEF PatternsCountRepetitions
  <2> DEFINE events == input.events
             min == input.minOccurrences
             c == Occurrences(events, g)
             found == {p \in outcome.patterns : p.signature = g}
  <2>1. IsHistory(input) /\ outcome.patterns = Detect(events, 2 .. 5, min)
    BY HistoriesAssumption DEF Given, Computed, IsAnswer, PatternsAndGraph
  <2>2. IsEvents(events) /\ min \in Nat
    BY <2>1 DEF IsHistory, IsEvents
  <2>3. Most(g, w) = Len(c)
    <3>1. Max({Cardinality(S) : S \in {C \in SUBSET Occurring(events, g, w) : Apart(C, w)}}) = Len(c)
      BY <2>2, OccurrencesLie DEF Lying
    <3>2. Positions(g, w) = Occurring(events, g, w)
      BY DEF Positions, Occurring
    <3> QED BY <3>1, <3>2 DEF Most, Apart
  <2>4. \A h : Describe(events, h).signature = h /\ Describe(events, h).count = Len(Occurrences(events, h))
    BY DEF Describe
  <2> HIDE DEF c, events, min
  <2>5. \A p \in found : p = Describe(events, g) /\ Len(c) >= min
    <3> SUFFICES ASSUME NEW p \in found PROVE p = Describe(events, g) /\ Len(c) >= min
      OBVIOUS
    <3>1. PICK v \in 2 .. 5 : \E t \in Starts(events, v) :
            /\ p = Describe(events, Signature(events, t, v))
            /\ Len(Occurrences(events, Signature(events, t, v))) >= min
      BY <2>1, <2>2, DetectedAre
    <3>2. PICK t \in Starts(events, v) : /\ p = Describe(events, Signature(events, t, v))
                                         /\ Len(Occurrences(events, Signature(events, t, v))) >= min
      BY <3>1
    <3>3. Signature(events, t, v) = g
      BY <2>4, <3>2
    <3> QED BY <3>2, <3>3 DEF c
  <2>6. CASE Len(c) >= min
    <3>1. Describe(events, g) \in found
      <4>1. Describe(events, g) \in Detect(events, 2 .. 5, min)
        BY <2>2, <2>6, DetectedAre DEF c, events
      <4> QED BY <2>1, <2>4, <4>1
    <3>2. found = {Describe(events, g)}
      BY <2>5, <3>1
    <3>3. Cardinality(found) = 1
      BY <3>2, FS_Singleton
    <3>4. \A p \in found : p.count = Len(c)
      BY <2>4, <3>2 DEF c
    <3> HIDE DEF found
    <3> QED BY <2>3, <2>6, <3>3, <3>4 DEF found, min
  <2>7. CASE ~(Len(c) >= min)
    <3>1. found = {}
      BY <2>5, <2>7
    <3> HIDE DEF found
    <3> QED BY <2>3, <2>7, <3>1 DEF found, min
  <2> QED BY <2>6, <2>7
<1> QED BY <1>1, OutcomeIsComputed, PTL

(* The place of the j-th of the i-th w. *)
Place(w, i, j) == (i - 1) * w + j

(* Sequences of length w, one after the other. *)
InStep(flat, seqs, S, N, w) ==
  /\ flat \in Seq(S) /\ Len(flat) = Place(w, N, w)
  /\ \A i \in 1 .. N : \A j \in 1 .. w : flat[Place(w, i, j)] = seqs[i][j]

LEMMA FlattenedInStep ==
  ASSUME NEW S, NEW N \in Nat, N > 0, NEW w \in Nat, NEW seqs \in [1 .. N -> Seq(S)], \A i \in 1 .. N : Len(seqs[i]) = w
  PROVE  InStep(FlattenSeq(seqs), seqs, S, N, w)
<1> DEFINE F == [k \in 1 .. N - 1 |-> [x \in Seq(S) |-> x \o seqs[k + 1]]]
           Recursion(g) == g = [i \in 1 .. N |-> IF i = 1 THEN seqs[i] ELSE g[i - 1] \o seqs[i]]
           flat == CHOOSE g : Recursion(g)
<1>1. N - 1 \in Nat /\ \A k \in 1 .. N - 1 : k + 1 \in 1 .. N
  OBVIOUS
<1>2. 1 \in 1 .. N /\ seqs[1] \in Seq(S)
  OBVIOUS
<1>3. \A i \in 1 .. N : seqs[i] \in Seq(S)
  OBVIOUS
<1>4. \A k \in 1 .. N - 1 : \A x \in Seq(S) : x \o seqs[k + 1] \in Seq(S)
  BY <1>1, <1>3
<1>5. Stays(F, N - 1, Seq(S))
  BY <1>4 DEF Stays
<1>6. \A k \in 1 .. N - 1 : \A x \in Seq(S) : F[k][x] = x \o seqs[k + 1]
  OBVIOUS
<1> HIDE DEF F
<1>7. PICK h : GoesOn(h, seqs[1], F, N - 1, Seq(S))
  BY ONLY <1>1, <1>2, <1>5, RecursionDefines
<1>8. /\ h \in [0 .. N - 1 -> Seq(S)] /\ h[0] = seqs[1] /\ \A k \in 1 .. N - 1 : h[k] = F[k][h[k - 1]]
  BY <1>7 DEF GoesOn
<1>9. Recursion([i \in 1 .. N |-> h[i - 1]])
  <2> DEFINE g == [i \in 1 .. N |-> h[i - 1]]
  <2>1. ASSUME NEW i \in 1 .. N PROVE g[i] = IF i = 1 THEN seqs[i] ELSE g[i - 1] \o seqs[i]
    <3>1. CASE i = 1
      BY <1>8, <3>1
    <3>2. CASE i # 1
      <4>1. i - 1 \in 1 .. N - 1 /\ i - 1 \in 1 .. N /\ (i - 1) + 1 = i /\ (i - 1) - 1 \in 0 .. N - 1
        BY <3>2
      <4>2. h[i - 1] = F[i - 1][h[(i - 1) - 1]] /\ h[(i - 1) - 1] \in Seq(S)
        BY <1>8, <4>1
      <4>3. h[i - 1] = h[(i - 1) - 1] \o seqs[i]
        BY <1>6, <4>1, <4>2
      <4>4. g[i] = h[i - 1] /\ g[i - 1] = h[(i - 1) - 1]
        BY <4>1
      <4> QED BY <3>2, <4>3, <4>4
    <3> QED BY <3>1, <3>2
  <2>2. g = [i \in 1 .. N |-> g[i]]
    OBVIOUS
  <2> HIDE DEF g
  <2>3. [i \in 1 .. N |-> g[i]] = [i \in 1 .. N |-> IF i = 1 THEN seqs[i] ELSE g[i - 1] \o seqs[i]]
    BY <2>1
  <2> QED BY <2>2, <2>3 DEF g
<1>10. Recursion(flat)
  <2> HIDE DEF Recursion
  <2> QED BY <1>9
<1>11. FlattenSeq(seqs) = flat[N]
  <2>1. seqs \in Seq(Seq(S)) /\ Len(seqs) = N
    OBVIOUS
  <2> QED BY <2>1 DEF FlattenSeq
<1> HIDE DEF flat
<1>12. flat[1] = seqs[1] /\ \A i \in 2 .. N : flat[i] = flat[i - 1] \o seqs[i]
  <2>1. \A i \in 1 .. N : flat[i] = IF i = 1 THEN seqs[i] ELSE flat[i - 1] \o seqs[i]
    BY <1>10
  <2>2. \A i \in 2 .. N : i \in 1 .. N /\ i # 1
    OBVIOUS
  <2> HIDE DEF Recursion
  <2> QED BY <1>2, <2>1, <2>2
<1> HIDE DEF Recursion
<1> DEFINE Flat(k) == /\ flat[k + 1] \in Seq(S) /\ Len(flat[k + 1]) = (k + 1) * w
                      /\ \A i \in 1 .. k + 1 : \A j \in 1 .. w : flat[k + 1][(i - 1) * w + j] = seqs[i][j]
           P == {k \in 0 .. N - 1 : Flat(k)}
<1>13. 0 \in P
  <2>1. flat[0 + 1] = seqs[1] /\ Len(seqs[1]) = (0 + 1) * w
    BY <1>12
  <2>2. \A i \in 1 .. 0 + 1 : i = 1
    OBVIOUS
  <2>3. \A j \in 1 .. w : (1 - 1) * w + j = j
    OBVIOUS
  <2> QED BY <1>1, <1>2, <2>1, <2>2, <2>3
<1>14. ASSUME NEW k \in 1 .. N - 1, k - 1 \in P PROVE k \in P
  <2> DEFINE a == flat[k]
             b == seqs[k + 1]
             c == flat[k + 1]
  <2>1. (k - 1) + 1 = k /\ k + 1 \in 2 .. N /\ (k + 1) - 1 = k /\ k \in Nat /\ k \in 0 .. N - 1
    BY <1>1
  <2>2. /\ a \in Seq(S) /\ Len(a) = k * w
        /\ \A i \in 1 .. k : \A j \in 1 .. w : a[(i - 1) * w + j] = seqs[i][j]
    BY <1>14, <2>1
  <2>3. c = a \o b /\ b \in Seq(S) /\ Len(b) = w
    BY <1>1, <1>3, <1>12, <2>1
  <2> HIDE DEF a, b, c
  <2>4. /\ c \in Seq(S) /\ Len(c) = Len(a) + Len(b)
        /\ \A i \in 1 .. Len(a) : c[i] = a[i]
        /\ \A j \in 1 .. Len(b) : c[Len(a) + j] = b[j]
    <3>1. a \in Seq(S) /\ b \in Seq(S)
      BY <2>2, <2>3
    <3>2. /\ a \o b \in Seq(S) /\ Len(a \o b) = Len(a) + Len(b)
          /\ \A i \in 1 .. Len(a) + Len(b) : (a \o b)[i] = IF i <= Len(a) THEN a[i] ELSE b[i - Len(a)]
      BY ONLY <3>1, ConcatProperties
    <3> DEFINE m == Len(a)
               n == Len(b)
    <3>3. m \in Nat /\ n \in Nat
      BY ONLY <3>1, LenProperties
    <3> HIDE DEF m, n
    <3>4. \A i \in 1 .. m : i \in 1 .. m + n /\ i <= m
      BY <3>3
    <3>5. \A j \in 1 .. n : m + j \in 1 .. m + n /\ ~(m + j <= m) /\ (m + j) - m = j
      BY <3>3
    <3> QED BY <2>3, <3>2, <3>4, <3>5 DEF m, n
  <2>5. k * w + w = (k + 1) * w /\ k * w \in Nat
    BY <2>1
  <2>6. ASSUME NEW i \in 1 .. k + 1, NEW j \in 1 .. w PROVE c[(i - 1) * w + j] = seqs[i][j]
    <3>1. CASE i = k + 1
      <4>1. (i - 1) * w + j = Len(a) + j
        BY <2>1, <2>2, <3>1
      <4> QED BY <2>3, <2>4, <3>1, <4>1 DEF b
    <3>2. CASE i # k + 1
      <4>1. i \in 1 .. k
        BY <2>1, <3>2
      <4>2. (i - 1) * w + j \in 1 .. k * w
        <5>1. (i - 1) \in Nat /\ k - i \in Nat
          BY <4>1
        <5>2. (i - 1) * w \in Nat /\ (k - i) * w \in Nat
          BY <5>1
        <5>3. k * w = (i - 1) * w + w + (k - i) * w
          BY <2>1, <4>1
        <5> DEFINE x == (i - 1) * w
                   y == (k - i) * w
                   z == k * w
        <5>4. x \in Nat /\ y \in Nat /\ z = x + w + y
          BY <5>2, <5>3
        <5>5. x + j \in 1 .. z
          <6> HIDE DEF x, y, z
          <6> QED BY <5>4
        <5> QED BY <5>5
      <4> QED BY <2>2, <2>4, <4>1, <4>2
    <3> QED BY <3>1, <3>2
  <2> QED BY <2>1, <2>2, <2>3, <2>4, <2>5, <2>6 DEF c
<1>15. N - 1 \in P
  <2>1. \A k \in 0 .. N - 1 : k \in P
    <3> HIDE DEF P
    <3> QED BY ONLY <1>1, <1>13, <1>14, IntervalInduction
  <2>2. N - 1 \in 0 .. N - 1
    BY <1>1
  <2> HIDE DEF P
  <2> QED BY <2>1, <2>2
<1>16. (N - 1) + 1 = N
  OBVIOUS
<1>17. N * w = Place(w, N, w)
  BY DEF Place
<1>18. \A i \in 1 .. N : \A j \in 1 .. w : flat[N][(i - 1) * w + j] = seqs[i][j]
  BY <1>15, <1>16
<1>19. \A i \in 1 .. N : \A j \in 1 .. w : flat[N][Place(w, i, j)] = seqs[i][j]
  BY <1>18 DEF Place
<1>20. flat[N] \in Seq(S) /\ Len(flat[N]) = N * w
  BY <1>15, <1>16
<1> QED BY <1>11, <1>17, <1>19, <1>20 DEF InStep

(* The places of N rounds of w each. *)
LEMMA RoundsOf ==
  ASSUME NEW N \in Nat, N > 0, NEW w \in 2 .. 5
  PROVE  /\ Place(w, N, w) \in Nat /\ Place(w, N, w) = N * w /\ Place(w, 1, 1) = 1
         /\ \A k \in 1 .. Place(w, N, w) :
              \E i \in 1 .. N : \E j \in 1 .. w : k = Place(w, i, j) /\ ((k - 1) % w) + 1 = j
         /\ \A i \in 1 .. N : \A j \in 1 .. w : Place(w, i, j) \in 1 .. Place(w, N, w)
<1>1. w = 2 \/ w = 3 \/ w = 4 \/ w = 5
  OBVIOUS
<1>2. Place(w, N, w) \in Nat /\ Place(w, N, w) = N * w /\ Place(w, 1, 1) = 1
  BY DEF Place
<1>3. ASSUME NEW k \in 1 .. N * w
      PROVE  \E i \in 1 .. N : \E j \in 1 .. w : k = (i - 1) * w + j /\ ((k - 1) % w) + 1 = j
  <2> DEFINE i == ((k - 1) \div w) + 1
             j == ((k - 1) % w) + 1
  <2>1. CASE w = 2
    <3>1. i \in 1 .. N /\ j \in 1 .. w /\ k = (i - 1) * w + j
      BY <2>1
    <3> QED BY <3>1
  <2>2. CASE w = 3
    <3>1. i \in 1 .. N /\ j \in 1 .. w /\ k = (i - 1) * w + j
      BY <2>2
    <3> QED BY <3>1
  <2>3. CASE w = 4
    <3>1. i \in 1 .. N /\ j \in 1 .. w /\ k = (i - 1) * w + j
      BY <2>3
    <3> QED BY <3>1
  <2>4. CASE w = 5
    <3>1. i \in 1 .. N /\ j \in 1 .. w /\ k = (i - 1) * w + j
      BY <2>4
    <3> QED BY <3>1
  <2> HIDE DEF i, j
  <2> QED BY <1>1, <2>1, <2>2, <2>3, <2>4
<1>4. ASSUME NEW i \in 1 .. N, NEW j \in 1 .. w PROVE (i - 1) * w + j \in 1 .. N * w
  <2>1. CASE w = 2
    BY <2>1
  <2>2. CASE w = 3
    BY <2>2
  <2>3. CASE w = 4
    BY <2>3
  <2>4. CASE w = 5
    BY <2>4
  <2> QED BY <1>1, <2>1, <2>2, <2>3, <2>4
<1> QED BY <1>2, <1>3, <1>4 DEF Place

(* The evidence of a pattern p of the occurrences c, event by event. *)
Backed(events, w, g, c, p) ==
  /\ p.signature = g /\ p.count = Len(c) /\ (p.verbatim <=> ContainsVerbatim(g))
  /\ Len(p.evidence) = Place(w, Len(c), w) /\ DOMAIN p.evidence = 1 .. Place(w, Len(c), w)
  /\ \A i \in 1 .. Len(c) : \A j \in 1 .. w : p.evidence[Place(w, i, j)] = events[c[i] + j - 1].id
  /\ p.firstSeen = events[c[1]].at /\ p.lastSeen = events[c[Len(c)] + w - 1].at

LEMMA EvidenceIs ==
  ASSUME NEW events, IsEvents(events), NEW w \in 2 .. 5, NEW s \in Starts(events, w),
         NEW g, g = Signature(events, s, w), NEW c, c = Occurrences(events, g), NEW p, p = Describe(events, g)
  PROVE  Backed(events, w, g, c, p)
<1> DEFINE N == Len(c)
           n == Len(events)
           slices == [i \in DOMAIN c |-> SubSeq(events, c[i], c[i] + Len(g) - 1)]
           ids == [i \in DOMAIN slices |-> [j \in DOMAIN slices[i] |-> slices[i][j].id]]
           S == {events[i].id : i \in 1 .. n}
           E == {events[i] : i \in 1 .. n}
           firsts == {t[1].at : t \in ToSet(slices)}
           lasts == {Last(t).at : t \in ToSet(slices)}
<1>0. w \in Nat /\ w > 0
  OBVIOUS
<1>1. /\ Len(g) = w /\ N \in Nat /\ N > 0 /\ DOMAIN c = 1 .. N
      /\ \A i \in 1 .. N : /\ c[i] \in Nat /\ c[i] > 0 /\ c[i] + w - 1 <= n
                           /\ \A j \in 1 .. w : c[i] + j - 1 \in 1 .. n
      /\ \A i, j \in 1 .. N : i < j => c[i] + w <= c[j]
  <2>1. Lying(events, w, g, c)
    BY OccurrencesLie
  <2> QED BY <2>1 DEF Lying
<1>2. n \in Nat /\ DOMAIN events = 1 .. n
  BY DEF IsEvents
<1>3. /\ p.signature = g /\ p.count = N /\ p.verbatim = ContainsVerbatim(g)
      /\ p.evidence = FlattenSeq(ids)
      /\ p.firstSeen = Min(firsts) /\ p.lastSeen = Max(lasts)
  BY DEF Describe
<1> HIDE DEF N, n, firsts, lasts
<1>4. DOMAIN slices = 1 .. N
  BY <1>1
<1>5. ASSUME NEW i \in 1 .. N
      PROVE  /\ Len(slices[i]) = w /\ DOMAIN slices[i] = 1 .. w
             /\ \A j \in 1 .. w : slices[i][j] = events[c[i] + j - 1]
  <2> DEFINE a == c[i]
             b == c[i] + w - 1
             t == SubSeq(events, a, b)
  <2>1. a \in Int /\ b \in Int /\ a <= b /\ b - a + 1 = w
    <3>1. a \in Nat /\ w \in 2 .. 5
      BY <1>1
    <3> QED BY ONLY <3>1 DEF b
  <2>2. \A k \in a .. b : k \in 1 .. n
    BY <1>1, <1>2
  <2>3. \A k \in a .. b : events[k] \in E
    BY <2>2
  <2>4. slices[i] = t
    BY <1>1
  <2> HIDE DEF a, b, E
  <2>5. t \in Seq(E) /\ Len(t) = (IF a <= b THEN b - a + 1 ELSE 0) /\ \A j \in 1 .. b - a + 1 : t[j] = events[a + j - 1]
    BY ONLY <2>1, <2>3, SubSeqProperties
  <2> HIDE DEF t
  <2>6. Len(t) = w /\ DOMAIN t = 1 .. w /\ \A j \in 1 .. w : t[j] = events[a + j - 1]
    BY <2>1, <2>5, LenProperties
  <2> HIDE DEF slices
  <2> QED BY <2>4, <2>6 DEF a
<1> HIDE DEF slices
<1>6. /\ ids \in [1 .. N -> Seq(S)] /\ \A i \in 1 .. N : Len(ids[i]) = w
      /\ \A i \in 1 .. N : \A j \in 1 .. w : ids[i][j] = events[c[i] + j - 1].id
  <2>1. \A i \in 1 .. N : ids[i] = [j \in 1 .. w |-> events[c[i] + j - 1].id]
    BY <1>4, <1>5
  <2>2. \A i \in 1 .. N : \A j \in 1 .. w : events[c[i] + j - 1].id \in S
    BY <1>1
  <2>3. DOMAIN ids = 1 .. N /\ ids = [i \in DOMAIN ids |-> ids[i]]
    BY <1>4
  <2> HIDE DEF ids, S
  <2>4. ASSUME NEW i \in 1 .. N
        PROVE  ids[i] \in Seq(S) /\ Len(ids[i]) = w /\ \A j \in 1 .. w : ids[i][j] = events[c[i] + j - 1].id
    <3> DEFINE f == [j \in 1 .. w |-> events[c[i] + j - 1].id]
    <3>1. f \in [1 .. w -> S] /\ (\A j \in 1 .. w : f[j] = events[c[i] + j - 1].id) /\ ids[i] = f
      BY <2>1, <2>2
    <3> HIDE DEF f
    <3>2. f \in Seq(S) /\ Len(f) = w
      BY <1>0, <3>1
    <3> QED BY <3>1, <3>2
  <2> QED BY <2>3, <2>4
<1> HIDE DEF ids, S
<1>7. /\ FlattenSeq(ids) \in Seq(S) /\ Len(FlattenSeq(ids)) = Place(w, N, w)
      /\ \A i \in 1 .. N : \A j \in 1 .. w : FlattenSeq(ids)[Place(w, i, j)] = ids[i][j]
  <2>1. N \in Nat /\ N > 0
    BY <1>1
  <2>2. ids \in [1 .. N -> Seq(S)]
    BY <1>6
  <2>3. \A i \in 1 .. N : Len(ids[i]) = w
    BY <1>6
  <2>4. InStep(FlattenSeq(ids), ids, S, N, w)
    BY ONLY <1>0, <2>1, <2>2, <2>3, FlattenedInStep
  <2> QED BY <2>4 DEF InStep
<1>8. Len(p.evidence) = Place(w, N, w) /\ DOMAIN p.evidence = 1 .. Place(w, N, w)
  <2>1. DOMAIN FlattenSeq(ids) = 1 .. Len(FlattenSeq(ids))
    BY ONLY <1>7, LenProperties
  <2> QED BY <1>3, <1>7, <2>1
<1>9. \A i \in 1 .. N : \A j \in 1 .. w : p.evidence[Place(w, i, j)] = events[c[i] + j - 1].id
  <2> SUFFICES ASSUME NEW i \in 1 .. N, NEW j \in 1 .. w PROVE p.evidence[Place(w, i, j)] = events[c[i] + j - 1].id
    OBVIOUS
  <2>1. FlattenSeq(ids)[Place(w, i, j)] = ids[i][j]
    BY <1>7
  <2>2. ids[i][j] = events[c[i] + j - 1].id
    BY <1>6
  <2> QED BY <1>3, <2>1, <2>2
<1>10. ToSet(slices) = {slices[i] : i \in 1 .. N}
  BY <1>4 DEF ToSet
<1>11. \A i \in 1 .. n : events[i].at \in Nat
  BY <1>2 DEF IsEvents, Range
<1>12. \A i, j \in 1 .. n : i <= j => events[i].at <= events[j].at
  <2> SUFFICES ASSUME NEW i \in 1 .. n, NEW j \in 1 .. n, i <= j PROVE events[i].at <= events[j].at
    OBVIOUS
  <2>1. CASE i = j
    BY <1>11, <2>1
  <2>2. CASE i < j
    BY <1>2, <2>2 DEF IsEvents
  <2> QED BY <1>2, <2>1, <2>2
<1>13. 1 \in 1 .. N /\ N \in 1 .. N
  BY <1>1
<1>14. p.firstSeen = events[c[1]].at
  <2>1. \A i \in 1 .. N : slices[i][1].at = events[c[i]].at /\ c[i] \in 1 .. n
    <3> SUFFICES ASSUME NEW i \in 1 .. N PROVE slices[i][1].at = events[c[i]].at /\ c[i] \in 1 .. n
      OBVIOUS
    <3>1. 1 \in 1 .. w
      BY <1>0
    <3>2. c[i] \in Nat /\ c[i] + 1 - 1 \in 1 .. n /\ slices[i][1] = events[c[i] + 1 - 1]
      BY <1>1, <1>5, <3>1
    <3>3. c[i] + 1 - 1 = c[i]
      BY <3>2
    <3> QED BY <3>2, <3>3
  <2>2. firsts = {events[c[i]].at : i \in 1 .. N}
    BY <1>10, <2>1 DEF firsts
  <2>3. \A i \in 1 .. N : c[1] <= c[i]
    <3> SUFFICES ASSUME NEW i \in 1 .. N PROVE c[1] <= c[i]
      OBVIOUS
    <3>1. CASE i = 1
      BY <1>1, <3>1
    <3>2. CASE i # 1
      <4>1. 1 < i
        BY <1>1, <3>2
      <4>2. c[1] + w <= c[i] /\ c[1] \in Nat /\ c[i] \in Nat
        BY <1>1, <1>13, <4>1
      <4> QED BY <1>1, <4>2
    <3> QED BY <3>1, <3>2
  <2>4. firsts \in SUBSET Nat /\ events[c[1]].at \in firsts /\ \A x \in firsts : events[c[1]].at <= x
    BY <1>11, <1>12, <1>13, <2>1, <2>2, <2>3
  <2> DEFINE a == events[c[1]].at
  <2> HIDE DEF a
  <2>5. Min(firsts) \in firsts /\ Min(firsts) <= a
    BY <2>4, MinIsLeast DEF a
  <2>6. a \in firsts /\ \A x \in firsts : x \in Nat /\ a <= x
    BY <2>4 DEF a
  <2>7. Min(firsts) = a
    BY <2>5, <2>6
  <2> QED BY <1>3, <2>7 DEF a
<1>15. p.lastSeen = events[c[N] + w - 1].at
  <2> DEFINE e(i) == c[i] + w - 1
  <2>1. \A i \in 1 .. N : Last(slices[i]).at = events[e(i)].at /\ e(i) \in 1 .. n
    <3>1. w \in 1 .. w
      BY <1>0
    <3> QED BY <1>1, <1>5, <3>1 DEF Last
  <2>2. lasts = {events[e(i)].at : i \in 1 .. N}
    BY <1>10, <2>1 DEF lasts
  <2>3. \A i \in 1 .. N : e(i) <= e(N)
    <3> SUFFICES ASSUME NEW i \in 1 .. N PROVE e(i) <= e(N)
      OBVIOUS
    <3>1. CASE i = N
      BY <1>1, <3>1
    <3>2. CASE i # N
      <4>1. i < N
        BY <1>1, <3>2
      <4>2. c[i] + w <= c[N] /\ c[N] \in Nat /\ c[i] \in Nat
        BY <1>1, <1>13, <4>1
      <4> QED BY <1>1, <4>2
    <3> QED BY <3>1, <3>2
  <2> HIDE DEF e
  <2>4. lasts \in SUBSET Nat /\ events[e(N)].at \in lasts /\ \A x \in lasts : x <= events[e(N)].at
    BY <1>11, <1>12, <1>13, <2>1, <2>2, <2>3
  <2> DEFINE a == events[e(N)].at
  <2> HIDE DEF a
  <2>5. a \in lasts /\ lasts \in SUBSET Int /\ \A x \in lasts : x \in Nat /\ x <= a
    <3>1. \A x \in lasts : x \in Nat
      BY <2>4
    <3>2. a \in lasts /\ \A x \in lasts : x <= a
      BY <2>4 DEF a
    <3>3. Nat \subseteq Int
      OBVIOUS
    <3> QED BY ONLY <3>1, <3>2, <3>3
  <2>6. a \in Int /\ a \in Nat
    BY <2>5
  <2>7. Max(lasts) \in lasts /\ a <= Max(lasts)
    BY <2>5, <2>6, MaxIsGreatest
  <2>8. Max(lasts) = a
    <3>1. Max(lasts) \in Nat /\ Max(lasts) <= a
      BY ONLY <2>5, <2>7
    <3> QED BY ONLY <2>6, <2>7, <3>1
  <2> QED BY <1>3, <2>8 DEF a, e
<1> QED BY <1>3, <1>8, <1>9, <1>14, <1>15 DEF N, Backed

(* A key tells of a domain exactly if the event holds one. *)
LEMMA VerbatimKey ==
  ASSUME NEW events, IsEvents(events), NEW e \in Range(events)
  PROVE  ActionKey(e)[1] = "browser_domain_visited" <=> "domain" \in DOMAIN e.summary
<1>1. /\ e.signalType \in Types /\ e.source \notin Types
      /\ "domain" \in DOMAIN e.summary <=> e.signalType = "browser_domain_visited"
      /\ e.signalType = "browser_domain_visited" => e.summary["domain"] # Missing
  BY DEF IsEvents
<1>2. "browser_domain_visited" \in DOMAIN SubjectField /\ SubjectField["browser_domain_visited"] = "domain"
  BY DEF SubjectField
<1>3. CASE e.signalType = "browser_domain_visited"
  <2>1. Subject(e) # Missing
    BY <1>1, <1>2, <1>3 DEF Subject, Field
  <2>2. ActionKey(e) = <<e.signalType, Subject(e)>>
    BY <2>1 DEF ActionKey
  <2> QED BY <1>1, <1>3, <2>2
<1>4. CASE e.signalType # "browser_domain_visited"
  <2>1. ActionKey(e)[1] = e.source \/ ActionKey(e)[1] = e.signalType
    BY DEF ActionKey
  <2>2. "browser_domain_visited" \in Types
    BY <1>2 DEF Types
  <2> QED BY <1>1, <1>4, <2>1, <2>2
<1> QED BY <1>3, <1>4

(* The id of an event tells it. *)
Told(events, id) == CHOOSE e \in ToSet(events) : e.id = id

LEMMA IdTells ==
  ASSUME NEW events, IsEvents(events), NEW x \in 1 .. Len(events)
  PROVE  Told(events, events[x].id) = events[x] /\ \A y \in 1 .. Len(events) : events[y].id = events[x].id => y = x
<1>1. Len(events) \in Nat /\ DOMAIN events = 1 .. Len(events)
      /\ \A i, j \in DOMAIN events : i < j => events[i].id # events[j].id
  BY DEF IsEvents
<1>2. ASSUME NEW y \in 1 .. Len(events), events[y].id = events[x].id PROVE y = x
  <2>1. ~(y < x) /\ ~(x < y)
    BY <1>1, <1>2
  <2> QED BY <1>1, <2>1
<1>3. ToSet(events) = {events[y] : y \in 1 .. Len(events)}
  BY <1>1 DEF ToSet
<1>4. \A e \in ToSet(events) : e.id = events[x].id => e = events[x]
  BY <1>2, <1>3
<1>5. events[x] \in ToSet(events)
  BY <1>3
<1>6. \E e \in ToSet(events) : e.id = events[x].id
  BY <1>5
<1>7. Told(events, events[x].id) \in ToSet(events) /\ Told(events, events[x].id).id = events[x].id
  BY <1>6 DEF Told
<1> QED BY <1>2, <1>4, <1>7

(* What the evidence of a pattern p of w events tells. *)
Telling(events, w, g, p) ==
  /\ p.signature = g /\ Len(g) = w
  /\ Len(p.evidence) = p.count * w /\ Cardinality(ToSet(p.evidence)) = Len(p.evidence)
  /\ \A k \in DOMAIN p.evidence : ActionKey(Told(events, p.evidence[k])) = g[((k - 1) % w) + 1]
  /\ p.firstSeen = Told(events, p.evidence[1]).at /\ p.lastSeen = Told(events, p.evidence[Len(p.evidence)]).at
  /\ p.verbatim <=> \E k \in DOMAIN p.evidence : "domain" \in DOMAIN Told(events, p.evidence[k]).summary

LEMMA EvidenceTells ==
  ASSUME NEW events, IsEvents(events), NEW w \in 2 .. 5, NEW s \in Starts(events, w), NEW g, g = Signature(events, s, w),
         NEW p, p = Describe(events, g)
  PROVE  Telling(events, w, g, p)
<1> DEFINE c == Occurrences(events, g)
           N == Len(c)
           n == Len(events)
           M == Place(w, N, w)
           ids == p.evidence
           x(i, j) == c[i] + j - 1
<1>1. Lying(events, w, g, c)
  BY OccurrencesLie
<1>2. /\ p.signature = g /\ p.count = N /\ (p.verbatim <=> ContainsVerbatim(g))
      /\ Len(ids) = M /\ DOMAIN ids = 1 .. M
      /\ \A i \in 1 .. N : \A j \in 1 .. w : ids[Place(w, i, j)] = events[x(i, j)].id
      /\ p.firstSeen = events[c[1]].at /\ p.lastSeen = events[x(N, w)].at
  <2>1. Backed(events, w, g, c, p)
    BY EvidenceIs
  <2> QED BY <2>1 DEF Backed
<1> HIDE DEF c
<1>3. /\ Len(g) = w /\ DOMAIN g = 1 .. w /\ N \in Nat /\ N > 0 /\ n \in Nat /\ w \in Nat /\ w > 0
      /\ \A i \in 1 .. N : c[i] \in Nat
      /\ \A i \in 1 .. N : \A j \in 1 .. w : x(i, j) \in 1 .. n /\ ActionKey(events[x(i, j)]) = g[j]
      /\ \A i, j \in 1 .. N : i < j => c[i] + w <= c[j]
  <2>1. n \in Nat /\ w \in Nat /\ w > 0
    BY DEF IsEvents
  <2> QED BY <1>1, <2>1 DEF Lying
<1> HIDE DEF N, n
<1>4. /\ M \in Nat /\ M = N * w /\ Place(w, 1, 1) = 1
      /\ \A k \in 1 .. M : \E i \in 1 .. N : \E j \in 1 .. w : k = Place(w, i, j) /\ ((k - 1) % w) + 1 = j
      /\ \A i \in 1 .. N : \A j \in 1 .. w : Place(w, i, j) \in 1 .. M
  BY <1>3, RoundsOf
<1>5. ASSUME NEW i \in 1 .. N, NEW j \in 1 .. w
      PROVE  /\ Told(events, ids[Place(w, i, j)]) = events[x(i, j)]
             /\ \A y \in 1 .. n : events[y].id = ids[Place(w, i, j)] => y = x(i, j)
  <2> DEFINE v == x(i, j)
  <2>1. v \in 1 .. n
    BY <1>3
  <2>2. ids[Place(w, i, j)] = events[v].id
    BY <1>2
  <2> HIDE DEF v, ids
  <2> QED BY <2>1, <2>2, IdTells DEF n, v
<1> HIDE DEF M, ids
<1>6. ASSUME NEW i \in 1 .. N, NEW j \in 1 .. w, NEW a \in 1 .. N, NEW b \in 1 .. w, x(i, j) = x(a, b)
      PROVE  i = a /\ j = b
  <2>1. c[i] \in Nat /\ c[a] \in Nat /\ (i < a => c[i] + w <= c[a]) /\ (a < i => c[a] + w <= c[i])
    BY <1>3
  <2> DEFINE y == c[i]
             z == c[a]
  <2>2. y \in Nat /\ z \in Nat /\ y + j - 1 = z + b - 1 /\ (i < a => y + w <= z) /\ (a < i => z + w <= y)
    BY <1>6, <2>1
  <2> HIDE DEF y, z, x
  <2>3. ~(i < a) /\ ~(a < i)
    BY <1>3, <2>2
  <2>4. i = a
    BY <1>3, <2>3
  <2>5. y = z
    BY <2>4 DEF y, z
  <2> QED BY <1>3, <2>2, <2>4, <2>5
<1> HIDE DEF x
<1>7. ASSUME NEW k \in 1 .. M, NEW l \in 1 .. M, ids[k] = ids[l] PROVE k = l
  <2>1. PICK i \in 1 .. N : \E j \in 1 .. w : k = Place(w, i, j)
    BY <1>4
  <2>2. PICK j \in 1 .. w : k = Place(w, i, j)
    BY <2>1
  <2>3. PICK a \in 1 .. N : \E b \in 1 .. w : l = Place(w, a, b)
    BY <1>4
  <2>4. PICK b \in 1 .. w : l = Place(w, a, b)
    BY <2>3
  <2>5. events[x(a, b)].id = ids[k] /\ x(a, b) \in 1 .. n
    BY <1>2, <1>3, <1>7, <2>4 DEF ids
  <2>6. x(a, b) = x(i, j)
    BY <1>5, <2>2, <2>5
  <2>7. i = a /\ j = b
    BY <1>6, <2>6
  <2> QED BY <2>2, <2>4, <2>7
<1>8. Cardinality(ToSet(ids)) = M
  <2> DEFINE R == ToSet(ids)
             f == [k \in 1 .. M |-> ids[k]]
  <2>1. R = {ids[k] : k \in 1 .. M}
    BY <1>2 DEF ToSet, ids
  <2>2. f \in [1 .. M -> R] /\ \A r \in R : \E k \in 1 .. M : f[k] = r
    BY <2>1
  <2>3. \A k, l \in 1 .. M : f[k] = f[l] => k = l
    BY <1>7
  <2> HIDE DEF f, R
  <2>4. f \in Injection(1 .. M, R)
    BY <2>2, <2>3 DEF Injection, IsInjective
  <2>5. f \in Surjection(1 .. M, R)
    BY <2>2 DEF Surjection
  <2>6. f \in Bijection(1 .. M, R)
    BY <2>4, <2>5 DEF Bijection
  <2>7. ExistsBijection(1 .. M, R)
    BY <2>6 DEF ExistsBijection
  <2>8. Cardinality(R) = M
    BY <1>4, <2>7, FS_CountingElements
  <2> QED BY <2>8 DEF R
<1>9. \A k \in 1 .. M : ActionKey(Told(events, ids[k])) = g[((k - 1) % w) + 1]
  <2> SUFFICES ASSUME NEW k \in 1 .. M PROVE ActionKey(Told(events, ids[k])) = g[((k - 1) % w) + 1]
    OBVIOUS
  <2>1. PICK i \in 1 .. N : \E j \in 1 .. w : k = Place(w, i, j) /\ ((k - 1) % w) + 1 = j
    BY <1>4
  <2>2. PICK j \in 1 .. w : k = Place(w, i, j) /\ ((k - 1) % w) + 1 = j
    BY <2>1
  <2>3. Told(events, ids[k]) = events[x(i, j)] /\ ActionKey(events[x(i, j)]) = g[j]
    BY <1>3, <1>5, <2>2
  <2> QED BY <2>2, <2>3
<1>10. 1 \in 1 .. N /\ N \in 1 .. N /\ 1 \in 1 .. w /\ w \in 1 .. w
  BY <1>3
<1>11. p.firstSeen = Told(events, ids[1]).at
  <2>1. Told(events, ids[1]) = events[x(1, 1)]
    BY <1>4, <1>5, <1>10
  <2>2. x(1, 1) = c[1]
    BY <1>3, <1>10 DEF x
  <2> QED BY <1>2, <2>1, <2>2
<1>12. p.lastSeen = Told(events, ids[M]).at
  <2>1. Told(events, ids[M]) = events[x(N, w)]
    BY <1>5, <1>10 DEF M
  <2> QED BY <1>2, <2>1
<1>13. ASSUME NEW i \in 1 .. N, NEW j \in 1 .. w
       PROVE  g[j][1] = "browser_domain_visited" <=> "domain" \in DOMAIN Told(events, ids[Place(w, i, j)]).summary
  <2> DEFINE e == events[x(i, j)]
  <2>1. x(i, j) \in 1 .. n /\ ActionKey(e) = g[j] /\ Told(events, ids[Place(w, i, j)]) = e
    BY <1>3, <1>5
  <2>2. e \in Range(events)
    BY <2>1 DEF Range, IsEvents, n
  <2> HIDE DEF e
  <2>3. ActionKey(e)[1] = "browser_domain_visited" <=> "domain" \in DOMAIN e.summary
    BY <2>2, VerbatimKey
  <2> QED BY <2>1, <2>3
<1>14. p.verbatim <=> \E k \in 1 .. M : "domain" \in DOMAIN Told(events, ids[k]).summary
  <2>1. ContainsVerbatim(g) <=> \E j \in 1 .. w : g[j][1] = "browser_domain_visited"
    BY <1>3 DEF ContainsVerbatim
  <2>2. ASSUME NEW j \in 1 .. w, g[j][1] = "browser_domain_visited"
        PROVE  \E k \in 1 .. M : "domain" \in DOMAIN Told(events, ids[k]).summary
    <3>1. Place(w, 1, j) \in 1 .. M
      BY <1>4, <1>10
    <3>2. "domain" \in DOMAIN Told(events, ids[Place(w, 1, j)]).summary
      BY <1>10, <1>13, <2>2
    <3> QED BY <3>1, <3>2
  <2>3. ASSUME NEW k \in 1 .. M, "domain" \in DOMAIN Told(events, ids[k]).summary
        PROVE  \E j \in 1 .. w : g[j][1] = "browser_domain_visited"
    <3>1. PICK i \in 1 .. N : \E j \in 1 .. w : k = Place(w, i, j)
      BY <1>4
    <3>2. PICK j \in 1 .. w : k = Place(w, i, j)
      BY <3>1
    <3>3. g[j][1] = "browser_domain_visited"
      BY <1>13, <2>3, <3>2
    <3> QED BY <3>3
  <2> QED BY <1>2, <2>1, <2>2, <2>3
<1>15. Len(ids) = N * w /\ Len(ids) = M /\ DOMAIN ids = 1 .. M /\ p.count = N /\ p.signature = g /\ Len(g) = w
  BY <1>2, <1>3, <1>4 DEF ids, M
<1> QED BY <1>8, <1>9, <1>11, <1>12, <1>14, <1>15 DEF ids, Telling

(* detector.rs detect_for_window: in a history of any length, no event is evidence    *)
(* twice for one pattern, the evidence spells the signature over and over and spans     *)
(* first to last seen, and the pattern tells of a domain exactly if an event of it does. *)
THEOREM EvidenceSound == Spec => []EvidenceBacksPatterns
<1>1. Given /\ Computed => EvidenceBacksPatterns
  <2> SUFFICES ASSUME Given, Computed, done, input.kind = "history", NEW p \in outcome.patterns
               PROVE  LET n == Len(p.signature)
                          event(i) == CHOOSE e \in ToSet(input.events) : e.id = p.evidence[i]
                      IN /\ Len(p.evidence) = p.count * n /\ Cardinality(ToSet(p.evidence)) = Len(p.evidence)
                         /\ \A i \in DOMAIN p.evidence : ActionKey(event(i)) = p.signature[((i - 1) % n) + 1]
                         /\ p.firstSeen = event(1).at /\ p.lastSeen = event(Len(p.evidence)).at
                         /\ p.verbatim <=> \E i \in DOMAIN p.evidence : "domain" \in DOMAIN event(i).summary
    BY DEF EvidenceBacksPatterns
  <2> DEFINE events == input.events
             min == input.minOccurrences
  <2>1. IsHistory(input) /\ p \in Detect(events, 2 .. 5, min)
    BY HistoriesAssumption DEF Given, Computed, IsAnswer, PatternsAndGraph
  <2>2. IsEvents(events) /\ min \in Nat
    BY <2>1 DEF IsHistory, IsEvents
  <2> HIDE DEF min
  <2>3. PICK w \in 2 .. 5 : \E s \in Starts(events, w) : p = Describe(events, Signature(events, s, w))
    BY <2>1, <2>2, DetectedAre
  <2>4. PICK s \in Starts(events, w) : p = Describe(events, Signature(events, s, w))
    BY <2>3
  <2> DEFINE g == Signature(events, s, w)
  <2>5. Telling(events, w, g, p)
    BY <2>2, <2>4, EvidenceTells
  <2> HIDE DEF g
  <2> QED BY <2>5 DEF Telling, Told
<1> QED BY <1>1, OutcomeIsComputed, PTL

(* What occurs n times is counted n times over all that occur. *)
Fiber(t, n, s) == {i \in 1 .. n : t[i] \in s}

LEMMA SumOfOccurrences ==
  ASSUME NEW n \in Nat, NEW t, DOMAIN t = 1 .. n, NEW E, E = {t[i] : i \in 1 .. n},
         NEW f, f = [x \in E |-> Cardinality({i \in 1 .. n : t[i] = x})]
  PROVE  FoldFunction(+, 0, f) = n
<1> DEFINE Recursion(g) == g = [s \in SUBSET E |-> IF s = {} THEN 0 ELSE f[CHOOSE x \in s : TRUE] + g[s \ {CHOOSE x \in s : TRUE}]]
           iter == CHOOSE g : Recursion(g)
           count == [s \in SUBSET E |-> Cardinality(Fiber(t, n, s))]
<1>1. IsFiniteSet(1 .. n) /\ Cardinality(1 .. n) = n
  <2>1. 1 \in Int /\ n \in Int
    OBVIOUS
  <2>2. IsFiniteSet(1 .. n) /\ Cardinality(1 .. n) = IF 1 > n THEN 0 ELSE n - 1 + 1
    BY ONLY <2>1, FS_Interval
  <2> QED BY <2>2
<1>2. \A s : IsFiniteSet(Fiber(t, n, s)) /\ Cardinality(Fiber(t, n, s)) \in Nat
  <2> SUFFICES ASSUME NEW s PROVE IsFiniteSet(Fiber(t, n, s)) /\ Cardinality(Fiber(t, n, s)) \in Nat
    OBVIOUS
  <2>1. Fiber(t, n, s) \in SUBSET (1 .. n)
    BY DEF Fiber
  <2>2. IsFiniteSet(Fiber(t, n, s))
    BY <1>1, <2>1, FS_Subset
  <2> QED BY <2>2, FS_CardinalityType
<1>3. ASSUME NEW s \in SUBSET E, NEW x \in s
      PROVE  Cardinality(Fiber(t, n, s)) = f[x] + Cardinality(Fiber(t, n, s \ {x}))
  <2> DEFINE A == {i \in 1 .. n : t[i] = x}
             B == Fiber(t, n, s \ {x})
  <2>1. Fiber(t, n, s) = A \cup B /\ A \cap B = {} /\ A = Fiber(t, n, {x})
    BY DEF Fiber
  <2>2. f[x] = Cardinality(A)
    OBVIOUS
  <2>3. IsFiniteSet(A) /\ IsFiniteSet(B) /\ Cardinality(A) \in Nat /\ Cardinality(B) \in Nat
    BY <1>2, <2>1
  <2> HIDE DEF A, B
  <2>4. Cardinality(A \cup B) = Cardinality(A) + Cardinality(B) - Cardinality(A \cap B)
    BY <2>3, FS_Union
  <2>5. Cardinality(A \cap B) = 0
    BY <2>1, FS_EmptySet
  <2>6. Cardinality(A \cup B) = Cardinality(A) + Cardinality(B)
    <3> DEFINE a == Cardinality(A)
               b == Cardinality(B)
               both == Cardinality(A \cap B)
    <3>1. Cardinality(A \cup B) = a + b - both /\ both = 0 /\ a \in Nat /\ b \in Nat
      BY <2>3, <2>4, <2>5
    <3> HIDE DEF a, b, both
    <3>2. Cardinality(A \cup B) = a + b
      BY ONLY <3>1
    <3> QED BY <3>2 DEF a, b
  <2> QED BY <2>1, <2>2, <2>6 DEF B
<1>4. Cardinality(Fiber(t, n, {})) = 0
  <2>1. Fiber(t, n, {}) = {}
    BY DEF Fiber
  <2> QED BY <2>1, FS_EmptySet
<1>5. Recursion(count)
  <2>1. \A s \in SUBSET E : count[s] = IF s = {} THEN 0 ELSE f[CHOOSE x \in s : TRUE] + count[s \ {CHOOSE x \in s : TRUE}]
    <3> SUFFICES ASSUME NEW s \in SUBSET E
                 PROVE  count[s] = IF s = {} THEN 0 ELSE f[CHOOSE x \in s : TRUE] + count[s \ {CHOOSE x \in s : TRUE}]
      OBVIOUS
    <3>1. CASE s = {}
      BY <1>4, <3>1
    <3>2. CASE s # {}
      <4> DEFINE x == CHOOSE x \in s : TRUE
      <4>1. x \in s
        BY <3>2
      <4> HIDE DEF x
      <4>2. s \ {x} \in SUBSET E
        OBVIOUS
      <4>3. count[s] = f[x] + count[s \ {x}]
        BY <1>3, <4>1, <4>2
      <4> QED BY <3>2, <4>3 DEF x
    <3> QED BY <3>1, <3>2
  <2>2. count = [s \in SUBSET E |-> count[s]]
    OBVIOUS
  <2> HIDE DEF count
  <2> QED BY <2>1, <2>2
<1>6. Recursion(iter)
  <2> HIDE DEF Recursion
  <2> QED BY <1>5
<1>7. FoldFunction(+, 0, f) = iter[E]
  <2>1. DOMAIN f = E
    OBVIOUS
  <2> QED BY <2>1 DEF FoldFunction, FoldFunctionOnSet, MapThenFoldSet
<1> HIDE DEF iter
<1>8. \A s \in SUBSET E : iter[s] = IF s = {} THEN 0 ELSE f[CHOOSE x \in s : TRUE] + iter[s \ {CHOOSE x \in s : TRUE}]
  BY <1>6
<1> HIDE DEF Recursion
<1>9. IsFiniteSet(E) /\ \A s \in SUBSET E : IsFiniteSet(s) /\ Cardinality(s) \in Nat
  <2> DEFINE h == [i \in 1 .. n |-> t[i]]
  <2>1. h \in Surjection(1 .. n, E)
    BY DEF Surjection
  <2>2. IsFiniteSet(E)
    BY <1>1, <2>1, FS_Surjection
  <2> QED BY <2>2, FS_Subset, FS_CardinalityType
<1>10. Cardinality(E) \in Nat
  BY <1>9
<1> DEFINE N == Cardinality(E)
           P == {m \in 0 .. N : \A s \in SUBSET E : Cardinality(s) = m => iter[s] = Cardinality(Fiber(t, n, s))}
<1>11. 0 \in P
  <2>1. \A s \in SUBSET E : Cardinality(s) = 0 => s = {}
    BY <1>9, FS_EmptySet
  <2>2. iter[{}] = 0
    BY <1>8
  <2>3. \A s \in SUBSET E : Cardinality(s) = 0 => iter[s] = Cardinality(Fiber(t, n, s))
    BY <1>4, <2>1, <2>2
  <2>4. 0 \in 0 .. N
    BY <1>10
  <2> QED BY <2>3, <2>4
<1>12. ASSUME NEW m \in 1 .. N, m - 1 \in P PROVE m \in P
  <2> SUFFICES ASSUME NEW s \in SUBSET E, Cardinality(s) = m PROVE iter[s] = Cardinality(Fiber(t, n, s))
    BY <1>10
  <2> DEFINE x == CHOOSE x \in s : TRUE
  <2>1. s # {}
    <3>1. m # 0 /\ Cardinality({}) = 0
      BY <1>10, FS_EmptySet
    <3> QED BY <3>1
  <2>2. x \in s
    BY <2>1
  <2> HIDE DEF x
  <2>3. s \ {x} \in SUBSET E /\ Cardinality(s \ {x}) = m - 1
    BY <1>9, <2>2, FS_RemoveElement
  <2>4. iter[s \ {x}] = Cardinality(Fiber(t, n, s \ {x}))
    BY <1>12, <2>3
  <2>5. iter[s] = f[x] + iter[s \ {x}]
    BY <1>8, <2>1 DEF x
  <2> QED BY <1>3, <2>2, <2>4, <2>5
<1>13. N \in P
  <2>1. \A m \in 0 .. N : m \in P
    <3> HIDE DEF P, N
    <3>1. N \in Nat
      BY <1>10 DEF N
    <3> QED BY ONLY <1>11, <1>12, <3>1, IntervalInduction
  <2> HIDE DEF P
  <2> QED BY <1>10, <2>1
<1>14. Fiber(t, n, E) = 1 .. n
  BY DEF Fiber
<1>15. iter[E] = Cardinality(Fiber(t, n, E))
  BY <1>13
<1> QED BY <1>1, <1>7, <1>14, <1>15

(* The actions of a history, and each step from one to the next, are in its graph. *)
LEMMA NodesAreKeys ==
  ASSUME NEW events, IsEvents(events)
  PROVE  BuildWorkflowGraph(events).nodes = ToSet(Keys(events))
<1> DEFINE n == Len(events)
           k(i) == ActionKey(events[i])
           K == {k(i) : i \in 1 .. n}
           U == UNION {{t[1], t[2]} : t \in Transitions(events)}
<1>1. n \in Nat /\ DOMAIN events = 1 .. n
  BY DEF IsEvents
<1>2. ToSet(Keys(events)) = K
  BY <1>1 DEF ToSet, Keys
<1>3. BuildWorkflowGraph(events).nodes = IF n = 1 THEN {k(1)} ELSE U
  BY DEF BuildWorkflowGraph
<1>4. Transitions(events) = {<<k(i), k(i + 1)>> : i \in 1 .. (n - 1)}
  BY DEF Transitions
<1> HIDE DEF n
<1>5. CASE n = 1
  <2>1. K = {k(1)}
    BY <1>5
  <2> QED BY <1>2, <1>3, <1>5, <2>1
<1>6. CASE n # 1
  <2>1. U \subseteq K
    <3>1. \A i \in 1 .. (n - 1) : i \in 1 .. n /\ i + 1 \in 1 .. n
      BY <1>1
    <3>2. \A t \in Transitions(events) : t[1] \in K /\ t[2] \in K
      BY <1>4, <3>1
    <3> QED BY <3>2
  <2>2. ASSUME NEW i \in 1 .. n PROVE k(i) \in U
    <3>1. CASE i \in 1 .. (n - 1)
      <4>1. <<k(i), k(i + 1)>> \in Transitions(events)
        BY <1>4, <3>1
      <4> HIDE DEF k
      <4> QED BY <4>1
    <3>2. CASE i \notin 1 .. (n - 1)
      <4>1. i = n /\ n - 1 \in 1 .. (n - 1) /\ (n - 1) + 1 = i
        BY <1>1, <1>6, <3>2
      <4>2. <<k(n - 1), k((n - 1) + 1)>> \in Transitions(events)
        BY <1>4, <4>1
      <4> HIDE DEF k
      <4> QED BY <4>1, <4>2
    <3> QED BY <3>1, <3>2
  <2>3. K \subseteq U
    <3> HIDE DEF U, k
    <3> QED BY <2>2
  <2> QED BY <1>2, <1>3, <1>6, <2>1, <2>3
<1> QED BY <1>5, <1>6

LEMMA WeightsAddUp ==
  ASSUME NEW events, IsEvents(events)
  PROVE  FoldFunction(+, 0, BuildWorkflowGraph(events).edges) = Max({Len(events) - 1, 0})
<1> DEFINE n == Len(events)
           m == IF n = 0 THEN 0 ELSE n - 1
           t == [i \in 1 .. m |-> <<ActionKey(events[i]), ActionKey(events[i + 1])>>]
           E == {t[i] : i \in 1 .. m}
           f == [x \in E |-> Cardinality({i \in 1 .. m : t[i] = x})]
<1>1. n \in Nat
  BY DEF IsEvents
<1>2. m \in Nat /\ 1 .. (n - 1) = 1 .. m
  BY <1>1
<1>3. Transitions(events) = {<<ActionKey(events[i]), ActionKey(events[i + 1])>> : i \in 1 .. m}
  BY <1>2 DEF Transitions, n
<1> HIDE DEF n, m
<1>4. Transitions(events) = E
  BY <1>3
<1>5. \A x \in E : Weight(events, x) = Cardinality({i \in 1 .. m : t[i] = x})
  <2> SUFFICES ASSUME NEW x \in E PROVE Weight(events, x) = Cardinality({i \in 1 .. m : t[i] = x})
    OBVIOUS
  <2>1. {i \in 1 .. (n - 1) : <<ActionKey(events[i]), ActionKey(events[i + 1])>> = x} = {i \in 1 .. m : t[i] = x}
    BY <1>2
  <2> QED BY <2>1 DEF Weight, n
<1>6. BuildWorkflowGraph(events).edges = [x \in Transitions(events) |-> Weight(events, x)]
  BY DEF BuildWorkflowGraph
<1>7. BuildWorkflowGraph(events).edges = f
  <2> HIDE DEF E, t
  <2> QED BY <1>4, <1>5, <1>6
<1>8. FoldFunction(+, 0, f) = m
  <2>1. DOMAIN t = 1 .. m
    OBVIOUS
  <2> HIDE DEF t
  <2>2. E = {t[i] : i \in 1 .. m} /\ f = [x \in E |-> Cardinality({i \in 1 .. m : t[i] = x})]
    OBVIOUS
  <2> HIDE DEF E, f
  <2>3. m \in Nat
    BY <1>2
  <2> QED BY ONLY <2>1, <2>2, <2>3, SumOfOccurrences, ZenonT(30)
<1>9. Max({n - 1, 0}) = m
  <2> DEFINE T == {n - 1, 0}
  <2>1. T \in SUBSET Int /\ T # {} /\ (\A x \in T : x <= n) /\ n \in Int
    BY <1>1
  <2>2. m \in T /\ \A x \in T : x <= m
    BY <1>1 DEF m
  <2> HIDE DEF T
  <2>3. Max(T) \in T /\ \A x \in T : x <= Max(T)
    BY <2>1, MaxIsGreatest
  <2>4. Max(T) \in Int /\ Max(T) <= m /\ m <= Max(T)
    BY <2>1, <2>2, <2>3
  <2>5. Max(T) = m
    BY <1>2, <2>4
  <2> QED BY <2>5 DEF T
<1> QED BY <1>7, <1>8, <1>9 DEF n

(* A pattern has a transition of the graph for each step, as often as it occurs. *)
LEMMA StepsAreWeighed ==
  ASSUME NEW events, IsEvents(events), NEW w \in 2 .. 5, NEW g, NEW c, Lying(events, w, g, c), NEW i \in 1 .. (w - 1)
  PROVE  BuildWorkflowGraph(events).edges[<<g[i], g[i + 1]>>] >= Len(c)
<1> DEFINE n == Len(events)
           N == Len(c)
           t == <<g[i], g[i + 1]>>
           step(m) == <<ActionKey(events[m]), ActionKey(events[m + 1])>>
           W == {m \in 1 .. (n - 1) : step(m) = t}
           f == [k \in 1 .. N |-> c[k] + i - 1]
<1>1. n \in Nat /\ w \in Nat /\ i \in 1 .. w /\ i + 1 \in 1 .. w /\ i \in Nat
  BY DEF IsEvents
<1>2. /\ N \in Nat /\ N > 0
      /\ \A k \in 1 .. N : /\ c[k] \in Nat /\ c[k] > 0 /\ c[k] + w - 1 <= n
                           /\ \A j \in 1 .. w : c[k] + j - 1 \in 1 .. n /\ ActionKey(events[c[k] + j - 1]) = g[j]
      /\ \A k, l \in 1 .. N : k < l => c[k] + w <= c[l]
  BY DEF Lying
<1> HIDE DEF n, N
<1>3. ASSUME NEW k \in 1 .. N PROVE f[k] \in W /\ f[k] = c[k] + i - 1
  <2> DEFINE a == c[k]
             m == a + i - 1
  <2>1. a \in Nat /\ a > 0 /\ a + w - 1 <= n
    BY <1>2
  <2>2. ActionKey(events[m]) = g[i] /\ ActionKey(events[a + (i + 1) - 1]) = g[i + 1]
    BY <1>1, <1>2
  <2>3. f[k] = m
    OBVIOUS
  <2> HIDE DEF a
  <2>4. m \in 1 .. (n - 1) /\ a + (i + 1) - 1 = m + 1
    BY <1>1, <2>1
  <2> HIDE DEF m
  <2>5. step(m) = t
    BY <2>2, <2>4
  <2>6. m \in W
    BY <2>4, <2>5
  <2> HIDE DEF f, W
  <2> QED BY <2>3, <2>6 DEF m, a
<1>4. f \in [1 .. N -> W]
  <2>1. f = [k \in 1 .. N |-> f[k]]
    OBVIOUS
  <2> HIDE DEF f, W
  <2> QED BY <1>3, <2>1
<1> HIDE DEF f
<1>5. ASSUME NEW k \in 1 .. N, NEW l \in 1 .. N, f[k] = f[l] PROVE k = l
  <2>1. c[k] \in Nat /\ c[l] \in Nat /\ (k < l => c[k] + w <= c[l]) /\ (l < k => c[l] + w <= c[k])
    BY <1>2
  <2>2. c[k] + i - 1 = c[l] + i - 1
    BY <1>3, <1>5
  <2> DEFINE a == c[k]
             b == c[l]
  <2>3. a \in Nat /\ b \in Nat /\ a + i - 1 = b + i - 1 /\ (k < l => a + w <= b) /\ (l < k => b + w <= a)
    BY <2>1, <2>2
  <2> HIDE DEF a, b
  <2>4. ~(k < l) /\ ~(l < k)
    BY <1>1, <2>3
  <2> QED BY <1>2, <2>4
<1>6. f \in Injection(1 .. N, W)
  <2> HIDE DEF W
  <2> QED BY <1>4, <1>5 DEF Injection, IsInjective
<1>7. /\ IsFiniteSet(1 .. N) /\ Cardinality(1 .. N) = N
      /\ IsFiniteSet(1 .. (n - 1))
  <2>1. 1 \in Int /\ N \in Int /\ n - 1 \in Int
    BY <1>1, <1>2
  <2>2. /\ IsFiniteSet(1 .. N) /\ Cardinality(1 .. N) = IF 1 > N THEN 0 ELSE N - 1 + 1
        /\ IsFiniteSet(1 .. (n - 1))
    BY ONLY <2>1, FS_Interval
  <2> QED BY <1>2, <2>2
<1>8. IsFiniteSet(W) /\ Cardinality(W) \in Nat
  <2>1. IsFiniteSet(W)
    BY <1>7, FS_Subset
  <2> QED BY <2>1, FS_CardinalityType
<1>9. N <= Cardinality(W)
  <2> HIDE DEF W
  <2> QED BY <1>6, <1>7, <1>8, FS_Injection
<1>10. t \in Transitions(events)
  <2>1. 1 \in 1 .. N
    BY <1>2
  <2>2. f[1] \in W
    BY <1>3, <2>1
  <2>3. PICK m \in 1 .. (n - 1) : step(m) = t
    BY <2>2
  <2> QED BY <2>3 DEF Transitions, n
<1>11. Weight(events, t) = Cardinality(W)
  BY DEF Weight, n
<1>12. BuildWorkflowGraph(events).edges[t] = Weight(events, t)
  <2> HIDE DEF t
  <2> QED BY <1>10 DEF BuildWorkflowGraph
<1> HIDE DEF t, W
<1>13. BuildWorkflowGraph(events).edges[t] >= N
  BY <1>2, <1>8, <1>9, <1>11, <1>12
<1> QED BY <1>13 DEF t, N

(* workflow_graph.rs and detector.rs on a history of any length: a pattern seen n      *)
(* times has n transitions for each step of its own, and no transition is lost.           *)
THEOREM GraphSound == Spec => []GraphCarriesPatterns
<1>1. Given /\ Computed => GraphCarriesPatterns
  <2> SUFFICES ASSUME Given, Computed, done, input.kind = "history"
               PROVE  /\ FoldFunction(+, 0, outcome.graph.edges) = Max({Len(input.events) - 1, 0})
                      /\ outcome.graph.nodes = ToSet(Keys(input.events))
                      /\ \A p \in outcome.patterns : \A i \in 1 .. (Len(p.signature) - 1) :
                           outcome.graph.edges[<<p.signature[i], p.signature[i + 1]>>] >= p.count
    BY DEF GraphCarriesPatterns
  <2> DEFINE events == input.events
             min == input.minOccurrences
  <2>1. IsHistory(input) /\ outcome.patterns = Detect(events, 2 .. 5, min) /\ outcome.graph = BuildWorkflowGraph(events)
    BY HistoriesAssumption DEF Given, Computed, IsAnswer, PatternsAndGraph
  <2>2. IsEvents(events) /\ min \in Nat
    BY <2>1 DEF IsHistory, IsEvents
  <2> HIDE DEF min
  <2>3. ASSUME NEW p \in outcome.patterns, NEW i \in 1 .. (Len(p.signature) - 1)
        PROVE  outcome.graph.edges[<<p.signature[i], p.signature[i + 1]>>] >= p.count
    <3>1. PICK w \in 2 .. 5 : \E s \in Starts(events, w) : p = Describe(events, Signature(events, s, w))
      BY <2>1, <2>2, DetectedAre
    <3>2. PICK s \in Starts(events, w) : p = Describe(events, Signature(events, s, w))
      BY <3>1
    <3> DEFINE g == Signature(events, s, w)
               c == Occurrences(events, g)
    <3>3. Lying(events, w, g, c)
      BY <2>2, OccurrencesLie
    <3>4. p.signature = g /\ p.count = Len(c)
      BY <3>2 DEF Describe
    <3> HIDE DEF g, c, events
    <3>5. Len(g) = w
      BY <3>3 DEF Lying
    <3>6. i \in 1 .. (w - 1)
      BY <3>4, <3>5
    <3>7. BuildWorkflowGraph(events).edges[<<g[i], g[i + 1]>>] >= Len(c)
      BY <2>2, <3>3, <3>6, StepsAreWeighed
    <3> QED BY <2>1, <3>4, <3>7 DEF events
  <2> QED BY <2>1, <2>2, <2>3, NodesAreKeys, WeightsAddUp
<1> QED BY <1>1, OutcomeIsComputed, PTL
=============================================================================
