------------------------------- MODULE Algorithms -------------------------------
(* What the pure algorithms promise.  Every behaviour takes one input and applies   *)
(* one algorithm to it; the properties compare what comes out with a definition     *)
(* that says directly what should.  The inputs are parameters: any set of them of    *)
(* the right shape, and of any length.                                                *)
EXTENDS PatternDetection, EventHistory, Synthesis, RedactionSpans, PluginHost, ProviderClients,
        ClipboardPoll

CONSTANTS Histories,       \* events in the order of their time
          Tables, Times,   \* rows of stored events, and the times they are expired at
          Texts,           \* texts that are scanned for secrets
          CardNumbers,     \* digits among which there is a valid card number
          Answers,         \* texts in which there is an object
          Conversations,   \* what a detector found, and a provider's responses
          PluginRuns,      \* a plugin, its grant, and the calls made to it
          Exchanges,       \* a client and what comes back to its request
          Runtimes,        \* candidates and what listens at their ports
          Clipboards       \* who owns the selection, poll after poll

VARIABLES input, outcome, done
vars == <<input, outcome, done>>

-----------------------------------------------------------------------------
(* The shape of the inputs *)

Types == DOMAIN SubjectField \cup {"window_title", "app_action_event", "ocr_text", "screenshot", "accessibility_tree"}

(* Events of a summary each, with a domain exactly if a domain was visited, in the     *)
(* order of their time; the id of an event is its primary key.                            *)
IsHistory(h) ==
  /\ h.kind = "history" /\ h.minOccurrences \in Nat /\ Len(h.events) \in Nat /\ DOMAIN h.events = 1 .. Len(h.events)
  /\ \A e \in Range(h.events) :
       /\ e.at \in Nat /\ e.signalType \in Types /\ e.source \notin Types
       /\ "domain" \in DOMAIN e.summary <=> e.signalType = "browser_domain_visited"
       /\ e.signalType = "browser_domain_visited" => e.summary["domain"] # Missing
  /\ \A i, j \in DOMAIN h.events : i < j => h.events[i].id # h.events[j].id /\ h.events[i].at <= h.events[j].at

ASSUME HistoriesAssumption == \A h \in Histories : IsHistory(h)

Time == [second : Nat, fraction : Seq(0 .. 9)]

ASSUME TimesAssumption == Times \subseteq Time

(* The id of a row is its primary key. *)
IsTable(t) ==
  /\ t.kind = "table" /\ t.limit \in Nat /\ IsFiniteSet(t.rows)
  /\ \A r \in t.rows : r.id \in Nat /\ r.at \in Time /\ r.expires \in Time \cup {NoTime}
  /\ \A r, s \in t.rows : r.id = s.id => r = s

ASSUME TablesAssumption == \A t \in Tables : IsTable(t)

(* A text, and which of its runs are as random as secrets are. *)
IsText(t) ==
  /\ t.kind = "text" /\ t.text \in Seq(Atoms) /\ WellFormed(t.text)
  /\ CanBeSuspicious(t.text, t.suspicious)

ASSUME TextsAssumption == \A t \in Texts : IsText(t)

(* A valid card number and one stray digit before or after it. *)
IsCardNumber(c) ==
  /\ c.kind = "card" /\ c.length \in 13 .. 18 /\ c.before \in BOOLEAN
  /\ c.digits \in Seq(0 .. 9) /\ Len(c.digits) = c.length + 1
  /\ LuhnValid(IF c.before THEN SubSeq(c.digits, 2, c.length + 1) ELSE SubSeq(c.digits, 1, c.length))

ASSUME CardNumbersAssumption == \A c \in CardNumbers : IsCardNumber(c)

(* A character is escaped behind an odd number of backslashes, and in a string        *)
(* behind an odd number of quotes that are not escaped.                                 *)
Backslashes(text, i) == {j \in 1 .. i : \A k \in j .. i : text[k] = Backslash}
Odd(S) == Cardinality(S) % 2 = 1
Quotes(text, i) == {j \in 1 .. i : text[j] = Quote /\ ~Odd(Backslashes(text, j - 1))}
InString(text, i) == Odd(Quotes(text, i - 1))
Braces(text, brace, i) == {j \in 1 .. i : text[j] = brace /\ ~InString(text, j)}

(* The last brace of an object, and no other, closes the first; the braces in strings *)
(* do not count, and every backslash is in one.                                         *)
IsObject(object) ==
  /\ object \in Seq(STRING) /\ Len(object) >= 2
  /\ \A i \in DOMAIN object : object[i] = Backslash => InString(object, i)
  /\ \A i \in DOMAIN object :
       LET open == Cardinality(Braces(object, Open, i)) - Cardinality(Braces(object, Close, i))
       IN IF i = Len(object) THEN open = 0 ELSE open > 0

(* Prose without a brace, then the object, whole or cut off, then anything. *)
IsReply(a) ==
  /\ a.kind = "answer" /\ IsObject(a.object) /\ a.text \in Seq(STRING) /\ a.cut \in BOOLEAN
  /\ \E before \in 0 .. Len(a.text), kept \in 0 .. Len(a.object) :
       /\ \A i \in 1 .. before : a.text[i] # Open
       /\ before + kept <= Len(a.text) /\ \A i \in 1 .. kept : a.text[before + i] = a.object[i]
       /\ IF a.cut THEN kept < Len(a.object) /\ Len(a.text) = before + kept ELSE kept = Len(a.object)

ASSUME AnswersAssumption == \A a \in Answers : IsReply(a)

Word == [kind : {"numeral"}, value : Nat \cup {TooLarge}] \cup [kind : {"tens"}, value : Nat]
        \cup [kind : {"ones"}, value : 1 .. 19] \cup [kind : {"onceOrTwice"}, value : {1, 2}]
        \cup [kind : {"keyword", "other"}]

Response == [failed : BOOLEAN, object : BOOLEAN, shaped : BOOLEAN, texts : [TextFields -> Seq(Word)],
             known : BOOLEAN, confidence : Int]

IsConversation(c) ==
  /\ c.kind = "responses" /\ c.detected \in [count : Nat, minutes : Nat] /\ c.maxAttempts \in Nat
  /\ c.responses \in Seq(Response) /\ c.responses # <<>>

ASSUME ConversationsAssumption == \A c \in Conversations : IsConversation(c)

(* A function that is not imported cannot be called. *)
Instructions == {"work", "grow", "trap"} \cup HostFunctions

IsPlugin(module) ==
  /\ \A e \in DOMAIN module.exports : module.exports[e] \in Seq(Instructions)
  /\ module.start \in Seq(Instructions)
  /\ \A f \in HostFunctions :
       f \in Range(module.start) \cup UNION {Range(module.exports[e]) : e \in DOMAIN module.exports} => f \in module.imports

IsPluginRun(r) ==
  /\ r.kind = "plugin" /\ r.manifest \in [minPrivacyLevel : Nat, capabilities : SUBSET Capabilities]
  /\ r.granted \subseteq Capabilities /\ IsPlugin(r.module)
  /\ r.calls \in Seq(STRING) /\ r.limits \in [fuel : Nat, pages : Nat]

ASSUME PluginRunsAssumption == \A r \in PluginRuns : IsPluginRun(r)

(* What each API can answer: Ollama one text, OpenAI choices that all have one,     *)
(* Anthropic blocks of any type.                                                     *)
IsExchange(x) ==
  /\ x.kind = "exchange" /\ x.client \in {"ollama", "openai", "anthropic"}
  /\ x.exchange \in [sent : BOOLEAN, success : BOOLEAN, fits : BOOLEAN, parts : Seq([type : STRING, text : STRING])]
  /\ x.client # "anthropic" =>
       \A i \in DOMAIN x.exchange.parts : x.exchange.parts[i].type = "text" /\ x.exchange.parts[i].text # NoText
  /\ x.client = "ollama" => Len(x.exchange.parts) = 1

ASSUME ExchangesAssumption == \A x \in Exchanges : IsExchange(x)

Formats == {"tags", "models"}
Server == [head : Nat, body : Nat, success : BOOLEAN, format : Formats, models : Seq(STRING)]

IsRuntimes(r) ==
  /\ r.kind = "runtimes" /\ r.timeout \in Nat
  /\ r.candidates \in Seq([name : STRING, format : Formats]) /\ r.servers \in Seq(Server)
  /\ Len(r.servers) = Len(r.candidates)

ASSUME RuntimesAssumption == \A r \in Runtimes : IsRuntimes(r)

Timings == {"fast", "timely", "late", "never"}
Round == [owner : Nat, targets : Seq(STRING), targetsAnswer : Timings, dataAnswer : Timings]

ASSUME ClipboardsAssumption == \A c \in Clipboards : c.kind = "clipboard" /\ c.rounds \in Seq(Round)

-----------------------------------------------------------------------------
Init ==
  /\ \/ input \in Histories \/ input \in Tables \/ input \in Texts \/ input \in CardNumbers \/ input \in Answers
     \/ input \in Conversations \/ input \in PluginRuns \/ input \in Exchanges \/ input \in Runtimes
     \/ input \in Clipboards
  /\ outcome = <<>> /\ done = FALSE

Apply(kind, result) ==
  /\ ~done /\ input.kind = kind
  /\ done' = TRUE /\ outcome' = result /\ UNCHANGED input

PatternsAndGraph(history) ==
  [patterns |-> Detect(history.events, 2 .. 5, history.minOccurrences),
   graph |-> BuildWorkflowGraph(history.events)]

ListedAndKept(table) ==
  [recent |-> ListRecentEvents(table.rows, table.limit),
   input |-> DetectionInput(table.rows, table.limit),
   kept |-> [now \in Times |-> DeleteExpiredEvents(table.rows, now)]]

Synthesized(conversation) == Synthesize(conversation.responses, conversation.detected, conversation.maxAttempts)

PluginLife(run) ==
  LET made == InstantiateFromManifest(run.module, run.manifest, run.granted, run.limits) IN
  IF made.error # "none" THEN made
  ELSE [error |-> "none", instance |-> CallEach(made.instance, run.module, run.calls, run.limits)]

DetectPatterns == Apply("history", PatternsAndGraph(input))
ListAndExpire == Apply("table", ListedAndKept(input))
ScanForSecrets == Apply("text", ScanText(input.text, input.suspicious))
FindCard == Apply("card", FindLuhnValidWindow(input.digits))
ExtractObject == Apply("answer", ExtractJsonObject(input.text))
SynthesizeAnswer == Apply("responses", Synthesized(input))
RunPlugin == Apply("plugin", PluginLife(input))
CompleteExchange == Apply("exchange", Complete(input.client, input.exchange))
DetectProviders == Apply("runtimes", DetectRuntimes(input.candidates, input.servers, input.timeout))
PollClipboard == Apply("clipboard", Reports(input.rounds))

Next ==
  \/ CompleteExchange \/ DetectProviders \/ PollClipboard
  \/ RunPlugin \/ DetectPatterns \/ ListAndExpire \/ ScanForSecrets \/ FindCard \/ ExtractObject \/ SynthesizeAnswer

Spec == Init /\ [][Next]_vars
-----------------------------------------------------------------------------
(* Properties *)

Positions(signature, w) == {s \in Starts(input.events, w) : Signature(input.events, s, w) = signature}
Most(signature, w) ==
  Max({Cardinality(S) : S \in {C \in SUBSET Positions(signature, w) : \A s, t \in C : s < t => s + w <= t}})

(* detector.rs select_non_overlapping: taking each earliest occurrence that does  *)
(* not overlap the one before finds as many as any choice could, so a sequence is  *)
(* a pattern exactly if it can be told apart often enough.                          *)
PatternsCountRepetitions ==
  done /\ input.kind = "history" =>
    \A w \in 2 .. 5 : \A g \in {Signature(input.events, s, w) : s \in Starts(input.events, w)} :
      LET found == {p \in outcome.patterns : p.signature = g} IN
      IF Most(g, w) >= input.minOccurrences THEN Cardinality(found) = 1 /\ \A p \in found : p.count = Most(g, w)
      ELSE found = {}

(* detector.rs detect_for_window: no event is evidence twice for one pattern, the  *)
(* evidence spells the signature over and over, spans first to last seen, and the   *)
(* cloud gate is told of a domain exactly if the evidence holds one.                 *)
EvidenceBacksPatterns ==
  done /\ input.kind = "history" =>
    \A p \in outcome.patterns :
      LET n == Len(p.signature)
          event(i) == CHOOSE e \in ToSet(input.events) : e.id = p.evidence[i]
      IN /\ Len(p.evidence) = p.count * n /\ Cardinality(ToSet(p.evidence)) = Len(p.evidence)
         /\ \A i \in DOMAIN p.evidence : ActionKey(event(i)) = p.signature[((i - 1) % n) + 1]
         /\ p.firstSeen = event(1).at /\ p.lastSeen = event(Len(p.evidence)).at
         /\ p.verbatim <=> \E i \in DOMAIN p.evidence : "domain" \in DOMAIN event(i).summary

(* workflow_graph.rs and detector.rs on the same history: a pattern seen n times   *)
(* has n transitions for each step of its own, and no transition is lost.            *)
GraphCarriesPatterns ==
  done /\ input.kind = "history" =>
    /\ FoldFunction(+, 0, outcome.graph.edges) = Max({Len(input.events) - 1, 0})
    /\ outcome.graph.nodes = ToSet(Keys(input.events))
    /\ \A p \in outcome.patterns : \A i \in 1 .. (Len(p.signature) - 1) :
         outcome.graph.edges[<<p.signature[i], p.signature[i + 1]>>] >= p.count

(* store.rs list_recent_events: what a limit cuts off, or the detector is given out *)
(* of order, is never out by more than the fraction of a second.                     *)
ListedInOrderOfSeconds ==
  done /\ input.kind = "table" =>
    /\ Range(outcome.recent) \subseteq input.rows
    /\ Len(outcome.recent) <= input.limit
    /\ Len(outcome.recent) < input.limit => Range(outcome.recent) = input.rows
    /\ \A i, j \in DOMAIN outcome.recent : i < j => outcome.recent[i].at.second >= outcome.recent[j].at.second
    /\ \A r \in input.rows \ Range(outcome.recent), s \in Range(outcome.recent) : r.at.second <= s.at.second
    /\ Len(outcome.input) = Len(outcome.recent)
    /\ \A i, j \in DOMAIN outcome.input : i < j => outcome.input[i].at.second <= outcome.input[j].at.second

(* store.rs delete_expired_events: an event goes no earlier than the second it       *)
(* expires in and no later than the next; one without an expiry never goes.           *)
ExpiryWithinASecond ==
  done /\ input.kind = "table" =>
    \A now \in Times, r \in input.rows :
      /\ r.expires = NoTime => r \in outcome.kept[now]
      /\ r.expires # NoTime /\ r.expires.second < now.second => r \notin outcome.kept[now]
      /\ r.expires.second > now.second => r \in outcome.kept[now]

Glued(text, i, j) == \A k \in (i .. j) \cup (j .. i) : text[k] \in Candidate

(* engine.rs apply_redactions: a match of a known format is never left whole.  What a   *)
(* text keeps of one is an end of it, and only behind another match, which begins no       *)
(* later and ends within it: no beginning is stored, and nothing of a match that no        *)
(* earlier one overlaps.                                                                      *)
MatchesSurviveOnlyBehindOverlaps ==
  done /\ input.kind = "text" =>
    LET known == KnownFormats(input.text) IN
    \A s \in known : \A i \in outcome.survivors \cap (s.from .. s.to) :
      \E r \in known \ {s} : r.from <= s.from /\ s.from <= r.to /\ r.to < i

(* detectors.rs detect_all and engine.rs scan: an unknown secret drops the event or is    *)
(* replaced, unless it is joined, without a space, to something else: to a match of a       *)
(* known format, or to so much that is not random that all of it together is not judged      *)
(* a secret.                                                                                  *)
UncertainSurvivesOnlyJoined ==
  done /\ input.kind = "text" =>
    \A i \in outcome.survivors : input.text[i] = "secret" =>
      \/ \E s \in KnownFormats(input.text) : \E j \in s.from .. s.to : Glued(input.text, i, j)
      \/ \E c \in EntropyCandidates(input.text) :
           c.from <= i /\ i <= c.to /\ c.from < c.to /\ <<c.from, c.to>> \notin input.suspicious

(* detectors.rs find_luhn_valid_window: one stray digit on either side of a card      *)
(* number neither hides it nor leaves more than one digit of it standing.              *)
StrayDigitDoesNotHideCard ==
  done /\ input.kind = "card" =>
    /\ Cardinality(outcome) = 1
    /\ \A w \in outcome :
         Cardinality((w[1] .. w[2]) \cap (IF input.before THEN 2 .. input.length + 1 ELSE 1 .. input.length))
           >= input.length - 1

(* prompt.rs extract_json_object: an object comes out whole whatever its strings hold *)
(* and whatever prose without a brace stands before it, and from an answer cut off     *)
(* before the end of its object nothing comes out.                                      *)
ExtractsTheObject ==
  done /\ input.kind = "answer" => outcome = IF input.cut THEN {} ELSE {input.object}

(* The counts a phrase states in the words the patterns know: once, twice, or the       *)
(* number before times, occurrences or instances; a number too large to be one is none.    *)
(* "on seven occasions", which validate.rs:28-30 names, states none of these.                *)
NumberBefore(phrase, i) ==
  IF i > 2 /\ phrase[i - 2].kind = "tens" /\ phrase[i - 1].kind = "ones" /\ phrase[i - 1].value < 10
  THEN phrase[i - 2].value + phrase[i - 1].value ELSE phrase[i - 1].value

StatedCounts(phrase) ==
  ({phrase[i].value : i \in {j \in DOMAIN phrase : phrase[j].kind = "onceOrTwice"}}
   \cup {NumberBefore(phrase, i) : i \in {j \in DOMAIN phrase \ {1} :
             phrase[j].kind = "keyword" /\ phrase[j - 1].kind \in {"numeral", "tens", "ones"}}}) \ {TooLarge}

(* synthesizer.rs and validate.rs: in the words the patterns know, no field of an       *)
(* accepted answer states another count than the detector's, and the time saved is the     *)
(* detector's; the first such answer is accepted, unless the provider fails before it,      *)
(* which ends the synthesis.  Of a count in other words nothing is said: it is accepted.      *)
OnlyHonestCountsAccepted ==
  done /\ input.kind = "responses" =>
    LET response(i) == input.responses[i]
        wellFormed(r) == r.object /\ r.shaped /\ r.known /\ r.confidence \in 0 .. 100
        honest(r) == \A f \in TextFields : StatedCounts(r.texts[f]) \subseteq {input.detected.count}
        last == response(outcome.attempts)
    IN /\ outcome.attempts \in DOMAIN input.responses /\ (outcome.attempts <= input.maxAttempts \/ outcome.attempts = 1)
       /\ \A i \in 1 .. (outcome.attempts - 1) :
            ~response(i).failed /\ ~(wellFormed(response(i)) /\ honest(response(i)))
       /\ outcome.result = "provider" => last.failed
       /\ outcome.result = "accepted" =>
            /\ ~last.failed /\ wellFormed(last) /\ honest(last)
            /\ outcome.made.timeSaved = input.detected.minutes * input.detected.count
            /\ outcome.made.texts = last.texts
       /\ outcome.result = "exhausted" => ~last.failed /\ ~(wellFormed(last) /\ honest(last))

(* host.rs: whatever a plugin does, it reached no host function but those its        *)
(* granted and declared capabilities stand for, and emitted a signal under the         *)
(* screenshot capability alone only with a manifest of level 4.                         *)
PluginStaysInItsGrant ==
  done /\ input.kind = "plugin" /\ outcome.error = "none" =>
    LET allowed == input.granted \cap input.manifest.capabilities IN
    \A f \in Range(outcome.instance.log) :
      /\ f = "network_fetch" => "NetworkOutbound" \in allowed
      /\ f = "read_file_metadata" => "FilesystemReadMetadata" \in allowed
      /\ f = "llm_complete" => "ProviderLlm" \in allowed
      /\ f = "emit_signal" =>
           \/ allowed \cap {"ObserveActiveWindow", "ObserveClipboardMetadata", "ObserveFileOperations"} # {}
           \/ "ObserveScreenshot" \in allowed /\ input.manifest.minPrivacyLevel = 4

(* The instructions of all the calls together. *)
Instructed(run) ==
  LET total[k \in 0 .. Len(run.calls)] ==
        IF k = 0 THEN Len(run.module.start)
        ELSE total[k - 1] + IF run.calls[k] \in DOMAIN run.module.exports THEN Len(run.module.exports[run.calls[k]]) ELSE 0
  IN total[Len(run.calls)]

(* host.rs DEFAULT_FUEL_BUDGET: the budget is for the whole life of an instance, all  *)
(* its calls and its start function together: each host function that was reached was *)
(* paid for, and if something is left and nothing trapped, every instruction was.        *)
(* Memory stays under its cap.                                                             *)
BudgetIsForLife ==
  done /\ input.kind = "plugin" /\ outcome.error = "none" =>
    LET instance == outcome.instance
        spent == input.limits.fuel - instance.fuel
        traps == \E e \in DOMAIN input.module.exports : "trap" \in Range(input.module.exports[e])
    IN /\ instance.fuel >= 0 /\ instance.pages <= input.limits.pages
       /\ Len(instance.log) <= spent /\ Len(input.module.start) <= spent
       /\ instance.fuel > 0 /\ ~traps => spent = Instructed(input)

(* llm-provider complete: whatever a server answers, what is handed on as the          *)
(* model's words is a text of a successful answer, the clients agree on what is a       *)
(* failure, and none of them fails on an answer that is just one text.                   *)
CompletionsAreAnswers ==
  done /\ input.kind = "exchange" =>
    LET e == input.exchange
        texts == {i \in DOMAIN e.parts : e.parts[i].type = "text" /\ e.parts[i].text # NoText}
    IN /\ outcome.ok => e.sent /\ e.success /\ e.fits /\ \E i \in texts : outcome.text = e.parts[i].text
       /\ ~outcome.ok => outcome.kind = IF ~e.sent THEN "Request" ELSE IF ~e.success THEN "ProviderResponse"
                                        ELSE "UnexpectedResponse"
       /\ e.sent /\ e.success /\ e.fits /\ Len(e.parts) = 1 /\ texts # {} => outcome.ok

(* detection.rs detect: however slow the others are, each runtime is reported as if    *)
(* it had been probed alone, in the order of the candidates; all of them together      *)
(* take no longer than a timeout each.                                                   *)
ProbesAreIndependent ==
  done /\ input.kind = "runtimes" =>
    /\ Len(outcome.runtimes) = Len(input.candidates)
    /\ \A i \in DOMAIN input.candidates :
         /\ outcome.runtimes[i] = Probe(input.candidates[i], input.servers[i], 0, input.timeout).runtime
         /\ outcome.runtimes[i].models # <<>> => outcome.runtimes[i].reachable
    /\ outcome.now <= Len(input.candidates) * input.timeout

Asked(rounds, i) == rounds[i].owner \notin {NoOwner, IF i = 1 THEN NoOwner ELSE rounds[i - 1].owner}
InTime(round) == {round.targetsAnswer, round.dataAnswer} \subseteq {"fast", "timely"}
Late(rounds, i) == Asked(rounds, i) /\ "late" \in {rounds[i].targetsAnswer, rounds[i].dataAnswer}

(* clipboard.rs poll: an owner is reported at most once until another one comes, and   *)
(* unless an answer came late in an earlier poll, the report is of the owner of the      *)
(* moment, of a text if it offers one, and with the size of that very data.               *)
ClipboardReportsAreTrue ==
  done /\ input.kind = "clipboard" =>
    \A i \in DOMAIN input.rounds :
      LET round == input.rounds[i]
          report(target) == [type |-> target, sizeOf |-> [owner |-> round.owner, holds |-> "data", of |-> target]]
      IN /\ outcome[i] # <<>> => Asked(input.rounds, i)
         /\ (\A j \in 1 .. (i - 1) : ~Late(input.rounds, j)) =>
              IF Asked(input.rounds, i) /\ InTime(round) /\ round.targets # <<>>
              THEN \E target \in Range(round.targets) :
                     /\ outcome[i] = <<report(target)>>
                     /\ Range(round.targets) \cap Textual # {} => target \in Textual
              ELSE outcome[i] = <<>>
=============================================================================
