------------------------------ MODULE MCAlgorithms ------------------------------
(* The pure algorithms over inputs of bounded length. *)
EXTENDS Algorithms, TLC

CONSTANTS HistoryLength,   \* events of a history
          TextLength,      \* pieces of a text that is scanned
          PhraseLength     \* words of a text that may mention a count

-----------------------------------------------------------------------------
Slack == [source |-> "window", signalType |-> "app_focus_change", summary |-> [app |-> "slack"]]
Domain == [source |-> "browser", signalType |-> "browser_domain_visited", summary |-> [domain |-> "example.com"]]
Title == [source |-> "window", signalType |-> "window_title", summary |-> [app |-> "slack", title |-> "inbox"]]
Saved == [source |-> "files", signalType |-> "file_operation_metadata", summary |-> [operation |-> "modified"]]
Kinds(n) == IF n > HistoryLength - 2 THEN {Slack, Domain} ELSE {Slack, Domain, Title, Saved}

Numbered(kinds) == [i \in DOMAIN kinds |-> kinds[i] @@ [id |-> 100 + i, at |-> i]]

BoundedHistories ==
  UNION {{[kind |-> "history", events |-> Numbered(kinds), minOccurrences |-> m] :
            kinds \in [1 .. n -> Kinds(n)], m \in {2, 3}} : n \in 0 .. HistoryLength}

Fractions == {<<>>, <<5>>, <<0, 5>>, <<5, 1>>, <<5, 0, 1>>, <<9>>}
BoundedTimes == {[second |-> s, fraction |-> f] : s \in {9, 10}, f \in Fractions}

BoundedTables ==
  {[kind |-> "table", limit |-> limit,
    rows |-> {[id |-> i, at |-> at[i], expires |-> IF i = 2 THEN NoTime ELSE expires] : i \in 1 .. 3}] :
     at \in {a \in [1 .. 3 -> BoundedTimes] : \A i \in 1 .. 2 : ~Earlier(a[i + 1], a[i])},
     expires \in {NoTime} \cup BoundedTimes, limit \in 1 .. 3}

(* Texts are put together from pieces: single atoms, numbers, and what stands at the    *)
(* ends of a private key.  A card, a card in groups of four, government ids, and            *)
(* digits beside which the numbers are valid cards of more digits.                            *)
Number(value) == [i \in DOMAIN value |-> DigitNames[value[i] + 1]]
One(atoms) == {<<a>> : a \in atoms}
Card == Number(<<4, 5, 3, 2, 0, 1, 5, 1, 1, 2, 8, 3, 0, 3, 6, 6>>)
Grouped == FoldLeft(LAMBDA text, i : text \o (IF text = <<>> THEN <<>> ELSE <<"space">>) \o SubSeq(Card, i, i + 3),
                    <<>>, <<1, 5, 9, 13>>)
Id(gap) == Number(<<1, 2, 0>>) \o gap \o Number(<<4, 5>>) \o gap \o Number(<<6, 7, 8, 9>>)
Line(word) == <<"dashes", word, "space", "PRIVATE", "space", "KEY", "dashes">>

AtomSets ==
  {{"word", "host", "at", "password", "token", "secret", "slash", "space"},
   {"host", "at", "password", "medical", "token", "hexid", "bang", "space"}}

Pieces ==
  {One({"word", "password", "token", "space"}) \cup {Line("BEGIN"), Line("END")},
   One({"word", "slash", "space", "password"}) \cup {Card, Id(<<"dash">>), Id(<<"space">>), Number(<<3, 4>>)},
   One({"space", "medical"}) \cup {<<"at", "host">>, Grouped, Id(<<>>), Id(<<"space">>), Number(<<1, 2, 0>>)}}

Sentences ==
  UNION {SeqOf(atoms, TextLength) : atoms \in AtomSets}
  \cup {FlattenSeq(p) : p \in UNION {SeqOf(pieces, TextLength - 1) : pieces \in Pieces}}

(* A secret alone is judged one; of the runs that join something to a word, those      *)
(* behind a place are.                                                                    *)
Judged(text, place) ==
  {<<c.from, c.to>> : c \in {e \in EntropyCandidates(text) :
     IF e.from = e.to THEN text[e.from] = "secret"
     ELSE e.from > place /\ \E i \in e.from .. e.to : text[i] \in Letters \cup KeyNames}}

BoundedTexts ==
  {[kind |-> "text", text |-> text, suspicious |-> Judged(text, place)] :
     text \in {t \in Sentences : WellFormed(t)}, place \in {0, 2}}

(* Cards of n digits, all but two of them fixed, with a valid check digit, and one   *)
(* stray digit before or after.                                                        *)
BoundedCardNumbers ==
  {[kind |-> "card", length |-> Len(card), before |-> before,
    digits |-> IF before THEN <<stray>> \o card ELSE card \o <<stray>>] :
     before \in BOOLEAN, stray \in 0 .. 9,
     card \in UNION {{c \in {[i \in 1 .. n |-> IF i = 2 THEN a ELSE IF i = n - 1 THEN b ELSE IF i = n THEN check
                                                  ELSE 4 + (i % 3)] : a, b, check \in 0 .. 9} :
                        LuhnValid(c)} : n \in {13, 16, 18}}}

Bodies == {<<>>, <<"x">>, <<Open>>, <<Close>>, <<Backslash, Quote>>, <<Backslash, Backslash>>, <<Close, Backslash, Quote>>}
Strings == {<<Quote>> \o b \o <<Quote>> : b \in Bodies}
Flat == {<<Open>> \o i \o <<Close>> : i \in {<<>>, <<"x">>} \cup Strings}
Items == {<<"x">>} \cup Strings \cup Flat
Objects == Flat \cup {<<Open>> \o i \o j \o <<Close>> : i, j \in Items}

BoundedAnswers ==
  {[kind |-> "answer", object |-> object, cut |-> cut,
    text |-> before \o (IF cut THEN Front(object) ELSE object \o after)] :
     before \in {<<>>, <<Quote>>, <<"x", Close>>}, object \in Objects, cut \in BOOLEAN,
     after \in {<<>>, <<Close>>, <<"x", Open>>, <<Quote, Open, Close>>}}

Words == {[kind |-> "numeral", value |-> 2], [kind |-> "numeral", value |-> 31], [kind |-> "numeral", value |-> TooLarge],
          [kind |-> "tens", value |-> 30], [kind |-> "ones", value |-> 1], [kind |-> "ones", value |-> 12],
          [kind |-> "onceOrTwice", value |-> 1], [kind |-> "keyword"], [kind |-> "other"]}

Silent == [f \in TextFields |-> <<>>]
Answer(failed, texts, known, confidence) ==
  [failed |-> failed, object |-> TRUE, shaped |-> TRUE, texts |-> texts, known |-> known, confidence |-> confidence]

(* The first response states a count somewhere, the second may be anything. *)
BoundedConversations ==
  {[kind |-> "responses", detected |-> [count |-> count, minutes |-> 7], maxAttempts |-> 2,
    responses |-> <<Answer(FALSE, [Silent EXCEPT ![f] = phrase], TRUE, 100), second, second>>] :
     phrase \in UNION {[1 .. n -> Words] : n \in 1 .. PhraseLength}, f \in {"why", "alternatives"}, count \in {1, 31},
     second \in {Answer(TRUE, Silent, TRUE, 50), Answer(FALSE, Silent, TRUE, 101), Answer(FALSE, Silent, TRUE, 0)}}

Codes == SeqOf({"work", "grow", "trap", "network_fetch", "emit_signal"}, 3)

(* A plugin that calls its one export up to three times, and one it does not have. *)
BoundedPluginRuns ==
  {[kind |-> "plugin", manifest |-> [minPrivacyLevel |-> level, capabilities |-> declared], granted |-> granted,
    module |-> [imports |-> Range(code) \cap HostFunctions, start |-> start, exports |-> [run |-> code]],
    calls |-> [i \in 1 .. calls |-> IF i = 2 THEN "missing" ELSE "run"], limits |-> [fuel |-> 5, pages |-> 2]] :
     level \in {3, 4, 5}, declared, granted \in SUBSET {"ObserveScreenshot", "NetworkOutbound"},
     code \in Codes, start \in {<<>>, <<"work", "grow">>}, calls \in 1 .. 3}

(* Answers to each client, and errors that have a text as well. *)
Parts == SeqOf([type : {"text", "thinking"}, text : {"a", "b", NoText}], 3)
BoundedExchanges ==
  {x \in {[kind |-> "exchange", client |-> client,
           exchange |-> [sent |-> sent, success |-> success, fits |-> fits, parts |-> parts]] :
             client \in {"ollama", "openai", "anthropic"}, sent, success, fits \in BOOLEAN, parts \in Parts} :
     IsExchange(x)}

Candidates == <<[name |-> "ollama", format |-> "tags"], [name |-> "lm_studio", format |-> "models"],
                [name |-> "localai", format |-> "models"]>>
Servers == [head : {0, 3, 6}, body : {0, 3, 6}, success : BOOLEAN, format : Formats, models : {<<"m">>}]

BoundedRuntimes ==
  {[kind |-> "runtimes", candidates |-> Candidates, servers |-> servers, timeout |-> 5] : servers \in [1 .. 3 -> Servers]}

Offers == <<<<"image/png", "UTF8_STRING">>, <<"image/png">>, <<>>>>
Rounds ==
  {[owner |-> NoOwner, targets |-> <<>>, targetsAnswer |-> "never", dataAnswer |-> "never"]}
  \cup {[owner |-> o, targets |-> Offers[o], targetsAnswer |-> t, dataAnswer |-> d] : o \in 1 .. 3, t, d \in Timings}

BoundedClipboards ==
  {[kind |-> "clipboard", rounds |-> rounds] : rounds \in [1 .. 3 -> Rounds]}
=============================================================================
