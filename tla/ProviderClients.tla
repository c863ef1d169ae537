---------------------------- MODULE ProviderClients ----------------------------
(* crates/llm-provider: what the three clients make of an exchange over HTTP,     *)
(* and how the local runtimes are detected.  Network and servers are the           *)
(* environment: an exchange is [sent, success, fits, parts] (it was answered in     *)
(* time, with a status of success, in the shape of the client's API, and with       *)
(* these parts: [type, text]).                                                       *)
EXTENDS Integers, SequencesExt, FiniteSetsExt

NoText == "no text"
Failure(kind) == [ok |-> FALSE, kind |-> kind]
Completion(text) == [ok |-> TRUE, text |-> text]

(* What every client makes of an exchange, given the text its answer holds. *)
Exchanged(exchange, text) ==
  IF ~exchange.sent THEN Failure("Request")
  ELSE IF ~exchange.success THEN Failure("ProviderResponse")
  ELSE IF ~exchange.fits \/ text = NoText THEN Failure("UnexpectedResponse")
  ELSE Completion(text)

(* Ollama answers with one response, OpenAI with choices, Anthropic with blocks. *)
OllamaComplete(exchange) == Exchanged(exchange, Head(exchange.parts).text)

OpenAiComplete(exchange) ==
  Exchanged(exchange, IF exchange.parts = <<>> THEN NoText ELSE Last(exchange.parts).text)

(* Mutant: the first block is taken for the text. *)
FirstBlock(exchange) ==
  Exchanged(exchange, IF exchange.parts = <<>> THEN NoText ELSE Head(exchange.parts).text)

AnthropicComplete(exchange) ==
  LET texts == {i \in DOMAIN exchange.parts : exchange.parts[i].type = "text"}
  IN Exchanged(exchange, IF texts = {} THEN NoText ELSE exchange.parts[Min(texts)].text)

(* Every provider type but two is OpenAI-compatible. *)
Complete(client, exchange) ==
  CASE client = "ollama" -> OllamaComplete(exchange)
    [] client = "anthropic" -> AnthropicComplete(exchange)
    [] OTHER -> OpenAiComplete(exchange)

-----------------------------------------------------------------------------
(* A candidate is [name, format].  What listens at its port is [head, success,       *)
(* body, format, models]: after how long it answers, with what, and after how much    *)
(* longer its body has come, a list of models in the one format or the other.          *)

ParseModels(format, server) == IF server.format = format THEN server.models ELSE <<>>

(* A probe begun at a time, with its deadline: head and body have to come by then,   *)
(* and a body that is cut off is empty.                                                *)
Probe(candidate, server, begun, deadline) ==
  LET headAt == begun + server.head
      reachable == headAt <= deadline /\ server.success
      endedAt == IF reachable THEN headAt + server.body ELSE headAt
  IN [runtime |-> [name |-> candidate.name, reachable |-> reachable,
                   models |-> IF reachable /\ endedAt <= deadline THEN ParseModels(candidate.format, server) ELSE <<>>],
      ended |-> IF endedAt <= deadline THEN endedAt ELSE deadline]

(* Mutant: one deadline is shared by all the probes. *)
DetectByOneDeadline(candidates, servers, timeout) ==
  LET after[k \in 0 .. Len(candidates)] ==
        IF k = 0 THEN [now |-> 0, runtimes |-> <<>>]
        ELSE LET before == after[k - 1]
                 probe == Probe(candidates[k], servers[k], before.now, timeout)
             IN [now |-> probe.ended, runtimes |-> Append(before.runtimes, probe.runtime)]
  IN after[Len(candidates)]

(* The probes are futures, which do nothing before they are awaited, and they are     *)
(* awaited one after the other: each request is sent when the one before has ended.    *)
DetectRuntimes(candidates, servers, timeout) ==
  LET after[k \in 0 .. Len(candidates)] ==
        IF k = 0 THEN [now |-> 0, runtimes |-> <<>>]
        ELSE LET before == after[k - 1]
                 probe == Probe(candidates[k], servers[k], before.now, before.now + timeout)
             IN [now |-> probe.ended, runtimes |-> Append(before.runtimes, probe.runtime)]
  IN after[Len(candidates)]
=============================================================================
