------------------------------- MODULE PluginHost -------------------------------
(* crates/plugin-host: what a plugin may import, and how far an instance gets.   *)
(* A module is [imports, start, exports]: the host functions it imports, and the  *)
(* instructions of its start function and of each export of the right signature.  *)
(* An instruction is "work", "grow", "trap" or the name of a host function; the    *)
(* runtime, which is not part of the repository, charges each one unit of fuel.    *)
EXTENDS Integers, SequencesExt, FiniteSetsExt

Capabilities ==
  {"ObserveActiveWindow", "ObserveClipboardMetadata", "ObserveFileOperations", "ObserveScreenshot",
   "NetworkOutbound", "FilesystemReadMetadata", "ProviderLlm", "ProviderEmbedding", "PolicyRead"}

RequiresLevelFour == {"ObserveScreenshot"}
Observing == {"ObserveActiveWindow", "ObserveClipboardMetadata", "ObserveFileOperations", "ObserveScreenshot"}

(* The host functions a set of granted capabilities links. *)
Linked(granted) ==
     {f \in {"network_fetch"} : "NetworkOutbound" \in granted}
  \cup {f \in {"read_file_metadata"} : "FilesystemReadMetadata" \in granted}
  \cup {f \in {"emit_signal"} : granted \cap Observing # {}}
  \cup {f \in {"llm_complete"} : "ProviderLlm" \in granted}

HostFunctions == Linked(Capabilities)

(* A manifest that names another capability or type does not parse; this is one    *)
(* that did.                                                                         *)
Valid(manifest) ==
  /\ manifest.minPrivacyLevel <= 4
  /\ manifest.capabilities \cap RequiresLevelFour # {} => manifest.minPrivacyLevel = 4

-----------------------------------------------------------------------------
(* An instance is [fuel, pages, log, trapped]. *)

Step(instance, instruction, maxPages) ==
  IF instance.trapped THEN instance
  ELSE IF instance.fuel = 0 THEN [instance EXCEPT !.trapped = TRUE]
  ELSE [fuel |-> instance.fuel - 1,
        pages |-> IF instruction = "grow" /\ instance.pages < maxPages THEN instance.pages + 1 ELSE instance.pages,
        log |-> IF instruction \in HostFunctions THEN Append(instance.log, instruction) ELSE instance.log,
        trapped |-> instruction = "trap"]

Run(instance, code, maxPages) ==
  LET after[k \in 0 .. Len(code)] == IF k = 0 THEN [instance EXCEPT !.trapped = FALSE]
                                     ELSE Step(after[k - 1], code[k], maxPages)
  IN after[Len(code)]

(* Mutant: an import that nothing granted is linked when the manifest declares it. *)
InstantiateDeclared(module, declared, limits) ==
  LET fresh == Run([fuel |-> limits.fuel, pages |-> 1, log |-> <<>>, trapped |-> FALSE], module.start, limits.pages)
  IN IF ~(module.imports \subseteq HostFunctions) \/ limits.pages < 1 \/ fresh.trapped
     THEN [error |-> "instantiate"] ELSE [error |-> "none", instance |-> fresh]

(* Every import has to be linked; the start function already runs on the budget. *)
Instantiate(module, granted, limits) ==
  LET fresh == Run([fuel |-> limits.fuel, pages |-> 1, log |-> <<>>, trapped |-> FALSE], module.start, limits.pages)
  IN IF ~(module.imports \subseteq Linked(granted)) \/ limits.pages < 1 \/ fresh.trapped
     THEN [error |-> "instantiate"] ELSE [error |-> "none", instance |-> fresh]

InstantiateFromManifest(module, manifest, granted, limits) ==
  IF ~Valid(manifest) THEN [error |-> "manifest"]
  ELSE IF ~(granted \subseteq manifest.capabilities) THEN [error |-> "undeclared"]
  ELSE Instantiate(module, granted, limits)

(* Mutant: every call begins with a full budget. *)
CallRefuelled(instance, module, export, limits) ==
  IF export \notin DOMAIN module.exports THEN instance
  ELSE Run([instance EXCEPT !.fuel = limits.fuel], module.exports[export], limits.pages)

(* A missing export, or one of another signature, is an error and runs nothing. *)
CallI32(instance, module, export, limits) ==
  IF export \notin DOMAIN module.exports THEN instance
  ELSE Run(instance, module.exports[export], limits.pages)

(* One call after the other, of whatever exports. *)
CallEach(instance, module, exports, limits) ==
  LET after[k \in 0 .. Len(exports)] == IF k = 0 THEN instance ELSE CallI32(after[k - 1], module, exports[k], limits)
  IN after[Len(exports)]
=============================================================================
