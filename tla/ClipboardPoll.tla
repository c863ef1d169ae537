----------------------------- MODULE ClipboardPoll -----------------------------
(* crates/observation linux/clipboard.rs: one poll of the clipboard source.  The   *)
(* owner of the selection answers two requests, for the list of its targets and     *)
(* for its data, by writing the property of the source and sending a notification   *)
(* that does not say which request it is for.                                        *)
(*                                                                                    *)
(* The source is [lastOwner, queue, property]: notifications that nobody waited for  *)
(* any more, and the last answer written.  A round is [owner, targets, data]: who     *)
(* owns the selection, what it offers, and when the two answers come:                 *)
(*   "fast"    before the source reads the property, whatever it waits for            *)
(*   "timely"  within the 200 milliseconds                                             *)
(*   "late"    after them      "never"                                                 *)
EXTENDS Integers, SequencesExt, FiniteSetsExt

NoOwner == 0
Source == [lastOwner |-> NoOwner, queue |-> <<>>, property |-> [owner |-> NoOwner, holds |-> "nothing"]]
Nothing == [holds |-> "timeout"]
Refusal == [holds |-> "refused"]

Written(source, answer) == IF answer = Refusal THEN source ELSE [source EXCEPT !.property = answer]
Notified(source, answer) == [Written(source, answer) EXCEPT !.queue = Append(@, answer = Refusal)]

(* Mutant: a notification is looked at, and left in the queue. *)
RequestPeeking(source, answer, when) ==
  LET asked == IF when \in {"fast", "timely"} THEN Notified(source, answer) ELSE source IN
  IF asked.queue = <<>>
  THEN [read |-> Nothing, source |-> IF when = "late" THEN Notified(asked, answer) ELSE asked]
  ELSE [read |-> IF Head(asked.queue) THEN Refusal ELSE asked.property, source |-> asked]

(* A request and wait_for_selection_notify: the oldest notification is taken for the  *)
(* answer, and the property is read as it is by then.                                   *)
Request(source, answer, when) ==
  IF source.queue = <<>>
  THEN CASE when \in {"fast", "timely"} ->
              [read |-> IF answer = Refusal THEN Refusal ELSE answer, source |-> Written(source, answer)]
         [] when = "late" -> [read |-> Nothing, source |-> Notified(source, answer)]
         [] OTHER -> [read |-> Nothing, source |-> source]
  ELSE LET early == IF when = "fast" THEN Notified(source, answer) ELSE source
           taken == [early EXCEPT !.queue = Tail(@)]
       IN [read |-> IF Head(source.queue) THEN Refusal ELSE taken.property,
           source |-> IF when \in {"timely", "late"} THEN Notified(taken, answer) ELSE taken]

Textual == {"UTF8_STRING", "STRING"}

(* A text if there is one, else whatever comes first. *)
ChosenTarget(targets) ==
  LET texts == {i \in DOMAIN targets : targets[i] \in Textual} IN
  IF texts # {} THEN targets[Min(texts)] ELSE Head(targets)

(* Of a property that holds data no targets can be read; data is read from whatever    *)
(* it holds.  A refusal ends the poll with an error, which reports nothing either.       *)
Poll(source, round) ==
  LET known == [source EXCEPT !.lastOwner = round.owner]
      first == Request(known, [owner |-> round.owner, holds |-> "targets", targets |-> round.targets], round.targetsAnswer)
  IN IF round.owner = NoOwner \/ round.owner = source.lastOwner
     THEN [source |-> known, report |-> <<>>]
     ELSE IF first.read.holds # "targets" \/ (first.read.holds = "targets" /\ first.read.targets = <<>>)
     THEN [source |-> first.source, report |-> <<>>]
     ELSE LET target == ChosenTarget(first.read.targets)
              second == Request(first.source,
                                IF target \in ToSet(round.targets)
                                THEN [owner |-> round.owner, holds |-> "data", of |-> target] ELSE Refusal,
                                round.dataAnswer)
          IN [source |-> second.source,
              report |-> IF second.read \in {Nothing, Refusal} THEN <<>>
                         ELSE <<[type |-> target, sizeOf |-> second.read]>>]

(* The source after each of the polls. *)
Polled(rounds) ==
  LET after[k \in 0 .. Len(rounds)] == IF k = 0 THEN Source ELSE Poll(after[k - 1], rounds[k]).source
  IN after

Reports(rounds) == [k \in DOMAIN rounds |-> Poll(Polled(rounds)[k - 1], rounds[k]).report]
=============================================================================
