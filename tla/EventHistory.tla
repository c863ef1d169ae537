------------------------------ MODULE EventHistory ------------------------------
(* crates/event-store: the queries whose answer depends on the order of stored   *)
(* times.  A time is a second and the digits of its fraction without trailing    *)
(* zeros: that is what the formatter writes, and no fraction at all when it is   *)
(* zero.  SQLite compares the formatted text, character by character.            *)
EXTENDS Ordering, SequencesExt, FiniteSetsExt

NoTime == [second |-> -1, fraction |-> <<>>]      \* a NULL column

(* Time as such: a fraction is earlier than another it is a proper prefix of. *)
Earlier(s, t) ==
  \/ s.second < t.second
  \/ s.second = t.second /\ \E i \in 1 .. Len(t.fraction) :
       /\ \A j \in 1 .. (i - 1) : j <= Len(s.fraction) /\ s.fraction[j] = t.fraction[j]
       /\ i > Len(s.fraction) \/ s.fraction[i] < t.fraction[i]

(* After the seconds the text goes on with '.', a digit or the final 'Z', and    *)
(* '.' < '0' .. '9' < 'Z'.                                                        *)
CharAfter(fraction, i) ==      \* the i-th character after the seconds
  IF fraction = <<>> \/ i = Len(fraction) + 2 THEN 11 ELSE IF i = 1 THEN 0 ELSE 1 + fraction[i - 1]

(* Mutant: the fields of a time are written without padding, "9" after "10". *)
UnpaddedBefore(s, t) ==
  \/ s.second % 10 < t.second % 10
  \/ s.second = t.second /\ \E i \in 1 .. (Len(s.fraction) + 2) :
       /\ \A j \in 1 .. (i - 1) : CharAfter(s.fraction, j) = CharAfter(t.fraction, j)
       /\ CharAfter(s.fraction, i) < CharAfter(t.fraction, i)

(* to_rfc3339(s) < to_rfc3339(t) *)
TextBefore(s, t) ==
  \/ s.second < t.second
  \/ s.second = t.second /\ \E i \in 1 .. (Len(s.fraction) + 2) :
       /\ \A j \in 1 .. (i - 1) : CharAfter(s.fraction, j) = CharAfter(t.fraction, j)
       /\ CharAfter(s.fraction, i) < CharAfter(t.fraction, i)

(* Rows are [id, at, expires].  Equal times, which SQLite may list either way,   *)
(* are listed by id.                                                              *)
NewestFirst(rows) ==
  {p \in rows \X rows : TextBefore(p[2].at, p[1].at) \/ (p[1].at = p[2].at /\ p[1].id < p[2].id)}

ListRecentEvents(rows, limit) ==
  LET newestFirst == Ordered(rows, NewestFirst(rows)) IN
  SubSeq(newestFirst, 1, IF limit < Len(newestFirst) THEN limit ELSE Len(newestFirst))

(* What a sweep hands to the detector: the list turned round. *)
DetectionInput(rows, limit) == Reverse(ListRecentEvents(rows, limit))

(* Mutant: a row without an expiry compares as an empty text. *)
DeleteExpiredAndUnset(rows, now) == {r \in rows : TextBefore(now, r.expires)}

DeleteExpiredEvents(rows, now) == {r \in rows : r.expires = NoTime \/ TextBefore(now, r.expires)}
=============================================================================
