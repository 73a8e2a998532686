-------------------------------- MODULE Books --------------------------------
(***************************************************************************)
(* What the general ledger promises to whoever reads it: a journal that    *)
(* only grows, in which no document is booked twice and no entry is        *)
(* reversed twice, and an audit trail that only grows and reports every    *)
(* entry once, in order.  GeneralLedger implements it.                     *)
(***************************************************************************)
EXTENDS Naturals, Sequences

VARIABLES
  entries,  \* the journal: [kind, doc, reverses, ...]
  trail     \* the audit trail: the number of the entry a row reports, or 0

Extends(s, t) == Len(s) <= Len(t) /\ \A i \in DOMAIN s : t[i] = s[i]

\* No entry undoes another twice, and only an earlier entry that undoes nothing.
UndoneOnce(e) == \A i, k \in DOMAIN e :
  e[i].reverses # 0 =>
    /\ e[i].reverses \in 1..(i - 1) /\ e[e[i].reverses].reverses = 0
    /\ e[k].reverses = e[i].reverses => k = i

\* A document is booked once, and so is the refund of its line.
BookedOnce(e) == \A i, k \in DOMAIN e :
  e[i].kind \in {"DOC", "PARTIAL"} /\ e[k].kind = e[i].kind /\ e[k].doc = e[i].doc => k = i

\* The trail reports every entry, in order and once.
Mirrors(t, e) ==
  /\ {t[r] : r \in DOMAIN t} \ {0} = DOMAIN e
  /\ \A q, r \in DOMAIN t : q < r /\ t[q] # 0 /\ t[r] # 0 => t[q] < t[r]

Sound(e, t) == UndoneOnce(e) /\ BookedOnce(e) /\ Mirrors(t, e)

Init == entries = <<>> /\ trail = <<>>

\* A transaction commits a batch of entries and of audit rows.
Grow ==
  /\ Extends(entries, entries') /\ Extends(trail, trail')
  /\ Sound(entries', trail')

Spec == Init /\ [][Grow]_<<entries, trail>>
=============================================================================
