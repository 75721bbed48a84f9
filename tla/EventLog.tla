------------------------------ MODULE EventLog ------------------------------
(***************************************************************************)
(* What a transcript promises to the ones who write to it: the entries of  *)
(* a writer reach the log in the order they were made, each at most once,  *)
(* and stay there.  An entry that has not reached it yet may be lost, and  *)
(* then all that are behind it in the same writer are lost as well.        *)
(***************************************************************************)
EXTENDS Naturals, Sequences

CONSTANTS
  Writers,    \* who makes entries
  MaxEntries  \* bound: entries of a writer; they are numbered

VARIABLES
  pending,  \* writer |-> its entries that are not in the log yet
  durable   \* writer |-> its entries in the log

vars == <<pending, durable>>

Init == pending = [w \in Writers |-> <<>>] /\ durable = [w \in Writers |-> <<>>]

\* Writer w makes the entries `new`, and the first k of its entries that are
\* waiting reach the log.
Proceed(w, new, k) ==
  LET waiting == pending[w] \o new
  IN  /\ \A e \in {new[i] : i \in DOMAIN new} :
           \A i \in DOMAIN pending[w] : pending[w][i] < e
      /\ \A e \in {new[i] : i \in DOMAIN new} :
           \A i \in DOMAIN durable[w] : durable[w][i] < e
      /\ k <= Len(waiting)
      /\ durable' = [durable EXCEPT ![w] = @ \o SubSeq(waiting, 1, k)]
      /\ pending' = [pending EXCEPT ![w] = SubSeq(waiting, k + 1, Len(waiting))]

\* Writer w is gone: the first k of its entries that are waiting may still reach
\* the log, the others do not.
Lose(w, k) ==
  /\ k <= Len(pending[w])
  /\ durable' = [durable EXCEPT ![w] = @ \o SubSeq(pending[w], 1, k)]
  /\ pending' = [pending EXCEPT ![w] = <<>>]

Next ==
  \E w \in Writers : \E k \in 0..Len(pending[w]) + 1 :
    \/ Lose(w, k)
    \/ Proceed(w, <<>>, k)
    \/ \E e \in 1..MaxEntries : Proceed(w, <<e>>, k)

Spec == Init /\ [][Next]_vars

=============================================================================
