------------------------------ MODULE FifoQueue ------------------------------
(***************************************************************************)
(* What an operation queue promises its users: operations leave in the     *)
(* order they entered, each at most once, unless the queue is emptied as a *)
(* whole; and the serial number it reports is that of the operation added  *)
(* last, whether or not that one is still in the queue.                    *)
(***************************************************************************)
EXTENDS Integers, Sequences

CONSTANT Operations     \* what is queued: records with a field serial

VARIABLES items,   \* the operations in the queue, oldest first
          taken,   \* the operations that were taken out, in order
          latest   \* the serial number of the operation added last

fifoVars == <<items, taken, latest>>

Init == items = <<>> /\ taken = <<>> /\ latest = 0

Put(o) ==
  /\ items' = Append(items, o)
  /\ latest' = o.serial
  /\ UNCHANGED taken

Take ==
  /\ items # <<>>
  /\ taken' = Append(taken, Head(items))
  /\ items' = Tail(items)
  /\ UNCHANGED latest

Discard == items' = <<>> /\ UNCHANGED <<taken, latest>>

Next == Take \/ Discard \/ \E o \in Operations : Put(o)

Spec == Init /\ [][Next]_fifoVars
=============================================================================
