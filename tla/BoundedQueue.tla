---------------------------- MODULE BoundedQueue ----------------------------
(* What a queue promises its users, whatever happens in between: at most     *)
(* Length items, taken from the front in the order in which they were put    *)
(* there, each exactly once and unchanged.                                   *)
EXTENDS Sequences, Integers

CONSTANTS Items, NoItem, Length

VARIABLES items, \* in the queue, the front first
          taken  \* the last item that was read

Init == items = <<>> /\ taken = NoItem

SendToBack(i) ==
    /\ Len(items) < Length
    /\ items' = Append(items, i)
    /\ UNCHANGED taken

SendToFront(i) ==
    /\ Len(items) < Length
    /\ items' = <<i>> \o items
    /\ UNCHANGED taken

Receive ==
    /\ items # <<>>
    /\ taken' = Head(items)
    /\ items' = Tail(items)

Peek ==
    /\ items # <<>>
    /\ taken' = Head(items)
    /\ UNCHANGED items

Next == Receive \/ Peek \/ \E i \in Items : SendToBack(i) \/ SendToFront(i)

Spec == Init /\ [][Next]_<<items, taken>>
=============================================================================
