----------------------------- MODULE BoundedFifo -----------------------------
(***************************************************************************)
(* What the program's two buffers between producer and consumer promise:   *)
(* a first-in first-out channel of bounded capacity.  A put into the full  *)
(* channel is refused and changes nothing.                                 *)
(***************************************************************************)
EXTENDS Naturals, Sequences

CONSTANTS Capacity,   \* how many items fit
          Item,       \* what may be put in
          None        \* nothing has been taken yet

VARIABLES contents,   \* the items put and not yet taken, oldest first
          taken       \* the item taken last

Init == contents = <<>> /\ taken = None

Put(x) ==
  /\ Len(contents) < Capacity
  /\ contents' = Append(contents, x)
  /\ UNCHANGED taken

Take ==
  /\ contents # <<>>
  /\ taken' = Head(contents)
  /\ contents' = Tail(contents)

Next == (\E x \in Item : Put(x)) \/ Take

Spec == Init /\ [][Next]_<<contents, taken>>
=============================================================================
