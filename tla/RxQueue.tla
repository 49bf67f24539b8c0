------------------------------- MODULE RxQueue -------------------------------
(***************************************************************************)
(* What the receive path of an ethernet driver promises to NetReceive: the *)
(* frames the board accepts are handed over one by one, each once and in   *)
(* the order of their arrival.  At most Size wait; a frame that arrives    *)
(* when there is no room is lost.  Opening the device forgets the rest.    *)
(***************************************************************************)
EXTENDS Naturals, Sequences

CONSTANT Size

VARIABLES
  waiting,      \* the frames that wait, by their number
  accepted,     \* how many were accepted since the device was opened
  handed        \* the frame handed over last, 0 before the first

vars == <<waiting, accepted, handed>>

Init == waiting = <<>> /\ accepted = 0 /\ handed = 0

Accept ==
  /\ Len(waiting) < Size
  /\ accepted' = accepted + 1
  /\ waiting' = Append(waiting, accepted + 1)
  /\ UNCHANGED handed

HandOver ==
  /\ waiting # <<>>
  /\ handed' = Head(waiting) /\ waiting' = Tail(waiting)
  /\ UNCHANGED accepted

Open == waiting' = <<>> /\ accepted' = 0 /\ handed' = 0

Next == Accept \/ HandOver \/ Open

Spec == Init /\ [][Next]_vars
=============================================================================
