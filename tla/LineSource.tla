----------------------------- MODULE LineSource -----------------------------
(***************************************************************************)
(* What the streaming decoder promises its caller: the rows of one picture *)
(* after another, each row once, in order and complete, until the last     *)
(* picture is delivered.                                                   *)
(***************************************************************************)
EXTENDS Integers

CONSTANTS Pictures,      \* pictures the caller decodes
          Height(_),     \* rows of a picture of shape s
          Right(_, _, _) \* the output rows of shape s, picture p, row y

VARIABLES shape, picture, row, shown

vars == <<shape, picture, row, shown>>

Init == picture = 1 /\ row = 0

Deliver == /\ row < Height(shape)
           /\ row' = row + 1
           /\ shown' = Right(shape, picture, row)
           /\ UNCHANGED <<shape, picture>>

NextPicture == /\ row = Height(shape)
               /\ picture < Pictures
               /\ picture' = picture + 1 /\ row' = 0
               /\ UNCHANGED <<shape, shown>>

Next == Deliver \/ NextPicture

Spec == Init /\ [][Next]_vars /\ WF_vars(Next)

=============================================================================
