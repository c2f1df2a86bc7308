------------------------------ MODULE JobBoard ------------------------------
(***************************************************************************)
(* What a reader of the season analytics is promised of background work:   *)
(* a board with at most MaxJobs jobs, at most one of each key; the number  *)
(* done of a job only grows, one at a time, up to the total announced when *)
(* it was opened.  A job may leave the board at any moment: it is complete,*)
(* it could not begin, or its thread has failed.                           *)
(***************************************************************************)
EXTENDS Naturals, FiniteSets

CONSTANT MaxJobs

VARIABLE board     \* key -> [done, total]

Init == board = [k \in {} |-> 0]

Open ==
    /\ Cardinality(DOMAIN board) < MaxJobs
    /\ \E k \in DOMAIN board' \ DOMAIN board :
          /\ board'[k].done = 0 /\ board'[k].total \in Nat
          /\ board' = [j \in DOMAIN board \cup {k} |-> IF j = k THEN board'[k] ELSE board[j]]

Advance ==
    \E k \in DOMAIN board :
        /\ board[k].done < board[k].total
        /\ board' = [board EXCEPT ![k].done = @ + 1]

Close ==
    \E k \in DOMAIN board : board' = [j \in DOMAIN board \ {k} |-> board[j]]

Next == Open \/ Advance \/ Close

Spec == Init /\ [][Next]_board
=============================================================================
