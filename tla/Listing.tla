------------------------------- MODULE Listing -------------------------------
(***************************************************************************)
(* What a browse listing promises its reader, whatever traversal prints    *)
(* it: rows come out one at a time, each of them an expected row, in the   *)
(* order of the references, none twice; and a listing that ends without    *)
(* having been cut short holds every expected row.                         *)
(*                                                                         *)
(* A row is named by its position: `at` is the index of a reference of the *)
(* objects folder and `sub` the index of a reference of that node, or 0    *)
(* for the row of the node itself.                                         *)
(***************************************************************************)
EXTENDS Integers, Sequences

CONSTANT Expected   \* the positions a whole listing holds

VARIABLES
    listed,   \* the positions printed so far, in order
    whole,    \* FALSE once an answer of the server was cut short or failed
    done      \* TRUE once the listing has ended

vars == <<listed, whole, done>>

Before(p, q) == \/ p.at < q.at
                \/ p.at = q.at /\ p.sub < q.sub

Init == /\ listed = <<>>
        /\ whole = TRUE
        /\ done = FALSE

PrintRow(p) == /\ ~done
               /\ \A k \in DOMAIN listed : Before(listed[k], p)
               /\ listed' = Append(listed, p)
               /\ UNCHANGED <<whole, done>>

CutShort == /\ ~done
            /\ whole' = FALSE
            /\ UNCHANGED <<listed, done>>

Finish == /\ ~done
          /\ whole => {listed[k] : k \in DOMAIN listed} = Expected
          /\ done' = TRUE
          /\ UNCHANGED <<listed, whole>>

Next == \/ \E p \in Expected : PrintRow(p)
        \/ CutShort
        \/ Finish

Spec == Init /\ [][Next]_vars
=============================================================================
