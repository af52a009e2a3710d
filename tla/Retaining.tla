------------------------------ MODULE Retaining -----------------------------
(***************************************************************************)
(* retain of Rust's Vec and VecDeque, as the stores of files and of server *)
(* endpoints use it.                                                       *)
(***************************************************************************)
EXTENDS Integers, Sequences

Members(s) == {s[i] : i \in 1..Len(s)}

\* What of s is in S, in its order.
Retain(s, S) ==
    LET kept[i \in 0..Len(s)] ==
            IF i = 0 THEN <<>>
            ELSE IF s[i] \in S THEN Append(kept[i - 1], s[i]) ELSE kept[i - 1]
    IN  kept[Len(s)]
=============================================================================
