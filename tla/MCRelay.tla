------------------------------- MODULE MCRelay ------------------------------
(* Small instances of the relay. *)
EXTENDS Relay

\* Three chunks that fit into the budget together and not into the queue, and
\* one that is the whole budget.
MCSizes == <<1, 1, 1, 3>>

\* Two chunks, either of which may be lost or left unread: enough to pause, to
\* sit the pause out and to be stopped in it.
MCSizesTwo == <<2, 1>>
=============================================================================
