------------------------------ MODULE MCOutbox ------------------------------
(* Four captures of one vacancy: first, the same with other white space, an *)
(* edited pay, and an edited title whose key collides with the pay's.       *)
EXTENDS Outbox

CONSTANTS first, spaced, paid, titled, k1, k2, k3, popup, sidepanel

MCKey == [p \in Payloads |-> CASE p = first -> k1 [] p = spaced -> k2 [] OTHER -> k3]
MCContent == [p \in Payloads |->
    [title |-> IF p = titled THEN "B" ELSE "A", pay |-> IF p = paid THEN "B" ELSE "A"]]
=============================================================================
