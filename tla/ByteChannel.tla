--------------------------- MODULE ByteChannel ---------------------------
(***************************************************************************)
(* What a serial receiver promises: read() returns the bytes of the wire,  *)
(* each once and in order, in blocks.  After a fault it promises nothing.  *)
(***************************************************************************)
EXTENDS Integers

VARIABLES
    sent,        \* bytes 1 .. sent were put on the wire
    delivered,   \* how many read() has returned
    block,       \* the bytes the last read() returned
    fault        \* the receiver failed

cvars == <<sent, delivered, block, fault>>

Init == sent = 0 /\ delivered = 0 /\ block = [i \in {} |-> 0] /\ ~fault

Send ==
    /\ sent' = sent + 1
    /\ UNCHANGED <<delivered, block>>
    /\ fault' \in BOOLEAN

Deliver ==
    \E n \in 1 .. sent - delivered :
        /\ block' = [i \in 1 .. n |-> delivered + i]
        /\ delivered' = delivered + n
        /\ UNCHANGED <<sent, fault>>

Fail == fault' = TRUE /\ UNCHANGED <<sent, delivered, block>>

Next == IF fault THEN fault' ELSE Send \/ Deliver \/ Fail

Spec == Init /\ [][Next]_cvars
=============================================================================
