---------------------------- MODULE MCFlashcalw ----------------------------
(* The flash controller driver on a small flash: two pages of three double-words of two
   bytes, a gap of one page, and the User page; four fuses in two bytes. *)
EXTENDS FlashcalwProps

MCFresh ==
    {[a \in Array \cup User |-> Bits],
     [a \in Array \cup User |-> IF a % 3 = 0 THEN {} ELSE IF a % 3 = 1 THEN {0} ELSE {0, 1}]}
MCPatterns == {[i \in {0} |-> {1}], [i \in {0, 1} |-> IF i = 0 THEN {} ELSE {1}]}
MCSource   == [j \in 0 .. Pages * PageSize - 1 |-> IF j % 5 < 2 THEN {1} ELSE IF j % 5 = 2 THEN {} ELSE {0}]
MCFuseValues == {{}, FuseBits, {0}, {1, 2}, {0, 3}, {0, 1, 3}}
=============================================================================
