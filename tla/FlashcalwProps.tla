-------------------------- MODULE FlashcalwProps --------------------------
(* What the flash controller driver promises *)
EXTENDS Flashcalw

(* The variables keep to their types: no copy leaves the flash, or goes on behind its end. *)
TypeOK ==
    /\ flash \in [Array \cup User -> SUBSET Bits] /\ buffer \in [0 .. PageSize - 1 -> SUBSET Bits]
    /\ pagen \in 0 .. Pages /\ locked \subseteq 0 .. Regions - 1
    /\ f.fuses \subseteq FuseBits /\ FuseCount .. FuseNumber - 1 \subseteq f.fuses
    /\ pc \in {"idle", "clear", "fill", "erase", "write"} /\ errors \in BOOLEAN
    /\ pc \in {"clear", "fill"} => dest \in Array \cup User
    /\ calls \in 0 .. MaxCall

-----------------------------------------------------------------------------
(* What the copy under way, or the last one, is to store, byte by byte *)

IsCopy == call.op \in {"memset", "memcpy"}

NewByte(a) ==
    IF call.op = "memcpy" THEN Source[a - call.dst]
    ELSE LET n == Cardinality(DOMAIN call.pattern)
         IN  call.pattern[n - 1 - ((a - call.dst) % n)]

Copied  == (call.dst .. call.dst + call.n - 1) \cap (Array \cup User)
Allowed(a) == a \in User \/ Region(a \div PageSize) \notin locked

Target(a) ==
    IF a \in Copied /\ Allowed(a)
    THEN IF call.erase THEN NewByte(a) ELSE NewByte(a) \cap old.flash[a]
    ELSE old.flash[a]

(* A copy stores its bytes at their addresses, the pattern of a memset beginning with its
   high byte, whatever the alignment of its ends, in one page or several, in the array or
   across the gap in the User page, and changes nothing else; without erase, if what it
   writes to was erased (flashcalw.c:1250, 1253). *)
Stored ==
    pc = "idle" /\ IsCopy /\ (call.erase \/ \A a \in Copied : old.flash[a] = Bits)
        => \A a \in DOMAIN flash : flash[a] = Target(a)

(* A reset in a copy costs one page at most: all pages before it hold what they should, all
   behind it what they held. *)
OnePageAtRisk ==
    IsCopy =>
        \E q \in {AlignDown(a, PageSize) : a \in DOMAIN flash} :
            \A a \in DOMAIN flash \ Page(q) :
                flash[a] = IF a < q THEN Target(a) ELSE old.flash[a]

(* flashcalw_is_lock_error() tells whether a command of the last function was refused, of
   the many that a function may issue, whatever was refused before.  Not so after
   flashcalw_write_gp_fuse_bitfield(), which adds the status it finds for each bit that
   needs no command. *)
StatusIsTrue ==
    pc = "idle" /\ f.issued /\ call.op # "write_bitfield" => f.status = f.refused

(* A function that sets or erases fuses leaves all other fuses as they were, although the
   hardware erases all to erase a byte; those it is for get their value, if nothing was
   refused. *)
FusesKept ==
    pc = "idle" /\ call.op \in {"set", "erase"} =>
        \A b \in 0 .. FuseCount - 1 :
            IF b \notin call.bits THEN b \in f.fuses <=> b \in old.fuses
            ELSE f.refused \/ (b \in f.fuses <=> call.op = "erase" \/ b \in call.value)
=============================================================================
