---------------------------- MODULE FlashFuses ----------------------------
(***************************************************************************)
(* The general-purpose fuses of the flash controller driver, flashcalw.c.  *)
(* A function of the driver is a sequence of commands, each of which is    *)
(* carried out or refused; it is written as a function of the state f:     *)
(*   fuses     the fuse bits that are 1: an erase sets, a write clears     *)
(*   security  the Security bit                                            *)
(*   status    flashcalw_error_status, the Lock Error of it                *)
(*   refused   ghost: a command of this function was refused               *)
(*   issued    ghost: this function has issued a command                   *)
(* A value to write is the set of its bits that are 1.                     *)
(***************************************************************************)
EXTENDS Integers, SequencesExt

CONSTANTS
    FuseBytes,      \* 8 in the code
    FuseByte,       \* bits of a byte (8)
    FuseCount,      \* FLASH_GPF_NUM: the bits from there on are fixed at 1
    BOOTPROT        \* the fuse bits that a device with its Security bit set protects

FuseNumber == FuseBytes * FuseByte
FuseBits   == 0 .. FuseNumber - 1
ByteBits(byte) == {byte * FuseByte + i : i \in 0 .. FuseByte - 1}

ASSUME FuseAssumption ==
    /\ FuseBytes \in Nat \ {0} /\ FuseByte \in Nat \ {0}
    /\ FuseCount \in 0 .. FuseNumber /\ BOOTPROT \subseteq FuseBits

-----------------------------------------------------------------------------
(* A function begins and ends, a command is issued. *)

Begun(f) == [f EXCEPT !.refused = FALSE, !.issued = FALSE]

\* flashcalw_issue_command() of a command that the controller refuses, or that changes the fuses
Command(f, refuse, fuses) ==
    [f EXCEPT !.status = refuse, !.issued = TRUE, !.refused = @ \/ refuse,
              !.fuses = IF refuse THEN @ ELSE fuses \cup (FuseCount .. FuseNumber - 1)]

(* A function of several commands cumulates their status in error_status, the second of a
   pair <<f, error_status>>, and assigns it at its end. *)
Then(acc, g) == <<g, acc[2] \/ g.status>>
Ended(acc)   == [acc[1] EXCEPT !.status = acc[2]]

\* first .. first + count - 1
From(first, count) == [i \in 1 .. count |-> first + i - 1]

-----------------------------------------------------------------------------
(* Bits *)

erase_gp_fuse_bit(f, bit) ==
    LET b == bit % FuseNumber
    IN  Command(f, f.security /\ b \in BOOTPROT, f.fuses \cup {b})

write_gp_fuse_bit(f, bit, value) ==
    LET b == bit % FuseNumber
    IN  IF value THEN f ELSE Command(f, f.security /\ b \in BOOTPROT, f.fuses \ {b})

set_gp_fuse_bit(f, bit, value) ==
    IF value THEN erase_gp_fuse_bit(f, bit) ELSE write_gp_fuse_bit(f, bit, FALSE)

erase_gp_fuse_bitfield(f, pos, width) ==
    Ended(FoldLeft(LAMBDA acc, b : Then(acc, erase_gp_fuse_bit(acc[1], b)),
                   <<f, FALSE>>, From(pos, width)))

write_gp_fuse_bitfield(f, pos, width, value) ==
    Ended(FoldLeft(LAMBDA acc, b : Then(acc, write_gp_fuse_bit(acc[1], b, b - pos \in value)),
                   <<f, FALSE>>, From(pos, width)))

set_gp_fuse_bitfield(f, pos, width, value) ==
    Ended(FoldLeft(LAMBDA acc, b : Then(acc, set_gp_fuse_bit(acc[1], b, b - pos \in value)),
                   <<f, FALSE>>, From(pos, width)))

(* Bytes, value being within the byte; the controller writes a byte as a whole. *)

write_gp_fuse_byte(f, byte, value) ==
    Command(f, f.security, f.fuses \ (ByteBits(byte) \ {byte * FuseByte + i : i \in value}))

erase_all_gp_fuses(f) == Command(f, f.security, FuseBits)

\* The byte of value at byte, as value >>= 8 brings it to the low bits
ByteOf(value, byte) == {i \in 0 .. FuseByte - 1 : byte * FuseByte + i \in value}

write_all_gp_fuses(f, value) ==
    Ended(FoldLeft(LAMBDA acc, b : Then(acc, write_gp_fuse_byte(acc[1], b, ByteOf(value, b))),
                   <<f, FALSE>>, From(0, FuseBytes)))

\* mutant: the fuses are read after they are erased
erase_gp_fuse_byteMutant(f, byte) ==
    LET erased == erase_all_gp_fuses(f)
    IN  Ended(FoldLeft(LAMBDA acc, b :
                            IF b # byte
                            THEN Then(acc, write_gp_fuse_byte(acc[1], b, ByteOf(erased.fuses, b)))
                            ELSE acc,
                       <<erased, erased.status>>, From(0, FuseBytes)))

\* There is no command for one byte: all are erased, and the others written again
erase_gp_fuse_byte(f, byte) ==
    LET value == f.fuses
        erased == erase_all_gp_fuses(f)
    IN  Ended(FoldLeft(LAMBDA acc, b :
                            IF b # byte
                            THEN Then(acc, write_gp_fuse_byte(acc[1], b, ByteOf(value, b)))
                            ELSE acc,
                       <<erased, erased.status>>, From(0, FuseBytes)))

\* A value of all ones is erased only, one of all zeroes written only
set_gp_fuse_byte(f, byte, value) ==
    LET erased  == erase_gp_fuse_byte(f, byte)
        written == write_gp_fuse_byte(erased, byte, value)
    IN  CASE value = 0 .. FuseByte - 1 -> erased
          [] value = {} -> write_gp_fuse_byte(f, byte, {})
          [] OTHER -> [written EXCEPT !.status = @ \/ erased.status]

set_all_gp_fuses(f, value) ==
    LET erased  == erase_all_gp_fuses(f)
        written == write_all_gp_fuses(erased, value)
    IN  CASE value = FuseBits -> erased
          [] value = {} -> write_all_gp_fuses(f, {})
          [] OTHER -> [written EXCEPT !.status = @ \/ erased.status]
=============================================================================
