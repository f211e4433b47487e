----------------------------- MODULE Flashcalw -----------------------------
(***************************************************************************)
(* The flash controller driver, flashcalw.c: commands on pages, regions    *)
(* and fuses, and flashcalw_memset() and flashcalw_memcpy(), which go      *)
(* through the controller's page buffer page by page.                      *)
(*                                                                         *)
(* Nobody else uses the flash, but a reset may come at any step: what the  *)
(* flash holds in between matters too.  A byte is the set of its bits that *)
(* are 1, so that an erased byte is Bits, and a write clears bits only.    *)
(***************************************************************************)
EXTENDS FlashFuses

CONSTANTS
    Bits,             \* the bits of a byte
    DWord,            \* bytes of a double-word (8)
    PageSize,         \* bytes of a page (512)
    Pages,            \* pages of the flash array
    Regions,          \* FLASHCALW_REGIONS (16)
    UserPage,         \* FLASH_USER_PAGE_ADDR, in a gap behind the array
    Fresh,            \* the contents the flash may have at first
    Patterns,         \* sources of memset: 1, 2, 4 or 8 bytes, the low byte first
    Source,           \* the bytes memcpy copies
    FuseValues,       \* values written to fuses
    MaxCall           \* bound: calls of the driver

ArrayEnd == Pages * PageSize
UserEnd  == UserPage + PageSize
Array    == 0 .. ArrayEnd - 1
User     == UserPage .. UserEnd - 1
PageNumbers == 0 .. Pages - 1

ASSUME FlashAssumption ==
    /\ DWord \in Nat \ {0} /\ PageSize \in Nat \ {0} /\ Pages \in Nat \ {0}
    /\ PageSize % DWord = 0
    /\ Regions \in Nat \ {0} /\ Pages % Regions = 0
    /\ UserPage \in Nat /\ UserPage > ArrayEnd /\ UserPage % PageSize = 0
    /\ Fresh \subseteq [Array \cup User -> SUBSET Bits]
    /\ \A p \in Patterns : \E n \in 1 .. DWord : DWord % n = 0 /\ p \in [0 .. n - 1 -> SUBSET Bits]
    /\ Source \in [0 .. Pages * PageSize - 1 -> SUBSET Bits]
    /\ FuseValues \subseteq SUBSET FuseBits
    /\ MaxCall \in Nat

VARIABLES
    flash,      \* the flash array and the User page
    buffer,     \* the page buffer
    pagen,      \* FCMD.PAGEN: the page of the last command, or of the last write to the buffer
    locked,     \* the regions that are locked
    f,          \* fuses, Security bit, flashcalw_error_status; see FlashFuses
    pc, call,   \* the copy that is under way, and its parameters
    dest,       \* dest.u8ptr of memset, flash_add of memcpy
    errors,     \* error_status
    old,        \* ghost: the flash and the fuses when the function was called
    calls

vars == <<flash, buffer, pagen, locked, f, pc, call, dest, errors, old, calls>>

Erased == [i \in 0 .. PageSize - 1 |-> Bits]
Nothing == [op |-> "none"]

Init ==
    /\ flash \in Fresh
    /\ buffer = Erased /\ pagen = 0 /\ locked = {}
    /\ f = [fuses |-> FuseBits, security |-> FALSE, status |-> FALSE, refused |-> FALSE, issued |-> FALSE]
    /\ pc = "idle" /\ call = Nothing
    /\ dest = 0 /\ errors = FALSE
    /\ old = [flash |-> flash, fuses |-> FuseBits] /\ calls = 0

AlignDown(a, n) == a - (a % n)
Page(a)   == {AlignDown(a, PageSize) + i : i \in 0 .. PageSize - 1}
Region(p) == p \div (Pages \div Regions)

-----------------------------------------------------------------------------
(* The commands of the controller, through flashcalw_issue_command(); a page number below 0
   stands for PAGEN. *)

Issue(g, refuse) == Command(g, refuse, g.fuses)
Refuses(p) == Region(p) \in locked

ArrayPage(p) == Page(p * PageSize)

EraseIn(memory, bytes) == [a \in DOMAIN memory |-> IF a \in bytes THEN Bits ELSE memory[a]]
WriteIn(memory, bytes) ==
    [a \in DOMAIN memory |->
        IF a \in bytes THEN memory[a] \cap buffer[a % PageSize] ELSE memory[a]]

\* Writes to addresses of the flash go to the page buffer, and can only clear bits of it
BufferWritten(value) ==
    [i \in 0 .. PageSize - 1 |->
        LET hit == {a \in DOMAIN value : a % PageSize = i}
        IN  IF hit = {} THEN buffer[i] ELSE buffer[i] \cap value[CHOOSE a \in hit : TRUE]]

PageWritten(bytes) == pagen' = IF bytes # {} /\ bytes \subseteq Array
                               THEN (CHOOSE a \in bytes : TRUE) \div PageSize ELSE pagen

-----------------------------------------------------------------------------
(* Commands the client gives *)

Function ==
    /\ pc = "idle" /\ calls < MaxCall
    /\ calls' = calls + 1
    /\ old' = [flash |-> flash, fuses |-> f.fuses]
    /\ UNCHANGED <<pc, dest, errors>>

lock_page_region(p, lock) ==
    /\ Function /\ call' = [op |-> "lock"]
    /\ pagen' = p /\ f' = Issue(Begun(f), FALSE)
    /\ locked' = IF lock THEN locked \cup {Region(p)} ELSE locked \ {Region(p)}
    /\ UNCHANGED <<flash, buffer>>

\* From the last region to the first
lock_all_regions(lock) ==
    /\ Function /\ call' = [op |-> "lock_all"]
    /\ pagen' = 0 /\ f' = Issue(Begun(f), FALSE)
    /\ locked' = IF lock THEN 0 .. Regions - 1 ELSE {}
    /\ UNCHANGED <<flash, buffer>>

\* mutant: the status of the quick read replaces the one of the erase
erase_pageMutant(p, check) ==
    /\ Function /\ call' = [op |-> "erase_page"]
    /\ pagen' = p
    /\ flash' = IF Refuses(p) THEN flash ELSE EraseIn(flash, ArrayPage(p))
    /\ f' = IF check THEN Issue(Issue(Begun(f), Refuses(p)), FALSE) ELSE Issue(Begun(f), Refuses(p))
    /\ UNCHANGED <<buffer, locked>>

\* The quick page read that checks it is never refused
erase_page(p, check) ==
    /\ Function /\ call' = [op |-> "erase_page"]
    /\ pagen' = p
    /\ flash' = IF Refuses(p) THEN flash ELSE EraseIn(flash, ArrayPage(p))
    /\ f' = Issue(Begun(f), Refuses(p))
    /\ UNCHANGED <<buffer, locked>>

\* From the last page to the first: a page that is refused does not keep the others
erase_all_pages ==
    LET free == {p \in PageNumbers : ~Refuses(p)}
    IN  /\ Function /\ call' = [op |-> "erase_all_pages"]
        /\ pagen' = 0
        /\ flash' = EraseIn(flash, UNION {ArrayPage(p) : p \in free})
        /\ f' = Issue(Begun(f), free # PageNumbers)
        /\ UNCHANGED <<buffer, locked>>

erase_user_page ==
    /\ Function /\ call' = [op |-> "erase_user"]
    /\ flash' = EraseIn(flash, User)
    /\ f' = Issue(Begun(f), FALSE)
    /\ UNCHANGED <<buffer, pagen, locked>>

set_security_bit ==
    /\ Function /\ call' = [op |-> "security"]
    /\ f' = [Issue(Begun(f), FALSE) EXCEPT !.security = TRUE]
    /\ UNCHANGED <<flash, buffer, pagen, locked>>

-----------------------------------------------------------------------------
(* Fuses.  PAGEN is then a fuse's number, for which Pages stands.  A field goes round from
   the last bit to the first. *)

FuseCommand(g) ==
    /\ Function /\ f' = g
    /\ UNCHANGED <<flash, buffer, locked>>
    /\ pagen' = IF g.issued THEN Pages ELSE pagen

Field(pos, width) == {(pos + i) % FuseNumber : i \in 0 .. width - 1}

erase_fuses ==
    \/ \E b \in FuseBits :
        /\ FuseCommand(erase_gp_fuse_bit(Begun(f), b))
        /\ call' = [op |-> "erase", bits |-> {b}]
    \/ \E pos \in FuseBits : \E width \in 0 .. FuseNumber :
        /\ FuseCommand(erase_gp_fuse_bitfield(Begun(f), pos, width))
        /\ call' = [op |-> "erase", bits |-> Field(pos, width)]
    \/ \E b \in 0 .. FuseBytes - 1 :
        /\ FuseCommand(erase_gp_fuse_byte(Begun(f), b))
        /\ call' = [op |-> "erase", bits |-> ByteBits(b)]
    \/ /\ FuseCommand(erase_all_gp_fuses(Begun(f)))
       /\ call' = [op |-> "erase", bits |-> FuseBits]

write_fuses ==
    \E v \in FuseValues :
        \/ /\ FuseCommand(write_all_gp_fuses(Begun(f), v))
           /\ call' = [op |-> "write"]
        \/ \E pos \in FuseBits : \E width \in 0 .. FuseNumber :
            /\ FuseCommand(write_gp_fuse_bitfield(Begun(f), pos, width, v))
            /\ call' = [op |-> "write_bitfield"]

At(v, n) == {(i + n) % FuseNumber : i \in v}

set_fuses ==
    \E v \in FuseValues :
        \/ \E pos \in FuseBits : \E width \in 0 .. FuseNumber :
            /\ FuseCommand(set_gp_fuse_bitfield(Begun(f), pos, width, v))
            /\ call' = [op |-> "set", bits |-> Field(pos, width), value |-> At(v, pos)]
        \/ \E b \in 0 .. FuseBytes - 1 :
            LET byte == v \cap (0 .. FuseByte - 1)
            IN  /\ FuseCommand(set_gp_fuse_byte(Begun(f), b, byte))
                /\ call' = [op |-> "set", bits |-> ByteBits(b), value |-> At(byte, b * FuseByte)]
        \/ /\ FuseCommand(set_all_gp_fuses(Begun(f), v))
           /\ call' = [op |-> "set", bits |-> FuseBits, value |-> v]

-----------------------------------------------------------------------------
(* Copies.  The buffer is lost in a reset, so that filling it is one step; an erase and a
   write of a page are one step each. *)

Copying(op) == call.op = op
Keep == UNCHANGED <<locked, call, old, calls>>

\* The next page, or the end, where flashcalw_error_status is assigned.
\* Bound: a copy is the last call
Begin(from, more) ==
    /\ pc = "idle" /\ calls < MaxCall - 1 /\ calls' = MaxCall
    /\ f.fuses = FuseBits /\ ~f.security              \* bound
    /\ old' = [flash |-> flash, fuses |-> f.fuses]
    /\ dest' = from /\ errors' = FALSE
    /\ pc' = IF more THEN "clear" ELSE "idle"
    /\ f' = [Begun(f) EXCEPT !.status = more /\ @]
    /\ UNCHANGED <<flash, buffer, pagen, locked>>

ClearPageBuffer ==
    /\ pc = "clear" /\ pc' = "fill"
    /\ buffer' = Erased /\ f' = Issue(f, FALSE)
    /\ UNCHANGED <<flash, pagen, dest, errors>> /\ Keep

PageCommand(next, bytes, memory) ==
    LET refuse == bytes \subseteq Array /\ Refuses(pagen)
    IN  /\ flash' = IF refuse THEN flash ELSE memory
        /\ errors' = (errors \/ refuse)
        /\ f' = [Issue(f, refuse) EXCEPT !.status = IF next = "idle" THEN errors' ELSE @]
        /\ pc' = next
        /\ UNCHANGED <<buffer, pagen>> /\ Keep

\* The page that erase and write are for: the User page, or PAGEN
InUser  == IF Copying("memset") THEN dest > UserPage ELSE call.dst >= UserPage
Current == IF InUser THEN User ELSE ArrayPage(pagen)

\* mutant: the page dest points to
ErasePageMutant ==
    /\ pc = "erase"
    /\ LET page == IF InUser THEN User ELSE Page(AlignDown(dest, PageSize))
       IN  PageCommand("write", page, EraseIn(flash, page))
    /\ UNCHANGED dest

ErasePage ==
    /\ pc = "erase"
    /\ PageCommand("write", Current, EraseIn(flash, Current))
    /\ UNCHANGED dest

-----------------------------------------------------------------------------
(* flashcalw_memset8() ... memset64(): a pattern widened to a double-word, its high byte at
   the destination. *)

\* mutant: the low byte at the destination
SourceDwordMutant(p, dst) ==
    LET wide(k) == p[k % Cardinality(DOMAIN p)]
    IN  [i \in 0 .. DWord - 1 |-> wide((i - (dst % DWord)) % DWord)]

SourceDword(p, dst) ==
    LET wide(k) == p[k % Cardinality(DOMAIN p)]
    IN  [i \in 0 .. DWord - 1 |-> wide(((dst % DWord) - 1 - i) % DWord)]

\* From outside of the flash: on to the next page, back to the end of the previous one
Clipped(dst)  == IF ArrayEnd <= dst /\ dst < UserPage THEN UserPage ELSE dst
\* mutant: only the end in the gap is moved
EndClippedMutant(end) == IF UserPage >= end /\ end > ArrayEnd THEN ArrayEnd ELSE end
EndClipped(end) == IF end > UserEnd THEN UserEnd
                   ELSE IF UserPage >= end /\ end > ArrayEnd THEN ArrayEnd ELSE end

memset(dst, n, p, erase) ==
    LET end == EndClipped(dst + n)
    IN  /\ Begin(Clipped(dst), Clipped(dst) < end)
        /\ call' = [op |-> "memset", dst |-> dst, n |-> n, erase |-> erase, pattern |-> p,
                     end |-> end, source |-> SourceDword(p, dst)]

DWordAt(a) == a .. a + DWord - 1

(* What of a page is written to the buffer, and from where: the flash before the destination,
   the double-word the destination begins in (unless it ends there too), whole double-words
   of the source, the one the destination ends in, and the flash behind it. *)
FillMemset ==
    /\ pc = "fill" /\ Copying("memset")
    /\ LET page  == AlignDown(dest, PageSize)
           first == AlignDown(dest, DWord)
           last  == AlignDown(call.end, DWord)
           incomplete == page >= AlignDown(call.end, PageSize)
           begun == dest % DWord # 0 /\ first < last
           start == IF begun THEN first + DWord ELSE first
           stop  == IF last < page + PageSize THEN last ELSE page + PageSize
           ended == incomplete /\ call.end % DWord # 0
           rest  == IF ended THEN last + DWord ELSE call.end
           before == page .. first - 1
           begin == IF begun THEN DWordAt(first) ELSE {}
           end   == IF ended THEN DWordAt(stop) ELSE {}
           after == IF incomplete THEN rest .. page + PageSize - 1 ELSE {}
           kept(a) ==
               \/ a \in before \cup after
               \/ a \in begin /\ a % DWord < dest % DWord
               \/ a \in end /\ a % DWord >= call.end % DWord
               \/ a \in end /\ ~begun /\ a % DWord < dest % DWord
           bytes == before \cup begin \cup (start .. stop - 1) \cup end \cup after
       IN  /\ buffer' = BufferWritten([a \in bytes |-> IF kept(a) THEN flash[a] ELSE call.source[a % DWord]])
           /\ PageWritten(bytes)
           /\ dest' = IF ended THEN stop + DWord ELSE stop
    /\ pc' = IF call.erase THEN "erase" ELSE "write"
    /\ UNCHANGED <<flash, f, errors>> /\ Keep

WriteMemset ==
    /\ pc = "write" /\ Copying("memset")
    /\ dest' = IF ~InUser /\ dest >= ArrayEnd THEN UserPage ELSE dest
    /\ PageCommand(IF dest' < call.end THEN "clear" ELSE "idle", Current, WriteIn(flash, Current))

-----------------------------------------------------------------------------
(* flashcalw_memcpy(), within the array or the User page *)

memcpy(dst, n, erase) ==
    /\ Begin(AlignDown(dst, PageSize), n # 0)
    /\ call' = [op |-> "memcpy", dst |-> dst, n |-> n, erase |-> erase]

FillMemcpy ==
    /\ pc = "fill" /\ Copying("memcpy")
    /\ LET bytes   == dest .. dest + PageSize - 1
           copied(a) == a \in call.dst .. call.dst + call.n - 1
       IN  /\ buffer' = BufferWritten([a \in bytes |-> IF copied(a) THEN Source[a - call.dst] ELSE flash[a]])
           /\ PageWritten(bytes)
    /\ dest' = dest + PageSize
    /\ pc' = IF call.erase THEN "erase" ELSE "write"
    /\ UNCHANGED <<flash, f, errors>> /\ Keep

WriteMemcpy ==
    /\ pc = "write" /\ Copying("memcpy")
    /\ PageCommand(IF dest < call.dst + call.n THEN "clear" ELSE "idle",
                   Current, WriteIn(flash, Current))
    /\ UNCHANGED dest

-----------------------------------------------------------------------------
Functions ==
    \/ \E lock \in BOOLEAN : lock_all_regions(lock) \/ \E p \in PageNumbers : lock_page_region(p, lock)
    \/ \E check \in BOOLEAN, p \in PageNumbers : erase_page(p, check)
    \/ erase_all_pages \/ erase_user_page \/ set_security_bit \/ erase_fuses \/ write_fuses \/ set_fuses

Copies ==
    \E erase \in BOOLEAN :
        \/ \E dst \in 0 .. UserEnd - 1 : \E n \in 0 .. UserEnd + DWord - dst, p \in Patterns :
            memset(dst, n, p, erase)
        \/ \E area \in {Array, User} : \E dst, end \in area :
            dst <= end /\ (memcpy(dst, end + 1 - dst, erase) \/ memcpy(dst, 0, erase))

Next ==
    \/ Functions \/ Copies
    \/ ClearPageBuffer \/ FillMemset \/ FillMemcpy \/ ErasePage \/ WriteMemset \/ WriteMemcpy

Spec == Init /\ [][Next]_vars
=============================================================================
