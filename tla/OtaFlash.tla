------------------------------ MODULE OtaFlash ------------------------------
(***************************************************************************)
(* The flash side of an over-the-air download (tr_osif_ota.c).             *)
(*                                                                         *)
(* Image blocks arrive in small pieces and are collected in a RAM buffer   *)
(* of two flash write units.  Each time one unit (PageSize bytes) is       *)
(* contiguous, it is programmed at the write address, which moves on.      *)
(*                                                                         *)
(* This module has the state and the operations only; OtaStorage calls     *)
(* them in their legal order, OtaClient from the protocol's handlers.      *)
(* Addresses are relative to FOTA_UPDATE_BUFFER_FW_ADDRESS_2MB.  The byte  *)
(* at offset o of version v's file is FileByte(v, o).                      *)
(***************************************************************************)
EXTENDS Integers

CONSTANTS
    PageSize,   \* OTA_FLASH_WRITE_SIZE
    ProgSize,   \* FLASH_PROGRAM_SIZE_PAGE
    BankSize,   \* SIZE_OF_FOTA_BANK_2MB
    Versions,   \* file versions a server may offer
    Erased,     \* content of a cell after an erase
    Junk        \* any content that is not a byte of a file at its own place

ASSUME SizesAssumption ==
    /\ PageSize \in Nat \ {0} /\ ProgSize \in Nat \ {0} /\ BankSize \in Nat \ {0}
    /\ PageSize % ProgSize = 0 /\ BankSize % PageSize = 0

ASSUME CellsAssumption ==
    /\ Erased # Junk
    /\ Erased \notin Versions \X (0..BankSize)
    /\ Junk \notin Versions \X (0..BankSize)

VARIABLES
    buf,        \* g_ota_flash_write_buf
    inPtr,      \* g_ota_flash_buf_in_ptr
    outPtr,     \* g_ota_flash_buf_out_ptr
    flashAddr,  \* g_flash_addr - FOTA_UPDATE_BUFFER_FW_ADDRESS_2MB
    bank        \* the upgrade bank in flash; survives a reset

flashVars == <<buf, inPtr, outPtr, flashAddr, bank>>

BufSize == 2 * PageSize
BufIndex == 0..(BufSize - 1)
Bank == 0..(BankSize - 1)
FileByte(v, o) == <<v, o>>
Cell == (Versions \X (0..BankSize)) \cup {Erased, Junk}

FlashTypeOK ==
    /\ buf \in [BufIndex -> Cell]
    /\ inPtr \in BufIndex /\ outPtr \in BufIndex
    /\ flashAddr \in Int
    /\ bank \in [Bank -> Cell]

(* b holds the bytes [0, n) of v's file, each at its own place.             *)
Holds(b, v, n) == \A a \in Bank : a < n => b[a] = FileByte(v, a)

RoundDown(o) == o - (o % PageSize)

-----------------------------------------------------------------------------
(* Programming NOR flash only clears bits: a cell that already holds other  *)
(* data ends up as the AND of both, which is data of no file.               *)
Program(old, new) == IF old = Erased \/ old = new THEN new ELSE Junk

(* flash_write_page over n bytes: buffer b from index src to address addr.  *)
Programmed(bk, b, src, addr, n) ==
    [a \in Bank |-> IF a >= addr /\ a < addr + n
                    THEN Program(bk[a], b[src + (a - addr)])
                    ELSE bk[a]]

\* Plausible bug: the mask with the buffer size forgotten.
AdvanceUnmasked(p, n) == IF p + n > BufSize THEN p + n - BufSize ELSE p + n

Advance(p, n) == IF p + n >= BufSize THEN p + n - BufSize ELSE p + n

(* How much writable (contiguous) data is in the buffer.                    *)
Contiguous(out, in) == IF out <= in THEN in - out ELSE BufSize - out

(* n bytes of v's file from offset o, copied into the buffer at inPtr; what *)
(* does not fit up to the buffer's end goes to its start.                   *)
Filled(v, o, n) ==
    [k \in BufIndex |->
        IF k >= inPtr /\ k < inPtr + n THEN FileByte(v, o + (k - inPtr))
        ELSE IF k + BufSize < inPtr + n THEN FileByte(v, o + (k + BufSize - inPtr))
        ELSE buf[k]]

\* Plausible bug: a page flashed only when more than a page is there.
WrittenLate(v, o, n) ==
    LET b  == Filled(v, o, n)
        in == Advance(inPtr, n)
        w  == IF Contiguous(outPtr, in) > PageSize THEN PageSize ELSE 0
    IN  [buf |-> b, in |-> in, out |-> Advance(outPtr, w), addr |-> flashAddr + w,
         bank |-> Programmed(bank, b, outPtr, flashAddr, w)]

(* zb_osif_ota_write: the flash state after n more bytes; w of them flashed. *)
Written(v, o, n) ==
    LET b  == Filled(v, o, n)
        in == Advance(inPtr, n)
        w  == IF Contiguous(outPtr, in) >= PageSize THEN PageSize ELSE 0
    IN  [buf |-> b, in |-> in, out |-> Advance(outPtr, w), addr |-> flashAddr + w,
         bank |-> Programmed(bank, b, outPtr, flashAddr, w)]

\* Plausible bug: the last, partly filled program unit dropped.
RoundDownProg(n) == (n \div ProgSize) * ProgSize

RoundUpProg(n) == ((n + ProgSize - 1) \div ProgSize) * ProgSize

(* zb_osif_ota_write_last_data in flash state f: whole program units are    *)
(* written, so what follows the file's end may be old buffer content.       *)
LastWritten(f) ==
    LET n == RoundUpProg(Contiguous(f.out, f.in))
    IN  [f EXCEPT !.addr = f.addr + n,
                  !.bank = Programmed(f.bank, f.buf, f.out, f.addr, n)]

-----------------------------------------------------------------------------
FlashBecomes(f) ==
    /\ buf' = f.buf /\ inPtr' = f.in /\ outPtr' = f.out
    /\ flashAddr' = f.addr /\ bank' = f.bank

RamInit ==
    /\ buf = [k \in BufIndex |-> Junk]
    /\ inPtr = 0 /\ outPtr = 0 /\ flashAddr = 0

(* State after a reset: the initialisers.                                   *)
RamReset ==
    /\ buf' = [k \in BufIndex |-> Junk]
    /\ inPtr' = 0 /\ outPtr' = 0 /\ flashAddr' = 0

\* Plausible bug: the buffer pointers not reset with the bank.
EraseFwKeepsPtrs ==
    /\ flashAddr' = 0 /\ bank' = [a \in Bank |-> Erased]
    /\ UNCHANGED <<buf, inPtr, outPtr>>

EraseFw ==
    /\ flashAddr' = 0 /\ inPtr' = 0 /\ outPtr' = 0
    /\ bank' = [a \in Bank |-> Erased]
    /\ UNCHANGED buf

\* Plausible bug: a resumed download written from the start of the bank.
SetWriteAddrLost(o) == flashAddr' = 0 /\ UNCHANGED <<buf, inPtr, outPtr, bank>>

SetWriteAddr(o) == flashAddr' = o /\ UNCHANGED <<buf, inPtr, outPtr, bank>>

=============================================================================
