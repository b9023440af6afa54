----------------------------- MODULE OtaStorage -----------------------------
(***************************************************************************)
(* What the users of tr_osif_ota.c must respect, and what they get: the    *)
(* operations of OtaFlash called in their legal order, with a reset at any *)
(* moment.  A download begins with an erase or, after a reset, continues   *)
(* at a write address below which everything was already programmed.       *)
(***************************************************************************)
EXTENDS OtaFlash

CONSTANTS
    MaxBlock,   \* the longest block of file data in one write
    NoVersion   \* no file is being received

ASSUME BlockAssumption == MaxBlock \in 1..PageSize

VARIABLES
    phase,      \* "idle", "receiving" or "finished"
    ver,        \* the version being received
    size,       \* its file size
    offset      \* file offset of the next byte expected

vars == <<buf, inPtr, outPtr, flashAddr, bank, phase, ver, size, offset>>

TypeOK ==
    /\ FlashTypeOK
    /\ phase \in {"idle", "receiving", "finished"}
    /\ phase # "idle" => ver \in Versions /\ size \in 1..BankSize /\ offset \in 0..size

Forget == phase' = "idle" /\ ver' = NoVersion /\ size' = 0 /\ offset' = 0

Init ==
    /\ RamInit
    /\ bank = [a \in Bank |-> Erased]
    /\ phase = "idle" /\ ver = NoVersion /\ size = 0 /\ offset = 0

Start(v, s) ==
    /\ EraseFw
    /\ phase' = "receiving" /\ ver' = v /\ size' = s /\ offset' = 0

(* Only with an empty buffer, at a page boundary, and above flashed data.   *)
Resume(v, s, o) ==
    /\ phase = "idle" /\ inPtr = 0 /\ outPtr = 0
    /\ o < s /\ RoundDown(o) = o /\ Holds(bank, v, o)
    /\ \A a \in Bank : a >= o /\ a < s => bank[a] \in {Erased, FileByte(v, a)}
    /\ SetWriteAddr(o)
    /\ phase' = "receiving" /\ ver' = v /\ size' = s /\ offset' = o

Receive(n) ==
    /\ phase = "receiving" /\ offset + n < size
    /\ FlashBecomes(Written(ver, offset, n))
    /\ offset' = offset + n
    /\ UNCHANGED <<phase, ver, size>>

(* The file's last block: what is left in the buffer is flashed with it.    *)
ReceiveLast(n) ==
    /\ phase = "receiving" /\ offset + n = size
    /\ FlashBecomes(LastWritten(Written(ver, offset, n)))
    /\ offset' = size /\ phase' = "finished"
    /\ UNCHANGED <<ver, size>>

(* The download is given up, or its file forgotten.                         *)
Abandon == phase # "idle" /\ Forget /\ UNCHANGED flashVars

Reset == RamReset /\ Forget /\ UNCHANGED bank

Next ==
    \/ \E v \in Versions, s \in 1..BankSize : Start(v, s)
    \/ \E v \in Versions, s \in 1..BankSize, o \in 0..BankSize : Resume(v, s, o)
    \/ \E n \in 1..MaxBlock : Receive(n) \/ ReceiveLast(n)
    \/ Abandon
    \/ Reset

Spec == Init /\ [][Next]_vars

-----------------------------------------------------------------------------
(* The two halves of the buffer are used in turn: what is not yet flashed   *)
(* starts at a half's first byte, never fills it, and never wraps, so a     *)
(* block never overwrites a byte that still has to be programmed.           *)
BufferNeverOverruns ==
    phase = "receiving" =>
        /\ outPtr \in {0, PageSize}
        /\ outPtr <= inPtr /\ inPtr < outPtr + PageSize

(* Flash and buffer together hold the file up to the offset asked for next: *)
(* no byte is lost, repeated or shifted between the two.                    *)
NoByteLost ==
    phase = "receiving" =>
        /\ flashAddr + (inPtr - outPtr) = offset
        /\ Holds(bank, ver, flashAddr)
        /\ \A k \in BufIndex : k >= outPtr /\ k < inPtr =>
              buf[k] = FileByte(ver, flashAddr + (k - outPtr))

(* An offset persisted at any moment of a download and rounded down to a    *)
(* page is a legal place to resume: everything below it is in flash.        *)
RoundedOffsetIsFlashed ==
    phase = "receiving" => Holds(bank, ver, RoundDown(offset))

(* After zb_osif_ota_write_last_data the bank holds the complete file.      *)
FinishedIsComplete == phase = "finished" => Holds(bank, ver, size)

(* No operation but a new download's erase ever damages a byte of the file  *)
(* that is in its place in flash: a resume may reprogram, never corrupt.    *)
FlashedBytesAreKept ==
    [][\A a \in Bank :
          phase # "idle" /\ bank[a] = FileByte(ver, a) /\ a < size
             => bank'[a] = bank[a] \/ (bank'[a] = Erased /\ offset' = 0)]_vars

-----------------------------------------------------------------------------
(* The inductive invariant of the proofs: the safety invariants, and what   *)
(* they rest on - the write address stays on page boundaries, and flash     *)
(* above it holds nothing that programming this file would spoil.           *)
WriteAddrOnPage ==
    phase = "receiving" =>
        /\ flashAddr \in Nat /\ flashAddr % PageSize = 0
        /\ \A a \in Bank : a >= flashAddr /\ a < size => bank[a] \in {Erased, FileByte(ver, a)}

IInv ==
    /\ TypeOK
    /\ BufferNeverOverruns
    /\ NoByteLost
    /\ WriteAddrOnPage
    /\ FinishedIsComplete

=============================================================================
