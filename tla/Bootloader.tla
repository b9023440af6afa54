----------------------------- MODULE Bootloader -----------------------------
(***************************************************************************)
(* The bootloader (bootloader.c): after a reset it looks for FOTA bank     *)
(* information, copies a ready image from the upgrade bank over the        *)
(* application, tries a serial download, and jumps to the application.     *)
(* A reset may fall between any two flash operations, and the power may    *)
(* fail in the middle of one; the flash keeps what was done.  The          *)
(* application is modelled by what it does to the flash: it fills the bank *)
(* and marks an image ready.                                               *)
(*                                                                         *)
(* Images are not compressed: neither the upgrade client nor the serial    *)
(* download ever sets FOTA_IMAGE_INFO_COMPRESSED.  Both write the same     *)
(* target address, which is legal.                                         *)
(***************************************************************************)
EXTENDS Integers, FiniteSets

CONSTANTS
    PageSize,    \* FLASH_PAGE_PROGRAMMING_SIZE
    Sector,      \* SIZE_OF_FLASH_SECTOR_ERASE
    Half,        \* the 32K block erase
    Full,        \* the 64K block erase
    Stride,      \* 1 << 8, of the loop after the page copy
    FlashSize,
    AppStart,    \* APP_START_ADDRESS
    BankStart,   \* FOTA_UPDATE_BUFFER_FW_ADDRESS_2MB
    BankSize,    \* SIZE_OF_FOTA_BANK_2MB
    Images,      \* the firmware images there are
    Length,      \* their sizes
    Factory,     \* the one the device is shipped with
    Signed,      \* those with a valid signature
    Erased,
    Torn,        \* a byte the power failed on: it reads as no image's
    NoImage,     \* no image
    NoHeader,    \* the FOTA bank information is erased
    MaxResets    \* bound: resets

ASSUME LayoutAssumption ==
    /\ {PageSize, Sector, Half, Full, Stride, BankSize, FlashSize} \subseteq Nat \ {0}
    /\ Sector % PageSize = 0 /\ Half % Sector = 0 /\ Full % Half = 0
    /\ {AppStart, BankStart} \subseteq Nat /\ AppStart % Sector = 0 /\ BankStart % Sector = 0
    /\ AppStart < BankStart /\ BankStart + BankSize <= FlashSize /\ BankSize % Sector = 0

ASSUME ImagesAssumption ==
    /\ Factory \in Signed /\ Signed \subseteq Images
    /\ \A v \in Images : Length[v] \in 1..BankSize /\ AppStart + Length[v] <= BankStart
    /\ {Erased, Torn} \cap (Images \X Nat) = {} /\ Erased # Torn /\ NoImage \notin Images

ASSUME ResetsAssumption == MaxResets \in Nat

(* No image is so small that the loop after the page copy, which is there   *)
(* for the last partial page, reaches an address inside the flash.          *)
ASSUME TailAssumption ==
    \A v \in Images : Length[v] % PageSize = 0 \/ AppStart + Length[v] * Stride >= FlashSize

VARIABLES
    flash,       \* the flash above the FOTA bank information
    hdr,         \* the FOTA bank information: what its checksum is of, and its result
    pc,          \* where the bootloader is; "app" while the application runs
    at,          \* the offset reached in the image
    check,       \* fota_check = CHECK_FOTA_IMAGE_EXIST
    updated,     \* ~try_xmodem
    marking,     \* the application is about to write the FOTA bank information
    secure,      \* secure_boot: it is enabled on this chip
    resets       \* resets so far

vars == <<flash, hdr, pc, at, check, updated, marking, secure, resets>>

Addr == AppStart..(FlashSize - 1)
AppSlot == AppStart..(BankStart - 1)
Bank == BankStart..(BankStart + BankSize - 1)
Byte(v, k) == <<v, k>>
Image(v) == [k \in 0..(Length[v] - 1) |-> Byte(v, k)]
Content(f, base, n) == [k \in 0..(n - 1) |-> f[base + k]]

(* The image at an address, if there is a complete one.                     *)
ImageAt(f, base) ==
    IF \E v \in Images : Content(f, base, Length[v]) = Image(v)
    THEN CHOOSE v \in Images : Content(f, base, Length[v]) = Image(v)
    ELSE NoImage

Headers == {[crc |-> Image(v), size |-> Length[v], result |-> r] :
                v \in Images, r \in {"none", "ok", "err"}}

TypeOK ==
    /\ flash \in [Addr -> {Byte(v, k) : v \in Images, k \in 0..(BankSize - 1)} \cup {Erased, Torn}]
    /\ hdr \in Headers \cup {NoHeader}
    /\ pc \in {"start", "erase", "copy", "tail", "result", "verify", "serial", "receive", "jump", "app", "hang"}
    /\ at \in 0..(BankSize + Full)
    /\ pc \in {"erase", "copy"} => hdr \in Headers /\ at < hdr.size
    /\ {check, updated, secure} \subseteq BOOLEAN
    /\ marking \in Images \cup {NoImage}
    /\ resets \in 0..MaxResets

Init ==
    /\ flash = [a \in Addr |-> IF a - AppStart < Length[Factory]
                               THEN Byte(Factory, a - AppStart) ELSE Erased]
    /\ hdr = NoHeader /\ pc = "start" /\ at = 0
    /\ check = FALSE /\ updated = FALSE /\ marking = NoImage /\ resets = 0
    /\ secure \in BOOLEAN

-----------------------------------------------------------------------------
(* Flash operations.                                                        *)

(* Programming over other data would clear bits of both: here it never      *)
(* happens but for the data already there.                                  *)
Program(old, new) == IF old = Erased THEN new ELSE old

EraseBlock(f, base, n) == [a \in Addr |-> IF a >= base /\ a < base + n THEN Erased ELSE f[a]]

CopyFlash(f, from, to, n) ==
    [a \in Addr |-> IF a >= to /\ a < to + n THEN Program(f[a], f[from + (a - to)]) ELSE f[a]]

\* Plausible bug: the remaining size not compared with the block.
EraseUnitGreedy(addr, left) ==
    IF addr % Full = 0 THEN Full ELSE IF addr % Half = 0 THEN Half ELSE Sector

(* set_flash_erase takes the largest block that is aligned and needed.      *)
EraseUnit(addr, left) ==
    IF left > Full /\ addr % Full = 0 THEN Full
    ELSE IF left > Half /\ addr % Half = 0 THEN Half
    ELSE Sector

(* A ready image that was not tried before ...                              *)
Untried(h) == IF h = NoHeader THEN FALSE ELSE h.result = "none"

\* Plausible bug: the checksum not looked at.
PendingUnchecked(h, f) == Untried(h)

(* ... and whose checksum is still that of the bank.                        *)
Pending(h, f) == Untried(h) /\ Content(f, BankStart, h.size) = h.crc

\* Plausible bug: no result written.
WithResultNever(h, r) == h

(* flash_write_byte of a result code: a result already there stays bad.     *)
WithResult(h, r) == [h EXCEPT !.result = IF @ = "none" THEN r ELSE @]

SignatureOk(f, base) == ImageAt(f, base) \in Signed

-----------------------------------------------------------------------------
\* Plausible bug: secure boot looks only at the application.
AnyBankAllowed == TRUE

(* The FOTA check: with secure boot, the image in the bank must be signed.  *)
BankAllowed == ~secure \/ (hdr # NoHeader /\ SignatureOk(flash, BankStart))

CheckFota ==
    /\ pc = "start" /\ at' = 0 /\ updated' = FALSE
    /\ \/ /\ BankAllowed /\ Pending(hdr, flash)
          /\ pc' = "erase" /\ check' = TRUE /\ UNCHANGED hdr
       \/ /\ BankAllowed /\ Untried(hdr) /\ ~Pending(hdr, flash)
          /\ pc' = "verify" /\ check' = TRUE /\ hdr' = WithResult(hdr, "err")
       \/ /\ BankAllowed /\ ~Untried(hdr)
          /\ pc' = "verify" /\ check' = FALSE /\ UNCHANGED hdr
       \/ /\ ~BankAllowed
          /\ pc' = "verify" /\ check' = FALSE
          /\ hdr' = IF hdr = NoHeader THEN hdr ELSE WithResult(hdr, "err")
    /\ UNCHANGED <<flash, marking, secure, resets>>

\* Plausible bug: one page too many.
CopiedLate(n) == n > hdr.size

Copied(n) == n >= hdr.size

(* load_image_into_flash: erase, copy page by page, and a loop that was to  *)
(* copy a last partial page byte by byte but uses an offset far outside.    *)
EraseSome ==
    /\ pc = "erase"
    /\ LET unit == EraseUnit(AppStart + at, hdr.size - at)
       IN  /\ flash' = EraseBlock(flash, AppStart + at, unit)
           /\ IF Copied(at + unit) THEN pc' = "copy" /\ at' = 0
                              ELSE pc' = "erase" /\ at' = at + unit
    /\ UNCHANGED <<hdr, check, updated, marking, secure, resets>>

CopyPage ==
    /\ pc = "copy"
    /\ flash' = CopyFlash(flash, BankStart + at, AppStart + at, PageSize)
    /\ at' = at + PageSize
    /\ pc' = IF Copied(at + PageSize) THEN "tail" ELSE "copy"
    /\ UNCHANGED <<hdr, check, updated, marking, secure, resets>>

CopyTail ==
    /\ pc = "tail" /\ pc' = "result"
    /\ LET n  == at - hdr.size
           to == AppStart + at * Stride
       IN  flash' = IF to + n <= FlashSize
                    THEN CopyFlash(flash, BankStart + at * Stride, to, n)
                    ELSE flash    \* the flash driver refuses the address
    /\ UNCHANGED <<hdr, at, check, updated, marking, secure, resets>>

WriteResult ==
    /\ pc = "result" /\ pc' = "verify"
    /\ hdr' = WithResult(hdr, "ok") /\ updated' = TRUE
    /\ UNCHANGED <<flash, at, check, marking, secure, resets>>

(* With secure boot the application must be signed, too.                    *)
VerifyApp ==
    /\ pc = "verify"
    /\ pc' = IF ~secure \/ SignatureOk(flash, AppStart)
             THEN IF updated THEN "jump" ELSE "serial"
             ELSE IF check THEN "start" ELSE "hang"
    /\ UNCHANGED <<flash, hdr, at, check, updated, marking, secure, resets>>

(* The serial download, when the start character comes in time: the bank is *)
(* erased and filled; if all went well it is marked ready and the bootloader*)
(* starts again.  Otherwise what was received stays, unmarked.  Files carry  *)
(* the padding that the receiver's header leaves out (see Xmodem).          *)
NoSerial ==
    /\ pc = "serial" /\ pc' = "jump"
    /\ UNCHANGED <<flash, hdr, at, check, updated, marking, secure, resets>>

SerialStart ==
    /\ pc = "serial" /\ pc' = "receive"
    /\ flash' = EraseBlock(flash, BankStart, BankSize)
    /\ UNCHANGED <<hdr, at, check, updated, marking, secure, resets>>

(* The first n bytes of v's file in an otherwise erased bank.               *)
BankWith(f, v, n) ==
    [a \in Addr |-> IF a \in Bank
                    THEN IF a - BankStart < n THEN Byte(v, a - BankStart) ELSE Erased
                    ELSE f[a]]

ReadyHeader(v) == [crc |-> Image(v), size |-> Length[v], result |-> "none"]

SerialEnd ==
    /\ pc = "receive"
    /\ \E v \in Images :
        \/ /\ \E n \in 0..Length[v] : flash' = BankWith(flash, v, n)
           /\ pc' = "jump" /\ UNCHANGED hdr
        \/ /\ flash' = BankWith(flash, v, Length[v])
           /\ pc' = "start" /\ hdr' = ReadyHeader(v)
    /\ UNCHANGED <<at, check, updated, marking, secure, resets>>

(* jump_to_application does not jump into erased flash.                     *)
Jump ==
    /\ pc = "jump"
    /\ pc' = IF flash[AppStart] = Erased THEN "hang" ELSE "app"
    /\ UNCHANGED <<flash, hdr, at, check, updated, marking, secure, resets>>

-----------------------------------------------------------------------------
(* The application.                                                         *)

(* A download, wherever it stands: the bank is erased and partly filled.    *)
FillBank ==
    /\ pc = "app" /\ marking = NoImage
    /\ \E v \in Images, n \in 0..BankSize :
        n <= Length[v] /\ flash' = BankWith(flash, v, n)
    /\ UNCHANGED <<hdr, pc, at, check, updated, marking, secure, resets>>

(* tr_osif_ota_mark_fw_ready: the old bank information is erased first.     *)
EraseHeader ==
    /\ pc = "app" /\ marking = NoImage
    /\ marking' = ImageAt(flash, BankStart) /\ marking' # NoImage
    /\ hdr' = NoHeader
    /\ UNCHANGED <<flash, pc, at, check, updated, secure, resets>>

WriteHeader ==
    /\ pc = "app" /\ marking # NoImage
    /\ hdr' = ReadyHeader(marking) /\ marking' = NoImage
    /\ UNCHANGED <<flash, pc, at, check, updated, secure, resets>>

(* A reset, by the application or out of the blue.                          *)
Reset ==
    /\ resets < MaxResets /\ resets' = resets + 1
    /\ pc' = "start" /\ marking' = NoImage
    /\ UNCHANGED <<flash, hdr, at, check, updated, secure>>

TornBlock(f, base, n) == [a \in Addr |-> IF a >= base /\ a < base + n THEN Torn ELSE f[a]]

(* The power fails while the flash is busy.  The page or the block it was   *)
(* busy with is half done; the byte of a result, done or not.  (That the    *)
(* bank information itself is erased or programmed by half is left out: its *)
(* fields may hold anything then, the length of the image included.)        *)
PowerFails ==
    /\ resets < MaxResets /\ resets' = resets + 1
    /\ \/ /\ pc = "erase" /\ UNCHANGED hdr
          /\ flash' = TornBlock(flash, AppStart + at, EraseUnit(AppStart + at, hdr.size - at))
       \/ /\ pc = "copy" /\ UNCHANGED hdr
          /\ flash' = TornBlock(flash, AppStart + at, PageSize)
       \/ /\ pc = "result" /\ UNCHANGED flash
          /\ hdr' = WithResult(hdr, "err")
       \/ /\ pc = "receive" \/ (pc = "app" /\ marking = NoImage)
          /\ \E n \in 0..BankSize - 1 :
                n % PageSize = 0 /\ flash' = TornBlock(flash, BankStart + n, PageSize)
          /\ UNCHANGED hdr
    /\ pc' = "start" /\ marking' = NoImage
    /\ UNCHANGED <<at, check, updated, secure>>

Boot ==
    \/ CheckFota \/ EraseSome \/ CopyPage \/ CopyTail \/ WriteResult \/ VerifyApp
    \/ NoSerial \/ SerialStart \/ SerialEnd \/ Jump

Next == Boot \/ FillBank \/ EraseHeader \/ WriteHeader \/ Reset \/ PowerFails

Spec == Init /\ [][Next]_vars

(* The bootloader is a loop nothing but a reset interrupts; no host starts  *)
(* a serial download at every boot for ever.                                *)
FairSpec == Spec /\ WF_vars(Boot) /\ SF_vars(NoSerial)

-----------------------------------------------------------------------------
(* What the application expects: see Installer.  An image is installed from *)
(* the moment its copy begins, for from then on no other can run any more.  *)
Offered == Pending(hdr, flash) /\ BankAllowed
Slot == ImageAt(flash, AppStart)

InBank == ImageAt(flash, BankStart)

InstalledNow == IF Slot = NoImage /\ Offered THEN InBank ELSE Slot
OfferNow == IF Offered /\ Slot \notin {NoImage, InBank} THEN InBank ELSE NoImage
RunningNow == IF pc = "app" THEN Slot ELSE NoImage

Install == INSTANCE Installer WITH
    installed <- InstalledNow, offer <- OfferNow, running <- RunningNow

(* An update happens as a whole or not at all, whenever it is interrupted.  *)
InstallsAtomically == Install!Spec

(* The device never ends up without an application it is willing to run.    *)
NeverHangs == pc # "hang"

(* Installing an image changes nothing but the application's slot.          *)
InstallKeepsTheRest ==
    [][\A a \in Addr \ AppSlot :
          pc \in {"erase", "copy", "tail"} => flash'[a] = flash[a]]_vars

(* An image that is ready when the bootloader starts gets installed ...     *)
UpdateCompletes ==
    \A v \in Images :
        (pc = "start" /\ Offered /\ ImageAt(flash, BankStart) = v)
            ~> (Slot = v /\ ~Untried(hdr))

(* ... and the bootloader always ends with an application running.          *)
AlwaysComesUp == pc # "app" ~> pc = "app"

=============================================================================
