-------------------------- MODULE BootloaderProofs --------------------------
(***************************************************************************)
(* Proofs about Bootloader: for every layout of the flash that satisfies   *)
(* LayoutAssumption and every set of images, an installation, however      *)
(* often it is interrupted, writes nothing but the application's slot, is  *)
(* atomic, and never leaves the device without an application.             *)
(***************************************************************************)
EXTENDS Bootloader, TLAPS

(* The complete image v is at an address.                                   *)
Has(f, base, v) == \A k \in 0..(Length[v] - 1) : f[base + k] = Byte(v, k)

(* The header is that of image v.                                           *)
HeaderOf(h, v) == h # NoHeader /\ h.crc = Image(v) /\ h.size = Length[v]

(* The application in the slot is complete and one the bootloader starts.   *)
Good == Slot # NoImage /\ (secure => Slot \in Signed)

(* While the slot is empty or half full, the bank is what makes up for it.  *)
Progress ==
    /\ pc = "start" => Good \/ Offered
    /\ pc \in {"erase", "copy", "tail", "result"} => Offered
    /\ pc = "erase" =>
          /\ at % Sector = 0
          /\ \A k \in Nat : k < at => flash[AppStart + k] = Erased
    /\ pc = "copy" =>
          /\ at % PageSize = 0
          /\ \A k \in 0..(hdr.size - 1) :
                flash[AppStart + k] = IF k < at THEN flash[BankStart + k] ELSE Erased
    /\ pc \in {"tail", "result"} => Slot = InBank /\ Good
    /\ pc = "tail" => at >= hdr.size /\ at % PageSize = 0 /\ at < hdr.size + PageSize
    /\ pc \in {"verify", "serial", "receive", "jump", "app"} => Good
    /\ pc \in {"verify", "serial", "receive", "jump"} => ~Untried(hdr)
    /\ pc # "hang"

(* The application marks what is in the bank.                               *)
Marked ==
    marking # NoImage =>
        pc = "app" /\ hdr = NoHeader /\ Has(flash, BankStart, marking)

BootInv == TypeOK /\ Progress /\ Marked

-----------------------------------------------------------------------------
(* Arithmetic: multiples of a positive number.                              *)
LEMMA DivMod ==
    ASSUME NEW p \in Nat \ {0}, NEW x \in Int
    PROVE  /\ x = p * (x \div p) + (x % p)
           /\ x % p \in 0..(p - 1) /\ x \div p \in Int
  BY SMTT(20)

LEMMA MulGap ==
    ASSUME NEW p \in Nat \ {0}, NEW a \in Int, NEW b \in Int, a < b
    PROVE  p * b >= p * a + p
<1>1. p * (b - a) >= p
  <2>1. b - a >= 1
    OBVIOUS
  <2> QED
    BY <2>1, SMTT(20)
<1>2. p * (b - a) = p * b - p * a
  BY SMTT(20)
<1> QED
  BY <1>1, <1>2, SMTT(20)

LEMMA MultipleMod ==
    ASSUME NEW p \in Nat \ {0}, NEW q \in Int
    PROVE  (p * q) % p = 0
<1> DEFINE x == p * q
           d == x \div p
           r == x % p
<1>1. x \in Int
  BY SMTT(20)
<1>2. x = p * d + r /\ r \in 0..(p - 1) /\ d \in Int
  BY <1>1, DivMod
<1>3. p * d \in Int
  BY <1>2, SMTT(20)
<1> HIDE DEF d, r
<1>4. CASE q < d
  <2>1. p * d >= p * q + p
    BY <1>2, <1>4, MulGap
  <2> QED
    BY <2>1, <1>1, <1>2, <1>3 DEF x
<1>5. CASE d < q
  <2>1. p * q >= p * d + p
    BY <1>2, <1>5, MulGap
  <2> HIDE DEF x
  <2>2. x >= p * d + p
    BY <2>1 DEF x
  <2> QED
    BY <2>2, <1>1, <1>2, <1>3
<1>6. CASE q = d
  <2>1. x = p * d
    BY <1>6
  <2> QED
    BY <2>1, <1>1, <1>2, <1>3 DEF r
<1> QED
  BY <1>2, <1>4, <1>5, <1>6

(* Two different multiples are apart.                                       *)
LEMMA NextMultiple ==
    ASSUME NEW p \in Nat \ {0}, NEW a \in Int, NEW b \in Int,
           a % p = 0, b % p = 0, a < b
    PROVE  a + p <= b
<1> DEFINE c == a \div p
           d == b \div p
<1>1. a = p * c /\ c \in Int /\ b = p * d /\ d \in Int
  BY DivMod
<1> HIDE DEF c, d
<1>2. CASE c < d
  BY <1>1, <1>2, MulGap
<1>3. CASE d < c
  BY <1>1, <1>3, MulGap
<1>4. CASE c = d
  BY <1>1, <1>4
<1> QED
  BY <1>1, <1>2, <1>3, <1>4

LEMMA SumMultiple ==
    ASSUME NEW p \in Nat \ {0}, NEW a \in Int, NEW b \in Int, a % p = 0, b % p = 0
    PROVE  (a + b) % p = 0
<1> DEFINE c == a \div p
           d == b \div p
<1>1. a = p * c /\ c \in Int /\ b = p * d /\ d \in Int
  BY DivMod
<1> HIDE DEF c, d
<1>2. a + b = p * (c + d)
  BY <1>1, SMTT(20)
<1>3. c + d \in Int
  BY <1>1
<1> QED
  BY <1>2, <1>3, MultipleMod

LEMMA MultipleTrans ==
    ASSUME NEW m \in Nat \ {0}, NEW n \in Nat \ {0}, NEW a \in Int,
           n % m = 0, a % n = 0
    PROVE  a % m = 0
<1> DEFINE c == a \div n
           d == n \div m
<1>1. a = n * c /\ c \in Int /\ n = m * d /\ d \in Int
  BY DivMod
<1> HIDE DEF c, d
<1>2. a = m * (d * c) /\ d * c \in Int
  BY <1>1, SMTT(20)
<1> QED
  BY <1>2, MultipleMod

-----------------------------------------------------------------------------
LEMMA LayoutFacts ==
    /\ PageSize \in Nat \ {0} /\ Sector \in Nat \ {0} /\ Half \in Nat \ {0} /\ Full \in Nat \ {0}
    /\ Stride \in Nat \ {0} /\ BankSize \in Nat \ {0} /\ FlashSize \in Nat \ {0}
    /\ AppStart \in Nat /\ BankStart \in Nat /\ AppStart < BankStart
    /\ BankStart + BankSize <= FlashSize
    /\ Sector % PageSize = 0 /\ Half % Sector = 0 /\ Full % Half = 0 /\ Full % Sector = 0
    /\ AppStart % Sector = 0 /\ BankStart % Sector = 0 /\ BankSize % Sector = 0
    /\ AppStart % PageSize = 0 /\ BankStart % PageSize = 0 /\ BankSize % PageSize = 0
<1>1. /\ PageSize \in Nat \ {0} /\ Sector \in Nat \ {0} /\ Half \in Nat \ {0} /\ Full \in Nat \ {0}
      /\ Stride \in Nat \ {0} /\ BankSize \in Nat \ {0} /\ FlashSize \in Nat \ {0}
      /\ AppStart \in Nat /\ AppStart < BankStart /\ BankStart + BankSize <= FlashSize
      /\ Sector % PageSize = 0 /\ Half % Sector = 0 /\ Full % Half = 0
      /\ AppStart % Sector = 0 /\ BankStart % Sector = 0 /\ BankSize % Sector = 0
  BY LayoutAssumption
<1>2. BankStart \in Nat
  BY LayoutAssumption
<1>3. Full \in Int /\ AppStart \in Int /\ BankStart \in Int /\ BankSize \in Int
  BY <1>1, <1>2
<1>4. Full % Sector = 0
  BY <1>1, <1>3, MultipleTrans, Zenon
<1>5. AppStart % PageSize = 0 /\ BankStart % PageSize = 0 /\ BankSize % PageSize = 0
  BY <1>1, <1>3, MultipleTrans, Zenon
<1> QED
  BY <1>1, <1>2, <1>4, <1>5

LEMMA ImageFacts ==
    ASSUME NEW v \in Images
    PROVE  /\ Length[v] \in Nat \ {0} /\ Length[v] <= BankSize
           /\ AppStart + Length[v] <= BankStart
           /\ v # NoImage
  BY ImagesAssumption, LayoutFacts

LEMMA ByteFacts ==
    ASSUME NEW v \in Images, NEW k \in Nat
    PROVE  /\ Byte(v, k) # Erased /\ Byte(v, k) # Torn
           /\ \A w, l : Byte(v, k) = Byte(w, l) => w = v /\ l = k
<1>1. Byte(v, k) \in Images \X Nat
  BY DEF Byte
<1>2. Byte(v, k) # Erased /\ Byte(v, k) # Torn
  BY <1>1, ImagesAssumption
<1> QED
  BY <1>2 DEF Byte

-----------------------------------------------------------------------------
(* What is at an address.                                                   *)
LEMMA ContentIsImage ==
    ASSUME NEW f, NEW base, NEW v \in Images
    PROVE  Content(f, base, Length[v]) = Image(v) <=> Has(f, base, v)
  BY DEF Content, Image, Has

LEMMA FirstByte ==
    ASSUME NEW f, NEW base \in Int, NEW v \in Images, Has(f, base, v)
    PROVE  f[base] = Byte(v, 0)
<1>1. 0 \in 0..(Length[v] - 1) /\ base + 0 = base
  BY ImageFacts
<1>2. f[base + 0] = Byte(v, 0)
  BY <1>1 DEF Has
<1> QED
  BY <1>1, <1>2

LEMMA ImageAtIsThere ==
    ASSUME NEW f, NEW base
    PROVE  \/ ImageAt(f, base) = NoImage
           \/ ImageAt(f, base) \in Images /\ Has(f, base, ImageAt(f, base))
<1> DEFINE P(v) == Content(f, base, Length[v]) = Image(v)
<1>1. CASE \E v \in Images : P(v)
  <2>1. ImageAt(f, base) = CHOOSE v \in Images : P(v)
    BY <1>1 DEF ImageAt
  <2>2. (CHOOSE v \in Images : P(v)) \in Images /\ P(CHOOSE v \in Images : P(v))
    BY <1>1
  <2>3. ImageAt(f, base) \in Images /\ P(ImageAt(f, base))
    BY <2>1, <2>2
  <2> QED
    BY <2>3, ContentIsImage
<1>2. CASE ~\E v \in Images : P(v)
  BY <1>2 DEF ImageAt
<1> QED
  BY <1>1, <1>2

LEMMA ImageAtIs ==
    ASSUME NEW f, NEW base \in Int, NEW v \in Images, Has(f, base, v)
    PROVE  ImageAt(f, base) = v
<1>1. Content(f, base, Length[v]) = Image(v)
  BY ContentIsImage
<1>2. ImageAt(f, base) = CHOOSE w \in Images : Content(f, base, Length[w]) = Image(w)
  BY <1>1 DEF ImageAt
<1>3. ImageAt(f, base) \in Images /\ Has(f, base, ImageAt(f, base))
  BY <1>1, <1>2, ContentIsImage
<1>4. f[base] = Byte(ImageAt(f, base), 0) /\ f[base] = Byte(v, 0)
  BY <1>3, FirstByte
<1> QED
  BY <1>3, <1>4 DEF Byte

(* Only the image whose first byte is there can be there.                   *)
LEMMA ImageAtStartsWith ==
    ASSUME NEW f, NEW base \in Int
    PROVE  /\ f[base] \in {Erased, Torn} => ImageAt(f, base) = NoImage
           /\ \A v \in Images : f[base] = Byte(v, 0) => ImageAt(f, base) \in {NoImage, v}
<1>1. ImageAt(f, base) # NoImage =>
         ImageAt(f, base) \in Images /\ f[base] = Byte(ImageAt(f, base), 0)
  BY ImageAtIsThere, FirstByte
<1> QED
  BY <1>1, ByteFacts

(* Where two flashs agree they hold the same image.                         *)
LEMMA SameImageAt ==
    ASSUME NEW f, NEW g, NEW base,
           \A v \in Images : Has(f, base, v) <=> Has(g, base, v)
    PROVE  ImageAt(f, base) = ImageAt(g, base)
<1>1. \A v \in Images : Content(f, base, Length[v]) = Image(v)
                    <=> Content(g, base, Length[v]) = Image(v)
  BY ContentIsImage
<1>2. CASE \E v \in Images : Content(f, base, Length[v]) = Image(v)
  <2>1. /\ ImageAt(f, base) = CHOOSE v \in Images : Content(f, base, Length[v]) = Image(v)
        /\ ImageAt(g, base) = CHOOSE v \in Images : Content(g, base, Length[v]) = Image(v)
    BY <1>1, <1>2 DEF ImageAt
  <2> QED
    BY <1>1, <2>1
<1>3. CASE ~\E v \in Images : Content(f, base, Length[v]) = Image(v)
  BY <1>1, <1>3 DEF ImageAt
<1> QED
  BY <1>2, <1>3

LEMMA SlotKept ==
    ASSUME NEW f, NEW g, \A a \in AppSlot : f[a] = g[a]
    PROVE  ImageAt(f, AppStart) = ImageAt(g, AppStart)
<1>1. \A v \in Images : \A k \in 0..(Length[v] - 1) : AppStart + k \in AppSlot
  BY ImageFacts, LayoutFacts DEF AppSlot
<1>2. \A v \in Images : Has(f, AppStart, v) <=> Has(g, AppStart, v)
  BY <1>1 DEF Has
<1> QED
  BY <1>2, SameImageAt

LEMMA BankKept ==
    ASSUME NEW f, NEW g, \A a \in Bank : f[a] = g[a]
    PROVE  /\ ImageAt(f, BankStart) = ImageAt(g, BankStart)
           /\ \A v \in Images : Has(f, BankStart, v) <=> Has(g, BankStart, v)
<1>1. \A v \in Images : \A k \in 0..(Length[v] - 1) : BankStart + k \in Bank
  BY ImageFacts, LayoutFacts DEF Bank
<1>2. \A v \in Images : Has(f, BankStart, v) <=> Has(g, BankStart, v)
  BY <1>1 DEF Has
<1> QED
  BY <1>2, SameImageAt

-----------------------------------------------------------------------------
(* The FOTA bank information.                                               *)
LEMMA HeaderFacts ==
    ASSUME NEW h \in Headers
    PROVE  \E v \in Images : h.crc = Image(v) /\ h.size = Length[v]
                             /\ h.result \in {"none", "ok", "err"}
  BY DEF Headers

LEMMA WithResultFacts ==
    ASSUME NEW h \in Headers, NEW r \in {"ok", "err"}
    PROVE  /\ WithResult(h, r) \in Headers /\ ~Untried(WithResult(h, r))
<1>1. PICK v \in Images, s \in {"none", "ok", "err"} :
          h = [crc |-> Image(v), size |-> Length[v], result |-> s]
  BY DEF Headers
<1> DEFINE t == IF s = "none" THEN r ELSE s
<1>2. WithResult(h, r) = [crc |-> Image(v), size |-> Length[v], result |-> t]
  BY <1>1 DEF WithResult
<1>3. t \in {"ok", "err"}
  OBVIOUS
<1> HIDE DEF t
<1>4. WithResult(h, r) \in Headers
  BY <1>2, <1>3 DEF Headers
<1>5. WithResult(h, r).result = t
  BY <1>2
<1>6. ~Untried(WithResult(h, r))
  BY <1>3, <1>5 DEF Untried
<1> QED
  BY <1>4, <1>6

LEMMA ReadyHeaderFacts ==
    ASSUME NEW v \in Images
    PROVE  ReadyHeader(v) \in Headers
  BY DEF ReadyHeader, Headers

(* Which image a header is pending for.                                     *)
LEMMA PendingFacts ==
    ASSUME NEW h \in Headers \cup {NoHeader}, NEW f, Pending(h, f)
    PROVE  /\ h \in Headers /\ Untried(h)
           /\ \E v \in Images : /\ h.crc = Image(v) /\ h.size = Length[v]
                                /\ Has(f, BankStart, v) /\ ImageAt(f, BankStart) = v
<1>1. Untried(h) /\ Content(f, BankStart, h.size) = h.crc
  BY DEF Pending
<1>2. h # NoHeader
  BY <1>1 DEF Untried
<1>3. h \in Headers
  BY <1>2
<1>4. PICK v \in Images : h.crc = Image(v) /\ h.size = Length[v]
  BY <1>3, HeaderFacts
<1>5. Has(f, BankStart, v)
  BY <1>1, <1>4, ContentIsImage
<1>6. ImageAt(f, BankStart) = v
  BY <1>5, ImageAtIs, LayoutFacts
<1> QED
  BY <1>1, <1>3, <1>4, <1>5, <1>6

LEMMA PendingKept ==
    ASSUME NEW h \in Headers \cup {NoHeader}, NEW f, NEW g, Pending(h, f),
           \A v \in Images : Has(f, BankStart, v) => Has(g, BankStart, v)
    PROVE  Pending(h, g)
<1>1. PICK v \in Images : h.crc = Image(v) /\ h.size = Length[v] /\ Has(f, BankStart, v)
  BY PendingFacts
<1>2. Content(g, BankStart, Length[v]) = Image(v)
  BY <1>1, ContentIsImage
<1> QED
  BY <1>1, <1>2 DEF Pending

-----------------------------------------------------------------------------
LEMMA OfferedFacts ==
    ASSUME TypeOK, Offered
    PROVE  /\ InBank \in Images /\ Has(flash, BankStart, InBank)
           /\ hdr \in Headers /\ Untried(hdr) /\ HeaderOf(hdr, InBank)
           /\ secure => InBank \in Signed
<1>1. hdr \in Headers \cup {NoHeader} /\ Pending(hdr, flash)
  BY DEF TypeOK, Offered
<1>2. /\ hdr \in Headers /\ Untried(hdr)
      /\ \E v \in Images : /\ hdr.crc = Image(v) /\ hdr.size = Length[v]
                           /\ Has(flash, BankStart, v) /\ ImageAt(flash, BankStart) = v
  BY <1>1, PendingFacts
<1>3. hdr # NoHeader
  BY <1>2 DEF Untried
<1>4. secure => InBank \in Signed
  BY DEF Offered, BankAllowed, SignatureOk, InBank
<1> QED
  BY <1>2, <1>3, <1>4 DEF InBank, HeaderOf

(* A step that leaves the bank and its information alone leaves the offer.  *)
LEMMA OfferedKept ==
    ASSUME TypeOK, Offered, hdr' = hdr, secure' = secure,
           \A a \in Bank : flash'[a] = flash[a]
    PROVE  Offered' /\ InBank' = InBank
<1>1. /\ ImageAt(flash', BankStart) = ImageAt(flash, BankStart)
      /\ \A v \in Images : Has(flash', BankStart, v) <=> Has(flash, BankStart, v)
  BY BankKept
<1>2. Pending(hdr, flash')
  BY <1>1, PendingKept DEF TypeOK, Offered
<1> QED
  BY <1>1, <1>2 DEF Offered, BankAllowed, SignatureOk, InBank

(* A step that leaves the slot alone leaves the application.                *)
LEMMA GoodKept ==
    ASSUME Good, secure' = secure, \A a \in AppSlot : flash'[a] = flash[a]
    PROVE  Good' /\ Slot' = Slot
<1>1. ImageAt(flash', AppStart) = ImageAt(flash, AppStart)
  BY SlotKept
<1> QED
  BY <1>1 DEF Good, Slot

LEMMA GoodFacts ==
    ASSUME Good
    PROVE  Slot \in Images /\ Has(flash, AppStart, Slot) /\ flash[AppStart] # Erased
<1>1. Slot \in Images /\ Has(flash, AppStart, Slot)
  BY ImageAtIsThere DEF Good, Slot
<1>2. flash[AppStart] = Byte(Slot, 0)
  BY <1>1, FirstByte, LayoutFacts
<1> QED
  BY <1>1, <1>2, ByteFacts

-----------------------------------------------------------------------------
(* The flash operations keep every cell a cell.                             *)
Cells == {Byte(v, k) : v \in Images, k \in 0..(BankSize - 1)} \cup {Erased, Torn}

LEMMA AddrFacts ==
    /\ AppSlot \subseteq Addr /\ Bank \subseteq Addr /\ AppSlot \cap Bank = {}
    /\ AppStart \in AppSlot /\ Addr \subseteq Nat
  BY LayoutFacts DEF Addr, AppSlot, Bank

LEMMA EraseBlockType ==
    ASSUME NEW f \in [Addr -> Cells], NEW base \in Nat, NEW n \in Nat
    PROVE  EraseBlock(f, base, n) \in [Addr -> Cells] /\ TornBlock(f, base, n) \in [Addr -> Cells]
  BY DEF EraseBlock, TornBlock, Cells

LEMMA BankWithType ==
    ASSUME NEW f \in [Addr -> Cells], NEW v \in Images, NEW n \in 0..Length[v]
    PROVE  BankWith(f, v, n) \in [Addr -> Cells]
<1>1. \A a \in Bank : a - BankStart < n => Byte(v, a - BankStart) \in Cells
  BY ImageFacts, LayoutFacts DEF Bank, Cells
<1> QED
  BY <1>1 DEF BankWith, Cells

LEMMA CopyFlashType ==
    ASSUME NEW f \in [Addr -> Cells], NEW from \in Nat, NEW to \in Nat, NEW n \in Nat,
           from >= AppStart, from + n <= FlashSize
    PROVE  CopyFlash(f, from, to, n) \in [Addr -> Cells]
<1>1. \A a \in Addr : a >= to /\ a < to + n => from + (a - to) \in Addr
  BY LayoutFacts DEF Addr
<1> QED
  BY <1>1 DEF CopyFlash, Program

(* set_flash_erase takes whole sectors and never leaves the slot.           *)
LEMMA EraseUnitFacts ==
    ASSUME NEW offset \in Nat, NEW size \in Nat, offset % Sector = 0, offset < size,
           AppStart + size <= BankStart
    PROVE  /\ EraseUnit(AppStart + offset, size - offset) \in 1..Full
           /\ EraseUnit(AppStart + offset, size - offset) % Sector = 0
           /\ AppStart + offset + EraseUnit(AppStart + offset, size - offset) <= BankStart
<1> DEFINE unit == EraseUnit(AppStart + offset, size - offset)
<1>1. Sector <= Half /\ Half <= Full
  <2>1. 0 % Sector = 0 /\ 0 % Half = 0 /\ 0 < Half /\ 0 < Full /\ 0 \in Int
        /\ Half \in Int /\ Full \in Int
    BY LayoutFacts, SMTT(20)
  <2>2. 0 + Sector <= Half /\ 0 + Half <= Full
    BY <2>1, LayoutFacts, NextMultiple, Zenon
  <2> QED
    BY <2>2, LayoutFacts
<1>2. CASE unit = Full /\ size - offset > Full
  BY <1>2, LayoutFacts
<1>3. CASE unit = Half /\ size - offset > Half
  BY <1>1, <1>3, LayoutFacts
<1>4. CASE unit = Sector
  <2>1. (AppStart + offset) % Sector = 0
    <3>1. AppStart \in Int /\ offset \in Int
      BY LayoutFacts
    <3> QED
      BY <3>1, LayoutFacts, SumMultiple, Zenon
  <2>2. AppStart + offset < BankStart /\ AppStart + offset \in Int
    BY LayoutFacts
  <2>3. AppStart + offset + Sector <= BankStart
    <3> DEFINE a == AppStart + offset
    <3>1. a \in Int /\ a % Sector = 0 /\ a < BankStart /\ BankStart \in Int
      BY <2>1, <2>2, LayoutFacts
    <3> HIDE DEF a
    <3>2. a + Sector <= BankStart
      BY <3>1, LayoutFacts, NextMultiple, Zenon
    <3> QED
      BY <3>2 DEF a
  <2>4. Sector % Sector = 0
    BY LayoutFacts, SMTT(20)
  <2> QED
    BY <1>1, <1>4, <2>3, <2>4, LayoutFacts
<1> QED
  BY <1>2, <1>3, <1>4 DEF EraseUnit

(* The next page of the copy is a whole page of the bank and of the slot.   *)
LEMMA PageFacts ==
    ASSUME NEW offset \in Nat, NEW size \in Nat, offset % PageSize = 0, offset < size,
           AppStart + size <= BankStart, size <= BankSize
    PROVE  /\ AppStart + offset + PageSize <= BankStart
           /\ offset + PageSize <= BankSize
           /\ (offset + PageSize) % PageSize = 0
<1> DEFINE a == AppStart + offset
<1>0. AppStart \in Int /\ offset \in Int
  BY LayoutFacts
<1>6. a % PageSize = 0
  BY <1>0, LayoutFacts, SumMultiple, Zenon
<1>1. a \in Int /\ a % PageSize = 0 /\ a < BankStart /\ BankStart \in Int
      /\ offset \in Int /\ offset < BankSize /\ BankSize \in Int
  BY <1>6, LayoutFacts
<1> HIDE DEF a
<1>2. a + PageSize <= BankStart /\ offset + PageSize <= BankSize
  BY <1>1, LayoutFacts, NextMultiple, Zenon
<1>3. PageSize \in Int /\ PageSize % PageSize = 0
  BY LayoutFacts, SMTT(20)
<1>4. (offset + PageSize) % PageSize = 0
  BY <1>1, <1>3, LayoutFacts, SumMultiple, Zenon
<1> QED
  BY <1>2, <1>4 DEF a

-----------------------------------------------------------------------------
(* One step at a time: what it does to the flash, and that BootInv holds    *)
(* afterwards.                                                              *)
LEMMA InitBootInv == Init => BootInv
<1> SUFFICES ASSUME Init PROVE BootInv
  OBVIOUS
<1>1. /\ flash = [a \in Addr |-> IF a - AppStart < Length[Factory]
                                 THEN Byte(Factory, a - AppStart) ELSE Erased]
      /\ hdr = NoHeader /\ pc = "start" /\ at = 0
      /\ check = FALSE /\ updated = FALSE /\ marking = NoImage /\ resets = 0
      /\ secure \in BOOLEAN
  BY DEF Init
<1>2. Factory \in Images /\ Factory \in Signed
  BY ImagesAssumption
<1>3. \A a \in Addr : a - AppStart < Length[Factory] => a - AppStart \in 0..(BankSize - 1)
  BY <1>2, ImageFacts, LayoutFacts DEF Addr
<1>4. flash \in [Addr -> Cells]
  BY <1>1, <1>2, <1>3 DEF Cells
<1>5. Has(flash, AppStart, Factory)
  <2> SUFFICES ASSUME NEW k \in 0..(Length[Factory] - 1)
               PROVE  flash[AppStart + k] = Byte(Factory, k)
    BY DEF Has
  <2>1. AppStart + k \in Addr /\ (AppStart + k) - AppStart = k /\ k < Length[Factory]
    BY <1>2, ImageFacts, LayoutFacts DEF Addr
  <2> QED
    BY <1>1, <2>1
<1>6. Slot = Factory
  BY <1>2, <1>5, ImageAtIs, LayoutFacts DEF Slot
<1>7. Good
  BY <1>2, <1>6, ImageFacts DEF Good
<1>8. 0 \in 0..(BankSize + Full) /\ 0 \in 0..MaxResets
  BY LayoutFacts, ResetsAssumption
<1>9. TypeOK
  <2>1. {check, updated, secure} \subseteq BOOLEAN
    BY <1>1
  <2>2. at \in 0..(BankSize + Full) /\ resets \in 0..MaxResets
    BY <1>1, <1>8
  <2> QED
    BY <1>1, <1>4, <2>1, <2>2 DEF TypeOK, Cells
<1> QED
  BY <1>1, <1>7, <1>9 DEF BootInv, Progress, Marked

LEMMA InstallFacts ==
    ASSUME BootInv, pc \in {"erase", "copy", "tail"}
    PROVE  /\ Offered /\ hdr \in Headers /\ InBank \in Images /\ hdr.size = Length[InBank]
           /\ hdr.size \in Nat \ {0} /\ hdr.size <= BankSize /\ AppStart + hdr.size <= BankStart
           /\ flash \in [Addr -> Cells] /\ at \in Nat
           /\ \A k \in 0..(hdr.size - 1) : flash[BankStart + k] = Byte(InBank, k)
<1>1. TypeOK /\ Offered
  BY DEF BootInv, Progress
<1>2. InBank \in Images /\ Has(flash, BankStart, InBank) /\ hdr \in Headers /\ HeaderOf(hdr, InBank)
  BY <1>1, OfferedFacts
<1>3. flash \in [Addr -> Cells] /\ at \in Nat
  BY <1>1, LayoutFacts DEF TypeOK, Cells
<1>4. hdr.size = Length[InBank]
  BY <1>2 DEF HeaderOf
<1> QED
  BY <1>1, <1>2, <1>3, <1>4, ImageFacts DEF Has

LEMMA EraseSomeFacts ==
    ASSUME BootInv, EraseSome
    PROVE  /\ flash' \in [Addr -> Cells]
           /\ \A a \in Addr \ AppSlot : flash'[a] = flash[a]
           /\ EraseUnit(AppStart + at, hdr.size - at) \in 1..Full
           /\ EraseUnit(AppStart + at, hdr.size - at) % Sector = 0
           /\ \A k \in Nat : k < at + EraseUnit(AppStart + at, hdr.size - at) =>
                 flash'[AppStart + k] = Erased
<1> DEFINE unit == EraseUnit(AppStart + at, hdr.size - at)
<1>1. pc = "erase" /\ flash' = EraseBlock(flash, AppStart + at, unit)
  BY DEF EraseSome
<1>2. /\ hdr.size \in Nat /\ AppStart + hdr.size <= BankStart
      /\ flash \in [Addr -> Cells] /\ at \in Nat
  BY <1>1, InstallFacts
<1>3. at < hdr.size /\ at % Sector = 0 /\ \A k \in Nat : k < at => flash[AppStart + k] = Erased
  BY <1>1 DEF BootInv, TypeOK, Progress
<1>4. unit \in 1..Full /\ unit % Sector = 0 /\ AppStart + at + unit <= BankStart
  BY <1>2, <1>3, EraseUnitFacts
<1> HIDE DEF unit
<1>5. flash' \in [Addr -> Cells]
  <2>1. AppStart + at \in Nat /\ unit \in Nat
    BY <1>2, <1>4, LayoutFacts
  <2> QED
    BY <1>1, <1>2, <2>1, EraseBlockType
<1>6. \A a \in Addr \ AppSlot : flash'[a] = flash[a]
  BY <1>1, <1>2, <1>4, LayoutFacts DEF EraseBlock, AppSlot, Addr
<1>7. \A k \in Nat : k < at + unit => flash'[AppStart + k] = Erased
  <2> SUFFICES ASSUME NEW k \in Nat, k < at + unit PROVE flash'[AppStart + k] = Erased
    OBVIOUS
  <2>1. AppStart + k \in Addr
    BY <1>2, <1>4, LayoutFacts DEF Addr
  <2>2. CASE k < at
    BY <1>1, <1>3, <2>1, <2>2 DEF EraseBlock
  <2>3. CASE k >= at
    <3>1. AppStart + k >= AppStart + at /\ AppStart + k < AppStart + at + unit
      BY <1>2, <1>4, <2>3, LayoutFacts
    <3> QED
      BY <1>1, <2>1, <3>1 DEF EraseBlock
  <2> QED
    BY <1>2, <2>2, <2>3
<1> QED
  BY <1>4, <1>5, <1>6, <1>7 DEF unit

LEMMA EraseSomeInv ==
    ASSUME BootInv, EraseSome
    PROVE  BootInv'
<1> DEFINE unit == EraseUnit(AppStart + at, hdr.size - at)
<1>1. /\ pc = "erase" /\ UNCHANGED <<hdr, check, updated, marking, secure, resets>>
      /\ IF at + unit >= hdr.size THEN pc' = "copy" /\ at' = 0
                                  ELSE pc' = "erase" /\ at' = at + unit
  BY DEF EraseSome, Copied
<1>2. /\ flash' \in [Addr -> Cells]
      /\ \A a \in Addr \ AppSlot : flash'[a] = flash[a]
      /\ unit \in 1..Full /\ unit % Sector = 0
      /\ \A k \in Nat : k < at + unit => flash'[AppStart + k] = Erased
  BY EraseSomeFacts
<1>3. /\ Offered /\ hdr \in Headers /\ hdr.size \in Nat \ {0} /\ hdr.size <= BankSize
      /\ AppStart + hdr.size <= BankStart /\ at \in Nat
  BY <1>1, InstallFacts
<1> HIDE DEF unit
<1>4. TypeOK /\ at < hdr.size /\ at % Sector = 0 /\ marking = NoImage
  BY <1>1 DEF BootInv, TypeOK, Progress, Marked
<1>5. Offered'
  <2>1. \A a \in Bank : flash'[a] = flash[a]
    BY <1>2, AddrFacts
  <2> QED
    BY <1>1, <1>3, <1>4, <2>1, OfferedKept
<1>6. CASE at + unit >= hdr.size
  <2>1. pc' = "copy" /\ at' = 0 /\ 0 % PageSize = 0 /\ 0 \in 0..(BankSize + Full) /\ 0 < hdr.size
    BY <1>1, <1>3, <1>6, LayoutFacts, SMTT(20)
  <2>2. TypeOK'
    BY <1>1, <1>2, <1>3, <1>4, <2>1 DEF TypeOK, Cells
  <2>3. \A k \in 0..(hdr.size - 1) : flash'[AppStart + k] = Erased /\ ~(k < 0)
    BY <1>2, <1>3, <1>6
  <2> QED
    BY <1>1, <1>4, <1>5, <2>1, <2>2, <2>3 DEF BootInv, Progress, Marked
<1>7. CASE ~(at + unit >= hdr.size)
  <2>1. pc' = "erase" /\ at' = at + unit /\ at + unit < hdr.size
    BY <1>1, <1>2, <1>3, <1>7
  <2>2. at + unit \in 0..(BankSize + Full)
    BY <1>2, <1>3, <2>1, LayoutFacts
  <2>3. TypeOK'
    BY <1>1, <1>2, <1>3, <1>4, <2>1, <2>2 DEF TypeOK, Cells
  <2>4. (at + unit) % Sector = 0
    <3>1. at \in Int /\ unit \in Int
      BY <1>2, <1>3
    <3> QED
      BY <1>2, <1>4, <3>1, LayoutFacts, SumMultiple, Zenon
  <2> QED
    BY <1>1, <1>2, <1>4, <1>5, <2>1, <2>3, <2>4 DEF BootInv, Progress, Marked
<1> QED
  BY <1>6, <1>7

LEMMA CopyPageFacts ==
    ASSUME BootInv, CopyPage
    PROVE  /\ flash' \in [Addr -> Cells]
           /\ \A a \in Addr \ AppSlot : flash'[a] = flash[a]
           /\ at + PageSize <= BankSize /\ (at + PageSize) % PageSize = 0
           /\ AppStart + at + PageSize <= BankStart
           /\ \A k \in 0..(hdr.size - 1) :
                 flash'[AppStart + k] = IF k < at + PageSize THEN flash'[BankStart + k] ELSE Erased
<1>1. pc = "copy" /\ flash' = CopyFlash(flash, BankStart + at, AppStart + at, PageSize)
  BY DEF CopyPage
<1>2. /\ hdr.size \in Nat \ {0} /\ AppStart + hdr.size <= BankStart /\ hdr.size <= BankSize
      /\ flash \in [Addr -> Cells] /\ at \in Nat
  BY <1>1, InstallFacts
<1>3. /\ at < hdr.size /\ at % PageSize = 0
      /\ \A k \in 0..(hdr.size - 1) :
            flash[AppStart + k] = IF k < at THEN flash[BankStart + k] ELSE Erased
  BY <1>1 DEF BootInv, TypeOK, Progress
<1>4. /\ at + PageSize <= BankSize /\ (at + PageSize) % PageSize = 0
      /\ AppStart + at + PageSize <= BankStart
  BY <1>2, <1>3, PageFacts
<1>5. flash' \in [Addr -> Cells]
  <2>1. /\ BankStart + at \in Nat /\ AppStart + at \in Nat /\ PageSize \in Nat
        /\ BankStart + at >= AppStart /\ BankStart + at + PageSize <= FlashSize
    BY <1>2, <1>4, LayoutFacts
  <2> QED
    BY <1>1, <1>2, <2>1, CopyFlashType
<1>6. \A a \in Addr \ AppSlot : flash'[a] = flash[a]
  BY <1>1, <1>2, <1>4, LayoutFacts DEF CopyFlash, AppSlot, Addr
<1>7. ASSUME NEW k \in 0..(hdr.size - 1)
      PROVE  flash'[AppStart + k] = IF k < at + PageSize THEN flash'[BankStart + k] ELSE Erased
  <2>1. AppStart + k \in Addr /\ BankStart + k \in Addr \ AppSlot
    BY <1>2, LayoutFacts DEF Addr, AppSlot
  <2>2. flash'[BankStart + k] = flash[BankStart + k]
    BY <1>6, <2>1
  <2>3. CASE k >= at /\ k < at + PageSize
    <3>1. AppStart + k >= AppStart + at /\ AppStart + k < AppStart + at + PageSize
          /\ (BankStart + at) + ((AppStart + k) - (AppStart + at)) = BankStart + k
      BY <1>2, <2>3, LayoutFacts
    <3>2. flash'[AppStart + k] = Program(flash[AppStart + k], flash[BankStart + k])
      BY <1>1, <2>1, <3>1 DEF CopyFlash
    <3>3. flash[AppStart + k] = Erased
      BY <1>2, <1>3, <2>3
    <3> QED
      BY <2>2, <2>3, <3>2, <3>3 DEF Program
  <2>4. CASE ~(k >= at /\ k < at + PageSize)
    <3>1. ~(AppStart + k >= AppStart + at /\ AppStart + k < AppStart + at + PageSize)
      BY <1>2, <2>4, LayoutFacts
    <3>2. flash'[AppStart + k] = flash[AppStart + k]
      BY <1>1, <2>1, <3>1 DEF CopyFlash
    <3>3. k < at <=> k < at + PageSize
      BY <1>2, <2>4, LayoutFacts
    <3> QED
      BY <1>3, <2>2, <3>2, <3>3
  <2> QED
    BY <2>3, <2>4
<1> QED
  BY <1>4, <1>5, <1>6, <1>7

LEMMA CopyPageInv ==
    ASSUME BootInv, CopyPage
    PROVE  BootInv'
<1>1. /\ pc = "copy" /\ at' = at + PageSize
      /\ UNCHANGED <<hdr, check, updated, marking, secure, resets>>
      /\ pc' = IF at + PageSize >= hdr.size THEN "tail" ELSE "copy"
  BY DEF CopyPage, Copied
<1>2. /\ flash' \in [Addr -> Cells]
      /\ \A a \in Addr \ AppSlot : flash'[a] = flash[a]
      /\ at + PageSize <= BankSize /\ (at + PageSize) % PageSize = 0
      /\ \A k \in 0..(hdr.size - 1) :
            flash'[AppStart + k] = IF k < at + PageSize THEN flash'[BankStart + k] ELSE Erased
  BY CopyPageFacts
<1>3. /\ Offered /\ hdr \in Headers /\ hdr.size \in Nat \ {0} /\ hdr.size <= BankSize
      /\ AppStart + hdr.size <= BankStart /\ at \in Nat
      /\ InBank \in Images /\ hdr.size = Length[InBank]
      /\ \A k \in 0..(hdr.size - 1) : flash[BankStart + k] = Byte(InBank, k)
  BY <1>1, InstallFacts
<1>4. TypeOK /\ at < hdr.size /\ marking = NoImage
  BY <1>1 DEF BootInv, TypeOK, Progress, Marked
<1>5. Offered' /\ InBank' = InBank
  <2>1. \A a \in Bank : flash'[a] = flash[a]
    BY <1>2, AddrFacts
  <2> QED
    BY <1>1, <1>3, <1>4, <2>1, OfferedKept
<1>6. TypeOK'
  <2>1. at + PageSize \in 0..(BankSize + Full)
    BY <1>2, <1>3, LayoutFacts
  <2>2. pc' = "copy" => at + PageSize < hdr.size
    BY <1>1, <1>3, LayoutFacts
  <2> QED
    BY <1>1, <1>2, <1>3, <1>4, <2>1, <2>2 DEF TypeOK, Cells
<1>7. CASE at + PageSize >= hdr.size
  <2>1. \A k \in 0..(hdr.size - 1) : BankStart + k \in Addr \ AppSlot
    BY <1>3, LayoutFacts DEF Addr, AppSlot
  <2>2. \A k \in 0..(hdr.size - 1) : k < at + PageSize
    BY <1>3, <1>7, LayoutFacts
  <2>3. \A k \in 0..(hdr.size - 1) : flash'[AppStart + k] = Byte(InBank, k)
    BY <1>2, <1>3, <2>1, <2>2
  <2>4. Slot' = InBank
    BY <1>3, <2>3, ImageAtIs, LayoutFacts DEF Slot, Has
  <2>5. secure => InBank \in Signed
    BY <1>3, <1>4, OfferedFacts
  <2>6. Slot' = InBank' /\ Good'
    BY <1>1, <1>3, <1>5, <2>4, <2>5, ImageFacts DEF Good
  <2>7. at' >= hdr'.size /\ at' < hdr'.size + PageSize /\ at' % PageSize = 0 /\ pc' = "tail"
    BY <1>1, <1>2, <1>3, <1>4, <1>7, LayoutFacts
  <2> QED
    BY <1>1, <1>4, <1>5, <1>6, <2>6, <2>7 DEF BootInv, Progress, Marked
<1>8. CASE ~(at + PageSize >= hdr.size)
  <2>1. pc' = "copy"
    BY <1>1, <1>8
  <2> QED
    BY <1>1, <1>2, <1>4, <1>5, <1>6, <2>1 DEF BootInv, Progress, Marked
<1> QED
  BY <1>7, <1>8

(* The loop after the page copy has nothing to copy, or is refused.         *)
LEMMA CopyTailFacts ==
    ASSUME BootInv, CopyTail
    PROVE  flash' = flash
<1> DEFINE n  == at - hdr.size
           to == AppStart + at * Stride
<1>1. /\ pc = "tail"
      /\ flash' = IF to + n <= FlashSize THEN CopyFlash(flash, BankStart + at * Stride, to, n)
                  ELSE flash
  BY DEF CopyTail
<1>2. /\ InBank \in Images /\ hdr.size = Length[InBank] /\ hdr.size \in Nat \ {0}
      /\ flash \in [Addr -> Cells] /\ at \in Nat
  BY <1>1, InstallFacts
<1>3. at >= hdr.size /\ at % PageSize = 0 /\ at < hdr.size + PageSize
  BY <1>1 DEF BootInv, Progress
<1>4. at * Stride \in Nat /\ at * Stride >= hdr.size * Stride /\ hdr.size * Stride \in Nat
  <2>1. at * Stride \in Nat /\ hdr.size * Stride \in Nat
    BY <1>2, LayoutFacts, SMTT(20)
  <2>2. (at - hdr.size) * Stride >= 0 /\ (at - hdr.size) * Stride = at * Stride - hdr.size * Stride
    <3> DEFINE d == at - hdr.size
    <3>1. d \in Nat /\ Stride \in Nat /\ at = hdr.size + d /\ hdr.size \in Nat
      BY <1>2, <1>3, LayoutFacts
    <3> HIDE DEF d
    <3>2. d * Stride >= 0 /\ (hdr.size + d) * Stride = hdr.size * Stride + d * Stride
          /\ d * Stride \in Nat
      BY <3>1, SMTT(20)
    <3>3. at * Stride = hdr.size * Stride + d * Stride
      BY <3>1, <3>2
    <3>4. d * Stride = at * Stride - hdr.size * Stride
      BY <2>1, <3>2, <3>3
    <3> QED
      BY <3>2, <3>4 DEF d
  <2> QED
    BY <2>1, <2>2
<1>5. CASE hdr.size % PageSize = 0
  <2>1. ~(hdr.size < at)
    <3> SUFFICES ASSUME hdr.size < at PROVE FALSE
      OBVIOUS
    <3>1. hdr.size \in Int /\ at \in Int
      BY <1>2
    <3>2. hdr.size + PageSize <= at
      BY <1>3, <1>5, <3>1, LayoutFacts, NextMultiple, Zenon
    <3> QED
      BY <1>2, <1>3, <3>2, LayoutFacts
  <2>2. n = 0
    BY <1>2, <1>3, <2>1
  <2>3. to \in Nat
    BY <1>4, LayoutFacts
  <2> HIDE DEF n, to
  <2>4. \A a \in Addr : ~(a >= to /\ a < to + n)
    BY <2>2, <2>3, AddrFacts
  <2>5. CopyFlash(flash, BankStart + at * Stride, to, n) = [a \in Addr |-> flash[a]]
    BY <2>4 DEF CopyFlash
  <2> QED
    BY <1>1, <1>2, <2>5
<1>6. CASE hdr.size % PageSize # 0
  <2>1. AppStart + hdr.size * Stride >= FlashSize
    BY <1>2, <1>6, TailAssumption
  <2>2. n >= 1
    BY <1>2, <1>3, <1>6
  <2>3. ~(to + n <= FlashSize)
    <3> DEFINE x == at * Stride
               y == hdr.size * Stride
    <3>1. x \in Nat /\ y \in Nat /\ x >= y /\ AppStart + y >= FlashSize
      BY <1>4, <2>1
    <3> HIDE DEF x, y
    <3>2. ~((AppStart + x) + n <= FlashSize)
      BY <1>2, <2>2, <3>1, LayoutFacts
    <3> QED
      BY <3>2 DEF x
  <2> QED
    BY <1>1, <2>3
<1> QED
  BY <1>5, <1>6

LEMMA CopyTailInv ==
    ASSUME BootInv, CopyTail
    PROVE  BootInv'
<1>1. flash' = flash
  BY CopyTailFacts
<1>2. /\ pc = "tail" /\ pc' = "result"
      /\ UNCHANGED <<hdr, at, check, updated, marking, secure, resets>>
  BY DEF CopyTail
<1>3. TypeOK'
  BY <1>1, <1>2 DEF BootInv, TypeOK
<1>4. Offered' /\ Slot' = InBank' /\ Good'
  BY <1>1, <1>2 DEF BootInv, Progress, Offered, Slot, InBank, Good, BankAllowed
<1> QED
  BY <1>2, <1>3, <1>4 DEF BootInv, Progress, Marked

(* Without a change of flash and secure the application stays what it was.  *)
LEMMA GoodUnchanged ==
    ASSUME flash' = flash, secure' = secure
    PROVE  Good' = Good /\ Slot' = Slot
  BY DEF Good, Slot

LEMMA CheckFotaFacts ==
    ASSUME BootInv, CheckFota
    PROVE  /\ pc = "start" /\ at' = 0 /\ updated' = FALSE /\ check' \in BOOLEAN
           /\ UNCHANGED <<flash, marking, secure, resets>>
           /\ \/ pc' = "erase" /\ Offered /\ hdr' = hdr
              \/ pc' = "verify" /\ ~Offered /\ ~Untried(hdr') /\ hdr' \in Headers \cup {NoHeader}
<1>1. /\ pc = "start" /\ at' = 0 /\ updated' = FALSE
      /\ UNCHANGED <<flash, marking, secure, resets>>
      /\ hdr \in Headers \cup {NoHeader}
  BY DEF CheckFota, BootInv, TypeOK
<1>2. hdr # NoHeader => /\ WithResult(hdr, "err") \in Headers
                        /\ ~Untried(WithResult(hdr, "err"))
  BY <1>1, WithResultFacts
<1>3. ~Untried(NoHeader)
  BY DEF Untried
<1>4. CASE /\ BankAllowed /\ Pending(hdr, flash)
           /\ pc' = "erase" /\ check' = TRUE /\ UNCHANGED hdr
  BY <1>1, <1>4 DEF Offered
<1>5. CASE /\ BankAllowed /\ Untried(hdr) /\ ~Pending(hdr, flash)
           /\ pc' = "verify" /\ check' = TRUE /\ hdr' = WithResult(hdr, "err")
  BY <1>1, <1>2, <1>3, <1>5 DEF Offered
<1>6. CASE /\ BankAllowed /\ ~Untried(hdr)
           /\ pc' = "verify" /\ check' = FALSE /\ UNCHANGED hdr
  BY <1>1, <1>6 DEF Offered, Pending
<1>7. CASE /\ ~BankAllowed
           /\ pc' = "verify" /\ check' = FALSE
           /\ hdr' = IF hdr = NoHeader THEN hdr ELSE WithResult(hdr, "err")
  BY <1>1, <1>2, <1>3, <1>7 DEF Offered
<1> QED
  BY <1>4, <1>5, <1>6, <1>7 DEF CheckFota

LEMMA CheckFotaInv ==
    ASSUME BootInv, CheckFota
    PROVE  BootInv'
<1>1. /\ pc = "start" /\ at' = 0 /\ updated' = FALSE /\ check' \in BOOLEAN
      /\ UNCHANGED <<flash, marking, secure, resets>>
  BY CheckFotaFacts
<1>2. 0 \in 0..(BankSize + Full) /\ 0 % Sector = 0
  BY LayoutFacts, SMTT(20)
<1>3. TypeOK /\ marking = NoImage
  BY <1>1 DEF BootInv, Marked
<1>6. {check', updated', secure'} \subseteq BOOLEAN
  <2>1. secure \in BOOLEAN
    BY <1>3 DEF TypeOK
  <2>2. secure' \in BOOLEAN /\ updated' \in BOOLEAN /\ check' \in BOOLEAN
    BY <1>1, <2>1, Zenon
  <2> QED
    BY <2>2, Zenon
<1>4. CASE pc' = "erase" /\ Offered /\ hdr' = hdr
  <2>1. hdr \in Headers /\ 0 < hdr.size
    <3>1. InBank \in Images /\ hdr \in Headers /\ HeaderOf(hdr, InBank)
      BY <1>3, <1>4, OfferedFacts
    <3> QED
      BY <3>1, ImageFacts DEF HeaderOf
  <2>3. TypeOK'
    BY <1>1, <1>2, <1>3, <1>4, <1>6, <2>1 DEF TypeOK
  <2>4. Offered'
    BY <1>1, <1>4 DEF Offered, BankAllowed
  <2>5. \A k \in Nat : ~(k < 0)
    OBVIOUS
  <2> QED
    BY <1>1, <1>2, <1>3, <1>4, <2>3, <2>4, <2>5 DEF BootInv, Progress, Marked
<1>5. CASE pc' = "verify" /\ ~Offered /\ ~Untried(hdr') /\ hdr' \in Headers \cup {NoHeader}
  <2>2. TypeOK'
    BY <1>1, <1>2, <1>3, <1>5, <1>6 DEF TypeOK
  <2>3. Good'
    BY <1>1, <1>5, GoodUnchanged DEF BootInv, Progress
  <2> QED
    BY <1>1, <1>3, <1>5, <2>2, <2>3 DEF BootInv, Progress, Marked
<1> QED
  BY <1>4, <1>5, CheckFotaFacts

LEMMA WriteResultInv ==
    ASSUME BootInv, WriteResult
    PROVE  BootInv'
<1>1. /\ pc = "result" /\ pc' = "verify" /\ hdr' = WithResult(hdr, "ok") /\ updated' = TRUE
      /\ UNCHANGED <<flash, at, check, marking, secure, resets>>
  BY DEF WriteResult
<1>2. TypeOK /\ Offered /\ Good /\ marking = NoImage
  BY <1>1 DEF BootInv, Progress, Marked
<1>3. hdr' \in Headers /\ ~Untried(hdr')
  BY <1>1, <1>2, OfferedFacts, WithResultFacts
<1>4. {check', updated', secure'} \subseteq BOOLEAN
  BY <1>1, <1>2 DEF TypeOK
<1>5. TypeOK'
  BY <1>1, <1>2, <1>3, <1>4 DEF TypeOK
<1>6. Good'
  BY <1>1, <1>2, GoodUnchanged
<1> QED
  BY <1>1, <1>2, <1>3, <1>5, <1>6 DEF BootInv, Progress, Marked

(* Only the boot goes on: verified, without a serial download, started.     *)
LEMMA VerifyNoSerialJumpInv ==
    ASSUME BootInv, VerifyApp \/ NoSerial \/ Jump
    PROVE  BootInv'
<1>1. /\ pc \in {"verify", "serial", "jump"}
      /\ UNCHANGED <<flash, hdr, at, check, updated, marking, secure, resets>>
  BY DEF VerifyApp, NoSerial, Jump
<1>2. TypeOK /\ Good /\ ~Untried(hdr) /\ marking = NoImage
  BY <1>1 DEF BootInv, Progress, Marked
<1>3. ~secure \/ SignatureOk(flash, AppStart)
  BY <1>2 DEF Good, SignatureOk, Slot
<1>4. pc' \in {"jump", "serial", "app"}
  BY <1>2, <1>3, GoodFacts DEF VerifyApp, NoSerial, Jump
<1>5. TypeOK'
  BY <1>1, <1>2, <1>4 DEF TypeOK
<1>6. Good'
  BY <1>1, <1>2, GoodUnchanged
<1> QED
  BY <1>1, <1>2, <1>4, <1>5, <1>6 DEF BootInv, Progress, Marked

-----------------------------------------------------------------------------
(* What is written into the bank leaves the application alone.              *)
LEMMA BankWithFacts ==
    ASSUME NEW f, NEW v \in Images, NEW n
    PROVE  \A a \in AppSlot : BankWith(f, v, n)[a] = f[a]
  BY AddrFacts DEF BankWith

LEMMA BankEraseFacts ==
    ASSUME NEW f, NEW d \in Nat, NEW n
    PROVE  /\ \A a \in AppSlot : EraseBlock(f, BankStart + d, n)[a] = f[a]
           /\ \A a \in AppSlot : TornBlock(f, BankStart + d, n)[a] = f[a]
<1>1. \A a \in AppSlot : ~(a >= BankStart + d)
  BY LayoutFacts DEF AppSlot
<1> QED
  BY <1>1, AddrFacts DEF EraseBlock, TornBlock

LEMMA SerialStartInv ==
    ASSUME BootInv, SerialStart
    PROVE  BootInv'
<1>1. /\ pc = "serial" /\ pc' = "receive"
      /\ flash' = EraseBlock(flash, BankStart, BankSize)
      /\ UNCHANGED <<hdr, at, check, updated, marking, secure, resets>>
  BY DEF SerialStart
<1>2. TypeOK /\ Good /\ ~Untried(hdr) /\ marking = NoImage
  BY <1>1 DEF BootInv, Progress, Marked
<1>3. flash' = EraseBlock(flash, BankStart + 0, BankSize)
  BY <1>1, LayoutFacts
<1>4. flash' \in [Addr -> Cells]
  BY <1>1, <1>2, LayoutFacts, EraseBlockType DEF TypeOK, Cells
<1>5. TypeOK'
  BY <1>1, <1>2, <1>4 DEF TypeOK, Cells
<1>6. Good'
  BY <1>1, <1>2, <1>3, BankEraseFacts, GoodKept
<1> QED
  BY <1>1, <1>2, <1>5, <1>6 DEF BootInv, Progress, Marked

LEMMA SerialEndInv ==
    ASSUME BootInv, SerialEnd
    PROVE  BootInv'
<1>1. PICK v \in Images :
        \/ /\ \E n \in 0..Length[v] : flash' = BankWith(flash, v, n)
           /\ pc' = "jump" /\ UNCHANGED hdr
        \/ /\ flash' = BankWith(flash, v, Length[v])
           /\ pc' = "start" /\ hdr' = ReadyHeader(v)
  BY DEF SerialEnd
<1>2. pc = "receive" /\ UNCHANGED <<at, check, updated, marking, secure, resets>>
  BY DEF SerialEnd
<1>3. TypeOK /\ Good /\ ~Untried(hdr) /\ marking = NoImage
  BY <1>2 DEF BootInv, Progress, Marked
<1>4. \E n \in 0..Length[v] : flash' = BankWith(flash, v, n)
  BY <1>1, ImageFacts
<1>5. flash' \in [Addr -> Cells]
  BY <1>3, <1>4, BankWithType DEF TypeOK, Cells
<1>6. Good'
  BY <1>2, <1>3, <1>4, BankWithFacts, GoodKept
<1>7. TypeOK'
  BY <1>1, <1>2, <1>3, <1>5, ReadyHeaderFacts DEF TypeOK, Cells
<1> QED
  BY <1>1, <1>2, <1>3, <1>6, <1>7 DEF BootInv, Progress, Marked

LEMMA FillBankInv ==
    ASSUME BootInv, FillBank
    PROVE  BootInv'
<1>1. /\ pc = "app" /\ marking = NoImage
      /\ UNCHANGED <<hdr, pc, at, check, updated, marking, secure, resets>>
  BY DEF FillBank
<1>2. PICK v \in Images, n \in 0..BankSize : n <= Length[v] /\ flash' = BankWith(flash, v, n)
  BY DEF FillBank
<1>3. n \in 0..Length[v]
  BY <1>2, ImageFacts
<1>4. TypeOK /\ Good
  BY <1>1 DEF BootInv, Progress
<1>5. flash' \in [Addr -> Cells]
  BY <1>2, <1>3, <1>4, BankWithType DEF TypeOK, Cells
<1>6. Good'
  BY <1>1, <1>2, <1>4, BankWithFacts, GoodKept
<1>7. TypeOK'
  BY <1>1, <1>4, <1>5 DEF TypeOK, Cells
<1> QED
  BY <1>1, <1>6, <1>7 DEF BootInv, Progress, Marked

LEMMA HeaderInv ==
    ASSUME BootInv, EraseHeader \/ WriteHeader
    PROVE  BootInv'
<1>1. /\ pc = "app" /\ UNCHANGED <<flash, pc, at, check, updated, secure, resets>>
  BY DEF EraseHeader, WriteHeader
<1>2. TypeOK /\ Good
  BY <1>1 DEF BootInv, Progress
<1>3. Good'
  BY <1>1, <1>2, GoodUnchanged
<1>4. CASE EraseHeader
  <2>1. marking' = ImageAt(flash, BankStart) /\ marking' # NoImage /\ hdr' = NoHeader
    BY <1>4 DEF EraseHeader
  <2>2. marking' \in Images /\ Has(flash', BankStart, marking')
    BY <1>1, <2>1, ImageAtIsThere
  <2>3. TypeOK'
    BY <1>1, <1>2, <2>1, <2>2 DEF TypeOK
  <2> QED
    BY <1>1, <1>3, <2>1, <2>2, <2>3 DEF BootInv, Progress, Marked
<1>5. CASE WriteHeader
  <2>1. marking \in Images /\ hdr' = ReadyHeader(marking) /\ marking' = NoImage
    BY <1>2, <1>5 DEF WriteHeader, TypeOK
  <2>2. TypeOK'
    BY <1>1, <1>2, <2>1, ReadyHeaderFacts DEF TypeOK
  <2> QED
    BY <1>1, <1>3, <2>1, <2>2 DEF BootInv, Progress, Marked
<1> QED
  BY <1>4, <1>5

-----------------------------------------------------------------------------
LEMMA ResetInv ==
    ASSUME BootInv, Reset
    PROVE  BootInv'
<1>1. /\ resets < MaxResets /\ resets' = resets + 1 /\ pc' = "start" /\ marking' = NoImage
      /\ UNCHANGED <<flash, hdr, at, check, updated, secure>>
  BY DEF Reset
<1>2. TypeOK /\ (Good \/ Offered)
  <2>1. pc \in {"start", "erase", "copy", "tail", "result", "verify", "serial", "receive", "jump",
                "app"}
    BY DEF BootInv, TypeOK, Progress
  <2> QED
    BY <2>1 DEF BootInv, Progress
<1>3. resets' \in 0..MaxResets
  BY <1>1, <1>2, ResetsAssumption DEF TypeOK
<1>4. TypeOK'
  BY <1>1, <1>2, <1>3 DEF TypeOK
<1>5. Good' \/ Offered'
  BY <1>1, <1>2 DEF Good, Slot, Offered, BankAllowed
<1> QED
  BY <1>1, <1>4, <1>5 DEF BootInv, Progress, Marked

(* The power failing in the middle of an erase or of the copy of a page     *)
(* leaves the slot without an image, or, the page being torn but not the    *)
(* first one, without another than the one that is copied.                  *)
LEMMA PowerFailsInstalling ==
    ASSUME BootInv, PowerFails, pc \in {"erase", "copy"}
    PROVE  /\ flash' \in [Addr -> Cells] /\ hdr' = hdr
           /\ \A a \in Addr \ AppSlot : flash'[a] = flash[a]
           /\ flash'[AppStart] \in {Erased, Torn, Byte(InBank, 0)}
<1>1. /\ hdr' = hdr
      /\ \/ /\ pc = "erase"
            /\ flash' = TornBlock(flash, AppStart + at, EraseUnit(AppStart + at, hdr.size - at))
         \/ pc = "copy" /\ flash' = TornBlock(flash, AppStart + at, PageSize)
  BY DEF PowerFails
<1>2. /\ hdr.size \in Nat \ {0} /\ AppStart + hdr.size <= BankStart /\ hdr.size <= BankSize
      /\ flash \in [Addr -> Cells] /\ at \in Nat
      /\ \A k \in 0..(hdr.size - 1) : flash[BankStart + k] = Byte(InBank, k)
  BY InstallFacts
<1>3. at < hdr.size
  BY DEF BootInv, TypeOK
<1>4. PICK n \in Nat \ {0} : /\ flash' = TornBlock(flash, AppStart + at, n)
                             /\ AppStart + at + n <= BankStart
  <2>1. CASE pc = "erase"
    <3>1. at % Sector = 0
      BY <2>1 DEF BootInv, Progress
    <3>2. /\ EraseUnit(AppStart + at, hdr.size - at) \in 1..Full
          /\ AppStart + at + EraseUnit(AppStart + at, hdr.size - at) <= BankStart
      BY <1>2, <1>3, <3>1, EraseUnitFacts
    <3>3. EraseUnit(AppStart + at, hdr.size - at) \in Nat \ {0}
      BY <3>2, LayoutFacts
    <3> QED
      BY <1>1, <2>1, <3>2, <3>3
  <2>2. CASE pc = "copy"
    <3>1. at % PageSize = 0
      BY <2>2 DEF BootInv, Progress
    <3>2. AppStart + at + PageSize <= BankStart
      BY <1>2, <1>3, <3>1, PageFacts
    <3> QED
      BY <1>1, <2>2, <3>2, LayoutFacts
  <2> QED
    BY <2>1, <2>2
<1>5. flash' \in [Addr -> Cells]
  BY <1>2, <1>4, LayoutFacts, EraseBlockType
<1>6. \A a \in Addr \ AppSlot : flash'[a] = flash[a]
  BY <1>2, <1>4, LayoutFacts DEF TornBlock, AppSlot, Addr
<1>7. flash'[AppStart] \in {Erased, Torn, Byte(InBank, 0)}
  <2>1. AppStart \in Addr /\ AppStart + 0 = AppStart /\ BankStart + 0 = BankStart
    BY LayoutFacts DEF Addr
  <2>2. CASE at = 0
    <3>1. AppStart >= AppStart + at /\ AppStart < AppStart + at + n
      BY <1>4, <2>2, LayoutFacts
    <3> QED
      BY <1>4, <2>1, <3>1 DEF TornBlock
  <2>3. CASE 0 < at
    <3>1. ~(AppStart >= AppStart + at)
      BY <1>2, <2>3, LayoutFacts
    <3>2. flash'[AppStart] = flash[AppStart]
      BY <1>4, <2>1, <3>1 DEF TornBlock
    <3>3. CASE pc = "erase"
      <4>1. 0 \in Nat /\ \A k \in Nat : k < at => flash[AppStart + k] = Erased
        BY <3>3 DEF BootInv, Progress
      <4>2. flash[AppStart + 0] = Erased
        BY <2>3, <4>1
      <4> QED
        BY <2>1, <3>2, <4>2
    <3>4. CASE pc = "copy"
      <4>1. 0 \in 0..(hdr.size - 1)
        BY <1>2
      <4>2. \A k \in 0..(hdr.size - 1) :
               flash[AppStart + k] = IF k < at THEN flash[BankStart + k] ELSE Erased
        BY <3>4 DEF BootInv, Progress
      <4>3. flash[AppStart + 0] = flash[BankStart + 0] /\ flash[BankStart + 0] = Byte(InBank, 0)
        BY <1>2, <2>3, <4>1, <4>2
      <4> QED
        BY <2>1, <3>2, <4>3
    <3> QED
      BY <3>3, <3>4
  <2> QED
    BY <1>2, <2>2, <2>3
<1> QED
  BY <1>1, <1>5, <1>6, <1>7

LEMMA PowerFailsInv ==
    ASSUME BootInv, PowerFails
    PROVE  BootInv'
<1>1. /\ resets < MaxResets /\ resets' = resets + 1 /\ pc' = "start" /\ marking' = NoImage
      /\ UNCHANGED <<at, check, updated, secure>>
  BY DEF PowerFails
<1>2. TypeOK
  BY DEF BootInv
<1>3. resets' \in 0..MaxResets
  BY <1>1, <1>2, ResetsAssumption DEF TypeOK
<1>4. ASSUME flash' \in [Addr -> Cells], hdr' \in Headers \cup {NoHeader}, Good' \/ Offered'
      PROVE  BootInv'
  <2>1. TypeOK'
    BY <1>1, <1>2, <1>3, <1>4 DEF TypeOK, Cells
  <2> QED
    BY <1>1, <1>4, <2>1 DEF BootInv, Progress, Marked
<1>5. CASE pc \in {"erase", "copy"}
  <2>1. /\ flash' \in [Addr -> Cells] /\ hdr' = hdr
        /\ \A a \in Addr \ AppSlot : flash'[a] = flash[a]
    BY <1>5, PowerFailsInstalling
  <2>2. Offered
    BY <1>5, InstallFacts
  <2>3. Offered'
    BY <1>1, <1>2, <2>1, <2>2, AddrFacts, OfferedKept
  <2>4. hdr' \in Headers \cup {NoHeader}
    BY <1>2, <2>1 DEF TypeOK
  <2> QED
    BY <1>4, <2>1, <2>3, <2>4
<1>6. CASE pc = "result" /\ UNCHANGED flash /\ hdr' = WithResult(hdr, "err")
  <2>1. Offered /\ Good
    BY <1>6 DEF BootInv, Progress
  <2>2. hdr' \in Headers
    BY <1>2, <1>6, <2>1, OfferedFacts, WithResultFacts
  <2>3. Good'
    BY <1>1, <1>6, <2>1, GoodUnchanged
  <2>4. flash' \in [Addr -> Cells]
    BY <1>2, <1>6 DEF TypeOK, Cells
  <2> QED
    BY <1>4, <2>2, <2>3, <2>4
<1>7. CASE /\ pc = "receive" \/ (pc = "app" /\ marking = NoImage)
           /\ \E n \in 0..BankSize - 1 :
                n % PageSize = 0 /\ flash' = TornBlock(flash, BankStart + n, PageSize)
           /\ UNCHANGED hdr
  <2>1. PICK n \in 0..BankSize - 1 : flash' = TornBlock(flash, BankStart + n, PageSize)
    BY <1>7
  <2>2. n \in Nat /\ BankStart + n \in Nat
    BY LayoutFacts
  <2>3. flash' \in [Addr -> Cells]
    BY <1>2, <2>1, <2>2, LayoutFacts, EraseBlockType DEF TypeOK, Cells
  <2>4. Good
    BY <1>7 DEF BootInv, Progress
  <2>5. Good'
    BY <1>1, <2>1, <2>2, <2>4, BankEraseFacts, GoodKept
  <2>6. hdr' \in Headers \cup {NoHeader}
    BY <1>2, <1>7 DEF TypeOK
  <2> QED
    BY <1>4, <2>3, <2>5, <2>6
<1> QED
  BY <1>5, <1>6, <1>7 DEF PowerFails

LEMMA StutterBootInv ==
    ASSUME BootInv, UNCHANGED vars
    PROVE  BootInv'
  BY DEF vars, BootInv, TypeOK, Progress, Marked, Good, Slot, InBank, Offered, BankAllowed

LEMMA NextBootInv == BootInv /\ [Next]_vars => BootInv'
<1> SUFFICES ASSUME BootInv, [Next]_vars PROVE BootInv'
  OBVIOUS
<1>1. CASE CheckFota \/ EraseSome \/ CopyPage \/ CopyTail \/ WriteResult
  BY <1>1, CheckFotaInv, EraseSomeInv, CopyPageInv, CopyTailInv, WriteResultInv
<1>2. CASE VerifyApp \/ NoSerial \/ SerialStart \/ SerialEnd \/ Jump
  BY <1>2, VerifyNoSerialJumpInv, SerialStartInv, SerialEndInv
<1>3. CASE FillBank \/ EraseHeader \/ WriteHeader
  BY <1>3, FillBankInv, HeaderInv
<1>4. CASE Reset \/ PowerFails
  BY <1>4, ResetInv, PowerFailsInv
<1>5. CASE UNCHANGED vars
  BY <1>5, StutterBootInv
<1> QED
  BY <1>1, <1>2, <1>3, <1>4, <1>5 DEF Next, Boot

-----------------------------------------------------------------------------
(* In every reachable state either a complete application that may run is   *)
(* in its slot, or the bank offers one to install: what an installation     *)
(* must have done at each of its steps, and what a reset finds.             *)
THEOREM BootInvariant == Spec => []BootInv
  BY InitBootInv, NextBootInv, PTL DEF Spec

(* The types, the bounds of the offset among them, in every layout.         *)
THEOREM BootTypeCorrect == Spec => []TypeOK
<1>1. BootInv => TypeOK
  BY DEF BootInv
<1> QED
  BY <1>1, BootInvariant, PTL

(* main of bootloader.c never ends in the loop that finds no application:   *)
(* not for an unsigned image, not after any number of resets and power cuts.*)
THEOREM DeviceNeverHangs == Spec => []NeverHangs
<1>1. BootInv => NeverHangs
  BY DEF BootInv, Progress, NeverHangs
<1> QED
  BY <1>1, BootInvariant, PTL

(* load_image_into_flash writes nothing outside the application's slot,     *)
(* the loop for the last partial page included.                             *)
THEOREM InstallWritesSlotOnly == Spec => InstallKeepsTheRest
<1> DEFINE Kept == \A a \in Addr \ AppSlot :
                      pc \in {"erase", "copy", "tail"} => flash'[a] = flash[a]
<1>1. ASSUME BootInv, Next PROVE Kept
  <2> SUFFICES ASSUME pc \in {"erase", "copy", "tail"}
               PROVE  \A a \in Addr \ AppSlot : flash'[a] = flash[a]
    OBVIOUS
  <2>1. CASE Boot
    <3>1. EraseSome \/ CopyPage \/ CopyTail
      BY <2>1 DEF Boot, CheckFota, EraseSome, CopyPage, CopyTail, WriteResult, VerifyApp,
                  NoSerial, SerialStart, SerialEnd, Jump
    <3> QED
      BY <1>1, <3>1, EraseSomeFacts, CopyPageFacts, CopyTailFacts
  <2>2. CASE FillBank \/ EraseHeader \/ WriteHeader
    BY <2>2 DEF FillBank, EraseHeader, WriteHeader, BootInv, Marked
  <2>3. CASE Reset
    BY <2>3 DEF Reset
  <2>4. CASE PowerFails
    <3>1. pc \in {"erase", "copy"}
      BY <2>4 DEF PowerFails
    <3> QED
      BY <1>1, <2>4, <3>1, PowerFailsInstalling
  <2> QED
    BY <1>1, <2>1, <2>2, <2>3, <2>4 DEF Next
<1>2. BootInv /\ [Next]_vars => [Kept]_vars
  BY <1>1
<1> QED
  BY <1>2, BootInvariant, PTL DEF Spec, InstallKeepsTheRest

-----------------------------------------------------------------------------
(* Step simulation.  Most steps leave the application alone, and may offer  *)
(* an image or withdraw the offer.                                          *)
AbsStep == [Install!Next]_(Install!absVars)

LEMMA OfferNowType == TypeOK => OfferNow \in Images \cup {NoImage}
  BY OfferedFacts DEF OfferNow

LEMMA OfferNowTypeNext == TypeOK' => (OfferNow \in Images \cup {NoImage})'
  BY OfferNowType, PTL

LEMMA MarkOrWithdraw ==
    ASSUME TypeOK', InstalledNow' = InstalledNow, RunningNow' = RunningNow
    PROVE  AbsStep
<1>1. OfferNow' \in Images \cup {NoImage}
  BY OfferNowTypeNext
<1>2. CASE OfferNow' \in Images
  BY <1>2 DEF AbsStep, Install!Next, Install!Mark
<1>3. CASE OfferNow' = NoImage /\ OfferNow # NoImage
  BY <1>3 DEF AbsStep, Install!Next, Install!Withdraw
<1>4. CASE OfferNow' = OfferNow
  BY <1>4 DEF AbsStep, Install!absVars
<1> QED
  BY <1>1, <1>2, <1>3, <1>4

(* A step with a good application before and after, which is not started or *)
(* stopped.                                                                 *)
LEMMA SameApplication ==
    ASSUME TypeOK', Good, Good', Slot' = Slot, pc = "app" <=> pc' = "app"
    PROVE  AbsStep
<1>1. InstalledNow = Slot /\ InstalledNow' = Slot
  BY DEF InstalledNow, Good
<1>2. RunningNow' = RunningNow
  BY DEF RunningNow
<1> QED
  BY <1>1, <1>2, MarkOrWithdraw

(* A step of the installation: the image that is offered is the one that    *)
(* will run, whether the copy of it has begun, goes on, or is interrupted.  *)
LEMMA InstallStep ==
    ASSUME Offered, Offered', InBank' = InBank, InBank # NoImage,
           Slot' \in {NoImage, InBank}, pc # "app", pc' # "app"
    PROVE  AbsStep
<1>1. InstalledNow' = InBank /\ OfferNow' = NoImage
  BY DEF InstalledNow, OfferNow
<1>2. RunningNow = NoImage /\ RunningNow' = NoImage
  BY DEF RunningNow
<1>3. CASE Slot \in {NoImage, InBank}
  <2>1. InstalledNow = InBank /\ OfferNow = NoImage
    BY <1>3 DEF InstalledNow, OfferNow
  <2> QED
    BY <1>1, <1>2, <2>1 DEF AbsStep, Install!absVars
<1>4. CASE Slot \notin {NoImage, InBank}
  <2>1. InstalledNow = Slot /\ OfferNow = InBank
    BY <1>4 DEF InstalledNow, OfferNow
  <2>2. Install!Install
    BY <1>1, <1>2, <2>1 DEF Install!Install
  <2> QED
    BY <2>2 DEF AbsStep, Install!Next
<1> QED
  BY <1>3, <1>4

(* A boot that finds flash and offer as they were.                          *)
LEMMA SameFlash ==
    ASSUME flash' = flash, Offered' <=> Offered, RunningNow' = RunningNow
    PROVE  AbsStep
<1>1. Slot' = Slot /\ InBank' = InBank
  BY DEF Slot, InBank
<1> QED
  BY <1>1 DEF AbsStep, Install!absVars, InstalledNow, OfferNow

LEMMA InitRefines == Init => Install!Init
<1> SUFFICES ASSUME Init PROVE Install!Init
  OBVIOUS
<1>1. BootInv
  BY InitBootInv
<1>2. pc = "start" /\ hdr = NoHeader
  BY DEF Init
<1>3. ~Offered
  BY <1>2 DEF Offered, Pending, Untried
<1>4. Good
  BY <1>1, <1>2, <1>3 DEF BootInv, Progress
<1>5. InstalledNow \in Images /\ OfferNow = NoImage /\ RunningNow = NoImage
  BY <1>2, <1>3, <1>4, GoodFacts DEF InstalledNow, OfferNow, RunningNow
<1> QED
  BY <1>5 DEF Install!Init

LEMMA CheckFotaRefines ==
    ASSUME BootInv, CheckFota
    PROVE  AbsStep
<1>1. pc = "start" /\ flash' = flash /\ secure' = secure
  BY CheckFotaFacts
<1>2. CASE pc' = "erase" /\ Offered /\ hdr' = hdr
  <2>1. Offered'
    BY <1>1, <1>2 DEF Offered, BankAllowed
  <2> QED
    BY <1>1, <1>2, <2>1, SameFlash DEF RunningNow
<1>3. CASE pc' = "verify" /\ ~Offered /\ ~Untried(hdr')
  <2>1. ~Offered'
    BY <1>3 DEF Offered, Pending
  <2> QED
    BY <1>1, <1>3, <2>1, SameFlash DEF RunningNow
<1> QED
  BY <1>2, <1>3, CheckFotaFacts

LEMMA EraseCopyRefines ==
    ASSUME BootInv, EraseSome \/ CopyPage
    PROVE  AbsStep
<1>1. /\ pc \in {"erase", "copy"} /\ pc' \in {"erase", "copy", "tail"}
      /\ hdr' = hdr /\ secure' = secure
  BY DEF EraseSome, CopyPage
<1>2. \A a \in Addr \ AppSlot : flash'[a] = flash[a]
  BY EraseSomeFacts, CopyPageFacts
<1>3. /\ Offered /\ InBank \in Images /\ hdr.size \in Nat \ {0} /\ at \in Nat
      /\ AppStart + hdr.size <= BankStart /\ hdr.size <= BankSize
      /\ \A k \in 0..(hdr.size - 1) : flash[BankStart + k] = Byte(InBank, k)
  BY <1>1, InstallFacts
<1>4. Offered' /\ InBank' = InBank
  BY <1>1, <1>2, <1>3, AddrFacts, OfferedKept DEF BootInv
<1>5. AppStart + 0 = AppStart /\ BankStart + 0 = BankStart /\ AppStart \in Int
  BY LayoutFacts
<1>6. flash'[AppStart] \in {Erased, Byte(InBank, 0)}
  <2>1. CASE EraseSome
    <3>1. 0 \in Nat /\ 0 < at + EraseUnit(AppStart + at, hdr.size - at)
      BY <1>3, <2>1, EraseSomeFacts, LayoutFacts
    <3>2. flash'[AppStart + 0] = Erased
      BY <2>1, <3>1, EraseSomeFacts
    <3> QED
      BY <1>5, <3>2
  <2>2. CASE CopyPage
    <3>1. 0 \in 0..(hdr.size - 1) /\ 0 < at + PageSize
      BY <1>3, LayoutFacts
    <3>2. flash'[AppStart + 0] = flash'[BankStart + 0]
      BY <2>2, <3>1, CopyPageFacts
    <3>3. BankStart \in Addr \ AppSlot
      BY LayoutFacts DEF Addr, AppSlot
    <3>4. flash'[BankStart] = flash[BankStart]
      BY <1>2, <3>3
    <3>5. flash[BankStart + 0] = Byte(InBank, 0)
      BY <1>3, <3>1
    <3> QED
      BY <1>5, <3>2, <3>4, <3>5
  <2> QED
    BY <2>1, <2>2
<1>7. Slot' \in {NoImage, InBank}
  BY <1>3, <1>5, <1>6, ImageAtStartsWith DEF Slot
<1> QED
  BY <1>1, <1>3, <1>4, <1>7, ImageFacts, InstallStep

LEMMA PowerFailsRefines ==
    ASSUME BootInv, TypeOK', PowerFails
    PROVE  AbsStep
<1>1. pc' = "start" /\ secure' = secure /\ TypeOK
  BY DEF PowerFails, BootInv
<1>2. CASE pc \in {"erase", "copy"}
  <2>1. /\ hdr' = hdr /\ \A a \in Addr \ AppSlot : flash'[a] = flash[a]
        /\ flash'[AppStart] \in {Erased, Torn, Byte(InBank, 0)}
    BY <1>2, PowerFailsInstalling
  <2>2. Offered /\ InBank \in Images
    BY <1>2, InstallFacts
  <2>3. Offered' /\ InBank' = InBank
    BY <1>1, <2>1, <2>2, AddrFacts, OfferedKept
  <2>4. AppStart \in Int
    BY LayoutFacts
  <2>5. Slot' \in {NoImage, InBank}
    BY <2>1, <2>2, <2>4, ImageAtStartsWith DEF Slot
  <2> QED
    BY <1>1, <1>2, <2>2, <2>3, <2>5, ImageFacts, InstallStep
<1>3. CASE pc = "result" /\ UNCHANGED flash /\ hdr' = WithResult(hdr, "err")
  <2>1. Good /\ Good' /\ Slot' = Slot
    BY <1>1, <1>3, GoodUnchanged DEF BootInv, Progress
  <2> QED
    BY <1>1, <1>3, <2>1, SameApplication
<1>4. CASE /\ pc = "receive" \/ (pc = "app" /\ marking = NoImage)
           /\ \E n \in 0..BankSize - 1 :
                n % PageSize = 0 /\ flash' = TornBlock(flash, BankStart + n, PageSize)
           /\ UNCHANGED hdr
  <2>1. PICK n \in 0..BankSize - 1 : flash' = TornBlock(flash, BankStart + n, PageSize)
    BY <1>4
  <2>2. Good /\ Good' /\ Slot' = Slot
    <3>1. Good
      BY <1>4 DEF BootInv, Progress
    <3>2. n \in Nat
      BY LayoutFacts
    <3> QED
      BY <1>1, <2>1, <3>1, <3>2, BankEraseFacts, GoodKept
  <2>3. CASE pc = "receive"
    BY <1>1, <2>2, <2>3, SameApplication
  <2>4. CASE pc = "app"
    <3>1. \A v \in Images : Has(flash', BankStart, v) => Has(flash, BankStart, v)
      <4> SUFFICES ASSUME NEW v \in Images, Has(flash', BankStart, v),
                          NEW k \in 0..(Length[v] - 1)
                   PROVE  flash[BankStart + k] = Byte(v, k)
        BY DEF Has
      <4>1. flash'[BankStart + k] = Byte(v, k) /\ k \in Nat /\ BankStart + k \in Addr
        BY ImageFacts, LayoutFacts DEF Has, Addr
      <4>2. flash'[BankStart + k] \in {Torn, flash[BankStart + k]}
        BY <2>1, <4>1 DEF TornBlock
      <4> QED
        BY <4>1, <4>2, ByteFacts
    <3>2. OfferNow' # NoImage => OfferNow' = OfferNow
      <4> SUFFICES ASSUME OfferNow' # NoImage PROVE OfferNow' = OfferNow
        OBVIOUS
      <4>1. Offered' /\ Slot' \notin {NoImage, InBank'} /\ OfferNow' = InBank'
        BY DEF OfferNow
      <4>2. hdr \in Headers \cup {NoHeader} /\ hdr' = hdr /\ Pending(hdr, flash')
        BY <1>1, <1>4, <4>1 DEF TypeOK, Offered
      <4>3. PICK v \in Images : Has(flash', BankStart, v) /\ ImageAt(flash', BankStart) = v
        BY <4>2, PendingFacts
      <4>4. ImageAt(flash, BankStart) = v /\ Pending(hdr, flash)
        BY <3>1, <4>2, <4>3, ImageAtIs, PendingKept, LayoutFacts
      <4>5. Offered /\ InBank' = InBank
        BY <1>1, <4>1, <4>2, <4>3, <4>4 DEF Offered, BankAllowed, SignatureOk, InBank
      <4> QED
        BY <2>2, <4>1, <4>5 DEF OfferNow
    <3>3. InstalledNow = Slot /\ InstalledNow' = Slot /\ RunningNow = Slot /\ RunningNow' = NoImage
      BY <1>1, <2>2, <2>4 DEF InstalledNow, RunningNow, Good
    <3>4. Install!Stop
      BY <2>2, <3>2, <3>3 DEF Install!Stop, Good
    <3> QED
      BY <3>4 DEF AbsStep, Install!Next
  <2> QED
    BY <1>4, <2>3, <2>4
<1> QED
  BY <1>2, <1>3, <1>4 DEF PowerFails

LEMMA JumpResetRefines ==
    ASSUME BootInv, Jump \/ Reset
    PROVE  AbsStep
<1>1. UNCHANGED <<flash, hdr, secure>>
  BY DEF Jump, Reset
<1>2. Slot' = Slot /\ OfferNow' = OfferNow /\ InstalledNow' = InstalledNow /\ Offered' = Offered
  BY <1>1 DEF Slot, OfferNow, InstalledNow, Offered, BankAllowed, InBank
<1>3. pc \in {"jump", "app"} => Good
  BY DEF BootInv, Progress
<1>4. Good => InstalledNow = Slot /\ Slot # NoImage
  BY DEF Good, InstalledNow
<1>5. CASE Jump
  <2>1. pc = "jump" /\ pc' = "app"
    BY <1>3, <1>5, GoodFacts DEF Jump
  <2>2. Install!Start
    BY <1>2, <1>3, <1>4, <2>1 DEF Install!Start, RunningNow
  <2> QED
    BY <2>2 DEF AbsStep, Install!Next
<1>6. CASE Reset /\ pc = "app"
  <2>1. pc' = "start"
    BY <1>6 DEF Reset
  <2>2. Install!Stop
    BY <1>2, <1>3, <1>4, <1>6, <2>1 DEF Install!Stop, RunningNow
  <2> QED
    BY <2>2 DEF AbsStep, Install!Next
<1>7. CASE Reset /\ pc # "app"
  <2>1. RunningNow' = RunningNow
    BY <1>7 DEF RunningNow, Reset
  <2> QED
    BY <1>1, <1>2, <2>1, SameFlash
<1> QED
  BY <1>5, <1>6, <1>7

(* The other steps find and leave a good application.                       *)
LEMMA QuietRefines ==
    ASSUME BootInv, BootInv',
           CopyTail \/ WriteResult \/ VerifyApp \/ NoSerial \/ SerialStart \/ SerialEnd
              \/ FillBank \/ EraseHeader \/ WriteHeader
    PROVE  AbsStep
<1>1. TypeOK' /\ secure' = secure
  BY DEF BootInv, CopyTail, WriteResult, VerifyApp, NoSerial, SerialStart, SerialEnd,
         FillBank, EraseHeader, WriteHeader
<1>2. /\ pc \in {"tail", "result", "verify", "serial", "receive", "app"}
      /\ pc = "app" <=> pc' = "app"
  BY DEF CopyTail, WriteResult, VerifyApp, NoSerial, SerialStart, SerialEnd,
         FillBank, EraseHeader, WriteHeader
<1>3. Good
  BY <1>2 DEF BootInv, Progress
<1>4. \A a \in AppSlot : flash'[a] = flash[a]
  <2>1. CASE CopyTail
    BY <2>1, CopyTailFacts
  <2>2. CASE WriteResult \/ VerifyApp \/ NoSerial \/ EraseHeader \/ WriteHeader
    BY <2>2 DEF WriteResult, VerifyApp, NoSerial, EraseHeader, WriteHeader
  <2>3. CASE SerialStart
    <3>1. flash' = EraseBlock(flash, BankStart + 0, BankSize)
      BY <2>3, LayoutFacts DEF SerialStart
    <3> QED
      BY <3>1, BankEraseFacts
  <2>4. CASE SerialEnd \/ FillBank
    <3>1. \E v \in Images, n \in Nat : flash' = BankWith(flash, v, n)
      BY <2>4, ImageFacts, LayoutFacts DEF SerialEnd, FillBank
    <3> QED
      BY <3>1, BankWithFacts
  <2> QED
    BY <2>1, <2>2, <2>3, <2>4
<1>5. Good' /\ Slot' = Slot
  BY <1>1, <1>3, <1>4, GoodKept
<1> QED
  BY <1>1, <1>2, <1>3, <1>5, SameApplication

LEMMA NextRefines == BootInv /\ BootInv' /\ [Next]_vars => AbsStep
<1> SUFFICES ASSUME BootInv, BootInv', [Next]_vars PROVE AbsStep
  OBVIOUS
<1>1. CASE CheckFota \/ EraseSome \/ CopyPage
  BY <1>1, CheckFotaRefines, EraseCopyRefines
<1>2. CASE CopyTail \/ WriteResult \/ VerifyApp \/ NoSerial \/ SerialStart \/ SerialEnd
              \/ FillBank \/ EraseHeader \/ WriteHeader
  BY <1>2, QuietRefines
<1>3. CASE Jump \/ Reset
  BY <1>3, JumpResetRefines
<1>4. CASE PowerFails
  BY <1>4, PowerFailsRefines DEF BootInv
<1>5. CASE UNCHANGED vars
  <2>1. flash' = flash /\ (Offered' <=> Offered) /\ RunningNow' = RunningNow
    BY <1>5 DEF vars, Offered, BankAllowed, RunningNow, Slot
  <2> QED
    BY <2>1, SameFlash
<1> QED
  BY <1>1, <1>2, <1>3, <1>4, <1>5 DEF Next, Boot

(* The bootloader implements Installer: an update replaces the application  *)
(* as a whole or not at all, wherever resets and power cuts fall.           *)
THEOREM AtomicInstall == Spec => InstallsAtomically
<1>1. BootInv /\ BootInv' /\ [Next]_vars => [Install!Next]_(Install!absVars)
  BY NextRefines DEF AbsStep
<1> QED
  BY <1>1, InitRefines, BootInvariant, PTL DEF Spec, InstallsAtomically, Install!Spec

=============================================================================
