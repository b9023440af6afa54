--------------------------- MODULE OtaFlashProofs ---------------------------
(***************************************************************************)
(* Lemmas about the operators of OtaFlash, for every page, program unit    *)
(* and bank size: what a block received, and the last one, do to a flash   *)
(* state.  The proofs about the storage and about the client rest on them. *)
(***************************************************************************)
EXTENDS OtaFlash, TLAPS

-----------------------------------------------------------------------------
(* Arithmetic: quotient and remainder by a positive number.                 *)
LEMMA DivMod ==
    ASSUME NEW p \in Nat \ {0}, NEW x \in Int
    PROVE  /\ x = p * (x \div p) + (x % p)
           /\ x % p \in 0..(p - 1) /\ x \div p \in Int
  BY SMTT(20)

LEMMA MulGap ==
    ASSUME NEW p \in Nat \ {0}, NEW a \in Int, NEW b \in Int, a < b
    PROVE  p * b >= p * a + p
<1>1. b - a >= 1
  OBVIOUS
<1>2. p * (b - a) >= p
  BY <1>1, SMTT(20)
<1>3. p * (b - a) = p * b - p * a
  BY SMTT(20)
<1> QED
  BY <1>2, <1>3, SMTT(20)

LEMMA ModUnique ==
    ASSUME NEW p \in Nat \ {0}, NEW q \in Int, NEW r \in 0..(p - 1)
    PROVE  (p * q + r) % p = r
<1> DEFINE x == p * q + r
<1>1. x \in Int /\ p * q \in Int
  BY SMTT(20)
<1>2. x = p * (x \div p) + (x % p) /\ x % p \in 0..(p - 1) /\ x \div p \in Int
  BY <1>1, DivMod
<1> HIDE DEF x
<1>3. CASE q < x \div p
  <2>1. p * (x \div p) >= p * q + p
    BY <1>2, <1>3, MulGap
  <2> QED
    BY <2>1, <1>2, <1>1, SMTT(20) DEF x
<1>4. CASE x \div p < q
  BY <1>2, <1>4, MulGap, <1>1 DEF x
<1>5. CASE q = x \div p
  BY <1>2, <1>5, <1>1 DEF x
<1> QED
  BY <1>3, <1>4, <1>5, <1>2 DEF x

(* Less than a page above a page boundary rounds down to that boundary.     *)
LEMMA RoundDownPage ==
    ASSUME NEW f \in Int, f % PageSize = 0, NEW r \in 0..(PageSize - 1)
    PROVE  RoundDown(f + r) = f
<1>1. PageSize \in Nat \ {0}
  BY SizesAssumption
<1>2. f = PageSize * (f \div PageSize) /\ f \div PageSize \in Int
  BY <1>1, DivMod
<1>3. (PageSize * (f \div PageSize) + r) % PageSize = r
  BY <1>1, <1>2, ModUnique
<1> QED
  BY <1>1, <1>2, <1>3 DEF RoundDown

(* The next page boundary is one, too.                                      *)
LEMMA NextPage ==
    ASSUME NEW f \in Int, f % PageSize = 0
    PROVE  (f + PageSize) % PageSize = 0
<1>1. PageSize \in Nat \ {0}
  BY SizesAssumption
<1>2. f = PageSize * (f \div PageSize) /\ f \div PageSize \in Int
  BY <1>1, DivMod
<1>3. PageSize * (f \div PageSize) + PageSize = PageSize * ((f \div PageSize) + 1) + 0
  BY <1>1, <1>2, SMTT(20)
<1>4. (PageSize * ((f \div PageSize) + 1) + 0) % PageSize = 0
  BY <1>1, <1>2, ModUnique
<1> QED
  BY <1>2, <1>3, <1>4

(* A rounded-down offset is a page boundary.                                *)
LEMMA RoundedIsBoundary ==
    ASSUME NEW o \in Nat, RoundDown(o) = o
    PROVE  o % PageSize = 0
<1>1. PageSize \in Nat \ {0}
  BY SizesAssumption
<1>2. o % PageSize \in 0..(PageSize - 1)
  BY <1>1, DivMod
<1> QED
  BY <1>2 DEF RoundDown

(* Rounded down twice is rounded down once; a file offset stays one.        *)
LEMMA RoundDownFacts ==
    ASSUME NEW o \in Int
    PROVE  /\ RoundDown(o) \in Int /\ RoundDown(o) <= o
           /\ RoundDown(o) % PageSize = 0 /\ RoundDown(RoundDown(o)) = RoundDown(o)
           /\ o \in Nat => RoundDown(o) \in Nat
<1> DEFINE q == o \div PageSize
<1>1. PageSize \in Nat \ {0}
  BY SizesAssumption
<1>2. o % PageSize \in 0..(PageSize - 1) /\ o = PageSize * q + (o % PageSize) /\ q \in Int
  BY <1>1, DivMod
<1>3. PageSize * q \in Int
  BY <1>1, <1>2, SMTT(20)
<1> HIDE DEF q
<1>4. RoundDown(o) = PageSize * q
  BY <1>1, <1>2, <1>3 DEF RoundDown
<1>5. (PageSize * q + 0) % PageSize = 0
  BY <1>1, <1>2, ModUnique
<1>6. RoundDown(o) % PageSize = 0
  BY <1>3, <1>4, <1>5
<1>7. RoundDown(RoundDown(o)) = RoundDown(o)
  <2> DEFINE r == RoundDown(o)
  <2>1. r \in Int /\ r % PageSize = 0
    BY <1>3, <1>4, <1>6
  <2> HIDE DEF r
  <2>2. RoundDown(r) = r
    BY <2>1 DEF RoundDown
  <2> QED
    BY <2>2 DEF r
<1>8. o \in Nat => PageSize * q \in Nat
  <2> SUFFICES ASSUME o \in Nat
               PROVE  PageSize * q >= 0
    BY <1>3
  <2>1. CASE q < 0
    <3>1. PageSize * 0 >= PageSize * q + PageSize
      BY <1>1, <1>2, <2>1, MulGap
    <3>2. PageSize * 0 = 0
      BY <1>1, SMTT(20)
    <3> QED
      BY <1>1, <1>2, <1>3, <3>1, <3>2
  <2>2. CASE q >= 0
    BY <1>1, <1>2, <2>2, SMTT(20)
  <2> QED
    BY <1>2, <2>1, <2>2
<1> QED
  BY <1>2, <1>3, <1>4, <1>6, <1>7, <1>8, <1>1

(* Rounding up to program units covers what is there.                       *)
LEMMA RoundUpCovers ==
    ASSUME NEW n \in Nat
    PROVE  RoundUpProg(n) \in Nat /\ RoundUpProg(n) >= n
<1> DEFINE x == n + ProgSize - 1
<1>1. ProgSize \in Nat \ {0} /\ x \in Int
  BY SizesAssumption
<1>2. /\ x = ProgSize * (x \div ProgSize) + (x % ProgSize)
      /\ x % ProgSize \in 0..(ProgSize - 1) /\ x \div ProgSize \in Int
  BY <1>1, DivMod
<1>3. ProgSize * (x \div ProgSize) = (x \div ProgSize) * ProgSize
      /\ (x \div ProgSize) * ProgSize \in Int
  BY <1>1, <1>2, SMTT(20)
<1> QED
  BY <1>1, <1>2, <1>3 DEF RoundUpProg

(* A multiple of the program unit that bounds n bounds n rounded up.        *)
LEMMA RoundUpStays ==
    ASSUME NEW n \in 0..(PageSize - 1)
    PROVE  RoundUpProg(n) <= PageSize
<1> DEFINE x == n + ProgSize - 1
           q == x \div ProgSize
           m == PageSize \div ProgSize
<1>1. ProgSize \in Nat \ {0} /\ x \in Int /\ PageSize \in Nat
  BY SizesAssumption
<1>2. x = ProgSize * q + (x % ProgSize) /\ x % ProgSize \in 0..(ProgSize - 1) /\ q \in Int
  BY <1>1, DivMod
<1>3. PageSize = ProgSize * m /\ m \in Int
  BY <1>1, DivMod, SizesAssumption
<1> HIDE DEF q, m
<1>4. ~(m < q)
  <2> SUFFICES ASSUME m < q
               PROVE  FALSE
    OBVIOUS
  <2>1. ProgSize * q >= ProgSize * m + ProgSize
    BY <1>1, <1>2, <1>3, MulGap
  <2>2. ProgSize * q \in Int
    BY <1>1, <1>2, SMTT(20)
  <2> QED
    BY <1>1, <1>2, <1>3, <2>1, <2>2
<1>5. q * ProgSize <= PageSize
  <2>1. q = m \/ q < m
    BY <1>2, <1>3, <1>4
  <2>2. q * ProgSize = ProgSize * q /\ ProgSize * q \in Int
    BY <1>1, <1>2, SMTT(20)
  <2>3. CASE q < m
    BY <1>1, <1>2, <1>3, <2>2, <2>3, MulGap
  <2> QED
    BY <1>3, <2>1, <2>2, <2>3
<1> QED
  BY <1>5 DEF RoundUpProg, q

-----------------------------------------------------------------------------
LEMMA FlashFacts ==
    /\ PageSize \in Nat \ {0} /\ BankSize \in Nat \ {0} /\ BufSize = 2 * PageSize
    /\ BufSize \in Nat /\ BufIndex = 0..(BufSize - 1)
  BY SizesAssumption DEF BufSize, BufIndex

LEMMA CellFacts ==
    /\ Erased \in Cell /\ Junk \in Cell
    /\ \A v \in Versions, o \in 0..BankSize : FileByte(v, o) \in Cell
    /\ \A v \in Versions, o \in 0..BankSize : FileByte(v, o) # Erased /\ FileByte(v, o) # Junk
  BY CellsAssumption DEF Cell, FileByte

(* Programming keeps every cell a cell.                                     *)
LEMMA ProgrammedType ==
    ASSUME NEW bk \in [Bank -> Cell], NEW b \in [BufIndex -> Cell], NEW src \in Nat,
           NEW addr \in Int, NEW n \in Nat, src + n <= BufSize
    PROVE  Programmed(bk, b, src, addr, n) \in [Bank -> Cell]
<1> SUFFICES ASSUME NEW a \in Bank, a >= addr, a < addr + n
             PROVE  Program(bk[a], b[src + (a - addr)]) \in Cell
  BY DEF Programmed
<1>1. src + (a - addr) \in BufIndex
  BY FlashFacts DEF Bank
<1> QED
  BY <1>1, CellFacts DEF Program

(* Programming nothing changes nothing.                                     *)
LEMMA ProgrammedNothing ==
    ASSUME NEW bk \in [Bank -> Cell], NEW b, NEW src \in Nat, NEW addr \in Int
    PROVE  Programmed(bk, b, src, addr, 0) = bk
<1>1. \A a \in Bank : ~(a >= addr /\ a < addr + 0)
  BY FlashFacts DEF Bank
<1> QED
  BY <1>1 DEF Programmed

-----------------------------------------------------------------------------
(* What the two memcpy of zb_osif_ota_write put where.                      *)
LEMMA FilledFacts ==
    ASSUME NEW v \in Versions, NEW o \in Nat, NEW n \in Nat, o + n <= BankSize,
           n <= PageSize, inPtr \in BufIndex, buf \in [BufIndex -> Cell]
    PROVE  /\ Filled(v, o, n) \in [BufIndex -> Cell]
           /\ \A k \in BufIndex :
                /\ k >= inPtr /\ k < inPtr + n => Filled(v, o, n)[k] = FileByte(v, o + (k - inPtr))
                /\ k + BufSize < inPtr + n =>
                      Filled(v, o, n)[k] = FileByte(v, o + (k + BufSize - inPtr))
                /\ ~(k >= inPtr /\ k < inPtr + n) /\ ~(k + BufSize < inPtr + n) =>
                      Filled(v, o, n)[k] = buf[k]
<1> DEFINE val(k) == IF k >= inPtr /\ k < inPtr + n THEN FileByte(v, o + (k - inPtr))
                     ELSE IF k + BufSize < inPtr + n THEN FileByte(v, o + (k + BufSize - inPtr))
                     ELSE buf[k]
<1>1. Filled(v, o, n) = [k \in BufIndex |-> val(k)]
  BY DEF Filled
<1>2. \A k \in BufIndex : val(k) \in Cell
  <2> TAKE k \in BufIndex
  <2>1. k >= inPtr /\ k < inPtr + n => o + (k - inPtr) \in 0..BankSize
    BY FlashFacts
  <2>2. k + BufSize < inPtr + n => o + (k + BufSize - inPtr) \in 0..BankSize
    BY FlashFacts
  <2> QED
    BY <2>1, <2>2, CellFacts
<1>3. \A k \in BufIndex :
         k >= inPtr /\ k < inPtr + n => ~(k + BufSize < inPtr + n)
  BY FlashFacts
<1>4. \A k \in BufIndex :
        /\ k >= inPtr /\ k < inPtr + n => val(k) = FileByte(v, o + (k - inPtr))
        /\ k + BufSize < inPtr + n => val(k) = FileByte(v, o + (k + BufSize - inPtr))
        /\ ~(k >= inPtr /\ k < inPtr + n) /\ ~(k + BufSize < inPtr + n) => val(k) = buf[k]
  BY <1>3
<1> HIDE DEF val
<1> QED
  BY <1>1, <1>2, <1>4

HasFlashFields(f) ==
    f = [buf |-> f.buf, in |-> f.in, out |-> f.out, addr |-> f.addr, bank |-> f.bank]

Now == [buf |-> buf, in |-> inPtr, out |-> outPtr, addr |-> flashAddr, bank |-> bank]

(* The pointers of a flash state that expects the byte at offset o next.    *)
Placed(f, o) ==
    /\ HasFlashFields(f)
    /\ f.buf \in [BufIndex -> Cell] /\ f.bank \in [Bank -> Cell]
    /\ f.out \in {0, PageSize} /\ f.in \in BufIndex
    /\ f.addr \in Int
    /\ f.out <= f.in /\ f.in < f.out + PageSize
    /\ f.addr + (f.in - f.out) = o

(* ... and what is in buffer and bank when all that was of version v's file *)
(* of s bytes.                                                              *)
Sound(f, v, s, o) ==
    /\ Placed(f, o)
    /\ f.addr \in Nat /\ f.addr % PageSize = 0
    /\ \A a \in Bank : a < f.addr => f.bank[a] = FileByte(v, a)
    /\ \A k \in BufIndex : k >= f.out /\ k < f.in => f.buf[k] = FileByte(v, f.addr + (k - f.out))
    /\ \A a \in Bank : a >= f.addr /\ a < s => f.bank[a] \in {Erased, FileByte(v, a)}

(* One block received: either it stays in the current half of the buffer,   *)
(* or it completes the half, which is programmed, and starts the other.     *)
LEMMA WrittenPlaced ==
    ASSUME NEW v \in Versions, NEW o \in Nat, NEW n \in 1..PageSize, o + n <= BankSize,
           Placed(Now, o)
    PROVE  /\ Placed(Written(v, o, n), o + n)
           /\ Written(v, o, n).buf = Filled(v, o, n)
           /\ \/ /\ inPtr + n < outPtr + PageSize
                 /\ Written(v, o, n).in = inPtr + n /\ Written(v, o, n).out = outPtr
                 /\ Written(v, o, n).addr = flashAddr /\ Written(v, o, n).bank = bank
              \/ /\ inPtr + n >= outPtr + PageSize
                 /\ Written(v, o, n).in = IF outPtr = 0 THEN inPtr + n ELSE inPtr + n - BufSize
                 /\ Written(v, o, n).out = PageSize - outPtr
                 /\ Written(v, o, n).addr = flashAddr + PageSize
                 /\ Written(v, o, n).bank =
                       Programmed(bank, Filled(v, o, n), outPtr, flashAddr, PageSize)
<1> DEFINE b == Filled(v, o, n)
           in == Advance(inPtr, n)
           w == Written(v, o, n)
<1> USE FlashFacts
<1>2. /\ outPtr \in {0, PageSize} /\ inPtr \in Nat /\ inPtr \in BufIndex /\ flashAddr \in Int
      /\ outPtr <= inPtr /\ inPtr < outPtr + PageSize
      /\ flashAddr + (inPtr - outPtr) = o
      /\ buf \in [BufIndex -> Cell] /\ bank \in [Bank -> Cell]
  BY DEF Placed, Now
<1>3. b \in [BufIndex -> Cell]
  BY <1>2, FilledFacts
<1> DEFINE c == IF Contiguous(outPtr, in) >= PageSize THEN PageSize ELSE 0
<1>10. w = [buf |-> b, in |-> in, out |-> Advance(outPtr, c), addr |-> flashAddr + c,
            bank |-> Programmed(bank, b, outPtr, flashAddr, c)]
  BY DEF Written
<1> HIDE DEF b, w
<1>7. CASE inPtr + n < outPtr + PageSize
  <2>1. in = inPtr + n /\ Contiguous(outPtr, in) < PageSize
    BY <1>2, <1>7 DEF Advance, Contiguous
  <2>6. c = 0 /\ Advance(outPtr, c) = outPtr /\ flashAddr + c = flashAddr /\ outPtr \in Nat
    <3>1. in \in Int /\ c = 0
      BY <2>1, <1>2 DEF Contiguous
    <3> HIDE DEF c
    <3> QED
      BY <3>1, <1>2 DEF Advance
  <2>7. Programmed(bank, b, outPtr, flashAddr, c) = bank
    BY <2>6, <1>2, ProgrammedNothing
  <2>5. in \in BufIndex /\ outPtr <= in /\ in < outPtr + PageSize /\ flashAddr + (in - outPtr) = o + n
    BY <1>2, <1>7, <2>1
  <2> HIDE DEF in, c
  <2>2. w = [buf |-> b, in |-> in, out |-> outPtr, addr |-> flashAddr, bank |-> bank]
    BY <2>6, <2>7, <1>10
  <2>3. Placed(w, o + n)
    BY <1>2, <1>3, <2>2, <2>5 DEF Placed, HasFlashFields
  <2> QED
    BY <1>7, <2>1, <2>2, <2>3 DEF w, b
<1>8. CASE inPtr + n >= outPtr + PageSize
  <2>1. Contiguous(outPtr, in) >= PageSize
    BY <1>2, <1>8 DEF Advance, Contiguous
  <2>13. c = PageSize
    BY <2>1
  <2> HIDE DEF c
  <2>2. /\ w.bank = Programmed(bank, b, outPtr, flashAddr, PageSize)
        /\ w.addr = flashAddr + PageSize /\ w.buf = b /\ w.in = in
        /\ w.out = Advance(outPtr, PageSize) /\ HasFlashFields(w)
    BY <2>13, <1>10 DEF HasFlashFields
  <2>3. /\ w.out = PageSize - outPtr /\ in = IF outPtr = 0 THEN inPtr + n ELSE inPtr + n - BufSize
        /\ w.out \in {0, PageSize}
        /\ w.out <= in /\ in < w.out + PageSize /\ in \in BufIndex
        /\ w.addr + (in - w.out) = o + n /\ w.addr \in Int
    BY <1>2, <1>8, <2>2 DEF Advance
  <2>4. w.bank \in [Bank -> Cell]
    <3>1. outPtr \in Nat /\ outPtr + PageSize <= BufSize /\ flashAddr \in Int /\ PageSize \in Nat
      BY <1>2
    <3>2. Programmed(bank, b, outPtr, flashAddr, PageSize) \in [Bank -> Cell]
      BY <1>2, <1>3, <3>1, ProgrammedType
    <3> QED
      BY <2>2, <3>2
  <2> HIDE DEF in
  <2>5. Placed(w, o + n)
    BY <1>3, <2>2, <2>3, <2>4 DEF Placed
  <2> QED
    BY <1>8, <2>2, <2>3, <2>5 DEF w, b
<1> QED
  BY <1>2, <1>7, <1>8

LEMMA WrittenSound ==
    ASSUME NEW v \in Versions, NEW s \in 1..BankSize, NEW o \in Nat, NEW n \in 1..PageSize,
           o + n <= s, Sound(Now, v, s, o)
    PROVE  Sound(Written(v, o, n), v, s, o + n)
<1> DEFINE b == Filled(v, o, n)
           w == Written(v, o, n)
<1> USE FlashFacts
<1>2. /\ outPtr \in {0, PageSize} /\ inPtr \in Nat /\ inPtr \in BufIndex /\ flashAddr \in Nat
      /\ outPtr <= inPtr /\ inPtr < outPtr + PageSize
      /\ flashAddr + (inPtr - outPtr) = o
      /\ buf \in [BufIndex -> Cell] /\ bank \in [Bank -> Cell]
      /\ flashAddr % PageSize = 0
  BY DEF Sound, Placed, Now
<1>5. /\ \A a \in Bank : a < flashAddr => bank[a] = FileByte(v, a)
      /\ \A k \in BufIndex : k >= outPtr /\ k < inPtr => buf[k] = FileByte(v, flashAddr + (k - outPtr))
      /\ \A a \in Bank : a >= flashAddr /\ a < s => bank[a] \in {Erased, FileByte(v, a)}
  BY DEF Sound, Now
<1>9. \A k \in BufIndex :
        /\ k >= inPtr /\ k < inPtr + n => b[k] = FileByte(v, o + (k - inPtr))
        /\ k + BufSize < inPtr + n => b[k] = FileByte(v, o + (k + BufSize - inPtr))
        /\ ~(k >= inPtr /\ k < inPtr + n) /\ ~(k + BufSize < inPtr + n) => b[k] = buf[k]
  BY <1>2, FilledFacts
<1>10. /\ Placed(w, o + n) /\ w.buf = b
       /\ \/ /\ inPtr + n < outPtr + PageSize
             /\ w.in = inPtr + n /\ w.out = outPtr /\ w.addr = flashAddr /\ w.bank = bank
          \/ /\ inPtr + n >= outPtr + PageSize
             /\ w.in = IF outPtr = 0 THEN inPtr + n ELSE inPtr + n - BufSize
             /\ w.out = PageSize - outPtr /\ w.addr = flashAddr + PageSize
             /\ w.bank = Programmed(bank, b, outPtr, flashAddr, PageSize)
  <2>1. o + n <= BankSize /\ Placed(Now, o)
    BY DEF Sound
  <2> QED
    BY <2>1, WrittenPlaced
<1> HIDE DEF b, w
<1>4. \A k \in BufIndex : k >= outPtr /\ k < inPtr + n => b[k] = FileByte(v, flashAddr + (k - outPtr))
  <2> SUFFICES ASSUME NEW k \in BufIndex, k >= outPtr, k < inPtr + n
               PROVE  b[k] = FileByte(v, flashAddr + (k - outPtr))
    OBVIOUS
  <2>1. CASE k < inPtr
    <3>1. b[k] = buf[k]
      BY <1>9, <1>2, <2>1
    <3> QED
      BY <1>5, <3>1, <2>1
  <2>2. CASE k >= inPtr
    <3>1. b[k] = FileByte(v, o + (k - inPtr))
      BY <1>9, <1>2, <2>2
    <3>2. o + (k - inPtr) = flashAddr + (k - outPtr)
      BY <1>2
    <3> QED
      BY <3>1, <3>2
  <2> QED
    BY <1>2, <2>1, <2>2
<1>7. CASE /\ inPtr + n < outPtr + PageSize
           /\ w.in = inPtr + n /\ w.out = outPtr /\ w.addr = flashAddr /\ w.bank = bank
  <2>1. Placed(w, o + n) /\ w.buf = b
    BY <1>10
  <2>2. \A k \in BufIndex : k >= w.out /\ k < w.in => b[k] = FileByte(v, w.addr + (k - w.out))
    BY <1>4, <1>7
  <2>3. /\ w.addr \in Nat /\ w.addr % PageSize = 0
        /\ \A a \in Bank : a < w.addr => w.bank[a] = FileByte(v, a)
        /\ \A a \in Bank : a >= w.addr /\ a < s => w.bank[a] \in {Erased, FileByte(v, a)}
    BY <1>2, <1>5, <1>7
  <2>4. \A k \in BufIndex : k >= w.out /\ k < w.in => w.buf[k] = FileByte(v, w.addr + (k - w.out))
    BY <2>1, <2>2
  <2> QED
    BY <2>1, <2>3, <2>4, Zenon DEF Sound, w
<1>8. CASE /\ inPtr + n >= outPtr + PageSize
           /\ w.in = IF outPtr = 0 THEN inPtr + n ELSE inPtr + n - BufSize
           /\ w.out = PageSize - outPtr /\ w.addr = flashAddr + PageSize
           /\ w.bank = Programmed(bank, b, outPtr, flashAddr, PageSize)
  <2>5. \A a \in Bank : a < w.addr => w.bank[a] = FileByte(v, a)
    <3> SUFFICES ASSUME NEW a \in Bank, a < flashAddr + PageSize
                 PROVE  w.bank[a] = FileByte(v, a)
      BY <1>8
    <3>1. CASE a < flashAddr
      BY <3>1, <1>2, <1>5, <1>8 DEF Programmed, Bank
    <3>2. CASE a >= flashAddr
      <4>1. w.bank[a] = Program(bank[a], b[outPtr + (a - flashAddr)])
        BY <3>2, <1>8 DEF Programmed
      <4>2. outPtr + (a - flashAddr) \in BufIndex
        BY <3>2, <1>2 DEF Bank
      <4>3. /\ outPtr + (a - flashAddr) >= outPtr
            /\ outPtr + (a - flashAddr) < inPtr + n
            /\ flashAddr + ((outPtr + (a - flashAddr)) - outPtr) = a
        BY <3>2, <1>2, <1>8 DEF Bank
      <4>4. b[outPtr + (a - flashAddr)] = FileByte(v, a)
        BY <4>2, <4>3, <1>4
      <4>5. bank[a] \in {Erased, FileByte(v, a)}
        <5>1. a < s
          BY <1>2, <1>8, <3>2 DEF Bank
        <5> QED
          BY <5>1, <3>2, <1>5
      <4> QED
        BY <4>1, <4>4, <4>5 DEF Program
    <3> QED
      BY <3>1, <3>2, <1>2 DEF Bank
  <2>6. \A k \in BufIndex :
          k >= w.out /\ k < w.in => b[k] = FileByte(v, w.addr + (k - w.out))
    <3> SUFFICES ASSUME NEW k \in BufIndex, k >= w.out, k < w.in
                 PROVE  b[k] = FileByte(v, w.addr + (k - w.out))
      OBVIOUS
    <3>1. CASE outPtr = 0
      <4>1. k >= outPtr /\ k < inPtr + n /\ flashAddr + (k - outPtr) = w.addr + (k - w.out)
        BY <3>1, <1>8, <1>2
      <4> QED
        BY <4>1, <1>4
    <3>2. CASE outPtr = PageSize
      <4>1. w.in = inPtr + n - BufSize /\ w.out = 0 /\ outPtr # 0
        BY <3>2, <1>2, <1>8
      <4>2. b[k] = FileByte(v, o + (k + BufSize - inPtr))
        BY <4>1, <1>9, <1>2
      <4>3. o + (k + BufSize - inPtr) = w.addr + (k - w.out)
        BY <4>1, <3>2, <1>8, <1>2
      <4> QED
        BY <4>2, <4>3
    <3> QED
      BY <3>1, <3>2, <1>2
  <2>7. \A a \in Bank : a >= w.addr /\ a < s => w.bank[a] \in {Erased, FileByte(v, a)}
    BY <1>2, <1>5, <1>8 DEF Programmed, Bank
  <2>8. w.addr \in Nat /\ w.addr % PageSize = 0
    <3>1. flashAddr \in Int /\ flashAddr + PageSize \in Nat
      BY <1>2
    <3>2. (flashAddr + PageSize) % PageSize = 0
      BY <1>2, <3>1, NextPage
    <3> QED
      BY <1>8, <3>1, <3>2
  <2>9. Placed(w, o + n) /\ w.buf = b
    BY <1>10
  <2>10. \A k \in BufIndex : k >= w.out /\ k < w.in => w.buf[k] = FileByte(v, w.addr + (k - w.out))
    BY <2>6, <2>9
  <2> QED
    BY <2>5, <2>7, <2>8, <2>9, <2>10, Zenon DEF Sound, w
<1> QED
  BY <1>7, <1>8, <1>10 DEF w

(* The offset of a download, rounded down, is the write address: everything *)
(* below it is in flash.                                                    *)
LEMMA SoundFlashed ==
    ASSUME NEW f, NEW v, NEW s, NEW o, Sound(f, v, s, o)
    PROVE  RoundDown(o) = f.addr /\ Holds(f.bank, v, RoundDown(o))
<1>1. /\ f.addr \in Int /\ f.addr % PageSize = 0 /\ f.in - f.out \in 0..(PageSize - 1)
      /\ f.addr + (f.in - f.out) = o
  BY FlashFacts DEF Sound, Placed
<1>2. RoundDown(o) = f.addr
  BY <1>1, RoundDownPage
<1> QED
  BY <1>2 DEF Sound, Holds

(* A block received damages no byte of the file that is in its place.       *)
LEMMA WrittenKeeps ==
    ASSUME NEW v \in Versions, NEW s \in 1..BankSize, NEW o \in Nat, NEW n \in 1..PageSize,
           o + n <= s, Sound(Now, v, s, o),
           NEW a \in Bank, a < s, bank[a] \in {Erased, FileByte(v, a)}
    PROVE  /\ Written(v, o, n).bank[a] \in {Erased, FileByte(v, a)}
           /\ bank[a] = FileByte(v, a) => Written(v, o, n).bank[a] = FileByte(v, a)
<1> DEFINE w == Written(v, o, n)
<1>1. Sound(w, v, s, o + n)
  BY WrittenSound
<1>2. /\ flashAddr \in Int /\ a \in Int /\ w.addr \in Int
      /\ a < w.addr => w.bank[a] = FileByte(v, a)
      /\ a >= w.addr => w.bank[a] \in {Erased, FileByte(v, a)}
  BY <1>1, FlashFacts DEF Sound, Placed, Now, Bank
<1>3. \/ w.bank = bank
      \/ /\ w.addr = flashAddr + PageSize
         /\ w.bank = Programmed(bank, Filled(v, o, n), outPtr, flashAddr, PageSize)
  <2>1. Placed(Now, o) /\ o + n <= BankSize
    BY FlashFacts DEF Sound
  <2> QED
    BY <2>1, WrittenPlaced
<1> HIDE DEF w
<1>4. CASE w.bank = bank
  BY <1>4 DEF w
<1>5. CASE /\ w.addr = flashAddr + PageSize
           /\ w.bank = Programmed(bank, Filled(v, o, n), outPtr, flashAddr, PageSize)
  <2>1. a >= w.addr => w.bank[a] = bank[a]
    BY <1>2, <1>5, FlashFacts DEF Programmed
  <2> QED
    BY <1>2, <2>1 DEF w
<1> QED
  BY <1>3, <1>4, <1>5

(* What zb_osif_ota_write_last_data does to the pointers.                   *)
LEMMA LastWrittenFields ==
    ASSUME NEW f, NEW o, Placed(f, o)
    PROVE  /\ LastWritten(f).bank \in [Bank -> Cell]
           /\ LastWritten(f).addr \in Int
           /\ LastWritten(f).buf = f.buf /\ LastWritten(f).in = f.in /\ LastWritten(f).out = f.out
           /\ \E n \in Nat :
                /\ n >= f.in - f.out
                /\ LastWritten(f).bank = Programmed(f.bank, f.buf, f.out, f.addr, n)
<1> DEFINE out == f.out
           in == f.in
           addr == f.addr
           n == RoundUpProg(Contiguous(out, in))
<1> USE FlashFacts
<1>1. /\ f.buf \in [BufIndex -> Cell] /\ f.bank \in [Bank -> Cell]
      /\ out \in {0, PageSize} /\ in \in Nat /\ out <= in /\ in < out + PageSize
      /\ addr \in Int /\ HasFlashFields(f)
  BY DEF Placed
<1> HIDE DEF out, in, addr
<1>2. Contiguous(out, in) = in - out /\ in - out \in 0..(PageSize - 1)
  BY <1>1 DEF Contiguous
<1>3. n \in Nat /\ n >= in - out /\ n <= PageSize
  BY <1>2, RoundUpCovers, RoundUpStays
<1>4. LastWritten(f) = [f EXCEPT !.addr = addr + n,
                                 !.bank = Programmed(f.bank, f.buf, out, addr, n)]
  BY DEF LastWritten, out, in, addr
<1> HIDE DEF n
<1> DEFINE bk == Programmed(f.bank, f.buf, out, addr, n)
<1>5. bk \in [Bank -> Cell]
  BY <1>1, <1>3, ProgrammedType
<1> HIDE DEF bk
<1>7. LastWritten(f).bank = bk /\ LastWritten(f).addr = addr + n
      /\ LastWritten(f).buf = f.buf /\ LastWritten(f).in = f.in /\ LastWritten(f).out = f.out
  BY <1>1, <1>4 DEF bk, HasFlashFields
<1>8. addr + n \in Int
  BY <1>1, <1>3
<1> QED
  BY <1>3, <1>5, <1>7, <1>8 DEF bk, in, out, addr

(* What zb_osif_ota_write_last_data programs completes the file.            *)
LEMMA LastWrittenComplete ==
    ASSUME NEW f, NEW v, NEW s \in 1..BankSize, Sound(f, v, s, s)
    PROVE  Holds(LastWritten(f).bank, v, s)
<1> DEFINE out == f.out
           in == f.in
           addr == f.addr
           bk == LastWritten(f).bank
<1> USE FlashFacts
<1>1. /\ f.bank \in [Bank -> Cell]
      /\ out \in {0, PageSize} /\ in \in Nat /\ out <= in /\ in < out + PageSize
      /\ addr \in Nat /\ addr + (in - out) = s
  BY DEF Sound, Placed
<1>2. PICK n \in Nat : n >= in - out /\ bk = Programmed(f.bank, f.buf, out, addr, n)
  BY LastWrittenFields DEF Sound
<1> HIDE DEF out, in, addr, bk
<1>6. \A a \in Bank : a < s => bk[a] = FileByte(v, a)
  <2> SUFFICES ASSUME NEW a \in Bank, a < s
               PROVE  bk[a] = FileByte(v, a)
    OBVIOUS
  <2>1. CASE a < addr
    BY <2>1, <1>1, <1>2 DEF Programmed, Sound, Bank, addr
  <2>2. CASE a >= addr
    <3>1. bk[a] = Program(f.bank[a], f.buf[out + (a - addr)])
      BY <2>2, <1>1, <1>2 DEF Programmed, Bank
    <3>2. /\ out + (a - addr) \in BufIndex
          /\ out + (a - addr) >= out /\ out + (a - addr) < in
          /\ addr + ((out + (a - addr)) - out) = a
      BY <2>2, <1>1 DEF Bank
    <3>3. f.buf[out + (a - addr)] = FileByte(v, a)
      BY <3>2, <1>1 DEF Sound, out, in, addr
    <3>4. f.bank[a] \in {Erased, FileByte(v, a)}
      BY <2>2 DEF Sound, addr
    <3> QED
      BY <3>1, <3>3, <3>4 DEF Program
  <2> QED
    BY <2>1, <2>2, <1>1 DEF Bank
<1> QED
  BY <1>6 DEF Holds, bk

(* Whatever the bank held before, the file's last byte is programmed.       *)
LEMMA LastByteProgrammed ==
    ASSUME NEW v \in Versions, NEW o \in Nat, NEW n \in 1..PageSize, o + n <= BankSize,
           Placed(Now, o)
    PROVE  LastWritten(Written(v, o, n)).bank[o + n - 1] # Erased
<1> DEFINE b == Filled(v, o, n)
           w == Written(v, o, n)
           bk == LastWritten(w).bank
           last == o + n - 1
<1> USE FlashFacts
<1>2. /\ outPtr \in {0, PageSize} /\ inPtr \in Nat /\ inPtr \in BufIndex /\ flashAddr \in Int
      /\ outPtr <= inPtr /\ inPtr < outPtr + PageSize
      /\ flashAddr + (inPtr - outPtr) = o
      /\ buf \in [BufIndex -> Cell] /\ bank \in [Bank -> Cell]
  BY DEF Placed, Now
<1>9. \A k \in BufIndex :
        /\ k >= inPtr /\ k < inPtr + n => b[k] = FileByte(v, o + (k - inPtr))
        /\ k + BufSize < inPtr + n => b[k] = FileByte(v, o + (k + BufSize - inPtr))
  BY <1>2, FilledFacts
<1>10. /\ Placed(w, o + n) /\ w.buf = b
       /\ \/ /\ inPtr + n < outPtr + PageSize
             /\ w.in = inPtr + n /\ w.out = outPtr /\ w.addr = flashAddr /\ w.bank = bank
          \/ /\ inPtr + n >= outPtr + PageSize
             /\ w.in = IF outPtr = 0 THEN inPtr + n ELSE inPtr + n - BufSize
             /\ w.out = PageSize - outPtr /\ w.addr = flashAddr + PageSize
             /\ w.bank = Programmed(bank, b, outPtr, flashAddr, PageSize)
  BY WrittenPlaced
<1>11. PICK m \in Nat : m >= w.in - w.out /\ bk = Programmed(w.bank, w.buf, w.out, w.addr, m)
  BY <1>10, LastWrittenFields
<1>12. /\ last \in Bank /\ last \in Int /\ w.in \in Nat /\ w.out \in Nat /\ w.addr \in Int
       /\ w.addr + (w.in - w.out) = last + 1 /\ w.out <= w.in /\ w.in \in BufIndex
  BY <1>10 DEF Placed, Bank
<1>13. /\ FileByte(v, last) # Erased /\ Junk # Erased
  BY CellFacts, CellsAssumption
<1> HIDE DEF b, w, bk, last
<1>3. CASE w.in > w.out
  <2>1. last >= w.addr /\ last < w.addr + m /\ w.out + (last - w.addr) = w.in - 1
    <3> DEFINE i == w.in u == w.out d == w.addr
    <3>1. /\ i \in Nat /\ u \in Nat /\ d \in Int /\ d + (i - u) = last + 1 /\ u < i
          /\ m \in Nat /\ m >= i - u /\ last \in Int
      BY <1>3, <1>11, <1>12
    <3> HIDE DEF i, u, d
    <3>2. last >= d /\ last < d + m /\ u + (last - d) = i - 1
      BY <3>1
    <3> QED
      BY <3>2 DEF i, u, d
  <2>2. bk[last] = Program(w.bank[last], b[w.in - 1])
    BY <1>10, <1>11, <1>12, <2>1 DEF Programmed
  <2>3. b[w.in - 1] = FileByte(v, last)
    <3>1. w.in - 1 \in BufIndex
      BY <1>3, <1>12
    <3>2. CASE w.in = inPtr + n
      <4>1. /\ w.in - 1 >= inPtr /\ w.in - 1 < inPtr + n /\ o + (w.in - 1 - inPtr) = last
        BY <3>2, <1>2 DEF last
      <4> QED
        BY <1>9, <3>1, <4>1
    <3>3. CASE w.in = inPtr + n - BufSize
      <4>1. w.in - 1 + BufSize < inPtr + n /\ o + (w.in - 1 + BufSize - inPtr) = last
        BY <3>3, <1>2 DEF last
      <4> QED
        BY <1>9, <3>1, <4>1
    <3> QED
      BY <1>10, <3>2, <3>3
  <2> QED
    BY <1>13, <2>2, <2>3 DEF Program, bk, w, last
<1>4. CASE w.in = w.out
  <2>1. /\ inPtr + n >= outPtr + PageSize
        /\ w.addr = flashAddr + PageSize
        /\ w.bank = Programmed(bank, b, outPtr, flashAddr, PageSize)
        /\ inPtr + n = outPtr + PageSize
    BY <1>2, <1>4, <1>10
  <2>2. last = w.addr - 1 /\ last >= flashAddr /\ last < flashAddr + PageSize
        /\ outPtr + (last - flashAddr) = inPtr + n - 1
    BY <1>2, <1>4, <1>12, <2>1
  <2>3. bk[last] = w.bank[last]
    BY <1>11, <1>12, <2>2 DEF Programmed
  <2>4. w.bank[last] = Program(bank[last], b[inPtr + n - 1])
    BY <1>12, <2>1, <2>2 DEF Programmed
  <2>5. b[inPtr + n - 1] = FileByte(v, last)
    <3> DEFINE k == inPtr + n - 1
    <3>1. k \in BufIndex /\ k >= inPtr /\ k < inPtr + n /\ o + (k - inPtr) = last
      BY <1>2, <2>1 DEF last
    <3> HIDE DEF k
    <3>2. b[k] = FileByte(v, last)
      BY <1>9, <3>1
    <3> QED
      BY <3>2 DEF k
  <2> QED
    BY <1>13, <2>3, <2>4, <2>5 DEF Program, bk, w, last
<1> QED
  BY <1>3, <1>4, <1>12

=============================================================================
