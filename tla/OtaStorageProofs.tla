-------------------------- MODULE OtaStorageProofs --------------------------
(***************************************************************************)
(* Proofs about OtaStorage: for every page, program unit, bank, block and  *)
(* file size the write buffer of tr_osif_ota.c loses no byte, and the bank *)
(* holds the complete file when the last data is written.                  *)
(***************************************************************************)
EXTENDS OtaStorage, OtaFlashProofs

-----------------------------------------------------------------------------
LEMMA SizesFacts ==
    /\ PageSize \in Nat \ {0} /\ BankSize \in Nat \ {0} /\ BufSize = 2 * PageSize
    /\ MaxBlock \in 1..PageSize /\ BufSize \in Nat /\ BufIndex = 0..(BufSize - 1)
  BY FlashFacts, BlockAssumption

LEMMA InitIInv == Init => IInv
  BY SizesFacts, CellFacts DEF Init, IInv, TypeOK, FlashTypeOK, RamInit,
     BufferNeverOverruns, NoByteLost, WriteAddrOnPage, FinishedIsComplete, Bank

-----------------------------------------------------------------------------
(* While a file is received buffer, bank and pointers are in step with it.  *)
LEMMA ReceivingSound ==
    ASSUME IInv, phase = "receiving"
    PROVE  Sound(Now, ver, size, offset)
<1>1. /\ outPtr \in {0, PageSize} /\ inPtr \in BufIndex /\ flashAddr \in Nat
      /\ outPtr <= inPtr /\ inPtr < outPtr + PageSize
      /\ flashAddr + (inPtr - outPtr) = offset
      /\ buf \in [BufIndex -> Cell] /\ bank \in [Bank -> Cell]
      /\ flashAddr % PageSize = 0
  BY DEF IInv, TypeOK, FlashTypeOK, BufferNeverOverruns, NoByteLost, WriteAddrOnPage
<1>2. Placed(Now, offset)
  BY <1>1 DEF Placed, Now, HasFlashFields
<1> QED
  BY <1>1, <1>2 DEF Sound, Now, IInv, NoByteLost, WriteAddrOnPage, Holds

LEMMA BlockSound ==
    ASSUME IInv, phase = "receiving", NEW n \in 1..MaxBlock, offset + n <= size
    PROVE  Sound(Written(ver, offset, n), ver, size, offset + n)
<1>1. ver \in Versions /\ size \in 1..BankSize /\ offset \in Nat /\ n \in 1..PageSize
  BY SizesFacts DEF IInv, TypeOK
<1> QED
  BY <1>1, ReceivingSound, WrittenSound

LEMMA ReceiveIInv ==
    ASSUME IInv, NEW n \in 1..MaxBlock, Receive(n)
    PROVE  IInv'
<1> DEFINE w == Written(ver, offset, n)
<1>1. /\ phase = "receiving" /\ phase' = "receiving" /\ ver' = ver /\ size' = size
      /\ offset' = offset + n
      /\ buf' = w.buf /\ inPtr' = w.in /\ outPtr' = w.out /\ flashAddr' = w.addr /\ bank' = w.bank
  BY DEF Receive, FlashBecomes
<1>2. /\ size \in 1..BankSize /\ offset \in 0..size /\ ver \in Versions
      /\ offset + n <= size
  BY <1>1, SizesFacts DEF IInv, TypeOK, Receive
<1>3. Sound(w, ver, size, offset + n)
  BY <1>1, <1>2, BlockSound
<1> HIDE DEF w
<1>4. TypeOK'
  <2>3. 0 \in BufIndex /\ PageSize \in BufIndex
    BY SizesFacts
  <2>1. FlashTypeOK'
    <3>1. w.addr \in Int
      BY <1>3 DEF Sound, Placed
    <3> QED
      BY <1>1, <1>3, <2>3, <3>1 DEF Sound, Placed, FlashTypeOK
  <2>2. offset' \in 0..size'
    BY <1>1, <1>2, SizesFacts
  <2> QED
    BY <1>1, <1>2, <2>1, <2>2 DEF TypeOK
<1>5. BufferNeverOverruns' /\ NoByteLost'
  BY <1>1, <1>3 DEF Sound, Placed, BufferNeverOverruns, NoByteLost, Holds
<1>6. WriteAddrOnPage' /\ FinishedIsComplete'
  BY <1>1, <1>3 DEF Sound, WriteAddrOnPage, FinishedIsComplete
<1> QED
  BY <1>4, <1>5, <1>6 DEF IInv

-----------------------------------------------------------------------------
LEMMA StartIInv ==
    ASSUME IInv, NEW v \in Versions, NEW s \in 1..BankSize, Start(v, s)
    PROVE  IInv'
<1>1. 0 % PageSize = 0 /\ PageSize \in Nat \ {0}
  BY SizesFacts, SMTT(20)
<1>2. TypeOK'
  BY SizesFacts, CellFacts DEF Start, EraseFw, IInv, TypeOK, FlashTypeOK
<1>3. BufferNeverOverruns' /\ FinishedIsComplete'
  BY <1>1 DEF Start, EraseFw, BufferNeverOverruns, FinishedIsComplete
<1>4. NoByteLost'
  BY SizesFacts DEF Start, EraseFw, NoByteLost, Holds, Bank
<1>5. WriteAddrOnPage'
  BY <1>1 DEF Start, EraseFw, WriteAddrOnPage
<1> QED
  BY <1>2, <1>3, <1>4, <1>5 DEF IInv

LEMMA ResumeIInv ==
    ASSUME IInv, NEW v \in Versions, NEW s \in 1..BankSize, NEW o \in 0..BankSize,
           Resume(v, s, o)
    PROVE  IInv'
<1>1. PageSize \in Nat \ {0} /\ o % PageSize = 0
  BY SizesFacts, RoundedIsBoundary DEF Resume
<1>2. TypeOK'
  BY SizesFacts DEF Resume, SetWriteAddr, IInv, TypeOK, FlashTypeOK
<1>3. BufferNeverOverruns' /\ FinishedIsComplete'
  BY <1>1 DEF Resume, SetWriteAddr, BufferNeverOverruns, FinishedIsComplete
<1>4. NoByteLost'
  BY SizesFacts DEF Resume, SetWriteAddr, NoByteLost, Holds, Bank
<1>5. WriteAddrOnPage'
  BY <1>1 DEF Resume, SetWriteAddr, WriteAddrOnPage
<1> QED
  BY <1>2, <1>3, <1>4, <1>5 DEF IInv

LEMMA ReceiveLastIInv ==
    ASSUME IInv, NEW n \in 1..MaxBlock, ReceiveLast(n)
    PROVE  IInv'
<1> DEFINE w == Written(ver, offset, n)
           l == LastWritten(w)
<1>1. /\ phase = "receiving" /\ phase' = "finished" /\ ver' = ver /\ size' = size
      /\ offset + n = size /\ offset' = size
      /\ buf' = l.buf /\ inPtr' = l.in /\ outPtr' = l.out /\ flashAddr' = l.addr /\ bank' = l.bank
  BY DEF ReceiveLast, FlashBecomes
<1>2. size \in 1..BankSize /\ ver \in Versions
  BY <1>1 DEF IInv, TypeOK
<1>3. Sound(w, ver, size, size)
  <2>1. offset + n <= size
    BY <1>1, <1>2
  <2> QED
    BY <1>1, <2>1, BlockSound
<1> HIDE DEF w
<1>4. /\ l.bank \in [Bank -> Cell] /\ l.addr \in Int /\ Holds(l.bank, ver, size)
      /\ l.buf = w.buf /\ l.in = w.in /\ l.out = w.out
  BY <1>2, <1>3, LastWrittenComplete, LastWrittenFields DEF Sound
<1> HIDE DEF l
<1>5. TypeOK'
  <2>3. 0 \in BufIndex /\ PageSize \in BufIndex
    BY SizesFacts
  <2>1. FlashTypeOK'
    BY <1>1, <1>3, <1>4, <2>3 DEF Sound, Placed, FlashTypeOK
  <2> QED
    BY <1>1, <1>2, <2>1 DEF TypeOK
<1>6. FinishedIsComplete'
  BY <1>1, <1>4 DEF FinishedIsComplete
<1> QED
  BY <1>1, <1>5, <1>6 DEF IInv, BufferNeverOverruns, NoByteLost, WriteAddrOnPage

LEMMA AbandonIInv ==
    ASSUME IInv, Abandon
    PROVE  IInv'
  BY DEF Abandon, Forget, flashVars, IInv, TypeOK, FlashTypeOK, BufferNeverOverruns, NoByteLost,
     WriteAddrOnPage, FinishedIsComplete

LEMMA ResetIInv ==
    ASSUME IInv, Reset
    PROVE  IInv'
<1>1. TypeOK'
  <2>1. buf' \in [BufIndex -> Cell]
    BY CellFacts DEF Reset, RamReset
  <2>2. 0 \in BufIndex
    BY SizesFacts
  <2> QED
    BY <2>1, <2>2 DEF Reset, Forget, RamReset, IInv, TypeOK, FlashTypeOK
<1>2. phase' = "idle"
  BY DEF Reset, Forget
<1> QED
  BY <1>1, <1>2 DEF IInv, BufferNeverOverruns, NoByteLost, WriteAddrOnPage, FinishedIsComplete

LEMMA StutterIInv ==
    ASSUME IInv, UNCHANGED vars
    PROVE  IInv'
  BY DEF vars, IInv, TypeOK, FlashTypeOK, BufferNeverOverruns, NoByteLost, WriteAddrOnPage,
     FinishedIsComplete, Holds

LEMMA NextIInv == IInv /\ [Next]_vars => IInv'
<1> SUFFICES ASSUME IInv, [Next]_vars
             PROVE  IInv'
  OBVIOUS
<1>1. CASE \E v \in Versions, s \in 1..BankSize : Start(v, s)
  BY <1>1, StartIInv
<1>2. CASE \E v \in Versions, s \in 1..BankSize, o \in 0..BankSize : Resume(v, s, o)
  BY <1>2, ResumeIInv
<1>3. CASE \E n \in 1..MaxBlock : Receive(n) \/ ReceiveLast(n)
  BY <1>3, ReceiveIInv, ReceiveLastIInv
<1>4. CASE Abandon
  BY <1>4, AbandonIInv
<1>5. CASE Reset
  BY <1>5, ResetIInv
<1>6. CASE UNCHANGED vars
  BY <1>6, StutterIInv
<1> QED
  BY <1>1, <1>2, <1>3, <1>4, <1>5, <1>6 DEF Next

-----------------------------------------------------------------------------
(* The inductive invariant holds in every reachable state: the types, the   *)
(* shape of the two-page buffer, and the agreement of buffer, write address *)
(* and flash with the file offset (zb_osif_ota_write).                      *)
THEOREM InductiveInvariant == Spec => []IInv
<1>1. Init => IInv
  BY InitIInv
<1>2. IInv /\ [Next]_vars => IInv'
  BY NextIInv
<1> QED
  BY <1>1, <1>2, PTL DEF Spec

(* zb_osif_ota_write and its callers keep every variable in its range.      *)
THEOREM TypeCorrect == Spec => []TypeOK
<1>1. IInv => TypeOK
  BY DEF IInv
<1> QED
  BY <1>1, InductiveInvariant, PTL

(* For every page and block size, a block never overwrites bytes of the     *)
(* write buffer that are not flashed yet.                                   *)
THEOREM BufferSafe == Spec => []BufferNeverOverruns
<1>1. IInv => BufferNeverOverruns
  BY DEF IInv
<1> QED
  BY <1>1, InductiveInvariant, PTL

(* Flash and buffer together are the file up to the offset asked for next.  *)
THEOREM NothingLost == Spec => []NoByteLost
<1>1. IInv => NoByteLost
  BY DEF IInv
<1> QED
  BY <1>1, InductiveInvariant, PTL

(* An offset rounded down to a page is a place to resume at.                *)
THEOREM ResumePointFlashed == Spec => []RoundedOffsetIsFlashed
<1>1. IInv => RoundedOffsetIsFlashed
  <2> SUFFICES ASSUME IInv, phase = "receiving"
               PROVE  Holds(bank, ver, RoundDown(offset))
    BY DEF RoundedOffsetIsFlashed
  <2>1. /\ flashAddr \in Int /\ flashAddr % PageSize = 0
        /\ inPtr - outPtr \in 0..(PageSize - 1)
        /\ offset = flashAddr + (inPtr - outPtr)
    BY SizesFacts DEF IInv, TypeOK, FlashTypeOK, BufferNeverOverruns, NoByteLost, WriteAddrOnPage
  <2>2. RoundDown(offset) = flashAddr
    BY <2>1, RoundDownPage
  <2> QED
    BY <2>2 DEF IInv, NoByteLost
<1> QED
  BY <1>1, InductiveInvariant, PTL

(* When zb_osif_ota_write_last_data returns, the bank holds the whole file. *)
THEOREM CompleteWhenFinished == Spec => []FinishedIsComplete
<1>1. IInv => FinishedIsComplete
  BY DEF IInv
<1> QED
  BY <1>1, InductiveInvariant, PTL

(* Only the erase of a new download takes a file's byte out of flash again. *)
THEOREM FlashedKept == Spec => FlashedBytesAreKept
<1> DEFINE Kept == \A a \in Bank : phase # "idle" /\ bank[a] = FileByte(ver, a) /\ a < size
                      => bank'[a] = bank[a] \/ (bank'[a] = Erased /\ offset' = 0)
<1>1. ASSUME IInv, IInv', [Next]_vars
      PROVE  Kept \/ UNCHANGED vars
  <2> SUFFICES ASSUME NEW a \in Bank, phase # "idle", bank[a] = FileByte(ver, a), a < size, Next
               PROVE  bank'[a] = bank[a] \/ (bank'[a] = Erased /\ offset' = 0)
    BY <1>1
  <2>1. CASE \E v \in Versions, s \in 1..BankSize : Start(v, s)
    BY <2>1 DEF Start, EraseFw
  <2>2. CASE \E v \in Versions, s \in 1..BankSize, o \in 0..BankSize : Resume(v, s, o)
    BY <2>2 DEF Resume, SetWriteAddr
  <2>3. CASE \E n \in 1..MaxBlock : Receive(n)
    <3>1. PICK n \in 1..MaxBlock : Receive(n)
      BY <2>3
    <3> DEFINE c == IF Contiguous(outPtr, Advance(inPtr, n)) >= PageSize THEN PageSize ELSE 0
    <3>2. /\ ver' = ver /\ phase' = "receiving"
          /\ bank' = Programmed(bank, Filled(ver, offset, n), outPtr, flashAddr, c)
          /\ flashAddr' = flashAddr + c
      BY <3>1 DEF Receive, FlashBecomes, Written
    <3> HIDE DEF c
    <3>3. a < flashAddr' => bank'[a] = FileByte(ver, a)
      BY <1>1, <3>2 DEF IInv, NoByteLost, Holds
    <3> QED
      BY <3>2, <3>3 DEF Programmed
  <2>4. CASE \E n \in 1..MaxBlock : ReceiveLast(n)
    BY <2>4, <1>1 DEF ReceiveLast, IInv, FinishedIsComplete, Holds
  <2>5. CASE Abandon
    BY <2>5 DEF Abandon, flashVars
  <2>6. CASE Reset
    BY <2>6 DEF Reset
  <2> QED
    BY <2>1, <2>2, <2>3, <2>4, <2>5, <2>6 DEF Next
<1>2. IInv /\ IInv' /\ [Next]_vars => [Kept]_vars
  BY <1>1
<1> QED
  BY <1>2, InductiveInvariant, PTL DEF Spec, FlashedBytesAreKept

=============================================================================
