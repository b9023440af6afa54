-------------------------- MODULE OtaClientProofs --------------------------
(***************************************************************************)
(* Proofs about OtaClient: for every file, buffer and program unit, every  *)
(* number of versions, retries, resets and messages in flight.             *)
(***************************************************************************)
EXTENDS OtaClientStorage, OtaFlashProofs, FiniteSetTheorems

-----------------------------------------------------------------------------
(* Type correctness, and where the pointers of the flash buffer are.        *)
AttrsOK ==
    /\ status \in Status /\ offset \in Int /\ offset <= BankSize
    /\ nv.status \in Status /\ nv.offset \in Int /\ nv.offset <= BankSize

FlagsOK == dirty \in BOOLEAN /\ known \in BOOLEAN /\ reqSent \in BOOLEAN

ClientOK ==
    /\ cstate \in {"idle", "in_progress", "resume"} /\ dfv \in Versions \cup {NoVersion}
    /\ pending \in Response \cup {NoBlock}
    /\ retries \in 0..(MaxRetries - 1) /\ acks \in 0..MaxAcks /\ due \subseteq Due

BootOK ==
    /\ fota = NoHeader \/ fota \in [0..(FileSize - 1) -> Cell]
    /\ fw \in Versions \cup {Factory, Junk} /\ resets \in 0..MaxResets /\ env \in Environments

Carried(r) == r \subseteq Response /\ IsFiniteSet(r) /\ Cardinality(r) <= MaxFlight

TypeInv == FlashTypeOK /\ AttrsOK /\ FlagsOK /\ ClientOK /\ BootOK /\ Carried(rsp)

(* While a known file is downloaded the next byte expected is at the offset *)
(* of the attribute; until the first request the buffer is untouched.       *)
Receiving == status = "downloading" /\ dfv # NoVersion

PointersOK ==
    /\ Receiving => Placed(Now, offset) /\ cstate = "in_progress"
    /\ cstate # "in_progress" => inPtr = 0 /\ outPtr = 0

LEMMA TypeInvImplies == TypeInv => TypeOK
  BY Zenon DEF TypeInv, TypeOK, AttrsOK, FlagsOK, ClientOK, BootOK, Carried

LEMMA ClientFacts ==
    /\ FileSize \in 1..BankSize /\ FileSize \in Nat /\ MaxData \in 1..PageSize
    /\ MaxRetries \in Nat \ {0} /\ MaxFlight \in Nat \ {0} /\ MaxAcks \in Nat /\ MaxResets \in Nat
    /\ NoVersion \notin Versions /\ Junk \notin Versions \cup {Factory} /\ Versions # {}
  BY ClientAssumption

-----------------------------------------------------------------------------
(* Messages.                                                                *)
LEMMA ResponseFacts ==
    /\ \A v \in Versions : [type |-> "image", ver |-> v] \in Response
    /\ \A v \in Versions, o \in 0..(FileSize - 1) : [type |-> "data", ver |-> v, off |-> o] \in Response
    /\ \A v \in Versions, w \in BOOLEAN : [type |-> "end", ver |-> v, wait |-> w] \in Response
    /\ \A t \in {"wait", "abort", "no_image"} : [type |-> t] \in Response
<1>1. \A v \in Versions : [type |-> "image", ver |-> v] \in [type : {"image"}, ver : Versions]
  OBVIOUS
<1>2. \A v \in Versions, o \in 0..(FileSize - 1) :
         [type |-> "data", ver |-> v, off |-> o] \in [type : {"data"}, ver : Versions, off : 0..(FileSize - 1)]
  OBVIOUS
<1>3. \A v \in Versions, w \in BOOLEAN :
         [type |-> "end", ver |-> v, wait |-> w] \in [type : {"end"}, ver : Versions, wait : BOOLEAN]
  OBVIOUS
<1>4. \A t \in {"wait", "abort", "no_image"} : [type |-> t] \in [type : {"wait", "abort", "no_image"}]
  OBVIOUS
<1> QED
  BY <1>1, <1>2, <1>3, <1>4, Zenon DEF Response

LEMMA ResponseFields ==
    ASSUME NEW m \in Response
    PROVE  /\ m.type \in {"image", "data", "end", "wait", "abort", "no_image"}
           /\ m.type \in {"image", "data", "end"} => m.ver \in Versions
           /\ m.type = "data" => m.off \in 0..(FileSize - 1)
  BY DEF Response

LEMMA AnswersFacts ==
    /\ ImageAnswers \subseteq Response /\ \A m \in ImageAnswers : m.type = "image"
    /\ RefusedAnswers \subseteq Response /\ \A m \in RefusedAnswers : m.type = "no_image"
    /\ \A v, o : /\ BlockAnswers(v, o) \subseteq Response
                 /\ \A m \in BlockAnswers(v, o) :
                       /\ m.type \in {"data", "wait", "abort", "no_image"}
                       /\ m.type = "wait" => "waits" \in env
    /\ \A v \in Versions : EndAnswers(v) \subseteq Response
<1>1. Offered \subseteq Versions
  BY ClientFacts DEF Offered
<1>2. ImageAnswers \subseteq Response /\ \A m \in ImageAnswers : m.type = "image"
  BY <1>1 DEF ImageAnswers, Response
<1>3. RefusedAnswers \subseteq Response /\ \A m \in RefusedAnswers : m.type = "no_image"
  BY ResponseFacts DEF RefusedAnswers
<1>4. ASSUME NEW v, NEW o, NEW m \in BlockAnswers(v, o)
      PROVE  /\ m \in Response /\ m.type \in {"data", "wait", "abort", "no_image"}
             /\ m.type = "wait" => "waits" \in env
  BY <1>3, <1>4, ResponseFacts DEF BlockAnswers
<1>5. \A v \in Versions : EndAnswers(v) \subseteq Response
  BY ResponseFacts DEF EndAnswers
<1> QED
  BY <1>2, <1>3, <1>4, <1>5

LEMMA CarriedSubset ==
    ASSUME NEW r, Carried(r), NEW s \in SUBSET r
    PROVE  Carried(s)
<1>1. IsFiniteSet(r) /\ Cardinality(r) \in Nat /\ Cardinality(r) <= MaxFlight /\ r \subseteq Response
  BY FS_CardinalityType DEF Carried
<1>2. IsFiniteSet(s) /\ Cardinality(s) <= Cardinality(r) /\ Cardinality(s) \in Nat
  BY <1>1, FS_Subset, FS_CardinalityType
<1>3. Cardinality(s) <= MaxFlight
  BY <1>1, <1>2, ClientFacts
<1> QED
  BY <1>1, <1>2, <1>3 DEF Carried

LEMMA CarriedReply ==
    ASSUME NEW base, Carried(base), NEW answers, answers \subseteq Response,
           NEW r \in WithReply(base, answers)
    PROVE  Carried(r) /\ r \subseteq base \cup answers
<1>1. CASE r = base
  BY <1>1
<1>2. CASE \E a \in answers : r = base \cup {a} /\ Cardinality(r) <= InFlight
  <2>1. PICK a \in answers : r = base \cup {a} /\ Cardinality(r) <= InFlight
    BY <1>2
  <2>2. IsFiniteSet(r) /\ Cardinality(r) \in Nat
    BY <2>1, FS_AddElement, FS_CardinalityType DEF Carried
  <2>3. Cardinality(r) <= MaxFlight
    BY <2>1, <2>2, ClientFacts DEF InFlight
  <2> QED
    BY <2>1, <2>2, <2>3 DEF Carried
<1> QED
  BY <1>1, <1>2 DEF WithReply

LEMMA CarriedDelivery ==
    ASSUME Carried(rsp), NEW m \in rsp, NEW base \in AfterDelivery(m)
    PROVE  Carried(base) /\ base \subseteq rsp
<1>1. base \subseteq rsp
  BY DEF AfterDelivery
<1> QED
  BY <1>1, CarriedSubset

-----------------------------------------------------------------------------
(* A block is of the file, and no longer than a page.                       *)
LEMMA BlockLengthFacts ==
    ASSUME NEW v, NEW o \in 0..(FileSize - 1)
    PROVE  BlockLength(v, o) \in 1..PageSize /\ o + BlockLength(v, o) <= FileSize
<1>1. DataSize \in 1..PageSize
  BY ClientFacts, FlashFacts DEF DataSize
<1> HIDE DEF DataSize
<1> QED
  BY <1>1, ClientFacts, FlashFacts DEF BlockLength

(* What makes a block acceptable.                                           *)
LEMMA AcceptedFacts ==
    ASSUME PointersOK, NEW m \in Response, status = "downloading", ExpectedBlock(m)
    PROVE  /\ m.off = offset /\ dfv \in Versions /\ offset \in 0..(FileSize - 1) /\ offset \in Nat
           /\ Receiving /\ Placed(Now, offset) /\ cstate = "in_progress"
           /\ BlockLength(dfv, offset) \in 1..PageSize
           /\ offset + BlockLength(dfv, offset) <= FileSize
           /\ offset + BlockLength(dfv, offset) <= BankSize
<1>1. m.off = offset /\ dfv \in Versions /\ offset \in 0..(FileSize - 1)
  BY ResponseFields DEF ExpectedBlock
<1>2. BlockLength(dfv, offset) \in 1..PageSize /\ offset + BlockLength(dfv, offset) <= FileSize
  BY <1>1, BlockLengthFacts
<1>3. Receiving
  BY <1>1, ClientFacts DEF Receiving
<1> QED
  BY <1>1, <1>2, <1>3, ClientFacts, FlashFacts DEF PointersOK

(* The flash state after a write is what it was computed to be.             *)
LEMMA FlashBecame ==
    ASSUME NEW f, HasFlashFields(f), FlashBecomes(f)
    PROVE  Now' = f
  BY DEF FlashBecomes, HasFlashFields, Now

LEMMA FlashTyped ==
    ASSUME NEW f, f.buf \in [BufIndex -> Cell], f.bank \in [Bank -> Cell], f.addr \in Int,
           f.in \in BufIndex, f.out \in BufIndex, FlashBecomes(f)
    PROVE  FlashTypeOK'
  BY DEF FlashBecomes, FlashTypeOK

LEMMA FlashKept ==
    ASSUME FlashTypeOK, UNCHANGED flashVars
    PROVE  FlashTypeOK' /\ Now' = Now
  BY DEF FlashTypeOK, flashVars, Now

LEMMA PageInBuffer == 0 \in BufIndex /\ PageSize \in BufIndex
  BY FlashFacts

-----------------------------------------------------------------------------
(* image_block_resp_handler.                                                *)
LEMMA AbortType ==
    ASSUME TypeInv, NEW base, Carried(base), Abort(base), FlashTypeOK',
           acks' \in 0..MaxAcks, UNCHANGED bootVars
    PROVE  TypeInv' /\ ~Receiving' /\ cstate' = cstate
<1>1. /\ status' = "normal" /\ offset' = -1 /\ dirty' /\ nv' = nv /\ cstate' = cstate
      /\ dirty' = TRUE /\ reqSent' = FALSE /\ dfv' = NoVersion /\ pending' = NoBlock /\ retries' = 0
      /\ due' = (due \ {"resend"}) \cup {"qnir"} /\ rsp' = base
  BY DEF Abort, SetStatus, Def
<1>2. known' = known /\ UNCHANGED <<fota, fw, resets, env>>
  BY DEF bootVars
<1>3. AttrsOK'
  BY <1>1, FlashFacts DEF TypeInv, AttrsOK, Status
<1>4. FlagsOK'
  BY <1>1, <1>2 DEF TypeInv, FlagsOK
<1>5. ClientOK'
  BY <1>1, ClientFacts DEF TypeInv, ClientOK, Due
<1>6. BootOK'
  BY <1>2 DEF TypeInv, BootOK
<1> QED
  BY <1>1, <1>3, <1>4, <1>5, <1>6 DEF TypeInv, Receiving, Carried

(* The end of a block's handling: something is asked for again.             *)
LEMMA RequestType ==
    ASSUME TypeInv, NEW v, NEW o, NEW base, Carried(base), NEW a \in 0..MaxAcks,
           SendBlockRequest(v, o, base, a)
    PROVE  /\ cstate' = "in_progress" /\ reqSent' = TRUE /\ acks' \in 0..MaxAcks
           /\ Carried(rsp') /\ rsp' \subseteq base \cup BlockAnswers(v, o)
<1>1. /\ cstate' = "in_progress" /\ reqSent' = TRUE
      /\ acks' = IF a < MaxAcks THEN a + 1 ELSE a
      /\ rsp' \in WithReply(base, BlockAnswers(v, o))
  BY DEF SendBlockRequest
<1>2. acks' \in 0..MaxAcks
  BY <1>1, ClientFacts
<1>3. BlockAnswers(v, o) \subseteq Response
  BY AnswersFacts
<1> QED
  BY <1>1, <1>2, <1>3, CarriedReply

LEMMA StoreBlockType ==
    ASSUME TypeInv, PointersOK, NEW m \in Response, status = "downloading", ExpectedBlock(m),
           NEW base, Carried(base), NEW a \in 0..MaxAcks, StoreBlock(m, base, a), UNCHANGED bootVars
    PROVE  TypeInv' /\ PointersOK'
<1> DEFINE n == BlockLength(dfv, offset)
           w == Written(dfv, offset, n)
<1>1. /\ m.off = offset /\ dfv \in Versions /\ offset \in Nat /\ Placed(Now, offset)
      /\ n \in 1..PageSize /\ offset + n <= BankSize
  BY AcceptedFacts
<1>2. /\ FlashBecomes(w) /\ offset' = offset + n /\ dirty' = TRUE
      /\ SendBlockRequest(dfv, offset + n, base, a)
      /\ retries' = 0 /\ due' = due \cup {"resend"} /\ pending' = NoBlock
      /\ UNCHANGED <<status, nv, dfv>>
  BY <1>1 DEF StoreBlock
<1>3. Placed(w, offset + n)
  BY <1>1, WrittenPlaced
<1>10. offset + n \in Int
  BY <1>1
<1> HIDE DEF w, n
<1>4. /\ cstate' = "in_progress" /\ reqSent' = TRUE /\ acks' \in 0..MaxAcks /\ Carried(rsp')
  BY <1>2, RequestType
<1>5. Now' = w /\ FlashTypeOK'
  BY <1>2, <1>3, PageInBuffer, FlashBecame, FlashTyped DEF Placed
<1>6. known' = known /\ UNCHANGED <<fota, fw, resets, env>>
  BY DEF bootVars
<1>7. AttrsOK'
  BY <1>1, <1>2, <1>10 DEF TypeInv, AttrsOK
<1>8. FlagsOK' /\ BootOK'
  BY <1>2, <1>4, <1>6 DEF TypeInv, FlagsOK, BootOK
<1>9. ClientOK'
  BY <1>2, <1>4, ClientFacts DEF TypeInv, ClientOK, Due
<1> QED
  BY <1>2, <1>3, <1>4, <1>5, <1>7, <1>8, <1>9 DEF TypeInv, PointersOK, Carried

LEMMA StoreLastBlockType ==
    ASSUME TypeInv, PointersOK, NEW m \in Response, status = "downloading", ExpectedBlock(m),
           NEW base, Carried(base), NEW a \in 0..MaxAcks, StoreLastBlock(m, base, a),
           UNCHANGED bootVars
    PROVE  /\ TypeInv' /\ PointersOK'
           /\ \/ status' = "normal" /\ dfv' = NoVersion /\ rsp' = base
              \/ /\ status' = "downloaded" /\ bank'[FileSize - 1] # Erased /\ VerifyOk(bank')
                 /\ rsp' \subseteq base \cup EndAnswers(dfv)
<1> DEFINE n == BlockLength(dfv, offset)
           w == Written(dfv, offset, n)
           f == LastWritten(w)
<1>1. /\ m.off = offset /\ dfv \in Versions /\ offset \in Nat /\ Placed(Now, offset)
      /\ Receiving /\ cstate = "in_progress"
      /\ n \in 1..PageSize /\ offset + n <= BankSize
  BY AcceptedFacts
<1>2. /\ offset + n = FileSize /\ FlashBecomes(f) /\ acks' = a
      /\ IF VerifyOk(f.bank)
         THEN /\ status' = "downloaded" /\ dirty' = TRUE /\ offset' = offset + n
              /\ retries' = 0 /\ due' = due \ {"resend"}
              /\ reqSent' = FALSE /\ pending' = NoBlock
              /\ rsp' \in WithReply(base, EndAnswers(dfv))
              /\ UNCHANGED <<nv, cstate, dfv>>
         ELSE Abort(base)
  BY <1>1 DEF StoreLastBlock, SetStatus
<1>3. Placed(w, offset + n)
  BY <1>1, WrittenPlaced
<1>4. f.bank[offset + n - 1] # Erased
  BY <1>1, LastByteProgrammed
<1>10. offset + n \in Int
  BY <1>1
<1> HIDE DEF w, n
<1>5. /\ f.bank \in [Bank -> Cell] /\ f.addr \in Int /\ f.buf = w.buf /\ f.in = w.in /\ f.out = w.out
  BY <1>3, LastWrittenFields
<1> HIDE DEF f
<1>6. FlashTypeOK' /\ bank' = f.bank
  <2>1. /\ w.buf \in [BufIndex -> Cell] /\ w.in \in BufIndex /\ w.out \in BufIndex
    BY <1>3, PageInBuffer DEF Placed
  <2> QED
    BY <1>2, <1>5, <2>1, FlashTyped DEF FlashBecomes
<1>7. CASE VerifyOk(f.bank)
  <2>1. EndAnswers(dfv) \subseteq Response
    BY <1>1, AnswersFacts
  <2>2. Carried(rsp') /\ rsp' \subseteq base \cup EndAnswers(dfv)
    BY <1>2, <1>7, <2>1, CarriedReply
  <2>3. known' = known /\ UNCHANGED <<fota, fw, resets, env>>
    BY DEF bootVars
  <2>4. AttrsOK'
    BY <1>1, <1>2, <1>7, <1>10 DEF TypeInv, AttrsOK, Status
  <2>5. FlagsOK' /\ BootOK'
    BY <1>2, <1>7, <2>3 DEF TypeInv, FlagsOK, BootOK
  <2>6. ClientOK'
    <3>1. /\ retries' = 0 /\ due' \subseteq due /\ pending' = NoBlock /\ acks' = a
          /\ cstate' = cstate /\ dfv' = dfv
      BY <1>2, <1>7
    <3> QED
      BY <3>1, ClientFacts DEF TypeInv, ClientOK
  <2>7. PointersOK'
    BY <1>1, <1>2, <1>7 DEF PointersOK, Receiving
  <2>8. TypeInv'
    BY <1>6, <2>2, <2>4, <2>5, <2>6, Zenon DEF TypeInv, Carried
  <2>9. bank'[FileSize - 1] # Erased
    <3>1. offset + n - 1 = FileSize - 1
      <4>1. offset + n = FileSize
        BY <1>2
      <4> QED
        BY <1>1, <4>1
    <3> QED
      BY <1>4, <1>6, <3>1, Zenon
  <2>10. VerifyOk(bank')
    BY <1>6, <1>7
  <2>11. status' = "downloaded"
    BY <1>2, <1>7
  <2> QED
    BY <2>2, <2>7, <2>8, <2>9, <2>10, <2>11
<1>8. CASE ~VerifyOk(f.bank)
  <2>1. Abort(base)
    BY <1>2, <1>8
  <2>2. acks' \in 0..MaxAcks
    BY <1>2
  <2>3. TypeInv' /\ ~Receiving' /\ cstate' = cstate
    BY <1>6, <2>1, <2>2, AbortType
  <2>4. PointersOK'
    BY <1>1, <2>3 DEF PointersOK
  <2> QED
    BY <2>1, <2>3, <2>4 DEF Abort, SetStatus
<1> QED
  BY <1>7, <1>8

(* The pointers stay right when flash, offset and download do.              *)
LEMMA PointersKept ==
    ASSUME TypeInv, PointersOK, UNCHANGED flashVars,
           Receiving' => Receiving /\ offset' = offset /\ cstate' = "in_progress",
           cstate' # "in_progress" => cstate # "in_progress"
    PROVE  FlashTypeOK' /\ PointersOK'
<1>1. FlashTypeOK' /\ Now' = Now /\ inPtr' = inPtr /\ outPtr' = outPtr
  BY FlashKept DEF TypeInv, flashVars
<1> QED
  BY <1>1 DEF PointersOK

LEMMA HandleBlockType ==
    ASSUME TypeInv, PointersOK, NEW m \in Response, NEW base, Carried(base), NEW a \in 0..MaxAcks,
           HandleBlock(m, base, a)
    PROVE  TypeInv' /\ PointersOK'
<1>1. CASE /\ status = "downloading" /\ ExpectedBlock(m)
           /\ StoreBlock(m, base, a) \/ StoreLastBlock(m, base, a)
           /\ UNCHANGED bootVars
  BY <1>1, StoreBlockType, StoreLastBlockType
<1>2. CASE status = "downloading" /\ m.type = "wait" /\ WaitForData(base, a) /\ UNCHANGED bootVars
  <2>1. /\ SendBlockRequest(dfv, offset, base, a) /\ retries' = 0 /\ due' = due \ {"resend"}
        /\ pending' = NoBlock /\ UNCHANGED <<status, offset, nv, dirty, dfv>>
        /\ UNCHANGED flashVars
    BY <1>2 DEF WaitForData, attrVars
  <2>2. UNCHANGED <<fota, fw, resets, known, env>>
    BY <1>2 DEF bootVars
  <2>3. /\ cstate' = "in_progress" /\ reqSent' = TRUE /\ acks' \in 0..MaxAcks /\ Carried(rsp')
    BY <2>1, RequestType
  <2>4. FlashTypeOK' /\ PointersOK'
    <3>1. Receiving' => Receiving /\ offset' = offset /\ cstate' = "in_progress"
      BY <2>1, <2>3 DEF Receiving
    <3> QED
      BY <2>1, <2>3, <3>1, PointersKept
  <2>5. AttrsOK'
    BY <2>1 DEF TypeInv, AttrsOK
  <2>6. FlagsOK' /\ BootOK'
    BY <2>1, <2>2, <2>3 DEF TypeInv, FlagsOK, BootOK
  <2>7. ClientOK'
    <3>1. due' \subseteq due /\ retries' = 0 /\ pending' = NoBlock /\ dfv' = dfv
      BY <2>1
    <3> QED
      BY <3>1, <2>3, ClientFacts DEF TypeInv, ClientOK
  <2> QED
    BY <2>3, <2>4, <2>5, <2>6, <2>7, Zenon DEF TypeInv, Carried
<1>3. CASE /\ status = "downloading" /\ m.type = "abort" /\ Abort(base) /\ acks' = a
           /\ UNCHANGED <<flashVars, bootVars>>
  <2>1. UNCHANGED flashVars /\ UNCHANGED bootVars /\ acks' \in 0..MaxAcks
    BY <1>3
  <2>2. FlashTypeOK'
    BY <2>1, FlashKept DEF TypeInv
  <2>3. TypeInv' /\ ~Receiving' /\ cstate' = cstate
    BY <1>3, <2>1, <2>2, AbortType
  <2>4. PointersOK'
    BY <2>1, <2>3, PointersKept
  <2> QED
    BY <2>3, <2>4
<1>4. CASE /\ rsp' = base /\ acks' = a /\ reqSent' = FALSE /\ pending' = NoBlock
           /\ UNCHANGED <<flashVars, attrVars, cstate, dfv, retries, due, bootVars>>
  <2>1. /\ UNCHANGED flashVars /\ UNCHANGED <<status, offset, nv, dirty, cstate, dfv, retries, due>>
        /\ UNCHANGED <<fota, fw, resets, known, env>>
    BY <1>4 DEF attrVars, bootVars
  <2>2. FlashTypeOK' /\ PointersOK'
    <3>1. Receiving' => Receiving /\ offset' = offset /\ cstate' = "in_progress"
      BY <2>1 DEF Receiving, PointersOK
    <3> QED
      BY <2>1, <3>1, PointersKept
  <2>3. AttrsOK' /\ FlagsOK' /\ BootOK'
    BY <1>4, <2>1 DEF TypeInv, AttrsOK, FlagsOK, BootOK
  <2>4. ClientOK'
    BY <1>4, <2>1 DEF TypeInv, ClientOK
  <2> QED
    BY <1>4, <2>2, <2>3, <2>4, Zenon DEF TypeInv, Carried
<1> QED
  BY <1>1, <1>2, <1>3, <1>4 DEF HandleBlock

(* A download begins at the start of an erased bank, or resumes with an     *)
(* empty buffer.                                                            *)
LEMMA NextImageRespType ==
    ASSUME TypeInv, PointersOK, NextImageResp
    PROVE  TypeInv' /\ PointersOK' /\ \E m \in rsp : m.type = "image" /\ dfv' = m.ver
<1>1. PICK m \in rsp, base \in SUBSET rsp :
        /\ m.type = "image" /\ base \in AfterDelivery(m) /\ m.ver # fw
        /\ LET o == IF cstate = "resume" THEN ResumeOffset ELSE 0
               left == IF "late_end" \in env THEN base ELSE {r \in base : r.type # "end"}
           IN  /\ IF cstate = "resume" THEN SetWriteAddr(o) ELSE EraseFw
               /\ offset' = o
               /\ SendBlockRequest(m.ver, o, left, acks)
        /\ SetStatus("downloading") /\ dfv' = m.ver
        /\ retries' = 0 /\ due' = (due \ {"qnir"}) \cup {"resend"}
        /\ UNCHANGED <<nv, pending, bootVars>>
  BY DEF NextImageResp
<1> DEFINE o == IF cstate = "resume" THEN ResumeOffset ELSE 0
           left == IF "late_end" \in env THEN base ELSE {r \in base : r.type # "end"}
<1>2. m \in Response /\ m.ver \in Versions /\ Carried(base)
  BY <1>1, CarriedDelivery, ResponseFields DEF TypeInv, Carried
<1>3. Carried(left)
  <2>1. left \in SUBSET base
    OBVIOUS
  <2> HIDE DEF left
  <2> QED
    BY <1>2, <2>1, CarriedSubset
<1>4. o \in Int /\ o <= BankSize
  <2>1. offset \in Int /\ offset <= BankSize /\ BankSize \in Nat
    BY FlashFacts DEF TypeInv, AttrsOK
  <2>2. ResumeOffset \in Int /\ ResumeOffset <= offset
    BY <2>1, RoundDownFacts DEF ResumeOffset
  <2> QED
    BY <2>1, <2>2
<1>5. IF cstate = "resume" THEN SetWriteAddr(o) ELSE EraseFw
  BY <1>1
<1>6. SendBlockRequest(m.ver, o, left, acks) /\ offset' = o
  BY <1>1
<1> HIDE DEF left
<1>7. /\ FlashTypeOK' /\ inPtr' = 0 /\ outPtr' = 0 /\ flashAddr' = o
  <2>1. 0 \in BufIndex
    BY PageInBuffer
  <2>2. CASE cstate = "resume"
    BY <1>4, <1>5, <2>2 DEF SetWriteAddr, TypeInv, FlashTypeOK, PointersOK
  <2>3. CASE cstate # "resume"
    BY <1>5, <2>1, <2>3, CellFacts DEF EraseFw, TypeInv, FlashTypeOK
  <2> QED
    BY <2>2, <2>3
<1> HIDE DEF o
<1>8. /\ cstate' = "in_progress" /\ reqSent' = TRUE /\ acks' \in 0..MaxAcks /\ Carried(rsp')
  <2>1. acks \in 0..MaxAcks
    BY DEF TypeInv, ClientOK
  <2> QED
    BY <1>3, <1>6, <2>1, RequestType
<1>9. /\ status' = "downloading" /\ dirty' = TRUE /\ dfv' = m.ver /\ retries' = 0
      /\ due' = (due \ {"qnir"}) \cup {"resend"} /\ nv' = nv /\ pending' = pending
      /\ UNCHANGED <<fota, fw, resets, known, env>>
  BY <1>1 DEF SetStatus, bootVars
<1>10. Placed(Now', offset')
  <2>1. inPtr' \in Nat /\ outPtr' \in Nat /\ flashAddr' + (inPtr' - outPtr') = o
    BY <1>4, <1>7
  <2> QED
    BY <1>4, <1>6, <1>7, <2>1, FlashFacts DEF Placed, HasFlashFields, Now, FlashTypeOK
<1>11. PointersOK'
  BY <1>8, <1>10 DEF PointersOK
<1>12. AttrsOK'
  BY <1>4, <1>6, <1>9 DEF TypeInv, AttrsOK, Status
<1>13. FlagsOK' /\ BootOK'
  BY <1>8, <1>9 DEF TypeInv, FlagsOK, BootOK
<1>14. ClientOK'
  <2>1. due' \subseteq Due
    BY <1>9 DEF TypeInv, ClientOK, Due
  <2> QED
    BY <1>2, <1>8, <1>9, <2>1, ClientFacts DEF TypeInv, ClientOK
<1>15. TypeInv'
  BY <1>7, <1>8, <1>12, <1>13, <1>14, Zenon DEF TypeInv, Carried
<1> QED
  BY <1>1, <1>9, <1>11, <1>15

LEMMA BootType ==
    ASSUME TypeInv, Boot(nv.status, nv.offset), resets' \in 0..MaxResets
    PROVE  TypeInv' /\ PointersOK'
<1>1. /\ RamReset /\ UNCHANGED bank
      /\ status' = nv.status /\ offset' = nv.offset /\ dirty' = FALSE
      /\ cstate' = "idle" /\ dfv' = NoVersion
      /\ reqSent' = FALSE /\ pending' = NoBlock /\ retries' = 0
      /\ due' = {} /\ known' = FALSE /\ acks' = 0 /\ fota' = NoHeader
      /\ fw' = IF Installable(fota) THEN Installed(Image(bank)) ELSE fw
      /\ rsp' = {}
      /\ UNCHANGED <<nv, env>>
  BY DEF Boot
<1>2. FlashTypeOK' /\ inPtr' = 0 /\ outPtr' = 0
  BY <1>1, PageInBuffer, CellFacts DEF RamReset, TypeInv, FlashTypeOK
<1>3. PointersOK'
  BY <1>1, <1>2 DEF PointersOK, Receiving
<1>4. AttrsOK' /\ FlagsOK'
  BY <1>1 DEF TypeInv, AttrsOK, FlagsOK
<1>5. ClientOK'
  BY <1>1, ClientFacts DEF ClientOK
<1>6. BootOK'
  <2>1. Installed(Image(bank)) \in Versions \cup {Junk}
    BY DEF Installed
  <2>2. fw' \in Versions \cup {Factory, Junk}
    BY <1>1, <2>1 DEF TypeInv, BootOK
  <2> QED
    BY <1>1, <2>2 DEF TypeInv, BootOK
<1>7. Carried(rsp')
  BY <1>1, FS_EmptySet, ClientFacts DEF Carried
<1> QED
  BY <1>2, <1>3, <1>4, <1>5, <1>6, <1>7, Zenon DEF TypeInv, Carried

(* Steps that write neither flash nor the attributes of the download.       *)
LEMMA QuietType ==
    ASSUME TypeInv, PointersOK,
           UNCHANGED <<flashVars, attrVars, dfv, fota, fw, resets, env>>,
           cstate' = cstate \/ (cstate = "idle" /\ cstate' = "resume"),
           known' \in BOOLEAN, reqSent' \in BOOLEAN, pending' \in Response \cup {NoBlock},
           retries' \in 0..(MaxRetries - 1), acks' \in 0..MaxAcks, due' \subseteq Due,
           Carried(rsp')
    PROVE  TypeInv' /\ PointersOK'
<1>1. /\ UNCHANGED flashVars /\ UNCHANGED <<status, offset, nv, dirty>>
      /\ UNCHANGED <<dfv, fota, fw, resets, env>>
  BY DEF attrVars
<1>2. FlashTypeOK' /\ PointersOK'
  <2>1. Receiving' => Receiving /\ offset' = offset /\ cstate' = "in_progress"
    BY <1>1 DEF Receiving, PointersOK
  <2> QED
    BY <1>1, <2>1, PointersKept
<1>3. AttrsOK' /\ FlagsOK' /\ BootOK'
  BY <1>1 DEF TypeInv, AttrsOK, FlagsOK, BootOK
<1>4. ClientOK'
  BY <1>1 DEF TypeInv, ClientOK
<1> QED
  BY <1>2, <1>3, <1>4, Zenon DEF TypeInv, Carried

LEMMA TypeInit == Init => TypeInv /\ PointersOK
<1> SUFFICES ASSUME Init PROVE TypeInv /\ PointersOK
  OBVIOUS
<1>1. FlashTypeOK /\ inPtr = 0 /\ outPtr = 0
  BY PageInBuffer, CellFacts DEF Init, RamInit, FlashTypeOK
<1>2. AttrsOK
  <2>1. offset = -1 /\ nv.offset = -1 /\ status = "normal" /\ nv.status = "normal"
    BY DEF Init, Def
  <2> QED
    BY <2>1, FlashFacts DEF AttrsOK, Status
<1>5. FlagsOK
  BY DEF Init, FlagsOK
<1>3. ClientOK /\ BootOK
  BY ClientFacts DEF Init, ClientOK, BootOK
<1>4. Carried(rsp)
  BY FS_EmptySet, ClientFacts DEF Init, Carried
<1> QED
  BY <1>1, <1>2, <1>3, <1>4, <1>5, Zenon DEF TypeInv, PointersOK, Receiving, Init

LEMMA TypeStep == TypeInv /\ PointersOK /\ [Next]_vars => TypeInv' /\ PointersOK'
<1> SUFFICES ASSUME TypeInv, PointersOK, [Next]_vars
             PROVE  TypeInv' /\ PointersOK'
  OBVIOUS
<1>0. /\ Carried(rsp) /\ rsp \subseteq Response /\ due \subseteq Due
      /\ dirty \in BOOLEAN /\ known \in BOOLEAN /\ reqSent \in BOOLEAN
      /\ pending \in Response \cup {NoBlock} /\ retries \in 0..(MaxRetries - 1)
      /\ acks \in 0..MaxAcks /\ acks \in Nat /\ MaxAcks \in Nat
  BY ClientFacts DEF TypeInv, ClientOK, FlagsOK, Carried
<1>a. \A m \in rsp : \A base \in AfterDelivery(m) : Carried(base)
  BY <1>0, CarriedDelivery
<1>1. CASE Joined
  <2>1. due' \subseteq Due
    BY <1>0, <1>1 DEF Joined, Due
  <2> QED
    BY <1>0, <1>1, <2>1, QuietType DEF Joined, blockVars, bootVars
<1>2. CASE InitClient
  <2>1. due' \subseteq Due
    BY <1>0, <1>2 DEF InitClient, Due
  <2> QED
    BY <1>0, <1>2, <2>1, QuietType DEF InitClient, blockVars, bootVars
<1>3. CASE ServerNotFound
  <2>1. due' \subseteq Due
    BY <1>0, <1>3 DEF ServerNotFound
  <2> QED
    BY <1>0, <1>3, <2>1, QuietType DEF ServerNotFound, blockVars, bootVars
<1>4. CASE StartClient
  <2>1. /\ UNCHANGED flashVars /\ UNCHANGED <<offset, nv, cstate>>
        /\ UNCHANGED <<dfv, reqSent, pending, retries, fota, fw, resets, env, rsp, acks>>
        /\ (status' = status /\ dirty' = dirty) \/ (status' = "normal" /\ dirty' = TRUE)
        /\ due' = (due \ {"match"}) \cup {"qnir"} /\ known' = TRUE
    BY <1>4, Zenon DEF StartClient, SetStatus, blockVars
  <2>2. FlashTypeOK' /\ PointersOK'
    <3>1. Receiving' => Receiving /\ offset' = offset /\ cstate' = "in_progress"
      BY <2>1 DEF Receiving, PointersOK
    <3> QED
      BY <2>1, <3>1, PointersKept
  <2>3. AttrsOK' /\ FlagsOK' /\ BootOK'
    BY <2>1 DEF TypeInv, AttrsOK, FlagsOK, BootOK, Status
  <2>4. ClientOK'
    <3>1. due' \subseteq Due
      BY <1>0, <2>1 DEF Due
    <3> QED
      BY <2>1, <3>1 DEF TypeInv, ClientOK
  <2> QED
    BY <1>0, <2>1, <2>2, <2>3, <2>4, Zenon DEF TypeInv, Carried
<1>5. CASE RequestServer
  <2>1. rsp' \in WithReply(rsp, ImageAnswers \cup RefusedAnswers) \/ rsp' = rsp
    BY <1>5 DEF RequestServer
  <2>2. Carried(rsp')
    BY <1>0, <2>1, CarriedReply, AnswersFacts
  <2> QED
    BY <1>0, <1>5, <2>2, QuietType DEF RequestServer, blockVars, bootVars
<1>6. CASE ImageNotify
  <2>1. due' \subseteq Due /\ rsp' \in WithReply(rsp, ImageAnswers)
    BY <1>0, <1>6 DEF ImageNotify, Due
  <2>2. Carried(rsp')
    BY <1>0, <2>1, CarriedReply, AnswersFacts
  <2> QED
    BY <1>0, <1>6, <2>1, <2>2, QuietType DEF ImageNotify, blockVars, bootVars
<1>7. CASE NextImageResp
  BY <1>7, NextImageRespType
<1>8. CASE NextImageRefused
  <2>1. Carried(rsp')
    BY <1>8, <1>a DEF NextImageRefused
  <2> QED
    BY <1>0, <1>8, <2>1, QuietType DEF NextImageRefused, blockVars, bootVars
<1>9. CASE DeferBlock
  <2>1. PICK m \in rsp :
           /\ Block(m) /\ rsp' \in AfterDelivery(m)
           /\ pending' = IF pending = NoBlock THEN m ELSE pending
    BY <1>9 DEF DeferBlock
  <2>2. Carried(rsp') /\ pending' \in Response \cup {NoBlock}
    BY <1>0, <1>a, <2>1
  <2> QED
    BY <1>0, <1>9, <2>2, QuietType DEF DeferBlock, bootVars
<1>10. CASE ReceiveBlock
  <2>1. PICK m \in rsp, base \in SUBSET rsp :
           Block(m) /\ base \in AfterDelivery(m) /\ HandleBlock(m, base, acks)
    BY <1>10 DEF ReceiveBlock
  <2>2. Carried(base) /\ m \in Response
    BY <1>0, <1>a, <2>1
  <2> QED
    BY <1>0, <2>1, <2>2, HandleBlockType
<1>11. CASE BlockRequestSent
  <2>1. acks > 0 /\ acks - 1 \in 0..MaxAcks
    BY <1>0, <1>11 DEF BlockRequestSent
  <2>2. CASE pending = NoBlock
    BY <1>0, <1>11, <2>1, <2>2, QuietType DEF BlockRequestSent, bootVars
  <2>3. CASE pending # NoBlock
    <3>1. HandleBlock(pending, rsp, acks - 1) /\ pending \in Response
      BY <1>0, <1>11, <2>3 DEF BlockRequestSent
    <3> QED
      BY <1>0, <2>1, <3>1, HandleBlockType
  <2> QED
    BY <2>2, <2>3
<1>12. CASE BlockRequestFailed
  <2>1. acks - 1 \in 0..MaxAcks
    BY <1>0, <1>12 DEF BlockRequestFailed
  <2> QED
    BY <1>0, <1>12, <2>1, QuietType DEF BlockRequestFailed, bootVars
<1>13. CASE ResendBuffer
  <2>0. UNCHANGED flashVars /\ UNCHANGED bootVars /\ UNCHANGED <<fota, fw, resets, known, env>>
    BY <1>13 DEF ResendBuffer, bootVars
  <2>1. CASE /\ status = "downloading" /\ ~LastTry
             /\ retries' = retries + 1 /\ reqSent' = TRUE
             /\ acks' = IF acks < MaxAcks THEN acks + 1 ELSE acks
             /\ rsp' \in WithReply(rsp, BlockAnswers(dfv, offset))
             /\ UNCHANGED <<attrVars, cstate, dfv, pending, due>>
    <3>1. retries' \in 0..(MaxRetries - 1)
      BY <1>0, <2>1, ClientFacts DEF LastTry
    <3>2. acks' \in 0..MaxAcks
      BY <1>0, <2>1
    <3>3. Carried(rsp')
      BY <1>0, <2>1, CarriedReply, AnswersFacts
    <3> QED
      BY <1>0, <2>0, <2>1, <3>1, <3>2, <3>3, QuietType
  <2>2. CASE Abort(rsp) /\ UNCHANGED acks
    <3>1. FlashTypeOK'
      BY <2>0, FlashKept DEF TypeInv
    <3>2. TypeInv' /\ ~Receiving' /\ cstate' = cstate
      BY <1>0, <2>0, <2>2, <3>1, AbortType
    <3> QED
      BY <2>0, <3>2, PointersKept
  <2>3. CASE /\ due' = due \ {"resend"}
             /\ UNCHANGED <<attrVars, cstate, blockVars, rsp, acks>>
    <3>1. due' \subseteq Due
      BY <1>0, <2>3
    <3> QED
      BY <1>0, <2>0, <2>3, <3>1, QuietType DEF blockVars
  <2> QED
    BY <1>13, <2>1, <2>2, <2>3 DEF ResendBuffer
<1>14. CASE DefaultResponse
  <2>1. PICK m \in rsp, base \in SUBSET rsp :
           m.type = "no_image" /\ base \in AfterDelivery(m) /\ Abort(base)
    BY <1>14 DEF DefaultResponse
  <2>2. UNCHANGED flashVars /\ UNCHANGED bootVars /\ acks' = acks
    BY <1>14 DEF DefaultResponse
  <2>3. FlashTypeOK'
    BY <2>2, FlashKept DEF TypeInv
  <2>4. TypeInv' /\ ~Receiving' /\ cstate' = cstate
    BY <1>0, <1>a, <2>1, <2>2, <2>3, AbortType
  <2> QED
    BY <2>2, <2>4, PointersKept
<1>15. CASE UpgradeEndResp
  <2>1. /\ Carried(rsp')
        /\ UNCHANGED flashVars /\ UNCHANGED <<offset, nv, cstate, fw, resets, known, env, acks>>
        /\ UNCHANGED <<dfv, reqSent, pending, retries>>
    BY <1>15, <1>a DEF UpgradeEndResp, blockVars
  <2>2. /\ \/ status' \in {"waiting_upgrade", "count_down", "normal"} /\ dirty' = TRUE
           \/ status' = status /\ dirty' = dirty
        /\ due' \subseteq due \cup {"finish", "qnir"}
        /\ fota' = fota \/ fota' = Image(bank)
    BY <1>15, Zenon DEF UpgradeEndResp, SetStatus
  <2>3. FlashTypeOK' /\ PointersOK'
    <3>1. Receiving' => Receiving /\ offset' = offset /\ cstate' = "in_progress"
      BY <2>1, <2>2 DEF Receiving, PointersOK
    <3> QED
      BY <2>1, <3>1, PointersKept
  <2>4. AttrsOK' /\ FlagsOK'
    BY <2>1, <2>2 DEF TypeInv, AttrsOK, FlagsOK, Status
  <2>5. ClientOK'
    <3>1. due' \subseteq Due
      BY <1>0, <2>2 DEF Due
    <3> QED
      BY <2>1, <3>1 DEF TypeInv, ClientOK
  <2>6. BootOK'
    <3>1. Image(bank) \in [0..(FileSize - 1) -> Cell]
      BY ClientFacts, FlashFacts DEF Image, TypeInv, FlashTypeOK, Bank
    <3> QED
      BY <2>1, <2>2, <3>1 DEF TypeInv, BootOK
  <2> QED
    BY <2>1, <2>3, <2>4, <2>5, <2>6, Zenon DEF TypeInv, Carried
<1>16. CASE ServerUpgradesNow
  <2>1. dfv \in Versions
    BY <1>16 DEF ServerUpgradesNow, TypeInv, ClientOK
  <2>2. [type |-> "end", ver |-> dfv, wait |-> FALSE] \in Response
    BY <2>1, ResponseFacts
  <2>3. Carried(rsp')
    <3> DEFINE answers == {[type |-> "end", ver |-> dfv, wait |-> FALSE]}
    <3>1. answers \subseteq Response /\ rsp' \in WithReply(rsp, answers)
      BY <1>16, <2>2 DEF ServerUpgradesNow
    <3> HIDE DEF answers
    <3> QED
      BY <1>0, <3>1, CarriedReply
  <2> QED
    BY <1>0, <1>16, <2>3, QuietType DEF ServerUpgradesNow, blockVars, bootVars
<1>17. CASE FinishUpgrade
  <2>1. Boot(nv.status, nv.offset) /\ resets' \in 0..MaxResets
    BY <1>17 DEF FinishUpgrade, TypeInv, BootOK
  <2> QED
    BY <2>1, BootType
<1>18. CASE SaveAttrs
  <2>1. /\ UNCHANGED flashVars /\ nv' = [status |-> status, offset |-> offset] /\ dirty' = FALSE
        /\ UNCHANGED <<status, offset, cstate, due, rsp, acks>>
        /\ UNCHANGED <<dfv, reqSent, pending, retries, fota, fw, resets, known, env>>
    BY <1>18 DEF SaveAttrs, blockVars, bootVars
  <2>2. FlashTypeOK' /\ PointersOK'
    <3>1. Receiving' => Receiving /\ offset' = offset /\ cstate' = "in_progress"
      BY <2>1 DEF Receiving, PointersOK
    <3> QED
      BY <2>1, <3>1, PointersKept
  <2>3. AttrsOK' /\ FlagsOK' /\ BootOK'
    BY <2>1 DEF TypeInv, AttrsOK, FlagsOK, BootOK
  <2>4. ClientOK'
    BY <2>1 DEF TypeInv, ClientOK
  <2> QED
    BY <1>0, <2>1, <2>2, <2>3, <2>4, Zenon DEF TypeInv, Carried
<1>19. CASE Reset
  <2>1. Boot(nv.status, nv.offset) /\ resets' \in 0..MaxResets
    BY <1>19, ClientFacts DEF Reset, TypeInv, BootOK
  <2> QED
    BY <2>1, BootType
<1>20. CASE UNCHANGED vars
  BY <1>0, <1>20, QuietType DEF vars, blockVars, bootVars
<1> QED
  BY <1>1, <1>2, <1>3, <1>4, <1>5, <1>6, <1>7, <1>8, <1>9, <1>10, <1>11, <1>12, <1>13, <1>14,
     <1>15, <1>16, <1>17, <1>18, <1>19, <1>20 DEF Next

(* Every reachable state of every client is one the declarations describe:  *)
(* the retries stay below their limit, the pointers inside the buffer.      *)
THEOREM TypeCorrect == Spec => []TypeOK
<1>1. Spec => [](TypeInv /\ PointersOK)
  BY TypeInit, TypeStep, PTL DEF Spec
<1> QED
  BY <1>1, TypeInvImplies, PTL

-----------------------------------------------------------------------------
(* Asking again.  Only a server that makes the client wait takes its resend *)
(* alarm away, so where none does, no answer in flight or put aside may say *)
(* so.                                                                      *)
NoWait(r) == "waits" \notin env => \A m \in r : m.type # "wait"

NotToldToWait ==
    NoWait(rsp) /\ (pending # NoBlock => NoWait({pending}))

QueryDue == known /\ status = "normal" => "qnir" \in due

AlarmDue ==
    known /\ status = "downloading" /\ "waits" \notin env => due \cap {"qnir", "resend"} # {}

AskInv == NotToldToWait /\ QueryDue /\ AlarmDue

LEMMA NoWaitReply ==
    ASSUME NEW base, NoWait(base), NEW answers, NoWait(answers),
           NEW r \in WithReply(base, answers)
    PROVE  NoWait(r)
<1>1. r \subseteq base \cup answers
  BY DEF WithReply
<1> QED
  BY <1>1 DEF NoWait

LEMMA NoWaitAnswers ==
    /\ \A v, o : NoWait(BlockAnswers(v, o))
    /\ NoWait(ImageAnswers \cup RefusedAnswers) /\ NoWait(ImageAnswers)
    /\ \A v : NoWait(EndAnswers(v))
<1>1. \A v, o : \A m \in BlockAnswers(v, o) : m.type = "wait" => "waits" \in env
  BY AnswersFacts
<1>2. \A m \in ImageAnswers \cup RefusedAnswers : m.type # "wait"
  BY AnswersFacts
<1>3. \A v : \A m \in EndAnswers(v) : m.type # "wait"
  BY DEF EndAnswers
<1> QED
  BY <1>1, <1>2, <1>3 DEF NoWait

LEMMA NoWaitDelivery ==
    ASSUME NoWait(rsp), NEW m \in rsp, NEW base \in AfterDelivery(m)
    PROVE  NoWait(base) /\ NoWait({m})
  BY DEF AfterDelivery, NoWait

(* What a request leaves in flight.                                         *)
LEMMA RequestNoWait ==
    ASSUME NEW v, NEW o, NEW base, NoWait(base), NEW a, SendBlockRequest(v, o, base, a)
    PROVE  NoWait(rsp')
<1>1. rsp' \in WithReply(base, BlockAnswers(v, o))
  BY DEF SendBlockRequest
<1> QED
  BY <1>1, NoWaitReply, NoWaitAnswers

LEMMA AbortAsks ==
    ASSUME NEW base, NoWait(base), Abort(base), env' = env
    PROVE  AskInv'
<1>1. /\ status' = "normal" /\ pending' = NoBlock /\ "qnir" \in due' /\ rsp' = base
  BY DEF Abort, SetStatus
<1> QED
  BY <1>1 DEF AskInv, NotToldToWait, NoWait, QueryDue, AlarmDue

LEMMA HandleBlockAsks ==
    ASSUME AskInv, NEW m, NoWait({m}), NEW base, NoWait(base), NEW a, HandleBlock(m, base, a)
    PROVE  AskInv'
<1>0. UNCHANGED <<known, env>>
  BY DEF HandleBlock, bootVars
<1>1. CASE status = "downloading" /\ StoreBlock(m, base, a)
  <2>1. pending' = NoBlock /\ "resend" \in due' /\ status' = "downloading"
    BY <1>1 DEF StoreBlock
  <2>2. NoWait(rsp')
    BY <1>1, RequestNoWait DEF StoreBlock
  <2> QED
    BY <1>0, <2>1, <2>2 DEF AskInv, NotToldToWait, NoWait, QueryDue, AlarmDue
<1>2. CASE StoreLastBlock(m, base, a)
  <2>1. \/ Abort(base)
        \/ /\ status' = "downloaded" /\ pending' = NoBlock
           /\ rsp' \in WithReply(base, EndAnswers(dfv))
    BY <1>2 DEF StoreLastBlock, SetStatus
  <2>2. CASE Abort(base)
    BY <1>0, <2>2, AbortAsks
  <2>3. CASE /\ status' = "downloaded" /\ pending' = NoBlock
             /\ rsp' \in WithReply(base, EndAnswers(dfv))
    <3>1. NoWait(rsp')
      BY <2>3, NoWaitReply, NoWaitAnswers
    <3> QED
      BY <1>0, <2>3, <3>1 DEF AskInv, NotToldToWait, NoWait, QueryDue, AlarmDue
  <2> QED
    BY <2>1, <2>2, <2>3
<1>3. CASE status = "downloading" /\ m.type = "wait" /\ WaitForData(base, a)
  <2>1. "waits" \in env
    BY <1>3 DEF NoWait
  <2>2. status' = "downloading"
    BY <1>3 DEF WaitForData, attrVars
  <2> QED
    BY <1>0, <2>1, <2>2 DEF AskInv, NotToldToWait, NoWait, QueryDue, AlarmDue
<1>4. CASE Abort(base)
  BY <1>0, <1>4, AbortAsks
<1>5. CASE rsp' = base /\ pending' = NoBlock /\ UNCHANGED attrVars /\ due' = due
  BY <1>0, <1>5 DEF AskInv, NotToldToWait, NoWait, QueryDue, AlarmDue, attrVars
<1> QED
  BY <1>1, <1>2, <1>3, <1>4, <1>5 DEF HandleBlock

(* Steps that set no alarm back and start no download.                      *)
LEMMA QuietAsks ==
    ASSUME AskInv, NoWait(rsp'), UNCHANGED <<known, env, status>>, due \subseteq due',
           pending' # NoBlock => NoWait({pending'})
    PROVE  AskInv'
  BY DEF AskInv, NotToldToWait, NoWait, QueryDue, AlarmDue

LEMMA AskStep == AskInv /\ [Next]_vars => AskInv'
<1> SUFFICES ASSUME AskInv, [Next]_vars
             PROVE  AskInv'
  OBVIOUS
<1>0. NoWait(rsp) /\ (pending # NoBlock => NoWait({pending})) /\ QueryDue /\ AlarmDue
  BY DEF AskInv, NotToldToWait
<1>a. \A m \in rsp : \A base \in AfterDelivery(m) : NoWait(base) /\ NoWait({m})
  BY <1>0, NoWaitDelivery
<1>1. CASE Joined
  BY <1>0, <1>1, QuietAsks DEF Joined, bootVars, blockVars, attrVars
<1>2. CASE InitClient
  <2>1. /\ due' = (due \ {"init"}) \cup {"match"}
        /\ UNCHANGED <<known, env, status, pending, rsp>>
    BY <1>2 DEF InitClient, bootVars, blockVars, attrVars
  <2> QED
    BY <1>0, <2>1 DEF AskInv, NotToldToWait, NoWait, QueryDue, AlarmDue
<1>3. CASE ServerNotFound
  <2>1. due' = due \ {"match"} /\ UNCHANGED <<known, env, status, pending, rsp>>
    BY <1>3 DEF ServerNotFound, bootVars, blockVars, attrVars
  <2> QED
    BY <1>0, <2>1 DEF AskInv, NotToldToWait, NoWait, QueryDue, AlarmDue
<1>4. CASE StartClient
  <2>1. "qnir" \in due' /\ UNCHANGED <<env, pending, rsp>>
    BY <1>4 DEF StartClient, blockVars
  <2> QED
    BY <1>0, <2>1 DEF AskInv, NotToldToWait, NoWait, QueryDue, AlarmDue
<1>5. CASE RequestServer
  <2>1. rsp' \in WithReply(rsp, ImageAnswers \cup RefusedAnswers) \/ rsp' = rsp
    BY <1>5 DEF RequestServer
  <2>2. NoWait(rsp')
    BY <1>0, <2>1, NoWaitReply, NoWaitAnswers
  <2> QED
    BY <1>0, <1>5, <2>2, QuietAsks DEF RequestServer, bootVars, blockVars, attrVars
<1>6. CASE ImageNotify
  <2>1. rsp' \in WithReply(rsp, ImageAnswers)
    BY <1>6 DEF ImageNotify
  <2>2. NoWait(rsp')
    BY <1>0, <2>1, NoWaitReply, NoWaitAnswers
  <2> QED
    BY <1>0, <1>6, <2>2, QuietAsks DEF ImageNotify, bootVars, blockVars, attrVars
<1>7. CASE NextImageResp
  <2>1. PICK m, base, left, o :
           /\ m \in rsp /\ base \in SUBSET rsp /\ left \in SUBSET rsp
           /\ SendBlockRequest(m.ver, o, left, acks)
           /\ status' = "downloading" /\ "resend" \in due'
           /\ UNCHANGED <<pending, known, env>>
    BY <1>7 DEF NextImageResp, SetStatus, bootVars
  <2>2. NoWait(rsp')
    <3>1. NoWait(left)
      BY <1>0, <2>1 DEF NoWait
    <3> QED
      BY <2>1, <3>1, RequestNoWait
  <2> QED
    BY <1>0, <2>1, <2>2 DEF AskInv, NotToldToWait, NoWait, QueryDue, AlarmDue
<1>8. CASE NextImageRefused
  <2>1. NoWait(rsp')
    BY <1>8, <1>a DEF NextImageRefused
  <2> QED
    BY <1>0, <1>8, <2>1, QuietAsks DEF NextImageRefused, bootVars, blockVars, attrVars
<1>9. CASE DeferBlock
  <2>1. NoWait(rsp') /\ (pending' # NoBlock => NoWait({pending'}))
    BY <1>0, <1>9, <1>a DEF DeferBlock
  <2> QED
    BY <1>0, <1>9, <2>1, QuietAsks DEF DeferBlock, bootVars, attrVars
<1>10. CASE ReceiveBlock
  <2>1. PICK m \in rsp, base \in SUBSET rsp :
           base \in AfterDelivery(m) /\ HandleBlock(m, base, acks)
    BY <1>10 DEF ReceiveBlock
  <2> QED
    BY <1>a, <2>1, HandleBlockAsks
<1>11. CASE BlockRequestSent
  <2>1. CASE pending = NoBlock
    BY <1>0, <1>11, <2>1, QuietAsks DEF BlockRequestSent, bootVars, attrVars
  <2>2. CASE pending # NoBlock
    BY <1>0, <1>11, <2>2, HandleBlockAsks DEF BlockRequestSent
  <2> QED
    BY <2>1, <2>2
<1>12. CASE BlockRequestFailed
  BY <1>0, <1>12, QuietAsks DEF BlockRequestFailed, bootVars, attrVars
<1>13. CASE ResendBuffer
  <2>0. UNCHANGED <<known, env>>
    BY <1>13 DEF ResendBuffer, bootVars
  <2>1. CASE /\ rsp' \in WithReply(rsp, BlockAnswers(dfv, offset))
             /\ UNCHANGED <<attrVars, cstate, dfv, pending, due>>
    <3>1. NoWait(rsp')
      BY <1>0, <2>1, NoWaitReply, NoWaitAnswers
    <3> QED
      BY <1>0, <2>0, <2>1, <3>1, QuietAsks DEF attrVars
  <2>2. CASE Abort(rsp)
    BY <1>0, <2>0, <2>2, AbortAsks
  <2>3. CASE /\ status # "downloading" /\ due' = due \ {"resend"}
             /\ UNCHANGED <<attrVars, cstate, blockVars, rsp, acks>>
    BY <1>0, <2>0, <2>3 DEF AskInv, NotToldToWait, NoWait, QueryDue, AlarmDue, attrVars, blockVars
  <2> QED
    BY <1>13, <2>1, <2>2, <2>3 DEF ResendBuffer
<1>14. CASE DefaultResponse
  <2>1. PICK m \in rsp, base \in SUBSET rsp :
           base \in AfterDelivery(m) /\ Abort(base) /\ env' = env
    BY <1>14 DEF DefaultResponse, bootVars
  <2> QED
    BY <1>a, <2>1, AbortAsks
<1>15. CASE UpgradeEndResp
  <2>1. NoWait(rsp') /\ UNCHANGED <<pending, known, env>>
    BY <1>15, <1>a DEF UpgradeEndResp, blockVars
  <2>2. /\ due \subseteq due'
        /\ \/ status' \in {"waiting_upgrade", "count_down"} \/ status' = status
           \/ status' = "normal" /\ "qnir" \in due'
    BY <1>15 DEF UpgradeEndResp, SetStatus
  <2> QED
    BY <1>0, <2>1, <2>2 DEF AskInv, NotToldToWait, NoWait, QueryDue, AlarmDue
<1>16. CASE ServerUpgradesNow
  <2> DEFINE answers == {[type |-> "end", ver |-> dfv, wait |-> FALSE]}
  <2>1. NoWait(answers) /\ rsp' \in WithReply(rsp, answers)
    BY <1>16 DEF ServerUpgradesNow, NoWait
  <2> HIDE DEF answers
  <2>2. NoWait(rsp')
    BY <1>0, <2>1, NoWaitReply
  <2> QED
    BY <1>0, <1>16, <2>2, QuietAsks DEF ServerUpgradesNow, bootVars, blockVars, attrVars
<1>17. CASE \E s, o : Boot(s, o)
  BY <1>17 DEF Boot, AskInv, NotToldToWait, NoWait, QueryDue, AlarmDue
<1>18. CASE SaveAttrs
  BY <1>0, <1>18, QuietAsks DEF SaveAttrs, bootVars, blockVars
<1>20. CASE UNCHANGED vars
  BY <1>0, <1>20, QuietAsks DEF vars, attrVars, bootVars, blockVars
<1> QED
  BY <1>1, <1>2, <1>3, <1>4, <1>5, <1>6, <1>7, <1>8, <1>9, <1>10, <1>11, <1>12, <1>13, <1>14,
     <1>15, <1>16, <1>17, <1>18, <1>20 DEF Next, FinishUpgrade, Reset

(* However messages are lost, duplicated or reordered, and whatever handler *)
(* is called when: a client that knows a server, and was not told to wait,  *)
(* has an alarm set that makes it ask again.                                *)
THEOREM NeverSilent == Spec => []ClientNeverSilent
<1>1. Init => AskInv
  BY DEF Init, AskInv, NotToldToWait, NoWait, QueryDue, AlarmDue
<1>2. AskInv => ClientNeverSilent
  BY DEF AskInv, QueryDue, AlarmDue, ClientNeverSilent
<1> QED
  BY <1>1, <1>2, AskStep, PTL DEF Spec

-----------------------------------------------------------------------------
(* Installing.  With tagged files, and when no Upgrade End Response of one  *)
(* download arrives during another, the server's word to upgrade can only   *)
(* meet a bank whose file was verified.                                     *)
NoLateEnd == \A e \in Environments : "late_end" \notin e

BankGood == bank[0] # Erased => \E v \in Versions : Image(bank) = FileImage(v)

EndUnderWay ==
    \/ \E m \in rsp : m.type = "end"
    \/ status = "waiting_upgrade" /\ dfv # NoVersion

InstallInv ==
    /\ status = "downloading" => ~EndUnderWay
    /\ EndUnderWay => BankGood
    /\ ReadyMeansGood /\ NeverBroken

(* Steps that leave the bank alone and bring no Upgrade End Response.       *)
LEMMA QuietInstall ==
    ASSUME InstallInv, UNCHANGED <<bank, fota, fw>>,
           status' = "downloading" => status = "downloading",
           EndUnderWay' => EndUnderWay
    PROVE  InstallInv'
<1>1. BankGood' <=> BankGood
  BY DEF BankGood
<1> QED
  BY <1>1 DEF InstallInv, ReadyMeansGood, NeverBroken

NoEnd(r) == \A m \in r : m.type # "end"

LEMMA NoEndReply ==
    ASSUME NEW base, NEW answers, NoEnd(answers), NEW r \in WithReply(base, answers)
    PROVE  \A m \in r : m.type = "end" => m \in base
  BY DEF WithReply, NoEnd

LEMMA NoEndAnswers ==
    /\ \A v, o : NoEnd(BlockAnswers(v, o))
    /\ NoEnd(ImageAnswers \cup RefusedAnswers) /\ NoEnd(ImageAnswers)
<1>1. \A v, o : \A m \in BlockAnswers(v, o) : m.type # "end"
  BY AnswersFacts
<1>2. \A m \in ImageAnswers \cup RefusedAnswers : m.type # "end"
  BY AnswersFacts
<1> QED
  BY <1>1, <1>2 DEF NoEnd

LEMMA AbortInstall ==
    ASSUME InstallInv, NEW base \in SUBSET rsp, Abort(base), UNCHANGED <<bank, fota, fw>>
    PROVE  InstallInv'
<1>1. status' = "normal" /\ rsp' = base
  BY DEF Abort, SetStatus
<1> QED
  BY <1>1, QuietInstall DEF EndUnderWay

LEMMA HandleBlockInstall ==
    ASSUME Tagged, TypeInv, PointersOK, InstallInv, NEW m \in Response, NEW base \in SUBSET rsp,
           NEW a \in 0..MaxAcks, HandleBlock(m, base, a)
    PROVE  InstallInv'
<1>0. UNCHANGED <<fota, fw>>
  BY DEF HandleBlock, bootVars
<1>a. Carried(base)
  BY CarriedSubset DEF TypeInv
<1>1. CASE status = "downloading" /\ ExpectedBlock(m) /\ StoreBlock(m, base, a)
  <2>1. NoEnd(base)
    BY <1>1 DEF InstallInv, EndUnderWay, NoEnd
  <2>2. status' = "downloading" /\ rsp' \in WithReply(base, BlockAnswers(dfv, offset + BlockLength(dfv, offset)))
    BY <1>1 DEF StoreBlock, SendBlockRequest
  <2>3. ~EndUnderWay'
    BY <2>1, <2>2, NoEndReply, NoEndAnswers DEF EndUnderWay, NoEnd
  <2> QED
    BY <1>0, <2>3 DEF InstallInv, ReadyMeansGood, NeverBroken
<1>2. CASE /\ status = "downloading" /\ ExpectedBlock(m) /\ StoreLastBlock(m, base, a)
           /\ UNCHANGED bootVars
  <2>1. NoEnd(base)
    BY <1>2 DEF InstallInv, EndUnderWay, NoEnd
  <2>2. \/ status' = "normal" /\ dfv' = NoVersion /\ rsp' = base
        \/ /\ status' = "downloaded" /\ bank'[FileSize - 1] # Erased /\ VerifyOk(bank')
    BY <1>2, <1>a, StoreLastBlockType
  <2>3. CASE status' = "normal" /\ rsp' = base
    BY <1>0, <2>1, <2>3 DEF InstallInv, ReadyMeansGood, NeverBroken, EndUnderWay, NoEnd
  <2>4. CASE status' = "downloaded" /\ bank'[FileSize - 1] # Erased /\ VerifyOk(bank')
    <3>1. BankGood'
      BY <2>4 DEF BankGood, VerifyOk, IntegrityTagFound, ImageTagFound
    <3> QED
      BY <1>0, <2>4, <3>1 DEF InstallInv, ReadyMeansGood, NeverBroken
  <2> QED
    BY <2>2, <2>3, <2>4
<1>3. CASE WaitForData(base, a)
  <2>1. /\ rsp' \in WithReply(base, BlockAnswers(dfv, offset))
        /\ UNCHANGED <<bank, status, dfv>>
    BY <1>3 DEF WaitForData, SendBlockRequest, flashVars, attrVars
  <2>2. EndUnderWay' => EndUnderWay
    BY <2>1, NoEndReply, NoEndAnswers DEF EndUnderWay
  <2> QED
    BY <1>0, <2>1, <2>2, QuietInstall
<1>4. CASE Abort(base) /\ UNCHANGED flashVars
  BY <1>0, <1>4, AbortInstall DEF flashVars
<1>5. CASE rsp' = base /\ UNCHANGED <<flashVars, attrVars, dfv>>
  <2>1. EndUnderWay' => EndUnderWay
    BY <1>5 DEF EndUnderWay, attrVars
  <2> QED
    BY <1>0, <1>5, <2>1, QuietInstall DEF flashVars, attrVars
<1> QED
  BY <1>1, <1>2, <1>3, <1>4, <1>5 DEF HandleBlock

(* A header leads to a complete image, and nothing else ever runs.          *)
LEMMA BootInstall ==
    ASSUME InstallInv, NEW s, NEW o, Boot(s, o)
    PROVE  InstallInv'
<1>1. /\ rsp' = {} /\ dfv' = NoVersion /\ fota' = NoHeader
      /\ fw' = IF Installable(fota) THEN Installed(Image(bank)) ELSE fw
  BY DEF Boot
<1>2. Installable(fota) => Installed(Image(bank)) \in Versions
  BY DEF Installable, Installed, InstallInv, ReadyMeansGood
<1>3. fw' # Junk
  BY <1>1, <1>2, ClientFacts DEF InstallInv, NeverBroken
<1> QED
  BY <1>1, <1>3 DEF InstallInv, EndUnderWay, ReadyMeansGood, NeverBroken

LEMMA InstallStep ==
    ASSUME Tagged, NoLateEnd
    PROVE  TypeInv /\ PointersOK /\ InstallInv /\ [Next]_vars => InstallInv'
<1> SUFFICES ASSUME TypeInv, PointersOK, InstallInv, [Next]_vars
             PROVE  InstallInv'
  OBVIOUS
<1>0. /\ rsp \subseteq Response /\ acks \in 0..MaxAcks /\ pending \in Response \cup {NoBlock}
      /\ env \in Environments
  BY DEF TypeInv, ClientOK, BootOK, Carried
<1>a. \A m \in rsp : \A base \in AfterDelivery(m) : base \subseteq rsp
  BY DEF AfterDelivery
<1>1. CASE UNCHANGED <<bank, fota, fw, status, dfv, rsp>>
  BY <1>1, QuietInstall DEF EndUnderWay
<1>2. CASE /\ UNCHANGED <<bank, fota, fw, status, dfv>>
           /\ \E m \in rsp : rsp' \in AfterDelivery(m)
  <2>1. rsp' \subseteq rsp
    BY <1>2, <1>a
  <2> QED
    BY <1>2, <2>1, QuietInstall DEF EndUnderWay
<1>3. CASE Joined \/ InitClient \/ ServerNotFound
  BY <1>1, <1>3 DEF Joined, InitClient, ServerNotFound, flashVars, attrVars, blockVars, bootVars
<1>4. CASE StartClient
  <2>1. /\ UNCHANGED <<bank, fota, fw, dfv, rsp>>
        /\ status' = status \/ status' = "normal"
    BY <1>4 DEF StartClient, SetStatus, flashVars, blockVars
  <2> QED
    BY <2>1, QuietInstall DEF EndUnderWay
<1>5. CASE RequestServer \/ ImageNotify
  <2>1. /\ UNCHANGED <<bank, fota, fw, status, dfv>>
        /\ \/ rsp' \in WithReply(rsp, ImageAnswers \cup RefusedAnswers)
           \/ rsp' \in WithReply(rsp, ImageAnswers) \/ rsp' = rsp
    BY <1>5 DEF RequestServer, ImageNotify, flashVars, attrVars, blockVars, bootVars
  <2>2. EndUnderWay' => EndUnderWay
    BY <2>1, NoEndReply, NoEndAnswers DEF EndUnderWay
  <2> QED
    BY <2>1, <2>2, QuietInstall
<1>7. CASE NextImageResp
  <2>1. PICK m \in rsp, base \in SUBSET rsp :
          /\ LET o == IF cstate = "resume" THEN ResumeOffset ELSE 0
                 left == IF "late_end" \in env THEN base ELSE {r \in base : r.type # "end"}
             IN  SendBlockRequest(m.ver, o, left, acks)
          /\ status' = "downloading" /\ UNCHANGED <<fota, fw>>
    BY <1>7 DEF NextImageResp, SetStatus, bootVars
  <2> DEFINE left == {r \in base : r.type # "end"}
  <2>2. PICK o : rsp' \in WithReply(left, BlockAnswers(m.ver, o))
    BY <1>0, <2>1 DEF NoLateEnd, SendBlockRequest
  <2>3. \A r \in left : r.type # "end"
    OBVIOUS
  <2> HIDE DEF left
  <2>4. ~EndUnderWay'
    BY <2>1, <2>2, <2>3, NoEndReply, NoEndAnswers DEF EndUnderWay
  <2> QED
    BY <2>1, <2>4 DEF InstallInv, ReadyMeansGood, NeverBroken
<1>8. CASE NextImageRefused \/ DeferBlock
  BY <1>2, <1>8 DEF NextImageRefused, DeferBlock, flashVars, attrVars, blockVars, bootVars
<1>10. CASE ReceiveBlock
  <2>1. PICK m \in rsp, base \in SUBSET rsp : HandleBlock(m, base, acks)
    BY <1>10 DEF ReceiveBlock
  <2> QED
    BY <1>0, <2>1, HandleBlockInstall
<1>11. CASE BlockRequestSent
  <2>1. CASE pending = NoBlock
    BY <1>1, <1>11, <2>1 DEF BlockRequestSent, flashVars, attrVars, bootVars
  <2>2. CASE pending # NoBlock
    <3>1. HandleBlock(pending, rsp, acks - 1) /\ acks > 0
      BY <1>11, <2>2 DEF BlockRequestSent
    <3>2. acks - 1 \in 0..MaxAcks /\ pending \in Response /\ rsp \in SUBSET rsp
      BY <1>0, <2>2, <3>1, ClientFacts
    <3> QED
      BY <3>1, <3>2, HandleBlockInstall
  <2> QED
    BY <2>1, <2>2
<1>12. CASE BlockRequestFailed
  BY <1>1, <1>12 DEF BlockRequestFailed, flashVars, attrVars, bootVars
<1>13. CASE ResendBuffer
  <2>0. UNCHANGED <<bank, fota, fw>>
    BY <1>13 DEF ResendBuffer, bootVars, flashVars
  <2>1. CASE /\ rsp' \in WithReply(rsp, BlockAnswers(dfv, offset))
             /\ UNCHANGED <<attrVars, cstate, dfv, pending, due>>
    <3>1. EndUnderWay' => EndUnderWay
      BY <2>1, NoEndReply, NoEndAnswers DEF EndUnderWay, attrVars
    <3> QED
      BY <2>0, <2>1, <3>1, QuietInstall DEF attrVars
  <2>2. CASE Abort(rsp)
    BY <2>0, <2>2, AbortInstall
  <2>3. CASE UNCHANGED <<attrVars, cstate, blockVars, rsp, acks>>
    BY <1>1, <2>0, <2>3 DEF attrVars, blockVars
  <2> QED
    BY <1>13, <2>1, <2>2, <2>3 DEF ResendBuffer
<1>14. CASE DefaultResponse
  <2>1. PICK base \in SUBSET rsp : Abort(base)
    BY <1>14 DEF DefaultResponse
  <2>2. UNCHANGED <<bank, fota, fw>>
    BY <1>14 DEF DefaultResponse, bootVars, flashVars
  <2> QED
    BY <2>1, <2>2, AbortInstall
<1>15. CASE UpgradeEndResp
  <2>1. PICK m \in rsp :
        /\ m.type = "end" /\ rsp' \in AfterDelivery(m)
        /\ UNCHANGED <<bank, dfv, fw>>
        /\ \/ status' = "waiting_upgrade" /\ fota' = fota
           \/ ImageTagFound(bank) /\ status' = "count_down" /\ fota' = Image(bank)
           \/ status' = "normal" /\ fota' = fota
           \/ status' = status /\ fota' = fota
    BY <1>15, Zenon DEF UpgradeEndResp, SetStatus, flashVars, blockVars
  <2>2. EndUnderWay /\ BankGood /\ status # "downloading"
    BY <2>1 DEF EndUnderWay, InstallInv
  <2>3. BankGood' /\ status' # "downloading"
    BY <2>1, <2>2 DEF BankGood
  <2>4. ReadyMeansGood'
    BY <2>1, <2>2 DEF ReadyMeansGood, InstallInv, BankGood, ImageTagFound
  <2> QED
    BY <2>1, <2>3, <2>4 DEF InstallInv, NeverBroken
<1>16. CASE ServerUpgradesNow
  <2>1. UNCHANGED <<bank, fota, fw, status, dfv>> /\ EndUnderWay
    BY <1>16 DEF ServerUpgradesNow, EndUnderWay, flashVars, attrVars, blockVars, bootVars
  <2> QED
    BY <2>1, QuietInstall
<1>17. CASE \E s, o : Boot(s, o)
  BY <1>17, BootInstall
<1>18. CASE SaveAttrs
  BY <1>1, <1>18 DEF SaveAttrs, flashVars, blockVars, bootVars
<1>20. CASE UNCHANGED vars
  BY <1>1, <1>20 DEF vars, flashVars, attrVars, blockVars, bootVars
<1> QED
  BY <1>3, <1>4, <1>5, <1>7, <1>8, <1>10, <1>11, <1>12, <1>13, <1>14,
     <1>15, <1>16, <1>17, <1>18, <1>20 DEF Next, FinishUpgrade, Reset

LEMMA InstallAlways ==
    ASSUME Tagged, NoLateEnd
    PROVE  Spec => []InstallInv
<1>1. Init => InstallInv
  BY ClientFacts DEF Init, InstallInv, EndUnderWay, ReadyMeansGood, NeverBroken
<1>2. TypeInv /\ PointersOK /\ InstallInv /\ [Next]_vars => InstallInv'
  BY InstallStep
<1> QED
  BY <1>1, <1>2, TypeInit, TypeStep, PTL DEF Spec

(* With tagged files, and no Upgrade End Response that outlives its         *)
(* download, only a complete file of one version is ever offered to the     *)
(* bootloader (upgrade_end_resp_handler, zb_osif_ota_verify_integrity).     *)
THEOREM ReadyIsGood == Tagged /\ NoLateEnd => (Spec => []ReadyMeansGood)
<1> SUFFICES ASSUME Tagged, NoLateEnd
             PROVE  Spec => []ReadyMeansGood
  OBVIOUS
<1>1. Spec => []InstallInv
  BY InstallAlways
<1>2. InstallInv => ReadyMeansGood
  BY DEF InstallInv
<1> QED
  BY <1>1, <1>2, PTL

(* ... so whatever is reset when, the device boots a complete image.        *)
THEOREM NeverBricked == Tagged /\ NoLateEnd => (Spec => []NeverBroken)
<1> SUFFICES ASSUME Tagged, NoLateEnd
             PROVE  Spec => []NeverBroken
  OBVIOUS
<1>1. Spec => []InstallInv
  BY InstallAlways
<1>2. InstallInv => NeverBroken
  BY DEF InstallInv
<1> QED
  BY <1>1, <1>2, PTL

-----------------------------------------------------------------------------
(* The order of a download's messages and alarms.  What the client promises *)
(* of its flash it promises of a server with one version that neither       *)
(* notifies nor refuses (a server with more is not looked at).              *)
PlainServer == \A e \in Environments : "versions" \notin e => {"aborts", "notify"} \cap e = {}

OnlyVersion == CHOOSE v \in Versions : TRUE

(* Refusals are never sent, images are of the one version, and offered only *)
(* while no download is under way that was not interrupted by a reset.      *)
NoRefusal == \A m \in rsp : m.type # "no_image"
OneImage == \A m \in rsp : m.type = "image" => m.ver = OnlyVersion
ImageBefore ==
    (\E m \in rsp : m.type = "image") =>
        cstate = "resume" \/ (status # "downloading" /\ nv.status # "downloading")
EndAfter == "late_end" \notin env /\ status = "downloading" => NoEnd(rsp)

(* Until the first block request after a reset nothing is expected ...      *)
NotStarted ==
    cstate # "in_progress" =>
        "resend" \notin due /\ dfv = NoVersion /\ pending = NoBlock /\ \A m \in rsp : ~Block(m)

(* ... and from then on a download is one of a known file.                  *)
Started ==
    /\ cstate = "in_progress" /\ status = "downloading" => dfv # NoVersion
    /\ cstate = "resume" => status = "downloading"

SavedOK == ~dirty => nv.status = status /\ nv.offset = offset

OrderOK == NoRefusal /\ OneImage /\ ImageBefore /\ EndAfter /\ NotStarted /\ Started /\ SavedOK

LEMMA PlainAnswers ==
    ASSUME "versions" \notin env, {"aborts", "notify"} \cap env = {}
    PROVE  /\ RefusedAnswers = {} /\ \A m \in ImageAnswers : m.type = "image" /\ m.ver = OnlyVersion
           /\ \A v, o : \A m \in BlockAnswers(v, o) : m.type \in {"data", "wait"}
<1>1. RefusedAnswers = {}
  BY DEF RefusedAnswers
<1>2. Offered = {OnlyVersion}
  BY DEF Offered, OnlyVersion
<1> QED
  BY <1>1, <1>2 DEF ImageAnswers, BlockAnswers

(* One image response at most is in flight: once it is delivered, none is.  *)
LEMMA ImageDelivered ==
    ASSUME rsp \subseteq Response, OneImage, NEW m \in rsp, m.type = "image",
           NEW base \in AfterDelivery(m)
    PROVE  \A r \in base : r.type # "image"
<1>1. base = rsp \ {m}
  BY DEF AfterDelivery
<1>2. \A r \in rsp : r.type = "image" => r = m
  <2> SUFFICES ASSUME NEW r \in rsp, r.type = "image"
               PROVE  r = m
    OBVIOUS
  <2>1. r.ver = m.ver /\ r \in Response /\ m \in Response
    BY DEF OneImage
  <2>2. r \in [type : {"image"}, ver : Versions] /\ m \in [type : {"image"}, ver : Versions]
    BY <2>1 DEF Response
  <2> QED
    BY <2>1, <2>2
<1> QED
  BY <1>1, <1>2

(* Fewer messages, the same download.                                       *)
LEMMA QuietOrder ==
    ASSUME OrderOK, rsp' \subseteq rsp, UNCHANGED <<attrVars, env, dfv>>,
           cstate' = cstate \/ (cstate = "idle" /\ cstate' = "resume" /\ status = "downloading"),
           "resend" \in due' => "resend" \in due,
           pending' = NoBlock \/ pending' = pending \/ cstate = "in_progress"
    PROVE  OrderOK'
<1>1. UNCHANGED <<status, nv, dirty, offset>>
  BY DEF attrVars
<1>2. NoRefusal' /\ OneImage' /\ EndAfter'
  BY <1>1 DEF OrderOK, NoRefusal, OneImage, EndAfter, NoEnd
<1>3. ImageBefore'
  BY <1>1 DEF OrderOK, ImageBefore
<1>4. NotStarted' /\ Started' /\ SavedOK'
  BY <1>1 DEF OrderOK, NotStarted, Started, SavedOK, Block
<1> QED
  BY <1>2, <1>3, <1>4 DEF OrderOK

LEMMA AbortOrder ==
    ASSUME OrderOK, cstate = "in_progress", NEW base \in SUBSET rsp, Abort(base), env' = env
    PROVE  OrderOK'
<1>1. status' = "normal" /\ dirty' = TRUE /\ nv' = nv /\ cstate' = "in_progress" /\ rsp' = base
  BY DEF Abort, SetStatus
<1>2. ImageBefore'
  BY <1>1 DEF OrderOK, ImageBefore
<1> QED
  BY <1>1, <1>2 DEF OrderOK, NoRefusal, OneImage, EndAfter, NotStarted, Started, SavedOK

(* A block asked for while downloading.                                     *)
LEMMA RequestOrder ==
    ASSUME OrderOK, "versions" \notin env, {"aborts", "notify"} \cap env = {},
           status = "downloading", cstate = "in_progress",
           NEW base \in SUBSET rsp, NEW v, NEW o, rsp' \in WithReply(base, BlockAnswers(v, o)),
           UNCHANGED <<status, nv, dfv, env>>, cstate' = "in_progress",
           dirty' = TRUE \/ (dirty' = dirty /\ offset' = offset)
    PROVE  OrderOK'
<1>1. rsp' \subseteq base \cup BlockAnswers(v, o)
  BY DEF WithReply
<1>2. \A m \in rsp' : m \in rsp \/ m.type \in {"data", "wait"}
  BY <1>1, PlainAnswers
<1>3. \A m \in rsp' : m.type # "image" /\ m.type # "no_image"
  BY <1>2 DEF OrderOK, ImageBefore, NoRefusal
<1>4. "late_end" \notin env => NoEnd(rsp')
  BY <1>2 DEF OrderOK, EndAfter, NoEnd
<1>5. NoRefusal' /\ OneImage' /\ ImageBefore' /\ EndAfter'
  BY <1>3, <1>4 DEF NoRefusal, OneImage, ImageBefore, EndAfter, NoEnd
<1>6. NotStarted' /\ Started' /\ SavedOK'
  BY DEF OrderOK, NotStarted, Started, SavedOK
<1> QED
  BY <1>5, <1>6 DEF OrderOK

LEMMA HandleBlockOrder ==
    ASSUME OrderOK, "versions" \notin env, {"aborts", "notify"} \cap env = {},
           cstate = "in_progress", NEW m, NEW base \in SUBSET rsp, NEW a, HandleBlock(m, base, a)
    PROVE  OrderOK'
<1>0. env' = env
  BY DEF HandleBlock, bootVars
<1>1. CASE status = "downloading" /\ StoreBlock(m, base, a)
  <2>1. /\ rsp' \in WithReply(base, BlockAnswers(dfv, offset + BlockLength(dfv, offset)))
        /\ UNCHANGED <<status, nv, dfv>> /\ cstate' = "in_progress" /\ dirty' = TRUE
    BY <1>1 DEF StoreBlock, SendBlockRequest
  <2> QED
    BY <1>0, <1>1, <2>1, RequestOrder
<1>2. CASE status = "downloading" /\ StoreLastBlock(m, base, a)
  <2>1. \/ Abort(base)
        \/ /\ status' = "downloaded" /\ dirty' = TRUE /\ cstate' = cstate /\ nv' = nv
           /\ rsp' \in WithReply(base, EndAnswers(dfv))
    BY <1>2 DEF StoreLastBlock, SetStatus
  <2>2. CASE /\ status' = "downloaded" /\ dirty' = TRUE /\ cstate' = cstate /\ nv' = nv
             /\ rsp' \in WithReply(base, EndAnswers(dfv))
    <3>1. \A r \in EndAnswers(dfv) : r.type = "end"
      BY DEF EndAnswers
    <3>2. \A r \in rsp' : r \in rsp \/ r.type = "end"
      BY <2>2, <3>1 DEF WithReply
    <3>3. \A r \in rsp' : r.type # "image" /\ r.type # "no_image"
      BY <1>2, <3>2 DEF OrderOK, ImageBefore, NoRefusal
    <3> QED
      BY <2>2, <3>3 DEF OrderOK, NoRefusal, OneImage, ImageBefore, EndAfter, NotStarted, Started,
         SavedOK
  <2> QED
    BY <1>0, <2>1, <2>2, AbortOrder
<1>3. CASE status = "downloading" /\ WaitForData(base, a)
  <2>1. /\ rsp' \in WithReply(base, BlockAnswers(dfv, offset))
        /\ UNCHANGED <<status, nv, dfv, dirty, offset>> /\ cstate' = "in_progress"
    BY <1>3 DEF WaitForData, SendBlockRequest, attrVars
  <2> QED
    BY <1>0, <1>3, <2>1, RequestOrder
<1>4. CASE Abort(base)
  BY <1>0, <1>4, AbortOrder
<1>5. CASE rsp' = base /\ pending' = NoBlock /\ UNCHANGED <<attrVars, cstate, dfv, due>>
  BY <1>0, <1>5, QuietOrder
<1> QED
  BY <1>1, <1>2, <1>3, <1>4, <1>5 DEF HandleBlock

LEMMA NextImageOrder ==
    ASSUME TypeInv, OrderOK, "versions" \notin env, {"aborts", "notify"} \cap env = {},
           NextImageResp
    PROVE  OrderOK' /\ dfv' = OnlyVersion
<1>1. PICK m \in rsp, base \in SUBSET rsp :
        /\ m.type = "image" /\ base \in AfterDelivery(m)
        /\ LET o == IF cstate = "resume" THEN ResumeOffset ELSE 0
               left == IF "late_end" \in env THEN base ELSE {r \in base : r.type # "end"}
           IN  SendBlockRequest(m.ver, o, left, acks)
        /\ status' = "downloading" /\ dirty' = TRUE /\ dfv' = m.ver /\ env' = env
  BY DEF NextImageResp, SetStatus, bootVars
<1> DEFINE left == IF "late_end" \in env THEN base ELSE {r \in base : r.type # "end"}
<1>2. PICK o : rsp' \in WithReply(left, BlockAnswers(m.ver, o)) /\ cstate' = "in_progress"
  BY <1>1 DEF SendBlockRequest
<1>3. /\ m.ver = OnlyVersion /\ m.ver \in Versions /\ \A r \in base : r.type # "image"
  <2>1. rsp \subseteq Response /\ OneImage
    BY DEF TypeInv, Carried, OrderOK
  <2> QED
    BY <1>1, <2>1, ImageDelivered, ResponseFields DEF OneImage
<1>4. left \subseteq base /\ left \subseteq rsp /\ ("late_end" \notin env => \A r \in left : r.type # "end")
  OBVIOUS
<1> HIDE DEF left
<1>5. \A r \in rsp' : r \in left \/ r.type \in {"data", "wait"}
  BY <1>2, PlainAnswers DEF WithReply
<1>6. \A r \in rsp' : r.type # "image" /\ r.type # "no_image"
  BY <1>3, <1>4, <1>5 DEF OrderOK, NoRefusal
<1>7. "late_end" \notin env => NoEnd(rsp')
  BY <1>4, <1>5 DEF NoEnd
<1>8. NoRefusal' /\ OneImage' /\ ImageBefore' /\ EndAfter'
  BY <1>1, <1>6, <1>7 DEF NoRefusal, OneImage, ImageBefore, EndAfter, NoEnd
<1>9. NotStarted' /\ Started' /\ SavedOK'
  BY <1>1, <1>2, <1>3, ClientFacts DEF NotStarted, Started, SavedOK
<1> QED
  BY <1>1, <1>3, <1>8, <1>9 DEF OrderOK

LEMMA OrderStep ==
    ASSUME TypeInv, OrderOK, "versions" \notin env, {"aborts", "notify"} \cap env = {}, [Next]_vars
    PROVE  OrderOK'
<1>0. /\ rsp \subseteq Response /\ dfv \in Versions \cup {NoVersion} /\ rsp \in SUBSET rsp
      /\ cstate \in {"idle", "in_progress", "resume"}
  BY DEF TypeInv, ClientOK, Carried
<1>a. \A m \in rsp : \A base \in AfterDelivery(m) : base \subseteq rsp
  BY DEF AfterDelivery
<1>1. CASE Joined \/ InitClient \/ ServerNotFound
  BY <1>1, QuietOrder DEF Joined, InitClient, ServerNotFound, blockVars, bootVars
<1>4. CASE StartClient
  <2>1. /\ UNCHANGED <<nv, cstate, dfv, pending, env, rsp>> /\ offset' = offset
        /\ \/ status = "downloading" /\ status' = status /\ dirty' = dirty
           \/ status # "downloading" /\ status' = "normal" /\ dirty' = TRUE
        /\ "resend" \in due' => "resend" \in due
    BY <1>4, Zenon DEF StartClient, SetStatus, blockVars
  <2>2. NoRefusal' /\ OneImage' /\ EndAfter' /\ ImageBefore'
    BY <2>1 DEF OrderOK, NoRefusal, OneImage, EndAfter, NoEnd, ImageBefore
  <2>3. NotStarted' /\ Started' /\ SavedOK'
    BY <2>1 DEF OrderOK, NotStarted, Started, SavedOK, Block
  <2> QED
    BY <2>2, <2>3 DEF OrderOK
<1>5. CASE RequestServer
  <2>1. /\ UNCHANGED <<status, offset, nv, dirty, cstate, dfv, pending, due, env>> /\ ~dirty
        /\ \/ status = "normal" \/ cstate = "resume"
           \/ rsp' = rsp
        /\ rsp' \in WithReply(rsp, ImageAnswers \cup RefusedAnswers) \/ rsp' = rsp
    BY <1>5 DEF RequestServer, attrVars, blockVars, bootVars
  <2>2. \A m \in rsp' : m \in rsp \/ (m.type = "image" /\ m.ver = OnlyVersion)
    BY <2>1, PlainAnswers DEF WithReply
  <2>3. NoRefusal' /\ OneImage' /\ EndAfter'
    BY <2>1, <2>2 DEF OrderOK, NoRefusal, OneImage, EndAfter, NoEnd
  <2>4. ImageBefore'
    BY <2>1 DEF OrderOK, ImageBefore, SavedOK
  <2>5. NotStarted' /\ Started' /\ SavedOK'
    <3>1. \A m \in rsp' : m \in rsp \/ ~Block(m)
      BY <2>2 DEF Block
    <3> QED
      BY <2>1, <3>1 DEF OrderOK, NotStarted, Started, SavedOK, Block
  <2> QED
    BY <2>3, <2>4, <2>5 DEF OrderOK
<1>6. CASE ImageNotify
  BY <1>6 DEF ImageNotify
<1>7. CASE NextImageResp
  BY <1>7, NextImageOrder
<1>8. CASE NextImageRefused
  <2>1. rsp' \subseteq rsp
    BY <1>8, <1>a DEF NextImageRefused
  <2> QED
    BY <1>8, <2>1, QuietOrder DEF NextImageRefused, blockVars, bootVars
<1>9. CASE DeferBlock
  <2>1. rsp' \subseteq rsp /\ \E m \in rsp : Block(m)
    BY <1>9, <1>a DEF DeferBlock
  <2>2. cstate = "in_progress"
    BY <2>1 DEF OrderOK, NotStarted
  <2> QED
    BY <1>9, <2>1, <2>2, QuietOrder DEF DeferBlock, bootVars
<1>10. CASE ReceiveBlock
  <2>1. PICK m \in rsp, base \in SUBSET rsp : Block(m) /\ HandleBlock(m, base, acks)
    BY <1>10 DEF ReceiveBlock
  <2>2. cstate = "in_progress"
    BY <2>1 DEF OrderOK, NotStarted
  <2> QED
    BY <2>1, <2>2, HandleBlockOrder
<1>11. CASE BlockRequestSent
  <2>1. CASE pending = NoBlock
    BY <1>11, <2>1, QuietOrder DEF BlockRequestSent, bootVars
  <2>2. CASE pending # NoBlock
    <3>1. cstate = "in_progress"
      BY <2>2 DEF OrderOK, NotStarted
    <3> QED
      BY <1>0, <1>11, <2>2, <3>1, HandleBlockOrder DEF BlockRequestSent
  <2> QED
    BY <2>1, <2>2
<1>12. CASE BlockRequestFailed
  BY <1>12, QuietOrder DEF BlockRequestFailed, bootVars
<1>13. CASE ResendBuffer
  <2>0. env' = env /\ cstate = "in_progress"
    BY <1>13 DEF ResendBuffer, bootVars, OrderOK, NotStarted
  <2>1. CASE /\ status = "downloading"
             /\ rsp' \in WithReply(rsp, BlockAnswers(dfv, offset))
             /\ UNCHANGED <<attrVars, cstate, dfv, pending, due>>
    BY <1>0, <2>0, <2>1, RequestOrder DEF attrVars
  <2>2. CASE Abort(rsp)
    BY <1>0, <2>0, <2>2, AbortOrder
  <2>3. CASE /\ due' = due \ {"resend"}
             /\ UNCHANGED <<attrVars, cstate, blockVars, rsp, acks>>
    BY <2>0, <2>3, QuietOrder DEF blockVars
  <2> QED
    BY <1>13, <2>1, <2>2, <2>3 DEF ResendBuffer
<1>14. CASE DefaultResponse
  BY <1>14 DEF DefaultResponse, OrderOK, NoRefusal
<1>15. CASE UpgradeEndResp
  <2>1. PICK m \in rsp :
        /\ m.type = "end" /\ rsp' \in AfterDelivery(m)
        /\ UNCHANGED <<offset, nv, cstate, dfv, pending, env>>
        /\ \/ /\ m.ver = dfv /\ status' \in {"waiting_upgrade", "count_down", "normal"}
              /\ dirty' = TRUE
           \/ m.ver # dfv /\ status' = status /\ dirty' = dirty /\ due' = due
    BY <1>15, Zenon DEF UpgradeEndResp, SetStatus, blockVars
  <2>2. m.ver \in Versions /\ rsp' \subseteq rsp
    BY <1>0, <1>a, <2>1, ResponseFields
  <2>3. CASE m.ver = dfv /\ status' \in {"waiting_upgrade", "count_down", "normal"} /\ dirty' = TRUE
    <3>1. cstate = "in_progress"
      BY <2>2, <2>3, ClientFacts DEF OrderOK, NotStarted
    <3>2. NoRefusal' /\ OneImage' /\ EndAfter' /\ ImageBefore'
      BY <2>1, <2>2, <2>3 DEF OrderOK, NoRefusal, OneImage, EndAfter, NoEnd, ImageBefore
    <3>3. NotStarted' /\ Started' /\ SavedOK'
      BY <2>1, <2>3, <3>1 DEF NotStarted, Started, SavedOK
    <3> QED
      BY <3>2, <3>3 DEF OrderOK
  <2>4. CASE status' = status /\ dirty' = dirty /\ due' = due
    BY <2>1, <2>2, <2>4, QuietOrder DEF attrVars
  <2> QED
    BY <2>1, <2>3, <2>4
<1>16. CASE ServerUpgradesNow
  <2>1. /\ status = "waiting_upgrade" /\ dfv # NoVersion
        /\ rsp' \in WithReply(rsp, {[type |-> "end", ver |-> dfv, wait |-> FALSE]})
        /\ UNCHANGED <<status, offset, nv, dirty, cstate, dfv, pending, due, env>>
    BY <1>16 DEF ServerUpgradesNow, attrVars, blockVars, bootVars
  <2>2. \A m \in rsp' : m \in rsp \/ m.type = "end"
    BY <2>1 DEF WithReply
  <2>3. NoRefusal' /\ OneImage' /\ EndAfter' /\ ImageBefore'
    BY <2>1, <2>2 DEF OrderOK, NoRefusal, OneImage, EndAfter, ImageBefore
  <2>4. NotStarted' /\ Started' /\ SavedOK'
    BY <2>1 DEF OrderOK, NotStarted, Started, SavedOK
  <2> QED
    BY <2>3, <2>4 DEF OrderOK
<1>17. CASE Boot(nv.status, nv.offset)
  <2>1. /\ rsp' = {} /\ status' = nv.status /\ offset' = nv.offset /\ nv' = nv /\ cstate' = "idle"
        /\ dfv' = NoVersion /\ pending' = NoBlock /\ due' = {} /\ env' = env
    BY <1>17 DEF Boot
  <2> QED
    BY <2>1 DEF OrderOK, NoRefusal, OneImage, ImageBefore, EndAfter, NoEnd, NotStarted, Started,
       SavedOK
<1>18. CASE SaveAttrs
  <2>1. /\ nv' = [status |-> status, offset |-> offset] /\ dirty' = FALSE
        /\ UNCHANGED <<status, offset, cstate, dfv, pending, due, env, rsp>>
    BY <1>18 DEF SaveAttrs, blockVars, bootVars
  <2> QED
    BY <2>1 DEF OrderOK, NoRefusal, OneImage, ImageBefore, EndAfter, NoEnd, NotStarted, Started,
       SavedOK, Block
<1>20. CASE UNCHANGED vars
  BY <1>20, QuietOrder DEF vars, blockVars, bootVars
<1> QED
  BY <1>1, <1>4, <1>5, <1>6, <1>7, <1>8, <1>9, <1>10, <1>11, <1>12, <1>13, <1>14,
     <1>15, <1>16, <1>17, <1>18, <1>20 DEF Next, FinishUpgrade, Reset

-----------------------------------------------------------------------------
(* Flash and the offset.  The bank holds nothing but bytes of the version's *)
(* file at their places, and below the offset of a download -- the running  *)
(* one or the one NVRAM tells of -- rounded down, it holds them all.        *)
CleanBank == \A a \in Bank : a < FileSize => bank[a] \in {Erased, FileByte(OnlyVersion, a)}

Flashed(o) == o \in 0..(FileSize - 1) /\ Holds(bank, OnlyVersion, RoundDown(o))

FlashedOK ==
    /\ CleanBank
    /\ status = "downloading" => Flashed(offset)
    /\ nv.status = "downloading" => Flashed(nv.offset)
    /\ Receiving => dfv = OnlyVersion /\ Sound(Now, OnlyVersion, FileSize, offset)

LEMMA OnlyVersionFacts == OnlyVersion \in Versions
  BY ClientFacts DEF OnlyVersion

(* What is flashed stays so when no byte in its place is damaged.           *)
LEMMA FlashedStays ==
    ASSUME NEW o, Flashed(o),
           \A a \in Bank : a < FileSize /\ bank[a] = FileByte(OnlyVersion, a)
                             => bank'[a] = FileByte(OnlyVersion, a)
    PROVE  o \in 0..(FileSize - 1) /\ Holds(bank', OnlyVersion, RoundDown(o))
<1>1. o \in Int /\ FileSize \in Nat /\ o < FileSize
  BY ClientFacts DEF Flashed
<1>2. RoundDown(o) \in Int /\ RoundDown(o) <= o
  BY <1>1, RoundDownFacts
<1> QED
  BY <1>1, <1>2, FlashFacts DEF Flashed, Holds, Bank

LEMMA QuietFlashed ==
    ASSUME FlashedOK, UNCHANGED flashVars,
           status' = "downloading" => status = "downloading" /\ offset' = offset,
           Receiving' => Receiving /\ dfv' = dfv,
           nv' = nv \/ nv' = [status |-> status, offset |-> offset]
    PROVE  FlashedOK'
<1>1. bank' = bank /\ Now' = Now
  BY DEF flashVars, Now
<1>2. CleanBank'
  BY <1>1 DEF FlashedOK, CleanBank
<1>3. status' = "downloading" => Flashed(offset)'
  BY <1>1 DEF FlashedOK, Flashed, Holds
<1>4. nv'.status = "downloading" => Flashed(nv.offset)'
  BY <1>1 DEF FlashedOK, Flashed, Holds
<1>5. Receiving' => dfv' = OnlyVersion /\ Sound(Now', OnlyVersion, FileSize, offset')
  BY <1>1 DEF FlashedOK, Receiving
<1> QED
  BY <1>2, <1>3, <1>4, <1>5 DEF FlashedOK

LEMMA StoreBlockFlashed ==
    ASSUME PointersOK, FlashedOK, NEW m \in Response, status = "downloading", ExpectedBlock(m),
           NEW base, NEW a, StoreBlock(m, base, a)
    PROVE  FlashedOK'
<1> DEFINE v == OnlyVersion
           n == BlockLength(dfv, offset)
           w == Written(v, offset, n)
<1>1. /\ m.off = offset /\ offset \in Nat /\ n \in 1..PageSize /\ dfv = v
      /\ Sound(Now, v, FileSize, offset)
  BY AcceptedFacts DEF FlashedOK
<1>2. /\ offset + n < FileSize /\ FlashBecomes(w) /\ offset' = offset + n
      /\ UNCHANGED <<status, nv, dfv>>
  BY <1>1 DEF StoreBlock
<1>3. v \in Versions /\ FileSize \in 1..BankSize /\ offset + n \in Nat /\ offset + n <= FileSize
      /\ offset + n \in 0..(FileSize - 1)
  BY <1>1, <1>2, OnlyVersionFacts, ClientFacts
<1>4. Sound(w, v, FileSize, offset + n)
  BY <1>1, <1>3, WrittenSound
<1>5. \A x \in Bank : x < FileSize =>
        /\ w.bank[x] \in {Erased, FileByte(v, x)}
        /\ bank[x] = FileByte(v, x) => w.bank[x] = FileByte(v, x)
  BY <1>1, <1>3, WrittenKeeps DEF FlashedOK, CleanBank
<1> HIDE DEF n, w
<1>6. Now' = w /\ bank' = w.bank
  BY <1>2, <1>4, FlashBecame DEF Sound, Placed, FlashBecomes
<1>7. CleanBank'
  BY <1>5, <1>6 DEF CleanBank
<1>8. Flashed(offset)'
  BY <1>2, <1>3, <1>4, <1>6, SoundFlashed DEF Flashed
<1>9. nv'.status = "downloading" => Flashed(nv.offset)'
  <2> SUFFICES ASSUME nv.status = "downloading"
               PROVE  nv.offset \in 0..(FileSize - 1) /\ Holds(bank', OnlyVersion, RoundDown(nv.offset))
    BY <1>2 DEF Flashed
  <2> QED
    BY <1>5, <1>6, FlashedStays DEF FlashedOK
<1>10. dfv' = OnlyVersion /\ Sound(Now', OnlyVersion, FileSize, offset')
  BY <1>1, <1>2, <1>4, <1>6
<1> QED
  BY <1>7, <1>8, <1>9, <1>10 DEF FlashedOK

(* The last block completes the file in flash, which then verifies.         *)
LEMMA StoreLastBlockFlashed ==
    ASSUME PointersOK, FlashedOK, NEW m \in Response, status = "downloading", ExpectedBlock(m),
           NEW base, NEW a, StoreLastBlock(m, base, a)
    PROVE  /\ FlashedOK' /\ status' = "downloaded" /\ dfv' = dfv
           /\ offset' = offset + BlockLength(dfv, offset)
<1> DEFINE v == OnlyVersion
           n == BlockLength(dfv, offset)
           w == Written(v, offset, n)
           f == LastWritten(w)
<1>1. /\ m.off = offset /\ offset \in Nat /\ n \in 1..PageSize /\ dfv = v
      /\ Sound(Now, v, FileSize, offset)
  BY AcceptedFacts DEF FlashedOK
<1>2. /\ offset + n = FileSize /\ FlashBecomes(f)
      /\ IF VerifyOk(f.bank)
         THEN status' = "downloaded" /\ offset' = offset + n /\ nv' = nv /\ dfv' = dfv
         ELSE Abort(base)
  BY <1>1 DEF StoreLastBlock, SetStatus
<1>3. v \in Versions /\ FileSize \in 1..BankSize /\ offset + n <= FileSize
  BY <1>1, <1>2, OnlyVersionFacts, ClientFacts
<1>4. Sound(w, v, FileSize, FileSize)
  <2>1. Sound(w, v, FileSize, offset + n)
    BY <1>1, <1>3, WrittenSound
  <2> QED
    BY <1>2, <2>1
<1> HIDE DEF w
<1>5. Holds(f.bank, v, FileSize)
  BY <1>3, <1>4, LastWrittenComplete
<1> HIDE DEF f
<1>6. VerifyOk(f.bank)
  <2>1. Image(f.bank) = FileImage(v)
    BY <1>3, <1>5, FlashFacts DEF Image, FileImage, Holds, Bank
  <2> QED
    BY <1>3, <2>1 DEF VerifyOk
<1>7. status' = "downloaded" /\ offset' = offset + n /\ nv' = nv /\ dfv' = dfv /\ bank' = f.bank
  BY <1>2, <1>6 DEF FlashBecomes
<1>8. \A x \in Bank : x < FileSize => bank'[x] = FileByte(v, x)
  BY <1>5, <1>7 DEF Holds
<1>9. CleanBank'
  BY <1>8 DEF CleanBank
<1>10. nv'.status = "downloading" => Flashed(nv.offset)'
  <2> SUFFICES ASSUME nv.status = "downloading"
               PROVE  nv.offset \in 0..(FileSize - 1) /\ Holds(bank', OnlyVersion, RoundDown(nv.offset))
    BY <1>7 DEF Flashed
  <2> QED
    BY <1>8, FlashedStays DEF FlashedOK
<1> QED
  BY <1>7, <1>9, <1>10 DEF FlashedOK, Receiving

LEMMA NextImageFlashed ==
    ASSUME TypeInv, PointersOK, OrderOK, FlashedOK,
           "versions" \notin env, {"aborts", "notify"} \cap env = {}, NextImageResp
    PROVE  FlashedOK'
<1>1. dfv' = OnlyVersion /\ PointersOK' /\ status' = "downloading"
  BY NextImageOrder, NextImageRespType DEF NextImageResp, SetStatus
<1>2. Placed(Now', offset')
  BY <1>1, OnlyVersionFacts, ClientFacts DEF PointersOK, Receiving
<1>3. CASE cstate = "resume"
  <2>1. /\ offset' = RoundDown(offset) /\ flashAddr' = RoundDown(offset)
        /\ UNCHANGED <<inPtr, outPtr, bank, nv>>
    BY <1>3 DEF NextImageResp, ResumeOffset, SetWriteAddr
  <2>2. Flashed(offset) /\ inPtr = 0 /\ outPtr = 0
    BY <1>3 DEF OrderOK, Started, FlashedOK, PointersOK
  <2> DEFINE r == RoundDown(offset)
  <2>3. r \in 0..(FileSize - 1) /\ r \in Nat /\ r % PageSize = 0 /\ RoundDown(r) = r
    <3>1. offset \in Nat /\ offset <= FileSize - 1 /\ FileSize \in Nat
      BY <2>2, ClientFacts DEF Flashed
    <3>2. /\ r \in Int /\ r <= offset /\ r % PageSize = 0 /\ RoundDown(r) = r /\ r \in Nat
      BY <3>1, RoundDownFacts
    <3> HIDE DEF r
    <3> QED
      BY <3>1, <3>2
  <2>4. Holds(bank, OnlyVersion, r)
    BY <2>2 DEF Flashed
  <2> HIDE DEF r
  <2>5. offset' = r /\ flashAddr' = r /\ inPtr' = 0 /\ outPtr' = 0 /\ bank' = bank
    BY <2>1, <2>2 DEF r
  <2>6. Sound(Now', OnlyVersion, FileSize, offset')
    <3>1. Now'.addr = r /\ Now'.in = 0 /\ Now'.out = 0 /\ Now'.bank = bank
      BY <2>5 DEF Now
    <3>2. \A a \in Bank : a < r => bank[a] = FileByte(OnlyVersion, a)
      BY <2>4 DEF Holds
    <3>3. \A a \in Bank : a >= r /\ a < FileSize => bank[a] \in {Erased, FileByte(OnlyVersion, a)}
      BY DEF FlashedOK, CleanBank
    <3>4. \A k \in BufIndex : ~(k >= 0 /\ k < 0)
      BY FlashFacts
    <3> QED
      BY <1>2, <2>3, <3>1, <3>2, <3>3, <3>4, Zenon DEF Sound
  <2>7. CleanBank' /\ Flashed(offset)'
    BY <2>3, <2>4, <2>5 DEF FlashedOK, CleanBank, Flashed
  <2>8. nv'.status = "downloading" => Flashed(nv.offset)'
    BY <2>1, <2>5 DEF FlashedOK, Flashed
  <2> QED
    BY <1>1, <2>6, <2>7, <2>8 DEF FlashedOK
<1>4. CASE cstate # "resume"
  <2>1. /\ offset' = 0 /\ flashAddr' = 0 /\ inPtr' = 0 /\ outPtr' = 0
        /\ bank' = [a \in Bank |-> Erased] /\ nv' = nv
    BY <1>4 DEF NextImageResp, EraseFw
  <2>2. nv.status # "downloading"
    BY <1>4 DEF NextImageResp, OrderOK, ImageBefore
  <2>3. \A a \in Bank : ~(a < 0)
    BY FlashFacts DEF Bank
  <2>4. 0 % PageSize = 0 /\ RoundDown(0) = 0 /\ 0 \in 0..(FileSize - 1)
    <3>1. PageSize \in Nat \ {0} /\ FileSize \in 1..BankSize
      BY FlashFacts, ClientFacts
    <3>2. (PageSize * 0 + 0) % PageSize = 0 /\ PageSize * 0 = 0
      BY <3>1, ModUnique, SMTT(20)
    <3>3. 0 % PageSize = 0
      BY <3>2
    <3> QED
      BY <3>1, <3>3 DEF RoundDown
  <2>5. Sound(Now', OnlyVersion, FileSize, offset')
    <3>1. Now'.addr = 0 /\ Now'.in = 0 /\ Now'.out = 0 /\ Now'.bank = [a \in Bank |-> Erased]
      BY <2>1 DEF Now
    <3>2. \A k \in BufIndex : ~(k >= 0 /\ k < 0)
      BY FlashFacts
    <3>3. 0 \in Nat
      OBVIOUS
    <3> QED
      BY <1>2, <2>3, <2>4, <3>1, <3>2, <3>3, Zenon DEF Sound
  <2>6. CleanBank' /\ Flashed(offset)'
    BY <2>1, <2>3, <2>4 DEF CleanBank, Flashed, Holds
  <2> QED
    BY <1>1, <2>1, <2>2, <2>5, <2>6 DEF FlashedOK
<1> QED
  BY <1>3, <1>4

LEMMA HandleBlockFlashed ==
    ASSUME PointersOK, FlashedOK, NEW m \in Response, NEW base, NEW a, HandleBlock(m, base, a)
    PROVE  FlashedOK'
<1>1. CASE status = "downloading" /\ ExpectedBlock(m) /\ StoreBlock(m, base, a)
  BY <1>1, StoreBlockFlashed
<1>2. CASE status = "downloading" /\ ExpectedBlock(m) /\ StoreLastBlock(m, base, a)
  BY <1>2, StoreLastBlockFlashed
<1>3. CASE UNCHANGED <<flashVars, attrVars, dfv>>
  BY <1>3, QuietFlashed DEF attrVars, Receiving
<1>4. CASE Abort(base) /\ UNCHANGED flashVars
  BY <1>4, QuietFlashed DEF Abort, SetStatus, Receiving
<1> QED
  BY <1>1, <1>2, <1>3, <1>4 DEF HandleBlock, WaitForData

LEMMA FlashedStep ==
    ASSUME TypeInv, PointersOK, OrderOK, FlashedOK,
           "versions" \notin env, {"aborts", "notify"} \cap env = {}, [Next]_vars
    PROVE  FlashedOK'
<1>0. pending \in Response \cup {NoBlock} /\ rsp \subseteq Response
  BY DEF TypeInv, ClientOK, Carried
<1>1. CASE UNCHANGED <<flashVars, attrVars, dfv>>
  BY <1>1, QuietFlashed DEF attrVars, Receiving
<1>2. CASE \/ Joined \/ InitClient \/ ServerNotFound \/ RequestServer \/ ImageNotify
           \/ NextImageRefused \/ DeferBlock \/ BlockRequestFailed \/ ServerUpgradesNow
  BY <1>1, <1>2 DEF Joined, InitClient, ServerNotFound, RequestServer, ImageNotify, NextImageRefused,
     DeferBlock, BlockRequestFailed, ServerUpgradesNow, blockVars
<1>3. CASE StartClient
  <2>1. /\ UNCHANGED flashVars /\ nv' = nv /\ dfv' = dfv /\ offset' = offset
        /\ status' = status \/ status' = "normal"
    BY <1>3 DEF StartClient, SetStatus, blockVars
  <2> QED
    BY <2>1, QuietFlashed DEF Receiving
<1>4. CASE NextImageResp
  BY <1>4, NextImageFlashed
<1>5. CASE ReceiveBlock
  BY <1>0, <1>5, HandleBlockFlashed DEF ReceiveBlock
<1>6. CASE BlockRequestSent
  <2>1. CASE pending = NoBlock
    BY <1>1, <1>6, <2>1 DEF BlockRequestSent
  <2>2. CASE pending # NoBlock
    BY <1>0, <1>6, <2>2, HandleBlockFlashed DEF BlockRequestSent
  <2> QED
    BY <2>1, <2>2
<1>7. CASE UNCHANGED flashVars /\ \E base : Abort(base)
  BY <1>7, QuietFlashed DEF Abort, SetStatus, Receiving
<1>8. CASE ResendBuffer
  BY <1>1, <1>7, <1>8 DEF ResendBuffer, blockVars
<1>9. CASE DefaultResponse
  BY <1>7, <1>9 DEF DefaultResponse
<1>10. CASE UpgradeEndResp
  <2>1. /\ UNCHANGED flashVars /\ nv' = nv /\ dfv' = dfv /\ offset' = offset
        /\ status' = status \/ status' # "downloading"
    BY <1>10 DEF UpgradeEndResp, SetStatus, blockVars
  <2> QED
    BY <2>1, QuietFlashed DEF Receiving
<1>11. CASE Boot(nv.status, nv.offset)
  <2>1. /\ bank' = bank /\ status' = nv.status /\ offset' = nv.offset /\ nv' = nv /\ dfv' = NoVersion
    BY <1>11 DEF Boot
  <2> QED
    BY <2>1 DEF FlashedOK, CleanBank, Flashed, Holds, Receiving
<1>12. CASE SaveAttrs
  <2>1. /\ UNCHANGED flashVars /\ nv' = [status |-> status, offset |-> offset]
        /\ UNCHANGED <<status, offset, dfv>>
    BY <1>12 DEF SaveAttrs, blockVars
  <2> QED
    BY <2>1, QuietFlashed DEF Receiving
<1>13. CASE UNCHANGED vars
  BY <1>1, <1>13 DEF vars, blockVars
<1> QED
  BY <1>2, <1>3, <1>4, <1>5, <1>6, <1>8, <1>9, <1>10, <1>11, <1>12, <1>13
     DEF Next, FinishUpgrade, Reset

(* The environment is chosen once.                                          *)
LEMMA EnvStays == [Next]_vars => env' = env
<1> SUFFICES ASSUME [Next]_vars PROVE env' = env
  OBVIOUS
<1>1. CASE \/ Joined \/ InitClient \/ ServerNotFound \/ StartClient \/ RequestServer \/ ImageNotify
           \/ NextImageResp \/ NextImageRefused \/ DeferBlock \/ BlockRequestFailed
           \/ ResendBuffer \/ DefaultResponse \/ UpgradeEndResp \/ ServerUpgradesNow \/ SaveAttrs
  BY <1>1 DEF Joined, InitClient, ServerNotFound, StartClient, RequestServer, ImageNotify,
     NextImageResp, NextImageRefused, DeferBlock, BlockRequestFailed, ResendBuffer,
     DefaultResponse, UpgradeEndResp, ServerUpgradesNow, SaveAttrs, bootVars
<1>2. CASE ReceiveBlock \/ BlockRequestSent
  BY <1>2 DEF ReceiveBlock, BlockRequestSent, HandleBlock, bootVars
<1>3. CASE FinishUpgrade \/ Reset
  BY <1>3 DEF FinishUpgrade, Reset, Boot
<1>4. CASE UNCHANGED vars
  BY <1>4 DEF vars, bootVars
<1> QED
  BY <1>1, <1>2, <1>3, <1>4 DEF Next

DownloadInv == "versions" \notin env => OrderOK /\ FlashedOK

LEMMA DownloadAlways ==
    ASSUME PlainServer
    PROVE  Spec => [](TypeInv /\ PointersOK /\ DownloadInv)
<1>1. Init => DownloadInv
  <2> SUFFICES ASSUME Init PROVE OrderOK /\ FlashedOK
    BY DEF DownloadInv
  <2>1. OrderOK
    BY DEF Init, OrderOK, NoRefusal, OneImage, ImageBefore, EndAfter, NotStarted, Started, SavedOK
  <2>2. FlashedOK
    BY DEF Init, FlashedOK, CleanBank, Receiving
  <2> QED
    BY <2>1, <2>2
<1>2. TypeInv /\ PointersOK /\ DownloadInv /\ [Next]_vars => DownloadInv'
  <2> SUFFICES ASSUME TypeInv, PointersOK, DownloadInv, [Next]_vars, "versions" \notin env
               PROVE  OrderOK' /\ FlashedOK'
    BY EnvStays DEF DownloadInv
  <2>1. {"aborts", "notify"} \cap env = {}
    BY DEF PlainServer, TypeInv, BootOK
  <2>2. OrderOK /\ FlashedOK
    BY DEF DownloadInv
  <2> QED
    BY <2>1, <2>2, OrderStep, FlashedStep
<1> QED
  BY <1>1, <1>2, TypeInit, TypeStep, PTL DEF Spec

(* Whatever messages are lost, duplicated or delayed and whenever a reset   *)
(* falls, an offset the client goes on from has all of the file below it in *)
(* flash (query_next_image_resp_handler's resume).                          *)
THEOREM OffsetIsFlashed == PlainServer => (Spec => []DownloadedIsFlashed)
<1> SUFFICES ASSUME PlainServer
             PROVE  Spec => []DownloadedIsFlashed
  OBVIOUS
<1>1. DownloadInv => DownloadedIsFlashed
  BY DEF DownloadInv, FlashedOK, Flashed, Receiving, DownloadedIsFlashed
<1> QED
  BY <1>1, DownloadAlways, PTL

-----------------------------------------------------------------------------
(* The client implements OtaStorage.  Each lemma shows one storage          *)
(* operation where a handler calls it; the rest leaves the storage alone.   *)
Stored == UNCHANGED <<flashVars, dfv, Phase, IF Phase = "idle" THEN 0 ELSE offset>>

LEMMA StoredStutters == Stored => UNCHANGED Storage!vars
  BY DEF Stored, Storage!vars, flashVars

LEMMA NextImageStarts ==
    ASSUME TypeInv, PointersOK, OrderOK, FlashedOK,
           "versions" \notin env, {"aborts", "notify"} \cap env = {}, NextImageResp
    PROVE  Storage!Next
<1>1. /\ dfv' = OnlyVersion /\ OnlyVersion \in Versions /\ status' = "downloading"
      /\ FileSize \in 1..BankSize
  BY NextImageOrder, OnlyVersionFacts, ClientFacts DEF NextImageResp, SetStatus
<1>2. Phase' = "receiving"
  BY <1>1, ClientFacts DEF Phase
<1>3. CASE cstate = "resume"
  <2> DEFINE r == RoundDown(offset)
  <2>1. offset' = r /\ flashAddr' = r /\ UNCHANGED <<buf, inPtr, outPtr, bank>>
    BY <1>3 DEF NextImageResp, ResumeOffset, SetWriteAddr
  <2>2. Flashed(offset) /\ inPtr = 0 /\ outPtr = 0 /\ dfv = NoVersion
    BY <1>3 DEF OrderOK, Started, NotStarted, FlashedOK, PointersOK
  <2>3. r \in 0..BankSize /\ r < FileSize /\ RoundDown(r) = r
    <3>1. offset \in Nat /\ offset <= FileSize - 1 /\ FileSize \in Nat /\ FileSize <= BankSize
      BY <2>2, ClientFacts DEF Flashed
    <3>2. r \in Int /\ r <= offset /\ RoundDown(r) = r /\ r \in Nat
      BY <3>1, RoundDownFacts
    <3> HIDE DEF r
    <3> QED
      BY <3>1, <3>2, FlashFacts
  <2>4. Holds(bank, OnlyVersion, r)
    BY <2>2 DEF Flashed
  <2> HIDE DEF r
  <2>5. Storage!Resume(OnlyVersion, FileSize, r)
    <3>1. Storage!RoundDown(r) = r
      BY <2>3 DEF Storage!RoundDown, RoundDown
    <3>2. Storage!Holds(bank, OnlyVersion, r)
      BY <2>4 DEF Storage!Holds, Holds, Storage!Bank, Bank, Storage!FileByte, FileByte
    <3>3. \A a \in Storage!Bank : a >= r /\ a < FileSize
             => bank[a] \in {Erased, Storage!FileByte(OnlyVersion, a)}
      BY DEF FlashedOK, CleanBank, Storage!Bank, Bank, Storage!FileByte, FileByte
    <3>4. Storage!SetWriteAddr(r)
      BY <2>1 DEF Storage!SetWriteAddr
    <3>5. Phase = "idle"
      BY <2>2 DEF Phase
    <3> QED
      BY <1>1, <1>2, <2>1, <2>2, <2>3, <3>1, <3>2, <3>3, <3>4, <3>5 DEF Storage!Resume
  <2> QED
    BY <1>1, <2>3, <2>5 DEF Storage!Next
<1>4. CASE cstate # "resume"
  <2>1. offset' = 0 /\ Storage!EraseFw
    BY <1>4 DEF NextImageResp, EraseFw, Storage!EraseFw, Storage!Bank, Bank
  <2>2. Storage!Start(OnlyVersion, FileSize)
    BY <1>1, <1>2, <2>1 DEF Storage!Start
  <2> QED
    BY <1>1, <2>2 DEF Storage!Next
<1> QED
  BY <1>3, <1>4

LEMMA SameOperations ==
    ASSUME NEW v, NEW o, NEW n
    PROVE  /\ Storage!Written(v, o, n) = Written(v, o, n)
           /\ Storage!LastWritten(Written(v, o, n)) = LastWritten(Written(v, o, n))
           /\ \A f : Storage!FlashBecomes(f) <=> FlashBecomes(f)
<1>1. Storage!Written(v, o, n) = Written(v, o, n)
  BY DEF Storage!Written, Written, Storage!Filled, Filled, Storage!Advance, Advance,
     Storage!Contiguous, Contiguous, Storage!Programmed, Programmed, Storage!Program, Program,
     Storage!BufSize, BufSize, Storage!BufIndex, BufIndex, Storage!Bank, Bank,
     Storage!FileByte, FileByte
<1>2. \A f : Storage!LastWritten(f) = LastWritten(f)
  BY DEF Storage!LastWritten, LastWritten, Storage!RoundUpProg, RoundUpProg,
     Storage!Contiguous, Contiguous, Storage!Programmed, Programmed, Storage!Program, Program,
     Storage!BufSize, BufSize, Storage!Bank, Bank
<1>3. \A f : Storage!FlashBecomes(f) <=> FlashBecomes(f)
  BY DEF Storage!FlashBecomes, FlashBecomes
<1> QED
  BY <1>1, <1>2, <1>3

LEMMA HandleBlockStores ==
    ASSUME TypeInv, PointersOK, OrderOK, FlashedOK, NEW m \in Response, NEW base, NEW a,
           HandleBlock(m, base, a), cstate = "in_progress"
    PROVE  Storage!Next \/ Stored
<1> DEFINE n == BlockLength(dfv, offset)
<1>1. ASSUME status = "downloading", ExpectedBlock(m)
      PROVE  /\ m.off = offset /\ offset \in Int /\ Phase = "receiving" /\ dfv # NoVersion
             /\ n \in 1..MaxData
  <2>1. m.off = offset /\ dfv # NoVersion /\ offset \in 0..(FileSize - 1)
    BY <1>1, AcceptedFacts DEF Receiving
  <2>2. DataSize \in 1..MaxData
    BY ClientFacts, FlashFacts DEF DataSize
  <2>3. n \in 1..MaxData
    <3> HIDE DEF DataSize
    <3> QED
      BY <2>1, <2>2, ClientFacts DEF BlockLength
  <2> QED
    BY <1>1, <2>1, <2>3 DEF Phase
<1>2. CASE status = "downloading" /\ ExpectedBlock(m) /\ StoreBlock(m, base, a)
  <2>1. /\ offset + n < FileSize /\ FlashBecomes(Written(dfv, offset, n))
        /\ offset' = offset + n /\ UNCHANGED <<status, dfv>>
    BY <1>1, <1>2 DEF StoreBlock
  <2>2. Storage!FlashBecomes(Storage!Written(dfv, offset, n))
    BY <2>1, SameOperations
  <2>3. Phase' = Phase
    BY <2>1 DEF Phase
  <2> HIDE DEF n
  <2>4. Storage!Receive(n)
    BY <1>1, <1>2, <2>1, <2>2, <2>3 DEF Storage!Receive
  <2> QED
    BY <1>1, <1>2, <2>4 DEF Storage!Next
<1>3. CASE status = "downloading" /\ ExpectedBlock(m) /\ StoreLastBlock(m, base, a)
  <2>1. /\ offset + n = FileSize /\ FlashBecomes(LastWritten(Written(dfv, offset, n)))
    BY <1>1, <1>3 DEF StoreLastBlock
  <2>2. Storage!FlashBecomes(Storage!LastWritten(Storage!Written(dfv, offset, n)))
    BY <2>1, SameOperations
  <2>3. status' = "downloaded" /\ dfv' = dfv /\ offset' = offset + n
    BY <1>3, StoreLastBlockFlashed
  <2>4. Phase' = "finished"
    BY <1>1, <1>3, <2>3 DEF Phase
  <2> HIDE DEF n
  <2>5. Storage!ReceiveLast(n)
    BY <1>1, <1>3, <2>1, <2>2, <2>3, <2>4 DEF Storage!ReceiveLast
  <2> QED
    BY <1>1, <1>3, <2>5 DEF Storage!Next
<1>4. CASE UNCHANGED <<flashVars, attrVars, dfv>>
  BY <1>4 DEF Stored, Phase, attrVars
<1>5. CASE status = "downloading" /\ Abort(base) /\ UNCHANGED flashVars
  <2>1. dfv # NoVersion /\ dfv' = NoVersion
    BY <1>5 DEF OrderOK, Started, Abort
  <2> QED
    BY <1>5, <2>1 DEF Storage!Next, Storage!Abandon, Storage!Forget, Phase, Storage!flashVars, flashVars
<1> QED
  BY <1>2, <1>3, <1>4, <1>5 DEF HandleBlock, WaitForData

LEMMA StorageStep ==
    ASSUME TypeInv, PointersOK, OrderOK, FlashedOK, "late_end" \notin env,
           "versions" \notin env, {"aborts", "notify"} \cap env = {}, [Next]_vars
    PROVE  Storage!Next \/ UNCHANGED Storage!vars
<1>0. pending \in Response \cup {NoBlock} /\ rsp \subseteq Response
  BY DEF TypeInv, ClientOK, Carried
<1>1. CASE UNCHANGED <<flashVars, attrVars, dfv>>
  BY <1>1, StoredStutters DEF Stored, Phase, attrVars
<1>2. CASE \/ Joined \/ InitClient \/ ServerNotFound \/ RequestServer \/ ImageNotify
           \/ NextImageRefused \/ DeferBlock \/ BlockRequestFailed \/ ServerUpgradesNow
  BY <1>1, <1>2 DEF Joined, InitClient, ServerNotFound, RequestServer, ImageNotify, NextImageRefused,
     DeferBlock, BlockRequestFailed, ServerUpgradesNow, blockVars
<1>3. CASE StartClient
  <2>1. /\ UNCHANGED flashVars /\ UNCHANGED <<offset, dfv>>
        /\ status' = status \/ (status # "downloading" /\ status' # "downloading")
    BY <1>3 DEF StartClient, SetStatus, blockVars
  <2> QED
    BY <2>1, StoredStutters DEF Stored, Phase
<1>4. CASE NextImageResp
  BY <1>4, NextImageStarts
<1>5. CASE ReceiveBlock
  <2>1. PICK m \in rsp, base \in SUBSET rsp : Block(m) /\ HandleBlock(m, base, acks)
    BY <1>5 DEF ReceiveBlock
  <2>2. cstate = "in_progress" /\ m \in Response
    BY <1>0, <2>1 DEF OrderOK, NotStarted
  <2> QED
    BY <2>1, <2>2, HandleBlockStores, StoredStutters
<1>6. CASE BlockRequestSent
  <2>1. CASE pending = NoBlock
    BY <1>1, <1>6, <2>1 DEF BlockRequestSent
  <2>2. CASE pending # NoBlock
    <3>1. cstate = "in_progress" /\ pending \in Response
      BY <1>0, <2>2 DEF OrderOK, NotStarted
    <3>2. HandleBlock(pending, rsp, acks - 1)
      BY <1>6, <2>2 DEF BlockRequestSent
    <3> QED
      BY <3>1, <3>2, HandleBlockStores, StoredStutters
  <2> QED
    BY <2>1, <2>2
<1>7. CASE ResendBuffer
  <2>1. CASE status = "downloading" /\ Abort(rsp)
    <3>1. dfv # NoVersion /\ dfv' = NoVersion /\ UNCHANGED flashVars
      BY <1>7, <2>1 DEF ResendBuffer, OrderOK, NotStarted, Started, Abort
    <3> QED
      BY <2>1, <3>1 DEF Storage!Next, Storage!Abandon, Storage!Forget, Phase,
         Storage!flashVars, flashVars
  <2> QED
    BY <1>1, <1>7, <2>1 DEF ResendBuffer, blockVars
<1>8. CASE DefaultResponse
  BY <1>8 DEF DefaultResponse, OrderOK, NoRefusal
<1>9. CASE UpgradeEndResp
  <2>1. /\ UNCHANGED flashVars /\ UNCHANGED <<offset, dfv>> /\ status # "downloading"
        /\ status' # "downloading"
    BY <1>9 DEF UpgradeEndResp, SetStatus, blockVars, OrderOK, EndAfter, NoEnd
  <2> QED
    BY <2>1, StoredStutters DEF Stored, Phase
<1>10. CASE Boot(nv.status, nv.offset)
  <2>1. /\ RamReset /\ UNCHANGED bank /\ dfv' = NoVersion
    BY <1>10 DEF Boot
  <2>2. Storage!RamReset
    BY <2>1 DEF Storage!RamReset, RamReset, Storage!BufIndex, BufIndex, Storage!BufSize, BufSize
  <2> QED
    BY <2>1, <2>2 DEF Storage!Next, Storage!Reset, Storage!Forget, Phase
<1>11. CASE SaveAttrs
  <2>1. UNCHANGED flashVars /\ UNCHANGED <<status, offset, dfv>>
    BY <1>11 DEF SaveAttrs, blockVars
  <2> QED
    BY <2>1, StoredStutters DEF Stored, Phase
<1>12. CASE UNCHANGED vars
  BY <1>1, <1>12 DEF vars, blockVars
<1> QED
  BY <1>2, <1>3, <1>4, <1>5, <1>6, <1>7, <1>8, <1>9, <1>10, <1>11, <1>12
     DEF Next, FinishUpgrade, Reset

(* The upgrade client implements the storage specification: it begins a     *)
(* download with an erase or at a legal place to resume, hands on each      *)
(* block where the one before ended, flashes the last block once, and       *)
(* touches the bank in a download only (OtaStorage).                        *)
THEOREM ClientStoresTheFile == PlainServer /\ NoLateEnd => (Spec => StoresTheFile)
<1> SUFFICES ASSUME PlainServer, NoLateEnd
             PROVE  Spec => StoresTheFile
  OBVIOUS
<1>1. Init => Storage!Init
  BY DEF Init, Storage!Init, RamInit, Storage!RamInit, Phase, Storage!Bank, Bank,
     Storage!BufIndex, BufIndex, Storage!BufSize, BufSize
<1>2. (TypeInv /\ PointersOK /\ DownloadInv) /\ [Next]_vars
         => ["versions" \in env \/ Storage!Next]_(Storage!vars)
  <2> SUFFICES ASSUME TypeInv, PointersOK, DownloadInv, [Next]_vars, "versions" \notin env
               PROVE  Storage!Next \/ UNCHANGED Storage!vars
    OBVIOUS
  <2>1. {"aborts", "notify"} \cap env = {} /\ "late_end" \notin env
    BY DEF PlainServer, NoLateEnd, TypeInv, BootOK
  <2>2. OrderOK /\ FlashedOK
    BY DEF DownloadInv
  <2> QED
    BY <2>1, <2>2, StorageStep
<1> QED
  BY <1>1, <1>2, DownloadAlways, PTL DEF Spec, StoresTheFile

=============================================================================
