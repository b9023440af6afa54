---------------------------- MODULE XmodemProofs ----------------------------
(***************************************************************************)
(* Proofs about Xmodem: for every length of the file, every number of      *)
(* faults, retries and answers under way, and whatever the linker put      *)
(* behind the buffer, the sender's end of the file is accepted only after  *)
(* its last block.  When flash_buffer is not what lies behind the buffer,  *)
(* every block is also flashed where it belongs and the header covers the  *)
(* sender's data, whatever ended the file, unless a block was dangling.    *)
(***************************************************************************)
EXTENDS Xmodem, SequenceTheorems, TLAPS

(* What the overrun may not hit.                                            *)
Harmless == "flash_buffer" \notin Behind

TypeInv == TypeOK /\ (rpc = "ack" => block <= NBlocks)

(* The bytes of packet n.                                                   *)
PacketBytes(n) == IF n <= NBlocks THEN {SOH, Num(n), Data(n)} ELSE {EOT}

(* What is on the line is of the packet the sender is at.                   *)
LineOK == \A i \in 1..Len(line) : line[i] \in PacketBytes(sent)

(* The blocks received.                                                     *)
Received == IF rpc = "ack" THEN block ELSE block - 1

(* What is left in the buffer is of that packet or an earlier one, but no   *)
(* older than the last one received; in what looks like a whole packet the  *)
(* data is no older than the number.                                        *)
BufferOK ==
    /\ \A n \in 1..NBlocks : buffer[1] = Num(n) => Received <= n /\ n <= sent
    /\ \A m \in 1..NBlocks : buffer[2] = Data(m) => m <= sent
    /\ buffer[0] = EOT => sent = NBlocks + 1
    /\ index >= 3 => \A n, m \in 1..NBlocks :
                        buffer[1] = Num(n) /\ buffer[2] = Data(m) => n <= m

Acks == {i \in 1..Len(replies) : replies[i] = "ACK"}

(* Until the file ends the sender is never ahead of the receiver, nor more  *)
(* than one block behind it.  At most one ACK is on its way, and only when  *)
(* the sender is behind.  After the file's true end both stay where they    *)
(* are.                                                                     *)
AnswersOK ==
    /\ rpc # "done" => /\ sent <= block /\ block <= sent + 1
                       /\ Acks # {} => sent < block
                       /\ \A i, j \in Acks : i = j
    /\ rpc = "ack" => sent = block
    /\ rpc = "done" /\ buffer[0] = EOT => sent = NBlocks + 1 /\ block = NBlocks + 1
    /\ hdr # NoHeader => rpc = "done"

OrderInv == LineOK /\ BufferOK /\ AnswersOK

(* The blocks of whole pages received are in the bank, each in its place;   *)
(* the one left over is in the first half of flash_buffer.                  *)
DataOK ==
    /\ rpc = "read" /\ block % 2 = 0 => half[0] = block - 1
    /\ rpc = "ack" /\ block % 2 = 1 => half[0] = block
    /\ \A p \in Place :
          bank[p] = IF p >= 0 /\ p < Received - (Received % 2) THEN p + 1 ELSE Erased
    /\ hdr # NoHeader => hdr = Received - 2

(* ... until create_fota_header deals with a block left over.               *)
DataInv == Dangling \/ DataOK

-----------------------------------------------------------------------------
(* Operators of the model.                                                  *)

LEMMA Sizes == /\ NBlocks \in Nat \ {0} /\ PacketLen = 3 /\ IndexMod \in 4..5
               /\ NumMod \in Nat /\ NumMod > 1
               /\ MaxRetries \in Nat \ {0} /\ MaxReplies \in Nat \ {0} /\ MaxFaults \in Nat
BY XmodemAssumption

LEMMA BytesDiffer ==
    ASSUME NEW n, NEW m
    PROVE  /\ Num(n) = Num(m) => n = m
           /\ Data(n) = Data(m) => n = m
           /\ Num(n) # Data(m) /\ Num(n) # SOH /\ Num(n) # EOT /\ Num(n) # Garbage
           /\ Data(n) # SOH /\ Data(n) # EOT /\ Data(n) # Garbage
           /\ SOH # EOT /\ SOH # Garbage /\ EOT # Garbage
BY DEF Num, Data, SOH, EOT, Garbage

LEMMA BlockOfData == ASSUME NEW n PROVE BlockIn(Data(n)) = n
BY DEF BlockIn, Data, Garbage

LEMMA PacketTyped ==
    ASSUME NEW n \in 1..(NBlocks + 1)
    PROVE  /\ Packet(n) \in Seq(Bytes)
           /\ \A i \in 1..Len(Packet(n)) : Packet(n)[i] \in PacketBytes(n)
<1>1. CASE n <= NBlocks
  <2>1. SOH \in Bytes /\ Num(n) \in Bytes /\ Data(n) \in Bytes
    BY <1>1, Sizes DEF Bytes
  <2>2. Packet(n) = <<SOH, Num(n), Data(n)>> /\ PacketBytes(n) = {SOH, Num(n), Data(n)}
    BY <1>1 DEF Packet, PacketBytes
  <2> HIDE DEF Bytes
  <2> QED
    BY <2>1, <2>2
<1>2. CASE ~(n <= NBlocks)
  <2>1. EOT \in Bytes
    BY DEF Bytes
  <2>2. Packet(n) = <<EOT>> /\ PacketBytes(n) = {EOT}
    BY <1>2 DEF Packet, PacketBytes
  <2> QED
    BY <2>1, <2>2
<1> QED
  BY <1>1, <1>2

(* Send appends all of the answers or none.                                 *)
LEMMA SendTyped ==
    ASSUME TypeOK, NEW rs \in Seq({"ACK", "NAK", "CAN"}), Send(rs)
    PROVE  /\ replies' \in Seq({"ACK", "NAK", "CAN"}) /\ Len(replies') <= MaxReplies
           /\ replies' \in {replies, replies \o rs}
BY DEF TypeOK, Send

LEMMA NoAckSent ==
    ASSUME TypeOK, NEW rs \in Seq({"NAK", "CAN"}), Send(rs)
    PROVE  Acks' \subseteq Acks
<1>1. replies \in Seq({"ACK", "NAK", "CAN"})
  BY DEF TypeOK
<1>2. CASE replies' = replies
  BY <1>2 DEF Acks
<1>3. CASE replies' = replies \o rs
  <2>1. Len(replies') = Len(replies) + Len(rs) /\ Len(replies) \in Nat /\ Len(rs) \in Nat
    BY <1>1, <1>3
  <2>2. ASSUME NEW i \in Acks' PROVE i \in Acks
    <3>1. i \in 1..(Len(replies) + Len(rs)) /\ (replies \o rs)[i] = "ACK"
      BY <1>3, <2>1, <2>2 DEF Acks
    <3>2. CASE i <= Len(replies)
      BY <1>1, <2>1, <3>1, <3>2 DEF Acks
    <3>3. CASE i > Len(replies)
      <4>1. i - Len(replies) \in 1..Len(rs) /\ (replies \o rs)[i] = rs[i - Len(replies)]
        BY <1>1, <2>1, <3>1, <3>3
      <4>2. rs[i - Len(replies)] \in {"NAK", "CAN"}
        BY <4>1
      <4> QED
        BY <3>1, <4>1, <4>2
    <3> QED
      BY <2>1, <3>1, <3>2, <3>3
  <2> QED
    BY <2>2
<1> QED
  BY <1>2, <1>3 DEF Send

(* A page that begins at an even place is not split by the chip.            *)
Put(old, new) == IF old \in {Erased, new} THEN new ELSE Mixed

LEMMA PageWritten ==
    ASSUME NEW p, NEW h, WritePage(p, h)
    PROVE  \E q \in {p + 1} \cup (IF p % 2 = 1 THEN {p - 1} ELSE {}) :
              bank' = [bank EXCEPT ![p] = Put(@, h[0]), ![q] = Put(@, h[1])]
BY Zenon DEF WritePage, Put

LEMMA EvenPage ==
    ASSUME NEW p \in Int, NEW h, p % 2 = 0, WritePage(p, h)
    PROVE  bank' = [bank EXCEPT ![p] = Put(@, h[0]), ![p + 1] = Put(@, h[1])]
<1>1. p % 2 # 1
  OBVIOUS
<1> QED
  BY <1>1, PageWritten, Zenon

LEMMA WritePageTyped ==
    ASSUME TypeOK, NEW p \in Int, NEW h \in [0..1 -> Block], WritePage(p, h)
    PROVE  bank' \in [Place -> Block \cup {Erased, Mixed}]
<1> DEFINE Cell == Block \cup {Erased, Mixed}
<1>1. ASSUME NEW old, NEW new \in Cell PROVE Put(old, new) \in Cell
  BY DEF Put
<1>2. h[0] \in Cell /\ h[1] \in Cell
  OBVIOUS
<1>3. bank \in [Place -> Cell]
  BY DEF TypeOK
<1>4. PICK q : bank' = [bank EXCEPT ![p] = Put(@, h[0]), ![q] = Put(@, h[1])]
  BY PageWritten, Zenon
<1> HIDE DEF Cell
<1>5. \A x : Put(x, h[0]) \in Cell /\ Put(x, h[1]) \in Cell
  BY <1>1, <1>2
<1>6. bank' \in [Place -> Cell]
  BY <1>3, <1>4, <1>5
<1> QED
  BY <1>6 DEF Cell

-----------------------------------------------------------------------------
(* Types.                                                                   *)

LEMMA ArriveTyped ==
    ASSUME TypeOK, NEW b \in Bytes, Arrive(b)
    PROVE  /\ buffer' \in [0..(PacketLen - 1) -> Bytes]
           /\ index' \in 0..(IndexMod - 1)
           /\ half' \in [0..1 -> Block]
<1>1. /\ buffer \in [0..(PacketLen - 1) -> Bytes] /\ index \in 0..(IndexMod - 1)
      /\ half \in [0..1 -> Block]
  BY DEF TypeOK
<1>2. CASE index < PacketLen
  BY <1>1, <1>2, Sizes DEF Arrive
<1>3. CASE index >= PacketLen
  <2>1. PICK hit \in Behind :
            /\ half' \in IF hit = "flash_buffer" THEN {[half EXCEPT ![k] = Blank] : k \in 0..1}
                                                ELSE {half}
            /\ index' \in IF hit = "buf_index" THEN 0..(IndexMod - 1)
                                              ELSE {(index + 1) % IndexMod}
    BY <1>1, <1>3, Sizes DEF Arrive
  <2>2. (index + 1) % IndexMod \in 0..(IndexMod - 1)
    <3>1. index + 1 = IndexMod \/ index + 1 \in 0..(IndexMod - 1)
      BY <1>1, Sizes
    <3> QED
      BY <3>1, Sizes
  <2>3. \A k \in 0..1 : [half EXCEPT ![k] = Blank] \in [0..1 -> Block]
    BY <1>1, Sizes DEF Blank, Block
  <2>4. buffer' = buffer
    BY <1>1, <1>3, Sizes DEF Arrive
  <2> QED
    BY <1>1, <2>1, <2>2, <2>3, <2>4
<1> QED
  BY <1>2, <1>3 DEF Arrive

LEMMA RetryTyped ==
    ASSUME TypeOK, rpc = "read",
           NEW before \in Seq({"ACK", "NAK", "CAN"}), NEW after \in Seq({"ACK", "NAK", "CAN"}),
           Retry(before, after)
    PROVE  /\ retries' \in 0..MaxRetries /\ rpc' \in {"read", "failed"}
           /\ rpc' # "failed" => retries' < MaxRetries
           /\ \E rs \in {before \o <<"CAN">>, before \o after} :
                rs \in Seq({"ACK", "NAK", "CAN"}) /\ Send(rs)
<1>1. retries \in 0..MaxRetries /\ retries < MaxRetries /\ retries' = retries + 1
  BY DEF TypeOK, Retry
<1>2. \/ retries + 1 >= MaxRetries /\ rpc' = "failed" /\ Send(before \o <<"CAN">>)
      \/ ~(retries + 1 >= MaxRetries) /\ rpc' = "read" /\ Send(before \o after)
  BY Zenon DEF Retry, TooMany
<1>3. before \o <<"CAN">> \in Seq({"ACK", "NAK", "CAN"}) /\ before \o after \in Seq({"ACK", "NAK", "CAN"})
  OBVIOUS
<1>4. retries' \in 0..MaxRetries /\ rpc' \in {"read", "failed"} /\ (rpc' # "failed" => retries' < MaxRetries)
  BY <1>1, <1>2, Sizes
<1> QED
  BY <1>2, <1>3, <1>4

(* Numbers one apart stay apart in a uint8_t.                               *)
LEMMA NextNumber ==
    ASSUME NEW n \in Int, NEW m \in Nat, m > 1
    PROVE  n % m # (n + 1) % m
<1> DEFINE q == n \div m
           r == (n + 1) \div m
           a == n % m
           b == (n + 1) % m
<1>1. q \in Int /\ r \in Int /\ a \in Int /\ b \in Int
      /\ n = m * q + a /\ n + 1 = m * r + b
  BY Z3T(30)
<1>2. ASSUME a = b PROVE FALSE
  <2> HIDE DEF q, r, a, b
  <2>1. m * (r - q) = 1
    BY <1>1, <1>2, Z3T(30)
  <2> DEFINE k == r - q
  <2>2. k \in Int /\ m * k = 1
    BY <1>1, <2>1
  <2> HIDE DEF k
  <2>3. k <= 0 => m * k <= 0
    BY <2>2, Z3T(30)
  <2>4. k >= 1 => m * k >= m
    BY <2>2, Z3T(30)
  <2> QED
    BY <2>2, <2>3, <2>4
<1> QED
  BY <1>2

(* A packet is accepted only while the sender is at it.                     *)
LEMMA AcceptedIsCurrent ==
    ASSUME TypeOK, BufferOK, AnswersOK, rpc = "read", index = PacketLen,
           NumberOk(buffer[1]), ChecksumOk(buffer[2])
    PROVE  sent = block /\ buffer[1] = Num(block) /\ buffer[2] = Data(block) /\ block <= NBlocks
<1>1. block \in 1..(NBlocks + 1) /\ sent \in 1..(NBlocks + 1) /\ sent <= block
  BY DEF TypeOK, AnswersOK
<1>2. PICK n \in 1..NBlocks : buffer[1] = Num(n) /\ n % NumMod = block % NumMod
  BY DEF NumberOk
<1>3. PICK m \in 1..NBlocks : buffer[2] = Data(m)
  BY DEF ChecksumOk
<1>4. block - 1 <= n /\ n <= sent /\ m <= sent /\ n <= m
  BY <1>2, <1>3, Sizes DEF BufferOK, Received
<1>5. n # block - 1
  <2>1. CASE n = block - 1
    <3>1. n % NumMod # (n + 1) % NumMod
      BY <1>2, Sizes, NextNumber
    <3>2. block = n + 1
      BY <1>1, <2>1
    <3> QED
      BY <1>2, <3>1, <3>2
  <2> QED
    BY <2>1
<1>6. n = block /\ sent = block /\ m = block /\ block <= NBlocks
  BY <1>1, <1>2, <1>4, <1>5, Sizes
<1> QED
  BY <1>2, <1>3, <1>6

LEMMA TypeStarts == Init => TypeInv
<1> SUFFICES ASSUME Init PROVE TypeInv
  OBVIOUS
<1>1. Garbage \in Bytes
  BY DEF Bytes
<1>2. replies \in Seq({"ACK", "NAK", "CAN"}) /\ Len(replies) = 1 /\ line \in Seq(Bytes)
  BY DEF Init
<1>3. buffer \in [0..(PacketLen - 1) -> Bytes] /\ half \in [0..1 -> Block]
  BY <1>1, Sizes DEF Init, Block, Blank
<1> QED
  BY <1>2, <1>3, Sizes DEF Init, TypeInv, TypeOK, Block, Blank, Erased, Mixed

LEMMA TypeSteps == TypeInv /\ OrderInv /\ [Next]_vars => TypeInv'
<1> SUFFICES ASSUME TypeInv, OrderInv, [Next]_vars PROVE TypeInv'
  OBVIOUS
<1>0. TypeOK /\ Garbage \in Bytes /\ BufferOK /\ AnswersOK
  BY DEF TypeInv, Bytes, OrderInv
<1>1. CASE ByteArrives \/ ByteCorrupted
  <2>1. line \in Seq(Bytes) /\ line # <<>> /\ line' = Tail(line)
    BY <1>0, <1>1 DEF ByteArrives, ByteCorrupted, TypeOK
  <2>2. line' \in Seq(Bytes) /\ Head(line) \in Bytes
    BY <2>1
  <2>3. PICK b \in Bytes : Arrive(b)
    BY <1>0, <1>1, <2>2 DEF ByteArrives, ByteCorrupted
  <2>4. faults' \in 0..MaxFaults
    BY <1>0, <1>1, Sizes DEF ByteArrives, ByteCorrupted, Fault, TypeOK
  <2>5. UNCHANGED <<rpc, block, retries, bank, hdr, sending, replies>>
    BY <1>1 DEF ByteArrives, ByteCorrupted
  <2>6. /\ buffer' \in [0..(PacketLen - 1) -> Bytes] /\ index' \in 0..(IndexMod - 1)
        /\ half' \in [0..1 -> Block]
    BY <1>0, <2>3, ArriveTyped
  <2> QED
    BY <2>2, <2>4, <2>5, <2>6 DEF TypeInv, TypeOK, sending
<1>2. CASE ByteLost
  <2>1. line' \in Seq(Bytes) /\ faults' \in 0..MaxFaults
    BY <1>0, <1>2, Sizes DEF ByteLost, Fault, TypeOK
  <2> QED
    BY <1>2, <2>1 DEF ByteLost, TypeInv, TypeOK, flashing, sending
<1>3. CASE ReplyLost
  <2>1. /\ replies' \in Seq({"ACK", "NAK", "CAN"}) /\ Len(replies') <= MaxReplies
        /\ faults' \in 0..MaxFaults
    BY <1>0, <1>3, Sizes DEF ReplyLost, Fault, TypeOK
  <2> QED
    BY <1>3, <2>1 DEF ReplyLost, TypeInv, TypeOK, flashing, sending
<1>4. CASE SenderAnswers
  <2>1. replies' \in Seq({"ACK", "NAK", "CAN"}) /\ Len(replies') <= MaxReplies
    <3>1. replies \in Seq({"ACK", "NAK", "CAN"}) /\ Len(replies) <= MaxReplies
      BY <1>0 DEF TypeOK
    <3>2. replies # <<>> /\ replies' \in {Tail(replies), <<>>}
      BY <1>4 DEF SenderAnswers
    <3>3. CASE replies' = Tail(replies)
      BY <3>1, <3>2, <3>3, Sizes
    <3>4. CASE replies' = <<>>
      BY <3>4, Sizes
    <3> QED
      BY <3>2, <3>3, <3>4
  <2>2. sent \in 1..(NBlocks + 1) /\ line \in Seq(Bytes) /\ sender \in {"idle", "sending", "stopped"}
    BY <1>0 DEF TypeOK
  <2>3. \/ sender' = "sending" /\ line' = Packet(sent) /\ sent' = sent
        \/ sent <= NBlocks /\ sent' = sent + 1 /\ line' = Packet(sent + 1) /\ sender' = sender
        \/ sender' = "stopped" /\ sent' = sent /\ line' = line
    BY <1>4 DEF SenderAnswers
  <2>4. /\ line' \in Seq(Bytes) /\ sent' \in 1..(NBlocks + 1)
        /\ sender' \in {"idle", "sending", "stopped"}
    BY <2>2, <2>3, PacketTyped, Sizes
  <2>5. UNCHANGED <<buffer, index, rpc, block, retries, flashing, faults>>
    BY <1>4 DEF SenderAnswers
  <2> QED
    BY <2>1, <2>4, <2>5 DEF TypeInv, TypeOK, flashing
<1>5. CASE SenderStops
  <2>1. line' \in Seq(Bytes)
    BY <1>5 DEF SenderStops
  <2> QED
    BY <1>5, <2>1 DEF SenderStops, TypeInv, TypeOK, flashing
<1>6. CASE PacketRead
  <2>0. UNCHANGED <<buffer, index, block, hdr, sending, line, faults>> /\ rpc = "read"
    BY <1>6 DEF PacketRead
  <2>1. CASE NumberOk(buffer[1]) /\ ChecksumOk(buffer[2]) /\ ProcessPacket(BlockIn(buffer[2]))
             /\ rpc' = "ack" /\ UNCHANGED <<retries, replies>>
    <3>1. PICK n \in 1..NBlocks : buffer[2] = Data(n)
      BY <2>1 DEF ChecksumOk
    <3>2. BlockIn(buffer[2]) \in Block
      BY <3>1, BlockOfData, Sizes DEF Block, Blank
    <3>3. half' \in [0..1 -> Block] /\ bank' \in [Place -> Block \cup {Erased, Mixed}]
      <4> DEFINE m == BlockIn(buffer[2])
      <4>1. block \in Int /\ block - 2 \in Int /\ half \in [0..1 -> Block]
            /\ bank \in [Place -> Block \cup {Erased, Mixed}]
        BY <1>0 DEF TypeOK
      <4>2. CASE half' = [half EXCEPT ![0] = m] /\ bank' = bank
        <5> HIDE DEF m
        <5> QED
          BY <4>1, <4>2, <3>2 DEF m
      <4>3. CASE half' = [half EXCEPT ![1] = m] /\ WritePage(block - 2, [half EXCEPT ![1] = m])
        <5>1. [half EXCEPT ![1] = m] \in [0..1 -> Block]
          BY <3>2, <4>1
        <5> HIDE DEF m
        <5> QED
          BY <1>0, <4>1, <4>3, <5>1, WritePageTyped
      <4> QED
        BY <2>1, <4>2, <4>3 DEF ProcessPacket
    <3>4. block <= NBlocks
      <4>1. index = PacketLen
        BY <1>6 DEF PacketRead
      <4> QED
        BY <1>0, <2>0, <2>1, <4>1, AcceptedIsCurrent
    <3> QED
      BY <1>0, <2>0, <2>1, <3>3, <3>4 DEF TypeInv, TypeOK, sending
  <2>2. CASE Retry(<<"NAK">>, <<>>) /\ UNCHANGED <<half, bank>>
    <3>1. <<"NAK">> \in Seq({"ACK", "NAK", "CAN"}) /\ <<>> \in Seq({"ACK", "NAK", "CAN"})
      OBVIOUS
    <3>2. /\ retries' \in 0..MaxRetries /\ rpc' \in {"read", "failed"}
          /\ rpc' # "failed" => retries' < MaxRetries
          /\ \E rs \in Seq({"ACK", "NAK", "CAN"}) : Send(rs)
      BY <1>0, <2>0, <2>2, <3>1, RetryTyped
    <3>3. replies' \in Seq({"ACK", "NAK", "CAN"}) /\ Len(replies') <= MaxReplies
      BY <1>0, <3>2, SendTyped
    <3> QED
      BY <2>0, <2>2, <3>2, <3>3 DEF TypeInv, TypeOK, sending
  <2>3. CASE Send(<<"NAK">>) /\ UNCHANGED <<rpc, retries, half, bank>>
    <3>1. <<"NAK">> \in Seq({"ACK", "NAK", "CAN"})
      OBVIOUS
    <3>2. replies' \in Seq({"ACK", "NAK", "CAN"}) /\ Len(replies') <= MaxReplies
      BY <1>0, <2>3, <3>1, SendTyped
    <3> QED
      BY <2>0, <2>3, <3>2 DEF TypeInv, TypeOK, sending
  <2> QED
    BY <1>6, <2>1, <2>2, <2>3 DEF PacketRead
<1>7. CASE Acknowledge
  <2>1. <<"ACK">> \in Seq({"ACK", "NAK", "CAN"})
    OBVIOUS
  <2>2. Send(<<"ACK">>)
    BY <1>7 DEF Acknowledge
  <2>3. replies' \in Seq({"ACK", "NAK", "CAN"}) /\ Len(replies') <= MaxReplies
    BY <1>0, <2>1, <2>2, SendTyped
  <2> QED
    BY <1>7, <2>3, Sizes DEF Acknowledge, TypeInv, TypeOK, flashing, sending
<1>8. CASE ReadTimeout
  <2>0. UNCHANGED <<buffer, index, block, sending, line, faults>> /\ rpc = "read"
    BY <1>8 DEF ReadTimeout
  <2>1. CASE rpc' = "done" /\ Send(<<"ACK">>) /\ CreateHeader(block - 1) /\ UNCHANGED retries
    <3>1. <<"ACK">> \in Seq({"ACK", "NAK", "CAN"})
      OBVIOUS
    <3>2. replies' \in Seq({"ACK", "NAK", "CAN"}) /\ Len(replies') <= MaxReplies
      BY <1>0, <2>1, <3>1, SendTyped
    <3>3. block \in 1..(NBlocks + 1) /\ half \in [0..1 -> Block]
          /\ bank \in [Place -> Block \cup {Erased, Mixed}]
      BY <1>0 DEF TypeOK
    <3>4. /\ hdr' = (block - 1) - 2 /\ half' = half
          /\ bank' = bank \/ WritePage((block - 1) - 2, half)
      BY <2>1 DEF CreateHeader
    <3>5. (block - 1) - 2 \in Int /\ (block - 1) - 2 \in -2..NBlocks
      BY <3>3, Sizes
    <3>6. bank' \in [Place -> Block \cup {Erased, Mixed}]
      BY <1>0, <3>3, <3>4, <3>5, WritePageTyped
    <3>7. hdr' \in {NoHeader} \cup (-2..NBlocks)
      BY <3>4, <3>5
    <3> QED
      BY <2>0, <2>1, <3>2, <3>4, <3>6, <3>7 DEF TypeInv, TypeOK, sending
  <2>2. CASE Retry(<<>>, <<"NAK">>) /\ UNCHANGED flashing
    <3>1. <<"NAK">> \in Seq({"ACK", "NAK", "CAN"}) /\ <<>> \in Seq({"ACK", "NAK", "CAN"})
      OBVIOUS
    <3>2. /\ retries' \in 0..MaxRetries /\ rpc' \in {"read", "failed"}
          /\ rpc' # "failed" => retries' < MaxRetries
          /\ \E rs \in Seq({"ACK", "NAK", "CAN"}) : Send(rs)
      BY <1>0, <2>0, <2>2, <3>1, RetryTyped
    <3>3. replies' \in Seq({"ACK", "NAK", "CAN"}) /\ Len(replies') <= MaxReplies
      BY <1>0, <3>2, SendTyped
    <3> QED
      BY <2>0, <2>2, <3>2, <3>3 DEF TypeInv, TypeOK, sending, flashing
  <2> QED
    BY <1>8, <2>1, <2>2 DEF ReadTimeout
<1>9. CASE UNCHANGED vars
  BY <1>9 DEF vars, TypeInv, TypeOK, flashing, sending
<1> QED
  BY <1>1, <1>2, <1>3, <1>4, <1>5, <1>6, <1>7, <1>8, <1>9 DEF Next, Receiver

-----------------------------------------------------------------------------
(* The order of blocks: what packets and answers can do to it.              *)

(* A byte that arrives is of the packet the sender is at, or spoiled.       *)
LEMMA ArriveKeeps ==
    ASSUME TypeOK, BufferOK, AnswersOK, rpc # "done", UNCHANGED <<sent, rpc, block>>,
           NEW b \in PacketBytes(sent) \cup {Garbage}, Arrive(b)
    PROVE  BufferOK'
<1>0. /\ index \in 0..(IndexMod - 1) /\ sent \in 1..(NBlocks + 1)
      /\ buffer \in [0..2 -> Bytes]
  BY Sizes DEF TypeOK
<1>r. Received' = Received /\ Received <= sent /\ block \in Int
  BY DEF TypeOK, AnswersOK, Received
<1>1. /\ \A n \in 1..NBlocks : b = Num(n) => n = sent
      /\ \A n \in 1..NBlocks : b = Data(n) => n = sent
      /\ b = EOT => sent = NBlocks + 1
  <2>1. CASE sent <= NBlocks
    BY <2>1, BytesDiffer DEF PacketBytes
  <2>2. CASE ~(sent <= NBlocks)
    BY <1>0, <2>2, BytesDiffer, Sizes DEF PacketBytes
  <2> QED
    BY <2>1, <2>2
<1>2. CASE index < PacketLen
  <2>1. /\ index \in 0..2 /\ index' = index + 1 /\ buffer' = [buffer EXCEPT ![index] = b]
    BY <1>0, <1>2, Sizes DEF Arrive
  <2>2. CASE index = 0
    BY <1>0, <1>1, <1>r, <2>1, <2>2 DEF BufferOK
  <2>3. CASE index = 1
    BY <1>0, <1>1, <1>r, <2>1, <2>3 DEF BufferOK
  <2>4. CASE index = 2
    BY <1>0, <1>1, <1>r, <2>1, <2>4 DEF BufferOK
  <2> QED
    BY <2>1, <2>2, <2>3, <2>4
<1>3. CASE index >= PacketLen
  <2>1. buffer' = buffer /\ index >= 3
    BY <1>0, <1>3, Sizes DEF Arrive
  <2> QED
    BY <1>r, <2>1 DEF BufferOK
<1> QED
  BY <1>2, <1>3 DEF Arrive

(* A sender that moves on leaves the buffer behind.                         *)
LEMMA BufferKept ==
    ASSUME TypeOK, BufferOK, UNCHANGED buffer, Received' = Received, index' = index \/ index' = 0,
           sent' = sent \/ (sent <= NBlocks /\ sent' = sent + 1)
    PROVE  BufferOK'
<1>1. sent \in 1..(NBlocks + 1)
  BY DEF TypeOK
<1> QED
  BY <1>1, Sizes DEF BufferOK

(* What the receiver does when nothing of the order changes.                *)
LEMMA AnswersKept ==
    ASSUME AnswersOK, Acks' \subseteq Acks, UNCHANGED <<sent, block, hdr>>,
           rpc = "done" => UNCHANGED buffer,
           rpc' = rpc \/ (rpc = "read" /\ rpc' = "failed")
    PROVE  AnswersOK'
BY DEF AnswersOK

LEMMA TailAcks ==
    ASSUME TypeOK, replies # <<>>, replies' \in {Tail(replies), <<>>}
    PROVE  /\ \A i \in Acks' : i + 1 \in Acks /\ i \in Nat \ {0}
           /\ Head(replies) = "ACK" => 1 \in Acks
<1>1. replies \in Seq({"ACK", "NAK", "CAN"}) /\ Len(replies) \in Nat /\ Len(replies) >= 1
  BY DEF TypeOK
<1>2. ASSUME NEW i \in Acks' PROVE i + 1 \in Acks /\ i \in Nat \ {0}
  <2>1. i \in 1..Len(replies') /\ replies'[i] = "ACK"
    BY <1>2 DEF Acks
  <2>2. replies' = Tail(replies)
    BY <2>1
  <2> QED
    BY <1>1, <2>1, <2>2 DEF Acks
<1> QED
  BY <1>1, <1>2 DEF Acks

LEMMA OrderStarts == Init => OrderInv
<1> SUFFICES ASSUME Init PROVE OrderInv
  OBVIOUS
<1>1. LineOK
  BY DEF Init, LineOK
<1>2. BufferOK
  <2>1. buffer[0] = Garbage /\ buffer[1] = Garbage /\ buffer[2] = Garbage
    BY Sizes DEF Init
  <2> QED
    BY <2>1, BytesDiffer DEF BufferOK
<1>3. Acks = {}
  BY DEF Init, Acks
<1>4. AnswersOK
  BY <1>3 DEF Init, AnswersOK
<1> QED
  BY <1>1, <1>2, <1>4 DEF OrderInv

LEMMA OrderSteps == TypeInv /\ OrderInv /\ [Next]_vars => OrderInv'
<1> SUFFICES ASSUME TypeInv, OrderInv, [Next]_vars PROVE OrderInv'
  OBVIOUS
<1>0. TypeOK /\ LineOK /\ BufferOK /\ AnswersOK /\ (rpc = "ack" => block <= NBlocks)
  BY DEF TypeInv, OrderInv
<1>t. /\ sent \in 1..(NBlocks + 1) /\ block \in 1..(NBlocks + 1)
      /\ line \in Seq(Bytes) /\ replies \in Seq({"ACK", "NAK", "CAN"})
      /\ rpc \in {"read", "ack", "done", "failed"}
  BY <1>0 DEF TypeOK
<1>l. ASSUME line # <<>>, line' = Tail(line), sent' = sent PROVE LineOK' /\ Head(line) \in PacketBytes(sent)
  BY <1>0, <1>t, <1>l DEF LineOK
<1>1. CASE ByteArrives \/ ByteCorrupted
  <2>1. line # <<>> /\ line' = Tail(line) /\ sent' = sent
    BY <1>1 DEF ByteArrives, ByteCorrupted, sending
  <2>2. LineOK' /\ Head(line) \in PacketBytes(sent)
    BY <1>l, <2>1
  <2>3. PICK b \in PacketBytes(sent) \cup {Garbage} : Arrive(b)
    BY <1>1, <2>2 DEF ByteArrives, ByteCorrupted
  <2>5. UNCHANGED <<rpc, block, hdr, sent, replies>> /\ rpc # "done"
    BY <1>1 DEF ByteArrives, ByteCorrupted, sending
  <2>4. BufferOK'
    BY <1>0, <2>3, <2>5, ArriveKeeps
  <2>6. AnswersOK'
    BY <1>0, <2>5, AnswersKept DEF Acks
  <2> QED
    BY <2>2, <2>4, <2>6 DEF OrderInv
<1>2. CASE ByteLost
  <2>1. /\ line # <<>> /\ line' = Tail(line)
        /\ UNCHANGED <<buffer, index, rpc, block, hdr, sent, replies>>
    BY <1>2 DEF ByteLost, flashing, sending
  <2>r. Received' = Received
    BY <2>1 DEF Received
  <2>2. LineOK'
    BY <1>l, <2>1
  <2>3. BufferOK'
    BY <1>0, <2>1, <2>r, BufferKept
  <2>4. AnswersOK'
    BY <1>0, <2>1, AnswersKept DEF Acks
  <2> QED
    BY <2>2, <2>3, <2>4 DEF OrderInv
<1>3. CASE ReplyLost
  <2>1. /\ replies # <<>> /\ replies' = Tail(replies)
        /\ UNCHANGED <<buffer, index, rpc, block, hdr, sent, line>>
    BY <1>3 DEF ReplyLost, flashing, sending
  <2>r. Received' = Received
    BY <2>1 DEF Received
  <2>2. LineOK' /\ BufferOK'
    BY <1>0, <2>1, <2>r, BufferKept DEF LineOK
  <2>3. \A i \in Acks' : i + 1 \in Acks /\ i \in Nat \ {0}
    BY <1>0, <2>1, TailAcks
  <2>4. AnswersOK'
    <3>1. /\ Acks' # {} => Acks # {}
          /\ (\A i, j \in Acks : i = j) => \A i, j \in Acks' : i = j
      BY <2>3
    <3> QED
      BY <1>0, <2>1, <3>1 DEF AnswersOK
  <2> QED
    BY <2>2, <2>4 DEF OrderInv
<1>4. CASE SenderAnswers
  <2>1. /\ replies # <<>> /\ replies' \in {Tail(replies), <<>>} /\ line = <<>>
        /\ UNCHANGED <<buffer, index, rpc, block, hdr>>
    BY <1>4 DEF SenderAnswers, flashing
  <2>r. Received' = Received
    BY <2>1 DEF Received
  <2>2. /\ \A i \in Acks' : i + 1 \in Acks /\ i \in Nat \ {0}
        /\ Head(replies) = "ACK" => 1 \in Acks
    BY <1>0, <2>1, TailAcks
  <2>3. /\ Acks' # {} => Acks # {}
        /\ (\A i, j \in Acks : i = j) => \A i, j \in Acks' : i = j
    BY <2>2
  <2>4. CASE sent' = sent /\ line' \in {Packet(sent), line}
    <3>1. LineOK'
      BY <1>0, <1>t, <2>4, PacketTyped DEF LineOK
    <3>2. BufferOK'
      BY <1>0, <2>1, <2>4, <2>r, BufferKept
    <3>3. AnswersOK'
      BY <1>0, <2>1, <2>3, <2>4 DEF AnswersOK
    <3> QED
      BY <3>1, <3>2, <3>3 DEF OrderInv
  <2>5. CASE Head(replies) = "ACK" /\ sent <= NBlocks /\ sent' = sent + 1
             /\ line' = Packet(sent + 1)
    <3>1. sent + 1 \in 1..(NBlocks + 1)
      BY <1>t, <2>5, Sizes
    <3>2. LineOK'
      BY <2>5, <3>1, PacketTyped DEF LineOK
    <3>3. BufferOK'
      BY <1>0, <2>1, <2>5, <2>r, BufferKept
    <3>4. ASSUME rpc = "done" PROVE AnswersOK'
      <4>1. buffer[0] # EOT
        BY <1>0, <1>t, <2>5, <3>4, Sizes DEF AnswersOK
      <4> QED
        BY <1>0, <2>1, <3>4, <4>1 DEF AnswersOK
    <3>5. ASSUME rpc # "done" PROVE AnswersOK'
      <4>1. 1 \in Acks /\ sent < block /\ \A i \in Acks : i = 1
        BY <1>0, <2>2, <2>5, <3>5 DEF AnswersOK
      <4>2. Acks' = {}
        BY <2>2, <4>1
      <4>3. rpc # "ack"
        BY <1>0, <1>t, <4>1 DEF AnswersOK
      <4> QED
        BY <1>0, <1>t, <2>1, <2>5, <3>5, <4>1, <4>2, <4>3 DEF AnswersOK
    <3>6. AnswersOK'
      BY <3>4, <3>5
    <3> QED
      BY <3>2, <3>3, <3>6 DEF OrderInv
  <2> QED
    BY <1>4, <2>4, <2>5 DEF SenderAnswers
<1>5. CASE SenderStops
  <2>1. line' = <<>> /\ UNCHANGED <<buffer, index, rpc, block, hdr, sent, replies>>
    BY <1>5 DEF SenderStops, flashing
  <2>r. Received' = Received
    BY <2>1 DEF Received
  <2>2. LineOK' /\ BufferOK'
    BY <1>0, <2>1, <2>r, BufferKept DEF LineOK
  <2>3. AnswersOK'
    BY <1>0, <2>1, AnswersKept DEF Acks
  <2> QED
    BY <2>2, <2>3 DEF OrderInv
<1>6. CASE PacketRead
  <2>1. rpc = "read" /\ index = PacketLen /\ UNCHANGED <<buffer, index, block, hdr, sent, line>>
    BY <1>6 DEF PacketRead, sending
  <2>l. LineOK'
    BY <1>0, <2>1 DEF LineOK
  <2>2. rpc' \in {"read", "failed"} => BufferOK'
    <3> SUFFICES ASSUME rpc' \in {"read", "failed"} PROVE BufferOK'
      OBVIOUS
    <3>1. Received' = Received
      BY <2>1 DEF Received
    <3> QED
      BY <1>0, <2>1, <3>1, BufferKept
  <2>3. CASE NumberOk(buffer[1]) /\ ChecksumOk(buffer[2]) /\ rpc' = "ack" /\ UNCHANGED replies
    <3>1. sent = block /\ buffer[1] = Num(block)
      BY <1>0, <2>1, <2>3, AcceptedIsCurrent
    <3>2. AnswersOK'
      BY <1>0, <1>t, <2>1, <2>3, <3>1 DEF AnswersOK, Acks
    <3>3. BufferOK'
      <4>1. Received' = block /\ \A n \in 1..NBlocks : buffer[1] = Num(n) => n = block
        BY <2>1, <2>3, <3>1, BytesDiffer DEF Received
      <4> QED
        BY <1>0, <1>t, <2>1, <3>1, <4>1 DEF BufferOK
    <3> QED
      BY <2>l, <3>2, <3>3 DEF OrderInv
  <2>4. CASE Retry(<<"NAK">>, <<>>)
    <3>1. /\ rpc' \in {"read", "failed"}
          /\ \E rs \in {<<"NAK">> \o <<"CAN">>, <<"NAK">> \o <<>>} : Send(rs)
      BY <2>4 DEF Retry
    <3>2. <<"NAK">> \o <<"CAN">> \in Seq({"NAK", "CAN"}) /\ <<"NAK">> \o <<>> \in Seq({"NAK", "CAN"})
      OBVIOUS
    <3>3. Acks' \subseteq Acks
      BY <1>0, <3>1, <3>2, NoAckSent
    <3>4. AnswersOK'
      BY <1>0, <2>1, <3>1, <3>3, AnswersKept
    <3> QED
      BY <2>l, <2>2, <3>1, <3>4 DEF OrderInv
  <2>5. CASE Send(<<"NAK">>) /\ UNCHANGED rpc
    <3>1. <<"NAK">> \in Seq({"NAK", "CAN"})
      OBVIOUS
    <3>2. Acks' \subseteq Acks
      BY <1>0, <2>5, <3>1, NoAckSent
    <3>3. AnswersOK'
      BY <1>0, <2>1, <2>5, <3>2, AnswersKept
    <3> QED
      BY <2>l, <2>1, <2>2, <2>5, <3>3 DEF OrderInv
  <2> QED
    BY <1>6, <2>3, <2>4, <2>5 DEF PacketRead
<1>7. CASE Acknowledge
  <2>1. /\ rpc = "ack" /\ rpc' = "read" /\ index' = 0 /\ Send(<<"ACK">>) /\ block' = block + 1
        /\ UNCHANGED <<buffer, hdr, sent, line>>
    BY <1>7 DEF Acknowledge, flashing, sending
  <2>r. Received' = Received
    BY <1>t, <2>1 DEF Received
  <2>2. LineOK' /\ BufferOK'
    BY <1>0, <2>1, <2>r, BufferKept DEF LineOK
  <2>3. sent = block /\ sent < block' /\ hdr = NoHeader /\ sent <= block' /\ block' <= sent + 1
    BY <1>0, <1>t, <2>1 DEF AnswersOK
  <2>4. Acks = {}
    BY <1>0, <1>t, <2>1, <2>3 DEF AnswersOK
  <2>5. \A i, j \in Acks' : i = j
    <3>1. CASE replies' = replies
      BY <2>4, <3>1 DEF Acks
    <3>2. CASE replies' = replies \o <<"ACK">>
      <4>1. Len(replies) \in Nat /\ Len(replies') = Len(replies) + 1
            /\ \A i \in 1..Len(replies) : replies'[i] = replies[i]
        BY <1>t, <3>2
      <4>2. \A i \in Acks' : i = Len(replies) + 1
        BY <2>4, <4>1 DEF Acks
      <4> QED
        BY <4>2
    <3> QED
      BY <2>1, <3>1, <3>2 DEF Send
  <2>6. AnswersOK'
    BY <2>1, <2>3, <2>5 DEF AnswersOK
  <2> QED
    BY <2>2, <2>6 DEF OrderInv
<1>8. CASE ReadTimeout
  <2>1. rpc = "read" /\ UNCHANGED <<buffer, index, block, sent, line>>
    BY <1>8 DEF ReadTimeout, sending
  <2>r. Received' = Received
    BY <1>8, <2>1 DEF ReadTimeout, Retry, Received
  <2>2. LineOK' /\ BufferOK'
    BY <1>0, <2>1, <2>r, BufferKept DEF LineOK
  <2>3. CASE EndOfFile /\ rpc' = "done"
    <3>1. buffer[0] = EOT => sent = NBlocks + 1 /\ sent <= block
      BY <1>0, <2>1 DEF BufferOK, AnswersOK
    <3>2. buffer[0] = EOT => block = NBlocks + 1
      BY <1>t, <3>1, Sizes
    <3>4. AnswersOK'
      BY <1>0, <2>1, <2>3, <3>1, <3>2 DEF AnswersOK
    <3> QED
      BY <2>2, <3>4 DEF OrderInv
  <2>4. CASE Retry(<<>>, <<"NAK">>) /\ UNCHANGED flashing
    <3>1. /\ rpc' \in {"read", "failed"}
          /\ \E rs \in {<<>> \o <<"CAN">>, <<>> \o <<"NAK">>} : Send(rs)
      BY <2>4 DEF Retry
    <3>2. <<>> \o <<"CAN">> \in Seq({"NAK", "CAN"}) /\ <<>> \o <<"NAK">> \in Seq({"NAK", "CAN"})
      OBVIOUS
    <3>3. Acks' \subseteq Acks
      BY <1>0, <3>1, <3>2, NoAckSent
    <3>4. AnswersOK'
      BY <1>0, <2>1, <2>4, <3>1, <3>3, AnswersKept DEF flashing
    <3> QED
      BY <2>2, <3>4 DEF OrderInv
  <2> QED
    BY <1>8, <2>3, <2>4 DEF ReadTimeout
<1>9. CASE UNCHANGED vars
  <2>1. UNCHANGED <<buffer, index, rpc, block, hdr, sent, line, replies>>
    BY <1>9 DEF vars, flashing, sending
  <2>r. Received' = Received
    BY <2>1 DEF Received
  <2>2. LineOK' /\ BufferOK'
    BY <1>0, <2>1, <2>r, BufferKept DEF LineOK
  <2>3. AnswersOK'
    BY <1>0, <2>1, AnswersKept DEF Acks
  <2> QED
    BY <2>2, <2>3 DEF OrderInv
<1> QED
  BY <1>1, <1>2, <1>3, <1>4, <1>5, <1>6, <1>7, <1>8, <1>9 DEF Next, Receiver

(* Whatever arrives and whatever an overrun hits, buf_index, the block      *)
(* number and the retries stay within their bounds: no block beyond the     *)
(* sender's file is acknowledged, and a download that has not failed has    *)
(* retries left (xmodem.c).                                                 *)
THEOREM TypeCorrect == Spec => []TypeOK
<1>1. TypeInv => TypeOK
  BY DEF TypeInv
<1> QED
  BY <1>1, TypeStarts, TypeSteps, OrderStarts, OrderSteps, PTL DEF Spec

(* Whatever is lost, spoiled or repeated, the sender's end of the file is   *)
(* accepted only after every block was received and the sender is through,  *)
(* each block counted once (xmodem_receive).                                *)
THEOREM HeaderIsLast == Spec => []HeaderAfterLastBlock
<1>1. OrderInv => HeaderAfterLastBlock
  BY DEF OrderInv, AnswersOK, HeaderAfterLastBlock, Mistaken
<1> QED
  BY <1>1, TypeStarts, TypeSteps, OrderStarts, OrderSteps, PTL DEF Spec

-----------------------------------------------------------------------------
(* The data in flash.                                                       *)

LEMMA EvenOdd ==
    ASSUME NEW n \in Int
    PROVE  /\ n % 2 \in {0, 1}
           /\ n % 2 = 1 => (n - 1) % 2 = 0 /\ (n + 1) % 2 = 0
           /\ n % 2 = 0 => (n - 1) % 2 = 1 /\ (n + 1) % 2 = 1 /\ (n - 2) % 2 = 0
OBVIOUS

(* Receiving the block that completes a page writes that page, and no other *)
(* page changes when a block is received.                                   *)
LEMMA PacketStored ==
    ASSUME TypeOK, OrderInv, DataOK, rpc = "read", rpc' = "ack", block <= NBlocks,
           UNCHANGED <<block, hdr>>, ProcessPacket(block)
    PROVE  DataOK'
<1>1. /\ block \in 1..NBlocks /\ block - 1 \in Int /\ half \in [0..1 -> Block]
      /\ bank \in [Place -> Block \cup {Erased, Mixed}]
  BY Sizes DEF TypeOK
<1>2. Received = block - 1 /\ Received' = block
  BY DEF Received
<1>3. /\ block % 2 = 0 => half[0] = block - 1
      /\ \A p \in Place : bank[p] = IF p >= 0 /\ p < (block - 1) - ((block - 1) % 2)
                                    THEN p + 1 ELSE Erased
      /\ hdr = NoHeader
  BY <1>2 DEF DataOK, OrderInv, AnswersOK
<1>4. CASE block % 2 = 1 /\ half' = [half EXCEPT ![0] = block] /\ bank' = bank
  <2>1. (block - 1) % 2 = 0 /\ (block - 1) - ((block - 1) % 2) = block - (block % 2)
    BY <1>1, <1>4, EvenOdd
  <2>2. half'[0] = block
    BY <1>1, <1>4
  <2>3. \A p \in Place : bank'[p] = IF p >= 0 /\ p < block - (block % 2) THEN p + 1 ELSE Erased
    BY <1>3, <1>4, <2>1
  <2> QED
    BY <1>2, <1>3, <2>2, <2>3 DEF DataOK
<1>5. CASE /\ block % 2 = 0 /\ half' = [half EXCEPT ![1] = block]
           /\ WritePage(block - 2, [half EXCEPT ![1] = block])
  <2> DEFINE h == [half EXCEPT ![1] = block]
             p0 == block - 2
  <2>1. h[0] = block - 1 /\ h[1] = block
    BY <1>1, <1>3, <1>5
  <2>2. /\ (block - 1) % 2 = 1 /\ (block - 1) - ((block - 1) % 2) = p0 /\ p0 % 2 = 0
        /\ block - (block % 2) = p0 + 2
    BY <1>1, <1>5, EvenOdd
  <2>3. p0 \in Place /\ p0 + 1 \in Place /\ p0 >= 0 /\ p0 \in Int /\ p0 + 2 = block
    BY <1>1, <1>5, Sizes DEF Place
  <2>4. WritePage(p0, h)
    BY <1>5
  <2> HIDE DEF h, p0
  <2>5. bank' = [bank EXCEPT ![p0] = Put(@, h[0]), ![p0 + 1] = Put(@, h[1])]
    BY <2>2, <2>3, <2>4, EvenPage
  <2>6. \A p \in Place : bank[p] = IF p >= 0 /\ p < p0 THEN p + 1 ELSE Erased
    BY <1>3, <2>2
  <2>7. bank[p0] = Erased /\ bank[p0 + 1] = Erased
    BY <2>3, <2>6
  <2>8. Put(Erased, h[0]) = p0 + 1 /\ Put(Erased, h[1]) = p0 + 2
    BY <2>1, <2>3, <1>1 DEF Put
  <2>9. bank'[p0] = p0 + 1 /\ bank'[p0 + 1] = p0 + 2
        /\ \A p \in Place : p # p0 /\ p # p0 + 1 => bank'[p] = bank[p]
    BY <1>1, <2>3, <2>5, <2>7, <2>8
  <2>10. \A p \in Place : bank'[p] = IF p >= 0 /\ p < p0 + 2 THEN p + 1 ELSE Erased
    <3>1. TAKE p \in Place
    <3>2. p \in Int
      BY Sizes DEF Place
    <3>3. CASE p = p0 \/ p = p0 + 1
      BY <2>3, <2>9, <3>3
    <3>4. CASE p # p0 /\ p # p0 + 1
      BY <2>3, <2>6, <2>9, <3>2, <3>4
    <3> QED
      BY <3>3, <3>4
  <2>11. block % 2 # 1
    BY <1>5
  <2> QED
    BY <1>2, <1>3, <2>2, <2>10, <2>11 DEF DataOK
<1> QED
  BY <1>4, <1>5 DEF ProcessPacket

(* The rest of the state has no say in where the data is.                   *)
LEMMA DataKept ==
    ASSUME DataOK, UNCHANGED <<block, half, bank, hdr>>,
           rpc' = rpc \/ (rpc = "read" /\ rpc' = "failed")
    PROVE  DataOK'
<1>1. Received' = Received
  BY DEF Received
<1> QED
  BY <1>1 DEF DataOK

LEMMA DataStarts == Init => DataOK
<1> SUFFICES ASSUME Init PROVE DataOK
  OBVIOUS
<1>1. Received = 0 /\ rpc = "read" /\ block = 1 /\ hdr = NoHeader
  BY DEF Init, Received
<1>2. \A p \in Place : bank[p] = Erased /\ p \in Int
  BY Sizes DEF Init, Place
<1>3. \A p \in Place : ~(p >= 0 /\ p < Received - (Received % 2))
  BY <1>1, <1>2
<1> QED
  BY <1>1, <1>2, <1>3 DEF DataOK

LEMMA DataGoesOn ==
    ASSUME Harmless
    PROVE  TypeInv /\ OrderInv /\ DataOK /\ [Next]_vars => DataInv'
<1> SUFFICES ASSUME TypeInv, OrderInv, DataOK, [Next]_vars PROVE Dangling' \/ DataOK'
  BY DEF DataInv
<1>0. TypeOK /\ BufferOK /\ AnswersOK /\ (rpc = "ack" => block <= NBlocks)
  BY DEF TypeInv, OrderInv
<1>1. CASE ByteArrives \/ ByteCorrupted
  <2>1. UNCHANGED <<rpc, block, bank, hdr>>
    BY <1>1 DEF ByteArrives, ByteCorrupted
  <2>2. PICK b : Arrive(b)
    BY <1>1 DEF ByteArrives, ByteCorrupted
  <2>3. half' = half
    BY <2>2 DEF Arrive, Harmless
  <2> QED
    BY <2>1, <2>3, DataKept
<1>2. CASE ByteLost \/ ReplyLost \/ SenderAnswers \/ SenderStops \/ UNCHANGED vars
  <2>1. UNCHANGED <<rpc, block, half, bank, hdr>>
    BY <1>2 DEF ByteLost, ReplyLost, SenderAnswers, SenderStops, vars, flashing
  <2> QED
    BY <2>1, DataKept
<1>3. CASE PacketRead
  <2>1. rpc = "read" /\ index = PacketLen /\ UNCHANGED <<block, hdr>>
    BY <1>3 DEF PacketRead
  <2>2. CASE /\ NumberOk(buffer[1]) /\ ChecksumOk(buffer[2])
             /\ ProcessPacket(BlockIn(buffer[2])) /\ rpc' = "ack"
    <3>1. buffer[2] = Data(block) /\ block <= NBlocks
      BY <1>0, <2>1, <2>2, AcceptedIsCurrent
    <3>2. ProcessPacket(block)
      BY <2>2, <3>1, BlockOfData
    <3> QED
      BY <1>0, <2>1, <2>2, <3>1, <3>2, PacketStored
  <2>3. CASE Retry(<<"NAK">>, <<>>) /\ UNCHANGED <<half, bank>>
    <3>1. rpc' \in {"read", "failed"}
      BY <2>3 DEF Retry
    <3> QED
      BY <2>1, <2>3, <3>1, DataKept
  <2>4. CASE UNCHANGED <<rpc, half, bank>>
    BY <2>1, <2>4, DataKept
  <2> QED
    BY <1>3, <2>2, <2>3, <2>4 DEF PacketRead
<1>4. CASE Acknowledge
  <2>1. /\ rpc = "ack" /\ rpc' = "read" /\ block' = block + 1 /\ UNCHANGED <<half, bank, hdr>>
        /\ block \in Int
    BY <1>0, <1>4, Sizes DEF Acknowledge, flashing, TypeOK
  <2>2. Received' = Received
    BY <2>1 DEF Received
  <2>3. (block + 1) % 2 = 0 => block % 2 = 1
    BY <2>1, EvenOdd
  <2>4. block' - 1 = block
    BY <2>1
  <2>5. rpc' = "read" /\ block' % 2 = 0 => half'[0] = block' - 1
    BY <2>1, <2>3, <2>4 DEF DataOK
  <2> QED
    BY <2>1, <2>2, <2>5 DEF DataOK
<1>5. CASE ReadTimeout
  <2>1. rpc = "read" /\ UNCHANGED block
    BY <1>5 DEF ReadTimeout
  <2>2. CASE EndOfFile /\ rpc' = "done" /\ CreateHeader(block - 1)
    <3>1. CASE block % 2 = 0
      BY <2>1, <2>2, <3>1 DEF Dangling
    <3>2. CASE block % 2 # 0
      <4>1. block \in Int /\ (block - 1) % 2 # 1
        BY <1>0, <3>2, EvenOdd DEF TypeOK
      <4>2. UNCHANGED <<half, bank>> /\ hdr' = (block - 1) - 2
        BY <2>2, <4>1 DEF CreateHeader
      <4>3. Received' = Received /\ Received = block - 1
        BY <2>1, <2>2 DEF Received
      <4> QED
        BY <2>1, <2>2, <4>2, <4>3 DEF DataOK
    <3> QED
      BY <3>1, <3>2
  <2>3. CASE Retry(<<>>, <<"NAK">>) /\ UNCHANGED flashing
    <3>1. rpc' \in {"read", "failed"} /\ UNCHANGED <<half, bank, hdr>>
      BY <2>3 DEF Retry, flashing
    <3> QED
      BY <2>1, <3>1, DataKept
  <2> QED
    BY <1>5, <2>2, <2>3 DEF ReadTimeout
<1> QED
  BY <1>1, <1>2, <1>3, <1>4, <1>5 DEF Next, Receiver

LEMMA DataSteps ==
    ASSUME Harmless
    PROVE  TypeInv /\ OrderInv /\ DataInv /\ [Next]_vars => DataInv'
<1> SUFFICES ASSUME TypeInv, OrderInv, DataInv, [Next]_vars PROVE DataInv'
  OBVIOUS
<1>1. CASE Dangling
  <2>1. rpc = "done" /\ block % 2 = 0
    BY <1>1 DEF Dangling
  <2>2. UNCHANGED <<rpc, block>>
    BY <2>1 DEF Next, ByteArrives, ByteCorrupted, ByteLost, ReplyLost, SenderAnswers, SenderStops,
                Receiver, PacketRead, Acknowledge, ReadTimeout, vars
  <2> QED
    BY <2>1, <2>2 DEF DataInv, Dangling
<1>2. CASE DataOK
  BY <1>2, DataGoesOn
<1> QED
  BY <1>1, <1>2 DEF DataInv

(* Where flash_buffer is not behind the receive buffer, no repeated, lost   *)
(* or spoiled packet puts a block where another belongs (process_packet),   *)
(* however the file ends; only a dangling block's page does                 *)
(* (create_fota_header).                                                    *)
THEOREM BlocksStayInPlace ==
    ASSUME Harmless
    PROVE  Spec => []BlocksInPlace
<1>1. DataInv => BlocksInPlace
  BY DEF DataInv, DataOK, BlocksInPlace
<1>2. Init => DataInv
  BY DataStarts DEF DataInv
<1> QED
  BY <1>1, <1>2, TypeStarts, TypeSteps, OrderStarts, OrderSteps, DataSteps, PTL DEF Spec

(* There too, the image a header covers is the sender's data, block for     *)
(* block, unless a block was dangling (create_fota_header).                 *)
THEOREM HeaderIsRight ==
    ASSUME Harmless
    PROVE  Spec => []HeaderCoversData
<1>1. TypeInv /\ OrderInv /\ DataInv => HeaderCoversData
  <2> SUFFICES ASSUME TypeInv, OrderInv, DataInv, hdr # NoHeader, ~Dangling,
                      NEW p \in 0..(hdr - 1)
               PROVE  bank[p] = p + 1
    BY DEF HeaderCoversData
  <2>1. DataOK /\ rpc = "done" /\ Received = block - 1 /\ hdr = Received - 2
    BY DEF DataInv, OrderInv, AnswersOK, Received, DataOK
  <2>2. block \in 1..(NBlocks + 1) /\ Received % 2 \in {0, 1}
    BY <2>1, EvenOdd DEF TypeInv, TypeOK
  <2>3. p \in Place /\ p >= 0 /\ p < Received - (Received % 2)
    <3> DEFINE odd == Received % 2
               n == Received
    <3>1. n \in 0..NBlocks /\ odd \in {0, 1} /\ hdr = n - 2
      BY <2>1, <2>2, Sizes
    <3> HIDE DEF odd, n
    <3>2. p \in Place /\ p >= 0 /\ p < n - odd
      BY <3>1, Sizes DEF Place
    <3> QED
      BY <3>2 DEF odd, n
  <2> QED
    BY <2>1, <2>3 DEF DataOK
<1>2. Init => DataInv
  BY DataStarts DEF DataInv
<1> QED
  BY <1>1, <1>2, TypeStarts, TypeSteps, OrderStarts, OrderSteps, DataSteps, PTL DEF Spec

=============================================================================
