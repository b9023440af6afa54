------------------------------- MODULE Xmodem -------------------------------
(***************************************************************************)
(* The bootloader's serial download (xmodem.c): a receive interrupt puts   *)
(* bytes into a buffer, the main loop waits for whole packets, answers and *)
(* flashes.  The sender is a standard XMODEM sender; the line may lose and *)
(* corrupt bytes and lose answers.                                         *)
(*                                                                         *)
(* A packet is PacketLen bytes: SOH, the block's number (which stands for  *)
(* number and complement) and its data (for 128 bytes and the checksum);   *)
(* of the last two what arrives alone may be only a part.  A spoiled byte  *)
(* may be EOT, but is no SOH.                                              *)
(* The upgrade bank is counted in blocks; a flash page holds two.          *)
(***************************************************************************)
EXTENDS Integers, Sequences

CONSTANTS
    NBlocks,     \* blocks in the sender's file
    PacketLen,   \* PACKET_SIZE + 4, here 3
    NumMod,      \* the number in a packet is a uint8_t: 256
    IndexMod,    \* buf_index is a uint8_t: it wraps between one and two packets
    MaxRetries,  \* MAX_RETRIES
    Prompt,      \* the sender always answers within the second of serial_read
    GivesUp,     \* the sender may stop at any moment
    MaxFaults,   \* bound: bytes or answers lost or corrupted
    MaxReplies,  \* bound: answers the sender has not read
    Behind,      \* what the linker may have put behind buffer
    NoHeader     \* the FOTA bank information is erased

ASSUME XmodemAssumption ==
    /\ NBlocks \in Nat \ {0} /\ PacketLen = 3
    /\ NumMod \in Nat /\ NumMod > 1
    /\ IndexMod \in Nat /\ PacketLen < IndexMod /\ IndexMod < 2 * PacketLen
    /\ MaxRetries \in Nat \ {0} /\ MaxReplies \in Nat \ {0} /\ MaxFaults \in Nat
    /\ {Prompt, GivesUp} \subseteq BOOLEAN
    /\ Behind # {} /\ Behind \subseteq {"buf_index", "flash_buffer", "else"}

VARIABLES
    buffer,      \* buffer, its PacketLen bytes
    index,       \* buf_index
    rpc,         \* the receiver: "read", "ack", "done" or "failed"
    block,       \* block_num
    retries,
    half,        \* flash_buffer: the blocks in its two halves
    bank,        \* the upgrade bank in flash
    hdr,         \* blocks the FOTA bank information covers
    sent,        \* the sender: block it is at; NBlocks + 1 for EOT
    sender,      \* "idle", "sending" or "stopped"
    line,        \* bytes on their way to the receiver
    replies,     \* bytes on their way to the sender
    faults       \* faults so far

flashing == <<half, bank, hdr>>
sending == <<sent, sender>>
vars == <<buffer, index, rpc, block, retries, flashing, sending, line, replies, faults>>

Num(n) == <<"num", n>>
Data(n) == <<"data", n>>
Garbage == <<"garbage", 0>>
SOH == <<"SOH", 0>>
EOT == <<"EOT", 0>>
Bytes == {SOH, EOT, Garbage} \cup {Num(n) : n \in 1..NBlocks} \cup {Data(n) : n \in 1..NBlocks}

Packet(n) == IF n <= NBlocks THEN <<SOH, Num(n), Data(n)>> ELSE <<EOT>>

(* Places of blocks in flash, from the page below the bank on; what is      *)
(* there, or in a half of flash_buffer: a block, or none of them.           *)
Place == -2..(NBlocks + 1)
Blank == 0
Erased == -1
Mixed == -2
Block == Blank..NBlocks

TypeOK ==
    /\ buffer \in [0..(PacketLen - 1) -> Bytes]
    /\ index \in 0..(IndexMod - 1)
    /\ rpc \in {"read", "ack", "done", "failed"}
    /\ block \in 1..(NBlocks + 1)
    /\ retries \in 0..MaxRetries /\ (rpc # "failed" => retries < MaxRetries)
    /\ half \in [0..1 -> Block]
    /\ bank \in [Place -> Block \cup {Erased, Mixed}]
    /\ hdr \in {NoHeader} \cup (-2..NBlocks)
    /\ sent \in 1..(NBlocks + 1)
    /\ sender \in {"idle", "sending", "stopped"}
    /\ line \in Seq(Bytes) /\ replies \in Seq({"ACK", "NAK", "CAN"})
    /\ Len(replies) <= MaxReplies /\ faults \in 0..MaxFaults

(* xmodem_receive begins with a NAK; the bank is erased.                    *)
Init ==
    /\ buffer = [k \in 0..(PacketLen - 1) |-> Garbage] /\ index = 0
    /\ rpc = "read" /\ block = 1 /\ retries = 0
    /\ half = [k \in 0..1 |-> Blank] /\ bank = [p \in Place |-> Erased] /\ hdr = NoHeader
    /\ sent = 1 /\ sender = "idle" /\ line = <<>>
    /\ replies = <<"NAK">> /\ faults = 0

-----------------------------------------------------------------------------
(* The line and the sender.                                                 *)

(* xmodem_byte_rx: after a whole packet it writes behind buffer.            *)
Arrive(b) ==
    \/ /\ index < PacketLen
       /\ buffer' = [buffer EXCEPT ![index] = b] /\ index' = index + 1 /\ UNCHANGED half
    \/ /\ index >= PacketLen
       /\ \E hit \in Behind :
            /\ half' \in IF hit = "flash_buffer" THEN {[half EXCEPT ![k] = Blank] : k \in 0..1}
                                                ELSE {half}
            /\ index' \in IF hit = "buf_index" THEN 0..(IndexMod - 1)
                                              ELSE {(index + 1) % IndexMod}
       /\ UNCHANGED buffer

(* After create_fota_header the chip is reset: what arrives then is lost.   *)
ByteArrives ==
    /\ rpc # "done" /\ line # <<>> /\ Arrive(Head(line)) /\ line' = Tail(line)
    /\ UNCHANGED <<rpc, block, retries, bank, hdr, sending, replies, faults>>

Fault == faults < MaxFaults /\ faults' = faults + 1

ByteCorrupted ==
    /\ Fault /\ rpc # "done" /\ line # <<>> /\ Arrive(Garbage) /\ line' = Tail(line)
    /\ UNCHANGED <<rpc, block, retries, bank, hdr, sending, replies>>

ByteLost ==
    /\ Fault /\ line # <<>> /\ line' = Tail(line)
    /\ UNCHANGED <<buffer, index, rpc, block, retries, flashing, sending, replies>>

ReplyLost ==
    /\ Fault /\ replies # <<>> /\ replies' = Tail(replies)
    /\ UNCHANGED <<buffer, index, rpc, block, retries, flashing, sending, line>>

(* The sender reads an answer; it may purge those that came with it.        *)
SenderAnswers ==
    /\ sender # "stopped" /\ line = <<>> /\ replies # <<>>
    /\ replies' \in {Tail(replies), <<>>}
    /\ \/ /\ Head(replies) = "NAK"
          /\ sender' = "sending" /\ line' = Packet(sent) /\ UNCHANGED sent
       \/ /\ Head(replies) = "ACK" /\ sender = "sending" /\ sent <= NBlocks
          /\ sent' = sent + 1 /\ line' = Packet(sent + 1) /\ UNCHANGED sender
       \/ /\ Head(replies) = "CAN" \/ (Head(replies) = "ACK" /\ sent > NBlocks)
          /\ sender' = "stopped" /\ UNCHANGED <<sent, line>>
    /\ UNCHANGED <<buffer, index, rpc, block, retries, flashing, faults>>

SenderStops ==
    /\ GivesUp /\ sender' = "stopped" /\ line' = <<>>
    /\ UNCHANGED <<buffer, index, rpc, block, retries, flashing, sent, replies, faults>>

-----------------------------------------------------------------------------
(* The receiver.                                                            *)
Send(rs) == replies' = IF Len(replies \o rs) <= MaxReplies THEN replies \o rs ELSE replies

\* Plausible bug: one retry too many.
TooManyLate(n) == n > MaxRetries

TooMany(n) == n >= MaxRetries

(* One more retry; the last one ends in CAN.                                *)
Retry(before, after) ==
    /\ retries' = retries + 1
    /\ IF TooMany(retries + 1) THEN rpc' = "failed" /\ Send(before \o <<"CAN">>)
                              ELSE rpc' = "read" /\ Send(before \o after)

(* flash_write_page of both halves; at an odd place the chip goes on in the *)
(* next page or wraps around in the same.                                   *)
WritePage(p, h) ==
    \E q \in {p + 1} \cup (IF p % 2 = 1 THEN {p - 1} ELSE {}) :
        LET put(old, new) == IF old \in {Erased, new} THEN new ELSE Mixed
        IN  bank' = [bank EXCEPT ![p] = put(@, h[0]), ![q] = put(@, h[1])]

(* process_packet: an odd block waits for the even one.                     *)
ProcessPacket(n) ==
    \/ /\ block % 2 = 1
       /\ half' = [half EXCEPT ![0] = n] /\ UNCHANGED bank
    \/ /\ block % 2 = 0
       /\ half' = [half EXCEPT ![1] = n] /\ WritePage(block - 2, [half EXCEPT ![1] = n])

\* Plausible bug: the block's number not compared.
NumberNotChecked(b) == TRUE

NumberOk(b) == \E n \in 1..NBlocks : b = Num(n) /\ n % NumMod = block % NumMod

\* Plausible bug: the checksum not compared.
ChecksumNotChecked(b) == TRUE

ChecksumOk(b) == b \in {Data(n) : n \in 1..NBlocks}

BlockIn(b) == IF b = Garbage THEN Blank ELSE b[2]

(* A whole packet was in the buffer: it is accepted, or answered with a NAK *)
(* that counts as a retry only if the checksum was wrong.                   *)
PacketRead ==
    /\ rpc = "read" /\ index = PacketLen
    /\ \/ /\ buffer[0] = SOH /\ NumberOk(buffer[1]) /\ ChecksumOk(buffer[2])
          /\ ProcessPacket(BlockIn(buffer[2]))
          /\ rpc' = "ack" /\ UNCHANGED <<retries, replies>>
       \/ /\ buffer[0] = SOH /\ NumberOk(buffer[1]) /\ ~ChecksumOk(buffer[2])
          /\ Retry(<<"NAK">>, <<>>) /\ UNCHANGED <<half, bank>>
       \/ /\ buffer[0] # SOH \/ ~NumberOk(buffer[1])
          /\ Send(<<"NAK">>) /\ UNCHANGED <<rpc, retries, half, bank>>
    /\ UNCHANGED <<buffer, index, block, hdr, sending, line, faults>>

Acknowledge ==
    /\ rpc = "ack" /\ rpc' = "read"
    /\ index' = 0 /\ Send(<<"ACK">>)
    /\ block' = block + 1 /\ retries' = 0
    /\ UNCHANGED <<buffer, flashing, sending, line, faults>>

(* create_fota_header, called with the number of blocks received.           *)
CreateHeader(n) ==
    /\ IF n % 2 = 1 THEN WritePage(n - 2, half) ELSE UNCHANGED bank
    /\ hdr' = n - 2 /\ UNCHANGED half

TimedOut == Prompt => line = <<>> /\ (replies = <<>> \/ sender = "stopped")

(* What may be a single byte 0x04: EOT, a spoiled byte, one of the data, or *)
(* the number or complement of a block such as the fourth.                  *)
MayBeEot(b) ==
    /\ b # SOH
    /\ \A n \in 1..NBlocks : b = Num(n) => n % NumMod \in {4 % NumMod, (NumMod - 5) % NumMod}

EndOfFile == index = 1 /\ MayBeEot(buffer[0])

(* serial_read gave up after a second: the end of the file, or an error.    *)
ReadTimeout ==
    /\ rpc = "read" /\ index # PacketLen /\ TimedOut
    /\ \/ /\ EndOfFile
          /\ rpc' = "done" /\ Send(<<"ACK">>) /\ CreateHeader(block - 1) /\ UNCHANGED retries
       \/ /\ ~(index = 1 /\ buffer[0] = EOT)
          /\ Retry(<<>>, <<"NAK">>) /\ UNCHANGED flashing
    /\ UNCHANGED <<buffer, index, block, sending, line, faults>>

Receiver == PacketRead \/ Acknowledge \/ ReadTimeout

Next ==
    \/ ByteArrives \/ ByteCorrupted \/ ByteLost \/ ReplyLost
    \/ SenderAnswers \/ SenderStops \/ Receiver

Spec == Init /\ [][Next]_vars

(* Interrupts are served, the main loop runs, and the sender answers.       *)
FairSpec == Spec /\ WF_vars(ByteArrives) /\ WF_vars(Receiver) /\ WF_vars(SenderAnswers)

-----------------------------------------------------------------------------
(* "Was there a single block dangling at the end": its page is written at   *)
(* an odd place, over the block before.                                     *)
Dangling == rpc = "done" /\ block % 2 = 0

(* The file was ended by a byte that was not the sender's EOT.              *)
Mistaken == rpc = "done" /\ buffer[0] # EOT

(* Whatever happens on the line, process_packet puts no block where another *)
(* belongs: it takes create_fota_header and a dangling block for that.      *)
BlocksInPlace == ~Dangling => \A p \in Place : bank[p] \in {Erased, p + 1}

(* The image a header covers is data the sender sent, in its order, however *)
(* the file ended, if create_fota_header found no block dangling.           *)
HeaderCoversData == hdr # NoHeader /\ ~Dangling => \A p \in 0..(hdr - 1) : bank[p] = p + 1

(* The sender's EOT finds every block received: the receiver has counted    *)
(* none twice and answered for none it does not have.                       *)
HeaderAfterLastBlock ==
    hdr # NoHeader /\ ~Mistaken => block = NBlocks + 1 /\ sent = NBlocks + 1

(* On a clean line the file arrives.                                        *)
FileArrives == <>(hdr # NoHeader)

=============================================================================
