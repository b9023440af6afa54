----------------------------- MODULE OtaClient -----------------------------
(***************************************************************************)
(* The over-the-air upgrade client                                         *)
(* (tr_over_the_air_bootloading_client.c): one action per command handler, *)
(* alarm and stack callback, together with its server, the network, the    *)
(* attributes kept in NVRAM and the bootloader's check of a new image.     *)
(*                                                                         *)
(* Everything in the client runs to completion on the stack's scheduler,   *)
(* so a step is a whole handler; a reset may fall between any two.         *)
(* Responses are in flight in a set: they come in any order, or never.     *)
(***************************************************************************)
EXTENDS OtaFlash, FiniteSets

CONSTANTS
    MaxData,     \* max_data_size: file bytes asked for per block
    FileSize,    \* size of a file: here all versions have the same
    Tagged,      \* whether the files carry an image integrity code tag
    MaxRetries,  \* ZCL_OTA_MAX_RESEND_RETRIES
    NoVersion,   \* ZB_ZCL_OTA_UPGRADE_DOWNLOADED_FILE_VERSION_DEF_VALUE
    Factory,     \* the version the device is shipped with
    NoHeader,    \* no FOTA bank information the bootloader would act on
    NoBlock,     \* no deferred Image Block Response
    MaxFlight,   \* bound: responses in flight
    MaxAcks,     \* bound: block requests awaiting their send status
    MaxResets    \* bound: resets

CONSTANT Environments   \* those to look at, each the set of what it does

Habits ==
    {"dups",      \* the network duplicates responses (a second image
                  \* response only comes with "notify")
     "late_end",  \* an Upgrade End Response arrives during a later download
     "waits",     \* the server answers blocks with WAIT_FOR_DATA
     "aborts",    \* ... with ABORT, or a default response NO_IMAGE_AVAILABLE
     "notify",    \* it sends Image Notify commands
     "versions",  \* it has more than one version
     "small"}     \* it has blocks of one byte

ASSUME ClientAssumption ==
    /\ FileSize \in 1..BankSize
    /\ MaxData \in 1..PageSize /\ MaxRetries \in Nat \ {0}
    /\ MaxFlight \in Nat \ {0} /\ {MaxAcks, MaxResets} \subseteq Nat
    /\ NoVersion \notin Versions /\ Factory \notin Versions
    /\ Versions # {} /\ Junk \notin Versions \cup {Factory}
    /\ Environments \subseteq SUBSET Habits /\ Tagged \in BOOLEAN

VARIABLES
    status,      \* attribute IMAGE_UPGRADE_STATUS
    offset,      \* attribute FILE_OFFSET
    nv,          \* the two attributes as they are in NVRAM
    dirty,       \* a save of the attributes is scheduled
    cstate,      \* g_ota_upgrade_client_state
    dfv,         \* ota_dfv: the file version being downloaded
    reqSent,     \* img_block_req_sent
    pending,     \* pending_img_block_resp
    retries,     \* resend_retries
    known,       \* tr_ota_server_info holds a server
    due,         \* alarms and callbacks scheduled
    fota,        \* the FOTA header in flash: the bytes its checksum is of
    fw,          \* what runs in the application slot
    rsp,         \* responses in flight to the client
    acks,        \* block requests awaiting their send status
    resets,      \* resets so far
    env          \* the environment, chosen once

attrVars == <<status, offset, nv, dirty>>
blockVars == <<dfv, reqSent, pending, retries>>
bootVars == <<fota, fw, resets, known, env>>
vars == <<flashVars, attrVars, cstate, blockVars, due, bootVars, rsp, acks>>

Def == -1        \* ZB_ZCL_OTA_UPGRADE_FILE_OFFSET_DEF_VALUE, 0xffffffff

Status == {"normal", "downloading", "downloaded", "waiting_upgrade", "count_down"}
Due == {"init", "match", "qnir", "resend", "finish"}
Response ==
    [type : {"image"}, ver : Versions]
    \cup [type : {"data"}, ver : Versions, off : 0..(FileSize - 1)]
    \cup [type : {"end"}, ver : Versions, wait : BOOLEAN]
    \cup [type : {"wait", "abort", "no_image"}]

Image(bk) == [a \in 0..(FileSize - 1) |-> bk[a]]
FileImage(v) == [a \in 0..(FileSize - 1) |-> FileByte(v, a)]

TypeOK ==
    /\ FlashTypeOK
    /\ status \in Status
    /\ offset \in Int /\ offset <= BankSize
    /\ nv.status \in Status /\ nv.offset \in Int
    /\ dirty \in BOOLEAN /\ known \in BOOLEAN /\ reqSent \in BOOLEAN
    /\ cstate \in {"idle", "in_progress", "resume"}
    /\ dfv \in Versions \cup {NoVersion}
    /\ pending \in Response \cup {NoBlock}
    /\ retries \in 0..(MaxRetries - 1) /\ acks \in 0..MaxAcks /\ resets \in 0..MaxResets
    /\ due \subseteq Due
    /\ rsp \subseteq Response /\ Cardinality(rsp) <= MaxFlight
    /\ fota = NoHeader \/ fota \in [0..(FileSize - 1) -> Cell]
    /\ fw \in Versions \cup {Factory, Junk} /\ env \in Environments

Init ==
    /\ RamInit
    /\ bank = [a \in Bank |-> Erased]
    /\ status = "normal" /\ offset = Def
    /\ nv = [status |-> "normal", offset |-> Def] /\ dirty = FALSE
    /\ cstate = "idle" /\ dfv = NoVersion
    /\ reqSent = FALSE /\ pending = NoBlock /\ retries = 0
    /\ due = {} /\ known = FALSE /\ fota = NoHeader /\ fw = Factory
    /\ rsp = {} /\ acks = 0 /\ resets = 0 /\ env \in Environments

-----------------------------------------------------------------------------
(* The server and the network: what may be in flight once a request is      *)
(* sent, and once m is delivered.  One response overtakes another only in a *)
(* network that duplicates or delays them.                                  *)
InFlight == IF {"dups", "late_end"} \cap env # {} THEN MaxFlight ELSE 1

WithReply(base, answers) ==
    {base} \cup {r \in {base \cup {a} : a \in answers} : Cardinality(r) <= InFlight}

AfterDelivery(m) == {rsp \ {m}} \cup (IF "dups" \in env /\ m.type # "image" THEN {rsp} ELSE {})

Offered == IF "versions" \in env THEN Versions ELSE {CHOOSE v \in Versions : TRUE}

ImageAnswers == [type : {"image"}, ver : Offered]

RefusedAnswers == IF "aborts" \in env THEN {[type |-> "no_image"]} ELSE {}

BlockAnswers(v, o) ==
    (IF v \in Versions /\ o \in 0..(FileSize - 1) THEN {[type |-> "data", ver |-> v, off |-> o]} ELSE {})
    \cup (IF "waits" \in env THEN {[type |-> "wait"]} ELSE {})
    \cup (IF "aborts" \in env THEN {[type |-> "abort"]} ELSE {}) \cup RefusedAnswers

EndAnswers(v) == {[type |-> "end", ver |-> v, wait |-> w] : w \in BOOLEAN}

(* Told to wait, the client is sent a second Upgrade End Response.          *)
ServerUpgradesNow ==
    /\ status = "waiting_upgrade" /\ dfv # NoVersion
    /\ rsp' \in WithReply(rsp, {[type |-> "end", ver |-> dfv, wait |-> FALSE]}) \ {rsp}
    /\ UNCHANGED <<flashVars, attrVars, cstate, blockVars, due, bootVars, acks>>

-----------------------------------------------------------------------------
(* Attribute writes schedule a save two seconds later or, when a page was   *)
(* flashed, at once; either way other handlers or a reset may come first.   *)
SetStatus(s) == status' = s /\ dirty' = TRUE

(* zb_zcl_ota_upgrade_send_block_request, the requests in flight being a.   *)
SendBlockRequest(v, o, base, a) ==
    /\ cstate' = "in_progress" /\ reqSent' = TRUE
    /\ acks' = IF a < MaxAcks THEN a + 1 ELSE a
    /\ rsp' \in WithReply(base, BlockAnswers(v, o))

\* Plausible bug: the query alarm forgotten when a download is given up.
AbortSilently(base) ==
    /\ SetStatus("normal") /\ offset' = Def
    /\ dfv' = NoVersion /\ reqSent' = FALSE /\ pending' = NoBlock
    /\ retries' = 0 /\ due' = due \ {"resend"}
    /\ rsp' = base
    /\ UNCHANGED <<nv, cstate>>

(* zcl_ota_abort.  Called from the handler of the deferred block it frees   *)
(* the buffer its caller goes on using: buffers are not modelled.           *)
Abort(base) ==
    /\ SetStatus("normal") /\ offset' = Def
    /\ dfv' = NoVersion /\ reqSent' = FALSE /\ pending' = NoBlock
    /\ retries' = 0 /\ due' = (due \ {"resend"}) \cup {"qnir"}
    /\ rsp' = base
    /\ UNCHANGED <<nv, cstate>>

\* Plausible bug: the integrity code not looked at.
VerifyNothing(bk) == TRUE

(* tr_find_tag_header: the file header at the start of the bank leads to    *)
(* the upgrade image's tag and that to the integrity code's.  Programmed    *)
(* twice, headers and tags of two versions still read as such.              *)
ImageTagFound(bk) == bk[0] # Erased
IntegrityTagFound(bk) == Tagged /\ ImageTagFound(bk) /\ bk[FileSize - 1] # Erased

(* zb_osif_ota_verify_integrity: without a tag to compare with, all is well.*)
VerifyOk(bk) ==
    IntegrityTagFound(bk) => \E v \in Versions : Image(bk) = FileImage(v)

-----------------------------------------------------------------------------
(* Joining and finding the server.                                          *)

(* A join or rejoin of the network: discovery starts in 15 seconds.         *)
Joined ==
    /\ "init" \notin due
    /\ due' = due \cup {"init"}
    /\ UNCHANGED <<flashVars, attrVars, cstate, blockVars, bootVars, rsp, acks>>

(* zb_zcl_ota_upgrade_init_client: the match descriptor request goes out.   *)
InitClient ==
    /\ "init" \in due
    /\ due' = (due \ {"init"}) \cup {"match"}
    /\ cstate' = IF status = "downloading" /\ cstate = "idle" THEN "resume" ELSE cstate
    /\ UNCHANGED <<flashVars, attrVars, blockVars, bootVars, rsp, acks>>

(* Its answer, if a server has one.                                         *)
ServerNotFound ==
    /\ "match" \in due
    /\ due' = due \ {"match"}
    /\ UNCHANGED <<flashVars, attrVars, cstate, blockVars, bootVars, rsp, acks>>

(* zb_zcl_ota_upgrade_start_client *)
StartClient ==
    /\ "match" \in due
    /\ IF status = "downloading" THEN UNCHANGED <<status, dirty>> ELSE SetStatus("normal")
    /\ due' = (due \ {"match"}) \cup {"qnir"}
    /\ known' = TRUE
    /\ UNCHANGED <<flashVars, offset, nv, cstate, blockVars, fota, fw, resets, env, rsp, acks>>

(* The query alarm, minutes to hours after it was set: the answer to the    *)
(* query before is no longer in flight, and the attributes are saved.       *)
RequestServer ==
    /\ "qnir" \in due /\ ~dirty /\ rsp \cap ImageAnswers = {}
    /\ IF status = "normal" \/ cstate = "resume"
       THEN rsp' \in WithReply(rsp, ImageAnswers \cup RefusedAnswers)
       ELSE rsp' = rsp
    /\ UNCHANGED <<flashVars, attrVars, cstate, blockVars, due, bootVars, acks>>

(* image_notify_handler, for a command that concerns this device.           *)
ImageNotify ==
    /\ "notify" \in env
    /\ status = "normal" \/ cstate = "resume"
    /\ due' = due \cup {"qnir"}
    /\ rsp' \in WithReply(rsp, ImageAnswers)
    /\ UNCHANGED <<flashVars, attrVars, cstate, blockVars, bootVars, acks>>

\* Plausible bug: the offset not taken back to a page boundary.
ResumeOffsetExact == offset

ResumeOffset == RoundDown(offset)

(* query_next_image_resp_handler: another version is offered.  Whatever the *)
(* status, a download starts over an erased bank, or resumes.               *)
NextImageResp ==
    \E m \in rsp, base \in SUBSET rsp :
        /\ m.type = "image" /\ base \in AfterDelivery(m) /\ m.ver # fw
        /\ LET o == IF cstate = "resume" THEN ResumeOffset ELSE 0
               left == IF "late_end" \in env THEN base ELSE {r \in base : r.type # "end"}
           IN  /\ IF cstate = "resume" THEN SetWriteAddr(o) ELSE EraseFw
               /\ offset' = o
               /\ SendBlockRequest(m.ver, o, left, acks)
        /\ SetStatus("downloading") /\ dfv' = m.ver
        /\ retries' = 0 /\ due' = (due \ {"qnir"}) \cup {"resend"}
        /\ UNCHANGED <<nv, pending, bootVars>>

(* The version running already is offered, or the answer is unusable.       *)
NextImageRefused ==
    \E m \in rsp :
        /\ m.type = "image" /\ m.ver = fw
        /\ rsp' \in AfterDelivery(m)
        /\ UNCHANGED <<flashVars, attrVars, cstate, blockVars, due, bootVars, acks>>

-----------------------------------------------------------------------------
(* Receiving blocks.                                                        *)

DataSize == IF "small" \in env THEN 1 ELSE MaxData

BlockLength(v, o) == IF o + DataSize < FileSize THEN DataSize ELSE FileSize - o

\* Plausible bug: a block accepted at any offset.
ExpectedAnyOffset(m) == m.type = "data" /\ m.ver = dfv

ExpectedBlock(m) == m.type = "data" /\ m.ver = dfv /\ m.off = offset

\* Plausible bug: nobody asks again when the next block does not come.
StoreBlockOnce(m, base, a) ==
    LET n == BlockLength(dfv, offset)
    IN  /\ offset + n < FileSize
        /\ FlashBecomes(Written(dfv, m.off, n))
        /\ offset' = offset + n /\ dirty' = TRUE
        /\ SendBlockRequest(dfv, offset + n, base, a)
        /\ retries' = 0 /\ due' = due \ {"resend"} /\ pending' = NoBlock
        /\ UNCHANGED <<status, nv, dfv>>

(* More of the file is to come: the block is stored, the next one requested.*)
StoreBlock(m, base, a) ==
    LET n == BlockLength(dfv, offset)
    IN  /\ offset + n < FileSize
        /\ FlashBecomes(Written(dfv, m.off, n))
        /\ offset' = offset + n /\ dirty' = TRUE
        /\ SendBlockRequest(dfv, offset + n, base, a)
        /\ retries' = 0 /\ due' = due \cup {"resend"} /\ pending' = NoBlock
        /\ UNCHANGED <<status, nv, dfv>>

(* zb_zcl_ota_upgrade_process_downloaded_image: it was the last one.        *)
StoreLastBlock(m, base, a) ==
    LET n == BlockLength(dfv, offset)
        f == LastWritten(Written(dfv, m.off, n))
    IN  /\ offset + n = FileSize
        /\ FlashBecomes(f)
        /\ acks' = a
        /\ IF VerifyOk(f.bank)
           THEN /\ SetStatus("downloaded") /\ offset' = offset + n
                /\ retries' = 0 /\ due' = due \ {"resend"}
                /\ reqSent' = FALSE /\ pending' = NoBlock
                /\ rsp' \in WithReply(base, EndAnswers(dfv))
                /\ UNCHANGED <<nv, cstate, dfv>>
           ELSE Abort(base)

(* WAIT_FOR_DATA: asked again (after a delay), the resend alarm cancelled.  *)
WaitForData(base, a) ==
    /\ SendBlockRequest(dfv, offset, base, a)
    /\ retries' = 0 /\ due' = due \ {"resend"} /\ pending' = NoBlock
    /\ UNCHANGED <<flashVars, attrVars, dfv>>

(* image_block_resp_handler, from the command handler or the deferred block.*)
(* (At an offset that is not in the file no block is in flight.)            *)
HandleBlock(m, base, a) ==
    \/ /\ status = "downloading" /\ ExpectedBlock(m)
       /\ StoreBlock(m, base, a) \/ StoreLastBlock(m, base, a)
       /\ UNCHANGED bootVars
    \/ /\ status = "downloading" /\ m.type = "wait"
       /\ WaitForData(base, a)
       /\ UNCHANGED bootVars
    \/ /\ status = "downloading" /\ m.type = "abort"
       /\ Abort(base) /\ acks' = a
       /\ UNCHANGED <<flashVars, bootVars>>
    \/ /\ status # "downloading" \/ (m.type = "data" /\ ~ExpectedBlock(m))
       /\ rsp' = base /\ acks' = a /\ reqSent' = FALSE /\ pending' = NoBlock
       /\ UNCHANGED <<flashVars, attrVars, cstate, dfv, retries, due, bootVars>>

Block(m) == m.type \in {"data", "wait", "abort"}

(* An Image Block Response while the request's send status is not known is  *)
(* put aside, or dropped when another is.                                   *)
DeferBlock ==
    /\ reqSent
    /\ \E m \in rsp :
        /\ Block(m) /\ rsp' \in AfterDelivery(m)
        /\ pending' = IF pending = NoBlock THEN m ELSE pending
    /\ UNCHANGED <<flashVars, attrVars, cstate, dfv, reqSent, retries, due, bootVars, acks>>

ReceiveBlock ==
    /\ ~reqSent
    /\ \E m \in rsp, base \in SUBSET rsp :
        Block(m) /\ base \in AfterDelivery(m) /\ HandleBlock(m, base, acks)

(* zb_zcl_ota_upgrade_block_req_cb: a request was acknowledged, or not.     *)
BlockRequestSent ==
    /\ acks > 0
    /\ IF pending = NoBlock
       THEN /\ reqSent' = FALSE /\ acks' = acks - 1
            /\ UNCHANGED <<flashVars, attrVars, cstate, dfv, pending, retries, due, bootVars, rsp>>
       ELSE HandleBlock(pending, rsp, acks - 1)

BlockRequestFailed ==
    /\ acks > 0
    /\ reqSent' = FALSE /\ pending' = NoBlock /\ acks' = acks - 1
    /\ UNCHANGED <<flashVars, attrVars, cstate, dfv, retries, due, bootVars, rsp>>

\* Plausible bug: one request too many.
LastTryLate == retries >= MaxRetries

LastTry == retries + 1 >= MaxRetries

(* resend_buffer: no block came in time; the request is repeated, at last   *)
(* the download given up.                                                   *)
ResendBuffer ==
    /\ "resend" \in due
    /\ UNCHANGED <<flashVars, bootVars>>
    /\ \/ /\ status = "downloading" /\ ~LastTry
          /\ retries' = retries + 1 /\ reqSent' = TRUE
          /\ acks' = IF acks < MaxAcks THEN acks + 1 ELSE acks
          /\ rsp' \in WithReply(rsp, BlockAnswers(dfv, offset))
          /\ UNCHANGED <<attrVars, cstate, dfv, pending, due>>
       \/ /\ status = "downloading" /\ LastTry
          /\ Abort(rsp) /\ UNCHANGED acks
       \/ /\ status # "downloading"
          /\ due' = due \ {"resend"}
          /\ UNCHANGED <<attrVars, cstate, blockVars, rsp, acks>>

(* A default response NO_IMAGE_AVAILABLE (or ABORT), whatever it answers.   *)
DefaultResponse ==
    /\ \E m \in rsp, base \in SUBSET rsp :
        m.type = "no_image" /\ base \in AfterDelivery(m) /\ Abort(base)
    /\ UNCHANGED <<flashVars, bootVars, acks>>

-----------------------------------------------------------------------------
(* The end of a download.                                                   *)

(* upgrade_end_resp_handler: only version and times are looked at.          *)
UpgradeEndResp ==
    \E m \in rsp :
        /\ m.type = "end" /\ rsp' \in AfterDelivery(m)
        /\ UNCHANGED <<flashVars, offset, nv, cstate, blockVars, fw, resets, known, env, acks>>
        /\ \/ /\ m.ver = dfv /\ m.wait
              /\ SetStatus("waiting_upgrade") /\ UNCHANGED <<due, fota>>
           \/ /\ m.ver = dfv /\ ~m.wait /\ ImageTagFound(bank)
              /\ SetStatus("count_down") /\ fota' = Image(bank)
              /\ due' = due \cup {"finish"}
           \/ /\ m.ver = dfv /\ ~m.wait /\ ~ImageTagFound(bank)
              /\ SetStatus("normal") /\ due' = due \cup {"qnir"} /\ UNCHANGED fota
           \/ /\ m.ver # dfv
              /\ UNCHANGED <<status, dirty, due, fota>>

\* Plausible bug: the image copied without a look at its checksum.
InstallableUnchecked(h) == h # NoHeader

(* The bootloader installs an image whose checksum still matches.           *)
Installable(h) == h # NoHeader /\ h = Image(bank)

(* What runs once image i is copied over the application.                   *)
Installed(i) ==
    IF \E v \in Versions : i = FileImage(v) THEN CHOOSE v \in Versions : i = FileImage(v) ELSE Junk

(* A device that has to rejoin does not get what was in flight to it.       *)
Boot(s, o) ==
    /\ RamReset /\ UNCHANGED bank
    /\ status' = s /\ offset' = o /\ dirty' = FALSE
    /\ cstate' = "idle" /\ dfv' = NoVersion
    /\ reqSent' = FALSE /\ pending' = NoBlock /\ retries' = 0
    /\ due' = {} /\ known' = FALSE /\ acks' = 0 /\ fota' = NoHeader
    /\ fw' = IF Installable(fota) THEN Installed(Image(bank)) ELSE fw
    /\ rsp' = {}
    /\ UNCHANGED <<nv, env>>

(* zb_zcl_ota_upgrade_finish_upgrade resets without a save of the attributes*)
(* it has just set.                                                         *)
FinishUpgrade ==
    /\ "finish" \in due
    /\ Boot(nv.status, nv.offset)
    /\ UNCHANGED resets

Reset ==
    /\ resets < MaxResets
    /\ resets' = resets + 1
    /\ Boot(nv.status, nv.offset)

(* tr_nvram_save_attributes *)
SaveAttrs ==
    /\ dirty
    /\ nv' = [status |-> status, offset |-> offset] /\ dirty' = FALSE
    /\ UNCHANGED <<flashVars, status, offset, cstate, blockVars, due, bootVars, rsp, acks>>

Next ==
    \/ Joined \/ InitClient \/ ServerNotFound \/ StartClient
    \/ RequestServer \/ ImageNotify \/ NextImageResp \/ NextImageRefused
    \/ DeferBlock \/ ReceiveBlock \/ BlockRequestSent \/ BlockRequestFailed
    \/ ResendBuffer \/ DefaultResponse \/ UpgradeEndResp \/ ServerUpgradesNow
    \/ FinishUpgrade \/ SaveAttrs \/ Reset

Spec == Init /\ [][Next]_vars

(* The stack's scheduler runs every alarm that is due, and the radio always *)
(* reports how sending went; nobody promises an answer.                     *)
Fairness == WF_vars(ResendBuffer) /\ WF_vars(BlockRequestSent \/ BlockRequestFailed)

FairSpec == Spec /\ Fairness

-----------------------------------------------------------------------------
(* A header tells the bootloader to install only a complete file.           *)
ReadyMeansGood == fota # NoHeader => \E v \in Versions : fota = FileImage(v)

(* Whatever is reset when, the device always boots a complete image.        *)
NeverBroken == fw # Junk

(* A client that knows a server and is not waiting for its word on when to  *)
(* upgrade has an alarm set that makes it ask, whatever message was lost --  *)
(* unless the server told it to wait for a block.                           *)
ClientNeverSilent ==
    "waits" \notin env /\ known /\ status \in {"normal", "downloading"} => due \cap {"qnir", "resend"} # {}

(* Below the write address flash holds the file being downloaded, also when *)
(* the download goes on at an offset read back from NVRAM (the server having*)
(* the same version then).                                                  *)
DownloadedIsFlashed ==
    "versions" \notin env /\ status = "downloading" /\ dfv # NoVersion => Holds(bank, dfv, RoundDown(offset))

(* Without a reset every download comes to an end: the file, or giving up.  *)
DownloadEnds ==
    (status = "downloading" /\ dfv # NoVersion) ~> ~(status = "downloading" /\ dfv # NoVersion)

=============================================================================
