------------------------------ MODULE RemoteCli ------------------------------
(***************************************************************************)
(* The remote command line (tr_remote_cli_server.c): what the device       *)
(* prints is kept in a ring buffer and sent packet by packet, an alarm     *)
(* starts each packet, and the callback of a packet sent looks whether     *)
(* there is more.  Nothing but these alarms and callbacks moves the        *)
(* output, and each print cancels one alarm and sets another.              *)
(*                                                                         *)
(* Of the output only its amount is kept, of the packets' buffers whether  *)
(* they come back to the stack's pool.  Whom the packets are sent to is    *)
(* left out; a piece stripped as a colour is as if it were not printed.    *)
(***************************************************************************)
EXTENDS Integers

CONSTANTS
    QueueSize,    \* TR_REMOTE_CLI_SEND_BUFFER_SIZE
    PayloadSize,  \* TR_REMOTE_CLI_SEND_PACKET_PAYLOAD_SIZE
    MaxPrint,     \* the longest piece printed
    Buffers       \* the stack's output buffers

ASSUME RemoteCliAssumption ==
    {QueueSize, PayloadSize, MaxPrint, Buffers} \subseteq Nat \ {0}

VARIABLES
    queue,      \* rcli_send_buffer.count
    fresh,      \* pending alarms that have no buffer yet
    held,       \* those that go on with the buffer of the packet before
    sending,    \* packets whose callback is to come
    free,       \* buffers in the pool
    enabled,    \* attribute CLI_STATUS
    tmpEnable   \* rcli_tmp_enable: a command is being executed

outputVars == <<queue, fresh, held, sending, free>>
remoteVars == <<outputVars, enabled, tmpEnable>>

(* A packet was begun and there was no buffer: zb_buf_get_out returns 0,    *)
(* which is used as a buffer.  Nothing is known from then on.               *)
Broken == free < 0

RemoteTypeOK ==
    /\ queue \in 0..QueueSize
    /\ fresh \in 0..Buffers + 1
    /\ {held, sending} \subseteq 0..Buffers + 1 /\ free \in -1..Buffers
    /\ {enabled, tmpEnable} \subseteq BOOLEAN

RemoteInit ==
    /\ queue = 0 /\ fresh = 0 /\ held = 0 /\ sending = 0 /\ free = Buffers
    /\ enabled = FALSE /\ tmpEnable = FALSE

-----------------------------------------------------------------------------
(* enqueue: all or nothing.                                                 *)
Enqueued(n) == IF n <= QueueSize - queue THEN queue + n ELSE queue

(* remote_cli_server_add_output: any one alarm is cancelled, with or        *)
(* without a buffer, and one without is set.                                *)
AddOutput(n) ==
    /\ queue' = Enqueued(n)
    /\ \/ fresh > 0 /\ UNCHANGED <<fresh, held>>
       \/ held > 0 /\ held' = held - 1 /\ fresh' = fresh + 1
       \/ fresh = 0 /\ held = 0 /\ fresh' = 1 /\ UNCHANGED held
    /\ UNCHANGED <<sending, free>>

(* tr_printf, from any handler of the main loop.                            *)
TrPrintf ==
    /\ ~Broken /\ (enabled \/ tmpEnable)
    /\ \E n \in 1..MaxPrint : AddOutput(n)
    /\ UNCHANGED <<enabled, tmpEnable>>

(* dequeue: a packet's worth, or what there is.                             *)
Dequeued == IF queue >= PayloadSize THEN queue - PayloadSize ELSE 0

(* remote_cli_server_send_response *)
SendResponse ==
    /\ ~Broken /\ ~tmpEnable
    /\ \/ fresh > 0 /\ fresh' = fresh - 1 /\ free' = free - 1 /\ UNCHANGED held
       \/ held > 0 /\ held' = held - 1 /\ UNCHANGED <<fresh, free>>
    /\ queue' = Dequeued /\ sending' = sending + 1
    /\ UNCHANGED <<enabled, tmpEnable>>

\* Plausible bug: the alarm of the next print will do.
ResponseSentAndDone ==
    /\ ~Broken /\ ~tmpEnable /\ sending > 0
    /\ sending' = sending - 1 /\ free' = free + 1
    /\ UNCHANGED <<queue, fresh, held, enabled, tmpEnable>>

(* remote_cli_server_send_response_cb, sent or not.                         *)
ResponseSent ==
    /\ ~Broken /\ ~tmpEnable /\ sending > 0
    /\ sending' = sending - 1
    /\ \/ queue = 0 /\ free' = free + 1 /\ UNCHANGED held
       \/ queue > 0 /\ held' = held + 1 /\ UNCHANGED free
    /\ UNCHANGED <<queue, fresh, enabled, tmpEnable>>

(* remote_cli_server_cli_command: the command prints while it is executed.  *)
CliCommand ==
    /\ ~Broken /\ ~tmpEnable /\ tmpEnable' = TRUE
    /\ UNCHANGED <<outputVars, enabled>>

CliCommandDone ==
    /\ tmpEnable /\ tmpEnable' = FALSE
    /\ UNCHANGED <<outputVars, enabled>>

(* remote_cli_server_enable *)
Enable ==
    /\ ~Broken /\ ~tmpEnable /\ enabled' \in BOOLEAN
    /\ UNCHANGED <<outputVars, tmpEnable>>

RemoteNext ==
    TrPrintf \/ SendResponse \/ ResponseSent \/ CliCommand \/ CliCommandDone \/ Enable

RemoteSpec == RemoteInit /\ [][RemoteNext]_remoteVars

-----------------------------------------------------------------------------
(* Output that waits is on its way, whatever is printed, cancelled and      *)
(* confirmed meanwhile: there is an alarm, or a packet whose callback will  *)
(* see it.  Otherwise it would wait for the next print.                     *)
OutputIsOnItsWay == queue > 0 => fresh > 0 \/ held > 0 \/ sending > 0

=============================================================================
