-------------------------------- MODULE Lights --------------------------------
(***************************************************************************)
(* The bulb application (on_off_bulb_app.c): three LEDs, a blink that runs *)
(* from alarm to alarm on parameters in static memory, and the search for  *)
(* a network, which signals of the stack drive (tr_af.c).                  *)
(*                                                                         *)
(* The main loop does one job at a time, in steps, for the button's        *)
(* interrupt may come between any two of them.  An alarm fires at any      *)
(* time: only their number is kept.                                        *)
(***************************************************************************)
EXTENDS Integers

CONSTANTS
    Troubles,      \* what may happen besides: "none", "tie", "button", "cli"
    MaxAttempts,   \* of start_nwk_search
    MaxPending     \* bound: pending alarms

ASSUME LightsAssumption ==
    /\ Troubles \subseteq {"none", "tie", "button", "cli"}
    /\ MaxAttempts \in 1..254 /\ MaxPending \in Nat \ {0}

VARIABLES
    lit,        \* the LEDs that are on
    pin, count, \* g_blink_params
    pending,    \* alarms of led_blink_handler
    job,        \* what the main loop is doing
    attempts,   \* g_search_attempts
    conn,       \* g_conn_state
    steering,   \* the stack is looking for a network
    trouble     \* chosen once

blinkVars == <<lit, pin, count, pending>>
searchVars == <<attempts, conn, steering>>
lightsVars == <<blinkVars, job, searchVars, trouble>>

Colours == {"red", "green", "blue"}

(* led_blink(led, ..., times), and what the caller does after it.           *)
Jobs == [step : {"cancel", "paint", "turn", "again"}, led : Colours, times : 1..3,
         then : {"return", "search", "steer"}]
Idle == [step |-> "idle"]

LightsTypeOK ==
    /\ lit \subseteq Colours /\ pin \in Colours /\ count \in 0..255
    /\ pending \in 0..MaxPending
    /\ job \in Jobs \cup {Idle}
    /\ attempts \in 0..255 /\ steering \in BOOLEAN
    /\ conn \in {"no network", "failed", "joined"} /\ trouble \in Troubles

Blinks(led, times, then) == [step |-> "cancel", led |-> led, times |-> times, then |-> then]

(* tr_app_init_cb, and the first signal of a device that knows no network.  *)
LightsInit ==
    /\ lit = {} /\ pin = "red" /\ count = 0 /\ pending = 0
    /\ attempts = 0 /\ steering = FALSE /\ trouble \in Troubles
    /\ \/ conn = "joined" /\ job = Blinks("green", 1, "return")
       \/ conn = "no network" /\ job = Blinks("blue", 3, "search")

-----------------------------------------------------------------------------
\* Plausible bug: the alarm of the last blink not cancelled.
CancelNothing ==
    /\ job.step = "cancel" /\ job' = [job EXCEPT !.step = "paint"]
    /\ UNCHANGED <<lit, pin, count, pending, searchVars, trouble>>

(* led_blink: one alarm is cancelled, unless no time is left to it: then it *)
(* is due, but looks like none.                                             *)
Cancel ==
    /\ job.step = "cancel" /\ job' = [job EXCEPT !.step = "paint"]
    /\ \/ pending' = IF pending > 0 THEN pending - 1 ELSE 0
       \/ trouble = "tie" /\ pending < MaxPending /\ pending' = pending
    /\ UNCHANGED <<lit, pin, count, searchVars, trouble>>

Paint ==
    /\ job.step = "paint" /\ job' = [job EXCEPT !.step = "turn"]
    /\ pin' = job.led /\ count' = job.times /\ lit' = {}
    /\ UNCHANGED <<pending, searchVars, trouble>>

\* Plausible bug: counted when the LED goes on.
TurnCountingOn ==
    /\ job.step = "turn" /\ job' = [job EXCEPT !.step = "again"]
    /\ IF pin \in lit THEN lit' = lit \ {pin} /\ UNCHANGED count
       ELSE lit' = lit \cup {pin} /\ count' = (count - 1) % 256
    /\ UNCHANGED <<pin, pending, searchVars, trouble>>

(* led_blink_handler, up to the test of the counter ...                     *)
Turn ==
    /\ job.step = "turn" /\ job' = [job EXCEPT !.step = "again"]
    /\ IF pin \in lit THEN lit' = lit \ {pin} /\ count' = (count - 1) % 256
       ELSE lit' = lit \cup {pin} /\ UNCHANGED count
    /\ UNCHANGED <<pin, pending, searchVars, trouble>>

(* ... and from there; then the caller goes on.                             *)
Again ==
    /\ job.step = "again" /\ job' = Idle
    /\ pending' = IF count > 0 /\ pending < MaxPending THEN pending + 1 ELSE pending
    /\ steering' = (steering \/ job.then # "return")
    /\ attempts' = IF job.then = "search" THEN MaxAttempts ELSE attempts
    /\ UNCHANGED <<lit, pin, count, conn, trouble>>

(* The main loop takes up something when it is done with the last.          *)
Start(led, times, then) == job = Idle /\ job' = Blinks(led, times, then)

AlarmFires ==
    /\ job = Idle /\ pending > 0
    /\ pending' = pending - 1
    /\ job' = [Blinks("red", 1, "return") EXCEPT !.step = "turn"]
    /\ UNCHANGED <<lit, pin, count, searchVars, trouble>>

(* tr_hal_button_interrupt_cb while a rejoin is due: the rejoin's callback  *)
(* blinks, from the interrupt.                                              *)
Button ==
    /\ trouble = "button" /\ conn = "joined"
    /\ lit' = {"green"} /\ pin' = "green" /\ count' = 1
    /\ pending' = IF pending > 0 THEN pending ELSE 1
    /\ UNCHANGED <<job, searchVars, trouble>>

(* tr_network_rejoin_attempt_cb from the main loop.                         *)
RejoinAttempt ==
    /\ conn = "joined" /\ Start("green", 1, "return")
    /\ UNCHANGED <<blinkVars, searchVars, trouble>>

(* tr_zcl_command_cb: on, off, toggle.                                      *)
Command ==
    /\ job = Idle /\ lit' \in {Colours, {}, Colours \ lit}
    /\ UNCHANGED <<pin, count, pending, job, searchVars, trouble>>

(* The callbacks of the identify cluster.                                   *)
SetBlue(on) ==
    /\ job = Idle /\ lit' = IF on THEN lit \cup {"blue"} ELSE lit \ {"blue"}
    /\ UNCHANGED <<pin, count, pending, job, searchVars, trouble>>

-----------------------------------------------------------------------------
(* zboss_signal_handler: left the network.                                  *)
Left ==
    /\ conn = "joined" /\ Start("blue", 3, "search")
    /\ conn' = "no network" /\ UNCHANGED <<blinkVars, attempts, steering, trouble>>

SteeringSucceeds ==
    /\ job = Idle /\ steering
    /\ steering' = FALSE /\ conn' = "joined"
    /\ UNCHANGED <<blinkVars, job, attempts, trouble>>

\* Plausible bug: tested before it is counted down.
SteeringFailsOnceMore ==
    /\ steering /\ steering' = FALSE /\ conn' = "failed"
    /\ attempts' = (attempts - 1) % 256
    /\ IF attempts # 0 THEN Start("blue", 3, "steer") ELSE Start("red", 1, "return")
    /\ UNCHANGED <<blinkVars, trouble>>

SteeringFails ==
    /\ steering /\ steering' = FALSE /\ conn' = "failed"
    /\ attempts' = (attempts - 1) % 256
    /\ IF attempts' # 0 THEN Start("blue", 3, "steer") ELSE Start("red", 1, "return")
    /\ UNCHANGED <<blinkVars, trouble>>

(* cli_network_join: the stack starts steering unless it is at it.          *)
CliJoin ==
    /\ trouble = "cli" /\ job = Idle
    /\ steering' = TRUE
    /\ UNCHANGED <<blinkVars, job, attempts, conn, trouble>>

LightsNext ==
    \/ Cancel \/ Paint \/ Turn \/ Again
    \/ AlarmFires \/ Button \/ RejoinAttempt \/ Command
    \/ Left \/ SteeringSucceeds \/ SteeringFails \/ CliJoin

LightsSpec == LightsInit /\ [][LightsNext]_lightsVars

-----------------------------------------------------------------------------
Alone == trouble \notin {"tie", "button"}

(* Blinks follow one another closely, and commands turn LEDs on and off in  *)
(* the middle of them: there is one chain of alarms, and it is not lost     *)
(* count of, as long as no alarm is due just when it is cancelled and       *)
(* nobody presses the button.                                               *)
OneBlinkAtATime == Alone => pending <= 1 /\ (pending = 1 => count \in 1..3)

(* A blink that comes to its end leaves its LED dark, whatever commands did *)
(* to it on the way.                                                        *)
BlinkEndsDark ==
    [][Alone /\ job.step = "again" /\ pending' = 0 => pin \notin lit']_lightsVars

(* Every attempt to find a network was counted: a search gives up.  (One    *)
(* begun by the command line is not, and the counter wraps.)                *)
SearchIsCounted == trouble # "cli" /\ steering => attempts \in 1..MaxAttempts

=============================================================================
