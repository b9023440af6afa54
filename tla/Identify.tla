------------------------------- MODULE Identify -------------------------------
(***************************************************************************)
(* The identify cluster server (tr_identify_server.c): a time that counts  *)
(* down once per second while the device identifies itself, and the        *)
(* application's start and stop callbacks, which the scheduler calls       *)
(* later.  The stack calls the write hook before it writes the attribute.  *)
(***************************************************************************)
EXTENDS Integers, Sequences

CONSTANTS
    MaxTime,    \* bound: the longest time asked for
    MaxCalls    \* bound: callbacks waiting

ASSUME IdentifyAssumption == {MaxTime, MaxCalls} \subseteq Nat \ {0}

VARIABLES
    time,       \* attribute IDENTIFY_TIME
    ticks,      \* pending alarms of zb_zcl_identify_time_handler
    calls,      \* callbacks scheduled
    told        \* the last one called

identifyVars == <<time, ticks, calls, told>>

IdentifyTypeOK ==
    /\ time \in 0..MaxTime /\ ticks \in 0..1
    /\ calls \in Seq({"start", "stop"}) /\ Len(calls) <= MaxCalls + 1
    /\ told \in {"start", "stop"}

IdentifyInit == time = 0 /\ ticks = 0 /\ calls = <<>> /\ told = "stop"

(* zb_zcl_is_identifying *)
Identifying == time # 0

\* Plausible bug: the alarm of the last identification is not cancelled.
StartIdentifyingTwice(pending) ==
    IF Identifying THEN ticks' = pending /\ UNCHANGED calls
    ELSE ticks' = pending + 1 /\ calls' = Append(calls, "start")

(* zb_zcl_start_identifying: a running countdown only gets another time.    *)
StartIdentifying(pending) ==
    IF Identifying THEN ticks' = pending /\ UNCHANGED calls
    ELSE ticks' = 1 /\ calls' = Append(calls, "start")

(* zb_zcl_stop_identifying *)
StopIdentifying(pending) == ticks' = 0 /\ calls' = Append(calls, "stop")

(* identify_server_write_attr_hook and the write, from a command or a       *)
(* written attribute.                                                       *)
SetTime(t) ==
    /\ Len(calls) < MaxCalls
    /\ IF t # 0 THEN StartIdentifying(ticks) ELSE StopIdentifying(ticks)
    /\ time' = t /\ UNCHANGED told

\* Plausible bug: the countdown ends without the callback.
TickSilently ==
    /\ ticks > 0
    /\ IF Identifying THEN time' = time - 1 ELSE UNCHANGED time
    /\ ticks' = IF time > 1 THEN ticks ELSE ticks - 1
    /\ UNCHANGED <<calls, told>>

(* zb_zcl_identify_time_handler: the alarm is set anew after the last       *)
(* second, too, and finds nothing to do.                                    *)
Tick ==
    /\ ticks > 0
    /\ \/ time = 0 /\ ticks' = ticks - 1 /\ UNCHANGED <<time, calls>>
       \/ time > 1 /\ time' = time - 1 /\ UNCHANGED <<ticks, calls>>
       \/ time = 1 /\ time' = 0 /\ ticks' = 1 /\ calls' = Append(calls, "stop")
    /\ UNCHANGED told

(* The scheduler calls tr_identify_server_identify_start_cb or ..._stop_cb. *)
Called(c) ==
    /\ calls # <<>> /\ Head(calls) = c
    /\ told' = c /\ calls' = Tail(calls)
    /\ UNCHANGED <<time, ticks>>

IdentifyNext ==
    \/ \E t \in 0..MaxTime : SetTime(t)
    \/ Tick
    \/ Called("start") \/ Called("stop")

IdentifySpec == IdentifyInit /\ [][IdentifyNext]_identifyVars

-----------------------------------------------------------------------------
(* However writes, seconds and callbacks interleave, the application was    *)
(* last told, or will be, what the attribute says.                          *)
LastCall == IF calls = <<>> THEN told ELSE calls[Len(calls)]
ApplicationFollows == LastCall = "start" <=> Identifying

=============================================================================
