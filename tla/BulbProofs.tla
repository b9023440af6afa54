----------------------------- MODULE BulbProofs -----------------------------
(***************************************************************************)
(* Proofs about Bulb: what is proved of its parts holds of the bulb, for   *)
(* none of the other parts touches their state.  First the identify        *)
(* server, the remote command line and the lights, on their own;           *)
(* GroupsProofs has the groups.                                            *)
(***************************************************************************)
EXTENDS Bulb, GroupsProofs, SequenceTheorems

-----------------------------------------------------------------------------
(* The identify server: for every time asked for and any number of          *)
(* callbacks waiting, the application learns what the attribute says.       *)

(* A time that runs has its alarm: without it the countdown would stop and  *)
(* the application never be told the end.                                   *)
CountdownRuns == Identifying => ticks = 1

IdentifyInv ==
    /\ time \in Nat /\ ticks \in 0..1
    /\ calls \in Seq({"start", "stop"}) /\ told \in {"start", "stop"}
    /\ CountdownRuns /\ ApplicationFollows

-----------------------------------------------------------------------------
(* The last call waiting is the one scheduled last.                         *)
LEMMA LastOfAppend ==
    ASSUME NEW s \in Seq({"start", "stop"}), NEW c \in {"start", "stop"}
    PROVE  /\ Append(s, c) \in Seq({"start", "stop"})
           /\ Append(s, c) # <<>>
           /\ Append(s, c)[Len(Append(s, c))] = c
  OBVIOUS

(* Calling the first of the callbacks leaves the last one what it was.      *)
LEMMA CallingKeepsTheLast ==
    ASSUME IdentifyInv, NEW c \in {"start", "stop"}, Called(c)
    PROVE  LastCall' = LastCall /\ calls' \in Seq({"start", "stop"})
<1> DEFINE S == {"start", "stop"}
           rest == Tail(calls)
<1>1. calls \in Seq(S) /\ calls # <<>>
  BY DEF IdentifyInv, Called
<1>2. calls' = rest /\ told' = calls[1]
  BY <1>1 DEF Called
<1>3. /\ rest \in Seq(S) /\ Len(rest) = Len(calls) - 1
      /\ \A i \in 1..Len(rest) : rest[i] = calls[i + 1]
  BY <1>1, HeadTailProperties
<1>4. CASE rest = <<>>
  <2>1. Len(rest) = 0 /\ Len(calls) \in Nat
    BY <1>1, <1>4, EmptySeq, LenProperties
  <2>2. Len(calls) = 1
    <3>1. Len(rest) = Len(calls) - 1
      BY <1>3
    <3> HIDE DEF rest
    <3> QED
      BY <2>1, <3>1
  <2> QED
    BY <1>1, <1>2, <1>4, <2>2 DEF LastCall
<1>5. CASE rest # <<>>
  <2>1. Len(rest) \in 1..Len(rest)
    BY <1>3, <1>5, EmptySeq
  <2>2. rest[Len(rest)] = calls[Len(calls)]
    BY <1>1, <1>3, <2>1
  <2> QED
    BY <1>1, <1>2, <1>3, <1>5, <2>2 DEF LastCall
<1> QED
  BY <1>4, <1>5

LEMMA IdentifyStarts == IdentifyInit => IdentifyInv
  BY DEF IdentifyInit, IdentifyInv, CountdownRuns, ApplicationFollows,
         LastCall, Identifying

LEMMA IdentifySteps == IdentifyInv /\ [IdentifyNext]_identifyVars => IdentifyInv'
<1> SUFFICES ASSUME IdentifyInv, [IdentifyNext]_identifyVars PROVE IdentifyInv'
  OBVIOUS
<1> USE DEF IdentifyInv
<1>1. ASSUME NEW t \in 0..MaxTime, SetTime(t) PROVE IdentifyInv'
  <2>0. t \in Nat /\ time' = t /\ told' = told
    BY <1>1, IdentifyAssumption DEF SetTime
  <2>1. CASE t = 0
    <3>1. ticks' = 0 /\ calls' = Append(calls, "stop")
      BY <1>1, <2>1 DEF SetTime, StopIdentifying
    <3>2. calls' \in Seq({"start", "stop"}) /\ LastCall' = "stop"
      BY <3>1, LastOfAppend DEF LastCall
    <3> QED
      BY <2>0, <2>1, <3>1, <3>2 DEF CountdownRuns, ApplicationFollows, Identifying
  <2>2. CASE t # 0 /\ Identifying
    <3>1. ticks' = ticks /\ calls' = calls
      BY <1>1, <2>2 DEF SetTime, StartIdentifying
    <3>2. LastCall' = LastCall
      BY <2>0, <3>1 DEF LastCall
    <3> QED
      BY <2>0, <2>2, <3>1, <3>2 DEF CountdownRuns, ApplicationFollows, Identifying
  <2>3. CASE t # 0 /\ ~Identifying
    <3>1. ticks' = 1 /\ calls' = Append(calls, "start")
      BY <1>1, <2>3 DEF SetTime, StartIdentifying
    <3>2. calls' \in Seq({"start", "stop"}) /\ LastCall' = "start"
      BY <3>1, LastOfAppend DEF LastCall
    <3> QED
      BY <2>0, <2>3, <3>1, <3>2 DEF CountdownRuns, ApplicationFollows, Identifying
  <2> QED
    BY <2>1, <2>2, <2>3
<1>2. CASE Tick
  <2>1. CASE time = 0
    <3>1. ticks' = 0 /\ UNCHANGED <<time, calls, told>>
      BY <1>2, <2>1 DEF Tick
    <3>2. LastCall' = LastCall
      BY <3>1 DEF LastCall
    <3> QED
      BY <2>1, <3>1, <3>2 DEF CountdownRuns, ApplicationFollows, Identifying
  <2>2. CASE time > 1
    <3>1. time' = time - 1 /\ UNCHANGED <<ticks, calls, told>>
      BY <1>2, <2>2 DEF Tick
    <3>2. LastCall' = LastCall
      BY <3>1 DEF LastCall
    <3> QED
      BY <2>2, <3>1, <3>2 DEF CountdownRuns, ApplicationFollows, Identifying
  <2>3. CASE time = 1
    <3>1. time' = 0 /\ ticks' = 1 /\ calls' = Append(calls, "stop") /\ told' = told
      BY <1>2, <2>3 DEF Tick
    <3>2. calls' \in Seq({"start", "stop"}) /\ LastCall' = "stop"
      BY <3>1, LastOfAppend DEF LastCall
    <3> QED
      BY <3>1, <3>2 DEF CountdownRuns, ApplicationFollows, Identifying
  <2> QED
    BY <2>1, <2>2, <2>3
<1>3. ASSUME NEW c \in {"start", "stop"}, Called(c) PROVE IdentifyInv'
  <2>1. told' \in {"start", "stop"} /\ UNCHANGED <<time, ticks>>
    BY <1>3 DEF Called
  <2>2. LastCall' = LastCall /\ calls' \in Seq({"start", "stop"})
    BY <1>3, CallingKeepsTheLast
  <2> QED
    BY <2>1, <2>2 DEF CountdownRuns, ApplicationFollows, Identifying
<1>4. CASE UNCHANGED identifyVars
  BY <1>4 DEF identifyVars, CountdownRuns, ApplicationFollows, Identifying, LastCall
<1> QED
  BY <1>1, <1>2, <1>3, <1>4 DEF IdentifyNext

-----------------------------------------------------------------------------
(* While the attribute of tr_identify_server.c is not zero its alarm is     *)
(* pending: an identification that was begun ends.                          *)
THEOREM CountdownAlive == IdentifySpec => []CountdownRuns
<1>1. IdentifyInv => CountdownRuns
  BY DEF IdentifyInv
<1> QED
  BY <1>1, IdentifyStarts, IdentifySteps, PTL DEF IdentifySpec

-----------------------------------------------------------------------------
(* The remote command line: for every size of the queue, the packets and    *)
(* the pool, and every length of a print, output that waits is sent.        *)

(* The counters are natural numbers: an alarm, a buffer held or a packet    *)
(* under way is given up only where there is one.                           *)
Counters ==
    /\ {queue, fresh, held, sending} \subseteq Nat
    /\ free \in Int /\ queue <= QueueSize

OutputInv == Counters /\ OutputIsOnItsWay

-----------------------------------------------------------------------------
(* enqueue keeps the queue within its size.                                 *)
LEMMA EnqueuedFits ==
    ASSUME Counters, NEW n \in 1..MaxPrint
    PROVE  Enqueued(n) \in Nat /\ Enqueued(n) <= QueueSize
  BY RemoteCliAssumption DEF Counters, Enqueued

(* dequeue takes a packet's worth or all, and never more than there is.     *)
LEMMA DequeuedFits ==
    ASSUME Counters
    PROVE  Dequeued \in Nat /\ Dequeued <= queue
  BY RemoteCliAssumption DEF Counters, Dequeued

LEMMA InitCounters == RemoteInit => OutputInv
  BY RemoteCliAssumption DEF RemoteInit, OutputInv, Counters, OutputIsOnItsWay

(* remote_cli_server_add_output leaves an alarm behind in each of its three *)
(* cases, the one that cancels an alarm included.                           *)
LEMMA PrintMoves ==
    ASSUME OutputInv, NEW n \in 1..MaxPrint, AddOutput(n)
    PROVE  OutputInv'
<1>1. Enqueued(n) \in Nat /\ Enqueued(n) <= QueueSize
  BY EnqueuedFits DEF OutputInv
<1>2. Counters'
  BY <1>1 DEF OutputInv, Counters, AddOutput
<1>3. fresh' > 0
  BY DEF OutputInv, Counters, AddOutput
<1> QED
  BY <1>2, <1>3 DEF OutputInv, OutputIsOnItsWay

LEMMA StepMoves == OutputInv /\ [RemoteNext]_remoteVars => OutputInv'
<1> SUFFICES ASSUME OutputInv, [RemoteNext]_remoteVars PROVE OutputInv'
  OBVIOUS
<1>1. CASE TrPrintf
  BY <1>1, PrintMoves DEF TrPrintf
<1>2. CASE SendResponse
  <2>1. Counters'
    BY <1>2, DequeuedFits, RemoteCliAssumption DEF OutputInv, Counters, SendResponse
  <2>2. sending' > 0
    BY <1>2 DEF OutputInv, Counters, SendResponse
  <2> QED
    BY <2>1, <2>2 DEF OutputInv, OutputIsOnItsWay
<1>3. CASE ResponseSent
  <2>1. Counters'
    BY <1>3 DEF OutputInv, Counters, ResponseSent
  <2>2. OutputIsOnItsWay'
    BY <1>3 DEF OutputInv, Counters, OutputIsOnItsWay, ResponseSent
  <2> QED
    BY <2>1, <2>2 DEF OutputInv
<1>4. CASE UNCHANGED outputVars
  BY <1>4 DEF OutputInv, Counters, OutputIsOnItsWay, outputVars
<1>5. CliCommand \/ CliCommandDone \/ Enable \/ UNCHANGED remoteVars
         => UNCHANGED outputVars
  BY DEF CliCommand, CliCommandDone, Enable, remoteVars
<1> QED
  BY <1>1, <1>2, <1>3, <1>4, <1>5 DEF RemoteNext

-----------------------------------------------------------------------------
(* The queue never holds more than its buffer: tr_printf's output is        *)
(* dropped as a whole rather than overwritten.                              *)
THEOREM QueueBounded == RemoteSpec => [](queue <= QueueSize)
<1>1. OutputInv => queue <= QueueSize
  BY DEF OutputInv, Counters
<1> QED
  BY <1>1, InitCounters, StepMoves, PTL DEF RemoteSpec

-----------------------------------------------------------------------------
(* The lights: for every number of attempts and every bound on the alarms,  *)
(* blinks follow one another in one chain, and a search gives up.  The      *)
(* identify callbacks, which the bulb adds, are steps here too.             *)
Step == LightsNext \/ \E on \in BOOLEAN : SetBlue(on)

Types ==
    /\ count \in 0..255 /\ pending \in 0..MaxPending
    /\ job \in Jobs \cup {Idle} /\ attempts \in 0..255

(* The one chain of alarms is the pending alarm or the job that is about to *)
(* set it, never both, and the job knows what is left of the blink.         *)
OneChain ==
    Alone =>
        /\ pending <= 1 /\ (pending = 1 => count \in 1..3)
        /\ job.step \in {"paint", "turn", "again"} => pending = 0
        /\ job.step = "turn" => count \in 1..3
        /\ job.step = "again" => count \in 0..3 /\ (count = 0 => pin \notin lit)

(* An attempt that is about to begin was counted, too.                      *)
Counted ==
    trouble # "cli" /\ (steering \/ (job # Idle /\ job.then = "steer"))
        => attempts \in 1..MaxAttempts

LightsInv == Types /\ OneChain /\ Counted

-----------------------------------------------------------------------------
LEMMA BlinksTyped ==
    ASSUME NEW led \in Colours, NEW times \in 1..3, NEW then \in {"return", "search", "steer"}
    PROVE  /\ Blinks(led, times, then) \in Jobs
           /\ Blinks(led, times, then).step = "cancel"
           /\ Blinks(led, times, then).then = then
  BY DEF Blinks, Jobs

(* A job is never idle, and going on with it changes its step only.         *)
LEMMA NextStep ==
    ASSUME NEW j \in Jobs, NEW s \in {"cancel", "paint", "turn", "again"}
    PROVE  /\ j # Idle /\ Idle.step = "idle"
           /\ [j EXCEPT !.step = s] \in Jobs
           /\ [j EXCEPT !.step = s].step = s
           /\ [j EXCEPT !.step = s].then = j.then
<1>1. j.step # "idle" /\ Idle.step = "idle"
  BY DEF Jobs, Idle
<1>2. j # Idle
  BY <1>1
<1> QED
  BY <1>1, <1>2 DEF Jobs

LEMMA LightsStart == LightsInit => LightsInv
<1> SUFFICES ASSUME LightsInit PROVE LightsInv
  OBVIOUS
<1>1. job \in Jobs /\ job.step = "cancel" /\ job.then # "steer"
  <2>1. {"green", "blue"} \subseteq Colours /\ {1, 3} \subseteq 1..3
    BY DEF Colours
  <2>2. CASE job = Blinks("green", 1, "return")
    BY <2>1, <2>2, BlinksTyped
  <2>3. CASE job = Blinks("blue", 3, "search")
    BY <2>1, <2>3, BlinksTyped
  <2> QED
    BY <2>2, <2>3 DEF LightsInit
<1>2. Types /\ OneChain
  <2>1. count = 0 /\ pending = 0 /\ attempts = 0
    BY DEF LightsInit
  <2> QED
    BY <1>1, <2>1, LightsAssumption DEF Types, OneChain
<1>3. ~steering
  BY DEF LightsInit
<1>4. Counted
  BY <1>1, <1>3 DEF Counted
<1> QED
  BY <1>2, <1>4 DEF LightsInv

-----------------------------------------------------------------------------
(* The steps of led_blink and its handler.                                  *)
LEMMA CancelKeeps == LightsInv /\ Cancel => LightsInv'
<1> SUFFICES ASSUME LightsInv, Cancel PROVE LightsInv'
  OBVIOUS
<1>1. job \in Jobs
  BY DEF LightsInv, Types, Cancel, Idle
<1>2. job' \in Jobs /\ job'.step = "paint" /\ job'.then = job.then /\ job # Idle
  BY <1>1, NextStep DEF Cancel
<1>3. Types'
  BY <1>2, LightsAssumption DEF LightsInv, Types, Cancel, searchVars
<1>4. OneChain'
  BY <1>2 DEF LightsInv, Types, OneChain, Cancel, Alone
<1>5. Counted'
  BY <1>2 DEF LightsInv, Counted, Cancel, searchVars
<1> QED
  BY <1>3, <1>4, <1>5 DEF LightsInv

LEMMA PaintKeeps == LightsInv /\ Paint => LightsInv'
<1> SUFFICES ASSUME LightsInv, Paint PROVE LightsInv'
  OBVIOUS
<1>1. job \in Jobs
  BY DEF LightsInv, Types, Paint, Idle
<1>2. job' \in Jobs /\ job'.step = "turn" /\ job'.then = job.then /\ job # Idle
  BY <1>1, NextStep DEF Paint
<1>3. count' \in 1..3
  BY <1>1 DEF Paint, Jobs
<1>4. Types'
  BY <1>2, <1>3 DEF LightsInv, Types, Paint, searchVars
<1>5. OneChain'
  BY <1>2, <1>3 DEF LightsInv, OneChain, Paint, Alone
<1>6. Counted'
  BY <1>2 DEF LightsInv, Counted, Paint, searchVars
<1> QED
  BY <1>4, <1>5, <1>6 DEF LightsInv

LEMMA TurnKeeps == LightsInv /\ Turn => LightsInv'
<1> SUFFICES ASSUME LightsInv, Turn PROVE LightsInv'
  OBVIOUS
<1>1. job \in Jobs
  BY DEF LightsInv, Types, Turn, Idle
<1>2. job' \in Jobs /\ job'.step = "again" /\ job'.then = job.then /\ job # Idle
  BY <1>1, NextStep DEF Turn
<1>3. Types'
  BY <1>2 DEF LightsInv, Types, Turn, searchVars
<1>4. OneChain'
  <2>1. CASE pin \in lit
    BY <1>2, <2>1 DEF LightsInv, Types, OneChain, Turn, Alone
  <2>2. CASE pin \notin lit
    BY <1>2, <2>2 DEF LightsInv, Types, OneChain, Turn, Alone
  <2> QED
    BY <2>1, <2>2
<1>5. Counted'
  BY <1>2 DEF LightsInv, Counted, Turn, searchVars
<1> QED
  BY <1>3, <1>4, <1>5 DEF LightsInv

LEMMA AgainKeeps == LightsInv /\ Again => LightsInv'
<1> SUFFICES ASSUME LightsInv, Again PROVE LightsInv'
  OBVIOUS
<1>1. job \in Jobs
  BY DEF LightsInv, Types, Again, Idle
<1>2. job # Idle /\ job' = Idle /\ job'.step = "idle"
  BY <1>1, NextStep DEF Again
<1>3. Types'
  BY <1>2, LightsAssumption DEF LightsInv, Types, Again
<1>4. OneChain'
  BY <1>2 DEF LightsInv, Types, OneChain, Again, Alone
<1>5. Counted'
  <2>1. CASE job.then = "search"
    <3>1. attempts' \in 1..MaxAttempts
      BY <2>1, LightsAssumption DEF Again
    <3> QED
      BY <3>1 DEF Counted
  <2>2. CASE job.then # "search"
    <3>1. attempts' = attempts /\ trouble' = trouble
      BY <2>2 DEF Again
    <3>2. steering' => steering \/ job.then = "steer"
      BY <1>1, <2>2 DEF Again, Jobs
    <3> QED
      BY <1>2, <3>1, <3>2 DEF LightsInv, Counted
  <2> QED
    BY <2>1, <2>2
<1> QED
  BY <1>3, <1>4, <1>5 DEF LightsInv

-----------------------------------------------------------------------------
(* What begins a job.                                                       *)
LEMMA AlarmKeeps == LightsInv /\ AlarmFires => LightsInv'
<1> SUFFICES ASSUME LightsInv, AlarmFires PROVE LightsInv'
  OBVIOUS
<1>1. Blinks("red", 1, "return") \in Jobs /\ Blinks("red", 1, "return").then = "return"
  BY BlinksTyped DEF Colours
<1>2. job' \in Jobs /\ job'.step = "turn" /\ job'.then = "return"
  BY <1>1, NextStep DEF AlarmFires
<1>3. Types'
  BY <1>2, LightsAssumption DEF LightsInv, Types, AlarmFires, searchVars
<1>4. OneChain'
  BY <1>2 DEF LightsInv, Types, OneChain, AlarmFires, Alone
<1>5. Counted'
  BY <1>2 DEF LightsInv, Counted, AlarmFires, searchVars
<1> QED
  BY <1>3, <1>4, <1>5 DEF LightsInv

LEMMA StartKeeps ==
    ASSUME LightsInv, UNCHANGED <<blinkVars, trouble>>, attempts' \in 0..255,
           NEW led \in Colours, NEW times \in 1..3,
           NEW then \in {"return", "search", "steer"}, Start(led, times, then),
           trouble # "cli" /\ (steering' \/ then = "steer") => attempts' \in 1..MaxAttempts
    PROVE  LightsInv'
<1>1. job' \in Jobs /\ job'.step = "cancel" /\ job'.then = then
  BY BlinksTyped DEF Start
<1>2. Types'
  BY <1>1 DEF LightsInv, Types, blinkVars
<1>3. OneChain'
  BY <1>1 DEF LightsInv, OneChain, Alone, blinkVars
<1>4. Counted'
  BY <1>1 DEF Counted
<1> QED
  BY <1>2, <1>3, <1>4 DEF LightsInv

LEMMA FailureKeeps == LightsInv /\ SteeringFails => LightsInv'
<1> SUFFICES ASSUME LightsInv, SteeringFails PROVE LightsInv'
  OBVIOUS
<1>1. /\ attempts \in 0..255 /\ attempts' = (attempts - 1) % 256
      /\ steering /\ ~steering' /\ UNCHANGED <<blinkVars, trouble>>
  BY DEF LightsInv, Types, SteeringFails
<1>2. attempts' \in 0..255
  BY <1>1
<1>3. CASE attempts' # 0
  <2>1. Start("blue", 3, "steer")
    BY <1>3 DEF SteeringFails
  <2>2. trouble # "cli" => attempts' \in 1..MaxAttempts
    BY <1>1, <1>3, LightsAssumption DEF LightsInv, Counted
  <2> QED
    BY <1>1, <1>2, <2>1, <2>2, StartKeeps DEF Colours
<1>4. CASE attempts' = 0
  <2>1. Start("red", 1, "return")
    BY <1>4 DEF SteeringFails
  <2> QED
    BY <1>1, <1>2, <2>1, StartKeeps DEF Colours
<1> QED
  BY <1>3, <1>4

(* What leaves job and blink alone, or happens to LEDs between two jobs.    *)
LEMMA IdleKeeps ==
    ASSUME LightsInv, job.step = "idle", UNCHANGED <<pin, count, pending, job, attempts, trouble>>,
           trouble # "cli" /\ steering' => steering
    PROVE  LightsInv'
  BY DEF LightsInv, Types, OneChain, Counted, Alone

LEMMA LightsSteps == LightsInv /\ [Step]_lightsVars => LightsInv'
<1> SUFFICES ASSUME LightsInv, [Step]_lightsVars PROVE LightsInv'
  OBVIOUS
<1>0. Idle.step = "idle"
  BY DEF Idle
<1>a. {"green", "blue"} \subseteq Colours /\ {1, 3} \subseteq 1..3
  BY DEF Colours
<1>1. CASE Cancel \/ Paint \/ Turn \/ Again \/ AlarmFires \/ SteeringFails
  BY <1>1, CancelKeeps, PaintKeeps, TurnKeeps, AgainKeeps, AlarmKeeps, FailureKeeps
<1>2. CASE Button
  <2>1. Types' /\ ~Alone'
    BY <1>2, LightsAssumption DEF Button, LightsInv, Types, Alone, searchVars
  <2>2. Counted'
    BY <1>2 DEF Button, LightsInv, Counted, searchVars
  <2> QED
    BY <2>1, <2>2 DEF LightsInv, OneChain
<1>3. CASE RejoinAttempt
  <2>1. attempts' \in 0..255 /\ (trouble # "cli" /\ steering' => attempts' \in 1..MaxAttempts)
    BY <1>3 DEF RejoinAttempt, LightsInv, Types, Counted, searchVars
  <2> QED
    BY <1>3, <2>1, <1>a, StartKeeps DEF RejoinAttempt
<1>4. CASE Left
  <2>1. attempts' \in 0..255 /\ (trouble # "cli" /\ steering' => attempts' \in 1..MaxAttempts)
    BY <1>4 DEF Left, LightsInv, Types, Counted
  <2> QED
    BY <1>4, <2>1, <1>a, StartKeeps DEF Left
<1>5. CASE Command \/ (\E on \in BOOLEAN : SetBlue(on)) \/ SteeringSucceeds \/ CliJoin
  BY <1>0, <1>5, IdleKeeps DEF Command, SetBlue, SteeringSucceeds, CliJoin, searchVars, blinkVars
<1>6. CASE UNCHANGED lightsVars
  BY <1>6 DEF lightsVars, blinkVars, searchVars, LightsInv, Types, OneChain, Counted, Alone
<1> QED
  BY <1>1, <1>2, <1>3, <1>4, <1>5, <1>6 DEF Step, LightsNext

(* A blink ends where its handler finds the counter at 0, and it got there  *)
(* by turning the LED off.                                                  *)
LEMMA EndsDark ==
    ASSUME LightsInv, [Step]_lightsVars
    PROVE  [Alone /\ job.step = "again" /\ pending' = 0 => pin \notin lit']_lightsVars
<1> SUFFICES ASSUME Step, Alone, job.step = "again", pending' = 0
             PROVE  pin \notin lit'
  OBVIOUS
<1>1. job # Idle
  BY DEF Idle
<1>2. Again
  BY <1>1 DEF Step, LightsNext, Cancel, Paint, Turn, AlarmFires, Button, RejoinAttempt,
              Command, Left, SteeringSucceeds, SteeringFails, CliJoin, SetBlue, Start, Alone
<1>3. pending = 0 /\ count \in 0..3 /\ (count = 0 => pin \notin lit)
  BY DEF LightsInv, OneChain
<1>4. count = 0 /\ lit' = lit
  BY <1>2, <1>3, LightsAssumption DEF Again
<1> QED
  BY <1>3, <1>4

LEMMA LightsGood == LightsInv => OneBlinkAtATime /\ SearchIsCounted
  BY DEF LightsInv, Types, OneChain, Counted, OneBlinkAtATime, SearchIsCounted

-----------------------------------------------------------------------------
(* A step of the bulb is one of the identify server, or leaves it alone.    *)
LEMMA IdentifyServes == [Next]_vars => [IdentifyNext]_identifyVars
<1> SUFFICES ASSUME [Next]_vars PROVE [IdentifyNext]_identifyVars
  OBVIOUS
<1>1. CASE IdentifyStep
  BY <1>1 DEF IdentifyStep, IdentifyNext
<1>2. CASE ShowIdentifying
  BY <1>2 DEF ShowIdentifying, IdentifyNext
<1>3. CASE GroupCommand \/ LightStep \/ CliStep
             \/ \E ep \in Endpoints, g \in Groups : AddGroupIfIdentifying(ep, g)
  BY <1>3 DEF GroupCommand, LightStep, CliStep, AddGroupIfIdentifying
<1>4. CASE Lost \/ UNCHANGED vars
  BY <1>4 DEF Lost, vars
<1> QED
  BY <1>1, <1>2, <1>3, <1>4 DEF Next

(* A step of the bulb is one of the remote command line, or leaves it alone. *)
LEMMA RemoteServes == [Next]_vars => [RemoteNext]_remoteVars
<1> SUFFICES ASSUME [Next]_vars PROVE [RemoteNext]_remoteVars
  OBVIOUS
<1>1. CASE CliStep
  BY <1>1 DEF CliStep
<1>2. CASE GroupCommand \/ LightStep \/ IdentifyStep \/ ShowIdentifying
             \/ \E ep \in Endpoints, g \in Groups : AddGroupIfIdentifying(ep, g)
  BY <1>2 DEF GroupCommand, LightStep, IdentifyStep, ShowIdentifying, AddGroupIfIdentifying
<1>3. CASE Lost \/ UNCHANGED vars
  BY <1>3 DEF Lost, vars
<1> QED
  BY <1>1, <1>2, <1>3 DEF Next

(* A step of the bulb is one of the groups server or of the stack, or       *)
(* leaves the binding table alone.                                          *)
LEMMA GroupsServe == [Next]_vars => [GroupsNext]_groupsVars
<1> SUFFICES ASSUME [Next]_vars PROVE [GroupsNext]_groupsVars
  OBVIOUS
<1>1. CASE GroupCommand
  BY <1>1 DEF GroupCommand
<1>2. CASE \E ep \in Endpoints, g \in Groups : AddGroupIfIdentifying(ep, g)
  BY <1>2 DEF AddGroupIfIdentifying, GroupsNext
<1>3. CASE LightStep \/ CliStep \/ IdentifyStep \/ ShowIdentifying
  BY <1>3 DEF LightStep, CliStep, IdentifyStep, ShowIdentifying
<1>4. CASE Lost \/ UNCHANGED vars
  BY <1>4 DEF Lost, vars
<1> QED
  BY <1>1, <1>2, <1>3, <1>4 DEF Next

(* A step of the bulb is one of the application, an identify callback       *)
(* included, or leaves it alone.                                            *)
LEMMA LightsServe == [Next]_vars => [Step]_lightsVars
<1> SUFFICES ASSUME [Next]_vars PROVE [Step]_lightsVars
  OBVIOUS
<1>1. CASE LightStep
  BY <1>1 DEF LightStep, Step
<1>2. CASE ShowIdentifying
  BY <1>2 DEF ShowIdentifying, Step
<1>3. CASE GroupCommand \/ CliStep \/ IdentifyStep
             \/ \E ep \in Endpoints, g \in Groups : AddGroupIfIdentifying(ep, g)
  BY <1>3 DEF GroupCommand, CliStep, IdentifyStep, AddGroupIfIdentifying
<1>4. CASE Lost \/ UNCHANGED vars
  BY <1>4 DEF Lost, vars
<1> QED
  BY <1>1, <1>2, <1>3, <1>4 DEF Next

-----------------------------------------------------------------------------
(* However writes, seconds, callbacks, commands and the button interleave,  *)
(* the last identify callback called or waiting says what the attribute of  *)
(* tr_identify_server.c says.                                               *)
THEOREM BulbFollows == Spec => []ApplicationFollows
<1>1. Init => IdentifyInv
  BY IdentifyStarts DEF Init
<1>2. IdentifyInv /\ [Next]_vars => IdentifyInv'
  BY IdentifySteps, IdentifyServes
<1>3. IdentifyInv => ApplicationFollows
  BY DEF IdentifyInv
<1> QED
  BY <1>1, <1>2, <1>3, PTL DEF Spec

(* Output that waits in the ring buffer of tr_remote_cli_server.c always    *)
(* has an alarm or a packet's callback that will see it.                    *)
THEOREM BulbOutputMoves == Spec => []OutputIsOnItsWay
<1>1. Init => OutputInv
  BY InitCounters DEF Init
<1>2. OutputInv /\ [Next]_vars => OutputInv'
  BY StepMoves, RemoteServes
<1>3. OutputInv => OutputIsOnItsWay
  BY DEF OutputInv
<1> QED
  BY <1>1, <1>2, <1>3, PTL DEF Spec

LEMMA BulbLights == Spec => []LightsInv
<1>1. Init => LightsInv
  BY LightsStart DEF Init
<1>2. LightsInv /\ [Next]_vars => LightsInv'
  BY LightsSteps, LightsServe
<1> QED
  BY <1>1, <1>2, PTL DEF Spec

(* led_blink and led_blink_handler keep one chain of alarms and do not lose *)
(* count of it, unless an alarm is due when it is cancelled or the button   *)
(* blinks in the middle of a blink.                                         *)
THEOREM OneBlink == Spec => []OneBlinkAtATime
<1>1. LightsInv => OneBlinkAtATime
  BY LightsGood
<1> QED
  BY <1>1, BulbLights, PTL

(* zboss_signal_handler counts every attempt to find a network that the     *)
(* application begins: the search gives up.                                 *)
THEOREM SearchCounted == Spec => []SearchIsCounted
<1>1. LightsInv => SearchIsCounted
  BY LightsGood
<1> QED
  BY <1>1, BulbLights, PTL

(* A blink that comes to its end leaves its LED dark, whatever commands and *)
(* identify callbacks did to it on the way.                                 *)
THEOREM BlinkGoesDark == Spec => BlinkEndsDark
<1>1. LightsInv /\ [Next]_vars
        => [Alone /\ job.step = "again" /\ pending' = 0 => pin \notin lit']_lightsVars
  BY EndsDark, LightsServe
<1> QED
  BY <1>1, BulbLights, PTL DEF Spec, BlinkEndsDark

-----------------------------------------------------------------------------
(* The bulb is a user of the binding table as Groups describes it: what is  *)
(* proved of the table holds of the bulb.                                   *)
THEOREM BulbGroups == Spec => GroupsSpec
<1>1. Init => GroupsInit
  BY DEF Init
<1>2. [Next]_vars => [GroupsNext]_groupsVars
  BY GroupsServe
<1> QED
  BY <1>1, <1>2, PTL DEF Spec, GroupsSpec

(* Until a counter wraps the bulb's table is a set of bindings, of whose    *)
(* sources each is known and none is there twice, which follows the         *)
(* membership, with Add Group If Identifying, too; and one binding to a     *)
(* device keeps the loops inside the table.                                 *)
THEOREM BulbTable ==
    Spec => /\ []SourcesAreKnown /\ IsASetOfBindings
            /\ BindingFollowsMembership /\ DeviceBindingProtects
  BY BulbGroups, SourcesKnown, ArraysAreASet, BindingsFollow, DevicesProtect, PTL

-----------------------------------------------------------------------------
(* Types.  The callbacks waiting stay within their bound, for a second that *)
(* passes adds one only once before another time is written; the packets    *)
(* and alarms of the command line do, for each buffer is in the pool, held  *)
(* by an alarm or being sent, or lost with an alarm that was cancelled.     *)
CallsFit == Identifying => Len(calls) <= MaxCalls

LEMMA IdentifyTypes ==
    ASSUME IdentifyTypeOK, CallsFit, [IdentifyNext]_identifyVars
    PROVE  IdentifyTypeOK' /\ CallsFit'
<1> DEFINE S == {"start", "stop"}
<1>1. /\ calls \in Seq(S) /\ Len(calls) \in Nat /\ Len(calls) <= MaxCalls + 1 /\ MaxCalls \in Nat
      /\ MaxTime \in Nat /\ time \in 0..MaxTime /\ ticks \in 0..1 /\ told \in S
      /\ Identifying => Len(calls) <= MaxCalls
  BY IdentifyAssumption DEF IdentifyTypeOK, CallsFit
<1>2. ASSUME NEW c \in S PROVE Append(calls, c) \in Seq(S) /\ Len(Append(calls, c)) = Len(calls) + 1
  BY <1>1
<1>3. ASSUME NEW t \in 0..MaxTime, SetTime(t) PROVE IdentifyTypeOK' /\ CallsFit'
  <2>1. time' = t /\ told' = told /\ Len(calls) < MaxCalls
    BY <1>3 DEF SetTime
  <2>2. ticks' \in 0..1 /\ (calls' = calls \/ \E c \in S : calls' = Append(calls, c))
    BY <1>1, <1>3 DEF SetTime, StartIdentifying, StopIdentifying
  <2>3. calls' \in Seq(S) /\ Len(calls') <= MaxCalls
    BY <1>1, <1>2, <2>1, <2>2
  <2> QED
    BY <1>1, <2>1, <2>2, <2>3 DEF IdentifyTypeOK, CallsFit
<1>4. CASE Tick
  <2>1. CASE time = 1 /\ time' = 0 /\ ticks' = 1 /\ calls' = Append(calls, "stop") /\ told' = told
    <3>1. calls' \in Seq(S) /\ Len(calls') <= MaxCalls + 1
      BY <1>1, <1>2, <2>1 DEF Identifying
    <3> QED
      BY <1>1, <2>1, <3>1 DEF IdentifyTypeOK, CallsFit, Identifying
  <2>2. CASE /\ calls' = calls /\ told' = told /\ ticks' \in 0..1
             /\ time' \in 0..MaxTime /\ (time = 0 => time' = 0)
    BY <1>1, <2>2 DEF IdentifyTypeOK, CallsFit, Identifying
  <2> QED
    BY <1>1, <1>4, <2>1, <2>2 DEF Tick
<1>5. ASSUME NEW c \in S, Called(c) PROVE IdentifyTypeOK' /\ CallsFit'
  <2>1. calls' = Tail(calls) /\ calls # <<>> /\ told' \in S /\ UNCHANGED <<time, ticks>>
    BY <1>5 DEF Called
  <2>2. Tail(calls) \in Seq(S) /\ Len(Tail(calls)) = Len(calls) - 1
    BY <1>1, <2>1, HeadTailProperties
  <2>3. calls' \in Seq(S) /\ Len(calls') <= MaxCalls
    BY <1>1, <2>1, <2>2
  <2> QED
    BY <1>1, <2>1, <2>3 DEF IdentifyTypeOK, CallsFit
<1>6. CASE UNCHANGED identifyVars
  BY <1>1, <1>6 DEF identifyVars, IdentifyTypeOK, CallsFit, Identifying
<1> QED
  BY <1>3, <1>4, <1>5, <1>6 DEF IdentifyNext

BuffersCount ==
    /\ free + held + sending <= Buffers
    /\ fresh + held + sending + (IF Broken THEN 0 ELSE free) <= Buffers + 1

LEMMA RemoteTypes ==
    ASSUME RemoteTypeOK, BuffersCount, [RemoteNext]_remoteVars
    PROVE  RemoteTypeOK' /\ BuffersCount'
<1> DEFINE q1 == queue'
           f1 == fresh'
           h1 == held'
           s1 == sending'
           r1 == free'
<1> DEFINE Good == /\ q1 \in 0..QueueSize /\ f1 \in 0..(Buffers + 1) /\ r1 \in (-1)..Buffers
                   /\ h1 \in 0..(Buffers + 1) /\ s1 \in 0..(Buffers + 1)
                   /\ r1 + h1 + s1 <= Buffers
                   /\ f1 + h1 + s1 + (IF r1 < 0 THEN 0 ELSE r1) <= Buffers + 1
<1>1. /\ queue \in 0..QueueSize /\ fresh \in 0..(Buffers + 1) /\ free \in (-1)..Buffers
      /\ held \in 0..(Buffers + 1) /\ sending \in 0..(Buffers + 1)
      /\ free + held + sending <= Buffers
      /\ fresh + held + sending + (IF free < 0 THEN 0 ELSE free) <= Buffers + 1
  BY DEF RemoteTypeOK, BuffersCount, Broken
<1>2. {QueueSize, PayloadSize, MaxPrint, Buffers} \subseteq Nat \ {0}
  BY RemoteCliAssumption
<1>3. enabled \in BOOLEAN /\ tmpEnable \in BOOLEAN
  BY DEF RemoteTypeOK
<1>4. enabled' \in BOOLEAN /\ tmpEnable' \in BOOLEAN
  BY <1>3, Zenon DEF RemoteNext, TrPrintf, SendResponse, ResponseSent, CliCommand, CliCommandDone,
                     Enable, remoteVars
<1>5. SUFFICES Good
  <2>1. RemoteTypeOK' = (/\ q1 \in 0..QueueSize /\ f1 \in 0..Buffers + 1
                         /\ {h1, s1} \subseteq 0..Buffers + 1 /\ r1 \in -1..Buffers
                         /\ {enabled', tmpEnable'} \subseteq BOOLEAN)
    BY DEF RemoteTypeOK
  <2>2. BuffersCount' = (/\ r1 + h1 + s1 <= Buffers
                         /\ f1 + h1 + s1 + (IF r1 < 0 THEN 0 ELSE r1) <= Buffers + 1)
    BY DEF BuffersCount, Broken
  <2> HIDE DEF q1, f1, h1, s1, r1
  <2> QED
    BY <1>4, <2>1, <2>2
<1>6. CASE TrPrintf
  <2>1. PICK n \in 1..MaxPrint : ~Broken /\ AddOutput(n)
    BY <1>6 DEF TrPrintf
  <2>2. /\ q1 = Enqueued(n) /\ s1 = sending /\ r1 = free /\ ~(free < 0)
        /\ \/ fresh > 0 /\ f1 = fresh /\ h1 = held
           \/ held > 0 /\ h1 = held - 1 /\ f1 = fresh + 1
           \/ fresh = 0 /\ held = 0 /\ f1 = 1 /\ h1 = held
    BY <2>1 DEF AddOutput, Broken
  <2>3. Enqueued(n) \in 0..QueueSize
    BY <1>1, <1>2 DEF Enqueued
  <2> HIDE DEF q1, f1, h1, s1, r1
  <2> QED
    BY <1>1, <1>2, <2>2, <2>3
<1>7. CASE SendResponse
  <2>1. /\ q1 = Dequeued /\ s1 = sending + 1 /\ ~(free < 0)
        /\ \/ fresh > 0 /\ f1 = fresh - 1 /\ r1 = free - 1 /\ h1 = held
           \/ held > 0 /\ h1 = held - 1 /\ f1 = fresh /\ r1 = free
    BY <1>7 DEF SendResponse, Broken
  <2>2. Dequeued \in 0..QueueSize
    BY <1>1, <1>2 DEF Dequeued
  <2> HIDE DEF q1, f1, h1, s1, r1
  <2> QED
    BY <1>1, <1>2, <2>1, <2>2
<1>8. CASE ResponseSent
  <2>1. /\ q1 = queue /\ f1 = fresh /\ ~(free < 0) /\ sending > 0 /\ s1 = sending - 1
        /\ \/ r1 = free + 1 /\ h1 = held
           \/ h1 = held + 1 /\ r1 = free
    BY <1>8 DEF ResponseSent, Broken
  <2> HIDE DEF q1, f1, h1, s1, r1
  <2> QED
    BY <1>1, <1>2, <2>1
<1>9. CASE CliCommand \/ CliCommandDone \/ Enable \/ UNCHANGED remoteVars
  <2>1. q1 = queue /\ f1 = fresh /\ h1 = held /\ s1 = sending /\ r1 = free
    BY <1>9 DEF CliCommand, CliCommandDone, Enable, remoteVars, outputVars
  <2> HIDE DEF q1, f1, h1, s1, r1
  <2> QED
    BY <1>1, <2>1
<1> QED
  BY <1>6, <1>7, <1>8, <1>9 DEF RemoteNext

LEMMA LightsTypes ==
    ASSUME LightsTypeOK, LightsInv', [Step]_lightsVars
    PROVE  LightsTypeOK'
<1>1. /\ count' \in 0..255 /\ pending' \in 0..MaxPending /\ job' \in Jobs \cup {Idle}
      /\ attempts' \in 0..255
  BY DEF LightsInv, Types
<1>2. trouble' = trouble
  BY DEF Step, LightsNext, Cancel, Paint, Turn, Again, AlarmFires, Button, RejoinAttempt, Command,
         Left, SteeringSucceeds, SteeringFails, CliJoin, SetBlue, lightsVars
<1>3. conn' \in {"no network", "failed", "joined"}
  BY DEF LightsTypeOK, Step, LightsNext, Cancel, Paint, Turn, Again, AlarmFires, Button, RejoinAttempt,
         Command, Left, SteeringSucceeds, SteeringFails, CliJoin, SetBlue, lightsVars, searchVars
<1>4. steering' \in BOOLEAN
  BY Zenon DEF LightsTypeOK, Step, LightsNext, Cancel, Paint, Turn, Again, AlarmFires, Button,
         RejoinAttempt, Command, Left, SteeringSucceeds, SteeringFails, CliJoin, SetBlue, lightsVars,
         searchVars
<1>5. job.step = "paint" => job.led \in Colours
  <2>1. CASE job \in Jobs
    BY <2>1 DEF Jobs
  <2>2. CASE job = Idle
    BY <2>2 DEF Idle
  <2> QED
    BY <2>1, <2>2 DEF LightsTypeOK
<1>6. pin' \in Colours
  BY <1>5 DEF LightsTypeOK, Step, LightsNext, Cancel, Paint, Turn, Again, AlarmFires, Button,
         RejoinAttempt, Command, Left, SteeringSucceeds, SteeringFails, CliJoin, SetBlue, lightsVars,
         blinkVars, Colours
<1>7. lit' \subseteq Colours
  BY DEF LightsTypeOK, Step, LightsNext, Cancel, Paint, Turn, Again, AlarmFires, Button,
         RejoinAttempt, Command, Left, SteeringSucceeds, SteeringFails, CliJoin, SetBlue, lightsVars,
         blinkVars, Colours
<1> QED
  BY <1>1, <1>2, <1>3, <1>4, <1>6, <1>7 DEF LightsTypeOK

(* Every variable of the bulb has its type; the bounds of the command line  *)
(* are the stack's own: no more alarms and packets than buffers, and one.   *)
THEOREM BulbTypes == Spec => []TypeOK
<1> DEFINE Inv == TypeOK /\ CallsFit /\ BuffersCount /\ LightsInv /\ GroupsInv
<1>1. Init => Inv
  <2> SUFFICES ASSUME Init PROVE Inv
    OBVIOUS
  <2>1. IdentifyTypeOK /\ CallsFit
    BY IdentifyAssumption DEF Init, IdentifyInit, IdentifyTypeOK, CallsFit, Identifying
  <2>2. RemoteTypeOK /\ BuffersCount
    <3>1. /\ queue = 0 /\ fresh = 0 /\ held = 0 /\ sending = 0 /\ free = Buffers
          /\ enabled = FALSE /\ tmpEnable = FALSE
      BY DEF Init, RemoteInit
    <3>2. QueueSize \in Nat /\ Buffers \in Nat
      BY RemoteCliAssumption
    <3>3. BuffersCount
      BY <3>1, <3>2 DEF BuffersCount, Broken
    <3>4. RemoteTypeOK
      <4>1. {enabled, tmpEnable} \subseteq BOOLEAN
        BY <3>1, Zenon
      <4>2. /\ queue \in 0..QueueSize /\ fresh \in 0..Buffers + 1
            /\ {held, sending} \subseteq 0..Buffers + 1 /\ free \in -1..Buffers
        <5>1. 0 \in 0..Buffers + 1 /\ 0 \in 0..QueueSize /\ Buffers \in -1..Buffers
          BY <3>2
        <5> QED
          BY <3>1, <5>1
      <4> QED
        BY <4>1, <4>2 DEF RemoteTypeOK
    <3> QED
      BY <3>3, <3>4
  <2>3. LightsInv
    BY LightsStart DEF Init
  <2>4. LightsTypeOK
    BY <2>3 DEF Init, LightsInit, LightsInv, Types, LightsTypeOK, Colours
  <2>5. GroupsInv
    BY GroupsStart DEF Init
  <2> QED
    BY <2>1, <2>2, <2>3, <2>4, <2>5 DEF TypeOK, Init, GroupsInv
<1>2. Inv /\ [Next]_vars => Inv'
  <2> SUFFICES ASSUME Inv, [Next]_vars PROVE Inv'
    OBVIOUS
  <2>1. IdentifyTypeOK' /\ CallsFit'
    BY IdentifyServes, IdentifyTypes DEF TypeOK
  <2>2. RemoteTypeOK' /\ BuffersCount'
    BY RemoteServes, RemoteTypes DEF TypeOK
  <2>3. LightsInv'
    BY LightsServe, LightsSteps
  <2>4. LightsTypeOK'
    BY <2>3, LightsServe, LightsTypes DEF TypeOK
  <2>5. GroupsInv'
    BY GroupsServe, GroupsSteps
  <2>6. scene' \in Scenes
    BY DEF TypeOK, Next, vars
  <2> QED
    BY <2>1, <2>2, <2>3, <2>4, <2>5, <2>6 DEF TypeOK, GroupsInv
<1> QED
  BY <1>1, <1>2, PTL DEF Spec

=============================================================================
