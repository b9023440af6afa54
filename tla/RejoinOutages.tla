---------------------------- MODULE RejoinOutages ----------------------------
(* NetworkRejoin with the memory of the delays of the present outage: what  *)
(* delay_sec would be were it the first and nobody had pressed the button.  *)
EXTENDS NetworkRejoin

VARIABLE fresh   \* auxiliary

OutagesInit == Init /\ fresh = 0

OutagesNext ==
    /\ Next
    /\ fresh' = IF pc = "stop" /\ pc' = "idle" THEN 0
                ELSE IF pc = "backoff" /\ pc' = "idle" THEN NextDelay(fresh)
                ELSE fresh

OutagesSpec == OutagesInit /\ [][OutagesNext]_<<vars, fresh>>

FairSpec == OutagesSpec /\ Fairness

-----------------------------------------------------------------------------
(* Outages are alike: whatever came before, a wait is never longer than the *)
(* first outage's one after (tr_network_rejoin_backoff_start resets the     *)
(* delay to its start, not to 0: the first wait is already a multiple), and *)
(* never shorter than its own but for the button.                           *)
OutagesAlike == delay <= NextDelay(fresh) /\ (user # "button" => fresh <= delay)

=============================================================================
