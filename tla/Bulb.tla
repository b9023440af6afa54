--------------------------------- MODULE Bulb ---------------------------------
(***************************************************************************)
(* The bulb: it identifies itself, which an LED shows, and joins groups    *)
(* while it does.  The other commands that change groups and bindings, and *)
(* the command line with its output, have nothing to do with the LEDs, so  *)
(* each behaviour shows one of them.                                       *)
(***************************************************************************)
EXTENDS Identify, Groups, Lights, RemoteCli

CONSTANTS
    BulbEndpoint,   \* TR_DEVICE_EP1, which has the identify cluster
    Scenes          \* what is looked at: "groups", "lights", "cli"

ASSUME BulbAssumption == BulbEndpoint \in Endpoints /\ Scenes \subseteq {"groups", "lights", "cli"}

VARIABLE scene      \* chosen once

vars == <<identifyVars, groupsVars, lightsVars, remoteVars, scene>>

TypeOK ==
    /\ IdentifyTypeOK /\ GroupsTypeOK /\ LightsTypeOK /\ RemoteTypeOK
    /\ scene \in Scenes

Init ==
    /\ IdentifyInit /\ GroupsInit /\ LightsInit /\ RemoteInit
    /\ scene \in Scenes /\ (scene # "lights" => trouble = "none")

(* add_group_handler of Add Group If Identifying                            *)
AddGroupIfIdentifying(ep, g) ==
    /\ AddGroup(ep, g)
    /\ scene = "lights" /\ trouble = "none" /\ job = Idle
    /\ ep = BulbEndpoint /\ Identifying
    /\ UNCHANGED <<identifyVars, lightsVars, remoteVars>>

GroupCommand == scene = "groups" /\ GroupsNext /\ UNCHANGED <<identifyVars, lightsVars, remoteVars>>

LightStep == scene = "lights" /\ LightsNext /\ UNCHANGED <<identifyVars, groupsVars, remoteVars>>

CliStep == scene = "cli" /\ RemoteNext /\ UNCHANGED <<identifyVars, groupsVars, lightsVars>>

(* A second passes, or the attribute is written.                            *)
IdentifyStep ==
    /\ scene = "lights" /\ trouble = "none" /\ job = Idle
    /\ Tick \/ \E t \in 0..MaxTime : SetTime(t)
    /\ UNCHANGED <<groupsVars, lightsVars, remoteVars>>

(* tr_identify_server_identify_start_cb, ..._stop_cb                        *)
ShowIdentifying ==
    /\ \/ Called("start") /\ SetBlue(TRUE)
       \/ Called("stop") /\ SetBlue(FALSE)
    /\ UNCHANGED <<groupsVars, remoteVars>>

(* Nothing is known of a program that wrote over its memory.                *)
Lost == (Undefined \/ Broken) /\ UNCHANGED vars

Next ==
    /\ \/ GroupCommand \/ LightStep \/ CliStep \/ IdentifyStep \/ ShowIdentifying \/ Lost
       \/ \E ep \in Endpoints, g \in Groups : AddGroupIfIdentifying(ep, g)
    /\ UNCHANGED scene

Spec == Init /\ [][Next]_vars

=============================================================================
