------------------------------ MODULE MCCordova ------------------------------
(***************************************************************************)
(* Instances for TLC of what PhoneGap puts around the page: the bridge     *)
(* (the constants of Bridge are in the configuration), the start of a page *)
(* and the scripts that deploy the application.  They share nothing, so a  *)
(* behaviour plays one of the scenes below: the parts the scene is not     *)
(* about stay in their first states.                                       *)
(***************************************************************************)
EXTENDS Bridge

CONSTANTS
  Modules, Waits, PageHandlers, MaxPageChanges,                (* Startup  *)
  Devices, Serials, Avds, Levels, ProjectTarget, Targets, MaxDeviceChanges,
  None                                                         (* Deploy   *)

VARIABLES
  scene,
  state, handlers, agenda, joins, deviceReadyChannelsArray, deviceReadyTimer,
  started, readyState, pluginList, loading, loaded, initialized, domListeners,
  shown, called, override,                                     (* Startup  *)
  pc, option, level, apk, built, devices, emulators, booted, launching, seen,
  wanted, target, startedEmulator, installed, took, code,      (* Deploy   *)
  changes                                                      (* both     *)

startup == <<state, handlers, agenda, joins, deviceReadyChannelsArray, deviceReadyTimer,
             started, readyState, pluginList, loading, loaded, initialized,
             domListeners, shown, called, override>>
deploy == <<pc, option, level, apk, built, devices, emulators, booted, launching, seen,
            wanted, target, startedEmulator, installed, took, code>>
all == <<scene, vars, startup, deploy, changes>>

Plugins == {"acceleration", "accelerometer"}
WaitsFor == [m \in Plugins |-> IF m = "acceleration" THEN <<"motion">> ELSE <<"sensor">>]

(* A start in which scripts fail and the back button is asked for, and one *)
(* without either.                                                         *)
Rough == INSTANCE Startup WITH MayFail <- TRUE, MaxChanges <- MaxPageChanges
Smooth == INSTANCE Startup WITH MayFail <- FALSE, MaxChanges <- 0

Deploys == INSTANCE Deploy WITH MaxChanges <- MaxDeviceChanges, started <- startedEmulator

ASSUME StartupsAssumption == Rough!StartupAssumption /\ Smooth!StartupAssumption
ASSUME DeploysAssumption == Deploys!DeployAssumption

(* In the scene "answers" no callback calls androidExec; in "calls" some do*)
Scenes == {"calls", "answers", "rough", "smooth", "deploy"}

AllInit ==
  /\ scene \in Scenes
  /\ Init
  /\ Rough!Init /\ (scene \notin {"rough", "smooth"} => readyState = "loading")
  /\ IF scene = "deploy" THEN Deploys!Init
     ELSE /\ pc = None /\ option = None /\ level = None /\ apk = None /\ built = None
          /\ devices = None /\ emulators = None /\ booted = None /\ launching = None
          /\ seen = None /\ wanted = None /\ target = None /\ startedEmulator = None
          /\ installed = None /\ took = FALSE /\ code = None

InBridge(s) == scene = s /\ UNCHANGED <<scene, startup, deploy, changes>>
InStartup(s) == scene = s /\ UNCHANGED <<scene, vars, deploy>>
InDeploy == scene = "deploy" /\ UNCHANGED <<scene, vars, startup>>

CallsFromCallbacks == callbackId' # callbackId /\ Running("callback")

AllNext ==
  \/ InBridge("calls") /\ Next
  \/ InBridge("answers") /\ Next /\ ~CallsFromCallbacks
  \/ InStartup("rough") /\ Rough!Next
  \/ InStartup("smooth") /\ Smooth!Next
  \/ InDeploy /\ Deploys!Next

AllSpec == AllInit /\ [][AllNext]_all

(* The fairness of Bridge and of Startup.  A behaviour stays in its scene, *)
(* so that one conjunct serves actions of both.                            *)
AllFairSpec ==
  /\ AllSpec
  /\ WF_all(\/ InBridge("answers") /\ Run
            \/ InStartup("smooth") /\ Smooth!Run)
  /\ WF_all(\/ InBridge("answers") /\ PollTimer
            \/ InStartup("smooth") /\ Smooth!CordovaInit)
  /\ WF_all(\/ InBridge("answers") /\ PollingTimer
            \/ InStartup("smooth") /\ Smooth!DOMContentLoaded)
  /\ WF_all(\/ InBridge("answers") /\ PollOnceFromOnlineEvent
            \/ InStartup("smooth") /\ Smooth!PluginListLoaded)
  /\ WF_all(InStartup("smooth") /\ Smooth!ScriptLoaded)
  /\ WF_all(InStartup("smooth") /\ Smooth!DeviceReady)
  /\ SF_all(InStartup("smooth") /\ Smooth!InitializationComplete)

-----------------------------------------------------------------------------
(* While no callback calls androidExec, every message the native side      *)
(* makes is handled in the end.                                            *)
MessagesProcessed == scene = "answers" => EveryMessageProcessed

(* A page hears deviceready only after all it holds back for, and once     *)
(* however early or late it listens; and the native side overrides the     *)
(* back button while the page handles it.                                  *)
StartsInOrder ==
  /\ scene = "rough" =>
       Rough!TypeOK /\ Rough!NotReadyTooEarly /\ Rough!ReadyOnce /\ Rough!OverrideMatches
  /\ scene = "smooth" =>
       Smooth!TypeOK /\ Smooth!NotReadyTooEarly /\ Smooth!ReadyOnce

(* When nothing fails, deviceready comes after the loading, and whoever    *)
(* listens hears it.                                                       *)
ReadyComes == scene = "smooth" => Smooth!ReadyComes /\ Smooth!ListenersGetReady

(* A script that ends well has gone to the target that was asked for, with *)
(* what was to be built.                                                   *)
InstalledAsAsked ==
  scene = "deploy" => Deploys!InstalledAsAsked

=============================================================================
