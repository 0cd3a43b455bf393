-------------------------------- MODULE Deploy --------------------------------
(***************************************************************************)
(* Building the phone application and running it on a device or emulator   *)
(* (cordova/lib of the Android project: run, build, clean, check_reqs,     *)
(* device, emulator).  One script runs commands one after the other; what  *)
(* adb lists changes between them.  The commands and their surroundings    *)
(* are external.  A list comes in any order.                               *)
(***************************************************************************)
EXTENDS Integers, Sequences, FiniteSets, SequencesExt

CONSTANTS
  Devices, Serials,   (* what adb may list: devices, and emulators         *)
  Avds,               (* the emulator images                               *)
  Levels,             (* API levels an image may have                      *)
  ProjectTarget,      (* the API level of project.properties               *)
  Targets,            (* what the command line may ask for                 *)
  None,
  MaxChanges          (* how often something else changes what adb lists   *)

(* Nothing has two names, and no name is one of an option, an exit code or *)
(* what is written for the image of an emulator below.                     *)
Options == {None, "--device", "--emulator"}

Off == "off"
Foreign == "foreign"    (* an emulator that somebody else started          *)

DeployAssumption ==
  /\ Levels \subseteq 1..99 /\ ProjectTarget \in 1..99 /\ MaxChanges \in Nat
  /\ Targets \subseteq Devices \cup Serials \cup Avds \cup Options
  /\ Devices \cap Serials = {} /\ Avds \cap (Devices \cup Serials) = {}
  /\ Options \cap (Devices \cup Serials \cup Avds) = {} /\ {Off, Foreign} \cap Avds = {}
  /\ None \notin {"--device", "--emulator", 0, 2} /\ IsFiniteSet(Avds)

VARIABLES
  pc, option,         (* build_type and install_target                     *)
  level,              (* of each image, 0 if there is no such image        *)
  apk, built,         (* an apk is in bin; this run built it               *)
  devices,            (* listed devices                                    *)
  emulators,          (* the image each serial runs                        *)
  booted, launching,
  seen,               (* what the lists said that the script still uses    *)
  wanted,             (* the image to start                                *)
  target,             (* the argument of install, None for undefined       *)
  started,            (* what emulator.start returned, with its image      *)
  installed,          (* the target whose installation the script saw go   *)
                      (*  well                                             *)
  took,               (* adb did install there                             *)
  code,               (* the exit code, None while the script runs         *)
  changes

bin == <<apk, built>>
world == <<devices, emulators, booted, launching, changes>>
chosen == <<seen, wanted, target, started>>
deployed == <<installed, took>>
vars == <<pc, option, level, bin, world, chosen, deployed, code>>

Running == {s \in Serials : emulators[s] # Off}
Images == {a \in Avds : level[a] # 0}

Init ==
  /\ pc = "check_reqs"
  /\ option \in [build : {"--debug", "--release", "--nobuild"}, target : Targets]
  /\ level \in [Avds -> Levels \cup {0}]
  /\ apk \in BOOLEAN /\ built = FALSE
  /\ devices \in SUBSET Devices
  /\ emulators \in [Serials -> {Off, Foreign}] /\ \E s \in Serials : emulators[s] = Off
  /\ booted = {s \in Serials : emulators[s] # Off} /\ launching = {}
  /\ seen = {} /\ wanted = None /\ target = None
  /\ started = None /\ installed = None /\ took = FALSE /\ code = None /\ changes = 0

At(label) == code = None /\ pc = label
Goto(label) == pc' = label /\ UNCHANGED code
Exit(c) == code' = c /\ UNCHANGED pc

-----------------------------------------------------------------------------
(* check_reqs.run; check_java is named there but never called.             *)
CheckReqs ==
  /\ At("check_reqs")
  /\ Goto("run") \/ Exit(2)
  /\ UNCHANGED <<option, level, bin, world, chosen, deployed>>

(* run: an option it does not know ends it before anything is built.       *)
Builds(build) == build # "--nobuild"

ParseArgs ==
  /\ At("run")
  /\ Exit(2) \/ Goto(IF Builds(option.build) THEN "clean" ELSE "choose")
  /\ UNCHANGED <<option, level, bin, world, chosen, deployed>>

(* clean.run: ant clean empties bin.                                       *)
Clean ==
  /\ At("clean") /\ apk' = FALSE
  /\ Goto("ant") \/ Exit(2)
  /\ UNCHANGED <<option, level, built, world, chosen, deployed>>

(* build.run: ant debug or ant release.                                    *)
Ant ==
  /\ At("ant")
  /\ \E ok \in BOOLEAN :
       /\ built' = ok /\ apk' = (apk \/ ok)
       /\ IF ok THEN Goto("choose") ELSE Exit(2)
  /\ UNCHANGED <<option, level, world, chosen, deployed>>

(* What run does with install_target, up to the first list it needs.       *)
Choose ==
  /\ At("choose")
  /\ Goto(CASE option.target = "--device" -> "device.install"
            [] option.target = "--emulator" -> IF Running = {} THEN "emulator.start"
                                               ELSE "emulator.install"
            [] OTHER -> "device.list")
  /\ UNCHANGED <<option, level, bin, world, chosen, deployed>>

(* device.list, for a target and without one: the first device is taken.   *)
ListDevices ==
  /\ At("device.list")
  /\ \/ /\ option.target = None /\ \E d \in devices : target' = d
        /\ Goto("device.install") /\ UNCHANGED seen
     \/ /\ option.target = None /\ devices = {}
        /\ Goto("emulator.list_started") /\ UNCHANGED <<target, seen>>
     \/ /\ option.target # None /\ seen' = devices
        /\ Goto("emulator.list_started") /\ UNCHANGED target
  /\ UNCHANGED <<option, level, bin, world, wanted, started, deployed>>

ImageNamed(name) == IF name \in Images THEN name ELSE None

(* emulator.list_started, and what follows from the two lists.             *)
ListStarted ==
  /\ At("emulator.list_started")
  /\ IF option.target = None
     THEN /\ UNCHANGED wanted
          /\ \/ \E s \in Running : target' = s /\ Goto("emulator.install")
             \/ Running = {} /\ UNCHANGED target /\ Goto("emulator.start")
     ELSE /\ target' = IF option.target \in seen \cup Running THEN option.target ELSE None
          /\ wanted' = ImageNamed(option.target)
          /\ \/ option.target \in seen /\ Goto("device.install")
             \/ option.target \in Running \ seen /\ Goto("emulator.install")
             \/ option.target \in Images \ (seen \cup Running) /\ Goto("emulator.start")
             \/ option.target \notin seen \cup Running \cup Images /\ Exit(2)
  /\ UNCHANGED <<option, level, bin, world, seen, started, deployed>>

-----------------------------------------------------------------------------
(* Strings that stand for numbers are compared as strings.                 *)
Digits(n) == IF n < 10 THEN <<n>> ELSE <<n \div 10, n % 10>>
StringGreater(m, n) ==
  LET a == Digits(m)  b == Digits(n)
  IN  \/ a[1] > b[1]
      \/ a[1] = b[1] /\ Len(a) > Len(b)
      \/ a[1] = b[1] /\ Len(a) = 2 /\ Len(b) = 2 /\ a[2] > b[2]

(* emulator.best_image over the images in the order of their list.         *)
Better(choice, image) ==
  IF \/ level[choice.best] = ProjectTarget
     \/ /\ level[image] # ProjectTarget
        /\ \/ ProjectTarget - level[image] >= choice.closest
           \/ ~StringGreater(ProjectTarget, level[image])
  THEN choice
  ELSE [best |-> image, closest |-> ProjectTarget - level[image]]

BestOfFirst(images) ==
  LET choice[n \in 0..Len(images)] ==
        IF n = 0 THEN [best |-> images[1], closest |-> 9999]
        ELSE Better(choice[n - 1], images[n])
  IN  choice

BestImage(images) == BestOfFirst(images)[Len(images)].best

(* emulator.start: notes what runs and starts the image, or the best one.  *)
Start ==
  /\ At("emulator.start")
  /\ IF Images = {} /\ wanted = None THEN Exit(2) /\ UNCHANGED <<seen, wanted, launching>>
     ELSE /\ Goto("wait_for_emulator")
          /\ seen' = Running
          /\ \/ wanted # None /\ UNCHANGED wanted
             \/ /\ wanted = None
                /\ \E images \in SetToSeqs(Images) : wanted' = BestImage(images)
          /\ launching' = launching \cup {wanted'}
  /\ UNCHANGED <<option, level, bin, devices, emulators, booted, changes, target, started,
                 deployed>>

(* wait_for_emulator compares numbers only; start takes the last serial    *)
(* it did not know, or the only one there is.                              *)
Grown == Cardinality(Running) > Cardinality(seen)

WaitForEmulator ==
  /\ At("wait_for_emulator") /\ Grown
  /\ \E s \in Running :
       /\ s \notin seen \/ Running = {s}
       /\ started' = [serial |-> s, image |-> emulators[s]]
  /\ Goto("wait_for_boot")
  /\ UNCHANGED <<option, level, bin, world, seen, wanted, target, deployed>>

(* wait_for_boot, unlock; run hands on the serial, or lets install choose. *)
WaitForBoot ==
  /\ At("wait_for_boot") /\ started.serial \in booted
  /\ target' = IF option.target = "--emulator" THEN None ELSE started.serial
  /\ Goto("emulator.install")
  /\ UNCHANGED <<option, level, bin, world, seen, wanted, started, deployed>>

-----------------------------------------------------------------------------
(* install of device and of emulator: lists again.  adb install may fail:  *)
(* the script ends when the output says Failure.  It also asks for         *)
(* install.error, which a synchronous exec of shelljs never sets: any other*)
(* failure goes unnoticed, and the package that was there is launched.     *)
TakesFaultyFirst(list) == list
Takes(list) == IF target = None THEN list ELSE {target} \cap list

Install(list) ==
  /\ \/ /\ apk /\ \E t \in Takes(list) : installed' = t
        /\ took' \in BOOLEAN /\ Goto("launch")
     \/ UNCHANGED deployed /\ Exit(2)
  /\ UNCHANGED <<option, level, bin, world, chosen>>

DeviceInstall == At("device.install") /\ Install(devices)
EmulatorInstall == At("emulator.install") /\ Install(Running)

(* adb shell am start.                                                     *)
Launch ==
  /\ At("launch")
  /\ Exit(0) \/ Exit(2)
  /\ UNCHANGED <<option, level, bin, world, chosen, deployed>>

(* A list or a start whose command fails ends the script.                  *)
CommandFails ==
  /\ code = None /\ pc \in {"choose", "device.list", "emulator.list_started", "emulator.start"}
  /\ Exit(2)
  /\ UNCHANGED <<option, level, bin, world, chosen, deployed>>

Script ==
  \/ CheckReqs \/ ParseArgs \/ Clean \/ Ant \/ Choose \/ ListDevices \/ ListStarted
  \/ Start \/ WaitForEmulator \/ WaitForBoot
  \/ DeviceInstall \/ EmulatorInstall \/ Launch \/ CommandFails

-----------------------------------------------------------------------------
(* External: an emulator that was launched is listed, under a free serial. *)
Appears ==
  /\ \E a \in launching, s \in Serials \ Running :
       /\ emulators' = [emulators EXCEPT ![s] = a]
       /\ launching' = launching \ {a}
  /\ UNCHANGED <<pc, option, level, bin, devices, booted, changes, chosen, deployed, code>>

Boots ==
  /\ \E s \in Running \ booted : booted' = booted \cup {s}
  /\ UNCHANGED <<pc, option, level, bin, devices, emulators, launching, changes, chosen,
                 deployed, code>>

(* External: devices and the emulators of others come and go.              *)
SomethingElse ==
  /\ code = None /\ changes < MaxChanges /\ changes' = changes + 1
  /\ \/ \E d \in Devices :
          /\ devices' = (devices \cup {d}) \ (devices \cap {d})
          /\ UNCHANGED <<emulators, booted>>
     \/ \E s \in Serials :
          /\ emulators[s] \in {Off, Foreign} /\ UNCHANGED devices
          /\ emulators' = [emulators EXCEPT ![s] = IF @ = Off THEN Foreign ELSE Off]
          /\ booted' = booted \ {s}
  /\ UNCHANGED <<pc, option, level, bin, launching, chosen, deployed, code>>

Next == Script \/ Appears \/ Boots \/ SomethingElse

Spec == Init /\ [][Next]_vars

-----------------------------------------------------------------------------
Places == {"check_reqs", "run", "clean", "ant", "choose", "device.list",
           "emulator.list_started", "emulator.start", "wait_for_emulator",
           "wait_for_boot", "device.install", "emulator.install", "launch"}

TypeOK ==
  /\ pc \in Places /\ code \in {None, 0, 2}
  /\ level \in [Avds -> Levels \cup {0}]
  /\ apk \in BOOLEAN /\ built \in BOOLEAN
  /\ devices \subseteq Devices /\ booted \subseteq Running
  /\ emulators \in [Serials -> {Off, Foreign} \cup Avds] /\ launching \subseteq Avds
  /\ seen \subseteq Devices \cup Serials /\ wanted \in Images \cup {None}
  /\ target \in Devices \cup Serials \cup {None}
  /\ started = None \/ started \in [serial : Serials, image : Avds \cup {Foreign}]
  /\ installed \in Devices \cup Serials \cup {None} /\ took \in BOOLEAN

(* "Installs to the target with the specified id": where the script goes   *)
(* on, however the lists change between choosing and installing.  A device *)
(* or serial that was asked for is where it installs; for an image it is   *)
(* the emulator that start returned, and that one runs the image unless    *)
(* something else came or went meanwhile (start takes any emulator it did  *)
(* not know for its own); --device never ends on an emulator, nor          *)
(* --emulator on a device; and what a run without target announces it      *)
(* deploys to is what it deploys to.                                       *)
GoesWhereAsked ==
  installed # None =>
    /\ option.target = "--device" => installed \in Devices
    /\ option.target = "--emulator" => installed \in Serials
    /\ option.target \in Devices \cup Serials => installed = option.target
    /\ option.target \in Avds =>
         /\ installed = started.serial
         /\ changes = 0 => emulators[installed] = option.target
    /\ target # None => installed = target

(* A script that was told to build and installs, or just believes it did   *)
(* and exits with 0, has built in this very run what it hands to adb: not  *)
(* what bin held before, whichever command failed on the way.              *)
BuildsAreFresh ==
  (took \/ code = 0) /\ option.build # "--nobuild" => built /\ installed # None

(* The script goes to the target that was asked for, and hands adb what    *)
(* was to be built.  Whether adb took it the script only learns from the   *)
(* word "Failure".                                                         *)
InstalledAsAsked == TypeOK /\ GoesWhereAsked /\ BuildsAreFresh

=============================================================================
