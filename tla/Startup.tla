-------------------------------- MODULE Startup --------------------------------
(***************************************************************************)
(* How a page of the phone starts (cordova.js): the channels, the joins    *)
(* that hold deviceready back, the loading of the plugins, the handlers of *)
(* the page.  A channel calls its handlers synchronously, and they fire    *)
(* and subscribe in turn: agenda is what the running script has still to   *)
(* do, innermost call first.  Events of the browser find it empty.         *)
(***************************************************************************)
EXTENDS Integers, Sequences, FiniteSets, SequencesExt

CONSTANTS
  Modules,      (* the modules of cordova_plugins.js                       *)
  Waits,        (* the features each of them waits for, a sequence         *)
  MayFail,      (* whether scripts and factories of modules may fail       *)
  PageHandlers, (* functions of the page                                   *)
  MaxChanges    (* how often the page changes its backbutton handlers      *)

Features == UNION {ToSet(Waits[m]) : m \in Modules}

InitChannels == {"onDOMContentLoaded", "onNativeReady", "onCordovaReady",
                 "onPluginsReady", "deviceready"}

(* The features of plugins and the functions of the page have names of     *)
(* their own.                                                              *)
StartupAssumption ==
  /\ Waits \in [Modules -> Seq(Features)] /\ IsFiniteSet(Modules)
  /\ MayFail \in BOOLEAN /\ MaxChanges \in Nat /\ IsFiniteSet(PageHandlers)
  /\ Features \cap (InitChannels \cup {"backbutton"}) = {}
  /\ PageHandlers \cap {"platform", "device", "show"} = {}

Sticky == InitChannels \cup Features
Channels == Sticky \cup {"backbutton"}

VARIABLES
  state,        (* of each channel: 0 not sticky, 1 not fired, 2 fired     *)
  handlers,
  agenda,
  joins,        (* how many calls each join still needs                    *)
  deviceReadyChannelsArray,
  deviceReadyTimer,   (* the setTimeout of fireDocumentEvent is set        *)
  started,      (* cordova/init has begun                                  *)
  readyState,   (* the document: "loading" or "complete"                   *)
  pluginList,   (* cordova_plugins.js: "none", "loading", "done"           *)
  loading, loaded,    (* the scripts of modules                            *)
  initialized,  (* features whose initialisation is complete               *)
  domListeners, (* handlers the document took before cordova.js was there  *)
  shown,        (* "App", "show" was executed: the web view is visible     *)
  called,       (* how often each handler of the page got deviceready      *)
  override,     (* what the native side knows of the backbutton            *)
  changes

channel == <<state, handlers, domListeners>>
browser == <<readyState, pluginList, loading, loaded>>
effects == <<shown, called, override>>
vars == <<channel, agenda, joins, deviceReadyChannelsArray, deviceReadyTimer, started,
          browser, initialized, effects, changes>>

Init ==
  /\ state = [c \in Channels |-> IF c \in Sticky THEN 1 ELSE 0]
  /\ handlers = [c \in Channels |-> {}] /\ domListeners = {}
  /\ agenda = <<>> /\ joins = [platform |-> 0, device |-> 0]
  /\ deviceReadyChannelsArray = <<"onCordovaReady", "onDOMContentLoaded">>
  /\ deviceReadyTimer = FALSE /\ started = FALSE
  /\ readyState \in {"loading", "complete"} /\ pluginList = "none"
  /\ loading = {} /\ loaded = {} /\ initialized = {}
  /\ shown = FALSE /\ called = [h \in PageHandlers |-> 0] /\ override = FALSE
  /\ changes = 0

Idle == agenda = <<>>
Do(step, of) == [step |-> step, of |-> of]
At(step) == ~Idle /\ Head(agenda).step = step
Of == Head(agenda).of

-----------------------------------------------------------------------------
(* Channel.fire: sticky channels remember; the handlers are copied before  *)
(* they are called, in the order in which the engine keeps them.           *)
Fired(c) == IF state[c] = 1 THEN [state EXCEPT ![c] = 2] ELSE state

Fire ==
  /\ At("fire") /\ state' = Fired(Of)
  /\ \E toCall \in SetToSeqs(handlers[Of]) :
       agenda' = [i \in 1..Len(toCall) |-> Do("call", toCall[i])]
                 \o <<Do("clear", Of)>> \o Tail(agenda)
  /\ UNCHANGED <<handlers, domListeners, joins, deviceReadyChannelsArray, deviceReadyTimer, started,
                 browser, initialized, effects, changes>>

(* The end of fire: a sticky channel needs no handlers any more.           *)
Clear ==
  /\ At("clear") /\ agenda' = Tail(agenda)
  /\ handlers' = IF state[Of] = 2 THEN [handlers EXCEPT ![Of] = {}] ELSE handlers
  /\ UNCHANGED <<state, domListeners, joins, deviceReadyChannelsArray, deviceReadyTimer, started, browser,
                 initialized, effects, changes>>

(* Channel.subscribe: at once if the channel has fired, and then once; no  *)
(* handler is entered twice.                                               *)
SubscribeFaultyOnlyLater(c, h, rest) ==
  agenda' = rest /\ handlers' = [handlers EXCEPT ![c] = @ \cup {h}]

Subscribe(c, h, rest) ==
  IF state[c] = 2
  THEN agenda' = <<Do("call", h)>> \o rest /\ UNCHANGED handlers
  ELSE agenda' = rest /\ handlers' = [handlers EXCEPT ![c] = @ \cup {h}]

(* channel.join: one function subscribes to all the channels; those that   *)
(* have fired call it while it subscribes.                                 *)
Missing(channels) == Cardinality({j \in 1..Len(channels) : state[channels[j]] # 2})

Join(name, channels) ==
  /\ joins' = [joins EXCEPT ![name] = Missing(channels)]
  /\ handlers' = [c \in Channels |->
       IF c \in ToSet(channels) /\ state[c] # 2
       THEN handlers[c] \cup {name} ELSE handlers[c]]

(* What the two joins do when the last of their channels has fired.        *)
Joined(name) ==
  IF name = "platform"
  THEN <<Do("mapModules", name), Do("fire", "onCordovaReady"), Do("join", "device")>>
  ELSE <<Do("fireDocumentEvent", "deviceready")>>

JoinStep ==
  /\ At("join")
  /\ LET channels == IF Of = "platform" THEN <<"onNativeReady", "onPluginsReady">>
                     ELSE deviceReadyChannelsArray
     IN  /\ Join(Of, channels)
         /\ agenda' = IF Missing(channels) = 0 THEN Joined(Of) \o Tail(agenda)
                      ELSE Tail(agenda)
  /\ UNCHANGED <<state, domListeners, deviceReadyChannelsArray, deviceReadyTimer, started, browser,
                 initialized, effects, changes>>

CallJoin ==
  /\ At("call") /\ Of \in {"platform", "device"}
  /\ joins' = [joins EXCEPT ![Of] = @ - 1]
  /\ agenda' = IF joins[Of] = 1 THEN Joined(Of) \o Tail(agenda) ELSE Tail(agenda)
  /\ UNCHANGED <<channel, deviceReadyChannelsArray, deviceReadyTimer, started, browser,
                 initialized, effects, changes>>

(* The handler of onCordovaReady that shows the web view.                  *)
CallShow ==
  /\ At("call") /\ Of = "show" /\ shown' = TRUE /\ agenda' = Tail(agenda)
  /\ UNCHANGED <<channel, joins, deviceReadyChannelsArray, deviceReadyTimer, started, browser,
                 initialized, called, override, changes>>

CallPage ==
  /\ At("call") /\ Of \in PageHandlers
  /\ called' = [called EXCEPT ![Of] = @ + 1] /\ agenda' = Tail(agenda)
  /\ UNCHANGED <<channel, joins, deviceReadyChannelsArray, deviceReadyTimer, started, browser,
                 initialized, shown, override, changes>>

-----------------------------------------------------------------------------
(* cordova/init, to its end.                                               *)
DOMReady == IF readyState = "complete" THEN <<Do("fire", "onDOMContentLoaded")>> ELSE <<>>

CordovaInit ==
  /\ Idle /\ ~started /\ started' = TRUE
  /\ \E nativeReady \in {<<>>, <<Do("fire", "onNativeReady")>>} :
       agenda' = DOMReady \o nativeReady
                 \o <<Do("fire", "onNativeReady"), Do("subscribe", "show"),
                      Do("load", "cordova_plugins.js"), Do("join", "platform")>>
  /\ UNCHANGED <<channel, joins, deviceReadyChannelsArray, deviceReadyTimer, browser,
                 initialized, effects, changes>>

(* platform.bootstrap: show the web view when all objects are created.     *)
SubscribeShow ==
  /\ At("subscribe") /\ Subscribe("onCordovaReady", "show", Tail(agenda))
  /\ UNCHANGED <<state, domListeners, joins, deviceReadyChannelsArray, deviceReadyTimer, started, browser,
                 initialized, effects, changes>>

(* pluginloader.load: injects the script tag of cordova_plugins.js.        *)
Load ==
  /\ At("load") /\ agenda' = Tail(agenda) /\ pluginList' = "loading"
  /\ UNCHANGED <<channel, joins, deviceReadyChannelsArray, deviceReadyTimer, started,
                 readyState, loading, loaded, initialized, effects, changes>>

(* mapModules requires every module that was loaded: a factory that waits  *)
(* for features enters their channels; one that throws ends the script.    *)
MapModules ==
  /\ At("mapModules")
  /\ \E order \in SetToSeqs(loaded) :
       deviceReadyChannelsArray' = deviceReadyChannelsArray
         \o FlattenSeq([i \in 1..Len(order) |-> Waits[order[i]]])
  /\ \/ agenda' = Tail(agenda)
     \/ MayFail /\ loaded # {} /\ agenda' = <<>>
  /\ UNCHANGED <<channel, joins, deviceReadyTimer, started, browser, initialized,
                 effects, changes>>

(* fireDocumentEvent("deviceready") only sets a timer.                     *)
FireDocumentEvent ==
  /\ At("fireDocumentEvent") /\ agenda' = Tail(agenda) /\ deviceReadyTimer' = TRUE
  /\ UNCHANGED <<channel, joins, deviceReadyChannelsArray, started, browser, initialized,
                 effects, changes>>

Run ==
  \/ Fire \/ Clear \/ JoinStep \/ CallJoin \/ CallShow \/ CallPage
  \/ SubscribeShow \/ Load \/ MapModules \/ FireDocumentEvent

-----------------------------------------------------------------------------
(* The event DOMContentLoaded; cordova/init fires the channel itself if    *)
(* it comes too late to hear of it.                                        *)
DOMContentLoaded ==
  /\ Idle /\ readyState = "loading" /\ readyState' = "complete"
  /\ agenda' = IF started THEN <<Do("fire", "onDOMContentLoaded")>> ELSE <<>>
  /\ UNCHANGED <<channel, joins, deviceReadyChannelsArray, deviceReadyTimer, started,
                 pluginList, loading, loaded, initialized, effects, changes>>

(* cordova_plugins.js is there: inject the scripts of its modules; without *)
(* it, or without modules, the plugins are ready.                          *)
PluginListLoaded ==
  /\ Idle /\ pluginList = "loading" /\ pluginList' = "done"
  /\ \/ /\ Modules # {} /\ loading' = Modules /\ UNCHANGED agenda
     \/ /\ Modules = {} \/ MayFail
        /\ agenda' = <<Do("fire", "onPluginsReady")>> /\ UNCHANGED loading
  /\ UNCHANGED <<channel, joins, deviceReadyChannelsArray, deviceReadyTimer, started,
                 readyState, loaded, initialized, effects, changes>>

(* scriptLoadedCallback, for a script that loaded and for one that failed: *)
(* the last one completes the loading.                                     *)
AllLoadedFaultyFirst(m) == TRUE
AllLoaded(m) == loading = {m}

Pending(m) == loading \ {m}

ScriptLoaded ==
  /\ Idle
  /\ \E m \in loading :
       /\ loading' = Pending(m)
       /\ \/ loaded' = loaded \cup {m}
          \/ MayFail /\ UNCHANGED loaded
       /\ agenda' = IF AllLoaded(m) THEN <<Do("fire", "onPluginsReady")>> ELSE <<>>
  /\ UNCHANGED <<channel, joins, deviceReadyChannelsArray, deviceReadyTimer, started,
                 readyState, pluginList, initialized, effects, changes>>

(* initializationComplete, by a plugin whose factory waits for the feature.*)
InitializationComplete ==
  /\ Idle
  /\ \E f \in (Features \cap ToSet(deviceReadyChannelsArray)) \ initialized :
       /\ initialized' = initialized \cup {f}
       /\ agenda' = <<Do("fire", f)>>
  /\ UNCHANGED <<channel, joins, deviceReadyChannelsArray, deviceReadyTimer, started,
                 browser, effects, changes>>

(* The timer of fireDocumentEvent: handlers that the document had before   *)
(* cordova.js was loaded come first.                                       *)
Dispatched == domListeners

DeviceReady ==
  /\ Idle /\ deviceReadyTimer /\ deviceReadyTimer' = FALSE
  /\ agenda' = [i \in 1..Cardinality(Dispatched) |-> Do("call", SetToSeq(Dispatched)[i])]
               \o <<Do("fire", "deviceready")>>
  /\ UNCHANGED <<channel, joins, deviceReadyChannelsArray, started, browser, initialized,
                 effects, changes>>

(* addEventListener("deviceready"): from cordova.js on the channel takes it.*)
Listened(h) == h \in handlers["deviceready"] \cup domListeners \/ called[h] > 0

AddDeviceReadyListener ==
  /\ Idle
  /\ \E h \in PageHandlers :
       /\ ~Listened(h)
       /\ IF started
          THEN Subscribe("deviceready", h, <<>>) /\ UNCHANGED domListeners
          ELSE domListeners' = domListeners \cup {h} /\ UNCHANGED <<agenda, handlers>>
  /\ UNCHANGED <<state, joins, deviceReadyChannelsArray, deviceReadyTimer, started, browser,
                 initialized, effects, changes>>

(* addEventListener and removeEventListener of backbutton: the native side *)
(* is told when the first handler comes and when the last one goes.        *)
TellsNative(before, after) ==
  (before = {} /\ after # {}) \/ (before # {} /\ after = {})

ChangeBackbutton ==
  /\ Idle /\ started /\ changes < MaxChanges /\ changes' = changes + 1
  /\ \E h \in PageHandlers, hs \in SUBSET PageHandlers :
       /\ hs \in {handlers["backbutton"] \cup {h}, handlers["backbutton"] \ {h}}
       /\ handlers' = [handlers EXCEPT !["backbutton"] = hs]
       /\ override' = IF TellsNative(handlers["backbutton"], hs)
                      THEN Cardinality(hs) = 1 ELSE override
  /\ UNCHANGED <<state, domListeners, agenda, joins, deviceReadyChannelsArray, deviceReadyTimer, started,
                 browser, initialized, shown, called>>

Event ==
  \/ CordovaInit \/ DOMContentLoaded \/ PluginListLoaded \/ ScriptLoaded
  \/ InitializationComplete \/ DeviceReady

Next == Run \/ Event \/ AddDeviceReadyListener \/ ChangeBackbutton

Spec == Init /\ [][Next]_vars

(* A script runs to its end, and what the browser or a plugin has begun    *)
(* comes to its end.                                                       *)
FairSpec ==
  /\ Spec
  /\ WF_vars(Run) /\ WF_vars(CordovaInit) /\ WF_vars(DOMContentLoaded)
  /\ WF_vars(PluginListLoaded) /\ WF_vars(ScriptLoaded)
  /\ SF_vars(InitializationComplete) /\ WF_vars(DeviceReady)

-----------------------------------------------------------------------------
(* The fields keep their range; only sticky channels fire for good; a join *)
(* needs no more calls than its channels can give.                         *)
TypeOK ==
  /\ state \in [Channels -> 0..2]
  /\ \A c \in Channels : state[c] = 0 <=> c \notin Sticky
  /\ handlers \in [Channels -> SUBSET (PageHandlers \cup {"platform", "device", "show"})]
  /\ joins.platform \in 0..2 /\ joins.device \in 0..Len(deviceReadyChannelsArray)
  /\ ToSet(deviceReadyChannelsArray) \subseteq Sticky
  /\ loading \subseteq Modules /\ loaded \subseteq Modules \ loading
  /\ called \in [PageHandlers -> Nat]

(* deviceready "is fired to indicate that Cordova is ready": a page hears  *)
(* of it only after the document, the native side and all plugins are      *)
(* there, after every feature that was waited for is initialised, and      *)
(* after the web view was made visible.                                    *)
NotReadyTooEarly ==
  (\E h \in PageHandlers : called[h] > 0) =>
    /\ readyState = "complete" /\ loading = {} /\ shown
    /\ ToSet(deviceReadyChannelsArray) \cap Features \subseteq initialized
    /\ \A c \in InitChannels \ {"deviceready"} : state[c] = 2

(* However early or late a page listens, deviceready reaches each of its   *)
(* handlers once.                                                          *)
ReadyOnce == \A h \in PageHandlers : called[h] <= 1

(* Between two scripts the native side overrides the back button exactly   *)
(* while the page has a handler for it.                                    *)
OverrideMatches == Idle => override = (handlers["backbutton"] # {})

(* With features that differ and nothing that fails: every handler that    *)
(* listens gets deviceready, whatever the order of the events.             *)
ListenersGetReady ==
  \A h \in PageHandlers :
    h \in handlers["deviceready"] \cup domListeners ~> called[h] = 1

(* "This holds up Cordova's deviceready event until the feature has been   *)
(* initialized": when everything is loaded and every plugin completes what *)
(* it waits for, deviceready comes.                                        *)
ReadyComes == (pluginList = "done" /\ loading = {}) ~> state["deviceready"] = 2

=============================================================================
