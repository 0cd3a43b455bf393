# BluetoothClientHUB: specification, model checking and proofs

BluetoothClientHUB is a message hub. Programs connect to it over TCP or
Bluetooth (RFCOMM) and send JSON texts `{"to": n, "txt": ...}`; the hub passes
each text to the client whose descriptor number is `to`, or to every client when
`to` is 0, and adds the sender's number. A phone application, a Cordova project
with pages of jQuery Mobile, sends accelerometer values and volume keys; an
events receiver on a desktop turns the keys into X key events.

This directory holds TLA+ modules translated from the code, TLC configurations
that check them on small instances, and TLAPS proofs for all instances. In what
follows `cordova.js` and `jquery.mobile-1.3.2.js` are the files under
`src/apps/controller/controller/platforms/android/assets/www`, which the
repository carries and the phone runs.

## The system

| Part | Source | State | Operations | Talks to |
|---|---|---|---|---|
| Queue | `src/queue.c` | ring `queue`, `front`, `rear`, `size`, a mutex, a condition variable | `queue_create`, `queue_push` (FALSE when full), `queue_pop` (waits at most once, then may answer NULL), `queue_destroy` (no caller) | shared by the threads of the hub |
| Hub, main thread | `src/btserver.c`, `src/listener.c` | `struct _Listener`: `running`, `pf`/`npfs` (servers), `clients` (table of structs), `clients_lock`, `queue` | `listener_init`, `listener_add`, `listener_run`: poll servers, accept, close a failed server, reap broken clients | starts and joins all other threads |
| Hub, SIGINT handler | `btserver.c:16`, `listener.c:202` | none of its own | `listener_close`: shut the servers, push QUIT, join the processor. Runs on the main thread, which stands still meanwhile | message processor, through the queue |
| Hub, message processor | `listener.c:220` | `front`, `i`, `running` | pops the shared queue, copies each message to the `in_queue` of every addressee, under `clients_lock` | read threads before it, write threads after it |
| Hub, read thread of a client | `listener.c:107` | `running_read` | polls and reads its descriptor, decodes, pushes to the shared queue | peer, processor |
| Hub, write thread of a client | `listener.c:61` | `running_write` | pops its `in_queue`, writes | processor, peer |
| Messages | `src/msg.c` | the static quit message | make, copy, JSON both ways, `msg_get_quit_msg` | |
| Servers | `src/tcpserver.c`, `src/btlib.c` | | make a listening socket and add it | main thread |
| Events receiver | `src/apps/events_receiver` | `struct _Client` with buffer and `running` | `client_init`, `client_main_loop`, `callback`, `event_sender_keyboard_event` | hub, X server |
| Phone: page and plugin | `bluetooth.js`, `BluetoothClient.java` | the script's `ready`, `connected`, last and base acceleration; the plugin's device and socket | list of devices, taps on the button, accelerometer watch; `init`, `connect`, `sendmsg` | bridge below it, hub |
| Cordova: bridge | `cordova.js` 849-1160, 265-330 | `cordova.callbacks`, `messagesFromNative`, the modes, two timers | `androidExec`, `processMessages`, `callbackFromNative`, `pollOnce`, `setNativeToJsBridgeMode` | page and native side |
| Cordova: start | `cordova.js`: channels, plugin loader, bootstrap | per channel its state and handlers; the joins; what is still loading | `subscribe`, `fire`, `join`, `waitForInitialization`, loading of plugins | page, browser, native side |
| Cordova: build and run | `platforms/android/cordova/lib` | none of their own; what `adb` lists, the built package | `run`, `build`, `clean`, `check_reqs`, device and emulator lists, start, wait, install | `adb`, `ant`, emulators |
| jQuery Mobile: history | `jquery.mobile-1.3.2.js` 2180-2660 | `stack`, `activeIndex`, three flags that say what the next event means | `go`, `popstate`, `hashchange` | browser; page changes and popups above it |
| jQuery Mobile: hash polling | 1290-1530 | `timeout_id`, `last_hash`, the hidden frame | `setup`, `teardown`, `start`, `stop`, `poll` | history above it |
| jQuery Mobile: page changes | 3760-4720 | `isPageTransitioning`, `pageTransitionQueue`, `activePage`, the loading message and its timers | `changePage`, `loadPage`, transition, `_handleHashChange` | history |
| jQuery Mobile: touch | 2690-3260 | `lastTouchID`, block flags, `clickBlockList`, the reset timer, handlers of the tap | touch and mouse handlers, `vclick`, `tap` | browser |
| jQuery Mobile: resize, orientation | 3395-3560 | last call, held call, last orientation, portrait map | `throttledresize`, `orientationchange` | browser |
| jQuery Mobile: popup | 8250-9150 | the state of each popup, `$.mobile.popup.active` (the mutex), resize timers | `open`, `close`, closing by navigation, resizing, placement | history, resize |
| jQuery Mobile: panel | 10290-10700 | per panel `_open`, the page's record of a panel, completes that are bound | `open`, `close`, leaving the page | browser |
| jQuery Mobile: slider | 7270-7930 | value, handle, flags of the drag | `refresh`, drag, keys, blur, reset | browser, form |

What is hard here: five kinds of threads and a signal handler share one table of
clients; the reaper changes that table without the lock the others take; a
client is taken down by three threads that tell each other through flags, a
message and joins; descriptor numbers, which are also the addresses of clients,
are used again; queues are bounded and refuse; the signal handler waits for a
thread that may wait for what the handler interrupted. `PROJECT.json` lists these
hazards line by line.

On the phone there is one thread, and the order of events takes the place of
interleaving: functions of the bridge and of the channels call each other back
in the middle of their work; an answer, a timer, a `popstate` or the end of an
animation comes later than the call that asked for it, with other calls in
between, or never; and a flag that says what the next event means is wrong when
another event comes first.

What makes each part correct:

* Queue: it is an atomic bounded FIFO; no consumer sleeps beside an element
  that was announced to it.
* Message path: each peer gets the texts of each other peer in order, at most
  once, and only those addressed to it, whatever is dropped on the way.
* Life of a client: struct, slot and descriptor number serve one client at a
  time and are given back only when no thread of the client can use them; only
  broken clients are dropped, broken clients are dropped some day, and none
  outlives its server.
* Shutdown: SIGINT ends the program.
* Receiver: key events follow the texts; each press has its release; the loop
  ends for a cause.
* Phone: one socket at most is open, and the movement that is sent adds up to
  the movement there was, but for what a reading drops below the noise.
* Bridge: one loop works on the messages, in order, each callback runs once and
  leaves the table, and while polling is on something polls.
* Start: `deviceready` comes after all it waits for, once to each listener, and
  it does come.
* Build and run: the script installs where it was asked to, and hands `adb` what
  it built.
* History, hash polling: the library's stack is where the browser is; the
  direction it reports is true; one loop polls while somebody listens.
* Page changes: one page is shown, the one the location names once all is
  quiet; the lock is released, the message goes.
* Touch: a tap gives one `vclick` and one `tap`, and a prevented one no click.
* Resize: two calls are apart, a held one comes, the orientation is true.
* Popup, panel: one is shown at most, on its page; the mutex is released; what
  was hidden comes back, inside the window and its tolerance.
* Slider: handle, value and the listeners of `change` agree when it rests, as
  far as the code tells them.

## The modules

| Module | What it is |
|---|---|
| `BoundedFifo` | abstract queue: accept, refuse, take, miss, each one step |
| `Queue`, `MCQueue`, `QueueProofs` | `queue.c` step by step: mutex, wait, broadcast, ring; instance; proofs. `Fifo` is the refinement mapping to `BoundedFifo` |
| `Relay` | abstract hub: peers are admitted under a number, send, and are handed texts |
| `Listener`, `MCListener` | the hub: main, SIGINT handler, processor, a reader and a writer per connection, and the peers. `HubRelay` maps it to `Relay` |
| `ListenerProofs` | proofs about the hub: types and life of a client; lock and servers; flags and drops; the refinement of `Relay` |
| `Receiver` | the events receiver |
| `Controller` | script and plugin of the phone |
| `MCClients`, `ClientProofs` | the instances of these two clients of the hub; proofs about them |
| `Bridge` | the bridge: calls, messages, callbacks, modes |
| `Startup` | channels, plugins, `deviceready` |
| `Deploy` | the scripts that build and run the application |
| `MCCordova`, `CordovaProofs` | the instances of these three; proofs about them |
| `Navigation` | history and navigator, beside the history of the browser |
| `Pages` | page changes; EXTENDS `Navigation` and composes its actions with its own |
| `HashPoll` | the hashchange event for browsers without one |
| `Popup` | opening and closing of popups, on the history |
| `MCHistory`, `HistoryProofs` | the instances of these four; what the proofs say of each |
| `Touch` | virtual mouse events and taps |
| `Resize` | throttled resizes and orientation |
| `PopupResize` | one popup while the window is resized |
| `Placement` | where a popup is placed |
| `Panel` | the panels of a page |
| `Slider` | a slider or a switch |
| `MCWidgets`, `WidgetProofs` | the instances of these six; proofs about `Placement`, and what the others say of each |
| `MobileProofs` | proofs about `Navigation`, `Pages`, `HashPoll` and `Popup`, whatever their constants |
| `ScreenProofs` | proofs about `Resize`, `PopupResize`, `Touch`, `Panel` and `Slider`, whatever their constants |

`MCClients`, `MCCordova`, `MCHistory` and `MCWidgets` hold several instances each. A variable
`scene` says which of them a behaviour is about; that instance takes all steps,
the variables of the others keep their first values. So one run asks the same
kind of question of parts that share no state, and its state space is the sum of
theirs, not the product. A property of such a module says for each scene what
holds there; where it needs gentler users than the module allows (who wait for a
change of page, say), the scene has the constants for it, and the same module
with the wild users has a scene of its own. `Limit` and `Bindings` of `MCHistory`
and `MCWidgets`, the bounds `Max...` of the scenes, are constants which the
configurations give, so that the proofs hold for every bound.

`Queue` is composed with `Listener` through `BoundedFifo`: `Listener` uses each
queue as an atomic FIFO of `MAX_SIZE_QUEUE` elements, which is what
`QueueImplementsFifo` proves of `Queue`. One thing of the lock is kept in
`Listener`: the SIGINT handler can interrupt main while main holds the mutex of
an `in_queue`, and that mutex is `in_lock`.

### How `Listener` follows the code

* Every thread has a program counter (`mpc`, `hpc`, `ppc`, `rpc[c]`, `wpc[c]`)
  and takes one step for each access that another thread, or the handler, could
  see or disturb. `Main` is the disjunction of the steps of `main` and
  `listener_run`; the three callers of loops over `clients` look at one slot per
  step. `main`'s steps are taken only while the handler is idle or done.
* A connection `c \in Conns` stands for one `ClientListener`; `obj[c]` says
  whether it is unborn, live, or freed (by the reaper or by `_close_server`).
  `fd[c]` is the descriptor number that `accept` gives: the lowest free one, as
  POSIX has it, so numbers are used again.
* The processor reads `clients[i]` three times (`listener.c:241-243`; the
  Makefile sets no optimisation). `PScan`, `PMatch` and `PSend` are these
  reads. A slot emptied or a struct freed in between makes `PFault` possible,
  or makes the test come out either way.
* `msg_get_quit_msg` stores its message before it sets the type: `quit` goes
  from `null` over `half` to `ready`.
* A text is a record with its number in its sender's stream and its `to`. One
  read takes any number of texts, or a part of one, and makes the last of them,
  or none, into a message: that is what `msg_from_json` does to the bytes of
  one read.
* Peers and adapters are the `Environment`: connect, give up before `accept`,
  send, close, vanish, stop reading; servers fail.

Left out of `Listener`: memory that is lost (a refused message is not freed) and
failing `malloc` and `pthread_create`; the byte written behind a full read
buffer; a text without `txt`; locks inside the C library that the handler could
need; a second SIGINT; close callbacks, which nobody registers.

### How `Receiver` follows the code

One thread, one step per call. `inet_pton` has its real answers (1 for an
address), so the inverted test of `client_init` shows. `Read` covers
`_decode_message`; a read that fills the buffer clears `running`, the field
behind it in `struct _Client`. A malformed text crashes, for `strtok` answers
NULL. `HubWrites` and `HubEnds` stand for the hub. `ReceiverInit`, `ReceiverNext`
and `ReceiverSpec` carry the name of the module since `ClientProofs` extends both
clients.

### How `Controller` follows the code

The script's handlers are one step each, since JavaScript runs them to their
end. `OnAccSuccess` is the watch (`bluetooth.js:78-106`) with its noise threshold,
`SelectDevice` what a touch of the button does, `Execute` the plugin's
`execute` (`BluetoothClient.java`), in the order of the calls, `OnAnswer` the
success and error callbacks, later. `connected` is tested by a tap and set by an
answer. `btSocket` may be null, fail to open, or break. The commands are
external, for their package is missing: the one that connects may use
`bluetoothConnect` or fail before it, and whatever came of that its answer may be
the one that sets `connected`, another, or an error (`bluetooth.js:30-41`).
`base`, `followed` and `written` are history variables: the reading from which
movement is counted, the readings since, and what the plugin was given.

### How `Bridge`, `Startup` and `Deploy` follow the code

* `Bridge`: the activations of `androidExec`, `processMessages` and callbacks are
  a stack. `Exec` is `androidExec`, where the native side may hand over messages at once;
  `LoopMessage`, `LoopStar` and `LoopEnds` are the loop of `processMessages`, a
  message per step; a callback may call again, and may throw. The
  null arguments that make the native side refuse lead to `RetryCall` and
  `RetryRestore`, over prompt. A chunk that is cut off ends in a star.
  `setNativeToJsBridgeMode`, the poll timers and the online event are actions.
* `Startup`: `fire`, `subscribe` and `join` run in the middle of each other, so
  `agenda` is the rest of what the running script has to do, innermost first. The
  browser's events (`DOMContentLoaded`, scripts that load or fail) find it empty.
* `Deploy`: one step for each command the scripts give; between two of them
  `SomethingElse` starts and ends devices and emulators. `pc` names the function.
  `adb install` may fail and say so, which ends the script, or fail otherwise,
  which the script does not notice (`install.error` is no field of what `execSync`
  returns): `took` says whether it did install, and either way the application is launched.

### How the jQuery Mobile modules follow the code

* `Navigation`: `History.add`, `clearForward`, `find`, `closest`, `direct` are
  operators on `stack` and `activeIndex`; `Go`, `Popstate` and `Hashchange`
  actions, with the branches of the code as their disjuncts. The browser has
  its own `entries` and `position`. A url is a path or a hash (`Paths`), for `go` assigns
  and compares the two in different ways: `Differs` is what adds an entry to
  the browser's history, `Prevents` what raises `preventNextHashChange`, which compares a
  hash with its `#` to the location's without. `Misleads` names
  the moves whose entry the library cannot know.
* `Pages`: `call` is the call of `changePage` that this turn makes; `Queue`,
  `Prevented`, `LoadPage`, `SamePage` and `ChangePage` are the ways it may go. `Answer`, `OutDone`, `InDone`, `NavigateEvent`
  and the timers come later. The history below is `Navigation`'s, by its actions.
  A listener that prevents `pagebeforeload` or `pageloadfailed` is left the lock and the
  deferred (`held`), which `ListenerSettles` resolves or rejects some time later.
  The `urlHistory.direct` of `changePage` for the page that is shown (4579-4581) does nothing: it is
  given the data-url of the page (`foo`, `/x.html`), while entries have an absolute url, and a
  hash that begins with `#`, so that `closest` finds none.
* `HashPoll`: handlers run inside `poll`, so `depth` counts activations. `start`,
  `stop`, `setup`, `teardown` and the writing of the frame are operators.
* `Popup`: `_open`, `_close`, `_closePopup` and the ends of their animations, with the history, whose
  `back` returns at once and moves later; `popup[p]` holds the fields of a widget.
  `PopupResize` has the handlers of the window and the two timers of 200 ms and
  1 s; `Placement` `_setTolerance` and `_placementCoords`.
* `Touch`: the handlers of `vmouse` from `touchstart` to the blocked click, and the
  `tap` event, which counts clicks by handlers on the document. A touch has a
  number; `coming` holds mouse events that the browser has still to send.
* `Resize`: time in ticks; the held call is a timer. `Panel`: `completes` are the
  functions bound to the end of a transition, run in order. `Slider`: places are
  integers in parts of a step, so that rounding in `refresh` is exact. `heard` is the value the
  listeners of `change` saw last, or the control had when it became a slider;
  `text` is what the browser compares the field with when it is left; `quiet` says that the
  control was written since by what tells nobody; `lost` that the touch of a drag ended without an event.

Left out of these: markup, themes, dialogs, forms, reloads and focus (`Pages`);
`taphold`, `swipe`, `scrollstart` (`Touch`); arrows and options of the popup;
panels that push the page and fixed toolbars (`Panel`); `rangeslider`, and listeners of the slider's own
events that return false (`Slider`).

## What TLC checks

| Run | Question | Bounds, and why they are enough |
|---|---|---|
| `queue` | `QueueSafe`, `ImplementsFifo`, `ElementsAreTaken` | 2 producers, 2 consumers, ring of 3: wrap-round, rival consumers, stale wake-ups |
| `hub_servers` | `ClientLife`, `ClientsOfOpenServers`, `OnlyReaperRaces`, `OnlyBrokenClientsDropped` | TCP and Bluetooth server, TCP may fail, 2 connections on either, 2 slots: both ways to free a client, numbers and slots used again |
| `hub_routing` | `ImplementsRelay` | 2 texts between 2 senders, to all and to number 5, queues of 2: two texts of one sender are on the way at once in every pair of stages, full queues drop |
| `hub_sigint` | `SigintEndsProgram` | SIGINT at any step from start on, 2 servers, 1 client that sends, stalls and leaves |
| `hub_drain` | `BrokenClientIsReaped`, `QueuesDrain` | 2 connections for 1 slot, both send, one may vanish, queues of 1 |
| `hub_assertion` | `QueueExists` is violated | see below |
| `clients` | `KeysFollowTexts`, `EndsWithCause`, `LoopMovesOn`; `OneOpenSocket`, `MovementConserved`, `DeadLinkStaysDead` | receiver: 3 texts of 5 kinds, reads of up to 2 texts (2 fill the buffer), end of stream and reset at any time; phone: 2 axes, readings closer than the noise and further apart, 2 taps, 3 readings: taps before and after an answer, movement before and during a connection, commands that fail |
| `receiver_assertion` | `ClientExists` is violated | see below |
| `cordova` | `BridgeSafe`, `HandledInOrder`, `MessagesProcessed`; `StartsInOrder`, `ReadyComes`; `InstalledAsAsked` | bridge: 2 calls, 3 messages in chunks of 1, a switch of the mode, the second callback may throw: a call inside a callback, a cut chunk behind it, a result that comes twice; start: 2 modules with a feature each, 2 handlers, with failures and a back button, or without; deploy: a device, 2 emulators, an image, every kind of target, one change by somebody else |
| `history` | `HistoryFollows`, `MovesAreTrue`; `PagesFit`, `LockIsReleased`; `OneLoopPolls`, `ChangesAreSeen`; `PopupsFit`, `PopupsClose` | 4 to 6 moves over 4 urls, paths and hashes: back, back, forward and a new entry in the middle of a stack, urls that come back; 3 to 5 moves over embedded, remote, foreign and missing pages: a request behind one that loads, or behind one that a listener took over; 2 to 4 changes of the hash; 2 popups and 5 or 6 moves: the second opened while the first closes |
| `history_flag` | `FlagHasItsEvent` is violated | see below |
| `widgets` | `PopupIsPlaced`; `TapsAreOnce`, `WhatWaitsComes`, `TimersAreKept`, `StepsObey`; `PanelsFit`, `OpenComes`; `SlidersFit` | every combination of small and large windows, popups, documents, positions and tolerances; 3 touches of 2 elements; 3 to 5 turns and resizes with 2 or 3 ticks of throttle; 3 panels and 6 or 8 moves: one opened while another goes; sliders where values and pixels do not divide, one whose maximum is on no step, with points before, on and behind the track, 5 to 7 moves |

The tables of the code have 32 servers and 1024 clients, the queues
`MAX_SIZE_QUEUE` elements; the runs use one or two of each so that full
tables, full queues and gaps occur within a few steps. The constants `Max...`
and, in `Listener`, `Senders`, `Quitters`, `Stallers`, `Fallible`, `Available`,
`MaySignal`, `BufferTexts` bound the environment. Each run and each scene sets
free what its question needs.

Deadlock is checked except where the system may stop: after SIGINT, after the
last server or the process has gone, in the states of `Stuck` below, and where
users and peers have done what the bounds allow.

Properties whose names are conjunctions (`QueueSafe`, `ClientLife`, `BridgeSafe`,
`PagesFit` ...) are made of named parts, each stated with a comment in the module
it is about; most hold the type invariant of that module as well.

### States the hub cannot leave

The hub can get stuck, and `Listener` names the ways: `crashed` (a fault of the
processor, or an assertion), `NoRoomForQuit`, `WriterBlocked`, `AcceptBlocked`,
`HandlerDeadlock`, `QuitNotSent`. TLC reaches each of them. They are no violations of
anything the repository promises, so the liveness properties except them by name:
`SigintEndsProgram` says that SIGINT ends the program *unless it runs into one of
these or into a forgotten server* (`ServerForgotten`: `_close_server` leaves a
gap in `pf`, and `poll` and `listener_close` look at the first `npfs` entries only).
What the properties claim is that there is no other way.

### Fairness

`FairSpec` of `Listener`: strong fairness of main, the processor and the writers,
which wait for mutexes that others take again and again (a pthread mutex that is free
infinitely often is got some day under Linux' scheduler), weak fairness of the
handler's own steps and of the readers, whose `poll` times out after 3 seconds.
Peers, adapters and the signal owe nothing. `Queue`: fairness of the steps of
each thread that is inside a call. `Receiver`: weak fairness of its one thread.

Everything on the phone runs on the event loop of a browser or of Cordova's thread
pool: a function that runs goes on, a timer that is set runs out, an event or a
message that was queued is handled. That is weak fairness of these actions:

* `Bridge`: `Run` (the running function), `PollTimer`, `PollingTimer`,
  `PollOnceFromOnlineEvent`. The native side need not answer.
* `Startup`: `Run`, `CordovaInit`, `DOMContentLoaded`, `PluginListLoaded`,
  `ScriptLoaded`, `DeviceReady`, in the scene where scripts do load; strong
  fairness of `InitializationComplete`, a call of the modules that each makes
  when it has got what it waits for, and that other handlers keep interrupting.
* `Pages`: `Turn`, `NavigateEvent`, `OutDone`, `InDone`, the two timers of the
  message, and `Answer`: a request is answered, fails or times out. And
  `ListenerSettles`, which is no promise of the code but what it asks for: "it is the
  responsibility of the listener/handler that called preventDefault(), to resolve/reject the
  deferred object" (`jquery.mobile-1.3.2.js:4412-4414`).
* `HashPoll`: `HandlersReturn`, `TimerRunsOut`, `DOMReady`, `FrameLoads`.
* `Popup`: `Traverse` or `NowhereToGo` (the browser makes the move or there is none),
  `NavigateEvent`, `AnimationEnds`, which is only enabled while the page is shown.
* `Touch`: `TouchEnd`, `Mouse`, `ResetTimer`, in the scene where fingers are lifted.
* `Resize`: `Tick`, the two events, `HeldCallRuns`. `PopupResize`: its events and its
  two timers. `Panel`: `Timeout` and `TransitionEnds`, which is not enabled
  on a page that is hidden.

In the modules with scenes one conjunct of the fairness is about actions
of several scenes. A behaviour stays in its scene, so that the disjunction is the one
action of that scene, as it would be in a run of its own.

### Disagreements with what the code says of itself

Three are shown by runs:

* `hub_assertion`: `queue.c:26` asserts `q != NULL && str != NULL`. `main`
  installs the SIGINT handler (`btserver.c:28`) before `listener_init`
  (`btserver.c:30`) creates the queue. A SIGINT in between reaches the assertion
  with a NULL queue.
* `receiver_assertion`: `client.c:145` asserts `cl != NULL`. `client.c:24` takes
  `inet_pton`'s 1 for a failure, so `client_init` returns NULL for every valid
  address and `main` passes it on. Only an argument that is no address
  connects, to 0.0.0.0.
* `history_flag`: the comment at `jquery.mobile-1.3.2.js:2464` says that the flag
  which swallows the next hashchange is not raised "if there will be no hashchange
  fired (since that won't reset the value)". The test below it compares a hash with its `#` (2440,
  2446) to the location's without, which always differ: going silently to the hash that is shown raises it, and it
  swallows the event of a later move.

### Where the code departs from its comments

The models have more behaviour than the passing runs use. With the constants named
here, or without the condition, TLC finds the property violated, by what the code does:

| Place | What happens | In the model |
|---|---|---|
| `cordova.js:1050` | a chunk that a call from a callback enqueues behind a star is left, and all that follow it | `Bridge` with calls from callbacks: `EveryMessageProcessed` |
| `cordova.js:295` | the entry of a callback that throws on its last result is never cleared; a second result runs it again | `Bridge`: `OnceCallbacksRunOnce` without `\ Throwing` |
| `cordova.js:698` | a feature two modules wait for is counted twice and subscribed once: `deviceready` never comes | `Startup` with `Waits` that share a feature: `ReadyComes` |
| `device.js:65`, `emulator.js:309` | where `adb install` fails without the word Failure the package that was there before is launched and the script ends well: `install.error` is never set | `Deploy`: `took` |
| `emulator.js:188` | the emulator that somebody else started meanwhile is taken for one's own | `Deploy` with a change during `start` |
| `emulator.js:218` | the wait looks at the length of the list; one emulator that ends meanwhile makes it wait for ever | `Deploy` with a change during the wait |
| `emulator.js:97` | API levels are compared as strings: 9 is greater than 19 | `Deploy` with `Levels` of one digit |
| `jquery.mobile:2518` | assigning the hash that is shown adds to the stack and not to the browser's history | `Navigation` with `Revisits`, `Events = "popstate"` |
| `jquery.mobile:2467` | a move back before the next poll leaves the flag up, which swallows the event after it | `Navigation` with `Events = "polled"`: `FlagHasItsEvent` |
| `jquery.mobile:2340` | a move forward to a url that is behind as well is told as one back, and the stack parts from the browser's history | `Navigation` with `Revisits`: `Misleads` |
| `jquery.mobile:2558` | the `popstate` of a load that comes late is taken for a move | `Navigation` with `LoadFires = "late"` |
| `jquery.mobile:4574` | a request for the page that is shown gives the lock back without serving the queue | `Pages`, `pageTransitionQueue` |
| `jquery.mobile:4261`, `4415` | a listener that prevents `pagebeforeload` or `pageloadfailed` and does not settle the deferred leaves the application locked; with the second the message stays as well | `Pages` without fairness of `ListenerSettles`: `LockIsReleased`; with `pageloadfailed` in `ListenersPrevent`: `MessageGoes` |
| `jquery.mobile:4288` | a page of another domain leaves the timer that shows the loading message | `Pages` with `Foreign`: `MessageGoes` |
| `jquery.mobile:2878` | a touch of another element before the mouse events of the tap: two `vclick` | `Touch` with `Overlaps`: `OneVclick` |
| `jquery.mobile:1403` | unbinding the last handler inside a handler does not stop the loop | `HashPoll` with `Reentrant`: `StopStops` |
| `jquery.mobile:9072` | a popup that is being closed is bound to nothing: left behind by a change of page | `Popup` with `Animated`: `ShownIsOnItsPage` |
| `jquery.mobile:9165` | closing a popup when its entry is not the active one any more (two popups of a page, an animation, `urlAltered` of an earlier time) may go back from another page | `Popup` with `Animated`, or with two popups on a page: `CloseKeepsPage` |
| `jquery.mobile:8728` | the rectangle a popup must fit counts `x` from the document, `y` from the scroll position | `Placement`: `Rectangle` |
| `jquery.mobile:10628` | two panels that wait for a third both come; one that was closed while it waits comes too | `Panel` with `Patience = "none"`: `OnePanel`, `ShownIsOpen` |
| `jquery.mobile:10548` | leaving the page while a panel closes: no panel of it comes any more | `Panel` with `Hides = "any"`: `OpenComes` |
| `jquery.mobile:7509` | a program that writes the field during a drag leaves the handle where it is | `Slider` with `Programs = "any"`: `HandleShowsValue` |
| `jquery.mobile:7809` | a switch that a program has written and refreshes differs from nothing: no `change` is told. Nor is one by a form reset (7673), nor by the second alignment on leaving the field (7519; from 2 to 11 by 4, 15 is typed: 11 is told and 10 is left) | `Slider`: `quiet`; `Knows` |
| `jquery.mobile:7638` | a touch that is cancelled, or whose end a platform suppresses (3057), goes on with the next finger, for `touchcancel` is not bound | `Slider`: `lost` |
| `jquery.mobile:7693` | a click on the arrow that brings the stored value back is taken for no change | `Slider` with `Clicks`: `HandleShowsValue` |

## What is proved

For every value of the constants that satisfies the module's `ASSUME`, and for any
length of a behaviour: the bounds `Max...` are arbitrary numbers.

| Module | Theorems | Beyond the module's `ASSUME` |
|---|---|---|
| `QueueProofs` | `QueueSafe`, `ImplementsFifo` | |
| `ListenerProofs` | `TypeOK`, `ClientLife`, `OnlyReaperRaces`, `ClientsOfOpenServers`, `OnlyBrokenClientsDropped`, `ImplementsRelay` | the refinement: the set of connections is finite |
| `ClientProofs` | of `Controller` `TypeOK`, `OneOpenSocket`, `DeadLinkStaysDead`, `MovementConserved`; of `Receiver` `ReceiverTypeOK`, `KeysFollowTexts`, `EndsWithCause` | |
| `CordovaProofs` | `BridgeSafe`, `HandledInOrder`, `StartsInOrder`, `InstalledAsAsked`; what `BestImage` answers | |
| `MobileProofs` | of `Navigation` `HistoryFollows`, `DirectionIsTrue`; of `Pages` `PagesFit`; of `HashPoll` `OneLoopPolls`; of `Popup` `PopupsFit`, `BackFromPopup`, and for the scene `links` the lemma `ClosingKeepsPage` | `DirectionIsTrue`: `PushState` |
| `ScreenProofs` | of `Resize` `TimersAreKept`, `NotTooOften`; of `PopupResize` `TimersAreKept`; of `Touch` `TapsAreOnce`; of `Panel` `PanelsFit`; of `Slider` `SliderFits`, and of a switch `ClickFlips`, `DragKeeps`, `HandleFollows` | the last three: programs do not write while the handle is dragged |
| `HistoryProofs` | `HistoryFollows`, `MovesAreTrue`, `PagesFit`, `OneLoopPolls`, `PopupsFit` of the run `history` | |
| `WidgetProofs` | `PopupIsPlaced` (with the type invariant of `Placement`), `TapsAreOnce`, `TimersAreKept`, `PanelsFit`, `SlidersFit`, `StepsObey` of the run `widgets` | |

Assumptions of the modules are positive sizes, numbers for bounds and lengths, a
value for "none" that is none of the others; in `Panel` that panels are finitely many; in `Slider` that
values are integers and the first one is on a step; in `Listener` that the least
descriptor number is positive (0 to 2 are the standard streams); in `Startup` that
modules and handlers are finitely many and that features, channels and handlers of
Cordova's own have different names; in `Deploy` that devices, emulators,
images and options have different names and API levels have at most two digits
(with more or fewer digits the comparison of strings goes wrong, see above).
The hypotheses of the last column:

* `PushState` (`Navigation`): the browser has `popstate`; without it no direction
  is told but by `hashchange`. `DirectionIsTrue` is about any moves, also with urls that come back and a late
  event of the load. `HistoryFollows` has its conditions in itself: with `popstate` it is about
  urls that are gone to once and loads whose event is not late (`Mirrors`), with
  `hashchange` about programs that do not go silently to what is shown (`Stays`).
* Programs that do not write during a drag (`Programs # "any"`): the table above
  says what such a program does to the handle.
* Finite `Conns`: only then is the lowest free descriptor number below
  a bound, as `Relay` has it.

### The hub

The queue: the inductive invariant adds who may hold the
mutex at which place, and that a waiter is either asleep with an empty
announcement or has been woken. The refinement maps each step of `Queue` to a
step of `BoundedFifo` or a stutter; storing and removing are the steps that
are not stutters.

The invariant of the hub has two parts. `ShapeInv` is `TypeOK` with what keeps
it inductive: `npfs` counts the used entries of `pf` (`CountInv`; without it
`npfs` could fall below 0), what `poll` reported concerns entries still in use
(`ScanInv`), main stops the client in slot `j` (`StopInv`), and a thread that
handles a message has one (`HandsFull`). `ClientInv` follows a client from
`accept` to `free`. `LifeInv`: struct and threads begin at `Install`, the socket is
closed and the struct freed only by the stop that main is in, and freed only
after both threads have ended. `AcceptedInv`: the connection just accepted is
nobody's. `StoppingInv`: how far the stop of slot `j` has come, where the two joins
pay for the `free`. `FdInv`: two connections share a number only if one of them is
closed and its threads have ended. It holds because main, which closes, joins before it
accepts again. The three parts of `ClientLife` are parts of `ClientInv` or follow
from one.

Three invariants build on this one. `LockInv` says who
holds `clients_lock` at which place: main changes the table without it only as
the reaper, which is `OnlyReaperRaces`. `ServerInv` says that every live
client's server, and that of a client just accepted, has an entry in `pf`, and
the slots that `_close_server` has passed hold no client of the server it closes;
so the entry can go when the loop is over, which is `ClientsOfOpenServers`.
`DropInv` gives `OnlyBrokenClientsDropped`. Its `QuitInv`: a QUIT is in a client's
queue only once its socket is closed, for the processor ends at a QUIT and never
passes one on. `FlagInv`: hence a thread of an open client clears its flag only
after its peer has left. `DownInv`: a server main closes has failed or been shut.
`ReasonInv`: the finding on which the reaper, or `_close_server`, chose a
client still holds when its socket is closed.

`ImplementsRelay` follows a text along its way. For each pair of a sender and a
receiver the stages are, from the end: what the peer was handed, what its writer
holds, its `in_queue`, the processor, the shared queue, the sender's reader, the
stream (`Path`). The invariant says that every text at a stage is older than all
those behind it (`PathInv`, `LineInv`), that it bears its sender's number, and that what lies beyond the processor is
addressed to the peer (`FromInv`); and that a number, once given, stays
(`KnownInv`). A step moves a text from one stage to the next, or
drops it; only the writer's last step is a step of `Relay`, all others stutter.

### Receiver and phone

`KeysFollowTexts` needs `Ahead`: the texts that are decoded but not yet
sent as keys come after all keys that were. The invariant of `Controller`
adds `Queued`, what may stand in the two queues between script and plugin.
`MovementConserved` adds `Tracks`: while nothing can be sent, the last reading is where
the movement is counted from. What the plugin was given and what waits in the bridge then differ from the
movement since by less than the noise threshold for each reading that followed. The sum over what waits in the queue is a recursive
function; that it grows by the last summand is a lemma on such sums.

### Cordova

* Bridge. `IInv` has the types and
  `Nesting`: how activations may lie on each other (the loop below a callback, a
  retry below what it calls), from which one loop follows. `OnceInv` adds `Once`: an
  entry in the table has run no last result unless its callback is on the stack,
  and a call whose callback has run its last result has left the table. `OrderInv`
  gives `HandledInOrder`: the message that is being worked on, those in
  `messagesFromNative`, chunk after chunk, and those in `queued` bear consecutive
  numbers; a star ends its chunk and stands for what is still queued.
* Start. The agenda is what the running script has still to do, and `StageInv`
  says by it where the start is: not started, begun, loading
  plugins, mapping, broken, open. `CountInv`: the join of the device has at least as many
  calls to come as channels it waits for have not fired, and one more while such a call runs; `deviceready` fires when
  it has none to come, hence after all. `FiredInv`: a channel that has fired has no handler left but those
  a running script still calls, hence each hears it once.
  `ButtonInv`: the override that is pending or made agrees with the number of
  handlers of the back button. The start without failures is one of
  those with, so it has the same invariant.
* Deploy. `TargetInv`: no target is chosen before the script has decided between device and emulator, and then
  it is the one that was asked for, if one was; `OwnEmulator`: for an image it is the emulator `start` returned; `BuildInv`: behind the build there is a package, unless
  `--nobuild` was given; `LaunchInv`: only a script that has got to installing ends well. `BestImage` is taken from the list of images in
  any order, so what it answers is proved of every order.

### jQuery Mobile

* `Navigation`. `DirectionIsTrue` needs only that entries of the browser bear a state (`Stated`): what a
  step tells follows from where the stack, which is the browser's before it, has the url.
  `MirrorInv`: the stack of the library is the list of the
  browser's urls, both are at the same place, no url is there twice, and nothing
  is on its way. With hashchange `HashInv` counts the events on their way: when none is, or
  the one that is flagged, the active entry is the location.
* `Pages`. `RequestsFit`, `ShownFits`, `DomFits`, `LoaderFits` say what may be
  requested, which page is shown in which part of a transition, what is in the
  document, and what the loading message waits for; `LockHasReason` (the lock is held for one load, one request
  a listener took over or one transition) is inductive with them. `CalmFits` adds, for users who wait, what is known of the location.
* `HashPoll`. `OnceFits`: what polls is a timer or an activation of `poll` that is calling a handler, never both,
  and `start` and `stop` that wait for the document come in turn; `FramedFits` says so with the hidden frame.
* `Popup`. The popup whose handlers are bound is the active one, on the page that is shown, and what each
  popup waits for agrees with what is shown of it.
  `BackFromPopup` adds `BelowFits`: an entry of a popup follows that of its page, whoever moves. For the
  scene `links`, where popups close at once and users wait, `CloseKeepsPage` adds `BacksFit` (at most one move
  back is asked, from an entry of a popup).
* `Resize`, `PopupResize`: what waits has a timer; the clock may have
  been set back once, so the pause since the last call may be negative.
* `Touch`. `ComesOnce`: where touches come one by one, at most one mouse event is due, of a touch that has had no
  `vclick` or on an element where it is not counted again. `HandlersFit`: an element has its handler of the tap
  while a finger is on it and has not scrolled, and no other. What `prevented` says, the list of blocked clicks
  knows until the click has come (`BlocksFit`).
* `Panel`. `OneOpens`: when users open the next panel only after no panel is still to come, at most
  one is open, and none but that one is shown or waits. `PanelsRest`, for users who wait until all rests:
  either nothing is due, or just one function of one panel, at the end of its transition or by a
  timeout, and what the page has recorded agrees with whether it opens or closes.
* `Slider`. Lemmas on numbers come first: `AlignIs` (what `refresh` aligns to is a multiple of the
  step, half a step away at most), `NewValIs` (the value of a place is legal, and its own place is the aligned one, within the
  track), `ShownFits` (the handle is half a step from the value it is given with), for places of either sign,
  since the remainder of JavaScript has that of the dividend.
  The invariant: the handle shows the value unless a reset is pending, also during a drag; the value is legal unless the field is being
  typed in; `Known`: who listens was told the value, or the one it was aligned from, whenever the field is not
  being typed in and nothing was written that nobody is told of (`CommitSettles`: a third alignment changes
  nothing more); `Switched`: a switch that is dragged remembers the value from before the touch, and `userModified`
  says whether it shows another now, unless its touch was lost (`LostKeeps`: then the handle still drags).
  `SwitchesObey` reads the three facts about steps from it.
* `Placement`: the bounds of one placement, as lemmas about `PlacementCoords`.

`HistoryProofs` and `WidgetProofs` take the modules as `MCHistory` and `MCWidgets`
instantiate them. Each scene is an instance of the general theorem:
a lemma says that the constants of the scene satisfy its hypotheses, another that a step of the composition
is a step of its scene or a stutter. `SceneHandledInOrder` and `SceneBridgeIsSafe`
do so for the two scenes of the bridge.

## What is only model-checked

Liveness (`ElementsAreTaken`, `SigintEndsProgram`, `BrokenClientIsReaped`,
`QueuesDrain`, `LoopMovesOn`, `MessagesProcessed`,
`ReadyComes`, `LockIsReleased`, `ChangesAreSeen`, `PopupsClose`,
`WhatWaitsComes`, `OpenComes`), which is out of the prover's reach. Every
invariant and every action property of a passing run is stated by a theorem.

The induction theorems of the library take operators as parameters, which the provers
cannot instantiate. Where an induction is needed (the sum of movements,
the image that is chosen, the numbers of messages in a sequence of chunks) the proof takes the least number for
which the claim fails, which exists since `<` on the naturals is well-founded.

## What is not modelled

* The package `com.github.controller.commands`, which opens the connection and
  sends: not in the repository; its commands are external actions of `Controller`.
* `Controller.java` (loads the page and keeps no state) and `index.js` (not loaded).
* SDP registration and `bt_search` of `btlib.c`: nothing calls them (the call of
  `_describe_service` is commented out).
* Mouse movement in the receiver: used once at start; its other caller is
  commented out.
* Of `cordova.js`: the encoding of arguments and payloads, messages that are
  scripts, the clobbering of globals, buttons other than back, contacts of other
  platforms. Of the scripts: `create_image` (no caller), logging.
* Of jQuery Mobile: dialogs, select menus, fixed toolbars, collapsibles, lists,
  buttons, `rangeslider`, `swipe`, `taphold`, `scrollstart`: mostly markup, and state that
  lasts for one handler.
* jQuery (minified), shelljs, jasmine, generated Android files, make files.

## Plan

1. Done: `BoundedFifo`, `Queue`, `Listener`, `Relay`, `Receiver`, `Controller`,
   `Bridge`, `Startup`, `Deploy`, `Navigation`, `Pages`, `HashPoll`, `Popup`,
   `PopupResize`, `Placement`, `Touch`, `Resize`, `Panel`, `Slider` with their
   runs; the proofs listed above.
2. `EndToEnd`: `Controller`, `Relay` and `Receiver` together: a key pressed on the
   phone makes one press and release at most, in order.
3. A second SIGINT; dialogs and select menus.

## Running it

`tlc -config X.cfg M` checks module `M` under the configuration `X.cfg` (the
pairs are in `PROJECT.json`); `tlapm M.tla` checks the proofs of a module whose
name ends in `Proofs`. An operator whose name has `Faulty` in it (in `Queue`:
`HasRoomOneTooMany`, `MustBroadcastWhenFull`) is a plausible slip of the operator
after it; put in its place it makes the property that `PROJECT.json` names
under "mutants" fail.
