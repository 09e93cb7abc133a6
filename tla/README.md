# PhotonBar in TLA+

PhotonBar is a status bar for X11 and i3, one C++ process with two bars, a top
and a bottom one, each with its own thread, X connection and modules. This
directory holds TLA+ models of its parts, the TLC configurations that check
them on small instances, and proofs for TLAPS. `PROJECT.json` lists the parts,
the runs, the mutants, the hazards, the theorems and, for every definition, the
lines of the source it stands for.

Run a check with `tlc -config LockRun.cfg MCInstanceLock`, a proof with
`tlapm InstanceLock_proof.tla`. A run `XRun.cfg` belongs to the module `MC...`
named in `PROJECT.json`.

## 1. The system

### Parts, their state and operations

| Part | Source | State | Operations |
|---|---|---|---|
| Instance management | `process_manager.cpp`, `main.cpp` | lock file with a pid; `lockFilePath` and the local `existingPid` of each process | start (plain, `--restart`, `--no-lock`, `--kill`), SIGTERM/SIGINT handler, cleanup, destructor |
| Threads | `main.cpp` | `gTopReady`, mutex and condition variable, two threads, static modules | construct a bar, initialise its modules, report, wait, join, `exit()` |
| Event loop, scheduler | `main.cpp`, `module.h` | `lastUpdate` of each module, flags of the iteration, xcb's queue, the subscription's descriptor | compute the timeout, `select`, handle i3, handle X, update, render |
| Windows | `bar.h` | the list of windows, one for each monitor | ask RandR for each output and its CRTC, leave out mirrored outputs, sort, make windows |
| Layout and clicks | `bar.h`, `barElement.h` | table of glyph widths; width, begin and dirty flag of each element | choose a font, measure, place left, sum and place right, look up a click |
| Workspaces | `workspace.h` | the elements with name, colours and click handler; the subscription | ask i3 for the list, rewrite or remake elements, switch workspace |
| i3 IPC client | `i3ipc.h` | state of the connection, two sockets | connect with the first request, send, receive, parse; abort on an error |
| Audio | `audio.h` | name of the default sink, list of sinks, current sink, battery of a headset | mute, scroll, next sink, refresh (two requests) |
| Battery | `battery.h` | the values read, colour, `notificationSent` | read four files, colour, notify |
| Weather | `weather.h` | forecast, `lastModified`, details on or off | first call, periodic call, click |
| Date and time | `datetime.h` | the last second shown, the interval | update, click |
| Notification daemon | `notifications.h` | paused or not, number that wait | ask twice, toggle |
| Timer | `timer.h` | start, pause, accumulated pause, target, `notificationSent` | adjust, start, pause, resume, reset, notify |
| Stopwatch | `stopwatch.h` | start, pause, accumulated pause | start, pause, resume, reset |
| Ping, resources, space | `ping.h`, `resources.h`, `space.h` | the last counters, the smoothed rate, the display mode | sample, smooth, check the latency, click |
| X set-up, colours, libnotify | `bar.h`, `color.h`, `helper.h`, `notifyManeger.h` | set once | set-up, drawing requests |

### How they interact

* Processes meet only in the lock file, in signals and in the kernel's table of
  pids. No `flock` or `O_EXCL` is used: read, probe and write are separate steps.
* `main` builds the modules as function-local statics, starts the top thread,
  waits for `gTopReady`, starts the bottom thread and joins both. A signal
  handler calls `exit(0)`, which runs the static destructors in whatever thread
  received the signal.
* A bar thread waits in `select` on X's socket and on the pipe of
  `i3-msg -t subscribe`, with a timeout that ends 10 ms into the next second.
  Only a timeout updates the modules that are due; every iteration that changed
  something renders. Handlers of clicks run in the same thread and block it: an
  HTTP call, a request to PulseAudio or to i3.
* A render measures the elements that changed, places them and copies a pixmap
  to the window. Clicks are looked up in the places of the last render.
* i3, PulseAudio, the weather service, sysfs and the user change what the
  modules read at any time, between two requests of one update too.

### What is hard

1. Two processes race on the lock file; a crash leaves it empty or stale, and a
   stale pid may be another program's.
2. Start-up hands over between threads through a condition variable; the end
   destroys modules that threads may use.
3. The loop mixes three sources of events, one of them (xcb's queue) invisible
   to `select`, and the periodic work hangs on timeouts the events postpone.
4. One update reads several values of a world that changes meanwhile: two
   requests to i3 or PulseAudio, two questions to dunst, four files of the
   battery, two requests for each output of the X server, up to eight readings
   of the clock in the timer.
5. Every conversion between units truncates, and sequences of pauses or of
   scroll steps add the losses up. Counters of the kernel are subtracted
   without sign although they may fall.
6. Modules share a thread: a call of the weather service, a process of dunstctl
   or a check of the latency delays every other module and every click.
7. i3 may end and start again at any time, in the middle of a reply too.

### What makes each part correct

* Instance management: at most one instance runs, the lock file names it, and
  a start ends whatever the other processes do.
* Threads: the bottom bar comes after the top bar is initialised, the
  notification is not lost, a module that is destroyed is not in use.
* Loop: what was updated is drawn before the loop waits; clicks are handled;
  modules that are due are updated, with a bounded delay while i3 runs.
* Windows: each output that is on lies in a window, none twice, the modules on
  the leftmost monitor.
* Layout: a width is that of the element's own characters, areas are disjoint and
  on the monitor, the right side ends at the margin, a click reaches the element
  drawn under it.
* Workspaces: a drawn list is one list i3 had, no older than the update; it
  becomes the present one.
* Audio: a step of the wheel moves the volume shown; the display settles on the
  default sink.
* Battery, timer: one notification for each episode, never a missing one, no
  alarm colour without it.
* Top bar: a 304 means the forecast that is kept, except for the seconds around
  the last answer; the clock's delay is bounded by what holds up the thread; the
  bell settles on dunst's state.
* Bottom bar: shares and rates stay in range or return to it, samples have a
  bounded age.
* Stopwatch: bounded drift, readings that do not go back.

## 2. The modules

`MC*` modules only give constants their values; `*_proof` modules hold the
theorems. Definitions whose name ends in `_Something` and whose comment begins
with "Mutant" are faulty variants; they are used by no specification and are
there to show that a property can fail. The dotted names of C++ members are kept
where TLA+ allows it.

**InstanceLock** - any number of processes. `pc[p]` is the place of a process in
`handleExistingInstances`, `killExistingInstance`, `writeLockFile` or in its
end; `"foreign"` is a pid that another program has. `lock` is `Absent`, `Empty`
(truncated and not written) or a pid, and `writers` are the processes whose open
stream is still the file linked at the path (another process may unlink it in
between). Each system call that another process can interleave with is an
action. Reading an empty file leaves `existingPid` as it was, which is no value
at all: the model chooses any pid. `ReusePid`, `Crash` and `SendTerm` are
possible at any point. The ghost `tidy` records whether the bar has been used in
the way `Orderly` says: starts with `--restart`, one at a time, no second signal
while `exit()` runs.

**BarLifecycle** - one instance. `mainPc`, `barPc` and the holder of the mutex;
`built` counts the static modules that exist; `touch[b]` is the module thread
`b` is inside of. Wake-ups may be spurious, modules of `MayFail` may fail to
initialise, X may fail, either loop may end, a signal may come at any time.

**BarLoop** - `BarManager::run` of one bar. Time advances in units, `SecUnits`
to the second; `left` is what remains of the timeout, `age[m]` counts seconds
since the last update. `sock` and `evq` are the X events on the socket and in
xcb's queue: a round trip during a render moves events from one to the other.
The subscription is a process that writes its event and exits: `i3-msg` runs
without `-m`, so that each event is followed by an end of file and a new process.
The rigid variable `prompt` chooses between a bar whose work takes no time and
one in which time may pass anywhere. `Stamping` are the modules whose `update()`
stores the `lastUpdate` the scheduler reads. When i3 ends, the process may be
aborted (`"dead"`, see `I3Ipc`). While it is down every new `i3-msg` ends, the
next follows, and any time may pass without a timeout, in a prompt bar too: the
ghost `starved` says that it has, and the next pass over the modules clears it.

**Monitors** - the windows of a bar. `output_info` and `crtc_info` are the two
requests for each output; `Plug` switches an output between any two of them.
What is kept, sorted and made into windows is one action, there being no request
in between. `qsort` gives every order a merge sort can leave with the code's
comparator, which is not a total order. The ghost `torn` records that an output
was switched off between its two requests.

**GlyphWidths** - the choice of a font and the table `xftChar`/`xftWidth`, an open
hash table with linear probing. A full table has no free slot to stop at, and the
operation then has no step.

**BarLayout** - one bar, on top of these two: `init` makes the windows, then a side
is a sequence of elements and separators. `parseElementContent` measures one
character for each step; `renderLeft`, `sumRight` and `renderRight` are the loops
of `bar.h`, one item for each step. Places are stored in a word of `Word` values,
as the 16 bit members are, so that a negative begin wraps. `painted` is the
window's pixmap, the item drawn last at each pixel: a render clears it, and
`draw` fills, character by character, what `drawChar` fills, which for a character
of no font is the width of '?' and more than was counted. A click runs its
handler, which changes an element and draws. The rigid variable `varied` slices
the state space: the outputs vary, or the contents; the two have only the width of
the first monitor in common.

**I3Ipc**, **Workspaces** - i3 (`open`, `focused`, `busy`, `up`) beside the client
and the module. A request is its steps: the path of the socket, two connections,
the write, the header, the payload. i3 may end between any two, and what it had
written of a reply is `"cut"`. `state`, `sock` and `at` are those of the client;
`alive` is the process. An update of the module is one request, and a second one
when the numbers differ. `since` is a ghost, the lists i3 has had since the last
iteration with an update began.

**Audio** - a server with sinks that others plug, mute and turn, beside the
module. A sink has two channels and an index, a new one each time it is plugged
in. `refreshCache` is its two requests. The module reads the mean of the channels
(`pa_cvolume_avg`) and sets a volume of one channel at the index it has cached
(`addressed`): the server scales the channels so that the loudest has it
(`scaled`), or refuses an index that is gone. Raw volumes and percents are
converted with the truncating divisions of the code.

**TopBar** composes **Notifications**, **Weather** and **DateTime**, **BottomBar**
composes **Space**, **Resources** and **Ping**, each by `INSTANCE`, in the order of
`main.cpp`. `todo` is what the thread still has to do of a pass of
`updateModules` or of a click's handler, one step of one module each; while a
call, a check or a process of dunstctl is under way time passes and nothing else
happens in the thread.
`window` is what was last drawn. Of the modules:

* `Weather`: forecasts are numbers. A call gives 200 with a good or a bad body,
  304, or an error; the service answers with what it has when it is asked and
  the module stamps the answer when it has come, with the clock of this machine.
  Forecasts have the date of the service's clock, which is `Skew` seconds ahead
  of it, or behind. The ghost `blind` is the set of the service's seconds that the
  last stamp hides: from the begin of the call (or from the beginning, if the
  forecast the service had has not come) up to the local time of the stamp.
* `DateTime`: a text is the second it was made in.
* `Notifications`: dunst's `paused` and `waiting` beside what the module holds of
  them. A question may fail, and takes as long as it takes: the code sets no limit.
  `TopBar.asked` counts these seconds since the clock's last text, `calls` the
  calls of clicks since then.
* `Ping`: the sum of the counters, which falls when an interface goes away, in
  words of `Word` values; a read that fails leaves no value. The ghost `calm` counts
  the right updates in a row.
* `Resources`: `/proc/stat` with an iowait that may fall, and with it the idle time
  and the total; the sensors found. The ghost `fell` says that between the last two
  samples the idle time fell and the total rose.
* `Space`: display mode and interval.

`BottomBar.varied` is a slice as in `BarLayout`.

**Battery** - `update()` as one action for each file it reads and one that
computes colour and notification. Percentages are compared by cross
multiplication. The ghosts `sent` and `recovered` say that this step notified
and that the battery has really been well since the last notification.

**Stopwatch**, **Timer** - a clock of `MsUnits` units to the millisecond. All
handlers end in `update()`, as in the code. `active` is a ghost, the units really
run. In `Timer` one `update()` reads the clock several times, up to `MaxSlip`
units apart. **Chronometer** is the abstract specification of a stopwatch: a
state and a reading in milliseconds that only a running one advances.

## 3. The runs

| Run | Checks | Bounds, and why they are enough |
|---|---|---|
| `LockRun` | `OneInstanceWhenTidy`, `LockNamesRunner`, `StartSettles` | two pids, all modes, unlimited starts, crashes, signals, pid reuse. Every race in the code is between two processes; the theorems cover any number. |
| `LockRefusedStart` | `OneInstance`, **violated** | three pids, plain starts one after the other: the instance, the refused start, the next one. |
| `LifeRun` | `BottomAfterTop`, `DestroyedUnused`, `BottomStarts` | the bars' real lists of modules, three of which may fail, two spurious wake-ups. Deadlock is not checked: the process ends, and it may also hang (section 5). |
| `LoopRun` | `WaitsRendered`, `LagBounded`, `ClickHandled`, `DueUpdated` | the workspace module and one with a period of its own, two units to the second, two events of the environment: enough for an event in the 10 ms after a timeout, a click during a render, i3 ending, a time without it, and its coming back. |
| `StopwatchRun` | `DriftBounded`, `ImplementsChronometer` | twelve units of three to the millisecond and two resumes, so that losses add up. |
| `TimerRun` | `OneAlert`, `AlertNotEarly`, `RedIsAlerted`, `NeverBack`, `ExpiryAlerts` | targets up to four ms, one unit between two clock readings, twelve units, two resumes. |
| `WorkspaceRun` | `DrawnFresh`, `Converges`, `EmptyForEver`, `LostConnectionEnds` | three names, two changes of i3, one end and new start, one click: a change in each gap of an update, an end at each step of a request. |
| `LayoutRun` | `MonitorsPlaced`, `HeadLeftmost`, `WidthIsOwn`, `AreasDisjoint`, `RightEndsAtMargin`, `ClickHitsDrawn` | three outputs with five rectangles (one within another, one above another, one left of and below another, one lower than the bar) and one switch; four elements and separators on both sides of 15 pixels, two fonts, three characters that share a slot, one of no font and a text that ends in it, a table with exactly as many slots as characters. Both sides fit in some states and overflow in others. `ClickHitsDrawn` compares what a click would find at every pixel with `painted`. An endless probe would be a deadlock, which is checked. |
| `AudioRun` | `ScrollMoves`, `ShowsDefault` | two sinks, one of them Bluetooth, two changes by others, so that a sink goes and comes back under another index, two clicks; both channels silent, both at 50 %, or one of each. That truncation loses no step at any other volume is the theorem's. |
| `TopBarRun` | `CacheIsCurrent`, `ClockLag`, `BellConverges` | six seconds with a period of two and a clock without seconds that is due every three, calls and waits of up to two, a dunstctl that takes any time, a local clock one second ahead, two events (clicks, forecasts, changes of dunst, failed questions): a click's call after a scheduled one, a forecast during a call or in the second its stamp hides, a click that shortens the clock's interval when the text is older than the new one. Deadlock is not checked: a failed first call ends the thread. |
| `BottomBarRun` | `CpuInRange`, `RateRecovers`, `SampleLag` | six seconds, intervals of 1, 2 and 3, counters in a word of 64, one event: iowait falls by less than the total has grown since the last sample, or by more. `Fade` is 4 updates, enough for the largest wrong rate of that word to fade at the code's 0.7, which `FadeAssumption` makes TLC compute. A failed read leaves `Leftover` in the variable, here the worst value. Deadlock is not checked: the clock's bound stops it. |
| `BatteryRun` | `RedIsAlerted`, `AlertAfterRecovery`, `CriticalAlerted` | energies around both limits, all cables, removal between any two reads. |

`LockRun` and `StopwatchRun` check `TypeOK` of their modules as well, which their
theorems state. The type invariants of the other modules can be checked by adding
`INVARIANT TypeOK` (`LifeTypeOK`, `AudioTypeOK`, `BatteryTypeOK`) to a
configuration; all of them hold on these instances, and those of `BarLifecycle`
and `Battery` are theorems.

### Fairness

* `InstanceLock`: each step of a start, since its waits are `sleep`s that return,
  and the delivery of a signal that was sent. Nothing is assumed of `exit(0)`,
  which runs destructors that may block; `StartSettles` holds all the same,
  because the code goes on to SIGKILL.
* `BarLifecycle`: every runnable thread is scheduled and `initialize()` returns.
  The bar's loop, signals and wake-ups owe nothing.
* `BarLoop`: the thread is scheduled, time passes, the X server answers a copy
  with NoExpose, and an `i3-msg` that has written its event exits. No event needs
  to happen.
* `Timer`, `Battery`: the scheduler calls `update()`, which is `DueUpdated` of
  `BarLoop`. `Audio` adds that the server answers and time passes, `Workspaces`
  that timeouts come back while i3 runs (`DueUpdated` again, which says no more),
  that the thread runs and that an i3 that runs answers. i3 need not come up, stay
  up or come back; `LostConnectionEnds` speaks of one that has.
* `TopBar`: the thread is scheduled, a call of the weather service ends, which
  `CURLOPT_TIMEOUT` makes it do, and so does a process of dunstctl, which nothing
  makes it do: `BellConverges` is about a dunst that answers or fails.
* The other specifications assume none and check safety only.

## 4. The proofs

Theorems hold for every value of the constants that the named assumptions allow.

* **InstanceLock_proof** (`LockAssumption`): `LockTypeOK`, `OrderlyUseOneInstance`,
  `OrderlyUseLockNamesRunner`. `OneInstance` is not inductive: a start that is
  past its look at the lock file could already be doomed to make a second
  instance. The invariant adds, as long as the use is orderly, that the lock file
  names the instance that runs, that a start that has read the file has seen that
  instance and that none is past the point where it must be gone
  (`RunnerIsSeen`), and that nobody else touches the file between its truncation
  and the end of the start (`OwnFile`). The proof has one step for each action;
  crashes and reused pids only take instances away.
  For `BarLifecycle` (`LifecycleAssumption`): `LifecycleTypeOK`,
  `BottomAlwaysAfterTop`, `DestroyedAlwaysUnused`. `HandshakeInv` ties
  `gTopReady` to the place of the top thread and main's place after the wait to
  `gTopReady`; `JoinedInv` says that main is past its joins only when both
  threads are done, so that no thread touches a module when `return` begins to
  destroy them.
* **BarLoop_proof** (`LoopAssumption`: any modules, periods and bounds, at least
  two units to the second): `LoopWaitsRendered`, `LoopLagBounded`. `Rendered` adds to
  `WaitsRendered` that content not yet drawn in the middle of an iteration is the
  workspace module's, with `changed` set, so that `updateModules` is bound to draw
  it. `LagBounded` is not inductive, since a module may have used up its delay:
  `OnTime` says that then its update is the next thing to happen, and for this it
  relates the rest of `select()`'s timeout to the phase of the second; both hold
  from the pass that follows a time without i3 (`InTime`).
* **Stopwatch_proof** (`StopwatchAssumption`): `StopwatchTypeOK`,
  `StopwatchDrift`, `StopwatchImplementsChronometer`. The invariant `Core`
  relates the three time stamps to two ghosts, the units really run and the
  units lost by truncation, which are less than a millisecond for each resume.
  The lemmas on truncating division give what a truncated difference can be. Every
  step of the stopwatch is then a step of `Chronometer` or leaves its state alone.
* **Timer_proof** (`TimerAssumption`): `TimerOneAlert`, `TimerRedIsAlerted`,
  `TimerAlertNotEarly`, `TimerNeverBack`. `Core` is that of the stopwatch. `Alerted`
  ties the count to the flag and the flag to a countdown that is on and has come
  to its end; the end is stated as a product (`expired`), which the lemma
  `Quotient` exchanges with the code's quotient, so that it lasts when the clock
  goes on and is what both readings of the clock in one `update()` compare with.
* **BarLayout_proof** (`LayoutAssumption`, `GlyphAssumption`, `MonitorAssumption`):
  `LayoutWidthIsOwn`, `LayoutAreasDisjoint`, `LayoutRightEndsAtMargin`,
  `LayoutClickHitsDrawn`, `LayoutMonitorsPlaced`, `LayoutHeadLeftmost`, for any
  fonts, contents, items and outputs. The assumptions are the types of the
  protocol and of the table: widths of outputs fit 16 bits, those of glyphs 7; the
  separator's characters and '?' are in some font. `LayoutInv` has four parts:
  * `MonInv`: how many outputs have answered, against the code's `valid`. The clone
    filter keeps a rectangle around each that it drops, because containment is
    transitive and there is a largest one, of equal ones the first.
  * `LTypes`, the types.
  * `Measuring`: a slot of the table that is in use holds its character with that
    character's own width; `cur` is the sum of the first `k - 1` characters. This
    is what makes the slots a character shares with others harmless.
  * `Walking`: while a side is walked the items before the `i`th are at the sums of
    the widths before them, for the right side counted from the margin. Areas
    are disjoint because these sums do not fall.

  `LayoutClickHitsDrawn` needs two more: `Parsed`, that once everything is measured
  the widths are those of the contents that will be drawn, and `Painted`, that the
  pixels of an item that has been placed show that item. An item drawn later begins
  behind it, but for the right side only if the two sides have room (lemma `Room`),
  and fills nothing before its own begin; what a '?' fills beyond its element is
  filled again by the next one or is found by no click.

  The sums are recursive functions. What they compute is proved by induction in
  its first-order form, from the least number that would be an exception.
* **Workspaces_proof** (`WorkspaceAssumption`: any nonempty finite set of numbers,
  any number of changes, ends and clicks): `WorkspacesDrawnFresh`,
  `WorkspacesEmptyForEver`. `Client` says that nothing is on the wire where a
  request begins, so that no answer is taken for that of another request, that an
  answer on the wire or taken is a list of `since`, and that NULL comes from the
  error state alone. `Fresh` carries this to the elements and from there to the
  window. The second theorem adds that no step leaves the error state.
* **TopBar_proof**, three parts:
  * the top bar (`TopBarAssumption`: any period, any length of calls and waits, any
    difference of the clocks, any number of events): `TopBarClockLag`,
    `TopBarCacheIsCurrent`. `ClockInv` lists what `todo` can be and bounds the age of
    the last text by where the thread is: in `select()` by the wait so far, in a pass
    by the whole wait and the call so far, in a click's call by one call more than is
    counted yet, everywhere by the calls of clicks and the seconds of dunstctl that
    have come in between (`Aged`). `ClockLag` is said of the states that last: the
    click that shortens the interval finds a text as old as the longer one allowed,
    between the handler and its render. `Kept` adds to `CacheIsCurrent` that a
    forecast yet to be published in a second the date covers is in `blind` (`Hides`),
    that what a call under way will bring is the newest forecast or that was
    published since the call began, and that an answer with a body was due to a
    forecast later than the date (`Coming`).
  * `Audio` (`AudioAssumption`: any sinks, any volumes, at least one unit of the
    server's scale to the percent; PulseAudio's has 655): `AudioScrollMoves`. The
    lemma `ThereAndBack` says that the two truncating conversions together lose at
    most one percent, so that a step of two is seen; the mean of channels of which
    the loudest has a volume is at most that volume, and is that volume if they are
    equal, which is why a step up needs a balanced sink. `Scrolled` carries this from
    the click through the two requests of the refresh: until somebody else changes
    something the default sink has the volume that was set, and a list that has been
    asked for is read for that sink.
  * `Battery` (`BatteryAssumption`): `BatteryTyped`, `BatteryRedIsAlerted`,
    `BatteryAlertAfterRecovery`. `Quiet` says that while the battery has not
    recovered since the last notification the flag is set and nothing `update()`
    holds, neither what it has read nor what it would read now, can clear it. The
    colour needs that no energy is below the lower and above the upper limit
    (`LimitsApart`).
* **BottomBar_proof** (`BottomBarAssumption`, `FadeAssumption`): `BottomBarSampleLag`,
  `BottomBarCpuInRange`, `BottomBarRateRecovers`, for any intervals, waits and times
  of a check.
  * `SampleInv`: the age of a sample between its module's turn and the next one, and
    of what is drawn, which is one check older at the end of a pass than in
    `select()`. One `SampleLag` for all three modules needs the ages of the samples
    not yet drawn as well.
  * `CpuInv`: since the last sample the idle time has not grown more than the total
    and has fallen at least as much, whatever iowait did. The share is then a quotient
    of numbers in order, also if both are negative and wrap (`Differences`), unless
    only the first is (`fell`).
  * `RateInv`: a pass reads the counters at most a wait and a check after the last
    read (`Recent`), so that a right difference is at most `MaxRate` times that
    (`Counted`), and after `n` right updates the smoothed rate is above it by at most
    `excess[n]` (`Faded`), three tenths of the one before, rounded up.
    `FadeAssumption` says that `Fade` updates leave at most 1 of the largest number of
    a word: it is how many the property must wait for that width (4 for the word of
    the run, 37 for the 64 bits of the code), not an assumption on the program. That
    the counters do not go round in the time that is modelled is part of
    `BottomBarAssumption`.

A proof module extends the modules it is about, so `InstanceLock` and
`BarLifecycle`, and `TopBar`, `Audio` and `Battery`, share a name space: this is why the
definitions of `BarLifecycle`, `Audio` and `Battery` that every module has are called
`LifeInit`, `AudioInit`, `BatteryInit` and so on. They have no variable in common, and
no theorem speaks of two of them.

Most of these invariants were checked with TLC on the instance of the module's run
before they were proved; one that ranges over all integers, such as `Hides`, cannot be.

Every safety property of the runs, invariant or action property, is stated by a
theorem, and so is the refinement of `Chronometer`. Only model-checked is what
needs fairness (`StartSettles`, `BottomStarts`, `ClickHandled`, `DueUpdated`,
`ExpiryAlerts`, `Converges`, `LostConnectionEnds`, `ShowsDefault`, `BellConverges`,
`CriticalAlerted`): the prover has neither the rules of fairness nor `ENABLED`.

## 5. What the code does that its texts do not say

One run shows a disagreement between the code and its own message; it is under
"findings".

* `LockRefusedStart`: a start that is refused ("ya está en ejecución") removes the
  running instance's lock file in the destructor of `ProcessManager`
  (`process_manager.cpp:15`). The next plain start finds no file and a second bar
  comes up.

Others are plain from the models, whose properties are conditional because of
them:

* Two starts with `--restart` made together may both run; `tidy` excludes it. So
  it does a second signal in `exit()` and main's cleanup followed by that of the
  destructor, which remove the file an instance started meanwhile has written
  (`process_manager.cpp:15`, `:102`).
* `--kill` calls `killExistingInstance` before anything sets the path of the lock
  file (`main.cpp:316`): it reads none and ends nothing.
* `exit()` in the signal handler destroys static modules while the threads are
  inside them (`process_manager.cpp:103`); `DestroyedUnused` speaks of main's
  return only.
* A top module that fails to initialise leaves main waiting for ever
  (`main.cpp:399`).
* With i3 gone, the renewed subscription is at end of file at once and readable
  for ever; the timeouts, and with them every periodic update, do not come back
  (`workspace.h:197`). `DueUpdated` and `LagBounded` leave these times out. The
  client, which only a timeout or an event would call, does not notice either: a
  bar whose i3 is gone for good goes round without end.
* `audio.h:68` declares a `lastUpdate` of its own, which hides the one the
  scheduler reads: the module is due at every timeout. `upower` runs at every
  refresh while no battery level is known (`audio.h:131`).
* The volume shown is the mean of a sink's channels and the one that is set is of
  one channel, to which the server scales the loudest (`audio.h:99`, `:185`). On a
  sink with one channel at 100 % and the other silent the bar shows 50 %, and a
  step of the wheel upwards sets the loudest to 52 %: the bar shows 26 %.
  `ScrollMoves` says so for steps down only, or for channels that are equal. A sink
  that was unplugged and is back has another index; until the next refresh clicks
  and scrolls address the old one and are refused (`audio.h:154`, `:186`).
* `updateElements` rewrites the name that is shown and not the one the click
  handler has captured (`workspace.h:71` and `:104-109`), so that after a change
  with the same number of workspaces a click asks for another one.
* i3 restarted ends the bar: once it is back the client's next request meets the
  closed socket and aborts (`i3ipc.h:890`; `LostConnectionEnds`). A bar started before
  i3 never shows workspaces (`i3ipc.h:1138`; `EmptyForEver`).
* The constructor of the workspace module subscribes and `initialize()` does so
  again (`workspace.h:22`): the first pipe is never closed, and no `i3-msg` is
  waited for. The length that `snprintf` returns is used as that of the text
  (`workspace.h:66`).
* A click on the weather calls the service although the comment at
  `weather.h:157` speaks of the cache only. `lastModified` is the local time at
  which an answer came, not the date the service gave it (`weather.h:61-62`, `:200`): a
  forecast published while it was on its way, or later if the local clock is ahead,
  or one whose body did not parse, is answered 304 from then on. `CacheIsCurrent`
  says that no other is (`blind`). `lastApiCall` is never read.
* dunstctl is waited for without a limit, twice in a pass of the top bar and three
  times in a click (`notifications.h:17-35`): a dunst that does not answer stops the
  clock and the clicks. `ClockLag` counts this time.
* A battery that is inserted between the reads of `energy_now` and `energy_full`
  counts as empty for one update (`battery.h:22`, `:74`).
* The content of date and time is written without a terminator and may keep the
  time of day after it was switched off (`datetime.h:95`).
* The test for a negative rate never holds, the difference being unsigned
  (`ping.h:173`): when an interface goes away the rate shown is huge and fades
  over the next updates. When iowait falls by more than the rest of the idle time
  grew, but by less than the total did, the processor's share is a huge negative
  number for one sample (`resources.h:120`); if it falls by more than that both
  differences wrap and the share is about 0.
* Two of the three display modes of the space module show the same
  (`space.h:94-137`).
* A character of no font is drawn as '?' and counts with no width, so that it
  overlaps its neighbour (`bar.h:646-677`). A right side wider than the bar begins
  near 2^16, where no click finds its elements (`bar.h:844`). With `MAX_WIDTHS` different
  characters measured, the next one hangs the bar (`bar.h:389`); a width of more
  than 127 pixels does not fit its `char`. `new Bar` does not initialise the table
  (`bar.h:139`): it is zero only because so large a block is fresh from the kernel.
* An output that is switched off between its two requests has been counted
  without a rectangle, and one of the rectangles that are sorted was never
  written (`bar.h:1294`, `:1324`; `torn`). Outputs that change after the start are
  not looked at again.
* A PulseAudio request that is refused returns a null operation, which the wait
  dereferences (`audio.h:121`).

## 6. What is left out

* `InstanceLock`: a lock file that holds a negative number (a process group), a
  disk that is full while it is written, and that the kernel prefers the main
  thread for signals. The debug log.
* `BarLifecycle`: what a module does inside `initialize()`, other than fail.
* `BarLoop`: how long a handler takes (with `prompt` false any time passes), the
  time `i3-msg` needs before its end of file.
* `Monitors`: Xinerama (not compiled in), a `--geometry` (the program has none: the
  offsets are 0 and the width is that of all monitors), RandR that is missing or
  does not answer at all, which is the fallback without outputs.
* `GlyphWidths`, `BarLayout`: the glyphs themselves, colours, underlines, UTF-8
  decoding (a content is a sequence of code points), fonts that are not Xft's, the
  early return when `XftDrawCreate` fails. A module has one element.
* `I3Ipc`: the parser (a reply that came whole is the list), the other requests of
  the header, which the bar does not use.
* `Workspaces`: texts. `Audio`: a connection that is lost. `Battery`: floating
  point (the percentages are compared exactly), texts, icon and power. `Timer`:
  texts. `Ping`: received bytes, which are treated as those sent are, and the
  latency's value. `Resources`: memory and the temperature's value.
* The modules of one bar are composed in threes; the others of the same thread
  take no time of their own except audio, whose requests are in `Audio`.

### Not modelled

* The set-up of X (visual, colormap, EWMH properties, loading of fonts), which
  runs once and keeps nothing that changes; that it may fail is
  `BarLifecycle.ConstructBar`.
* Colours and helpers (`color.h`, `helper.h`): parsing of literals without state.
* `NotifyManager`: two calls of libnotify; a notification is an event of `Timer`
  and `Battery`.

## 7. Plan

Order of the work, the most important behaviour first. Done: the lock, the
threads, the loop, the modules with state that lasts, the composition of those
that share a thread, the client of i3 with its failures, the windows and the table
of glyph widths, and the proofs of section 4, which cover every safety property
that a run checks.

What is left to model: a PulseAudio connection that is lost, and the text buffers
with the lengths `snprintf` returns.
