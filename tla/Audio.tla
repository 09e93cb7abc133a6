-------------------------------- MODULE Audio --------------------------------
(***************************************************************************)
(* AudioModule (modules/audio.h) and the PulseAudio server it asks.  A     *)
(* handler changes the sink it has cached, and every handler, like         *)
(* update(), ends with refreshCache: a request for the default sink's name *)
(* and one for the list of sinks.  Between the two, and between a refresh  *)
(* and the next click, other programs change the server.                   *)
(*                                                                         *)
(* A sink has a volume for each of two channels and an index, which is new *)
(* each time it is plugged; a volume of one channel, which is what the     *)
(* module sets, scales both.                                               *)
(*                                                                         *)
(* scrolled is not in the code: the scroll that is to be seen in the next  *)
(* refresh.                                                                *)
(***************************************************************************)
EXTENDS Integers, Sequences

LOCAL INSTANCE SequencesExt

CONSTANTS
  Sinks,          \* all sinks, in the order of their first indices
  Bluetooth,      \* the ones whose name has "bluez"
  Norm,           \* PA_VOLUME_NORM
  Raw,            \* the volumes of the two channels other programs set
  Levels,         \* what upower may say of a battery
  Gate,           \* units in 250 ms
  BatteryPeriod,  \* units in 30 s
  MaxChanges,     \* bound: changes by other programs
  MaxClicks,      \* bound: clicks and scrolls
  NoSink          \* no sink, no scroll

SinkSet == {Sinks[k] : k \in 1..Len(Sinks)}

ASSUME AudioAssumption ==
  /\ Sinks \in Seq(SinkSet) /\ Sinks # <<>>
  /\ Bluetooth \subseteq SinkSet
  /\ Norm \in Nat /\ Norm >= 100  \* a percent is a unit of the scale at least
  /\ Raw \subseteq Nat \X Nat /\ Raw # {}
  /\ Levels \subseteq Nat
  /\ Gate \in Nat /\ BatteryPeriod \in Nat
  /\ MaxChanges \in Nat /\ MaxClicks \in Nat
  /\ NoSink \notin SinkSet

VARIABLES
  plugged, default, vol, mute, idx,  \* the server
  request,                       \* "idle", "server" or "list"
  stamp,                         \* this refresh was begun by update()
  defaultSinkName, allSinks,
  currentSink,                   \* name, index, volume in percent, isMuted
  cachedBattery,                 \* -1: not known
  age, batteryAge,               \* units since lastUpdate, lastBatteryCheck
  scrolled,
  changes, clicks

server == <<plugged, default, vol, mute, idx>>
audioVars == <<server, request, stamp, defaultSinkName, allSinks, currentSink,
               cachedBattery, age, batteryAge, scrolled, changes, clicks>>

(* Type invariant: the sinks PulseAudio has, what audio.h keeps of them,   *)
(* and a raw volume that scrolling never makes negative.                   *)
AudioTypeOK ==
  /\ plugged \subseteq SinkSet /\ default \in plugged
  /\ vol \in [SinkSet -> Nat \X Nat] /\ mute \in [SinkSet -> BOOLEAN]
  /\ idx \in [SinkSet -> Nat]
  /\ request \in {"idle", "server", "list"} /\ stamp \in BOOLEAN
  /\ defaultSinkName \in SinkSet \cup {NoSink}
  /\ allSinks \in Seq(SinkSet)
  /\ \/ currentSink = NoSink
     \/ currentSink \in [name : SinkSet, index : Nat, volume : Nat, isMuted : BOOLEAN]
  /\ cachedBattery \in Levels \cup {-1}
  /\ age \in 0..Gate /\ batteryAge \in 0..BatteryPeriod
  /\ changes \in 0..MaxChanges /\ clicks \in 0..MaxClicks

(* Both time stamps are those of a zero time_point.                        *)
AudioInit ==
  /\ plugged \in SUBSET SinkSet /\ default \in plugged
  /\ vol \in [SinkSet -> Raw] /\ mute = [s \in SinkSet |-> FALSE]
  /\ idx = [s \in SinkSet |-> CHOOSE k \in 1..Len(Sinks) : Sinks[k] = s]
  /\ request = "idle" /\ stamp = FALSE
  /\ defaultSinkName = NoSink /\ allSinks = <<>> /\ currentSink = NoSink
  /\ cachedBattery = -1
  /\ age = Gate /\ batteryAge = BatteryPeriod
  /\ scrolled = NoSink
  /\ changes = 0 /\ clicks = 0

-----------------------------------------------------------------------------
(* Volumes: the server's scale and the percent shown; both casts truncate. *)

toPercent(raw) == (raw * 100) \div Norm

(* Mutant: the scale ends at 99.                                           *)
toRaw_OneLess(percent) ==
  IF percent = 0 THEN 0 ELSE (Norm * (percent - 1)) \div 100

toRaw(percent) == (Norm * percent) \div 100

(* pa_cvolume_avg *)
average(v) == (v[1] + v[2]) \div 2

(* What the server makes of the volume v when one of a single channel, n,  *)
(* is set: the loudest channel becomes n and the others keep their share.  *)
scaled(v, n) ==
  LET loudest == IF v[1] < v[2] THEN v[2] ELSE v[1]
  IN  IF loudest = 0 THEN <<n, n>>
      ELSE <<(v[1] * n) \div loudest, (v[2] * n) \div loudest>>

(* What sink_info_callback makes of the sink s.                            *)
info(s) == [name |-> s, index |-> idx[s], volume |-> toPercent(average(vol[s])),
            isMuted |-> mute[s]]

current == currentSink # NoSink /\ currentSink = info(default)

(* The sink an operation on the cached index is done to: none, and the     *)
(* server refuses it, when the index is gone, even if the sink is back.    *)
addressed == {s \in plugged : idx[s] = currentSink.index}

-----------------------------------------------------------------------------
(* The handlers.  The element has no area before the first refresh, so     *)
(* that currentSink is known in each of them.                              *)

click ==
  /\ request = "idle" /\ currentSink # NoSink
  /\ clicks < MaxClicks /\ clicks' = clicks + 1

beginRefresh ==
  /\ request' = "server" /\ stamp' = FALSE
  /\ UNCHANGED <<defaultSinkName, allSinks, currentSink, cachedBattery, age,
                 batteryAge, changes>>

toggleMute ==
  /\ click
  /\ mute' = [s \in SinkSet |-> IF s \in addressed THEN ~currentSink.isMuted ELSE mute[s]]
  /\ scrolled' = NoSink
  /\ UNCHANGED <<plugged, default, vol, idx>>
  /\ beginRefresh

balanced == vol[default][1] = vol[default][2]

adjustVolume(delta) ==
  /\ click
  /\ LET new == IF currentSink.volume + delta > 0
                THEN currentSink.volume + delta ELSE 0
     IN  vol' = [s \in SinkSet |-> IF s \in addressed THEN scaled(vol[s], toRaw(new))
                                   ELSE vol[s]]
  /\ scrolled' = IF current /\ (delta < 0 \/ balanced)
                 THEN <<delta, currentSink.volume>> ELSE NoSink
  /\ UNCHANGED <<plugged, default, mute, idx>>
  /\ beginRefresh

(* cycleSinks returns at once when it knows of no second sink; a current   *)
(* sink that is not in the list leaves the default as it is.               *)
cycleSinks ==
  /\ click
  /\ Len(allSinks) > 1
  /\ LET at   == {j \in 1..Len(allSinks) : allSinks[j] = currentSink.name}
         next == allSinks[((CHOOSE j \in at : TRUE) % Len(allSinks)) + 1]
     IN  default' = IF at # {} /\ next \in plugged THEN next ELSE default
  /\ scrolled' = NoSink
  /\ UNCHANGED <<plugged, vol, mute, idx>>
  /\ beginRefresh

(* update() refreshes unless the last one it made is less than 250 ms old  *)
update ==
  /\ request = "idle" /\ age >= Gate
  /\ request' = "server" /\ stamp' = TRUE
  /\ UNCHANGED <<server, defaultSinkName, allSinks, currentSink,
                 cachedBattery, age, batteryAge, scrolled, changes, clicks>>

-----------------------------------------------------------------------------
(* refreshCache.                                                           *)

(* Mutant: the name of the default sink is asked for once.                 *)
server_info_callback_Once ==
  /\ request = "server"
  /\ allSinks' = <<>>
  /\ defaultSinkName' = IF defaultSinkName = NoSink THEN default ELSE defaultSinkName
  /\ request' = "list"
  /\ UNCHANGED <<server, stamp, currentSink, cachedBattery, age, batteryAge,
                 scrolled, changes, clicks>>

server_info_callback ==
  /\ request = "server"
  /\ allSinks' = <<>>
  /\ defaultSinkName' = default
  /\ request' = "list"
  /\ UNCHANGED <<server, stamp, currentSink, cachedBattery, age, batteryAge,
                 scrolled, changes, clicks>>

(* Calls of getBluetoothBatteryLevel for a list with bluetooth sinks.  The *)
(* reading is kept for 30 seconds once it is known; upower may print a     *)
(* level or nothing, and popen may fail.                                   *)
getBluetoothBatteryLevel ==
  IF plugged \cap Bluetooth = {} \/ (cachedBattery # -1 /\ batteryAge < BatteryPeriod)
  THEN UNCHANGED <<cachedBattery, batteryAge>>
  ELSE \/ /\ cachedBattery' \in Levels \cup {cachedBattery}
          /\ batteryAge' = 0
       \/ UNCHANGED <<cachedBattery, batteryAge>>

(* The list, by index, then updateElement; update() alone sets its time    *)
(* stamp.  When the default sink is gone from the list currentSink stays   *)
(* as it was.                                                              *)
sink_info_callback ==
  /\ request = "list"
  /\ allSinks' = SetToSortSeq(plugged, LAMBDA s, t : idx[s] < idx[t])
  /\ currentSink' = IF defaultSinkName \in plugged
                    THEN info(defaultSinkName) ELSE currentSink
  /\ getBluetoothBatteryLevel
  /\ age' = IF stamp THEN 0 ELSE age
  /\ request' = "idle"
  /\ UNCHANGED <<server, stamp, defaultSinkName, scrolled, changes, clicks>>

refreshCache == server_info_callback \/ sink_info_callback

-----------------------------------------------------------------------------
(* Other programs, devices, and time.  A sink that is plugged gets an      *)
(* index no sink had before.                                               *)

Change ==
  /\ changes < MaxChanges /\ changes' = changes + 1
  /\ \/ /\ \E s \in plugged, v \in Raw : vol' = [vol EXCEPT ![s] = v]
        /\ UNCHANGED <<plugged, default, mute, idx>>
     \/ /\ \E s \in plugged : mute' = [mute EXCEPT ![s] = ~@]
        /\ UNCHANGED <<plugged, default, vol, idx>>
     \/ /\ \E s \in plugged : default' = s
        /\ UNCHANGED <<plugged, vol, mute, idx>>
     \/ /\ \E s \in plugged : plugged' = plugged \ {s}
        /\ IF default \in plugged' THEN default' = default ELSE default' \in plugged'
        /\ UNCHANGED <<vol, mute, idx>>
     \/ /\ \E s \in SinkSet \ plugged :
             /\ plugged' = plugged \cup {s}
             /\ idx' = [idx EXCEPT ![s] = Len(Sinks) + changes']
        /\ UNCHANGED <<default, vol, mute>>
  /\ scrolled' = NoSink
  /\ UNCHANGED <<request, stamp, defaultSinkName, allSinks, currentSink,
                 cachedBattery, age, batteryAge, clicks>>

AudioTick ==
  /\ age' = IF age < Gate THEN age + 1 ELSE age
  /\ batteryAge' = IF batteryAge < BatteryPeriod THEN batteryAge + 1 ELSE batteryAge
  /\ <<age', batteryAge'>> # <<age, batteryAge>>
  /\ UNCHANGED <<server, request, stamp, defaultSinkName, allSinks, currentSink,
                 cachedBattery, scrolled, changes, clicks>>

-----------------------------------------------------------------------------

(* One step of the wheel is 2 percent.                                     *)
AudioNext ==
  \/ toggleMute \/ cycleSinks \/ \E d \in {2, -2} : adjustVolume(d)
  \/ update \/ refreshCache \/ Change \/ AudioTick

AudioSpec == AudioInit /\ [][AudioNext]_audioVars

(* The server answers, the scheduler calls update(), time passes.          *)
AudioFairSpec ==
  /\ AudioSpec
  /\ WF_audioVars(refreshCache) /\ WF_audioVars(update) /\ WF_audioVars(AudioTick)

-----------------------------------------------------------------------------
(* Properties.                                                             *)

(* When the other programs and the user leave the server alone, what is    *)
(* shown becomes and stays the default sink with its volume, although a    *)
(* refresh may take the name and the list from different moments.          *)
ShowsDefault == <>[]current

(* A scroll moves the percentage that is shown in its direction, unless    *)
(* somebody else changes the server meanwhile, or it is 0 already: down    *)
(* always, up when the channels are equally loud.  The two truncating      *)
(* conversions never undo a step of the wheel, and neither does the        *)
(* scaling of the channels (audio.h 99, 182-194).  Up is not so on         *)
(* channels that differ: their mean is shown, but it is the loudest that   *)
(* is set to it.                                                           *)
ScrollMoves ==
  request = "idle" /\ scrolled # NoSink =>
    IF scrolled[1] > 0 THEN currentSink.volume > scrolled[2]
    ELSE currentSink.volume < scrolled[2] \/ currentSink.volume = 0
=============================================================================
