------------------------------ MODULE Battery ------------------------------
(***************************************************************************)
(* BatteryModule (modules/battery.h): the reader of                        *)
(* /sys/class/power_supply/BAT0, its colours and its one notification.     *)
(* update() opens one file after the other, so the battery may change      *)
(* between two of them, and be taken out or put back: each read is a step  *)
(* of its own.  A status is its first character, all that is compared;     *)
(* "N" stands for every one that neither charges nor discharges.  The      *)
(* percentage is compared as energyNow * 100 with a limit * energyFull.    *)
(* power_now and the texts are left out.                                   *)
(*                                                                         *)
(* Not in the code: sent, the last step sent a notification; recovered,    *)
(* since the last one the battery has really been above the upper limit or *)
(* charging.                                                               *)
(***************************************************************************)
EXTENDS Naturals

CONSTANTS
  Full,       \* energy_full
  Energies,   \* bound: the values of energy_now
  Low, Ok,    \* the limits, in percent: alert below Low, rearm above Ok
  Removable   \* TRUE: the battery may be taken out

ASSUME BatteryAssumption ==
  /\ Full \in Nat \ {0} /\ Energies \subseteq 1 .. Full
  /\ Low \in Nat /\ Ok \in Nat /\ Low <= Ok /\ Ok <= 100
  /\ Removable \in BOOLEAN

VARIABLES
  energy, cable, present,    \* the battery: energy_now, status, BAT0 exists
  pc,                        \* "wait", or the file update() reads next, or "apply"
  energyNow, energyFull, status,
  textColor, notificationSent,
  sent, recovered

hardware == <<energy, cable, present>>
batteryVars == <<hardware, pc, energyNow, energyFull, status, textColor,
                 notificationSent, sent, recovered>>

Plugs == {"C", "D", "N"}

(* Type invariant: what is read is a value of the battery, or 0.           *)
BatteryTypeOK ==
  /\ energy \in Energies /\ cable \in Plugs /\ present \in BOOLEAN
  /\ pc \in {"wait", "energy_full", "status", "apply"}
  /\ energyNow \in Energies \cup {0} /\ energyFull \in {0, Full}
  /\ status \in Plugs \cup {"U"}
  /\ textColor \in {"default", "red", "normal"}
  /\ notificationSent \in BOOLEAN /\ sent \in BOOLEAN
  /\ recovered \in BOOLEAN

BatteryInit ==
  /\ energy \in Energies /\ cable \in Plugs
  /\ present \in (IF Removable THEN BOOLEAN ELSE {TRUE})
  /\ pc = "wait"
  /\ energyNow = 0 /\ energyFull = 0 /\ status = "U"
  /\ textColor = "default" /\ notificationSent = FALSE
  /\ sent = FALSE /\ recovered = TRUE

-----------------------------------------------------------------------------
(* Percentages.                                                            *)

below(e, f, limit) == e * 100 < limit * f
above(e, f, limit) == e * 100 > limit * f

reallyLow == present /\ below(energy, Full, Low)
reallyIdle == present /\ cable # "C"
reallyOk == present /\ (above(energy, Full, Ok) \/ cable = "C")

isCharging == status = "C"

-----------------------------------------------------------------------------
(* update().                                                               *)

(* readLong: an absent file, and one whose read fails, count as 0 *)
readLong(value) == IF present THEN value ELSE 0

(* energyNow = readLong("energy_now", "charge_now") *)
readEnergyNow ==
  /\ pc = "wait"
  /\ energyNow' = readLong(energy)
  /\ pc' = "energy_full"
  /\ sent' = FALSE
  /\ UNCHANGED <<hardware, energyFull, status, textColor, notificationSent,
                 recovered>>

readEnergyFull ==
  /\ pc = "energy_full"
  /\ energyFull' = readLong(Full)
  /\ pc' = "status"
  /\ sent' = FALSE
  /\ UNCHANGED <<hardware, energyNow, status, textColor, notificationSent,
                 recovered>>

(* Mutant: the status is read only until it is known.                      *)
readStatus_Once ==
  /\ pc = "status"
  /\ status' = IF present /\ status = "U" THEN cable ELSE status
  /\ pc' = "apply"
  /\ sent' = FALSE
  /\ UNCHANGED <<hardware, energyNow, energyFull, textColor,
                 notificationSent, recovered>>

(* readStatus: a status file that cannot be opened leaves the status of    *)
(* the last update, one that goes away while it is read makes it unknown   *)
readStatus ==
  /\ pc = "status"
  /\ status' \in IF present THEN {cable} ELSE {status, "U"}
  /\ pc' = "apply"
  /\ sent' = FALSE
  /\ UNCHANGED <<hardware, energyNow, energyFull, textColor,
                 notificationSent, recovered>>

(* Mutant: the colour does not look at the charger.                        *)
updateVisuals_Charging ==
  textColor' = IF below(energyNow, energyFull, Low) THEN "red" ELSE "normal"

updateVisuals ==
  textColor' = IF below(energyNow, energyFull, Low) /\ ~isCharging
               THEN "red" ELSE "normal"

(* Mutant: one limit for both, no hysteresis.                              *)
checkBatteryAlert_OneLimit ==
  LET alert == below(energyNow, energyFull, Low) /\ ~isCharging
  IN  /\ sent' = (alert /\ ~notificationSent)
      /\ notificationSent' = alert

checkBatteryAlert ==
  LET alert == below(energyNow, energyFull, Low) /\ ~isCharging
      rearm == above(energyNow, energyFull, Ok) \/ isCharging
  IN  /\ sent' = (alert /\ ~notificationSent)
      /\ notificationSent' = (sent' \/ (notificationSent /\ ~rearm))

(* if (energyFull > 0) { ... }; without it nothing is shown nor alerted *)
apply ==
  /\ pc = "apply"
  /\ IF energyFull > 0
     THEN updateVisuals /\ checkBatteryAlert
     ELSE sent' = FALSE /\ UNCHANGED <<textColor, notificationSent>>
  /\ pc' = "wait"
  /\ recovered' = IF sent' THEN reallyOk ELSE recovered
  /\ UNCHANGED <<hardware, energyNow, energyFull, status>>

updateStep == readEnergyNow \/ readEnergyFull \/ readStatus \/ apply

-----------------------------------------------------------------------------
(* The battery.                                                            *)

seen ==
  /\ recovered' = (recovered \/ reallyOk')
  /\ sent' = FALSE
  /\ UNCHANGED <<pc, energyNow, energyFull, status, textColor,
                 notificationSent>>

(* It charges or discharges by one of the Energies. *)
Charge ==
  /\ present
  /\ energy' \in {energy - 1, energy + 1} \cap Energies
  /\ UNCHANGED <<cable, present>>
  /\ seen

Plug ==
  /\ cable' \in Plugs \ {cable}
  /\ UNCHANGED <<energy, present>>
  /\ seen

Remove ==
  /\ Removable
  /\ present' = ~present
  /\ UNCHANGED <<energy, cable>>
  /\ seen

BatteryNext == updateStep \/ Charge \/ Plug \/ Remove

BatterySpec == BatteryInit /\ [][BatteryNext]_batteryVars

(* The scheduler calls update() every five seconds (BarLoop, DueUpdated).  *)
BatteryFairSpec == BatterySpec /\ WF_batteryVars(updateStep)

-----------------------------------------------------------------------------
(* Properties.                                                             *)

(* Between two notifications the battery has really been above the upper   *)
(* limit or on the charger, whatever came and went between two reads: one  *)
(* that hovers around the lower limit notifies once (battery.h 85-96).     *)
AlertAfterRecovery == [][sent' => recovered]_batteryVars

(* A red text has been notified, although updates without energy_full skip *)
(* both and the two conditions are computed apart (battery.h 29-33, 75-79, *)
(* 88-95).                                                                 *)
RedIsAlerted == textColor = "red" => notificationSent

(* A battery that stays critical off the charger gets its notification.    *)
CriticalAlerted ==
  (reallyLow /\ reallyIdle) ~> (notificationSent \/ ~(reallyLow /\ reallyIdle))
=============================================================================
