----------------------------- MODULE CanParams ------------------------------
(***************************************************************************)
(* The parameters of the unit: the firmware reads them one at a time,      *)
(* keeps its LED at the brightness the readings call for, and changes the  *)
(* receiver's rate for the host, restarting the unit only if it must.      *)
(*                                                                         *)
(* One request is pending at most and an answer is taken to be for it: an  *)
(* answer names neither its parameter nor its request.  Requests and       *)
(* answers keep their order and may be lost.  With Timely, no answer       *)
(* outlives its request: none comes after the 1500 ms of patience or a     *)
(* recovery of the controller.                                             *)
(***************************************************************************)
EXTENDS Naturals, Sequences

CONSTANTS
  Rates, LedTarget, LedOther,   \* values: periods the host asks for, brightnesses
  CalCount,                     \* COMPASS_CAL_PARAM_COUNT
  Timely,
  MaxCommands, MaxParamFaults   \* bounds: the host's commands; losses and changes

VARIABLES
  pending,     \* params_.pending
  known,       \* the values read, and which are valid
  target,      \* gps_rate_target_ms: {} or {period}
  setting,     \* gps_rate_set_inflight
  calNext, cal,      \* compass_cal_probe_index; "due", "active" or "done"
  calAsked,    \* the index of the compass parameter pending
  room,        \* libcanard's pool has room for a request
  settled,     \* the primary is verified, fresh and healthy, and no candidate is asked
  unitValue,   \* the unit's parameters
  requests, answers, \* on their way
  restarts,    \* restarts asked for since the last command that asked for a rate
  wasRight,    \* the unit had that rate when the command came
  commands, paramFaults

exchange == <<requests, answers>>
paramState == <<pending, known, target, setting, calNext, cal, calAsked>>
paramVars == <<paramState, settled, room, unitValue, exchange, restarts, wasRight,
               commands, paramFaults>>

RateNames == {"GPS1_RATE_MS", "GPS_RATE_MS"}
Params == {"CAN_NODE", "LED_BRIGHTNESS", "BARO_ENABLE", "COMPASS"} \cup RateNames
Values == Rates \cup {LedTarget, LedOther, 0, 1}
None == "none"
Unknown == {}

ParamTypeOK ==
  /\ pending \in Params \cup {None}
  /\ known \in [Params -> SUBSET Values] /\ target \in SUBSET Rates
  /\ {setting, settled, room, wasRight} \subseteq BOOLEAN
  /\ {calNext, calAsked} \subseteq 0..CalCount /\ cal \in {"due", "active", "done"}
  /\ unitValue \in [Params -> SUBSET Values]
  /\ requests \in Seq([param : Params, set : SUBSET Values])
  /\ answers \in Seq([param : Params, value : SUBSET Values])
  /\ restarts \in 0..MaxCommands + 1
  /\ commands \in 0..MaxCommands /\ paramFaults \in 0..MaxParamFaults

NothingKnown ==
  /\ pending' = None /\ known' = [p \in Params |-> Unknown]
  /\ target' = {} /\ setting' = FALSE /\ calNext' = 0 /\ cal' = "due" /\ calAsked' = 0

(* A unit has one of the two names for its rate, or neither. *)
Units ==
  {[p \in Params |-> CASE p \in names -> {r} [] p \in RateNames \ names -> {}
                       [] p = "LED_BRIGHTNESS" -> {LedOther} [] OTHER -> {0}] :
     r \in Rates, names \in {{}, {"GPS1_RATE_MS"}, {"GPS_RATE_MS"}}}

ParamInit ==
  /\ pending = None /\ known = [p \in Params |-> Unknown]
  /\ target = {} /\ setting = FALSE /\ calNext = 0 /\ cal = "due" /\ calAsked = 0
  /\ settled = TRUE /\ room = TRUE /\ unitValue \in Units
  /\ requests = <<>> /\ answers = <<>> /\ restarts = 0 /\ wasRight = FALSE
  /\ commands = 0 /\ paramFaults = 0

ParamFault == paramFaults < MaxParamFaults /\ paramFaults' = paramFaults + 1
Gone == requests = <<>> /\ answers = <<>>

-----------------------------------------------------------------------------
(* Asking.                                                                 *)

(* requestParamRead, requestParamSetInt, when nothing is pending: a request *)
(* that finds no room is pending all the same.                             *)
Ask(p, value) ==
  /\ pending' = p
  /\ requests' = IF room THEN Append(requests, [param |-> p, set |-> value]) ELSE requests

(* What serviceDiscovery reads next: its list in order, then the compass. *)
Listed == <<"CAN_NODE", "LED_BRIGHTNESS", "BARO_ENABLE">>
AskNext ==
  \E i \in 1..3 :
    /\ \A j \in 1..(i - 1) : known[Listed[j]] # Unknown
    /\ known[Listed[i]] = Unknown
    /\ Ask(Listed[i], {}) /\ UNCHANGED <<known, calNext, cal, calAsked>>

LedAdjusted ==
  /\ known["CAN_NODE"] # Unknown
  /\ known["LED_BRIGHTNESS"] \notin {Unknown, {LedTarget}}
  /\ known' = [known EXCEPT !["LED_BRIGHTNESS"] = Unknown]
  /\ Ask("LED_BRIGHTNESS", {LedTarget}) /\ UNCHANGED <<calNext, cal, calAsked>>

ListDone ==
  /\ \A i \in 1..3 : known[Listed[i]] # Unknown
  /\ known["LED_BRIGHTNESS"] = {LedTarget}

CalProbe ==
  /\ ListDone
  /\ \/ /\ cal = "due" /\ cal' = "active" /\ calNext' = 0
        /\ UNCHANGED <<pending, requests, calAsked>>
     \/ /\ cal = "active" /\ calNext < CalCount
        /\ Ask("COMPASS", {}) /\ calAsked' = calNext /\ UNCHANGED <<calNext, cal>>
  /\ UNCHANGED known

(* serviceDiscovery, while the primary is settled. *)
ServiceParams ==
  /\ settled /\ pending = None
  /\ AskNext \/ LedAdjusted \/ CalProbe
  /\ UNCHANGED <<target, setting, settled, room, unitValue, answers, restarts, wasRight,
                 commands, paramFaults>>

ImpatientInProbe ==                  \* mutant: only the compass probe times out
  /\ settled /\ pending = "COMPASS" /\ (Timely => Gone)
  /\ pending' = None
  /\ UNCHANGED <<known, target, setting, calNext, cal, calAsked, settled, room, unitValue,
                 exchange, restarts, wasRight, commands, paramFaults>>

(* ... and its 1500 ms. *)
Impatient ==
  /\ settled /\ pending # None /\ (Timely => Gone)
  /\ pending' = None
  /\ UNCHANGED <<known, target, setting, calNext, cal, calAsked, settled, room, unitValue,
                 exchange, restarts, wasRight, commands, paramFaults>>

-----------------------------------------------------------------------------
(* The unit, and the way to it and back.                                   *)

UnitAnswers ==
  LET r == Head(requests)
      present == unitValue[r.param] # {}
      value == IF present /\ r.set # {} THEN r.set ELSE unitValue[r.param]
  IN /\ requests # <<>> /\ requests' = Tail(requests)
     /\ unitValue' = [unitValue EXCEPT ![r.param] = value]
     /\ answers' = Append(answers, [param |-> r.param, value |-> value])
     /\ UNCHANGED <<paramState, settled, room, restarts, wasRight, commands, paramFaults>>

LoseExchange ==
  /\ ParamFault
  /\ \/ requests # <<>> /\ requests' = Tail(requests) /\ UNCHANGED answers
     \/ answers # <<>> /\ answers' = Tail(answers) /\ UNCHANGED requests
  /\ UNCHANGED <<paramState, settled, room, unitValue, restarts, wasRight, commands>>

(* Its NodeStatus stops for a while, or a candidate is being asked; it comes *)
(* back; another unit gets the authority, and params_ is cleared.          *)
Unsettle ==
  /\ settled /\ settled' = FALSE /\ ParamFault
  /\ UNCHANGED <<paramState, room, unitValue, exchange, restarts, wasRight, commands>>

Settle ==
  /\ ~settled /\ settled' = TRUE
  /\ UNCHANGED <<paramState, room, unitValue, exchange, restarts, wasRight, commands, paramFaults>>

(* The pool fills up, and empties again. *)
Fills ==
  /\ room /\ room' = FALSE /\ ParamFault
  /\ UNCHANGED <<paramState, settled, unitValue, exchange, restarts, wasRight, commands>>

Empties ==
  /\ ~room /\ room' = TRUE
  /\ UNCHANGED <<paramState, settled, unitValue, exchange, restarts, wasRight, commands, paramFaults>>

Replaced ==
  /\ ~settled /\ settled' = TRUE
  /\ NothingKnown /\ unitValue' \in Units
  /\ requests' = <<>> /\ answers' = <<>> /\ restarts' = 0 /\ wasRight' = FALSE
  /\ UNCHANGED <<room, commands, paramFaults>>

-----------------------------------------------------------------------------
(* decodeParamGetSetResponse: the answer is for what is pending.           *)

Nobody ==
  /\ pending = None
  /\ UNCHANGED <<paramState, requests, restarts>>

CalAnswer ==
  /\ pending = "COMPASS"
  /\ pending' = None /\ calNext' = calAsked + 1
  /\ cal' = IF calNext' = CalCount THEN "done" ELSE cal
  /\ UNCHANGED <<known, target, setting, calAsked, requests, restarts>>

(* The unit has no such parameter: the rate is looked for under its other  *)
(* name, and then given up.                                                *)
NotFound ==
  /\ pending \notin {None, "COMPASS"}
  /\ \/ /\ pending = "GPS1_RATE_MS" /\ target # {}
        /\ setting' = FALSE /\ Ask("GPS_RATE_MS", {}) /\ UNCHANGED <<target, known>>
     \/ /\ pending = "GPS_RATE_MS"
        /\ pending' = None /\ target' = {} /\ setting' = FALSE
        /\ known' = [known EXCEPT !["GPS_RATE_MS"] = Unknown, !["GPS1_RATE_MS"] = Unknown]
        /\ UNCHANGED requests
     \/ /\ pending \notin RateNames \/ (pending = "GPS1_RATE_MS" /\ target = {})
        /\ pending' = None /\ UNCHANGED <<known, target, setting, requests>>
  /\ UNCHANGED <<calNext, cal, calAsked, restarts>>

Learned(value) ==
  /\ pending \notin RateNames \cup {None, "COMPASS"}
  /\ pending' = None /\ known' = [known EXCEPT ![pending] = value]
  /\ UNCHANGED <<target, setting, calNext, cal, calAsked, requests, restarts>>

RateWrittenBlind(value) ==           \* mutant: the rate is written without a look
  /\ pending \in RateNames /\ ~setting /\ target # {}
  /\ setting' = TRUE /\ known' = [known EXCEPT ![pending] = Unknown]
  /\ Ask(pending, target) /\ UNCHANGED <<target, calNext, cal, calAsked, restarts>>

(* Read: a rate that is right needs nothing, another is written. *)
RateRead(value) ==
  /\ pending \in RateNames /\ ~setting
  /\ IF target \in {{}, value}
     THEN /\ pending' = None /\ target' = {}
          /\ known' = [known EXCEPT ![pending] = value] /\ UNCHANGED <<setting, requests>>
     ELSE /\ setting' = room /\ known' = [known EXCEPT ![pending] = Unknown]
          /\ Ask(pending, target) /\ UNCHANGED target
  /\ UNCHANGED <<calNext, cal, calAsked, restarts>>

(* Written: the unit is restarted if it has taken the rate. *)
RateWritten(value) ==
  /\ pending \in RateNames /\ setting
  /\ pending' = None /\ setting' = FALSE
  /\ known' = [known EXCEPT ![pending] = value]
  /\ IF target = value /\ target # {}
     THEN target' = {} /\ restarts' = restarts + 1
     ELSE UNCHANGED <<target, restarts>>
  /\ UNCHANGED <<calNext, cal, calAsked, requests>>

ReceiveParam ==
  /\ answers # <<>> /\ answers' = Tail(answers)
  /\ LET value == Head(answers).value
     IN \/ Nobody \/ CalAnswer
        \/ value = {} /\ NotFound
        \/ value # {} /\ (Learned(value) \/ RateRead(value) \/ RateWritten(value))
  /\ UNCHANGED <<settled, room, unitValue, wasRight, commands, paramFaults>>

-----------------------------------------------------------------------------
(* handleHostCommand.                                                      *)

Command == commands < MaxCommands /\ commands' = commands + 1

(* NEO:GPS:RATE *)
HostRate(rate) ==
  /\ Command
  /\ setting' = FALSE
  /\ known' = [known EXCEPT !["GPS1_RATE_MS"] = Unknown, !["GPS_RATE_MS"] = Unknown]
  /\ IF pending = None
     THEN target' = (IF room THEN {rate} ELSE {}) /\ Ask("GPS1_RATE_MS", {})
     ELSE target' = {} /\ UNCHANGED <<pending, requests>>
  /\ restarts' = 0
  /\ wasRight' = (/\ \E p \in RateNames : unitValue[p] = {rate}
                  /\ \A i \in 1..Len(requests) : requests[i].param \notin RateNames)
  /\ UNCHANGED <<calNext, cal, calAsked, settled, room, unitValue, answers, paramFaults>>

(* NEO:BARO and NEO:LED:BRIGHTNESS *)
HostSet(p, value) ==
  /\ Command
  /\ known' = [known EXCEPT ![p] = Unknown]
  /\ IF pending = None THEN Ask(p, {value}) ELSE UNCHANGED <<pending, requests>>
  /\ UNCHANGED <<target, setting, calNext, cal, calAsked, settled, room, unitValue, answers,
                 restarts, wasRight, paramFaults>>

(* NEO:COMPASS:PARAMS *)
HostCompass ==
  /\ Command /\ cal' = "active" /\ calNext' = 0
  /\ UNCHANGED <<pending, known, target, setting, calAsked, settled, room, unitValue, exchange,
                 restarts, wasRight, paramFaults>>

(* NEO:CAN:RECOVER: what was queued is gone, what was asked is forgotten. *)
HostRecover ==
  /\ Command /\ (Timely => Gone)
  /\ pending' = None /\ requests' = <<>>
  /\ UNCHANGED <<known, target, setting, calNext, cal, calAsked, settled, room, unitValue,
                 answers, restarts, wasRight, paramFaults>>

ParamNext ==
  \/ ServiceParams \/ Impatient
  \/ UnitAnswers \/ LoseExchange \/ ReceiveParam
  \/ Unsettle \/ Settle \/ Fills \/ Empties \/ Replaced
  \/ \E r \in Rates : HostRate(r)
  \/ HostSet("BARO_ENABLE", 1) \/ HostSet("LED_BRIGHTNESS", LedOther)
  \/ HostCompass \/ HostRecover

ParamSpec == ParamInit /\ [][ParamNext]_paramVars

(* The loop runs, the unit answers, and it settles in the end. *)
UnitGoesOn == UnitAnswers \/ ReceiveParam \/ Settle \/ Empties

ParamFairness ==
  /\ WF_paramVars(ServiceParams) /\ WF_paramVars(Impatient)
  /\ WF_paramVars(UnitGoesOn)

FairParamSpec == ParamSpec /\ ParamFairness

-----------------------------------------------------------------------------
(* Properties.                                                             *)

(* Neo3ProSensors.cpp:2651: "an already-correct 10 Hz receiver is never     *)
(* rebooted by an idempotent retry".                                       *)
RightIsNotRestarted == wasRight => restarts = 0

(* ... and no other is restarted twice for one command (:1913).            *)
RestartsOnceIfNeeded == RightIsNotRestarted /\ restarts <= 1

(* Whatever is lost on the way, the reading of the list comes to its end,  *)
(* what is known then is what the unit has, and the LED is as the readings *)
(* call for (Neo3ProSensors.cpp:1043).                                     *)
UnitKnown ==
  /\ cal = "done" /\ pending = None
  /\ \A i \in 1..3 : known[Listed[i]] = unitValue[Listed[i]]
  /\ unitValue["LED_BRIGHTNESS"] = {LedTarget}
=============================================================================
