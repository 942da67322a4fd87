---------------------------- MODULE SensorProofs ----------------------------
(***************************************************************************)
(* What holds of the sensor's side of the gateway for any number of node   *)
(* ids, units, requests, fixes and failures: who has authority, when the   *)
(* receiver is restarted, what a lost peer costs, and the order in which   *)
(* the host is told of the fixes.  The four have no variable in common;    *)
(* each has an inductive invariant of its own.                             *)
(***************************************************************************)
EXTENDS CanNode, CanParams, CanTransmit, SensorPublish, SequenceTheorems, TLAPS

-----------------------------------------------------------------------------
(* SensorPublish: the fixes in order.                                      *)

(* The fix that is not told yet is the newest, and its lines have been     *)
(* told as far as PhaseOnEntry says.                                       *)
FixInv ==
  /\ fix \in Nat /\ usbPhase \in 0..3 /\ current \in BOOLEAN
  /\ last \in Nat \X (0..3) /\ last[1] <= fix
  /\ "FIX" \in dirty =>
       \/ PhaseOnEntry = 0 /\ last[1] < fix
       \/ PhaseOnEntry > 0 /\ last = <<fix, PhaseOnEntry>>
  /\ inOrder = TRUE

LEMMA PublishConstants ==
  /\ HighSlots \in Nat \ {0} /\ LowSlots \in Nat \ {0} /\ ButtonStale \in Nat \ {0}
  /\ FasterThanMs \in BOOLEAN
BY PublishAssumption

LEMMA FixInvInit == PublishInit => FixInv
<1> SUFFICES ASSUME PublishInit PROVE FixInv
  OBVIOUS
<1>1. last = <<0, 3>> /\ dirty = {} /\ fix = 0 /\ usbPhase = 0 /\ current = FALSE /\ inOrder = TRUE
  BY DEF PublishInit
<1>2. last \in Nat \X (0..3) /\ last[1] = 0
  BY <1>1
<1>3. fix \in Nat /\ usbPhase \in 0..3 /\ last[1] <= fix
  BY <1>1, <1>2
<1>5. current \in BOOLEAN
  BY <1>1
<1>4. "FIX" \notin dirty /\ inOrder = TRUE
  BY <1>1
<1> QED
  BY <1>2, <1>3, <1>4, <1>5 DEF FixInv

LEMMA FixInvStep ==
  ASSUME FixInv, ~FasterThanMs, [PublishNext]_publishVars
  PROVE  FixInv'
<1>1. CASE decodeFix2
  <2>1. /\ fix' = fix + 1 /\ current' = FALSE /\ UNCHANGED <<last, inOrder, usbPhase>>
    BY <1>1 DEF decodeFix2, lineVars
  <2>2. PhaseOnEntry' = 0
    BY <2>1 DEF PhaseOnEntry
  <2>3. last[1] \in Nat /\ last[1] <= fix /\ fix \in Nat
    BY DEF FixInv
  <2>4. fix' \in Nat /\ last'[1] < fix' /\ last'[1] <= fix'
    BY <2>1, <2>3
  <2> HIDE DEF PhaseOnEntry
  <2> QED
    BY <2>1, <2>2, <2>4 DEF FixInv
<1>2. CASE PublishFix
  <2>1. /\ "FIX" \in dirty /\ PhaseOnEntry < 3 /\ current' = TRUE
        /\ UNCHANGED <<fix, dirty>>
    BY <1>2 DEF PublishFix
  <2>2. PhaseOnEntry \in 0..2
    BY <2>1 DEF FixInv, PhaseOnEntry
  <2>3. PhaseOnEntry' = usbPhase'
    BY <2>1 DEF PhaseOnEntry
  <2>4. CASE Say(fix, PhaseOnEntry + 1) /\ usbPhase' = PhaseOnEntry + 1
    <3>1. last' = <<fix, PhaseOnEntry + 1>>
      BY <2>4 DEF Say
    <3>2. \/ fix = last[1] /\ PhaseOnEntry + 1 = last[2] + 1
          \/ fix > last[1] /\ PhaseOnEntry + 1 = 1
      BY <2>1, <2>2 DEF FixInv
    <3>3. inOrder' = TRUE
      BY <2>4, <3>2 DEF Say, FixInv
    <3>4. last'[1] = fix
      BY <3>1
    <3> HIDE DEF PhaseOnEntry
    <3>5. usbPhase' \in 0..3 /\ usbPhase' > 0 /\ last' = <<fix, usbPhase'>> /\ last' \in Nat \X (0..3)
      BY <2>2, <2>4, <3>1 DEF FixInv
    <3> QED
      BY <2>1, <2>3, <3>3, <3>4, <3>5 DEF FixInv
  <2>5. CASE usbPhase' = PhaseAfterRefusal /\ UNCHANGED lineVars
    <3>1. usbPhase' = PhaseOnEntry
      BY <2>5 DEF PhaseAfterRefusal, PhaseOnEntry
    <3> QED
      BY <2>1, <2>2, <2>3, <2>5, <3>1 DEF FixInv, lineVars
  <2> QED
    BY <1>2, <2>4, <2>5 DEF PublishFix
<1>3. CASE FixPublished \/ DropMeta
  <2>1. "FIX" \notin dirty' /\ UNCHANGED <<fixVars, lineVars>>
    BY <1>3 DEF FixPublished, DropMeta
  <2> QED
    BY <2>1 DEF FixInv, fixVars, lineVars
<1>4. CASE \/ decodeAuxiliary \/ decodeButton \/ NoticeRelease \/ publishButton \/ PublishEcef
           \/ publishHardware \/ HostReads \/ OtherLines \/ Outage \/ Millisecond
           \/ UNCHANGED publishVars
  <2>1. UNCHANGED <<fix, current, usbPhase, last, inOrder>> /\ ("FIX" \in dirty' => "FIX" \in dirty)
    BY <1>4 DEF decodeAuxiliary, decodeButton, NoticeRelease, publishButton, PublishEcef,
                publishHardware, HostReads, OtherLines, Outage, Millisecond, fixVars, lineVars,
                publishVars
  <2>2. PhaseOnEntry' = PhaseOnEntry
    BY <2>1 DEF PhaseOnEntry
  <2> QED
    BY <2>1, <2>2 DEF FixInv
<1> QED
  BY <1>1, <1>2, <1>3, <1>4 DEF PublishNext, ServiceTelemetry

(* However often the rings refuse a line and whenever the next fix comes,  *)
(* the host is told of every fix PRO, COV, PVT in order, from the first on *)
(* and of none again (serviceTelemetry), as long as no two fixes are       *)
(* decoded in one millisecond with a publication in between.               *)
THEOREM FixesKept == ~FasterThanMs => (PublishSpec => []FixesInOrder)
<1> SUFFICES ASSUME ~FasterThanMs PROVE PublishSpec => []FixesInOrder
  OBVIOUS
<1>1. FixInv /\ [PublishNext]_publishVars => FixInv'
  BY FixInvStep
<1>2. FixInv => FixesInOrder
  BY DEF FixInv, FixesInOrder
<1> QED
  BY <1>1, <1>2, FixInvInit, PTL DEF PublishSpec

-----------------------------------------------------------------------------
(* CanNode: who has authority.                                             *)

AnswerShapes == [id : Ids, dev : Devices, up : Nat]
NodeShapes ==
  /\ unit \in [Ids -> SUBSET Devices] /\ up \in [Devices -> Nat] /\ owed \subseteq AnswerShapes
  /\ fresh \subseteq Ids /\ verified \subseteq Ids
  /\ lastUp \in [Ids -> Nat] /\ top \in [Ids -> Nat]
  /\ reg \in [Ids -> SUBSET Devices] /\ heard \in [Ids -> SUBSET Devices]
  /\ overtook \subseteq Ids

(* The uptime that the firmware compares with is not below the last one    *)
(* heard of; a verified id's last word came from its owner, or from a unit *)
(* that took over with an uptime that had not fallen.                      *)
UptimesKept == \A i \in Ids : top[i] <= lastUp[i]
OneUnitEach == \A i \in Ids : reg[i] = {} \/ \E d \in Devices : reg[i] = {d}
VerifiedIsOwner ==
  \A i \in verified : reg[i] # {} /\ (heard[i] = reg[i] \/ i \in overtook)
NodeInv == NodeShapes /\ UptimesKept /\ OneUnitEach /\ VerifiedIsOwner

LEMMA NodeInvInit == NodeInit => NodeInv
BY DEF NodeInit, NodeInv, NodeShapes, UptimesKept, OneUnitEach, VerifiedIsOwner

(* Nothing heard: nothing of what the firmware knows of the ids changes.   *)
LEMMA NothingHeard ==
  ASSUME NodeInv, owed' \subseteq AnswerShapes, fresh' \subseteq fresh,
         unit' \in [Ids -> SUBSET Devices], up' \in [Devices -> Nat],
         UNCHANGED <<verified, lastUp, top, reg, heard, overtook>>
  PROVE  NodeInv'
BY DEF NodeInv, NodeShapes, UptimesKept, OneUnitEach, VerifiedIsOwner

LEMMA AskedShapes ==
  ASSUME NodeInv, NEW i, AskNodeInfo(i)
  PROVE  owed' \subseteq AnswerShapes
<1>1. CASE i \in fresh
  <2>1. i \in Ids /\ unit[i] \subseteq Devices /\ \A d \in unit[i] : up[d] \in Nat
    BY <1>1 DEF NodeInv, NodeShapes
  <2>2. {[id |-> i, dev |-> d, up |-> up[d]] : d \in unit[i]} \subseteq AnswerShapes
    BY <2>1 DEF AnswerShapes
  <2> QED
    BY <1>1, <2>2 DEF AskNodeInfo, NodeInv, NodeShapes
<1>2. CASE i \notin fresh
  BY <1>2 DEF AskNodeInfo, NodeInv, NodeShapes
<1> QED
  BY <1>1, <1>2

LEMMA StatusKeeps ==
  ASSUME NodeInv, NEW i \in Ids, NEW d \in Devices, NEW fit \in BOOLEAN, ReceiveStatus(i, d, fit)
  PROVE  NodeInv'
<1> DEFINE u == up[d]
<1>0. /\ u \in Nat /\ lastUp[i] \in Nat /\ top[i] \in Nat /\ top[i] <= lastUp[i]
  BY DEF NodeInv, NodeShapes, UptimesKept
<1>1. /\ verified' = (IF lastUp[i] > u THEN verified \ {i} ELSE verified)
      /\ lastUp' = [lastUp EXCEPT ![i] = u] /\ top' = [top EXCEPT ![i] = u]
      /\ heard' = [heard EXCEPT ![i] = {d}]
      /\ overtook' = (IF heard[i] \in {{}, {d}} THEN overtook
                      ELSE IF u >= top[i] THEN overtook \cup {i} ELSE overtook \ {i})
      /\ fresh' = fresh \cup {i} /\ UNCHANGED <<unit, up, owed, reg>>
  BY DEF ReceiveStatus, Hears, MarkStatus, busVars, registryVars
<1> HIDE DEF u
<1>2. NodeShapes'
  BY <1>0, <1>1 DEF NodeInv, NodeShapes
<1>3. UptimesKept'
  BY <1>0, <1>1 DEF NodeInv, NodeShapes, UptimesKept
<1>4. ASSUME NEW j \in verified' PROVE reg'[j] # {} /\ (heard'[j] = reg'[j] \/ j \in overtook')
  <2>1. j \in verified /\ j \in Ids /\ reg[j] # {} /\ (heard[j] = reg[j] \/ j \in overtook)
    BY <1>1 DEF NodeInv, NodeShapes, VerifiedIsOwner
  <2>2. CASE j # i
    BY <1>1, <2>1, <2>2 DEF NodeInv, NodeShapes
  <2>3. CASE j = i
    <3>1. ~(lastUp[i] > u)
      BY <1>1, <2>3
    <3>2. u >= top[i]
      BY <1>0, <3>1
    <3>3. heard'[i] = {d}
      BY <1>1 DEF NodeInv, NodeShapes
    <3>4. CASE heard[i] \notin {{}, {d}}
      BY <1>1, <2>1, <2>3, <3>2, <3>4
    <3>5. CASE heard[i] = {d}
      BY <1>1, <2>1, <2>3, <3>3, <3>5
    <3>6. CASE heard[i] = {} /\ i \in overtook
      BY <1>1, <2>1, <2>3, <3>6
    <3> QED
      BY <1>1, <2>1, <2>3, <3>4, <3>5, <3>6
  <2> QED
    BY <2>2, <2>3
<1>5. OneUnitEach'
  BY <1>1 DEF NodeInv, OneUnitEach
<1> QED
  BY <1>2, <1>3, <1>4, <1>5 DEF NodeInv, VerifiedIsOwner

(* What the registry does with an answer: an id it verifies is that unit's, *)
(* and no other id that stays verified changes hands.                      *)
LEMMA RegistryKeeps ==
  ASSUME NodeInv, NEW a \in AnswerShapes, RegistryStep(a)
  PROVE  /\ reg' \in [Ids -> SUBSET Devices] /\ OneUnitEach'
         /\ verified' \subseteq Ids
         /\ a.id \in verified' => reg'[a.id] = {a.dev}
         /\ \A j \in verified' \ {a.id} : j \in verified /\ reg'[j] = reg[j] /\ reg'[j] # {}
<1>0. a.id \in Ids /\ a.dev \in Devices
  BY DEF AnswerShapes
<1>1. CASE UNCHANGED reg /\ verified' = verified \cup {a.id} /\ reg[a.id] = {a.dev}
  BY <1>0, <1>1 DEF NodeInv, NodeShapes, OneUnitEach, VerifiedIsOwner
<1>2. CASE UNCHANGED reg /\ verified' = verified \ {a.id}
  BY <1>0, <1>2 DEF NodeInv, NodeShapes, OneUnitEach, VerifiedIsOwner
<1>3. CASE /\ reg' = Db!Registered(reg, [id |-> a.id, uid |-> a.dev])
           /\ verified' = {i \in verified : reg'[i] # {}} \cup {a.id}
  <2>1. reg' = [i \in Ids |-> IF i = a.id THEN {a.dev} ELSE reg[i] \ {a.dev}]
    BY <1>3 DEF Db!Registered
  <2>2. reg' \in [Ids -> SUBSET Devices] /\ verified' \subseteq Ids
    BY <1>0, <1>3, <2>1 DEF NodeInv, NodeShapes
  <2>3. reg'[a.id] = {a.dev}
    BY <1>0, <2>1
  <2>4. ASSUME NEW j \in Ids, j # a.id PROVE reg'[j] = {} \/ reg'[j] = reg[j]
    BY <2>1, <2>4 DEF NodeInv, OneUnitEach
  <2>5. OneUnitEach'
    BY <1>0, <2>3, <2>4 DEF NodeInv, OneUnitEach
  <2>6. \A j \in verified' \ {a.id} : j \in verified /\ reg'[j] = reg[j] /\ reg'[j] # {}
    BY <1>3, <2>2, <2>4
  <2> QED
    BY <2>2, <2>3, <2>5, <2>6
<1> QED
  BY <1>1, <1>2, <1>3 DEF RegistryStep, registryVars

LEMMA AnswerKeeps ==
  ASSUME NodeInv, NEW a \in owed, ReceiveAnswer(a)
  PROVE  NodeInv'
<1>1. a \in AnswerShapes /\ a.id \in Ids /\ a.dev \in Devices /\ a.up \in Nat
  BY DEF NodeInv, NodeShapes, AnswerShapes
<1>2. RegistryStep(a)
  BY DEF ReceiveAnswer
<1> DEFINE t == Larger(a.up, IF heard[a.id] = {a.dev} THEN top[a.id] ELSE 0)
           l == UptimeAfterAnswer(a.id, a.up)
<1>3. /\ owed' \subseteq owed /\ fresh' = fresh \cup {a.id} /\ UNCHANGED <<unit, up>>
      /\ lastUp' = [lastUp EXCEPT ![a.id] = l]
      /\ heard' = [heard EXCEPT ![a.id] = {a.dev}] /\ top' = [top EXCEPT ![a.id] = t]
      /\ overtook' = (IF heard[a.id] \in {{}, {a.dev}} THEN overtook
                      ELSE IF t >= top[a.id] THEN overtook \cup {a.id} ELSE overtook \ {a.id})
  BY DEF ReceiveAnswer, Hears, MarkStatus, busVars
<1>4. t \in Nat /\ l \in Nat /\ t <= l
  BY <1>1 DEF Larger, UptimeAfterAnswer, NodeInv, NodeShapes, UptimesKept
<1> HIDE DEF t, l
<1>5. /\ reg' \in [Ids -> SUBSET Devices] /\ OneUnitEach' /\ verified' \subseteq Ids
      /\ a.id \in verified' => reg'[a.id] = {a.dev}
      /\ \A j \in verified' \ {a.id} : j \in verified /\ reg'[j] = reg[j] /\ reg'[j] # {}
  BY <1>1, <1>2, RegistryKeeps
<1>6. NodeShapes'
  BY <1>1, <1>3, <1>4, <1>5 DEF NodeInv, NodeShapes
<1>7. UptimesKept'
  BY <1>1, <1>3, <1>4 DEF NodeInv, NodeShapes, UptimesKept
<1>8. ASSUME NEW j \in verified'
      PROVE  reg'[j] # {} /\ (heard'[j] = reg'[j] \/ j \in overtook')
  <2>1. CASE j = a.id
    BY <1>1, <1>3, <1>5, <2>1 DEF NodeInv, NodeShapes
  <2>2. CASE j # a.id
    <3>1. j \in verified /\ reg'[j] = reg[j] /\ reg'[j] # {} /\ j \in Ids
      BY <1>5, <2>2
    <3>2. heard'[j] = heard[j] /\ (j \in overtook => j \in overtook')
      BY <1>3, <2>2, <3>1 DEF NodeInv, NodeShapes
    <3> QED
      BY <3>1, <3>2 DEF NodeInv, VerifiedIsOwner
  <2> QED
    BY <2>1, <2>2
<1> QED
  BY <1>5, <1>6, <1>7, <1>8 DEF NodeInv, VerifiedIsOwner

LEMMA NodeInvStep ==
  ASSUME NodeInv, [NodeNext]_vars
  PROVE  NodeInv'
<1> USE DEF busVars, nodeVars, roleVars, registryVars, ghosts, vars
<1>1. ASSUME NEW d \in Devices, NEW i \in Ids, PlugIn(d, i) \/ Unplug(d, i) \/ Ages(d, i)
      PROVE  NodeInv'
  <2>1. owed' \subseteq owed /\ UNCHANGED <<fresh, verified, lastUp, top, reg, heard, overtook>>
    BY <1>1 DEF PlugIn, Unplug, Ages
  <2>2. unit' \in [Ids -> SUBSET Devices] /\ up' \in [Devices -> Nat]
    BY <1>1 DEF PlugIn, Unplug, Ages, NodeInv, NodeShapes
  <2> QED
    BY <2>1, <2>2, NothingHeard DEF NodeInv, NodeShapes
<1>2. ASSUME NEW i \in Ids, GoesStale(i) PROVE NodeInv'
  BY <1>2, NothingHeard DEF GoesStale, NodeInv, NodeShapes
<1>3. ASSUME NEW a \in owed, LoseAnswer(a) \/ IgnoreAnswer(a) PROVE NodeInv'
  BY <1>3, NothingHeard DEF LoseAnswer, IgnoreAnswer, NodeInv, NodeShapes
<1>4. CASE DropCandidate
  BY <1>4, NothingHeard DEF DropCandidate, NodeInv, NodeShapes
<1>5. CASE ServiceDiscovery
  BY <1>5, NothingHeard, AskedShapes DEF ServiceDiscovery, NodeInv, NodeShapes
<1>6. CASE Verify
  <2>1. owed' \subseteq AnswerShapes
    BY <1>6, AskedShapes DEF Verify, NodeInv, NodeShapes
  <2> QED
    BY <1>6, <2>1, NothingHeard DEF Verify, NodeInv, NodeShapes
<1>7. CASE UNCHANGED vars
  BY <1>7, NothingHeard DEF NodeInv, NodeShapes
<1> QED
  BY <1>1, <1>2, <1>3, <1>4, <1>5, <1>6, <1>7, StatusKeeps, AnswerKeeps DEF NodeNext

(* The id that decides (nodeOperationalFresh) is one whose last word came  *)
(* from the unit it is registered to, whatever units come and go under it, *)
(* whatever answers arrive late and whatever the registry cannot store.    *)
THEOREM OwnerKept == NodeSpec => []AuthorityIsOwner
<1>1. NodeInv /\ [NodeNext]_vars => NodeInv'
  BY NodeInvStep
<1>2. NodeInv => AuthorityIsOwner
  BY DEF NodeInv, VerifiedIsOwner, AuthorityIsOwner, Authority
<1> QED
  BY <1>1, <1>2, NodeInvInit, PTL DEF NodeSpec

(* Authority is not taken from an id that has it, and only a verified CUAV *)
(* unit's id is given it (decodeGetNodeInfoResponse).                      *)
THEOREM AuthorityPassed == NodeSpec => AuthorityIsNotTaken
<1>1. NodeInv /\ [NodeNext]_vars => NodeInv'
  BY NodeInvStep
<1>2. ASSUME NodeInv, [NodeNext]_vars, primary' # primary
      PROVE  ~Authority /\ reg'[primary'] \cap Cuav # {}
  <2>1. PICK a \in owed : ReceiveAnswer(a)
    BY <1>2 DEF NodeNext, PlugIn, Unplug, Ages, GoesStale, ReceiveStatus, LoseAnswer, IgnoreAnswer,
                DropCandidate, ServiceDiscovery, Verify, roleVars, vars
  <2>2. /\ RegistryStep(a) /\ primary' = a.id /\ a.dev \in Cuav /\ a.id \in verified'
        /\ primary \notin fresh
    BY <1>2, <2>1 DEF ReceiveAnswer, Roles
  <2>3. a \in AnswerShapes
    BY <1>2 DEF NodeInv, NodeShapes
  <2>4. reg'[a.id] = {a.dev}
    BY <1>2, <2>2, <2>3, RegistryKeeps
  <2> QED
    BY <2>2, <2>4 DEF Authority
<1> QED
  BY <1>1, <1>2, NodeInvInit, PTL DEF NodeSpec, AuthorityIsNotTaken


-----------------------------------------------------------------------------
(* CanParams: the receiver is restarted only for a rate it has not.        *)

(* Of the pending request, and of it alone, the question or the answer may *)
(* be on its way (params_.pending and the 1500 ms of patience).            *)
Exchange ==
  /\ requests = <<>> \/ answers = <<>>
  /\ pending = None => requests = <<>> /\ answers = <<>>
  /\ requests # <<>> => Head(requests).param = pending /\ Tail(requests) = <<>>
  /\ answers # <<>> => Head(answers).param = pending /\ Tail(answers) = <<>>

OneRateName ==
  /\ unitValue = [p \in Params |-> unitValue[p]]
  /\ unitValue["GPS1_RATE_MS"] = {} \/ unitValue["GPS_RATE_MS"] = {}

OneRestart == restarts \in Nat /\ restarts <= 1 /\ (target # {} => restarts = 0)

(* While the rate asked for is the one the unit has, nothing on its way    *)
(* sets a rate, and an answer on its way tells the rate as it is.          *)
RightRate ==
  wasRight =>
    /\ restarts = 0 /\ ~setting
    /\ target # {} =>
         /\ \A q \in RateNames : unitValue[q] \in {{}, target}
         /\ pending \in RateNames /\ requests # <<>> => Head(requests).set = {}
         /\ pending \in RateNames /\ answers # <<>> => Head(answers).value = unitValue[pending]

ParamInv == Exchange /\ OneRateName /\ OneRestart /\ RightRate

LEMMA UnitsShape ==
  ASSUME NEW u \in Units
  PROVE  /\ u = [p \in Params |-> u[p]]
         /\ u["GPS1_RATE_MS"] = {} \/ u["GPS_RATE_MS"] = {}
<1>1. PICK r \in Rates, names \in {{}, {"GPS1_RATE_MS"}, {"GPS_RATE_MS"}} :
        u = [p \in Params |-> CASE p \in names -> {r} [] p \in RateNames \ names -> {}
                                [] p = "LED_BRIGHTNESS" -> {LedOther} [] OTHER -> {0}]
  BY DEF Units
<1>2. "GPS1_RATE_MS" \in Params /\ "GPS_RATE_MS" \in Params
  BY DEF Params, RateNames
<1>3. \A p \in Params : p \in RateNames /\ p \notin names => u[p] = {}
  <2> SUFFICES ASSUME NEW p \in Params, p \in RateNames, p \notin names PROVE u[p] = {}
    OBVIOUS
  <2>1. p \in RateNames \ names /\ p # "LED_BRIGHTNESS"
    BY DEF RateNames
  <2> QED
    BY <1>1, <2>1
<1>4. "GPS1_RATE_MS" \in RateNames /\ "GPS_RATE_MS" \in RateNames
      /\ ("GPS1_RATE_MS" \notin names \/ "GPS_RATE_MS" \notin names)
  BY DEF RateNames
<1> QED
  BY <1>1, <1>2, <1>3, <1>4

LEMMA ParamInvInit == ParamInit => ParamInv
<1> SUFFICES ASSUME ParamInit PROVE ParamInv
  OBVIOUS
<1>1. OneRateName
  BY UnitsShape DEF ParamInit, OneRateName
<1> QED
  BY <1>1 DEF ParamInit, ParamInv, Exchange, OneRestart, RightRate

(* A request sent when nothing is on its way. *)
LEMMA AskedOne ==
  ASSUME NEW p \in Params, NEW v, Ask(p, v), requests = <<>>
  PROVE  /\ pending' = p /\ p # None
         /\ requests' # <<>> => /\ Head(requests').param = p /\ Head(requests').set = v
                                /\ Tail(requests') = <<>>
<1>1. pending' = p /\ p # None
  BY DEF Ask, Params, RateNames, None
<1> DEFINE r == [param |-> p, set |-> v]
<1>2. requests' = <<>> \/ requests' = <<r>>
  BY DEF Ask
<1>3. r.param = p /\ r.set = v
  OBVIOUS
<1> HIDE DEF r
<1>4. requests' # <<>> => Head(requests') = r /\ Tail(requests') = <<>>
  <2>1. Head(<<r>>) = r /\ Tail(<<r>>) = <<>>
    OBVIOUS
  <2> QED
    BY <1>2, <2>1
<1> QED
  BY <1>1, <1>3, <1>4

(* What the loop and the host ask beside the rate. *)
LEMMA OtherAsked ==
  ASSUME ParamInv, pending = None, NEW p \in Params \ RateNames, NEW v, Ask(p, v),
         UNCHANGED <<target, setting, unitValue, answers, restarts, wasRight>>
  PROVE  ParamInv'
<1>1. requests = <<>> /\ answers = <<>>
  BY DEF ParamInv, Exchange
<1>2. /\ pending' = p /\ p # None
      /\ requests' # <<>> => Head(requests').param = p /\ Tail(requests') = <<>>
  BY <1>1, AskedOne
<1>3. Exchange'
  BY <1>1, <1>2 DEF Exchange
<1> QED
  BY <1>2, <1>3 DEF ParamInv, OneRateName, OneRestart, RightRate

(* Steps that leave what the rate depends on alone, or forget a request.   *)
LEMMA NothingAsked ==
  ASSUME ParamInv, UNCHANGED <<target, setting, unitValue, restarts, wasRight>>,
         \/ UNCHANGED <<pending, requests, answers>>
         \/ requests' = <<>> /\ answers' = <<>>
  PROVE  ParamInv'
BY DEF ParamInv, Exchange, OneRateName, OneRestart, RightRate

LEMMA AnsweredKeeps == ParamInv /\ UnitAnswers => ParamInv'
<1> SUFFICES ASSUME ParamInv, UnitAnswers PROVE ParamInv'
  OBVIOUS
<1> DEFINE r == Head(requests)
           value == IF unitValue[r.param] # {} /\ r.set # {} THEN r.set ELSE unitValue[r.param]
<1>1. /\ requests # <<>> /\ requests' = Tail(requests)
      /\ unitValue' = [unitValue EXCEPT ![r.param] = value]
      /\ answers' = Append(answers, [param |-> r.param, value |-> value])
      /\ UNCHANGED <<pending, target, setting, restarts, wasRight>>
  BY DEF UnitAnswers, paramState
<1>2. r.param = pending /\ answers = <<>> /\ Tail(requests) = <<>> /\ pending # None
  BY <1>1 DEF ParamInv, Exchange
<1>3. value = {} <=> unitValue[pending] = {}
  BY <1>2
<1>4. r.set = {} => value = unitValue[pending]
  BY <1>2
<1> HIDE DEF value, r
<1>5. /\ requests' = <<>> /\ answers' = <<[param |-> pending, value |-> value]>>
      /\ unitValue' = [unitValue EXCEPT ![pending] = value]
  BY <1>1, <1>2
<1>6. answers' # <<>> /\ Head(answers').param = pending /\ Head(answers').value = value
      /\ Tail(answers') = <<>>
  BY <1>5
<1>7. Exchange'
  BY <1>1, <1>2, <1>5, <1>6 DEF Exchange
<1>8. /\ unitValue' = [p \in Params |-> unitValue'[p]]
      /\ \A p \in Params : unitValue'[p] = IF p = pending THEN value ELSE unitValue[p]
  BY <1>5 DEF ParamInv, OneRateName
<1>9. "GPS1_RATE_MS" \in Params /\ "GPS_RATE_MS" \in Params /\ RateNames \subseteq Params
  BY DEF Params, RateNames
<1>10. OneRateName'
  BY <1>3, <1>8, <1>9 DEF ParamInv, OneRateName
<1>11. OneRestart'
  BY <1>1 DEF ParamInv, OneRestart
<1>12. ASSUME wasRight' PROVE restarts' = 0 /\ ~setting'
  BY <1>1, <1>12 DEF ParamInv, RightRate
<1>13. ASSUME wasRight', target' # {}
       PROVE  /\ \A q \in RateNames : unitValue'[q] \in {{}, target'}
              /\ pending' \in RateNames => value = unitValue'[pending']
  <2>1. /\ \A q \in RateNames : unitValue[q] \in {{}, target}
        /\ pending \in RateNames => r.set = {}
    BY <1>1, <1>13 DEF ParamInv, RightRate, r
  <2>2. \A q \in RateNames : unitValue'[q] = unitValue[q]
    BY <1>4, <1>8, <1>9, <2>1
  <2> QED
    BY <1>1, <1>8, <1>9, <2>1, <2>2
<1>14. RightRate'
  BY <1>5, <1>6, <1>12, <1>13 DEF RightRate
<1> QED
  BY <1>7, <1>10, <1>11, <1>14 DEF ParamInv

LEMMA ReceivedKeeps == ParamInv /\ ReceiveParam => ParamInv'
<1> SUFFICES ASSUME ParamInv, ReceiveParam PROVE ParamInv'
  OBVIOUS
<1> DEFINE value == Head(answers).value
<1>1. /\ answers # <<>> /\ answers' = Tail(answers) /\ UNCHANGED <<unitValue, wasRight>>
      /\ \/ Nobody \/ CalAnswer
         \/ value = {} /\ NotFound
         \/ value # {} /\ (Learned(value) \/ RateRead(value) \/ RateWritten(value))
  BY DEF ReceiveParam
<1>2. requests = <<>> /\ Tail(answers) = <<>> /\ pending # None
  BY <1>1 DEF ParamInv, Exchange
<1>3. answers' = <<>>
  BY <1>1, <1>2
<1>4. OneRateName'
  BY <1>1 DEF ParamInv, OneRateName
<1>5. ASSUME wasRight
      PROVE  /\ restarts = 0 /\ ~setting
             /\ target # {} => \A q \in RateNames : unitValue[q] \in {{}, target}
             /\ target # {} /\ pending \in RateNames => value = unitValue[pending]
  BY <1>1, <1>5 DEF ParamInv, RightRate
<1> HIDE DEF value
<1>6. CASE Nobody \/ CalAnswer \/ Learned(value)
  <2>1. requests' = requests /\ UNCHANGED <<target, setting, restarts>>
    BY <1>2, <1>6 DEF Nobody, CalAnswer, Learned, paramState
  <2> QED
    BY <1>1, <1>2, <1>3, <2>1, NothingAsked
<1>7. CASE value = {} /\ NotFound
  <2>1. /\ restarts' = restarts
        /\ target' \in {target, {}} /\ (setting' = setting \/ setting' = FALSE)
        /\ \/ pending' = None /\ requests' = requests
           \/ Ask("GPS_RATE_MS", {})
    BY <1>7 DEF NotFound
  <2>2. \/ pending' = None /\ requests' = <<>>
        \/ /\ pending' # None
           /\ requests' # <<>> => /\ Head(requests').param = pending' /\ Head(requests').set = {}
                                  /\ Tail(requests') = <<>>
    BY <1>2, <2>1, AskedOne DEF Params, RateNames
  <2>3. Exchange'
    BY <1>3, <2>2 DEF Exchange
  <2>4. OneRestart'
    BY <2>1 DEF ParamInv, OneRestart
  <2>5. RightRate'
    BY <1>1, <1>3, <1>5, <2>1, <2>2 DEF RightRate
  <2> QED
    BY <1>4, <2>3, <2>4, <2>5 DEF ParamInv
<1>8. CASE value # {} /\ RateRead(value) /\ target \in {{}, value}
  <2>1. target' = {} /\ UNCHANGED <<setting, requests, restarts>>
    BY <1>8 DEF RateRead
  <2>2. Exchange' /\ OneRestart' /\ RightRate'
    BY <1>1, <1>2, <1>3, <1>5, <2>1 DEF Exchange, OneRestart, RightRate, ParamInv
  <2> QED
    BY <1>4, <2>2 DEF ParamInv
<1>9. CASE value # {} /\ RateRead(value) /\ target \notin {{}, value}
  <2>1. pending \in RateNames /\ Ask(pending, target) /\ UNCHANGED <<target, restarts>>
    BY <1>9 DEF RateRead
  <2>2. ~wasRight
    BY <1>5, <1>9, <2>1
  <2>3. pending' # None /\ (requests' # <<>> => /\ Head(requests').param = pending'
                                                /\ Tail(requests') = <<>>)
    BY <1>2, <2>1, AskedOne DEF Params
  <2>4. Exchange' /\ OneRestart' /\ RightRate'
    BY <1>1, <1>3, <2>1, <2>2, <2>3 DEF Exchange, OneRestart, RightRate, ParamInv
  <2> QED
    BY <1>4, <2>4 DEF ParamInv
<1>10. CASE value # {} /\ RateWritten(value)
  <2>1. setting /\ UNCHANGED requests
    BY <1>10 DEF RateWritten
  <2>2. ~wasRight
    BY <1>5, <2>1
  <2>3. OneRestart'
    BY <1>10 DEF RateWritten, ParamInv, OneRestart
  <2>4. Exchange' /\ RightRate'
    BY <1>1, <1>2, <1>3, <2>1, <2>2 DEF Exchange, RightRate
  <2> QED
    BY <1>4, <2>3, <2>4 DEF ParamInv
<1> QED
  BY <1>1, <1>6, <1>7, <1>8, <1>9, <1>10

LEMMA HostRateKeeps ==
  ASSUME ParamInv, NEW rate \in Rates, HostRate(rate)
  PROVE  ParamInv'
<1>1. /\ setting' = FALSE /\ restarts' = 0 /\ UNCHANGED <<unitValue, answers>>
      /\ wasRight' => \E p \in RateNames : unitValue[p] = {rate}
      /\ \/ pending = None /\ target' \in {{rate}, {}} /\ Ask("GPS1_RATE_MS", {})
         \/ target' = {} /\ UNCHANGED <<pending, requests>>
  BY DEF HostRate
<1>2. OneRateName' /\ OneRestart'
  BY <1>1 DEF ParamInv, OneRateName, OneRestart
<1>3. CASE pending = None /\ target' \in {{rate}, {}} /\ Ask("GPS1_RATE_MS", {})
  <2>1. requests = <<>> /\ answers' = <<>>
    BY <1>1, <1>3 DEF ParamInv, Exchange
  <2>2. pending' # None /\ (requests' # <<>> => /\ Head(requests').param = pending'
                                                /\ Head(requests').set = {}
                                                /\ Tail(requests') = <<>>)
    BY <1>3, <2>1, AskedOne DEF Params, RateNames
  <2>3. wasRight' => \A q \in RateNames : unitValue[q] \in {{}, {rate}}
    BY <1>1 DEF ParamInv, OneRateName, RateNames
  <2>4. Exchange' /\ RightRate'
    BY <1>1, <1>3, <2>1, <2>2, <2>3 DEF Exchange, RightRate
  <2> QED
    BY <1>2, <2>4 DEF ParamInv
<1>4. CASE target' = {} /\ UNCHANGED <<pending, requests>>
  <2>1. Exchange' /\ RightRate'
    BY <1>1, <1>4 DEF Exchange, RightRate, ParamInv
  <2> QED
    BY <1>2, <2>1 DEF ParamInv
<1> QED
  BY <1>1, <1>3, <1>4

LEMMA ReplacedKeeps == ParamInv /\ Replaced => ParamInv'
<1> SUFFICES ASSUME ParamInv, Replaced PROVE ParamInv'
  OBVIOUS
<1>1. OneRateName'
  BY UnitsShape DEF Replaced, OneRateName
<1> QED
  BY <1>1 DEF Replaced, NothingKnown, ParamInv, Exchange, OneRestart, RightRate

LEMMA ServedKeeps == ParamInv /\ ServiceParams => ParamInv'
<1> SUFFICES ASSUME ParamInv, ServiceParams PROVE ParamInv'
  OBVIOUS
<1>1. pending = None /\ UNCHANGED <<target, setting, unitValue, answers, restarts, wasRight>>
  BY DEF ServiceParams
<1>2. \/ \E p \in Params \ RateNames, v \in {{}, {LedTarget}} : Ask(p, v)
      \/ UNCHANGED <<pending, requests>>
  BY DEF ServiceParams, AskNext, LedAdjusted, CalProbe, Listed, Params, RateNames
<1> QED
  BY <1>1, <1>2, OtherAsked, NothingAsked

LEMMA ParamInvStep ==
  ASSUME Timely, ParamInv, [ParamNext]_paramVars
  PROVE  ParamInv'
<1> USE DEF paramState, exchange, paramVars
<1>1. CASE Impatient \/ HostRecover
  <2>1. requests' = <<>> /\ answers' = <<>>
    BY <1>1 DEF Impatient, HostRecover, Gone
  <2> QED
    BY <1>1, <2>1, NothingAsked DEF Impatient, HostRecover
<1>2. CASE LoseExchange
  <2>1. requests' = <<>> /\ answers' = <<>>
    BY <1>2 DEF LoseExchange, ParamInv, Exchange
  <2> QED
    BY <1>2, <2>1, NothingAsked DEF LoseExchange
<1>3. CASE Unsettle \/ Settle \/ Fills \/ Empties \/ HostCompass \/ UNCHANGED paramVars
  BY <1>3, NothingAsked DEF Unsettle, Settle, Fills, Empties, HostCompass
<1>4. ASSUME NEW p \in Params \ RateNames, NEW v, HostSet(p, v) PROVE ParamInv'
  BY <1>4, OtherAsked, NothingAsked DEF HostSet
<1>5. "BARO_ENABLE" \in Params \ RateNames /\ "LED_BRIGHTNESS" \in Params \ RateNames
  BY DEF Params, RateNames
<1> QED
  BY <1>1, <1>2, <1>3, <1>4, <1>5, AnsweredKeeps, ReceivedKeeps, HostRateKeeps, ReplacedKeeps,
     ServedKeeps DEF ParamNext

(* A receiver that had the rate when the host asked for it is not restarted, *)
(* and no other twice for one command, whatever was pending, is lost or    *)
(* finds no room, and whatever else the host asks meanwhile (decodeParam-  *)
(* GetSetResponse), as long as no answer outlives its request.             *)
THEOREM RightRateKept == Timely => (ParamSpec => []RestartsOnceIfNeeded)
<1> SUFFICES ASSUME Timely PROVE ParamSpec => []RestartsOnceIfNeeded
  OBVIOUS
<1>1. ParamInv /\ [ParamNext]_paramVars => ParamInv'
  BY ParamInvStep
<1>2. ParamInv => RestartsOnceIfNeeded
  BY DEF ParamInv, OneRestart, RightRate, RestartsOnceIfNeeded, RightIsNotRestarted
<1> QED
  BY <1>1, <1>2, ParamInvInit, PTL DEF ParamSpec

-----------------------------------------------------------------------------
(* CanTransmit: a lost peer is left in silence, and costs one reset.       *)

LEMMA TransmitConstants ==
  /\ BackoffBase \in Nat \ {0} /\ BackoffMax \in Nat \ {0} /\ MaxStreak \in Nat \ {0}
  /\ HealthCheck \in Nat \ {0} /\ Deadline \in Nat \ {0} /\ Cooldown \in Nat \ {0}
  /\ Stale \in Nat \ {0} /\ TxSlots \in Nat \ {0} /\ HalfRange \in Nat \ {0}
  /\ BackoffBase <= BackoffMax /\ BackoffMax <= Cooldown /\ Cooldown < HalfRange
  /\ MaxChanges \in Nat /\ MaxTxFaults \in Nat
BY TransmitAssumption

Queues == {q \in Seq(0..Deadline) : Len(q) <= TxSlots}
Backoffs == (-HalfRange)..(HalfRange - 1)
TxRecords ==
  [busy : BOOLEAN, overdue : BOOLEAN, streak : 0..MaxStreak, since : Backoffs,
   queue : Queues, box : {"empty", "sending", "failed"}, wanted : BOOLEAN]

(* The mailbox and its queue stay of their shapes, whatever is done to     *)
(* them; nothing queued and nothing watched stays so.                      *)
Idle(t) == t.queue = <<>> /\ ~t.busy

LEMMA BackoffShape ==
  ASSUME NEW n \in 1..MaxStreak
  PROVE  Backoff(n) \in 0..BackoffMax
<1>1. 2 ^ 0 = 1 /\ 2 ^ 1 = 2 /\ 2 ^ 2 = 4 /\ 2 ^ 3 = 8 /\ 2 ^ 4 = 16
  OBVIOUS
<1> DEFINE k == MinOf(4, n - 1)
<1>2. k = 0 \/ k = 1 \/ k = 2 \/ k = 3 \/ k = 4
  BY TransmitConstants DEF MinOf
<1> HIDE DEF k
<1>3. 2 ^ k \in {1, 2, 4, 8, 16}
  BY <1>1, <1>2
<1> DEFINE e == 2 ^ k
<1>4. e = 1 \/ e = 2 \/ e = 4 \/ e = 8 \/ e = 16
  BY <1>3
<1>5. Backoff(n) = MinOf(BackoffMax, BackoffBase * e)
  BY DEF Backoff, k
<1> HIDE DEF e
<1>6. BackoffBase * e \in Nat
  BY <1>4, TransmitConstants
<1> QED
  BY <1>5, <1>6, TransmitConstants DEF MinOf

LEMMA NoteFailureShape ==
  ASSUME NEW t \in TxRecords
  PROVE  /\ NoteFailure(t) \in TxRecords
         /\ NoteFailure(t).queue = t.queue /\ NoteFailure(t).busy = t.busy
<1> DEFINE n == MinOf(MaxStreak, t.streak + 1)
<1>1. t.streak \in 0..MaxStreak
  BY DEF TxRecords
<1>2. n \in 1..MaxStreak
  BY <1>1, TransmitConstants DEF MinOf
<1>3. NoteFailure(t) = [t EXCEPT !.streak = n, !.since = -Backoff(n)]
  BY DEF NoteFailure
<1> HIDE DEF n
<1>4. -Backoff(n) \in Backoffs
  BY <1>2, BackoffShape, TransmitConstants DEF Backoffs
<1>5. n \in 0..MaxStreak
  BY <1>2, TransmitConstants
<1> QED
  BY <1>3, <1>4, <1>5 DEF TxRecords

LEMMA AbortShape ==
  ASSUME NEW t \in TxRecords
  PROVE  AbortTx(t) \in TxRecords /\ AbortTx(t).queue = t.queue /\ AbortTx(t).busy = FALSE
BY DEF AbortTx, TxRecords

LEMMA ServiceShape ==
  ASSUME NEW t \in TxRecords
  PROVE  /\ ServiceMcpTx(t) \in TxRecords /\ ServiceMcpTx(t).queue = t.queue
         /\ ~t.busy => ServiceMcpTx(t) = t
<1>1. CASE ~t.busy
  BY <1>1 DEF ServiceMcpTx
<1>2. CASE t.busy /\ t.box = "empty"
  <2>1. ServiceMcpTx(t) = [t EXCEPT !.busy = FALSE, !.overdue = FALSE, !.streak = 0]
    BY <1>2 DEF ServiceMcpTx
  <2>2. 0 \in 0..MaxStreak
    BY TransmitConstants
  <2> QED
    BY <1>2, <2>1, <2>2 DEF TxRecords
<1>3. CASE t.busy /\ t.box # "empty"
  <2>1. ServiceMcpTx(t) = NoteFailure(AbortTx(t)) \/ ServiceMcpTx(t) = t
    BY <1>3 DEF ServiceMcpTx
  <2> QED
    BY <1>3, <2>1, AbortShape, NoteFailureShape
<1> QED
  BY <1>1, <1>2, <1>3

LEMMA BlindShape ==
  ASSUME NEW t \in TxRecords
  PROVE  /\ ServiceBlind(t) \in TxRecords /\ ServiceBlind(t).queue = t.queue
         /\ ~t.busy => ServiceBlind(t) = t
<1>1. CASE ~t.busy
  BY <1>1 DEF ServiceBlind
<1>2. CASE t.busy
  <2> DEFINE u == [t EXCEPT !.busy = FALSE, !.wanted = TRUE]
  <2>1. u \in TxRecords /\ u.queue = t.queue
    BY DEF TxRecords
  <2>2. ServiceBlind(t) = NoteFailure(u)
    BY <1>2 DEF ServiceBlind
  <2> HIDE DEF u
  <2> QED
    BY <1>2, <2>1, <2>2, NoteFailureShape
<1> QED
  BY <1>1, <1>2

(* flushCanTx drops a prefix of the queue. *)
LEMMA UnexpiredShape ==
  ASSUME NEW q \in Queues, NEW budget \in {1, 4}
  PROVE  Unexpired(q, budget) \in Queues /\ (q = <<>> => Unexpired(q, budget) = <<>>)
<1> DEFINE expired(n) == \A i \in 1..n : q[i] = 0
           M == MinOf(Len(q), budget)
           Ends(m) == expired(m) /\ (m < M => ~expired(m + 1))
<1>0. q \in Seq(0..Deadline) /\ Len(q) \in Nat /\ Len(q) <= TxSlots
  BY DEF Queues
<1>1. M \in Nat /\ M <= 4 /\ M <= Len(q)
  BY <1>0 DEF MinOf
<1> HIDE DEF M
<1>2. expired(0)
  OBVIOUS
<1>3. \A m \in Nat : expired(m) => Ends(m) \/ (m < M /\ expired(m + 1))
  BY DEF Ends
<1> HIDE DEF expired, Ends
<1>4. \E m \in 0..M : Ends(m)
  <2>1. Ends(0) \/ (0 < M /\ expired(1))
    BY <1>2, <1>3
  <2>2. Ends(0) \/ (0 < M /\ Ends(1)) \/ (1 < M /\ expired(2))
    BY <1>3, <2>1
  <2>3. Ends(0) \/ (0 < M /\ Ends(1)) \/ (1 < M /\ Ends(2)) \/ (2 < M /\ expired(3))
    BY <1>3, <2>2
  <2>4. Ends(0) \/ (0 < M /\ Ends(1)) \/ (1 < M /\ Ends(2)) \/ (2 < M /\ Ends(3))
        \/ (3 < M /\ expired(4))
    BY <1>3, <2>3
  <2>5. 3 < M /\ expired(4) => Ends(4)
    BY <1>1, <1>3
  <2> QED
    BY <1>1, <2>4, <2>5
<1> DEFINE n == CHOOSE m \in 0..M : Ends(m)
<1>5. n \in 0..M
  BY <1>4
<1>6. Unexpired(q, budget) = SubSeq(q, n + 1, Len(q))
  BY DEF Unexpired, expired, Ends, M
<1> HIDE DEF n
<1>7. /\ n + 1 \in Nat /\ n + 1 >= 1 /\ n + 1 <= Len(q) + 1
  BY <1>0, <1>1, <1>5
<1>8. SubSeq(q, n + 1, Len(q)) \in Seq(0..Deadline) /\ Len(SubSeq(q, n + 1, Len(q))) <= Len(q)
  <2>1. \A i \in (n + 1)..Len(q) : q[i] \in 0..Deadline
    <3>1. \A i \in (n + 1)..Len(q) : i \in 1..Len(q)
      BY <1>0, <1>7
    <3> QED
      BY <1>0, <3>1, ElementOfSeq
  <2>2. SubSeq(q, n + 1, Len(q)) \in Seq(0..Deadline)
    BY <1>0, <1>7, <2>1, SubSeqProperties
  <2>3. Len(SubSeq(q, n + 1, Len(q))) = IF n + 1 <= Len(q) THEN Len(q) - (n + 1) + 1 ELSE 0
    BY <1>0, <1>7, <2>1, SubSeqProperties
  <2> QED
    BY <1>0, <1>7, <2>2, <2>3
<1>9. q = <<>> => SubSeq(q, n + 1, Len(q)) = <<>>
  BY <1>0, <1>7, <1>8, EmptySeq, SubSeqProperties
<1>10. Len(SubSeq(q, n + 1, Len(q))) <= TxSlots
  <2>1. Len(SubSeq(q, n + 1, Len(q))) \in Nat
    BY <1>8
  <2> QED
    BY <1>0, <1>8, <2>1, TransmitConstants
<1>11. SubSeq(q, n + 1, Len(q)) \in Queues
  BY <1>8, <1>10 DEF Queues
<1> QED
  BY <1>6, <1>9, <1>11

LEMMA WriteShape ==
  ASSUME NEW t \in TxRecords, t.queue # <<>>
  PROVE  WriteFrame(t) \in TxRecords
<1>1. CASE errors = "off"
  <2> DEFINE u == [t EXCEPT !.wanted = TRUE]
  <2>1. u \in TxRecords /\ WriteFrame(t) = NoteFailure(u)
    BY <1>1 DEF TxRecords, WriteFrame
  <2> HIDE DEF u
  <2> QED
    BY <2>1, NoteFailureShape
<1>2. CASE errors # "off" /\ t.box = "sending"
  BY <1>2, AbortShape, NoteFailureShape DEF WriteFrame
<1>3. CASE errors # "off" /\ t.box # "sending"
  <2>1. t.queue \in Seq(0..Deadline) /\ Len(t.queue) <= TxSlots
    BY DEF TxRecords, Queues
  <2> DEFINE q == t.queue
  <2>5. q # <<>> /\ q \in Seq(0..Deadline) /\ Len(q) <= TxSlots
    BY <2>1
  <2> HIDE DEF q
  <2>6. Tail(q) \in Seq(0..Deadline) /\ Len(Tail(q)) = Len(q) - 1
    BY <2>5
  <2>7. Len(q) \in Nat
    BY <2>5
  <2>8. Len(Tail(q)) <= TxSlots
    BY <2>5, <2>6, <2>7, TransmitConstants
  <2>2. Tail(t.queue) \in Seq(0..Deadline) /\ Len(Tail(t.queue)) <= TxSlots
    BY <2>6, <2>8 DEF q
  <2>3. WriteFrame(t)
        = [t EXCEPT !.box = "sending", !.busy = TRUE, !.overdue = FALSE, !.queue = Tail(t.queue)]
    BY <1>3 DEF WriteFrame
  <2>4. Tail(t.queue) \in Queues
    BY <2>2 DEF Queues
  <2> QED
    BY <2>3, <2>4 DEF TxRecords
<1> QED
  BY <1>1, <1>2, <1>3

LEMMA FlushShape ==
  ASSUME NEW t \in TxRecords, NEW budget \in {1, 4}
  PROVE  FlushCanTx(t, budget) \in TxRecords /\ (Idle(t) => Idle(FlushCanTx(t, budget)))
<1> DEFINE kept == [t EXCEPT !.queue = Unexpired(t.queue, budget)]
           spent == Len(t.queue) - Len(kept.queue)
<1>1. t.queue \in Queues
  BY DEF TxRecords
<1>2. Unexpired(t.queue, budget) \in Queues
      /\ (t.queue = <<>> => Unexpired(t.queue, budget) = <<>>)
  BY <1>1, UnexpiredShape
<1>3. /\ kept \in TxRecords /\ kept.busy = t.busy
      /\ t.queue = <<>> => kept.queue = <<>>
  BY <1>2 DEF TxRecords
<1>4. FlushCanTx(t, budget)
      = IF t.busy \/ ~(ok /\ t.since >= 0) THEN t
        ELSE IF kept.queue = <<>> \/ spent = budget THEN kept
        ELSE WriteFrame(kept)
  BY DEF FlushCanTx
<1> HIDE DEF kept, spent
<1>5. \/ FlushCanTx(t, budget) = t
      \/ FlushCanTx(t, budget) = kept
      \/ kept.queue # <<>> /\ FlushCanTx(t, budget) = WriteFrame(kept)
  BY <1>4
<1> QED
  BY <1>3, <1>5, WriteShape DEF Idle

Steps == {"health", "failsafe", "no controller", "receive", "failsafe again", "flush",
          "discover", "requested", "done"}
ErrorStates == {"active", "passive", "off"}
Flags == ok \in BOOLEAN /\ tried \in BOOLEAN /\ deaf \in BOOLEAN /\ plugged \in BOOLEAN
Counts ==
  /\ step \in Steps /\ peerState \in {"ACTIVE", "PEER_LOST", "BUS_FAULT"} /\ errors \in ErrorStates
  /\ sinceRecovery \in 0..Cooldown /\ sinceHealth \in 0..HealthCheck
  /\ sincePeer \in 0..(Stale + 1) /\ sinceRaw \in 0..(Stale + 1)
  /\ changes \in 0..MaxChanges /\ txFaults \in 0..MaxTxFaults /\ silent \in 0..1

(* The one silent recovery of a loss is counted where it is remembered     *)
(* (peer_loss_recovery_attempted_).                                        *)
SilenceCounted == peerState # "PEER_LOST" \/ ~tried => silent = 0

(* Where poll() may send to the peer, what it holds of the peer's loss is  *)
(* what the age of the peer's last status says.                            *)
Sending == {"flush", "discover", "requested"}
LossIsStale == step \in Sending /\ peerState = "PEER_LOST" => sincePeer > Stale

TransmitInv ==
  /\ Tx \in TxRecords /\ Flags /\ Counts
  /\ SilenceCounted /\ LossIsStale /\ (peerState = "PEER_LOST" => Idle(Tx))

LEMMA BecomesShape ==
  ASSUME NEW t \in TxRecords, Becomes(t)
  PROVE  Tx' = t
BY DEF Becomes, Tx, TxRecords

LEMMA SameMailbox ==
  ASSUME UNCHANGED <<mailbox, wanted>>
  PROVE  Tx' = Tx
BY DEF mailbox, Tx

LEMMA TransmitInvInit == TransmitInit => TransmitInv
<1> SUFFICES ASSUME TransmitInit PROVE TransmitInv
  OBVIOUS
<1>1. 0 \in Backoffs /\ 0 \in 0..MaxStreak
  BY TransmitConstants DEF Backoffs
<1>2. <<>> \in Queues
  BY TransmitConstants, EmptySeq DEF Queues
<1>3. Tx \in TxRecords
  BY <1>1, <1>2 DEF TransmitInit, Tx, TxRecords
<1>4. Counts
  BY TransmitConstants DEF TransmitInit, Counts, Steps, ErrorStates
<1>5. Flags
  BY DEF TransmitInit, Flags
<1>6. silent = 0 /\ peerState # "PEER_LOST"
  BY DEF TransmitInit
<1> QED
  BY <1>3, <1>4, <1>5, <1>6 DEF TransmitInv, SilenceCounted, LossIsStale

(* A step that leaves the loss of the peer as it is. *)
LEMMA LossUntouched ==
  ASSUME TransmitInv, Tx' \in TxRecords, Idle(Tx) => Idle(Tx)',
         ok' \in BOOLEAN, deaf' \in BOOLEAN, errors' \in ErrorStates,
         txFaults' \in 0..MaxTxFaults,
         sinceRecovery' \in {sinceRecovery, 0}, sinceHealth' \in {sinceHealth, 0},
         UNCHANGED <<peerState, tried, silent, hearing, plugged, changes>>,
         step' \in Steps, step' \in Sending => step \in Sending
  PROVE  TransmitInv'
<1>1. Counts'
  BY TransmitConstants DEF TransmitInv, Counts, hearing
<1>2. Flags'
  BY DEF TransmitInv, Flags
<1>3. SilenceCounted' /\ LossIsStale' /\ (peerState' = "PEER_LOST" => Idle(Tx)')
  BY DEF TransmitInv, SilenceCounted, LossIsStale, hearing
<1> QED
  BY <1>1, <1>2, <1>3 DEF TransmitInv

LEMMA FaultShape ==
  ASSUME TransmitInv, TxFault \/ Works
  PROVE  txFaults' \in 0..MaxTxFaults
BY TransmitConstants DEF TransmitInv, Counts, TxFault, Works

LEMMA RecoverShape ==
  ASSUME TransmitInv, NEW works \in BOOLEAN, Recover(works)
  PROVE  /\ Tx' \in TxRecords /\ Idle(Tx)'
         /\ ok' \in BOOLEAN /\ deaf' \in BOOLEAN /\ errors' \in ErrorStates
         /\ txFaults' \in 0..MaxTxFaults /\ sinceRecovery' = 0
<1>1. /\ sinceRecovery' = 0 /\ queue' = <<>> /\ since' = -BackoffBase /\ box' = "empty"
      /\ streak' = streak
  BY DEF Recover
<1>2. ok' = works /\ wanted' = ~works /\ busy' = FALSE /\ overdue' = FALSE
  BY DEF Recover
<1>3. -BackoffBase \in Backoffs
  BY TransmitConstants DEF Backoffs
<1>4. <<>> \in Queues
  BY TransmitConstants, EmptySeq DEF Queues
<1>5. streak \in 0..MaxStreak
  BY DEF TransmitInv, Tx, TxRecords
<1>6. Tx' \in TxRecords
  BY <1>1, <1>2, <1>3, <1>4, <1>5 DEF Tx, TxRecords
<1>7. Idle(Tx)'
  BY <1>1, <1>2 DEF Idle, Tx
<1>8. deaf' \in BOOLEAN
  BY DEF Recover, TransmitInv, Flags
<1>9. errors' \in ErrorStates
  BY DEF Recover, TransmitInv, Counts, ErrorStates
<1>10. txFaults' \in 0..MaxTxFaults
  BY FaultShape DEF Recover
<1> QED
  BY <1>1, <1>2, <1>6, <1>7, <1>8, <1>9, <1>10

LEMMA HealthKeeps == TransmitInv /\ Health => TransmitInv'
<1> SUFFICES ASSUME TransmitInv, Health PROVE TransmitInv'
  OBVIOUS
<1>1. PICK t \in {ServiceMcpTx(Tx), ServiceBlind(Tx)} :
        IF sinceHealth < HealthCheck
        THEN /\ Becomes(t) /\ UNCHANGED <<ok, sinceRecovery, sinceHealth, errors, deaf>>
             /\ IF t = ServiceMcpTx(Tx) THEN Works ELSE TxFault
        ELSE /\ sinceHealth' = 0
             /\ \/ \E works \in BOOLEAN : Recover(works)
                \/ /\ Becomes(t) /\ Works /\ UNCHANGED <<ok, sinceRecovery, errors, deaf>>
                \/ /\ ok' = FALSE /\ Becomes([t EXCEPT !.wanted = TRUE]) /\ TxFault
                   /\ UNCHANGED <<sinceRecovery, errors, deaf>>
                \/ /\ Becomes([AbortTx(t) EXCEPT !.queue = <<>>, !.wanted = TRUE,
                                                 !.since = -Cooldown])
                   /\ Works /\ UNCHANGED <<ok, sinceRecovery, errors, deaf>>
                \/ /\ Becomes([t EXCEPT !.since = IF errors = "passive"
                                                  THEN MinOf(t.since, -BackoffBase) ELSE t.since])
                   /\ Works /\ UNCHANGED <<ok, sinceRecovery, errors, deaf>>
  BY DEF Health
<1>2. /\ t \in TxRecords /\ (Idle(Tx) => Idle(t))
  BY <1>1, ServiceShape, BlindShape DEF TransmitInv, Idle
<1>3. /\ UNCHANGED <<peerState, tried, silent, hearing, plugged, changes>>
      /\ step' = "failsafe"
  BY DEF Health
<1> DEFINE Good(u) == u \in TxRecords /\ (Idle(Tx) => Idle(u))
<1>4. Good(t)
  BY <1>2
<1>5. Good([t EXCEPT !.wanted = TRUE])
  BY <1>2 DEF TxRecords, Idle
<1>6. Good([AbortTx(t) EXCEPT !.queue = <<>>, !.wanted = TRUE, !.since = -Cooldown])
  <2>1. -Cooldown \in Backoffs /\ <<>> \in Queues
    BY TransmitConstants, EmptySeq DEF Backoffs, Queues
  <2>2. AbortTx(t) \in TxRecords /\ AbortTx(t).busy = FALSE
    BY <1>2, AbortShape
  <2>3. \A v \in TxRecords :
          LET u == [v EXCEPT !.queue = <<>>, !.wanted = TRUE, !.since = -Cooldown]
          IN u \in TxRecords /\ u.busy = v.busy /\ u.queue = <<>>
    BY <2>1 DEF TxRecords
  <2> QED
    BY <2>2, <2>3 DEF Idle
<1>7. Good([t EXCEPT !.since = IF errors = "passive" THEN MinOf(t.since, -BackoffBase) ELSE t.since])
  <2> DEFINE s == IF errors = "passive" THEN MinOf(t.since, -BackoffBase) ELSE t.since
  <2>1. t.since \in Backoffs
    BY <1>2 DEF TxRecords
  <2>2. s \in Backoffs
    BY <2>1, TransmitConstants DEF Backoffs, MinOf
  <2> HIDE DEF s
  <2>3. Good([t EXCEPT !.since = s])
    BY <1>2, <2>2 DEF TxRecords, Idle
  <2> QED
    BY <2>3 DEF s
<1>8. \A u : Good(u) /\ Becomes(u) => Tx' \in TxRecords /\ (Idle(Tx) => Idle(Tx)')
  <2> SUFFICES ASSUME NEW u, Good(u), Becomes(u)
               PROVE  Tx' \in TxRecords /\ (Idle(Tx) => Idle(Tx)')
    OBVIOUS
  <2>1. Tx' = u
    BY BecomesShape
  <2>2. Idle(Tx)' <=> Idle(u)
    BY <2>1 DEF Idle
  <2> QED
    BY <2>1, <2>2
<1> HIDE DEF Good
<1>9. \/ \E works \in BOOLEAN : Recover(works)
      \/ /\ Tx' \in TxRecords /\ (Idle(Tx) => Idle(Tx)') /\ (TxFault \/ Works)
         /\ ok' \in BOOLEAN /\ UNCHANGED <<sinceRecovery, errors, deaf>>
  <2>1. ok \in BOOLEAN
    BY DEF TransmitInv, Flags
  <2> QED
    BY <1>1, <1>4, <1>5, <1>6, <1>7, <1>8, <2>1
<1>10. sinceHealth' \in {sinceHealth, 0}
  BY <1>1
<1>11. /\ Tx' \in TxRecords /\ (Idle(Tx) => Idle(Tx)') /\ ok' \in BOOLEAN /\ deaf' \in BOOLEAN
       /\ errors' \in ErrorStates /\ txFaults' \in 0..MaxTxFaults
       /\ sinceRecovery' \in {sinceRecovery, 0}
  <2>1. CASE \E works \in BOOLEAN : Recover(works)
    BY <2>1, RecoverShape
  <2>2. CASE /\ Tx' \in TxRecords /\ (Idle(Tx) => Idle(Tx)') /\ (TxFault \/ Works)
             /\ ok' \in BOOLEAN /\ UNCHANGED <<sinceRecovery, errors, deaf>>
    BY <2>2, FaultShape DEF TransmitInv, Flags, Counts
  <2> QED
    BY <1>9, <2>1, <2>2
<1> QED
  BY <1>3, <1>10, <1>11, LossUntouched DEF Steps, Sending

(* updatePeerFailsafe: a loss begins with nothing queued or watched, and   *)
(* is recovered from in silence once.                                      *)
LEMMA FailsafeKeeps ==
  ASSUME TransmitInv, UpdatePeerFailsafe, step' \in Steps
  PROVE  TransmitInv'
<1> DEFINE next == NextPeerState
           lost == next = "PEER_LOST"
           recovers == SilentRecoveryDue
<1>1. /\ peerState' = next /\ UNCHANGED <<sinceHealth, hearing, plugged, changes>>
      /\ tried' = (lost /\ (recovers \/ (peerState = "PEER_LOST" /\ tried)))
      /\ silent' = IF ~lost THEN 0 ELSE IF recovers THEN silent + 1 ELSE silent
      /\ IF recovers THEN \E works \in BOOLEAN : Recover(works)
         ELSE Becomes(Quieted) /\ Works /\ UNCHANGED <<ok, sinceRecovery, errors, deaf>>
  BY DEF UpdatePeerFailsafe
<1>2. /\ next \in {"ACTIVE", "PEER_LOST", "BUS_FAULT"} /\ (lost => sincePeer > Stale)
  BY DEF NextPeerState
<1>3. recovers => lost /\ (peerState = "PEER_LOST" => ~tried)
  BY DEF SilentRecoveryDue
<1>4. Quieted \in TxRecords /\ (lost => Idle(Quieted))
  <2>1. CASE lost /\ peerState # "PEER_LOST"
    <3> DEFINE v == IF busy THEN AbortTx(Tx) ELSE Tx
               s == MinOf(v.since, -Cooldown)
    <3>1. Quieted = [v EXCEPT !.queue = <<>>, !.since = s]
      BY <2>1 DEF Quieted
    <3>2. v \in TxRecords /\ v.busy = FALSE
      <4>1. CASE busy
        BY <4>1, AbortShape DEF TransmitInv
      <4>2. CASE ~busy
        BY <4>2 DEF TransmitInv, Tx, TxRecords
      <4> QED
        BY <4>1, <4>2
    <3>3. v.since \in Backoffs
      BY <3>2 DEF TxRecords
    <3> HIDE DEF v
    <3>4. s \in Backoffs
      BY <3>3, TransmitConstants DEF Backoffs, MinOf
    <3>5. <<>> \in Queues
      BY TransmitConstants, EmptySeq DEF Queues
    <3> HIDE DEF s
    <3> QED
      BY <2>1, <3>1, <3>2, <3>4, <3>5 DEF TxRecords, Idle
  <2>2. CASE ~(lost /\ peerState # "PEER_LOST")
    <3>1. Quieted = Tx
      BY <2>2 DEF Quieted
    <3> QED
      BY <2>2, <3>1 DEF TransmitInv
  <2> QED
    BY <2>1, <2>2
<1> HIDE DEF next, recovers
<1>5. /\ Tx' \in TxRecords /\ (lost => Idle(Tx)')
      /\ ok' \in BOOLEAN /\ deaf' \in BOOLEAN /\ errors' \in ErrorStates
      /\ txFaults' \in 0..MaxTxFaults /\ sinceRecovery' \in 0..Cooldown
  <2>1. CASE recovers
    BY <1>1, <2>1, RecoverShape, TransmitConstants
  <2>2. CASE ~recovers
    <3>1. Tx' = Quieted
      BY <1>1, <1>4, <2>2, BecomesShape
    <3>2. Idle(Tx)' <=> Idle(Quieted)
      BY <3>1 DEF Idle
    <3>3. txFaults' \in 0..MaxTxFaults
      BY <1>1, <2>2, FaultShape
    <3> QED
      BY <1>1, <1>4, <2>2, <3>1, <3>2, <3>3 DEF TransmitInv, Flags, Counts
  <2> QED
    BY <2>1, <2>2
<1>6. silent' \in 0..1
  <2>1. recovers => silent = 0
    BY <1>3 DEF TransmitInv, SilenceCounted
  <2> QED
    BY <1>1, <2>1 DEF TransmitInv, Counts
<1>7. Counts'
  BY <1>1, <1>2, <1>5, <1>6 DEF TransmitInv, Counts, hearing
<1>8. Flags'
  BY <1>1, <1>5 DEF TransmitInv, Flags
<1>9. SilenceCounted'
  <2>1. lost /\ ~tried' => ~recovers /\ (peerState # "PEER_LOST" \/ ~tried)
    BY <1>1
  <2> QED
    BY <1>1, <2>1 DEF TransmitInv, SilenceCounted
<1>10. LossIsStale'
  BY <1>1, <1>2 DEF LossIsStale, hearing
<1> QED
  BY <1>1, <1>5, <1>7, <1>8, <1>9, <1>10 DEF TransmitInv

LEMMA FlushKeeps ==
  ASSUME TransmitInv, NEW budget \in {1, 4}, FlushWith(budget), step \in Sending, step' \in Steps
  PROVE  TransmitInv'
<1>1. /\ UNCHANGED <<ok, tried, peerState, sinceRecovery, sinceHealth, silent, hearing,
                     errors, deaf, plugged, changes>>
      /\ TxFault \/ Works
  BY DEF FlushWith
<1>2. Tx \in TxRecords /\ Tx.busy = busy /\ Tx.queue = queue
  BY DEF TransmitInv, Tx
<1>3. PICK u : /\ Becomes(u)
               /\ \/ u = FlushCanTx(ServiceMcpTx(Tx), budget)
                  \/ u = ServiceBlind(Tx)
                  \/ queue # <<>> /\ u = NoteFailure(Tx)
  BY DEF FlushWith
<1>4. u \in TxRecords /\ (Idle(Tx) => Idle(u))
  <2>1. CASE u = FlushCanTx(ServiceMcpTx(Tx), budget)
    <3>1. ServiceMcpTx(Tx) \in TxRecords /\ (Idle(Tx) => Idle(ServiceMcpTx(Tx)))
      BY <1>2, ServiceShape DEF Idle
    <3> QED
      BY <2>1, <3>1, FlushShape
  <2>2. CASE u = ServiceBlind(Tx)
    BY <1>2, <2>2, BlindShape DEF Idle
  <2>3. CASE queue # <<>> /\ u = NoteFailure(Tx)
    BY <1>2, <2>3, NoteFailureShape DEF Idle
  <2> QED
    BY <1>3, <2>1, <2>2, <2>3
<1>5. Tx' = u
  BY <1>3, <1>4, BecomesShape
<1>6. Idle(Tx)' <=> Idle(u)
  BY <1>5 DEF Idle
<1>7. txFaults' \in 0..MaxTxFaults
  BY <1>1, FaultShape
<1> QED
  BY <1>1, <1>4, <1>5, <1>6, <1>7, LossUntouched DEF TransmitInv, Flags, Counts

LEMMA RequestKeeps == TransmitInv /\ Request => TransmitInv'
<1> SUFFICES ASSUME TransmitInv, Request PROVE TransmitInv'
  OBVIOUS
<1>1. /\ step = "discover" /\ step' = "requested" /\ sincePeer <= Stale /\ Len(queue) < TxSlots
      /\ queue' = Append(queue, Deadline)
      /\ UNCHANGED <<driver, busy, overdue, streak, since, box, hearing, world>>
  BY DEF Request
<1>2. peerState # "PEER_LOST"
  BY <1>1, TransmitConstants DEF TransmitInv, LossIsStale, Sending, Counts
<1>3. queue \in Seq(0..Deadline) /\ Deadline \in 0..Deadline
  BY TransmitConstants DEF TransmitInv, Tx, TxRecords, Queues
<1>4. queue' \in Seq(0..Deadline) /\ Len(queue') = Len(queue) + 1 /\ Len(queue) \in Nat
  BY <1>1, <1>3, AppendProperties
<1>5. queue' \in Queues
  BY <1>1, <1>4, TransmitConstants DEF Queues
<1>6. Tx' \in TxRecords
  BY <1>1, <1>5 DEF TransmitInv, Tx, TxRecords, driver
<1>7. Counts'
  BY <1>1 DEF TransmitInv, Counts, Steps, driver, hearing, world
<1>8. Flags'
  BY <1>1 DEF TransmitInv, Flags, driver, world
<1> QED
  BY <1>1, <1>2, <1>6, <1>7, <1>8 DEF TransmitInv, SilenceCounted, LossIsStale, driver

LEMMA TickKeeps == TransmitInv /\ TxTick => TransmitInv'
<1> SUFFICES ASSUME TransmitInv, TxTick PROVE TransmitInv'
  OBVIOUS
<1>1. /\ step' = "health"
      /\ since' = IF since = 0 /\ ~LongUptime THEN 0
                  ELSE IF since = HalfRange - 1 THEN -HalfRange ELSE since + 1
      /\ queue' = [i \in DOMAIN queue |-> IF queue[i] = 0 THEN 0 ELSE queue[i] - 1]
      /\ sinceRecovery' = Elapsed(sinceRecovery, Cooldown)
      /\ sinceHealth' = Elapsed(sinceHealth, HealthCheck)
      /\ sincePeer' = Elapsed(sincePeer, Stale + 1) /\ sinceRaw' = Elapsed(sinceRaw, Stale + 1)
      /\ UNCHANGED <<ok, wanted, tried, peerState, silent, busy, streak, box, world>>
  BY DEF TxTick
<1>2. overdue' \in BOOLEAN
  BY DEF TxTick
<1>3. queue \in Seq(0..Deadline) /\ Len(queue) <= TxSlots /\ since \in Backoffs
  BY DEF TransmitInv, Tx, TxRecords, Queues
<1>4. queue' \in Queues
  <2>1. DOMAIN queue = 1..Len(queue) /\ Len(queue) \in Nat
    BY <1>3, LenProperties
  <2>2. \A i \in 1..Len(queue) : queue[i] \in 0..Deadline
    BY <1>3, ElementOfSeq
  <2>3. \A i \in 1..Len(queue) : (IF queue[i] = 0 THEN 0 ELSE queue[i] - 1) \in 0..Deadline
    BY <2>2, TransmitConstants
  <2>4. queue' \in [1..Len(queue) -> 0..Deadline]
    BY <1>1, <2>1, <2>3
  <2>5. queue' \in Seq(0..Deadline)
    BY <2>1, <2>4, SeqDef
  <2>6. Len(queue') = Len(queue)
    <3>1. DOMAIN queue' = 1..Len(queue) /\ DOMAIN queue' = 1..Len(queue') /\ Len(queue') \in Nat
      BY <2>4, <2>5, LenProperties
    <3> QED
      BY <2>1, <3>1
  <2> QED
    BY <1>3, <2>5, <2>6 DEF Queues
<1>5. since' \in Backoffs
  BY <1>1, <1>3, TransmitConstants DEF Backoffs
<1>6. Tx' \in TxRecords
  BY <1>1, <1>2, <1>4, <1>5 DEF TransmitInv, Tx, TxRecords
<1>7. Counts'
  <2>1. /\ sinceRecovery' \in 0..Cooldown /\ sinceHealth' \in 0..HealthCheck
        /\ sincePeer' \in 0..(Stale + 1) /\ sinceRaw' \in 0..(Stale + 1)
    BY <1>1, TransmitConstants DEF TransmitInv, Counts, Elapsed, MinOf
  <2> QED
    BY <1>1, <2>1 DEF TransmitInv, Counts, Steps, world
<1>8. Flags'
  BY <1>1 DEF TransmitInv, Flags, world
<1>9. queue = <<>> => queue' = <<>>
  BY <1>1
<1>10. Idle(Tx) => Idle(Tx)'
  BY <1>1, <1>9 DEF Idle, Tx
<1> QED
  BY <1>1, <1>6, <1>7, <1>8, <1>10 DEF TransmitInv, SilenceCounted, LossIsStale, Sending

LEMMA TransmitInvStep ==
  ASSUME TransmitInv, [TransmitNext]_transmitVars
  PROVE  TransmitInv'
<1> USE DEF driver, world
<1>1. CASE Failsafe \/ FailsafeAgain
  BY <1>1, FailsafeKeeps DEF Failsafe, FailsafeAgain, Steps
<1>2. CASE Flush \/ FlushRequest
  BY <1>2, FlushKeeps DEF Flush, FlushRequest, Steps, Sending
<1>3. CASE NoController
  <2>1. /\ step' = "done" /\ wanted' = TRUE /\ UNCHANGED mailbox
    BY <1>3 DEF NoController
  <2>2. Tx' \in TxRecords /\ (Idle(Tx) => Idle(Tx)')
    BY <2>1 DEF TransmitInv, Tx, TxRecords, Idle, mailbox
  <2> QED
    BY <1>3, <2>2, LossUntouched DEF NoController, TransmitInv, Flags, Counts, Steps, Sending
<1>4. CASE ReceiveCan
  <2>1. /\ step' = "failsafe again" /\ UNCHANGED <<driver, mailbox, world>>
        /\ sincePeer' \in {sincePeer, 0} /\ sinceRaw' \in {sinceRaw, 0}
    BY <1>4 DEF ReceiveCan, hearing
  <2>2. Tx' = Tx
    BY <2>1, SameMailbox
  <2>3. Idle(Tx)' <=> Idle(Tx)
    BY <2>2 DEF Idle
  <2>4. Counts'
    <3>1. /\ sincePeer \in 0..(Stale + 1) /\ sinceRaw \in 0..(Stale + 1)
          /\ 0 \in 0..(Stale + 1)
      BY TransmitConstants DEF TransmitInv, Counts
    <3>2. sincePeer' \in 0..(Stale + 1) /\ sinceRaw' \in 0..(Stale + 1)
      BY <2>1, <3>1
    <3> QED
      BY <2>1, <3>2 DEF TransmitInv, Counts, Steps
  <2>5. Flags'
    BY <2>1 DEF TransmitInv, Flags
  <2> QED
    BY <2>1, <2>2, <2>3, <2>4, <2>5 DEF TransmitInv, SilenceCounted, LossIsStale, Sending
<1>5. CASE Discover
  <2>1. Tx' = Tx
    BY <1>5, SameMailbox DEF Discover
  <2>2. Idle(Tx)' <=> Idle(Tx)
    BY <2>1 DEF Idle
  <2> QED
    BY <1>5, <2>1, <2>2, LossUntouched DEF Discover, TransmitInv, Flags, Counts, Steps, Sending
<1>6. CASE Acknowledged \/ NotAcknowledged
  <2>1. /\ UNCHANGED <<step, driver, busy, overdue, streak, since, queue, hearing, deaf, plugged,
                       changes, txFaults>>
        /\ errors' \in ErrorStates /\ box' \in {"empty", box}
    BY <1>6 DEF Acknowledged, NotAcknowledged, mailbox, ErrorStates, TransmitInv, Counts
  <2>2. Tx' \in TxRecords /\ (Idle(Tx) => Idle(Tx)')
    BY <2>1 DEF TransmitInv, Tx, TxRecords, Idle
  <2> QED
    BY <2>1, <2>2, LossUntouched DEF TransmitInv, Flags, Counts
<1>7. CASE BusError
  <2>1. /\ UNCHANGED <<step, driver, busy, overdue, streak, since, queue, hearing, plugged, changes>>
        /\ errors' \in {"off", errors} /\ box' \in {"failed", box} /\ TxFault
    BY <1>7 DEF BusError
  <2>2. Tx' \in TxRecords /\ (Idle(Tx) => Idle(Tx)')
    BY <2>1 DEF TransmitInv, Tx, TxRecords, Idle
  <2>3. deaf' \in BOOLEAN
    BY <1>7 DEF BusError, TransmitInv, Flags
  <2>4. txFaults' \in 0..MaxTxFaults
    BY <2>1, FaultShape
  <2> QED
    BY <2>1, <2>2, <2>3, <2>4, LossUntouched DEF TransmitInv, Flags, Counts, ErrorStates
<1>8. CASE PlugChanges
  <2>1. Tx' = Tx
    BY <1>8, SameMailbox DEF PlugChanges
  <2>2. Idle(Tx)' <=> Idle(Tx)
    BY <2>1 DEF Idle
  <2>3. Counts'
    BY <1>8, TransmitConstants DEF PlugChanges, TransmitInv, Counts, hearing
  <2>4. Flags'
    BY <1>8 DEF PlugChanges, TransmitInv, Flags
  <2> QED
    BY <1>8, <2>1, <2>2, <2>3, <2>4 DEF PlugChanges, TransmitInv, SilenceCounted, LossIsStale, hearing
<1>9. CASE UNCHANGED transmitVars
  <2>1. Tx' = Tx
    BY <1>9, SameMailbox DEF transmitVars
  <2>2. Idle(Tx)' <=> Idle(Tx)
    BY <2>1 DEF Idle
  <2> QED
    BY <1>9, <2>1, <2>2, LossUntouched DEF transmitVars, TransmitInv, Flags, Counts
<1> QED
  BY <1>1, <1>2, <1>3, <1>4, <1>5, <1>6, <1>7, <1>8, <1>9, HealthKeeps, RequestKeeps, TickKeeps
  DEF TransmitNext, PollTx

LEMMA TransmitInvSilent ==
  ASSUME TransmitInv
  PROVE  SilenceKept
<1>1. /\ queue \in Seq(0..Deadline) /\ Len(queue) <= TxSlots /\ streak \in 0..MaxStreak
      /\ since \in Backoffs /\ box \in {"empty", "sending", "failed"}
  BY DEF TransmitInv, Tx, TxRecords, Queues
<1>2. busy \in BOOLEAN /\ overdue \in BOOLEAN /\ wanted \in BOOLEAN
  BY DEF TransmitInv, Tx, TxRecords
<1>3. since \in (-HalfRange)..HalfRange
  BY <1>1, TransmitConstants DEF Backoffs
<1>4. silent <= 1 /\ silent \in 0..2
  BY DEF TransmitInv, Counts
<1>5. {ok, wanted, busy, overdue, tried, deaf, plugged} \subseteq BOOLEAN
  BY <1>2 DEF TransmitInv, Flags
<1>6. /\ sinceRecovery \in 0..Cooldown /\ sinceHealth \in 0..HealthCheck
      /\ {sincePeer, sinceRaw} \subseteq 0..Stale + 1
      /\ changes \in 0..MaxChanges /\ txFaults \in 0..MaxTxFaults
  BY DEF TransmitInv, Counts
<1>7. /\ step \in Steps /\ peerState \in {"ACTIVE", "PEER_LOST", "BUS_FAULT"}
      /\ errors \in ErrorStates
  BY DEF TransmitInv, Counts
<1>8. TransmitTypeOK
  BY <1>1, <1>3, <1>4, <1>5, <1>6, <1>7 DEF TransmitTypeOK, Steps, ErrorStates
<1>9. QuietWhenLost
  BY DEF TransmitInv, QuietWhenLost, Idle, Tx
<1> QED
  BY <1>4, <1>8, <1>9 DEF SilenceKept, OneSilentRecovery

(* From the poll in which a loss is noticed nothing is queued or sent      *)
(* until it is over, wherever in poll() the peer comes and goes, and the   *)
(* controller is started afresh for its silence at most once               *)
(* (updatePeerFailsafe).                                                   *)
THEOREM LossIsSilent == TransmitSpec => []SilenceKept
<1>1. TransmitInv /\ [TransmitNext]_transmitVars => TransmitInv'
  BY TransmitInvStep
<1>2. TransmitInv => SilenceKept
  BY TransmitInvSilent
<1> QED
  BY <1>1, <1>2, TransmitInvInit, PTL DEF TransmitSpec
=============================================================================
