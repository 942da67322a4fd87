------------------------------- MODULE RosLink -------------------------------
(***************************************************************************)
(* The link with ROS behind the host (main.cpp): its heartbeat, the        *)
(* freshness of the ESC domain, the manual test that may run only on them, *)
(* and the transaction by which the display has ROS change a setting.      *)
(*                                                                         *)
(* A tick is one pass of the main loop, of the order of half a second; a   *)
(* difference of the 32-bit clock is a count of ticks, and does not wrap.  *)
(***************************************************************************)
EXTENDS Integers, FiniteSets

CONSTANTS
  GapTicks, StableCount, LinkTicks, StartupTicks,   \* ROS_HEARTBEAT_* and ROS_LINK_*
  DomainTicks,   \* DOMAIN_DATA_STALE_MS
  AckTicks,      \* CONFIG_ACK_TIMEOUT_MS
  Keys,          \* the settings
  TxnMod,        \* transaction numbers are taken modulo it (2^16)
  MaxAsked       \* bound: answers of ROS under way

ASSUME RosAssumption ==
  /\ {GapTicks, StableCount, LinkTicks, StartupTicks, DomainTicks, AckTicks} \subseteq Nat \ {0}
  /\ MaxAsked \in Nat /\ TxnMod \in Nat /\ MaxAsked + 2 < TxnMod

VARIABLES
  established,   \* hostSessionEstablished
  link,          \* rosConnected, the count and stability of its heartbeats, and their age
  domain,        \* the ESC domain: seen, its age, and fresh
  testing,       \* a manual test runs
  nextTxn,
  config,        \* the transaction: pending, txn, key, age, and how the last one ended
  asked          \* what ROS will answer: of each request its txn and key, and how many came after

rosVars == <<established, link, domain, testing, nextTxn, config, asked>>

Counted(n, bound) == IF n < bound THEN n + 1 ELSE bound

LinkDown == [on |-> FALSE, count |-> 0, stable |-> FALSE, age |-> 0]
Unseen == [seen |-> FALSE, age |-> 0, fresh |-> FALSE]
NoConfig == [pending |-> FALSE, txn |-> 0, key |-> "NONE", age |-> 0, end |-> "READY"]

Ended(how) == [NoConfig EXCEPT !.end = how]

-----------------------------------------------------------------------------
(* Losing the link.                                                        *)

\* What forceRosOffline takes back.
Revoked ==
  /\ link' = LinkDown /\ domain' = Unseen /\ testing' = FALSE
  /\ config' = IF config.pending THEN Ended("ROS LINK LOST") ELSE config

\* HOST:HELLO of a new session, with its ACK or without.
Hello(acked) ==
  /\ established' = acked /\ Revoked /\ UNCHANGED <<nextTxn, asked>>

\* The transport or the host is gone, as serviceUsbTransportState sees it.
Disconnect ==
  /\ established /\ established' = FALSE
  /\ IF link.on \/ testing THEN Revoked ELSE UNCHANGED <<link, domain, testing, config>>
  /\ UNCHANGED <<nextTxn, asked>>

\* ROS:0.
RosSaysOff == established /\ link.on /\ Revoked /\ UNCHANGED <<established, nextTxn, asked>>

-----------------------------------------------------------------------------
(* Heartbeats and the ESC domain.                                          *)

\* markRosHeartbeat.
MarkRosHeartbeat ==
  LET near == link.on /\ link.age <= GapTicks
      count == IF near THEN Counted(link.count, StableCount) ELSE 1
  IN link' = [on |-> TRUE, count |-> count, age |-> 0,
              stable |-> near /\ (link.stable \/ count >= StableCount)]

HeartBeats ==
  /\ established /\ MarkRosHeartbeat
  /\ UNCHANGED <<established, domain, testing, nextTxn, config, asked>>

\* An ESC line of the session in force is accepted, with or without a link.
EscLine ==
  /\ established /\ domain' = [domain EXCEPT !.seen = TRUE, !.age = 0]
  /\ UNCHANGED <<established, link, testing, nextTxn, config, asked>>

LinkExpired == link.on /\ link.age > (IF link.stable THEN LinkTicks ELSE StartupTicks)

DomainNext ==
  LET age == Counted(domain.age, DomainTicks + 1)
  IN IF domain.seen
     THEN [seen |-> TRUE, age |-> age, fresh |-> link.on /\ age <= DomainTicks] ELSE Unseen

\* updateDomainFreshness stops the tests as the ESC domain goes stale.
TestKept(next) == testing /\ ~(domain.fresh /\ ~next.fresh)

\* manualMotionGateValid, of what is modelled here.
StartTest ==
  /\ ~testing /\ established /\ link.on /\ domain.fresh
  /\ testing' = TRUE
  /\ UNCHANGED <<established, link, domain, nextTxn, config, asked>>

StopTest ==
  /\ testing /\ testing' = FALSE
  /\ UNCHANGED <<established, link, domain, nextTxn, config, asked>>

-----------------------------------------------------------------------------
(* Configuration transactions.                                             *)

\* nextTxn++, which skips 0.
TxnTaken(txn) == IF txn = 0 THEN 1 ELSE txn

\* requestConfig.  When the line finds no room the number is spent all the same.
RequestConfig(key, room) ==
  LET txn == TxnTaken(nextTxn)
  IN /\ established /\ ~config.pending
     /\ IF ~link.on \/ ~domain.fresh
        THEN config' = Ended(IF link.on THEN "DATA STALE" ELSE "ROS OFFLINE")
             /\ UNCHANGED <<nextTxn, asked>>
        ELSE /\ nextTxn' = (txn + 1) % TxnMod
             /\ config' = IF room
                  THEN [pending |-> TRUE, txn |-> txn, key |-> key, age |-> 0, end |-> "WAITING ACK"]
                  ELSE Ended("USB TX BUSY")
             /\ asked' = {[a EXCEPT !.later = @ + 1] : a \in {b \in asked : b.later < MaxAsked}}
                         \cup (IF room THEN {[txn |-> txn, key |-> key, later |-> 0]} ELSE {})
     /\ UNCHANGED <<established, link, domain, testing>>

\* Mutant: the number of the transaction is not compared.
AnswersKey(a) == a.key = config.key
\* configAck.
Answers(a) == a.txn = config.txn /\ a.key = config.key

\* parseConfigResult: ROS answers a request, late or twice; own tells which one it was.
ConfigResult(a, ok, again) ==
  /\ established /\ a \in asked
  /\ asked' = IF again THEN asked ELSE asked \ {a}
  /\ config' = IF config.pending /\ Answers(a)
               THEN Ended(CASE ok /\ a.later = 0 -> "OK" [] ok /\ a.later > 0 -> "OK OF ANOTHER"
                            [] OTHER -> "REFUSED")
               ELSE config
  /\ UNCHANGED <<established, link, domain, testing, nextTxn>>

AnswerLost(a) ==
  /\ a \in asked /\ asked' = asked \ {a}
  /\ UNCHANGED <<established, link, domain, testing, nextTxn, config>>

\* Mutant: any answer gives the transaction more time.
AgedUnlessAnswered(c) ==
  IF ~c.pending \/ (asked # {} /\ c.age = AckTicks) THEN c
  ELSE IF c.age >= AckTicks THEN Ended("ACK TIMEOUT") ELSE [c EXCEPT !.age = @ + 1]

\* checkConfigTimeout, a tick later.
Aged(c) ==
  IF ~c.pending THEN c
  ELSE IF c.age >= AckTicks THEN Ended("ACK TIMEOUT") ELSE [c EXCEPT !.age = @ + 1]

-----------------------------------------------------------------------------
\* The end of a pass: checkRosLinkTimeout, checkConfigTimeout, updateDomainFreshness.
PassEnds ==
  /\ IF LinkExpired THEN Revoked
     ELSE /\ link' = IF link.on THEN [link EXCEPT !.age = Counted(@, StartupTicks + 1)] ELSE link
          /\ domain' = DomainNext
          /\ testing' = TestKept(DomainNext)
          /\ config' = Aged(config)
  /\ UNCHANGED <<established, nextTxn, asked>>

RosInit ==
  /\ established = FALSE /\ link = LinkDown /\ domain = Unseen /\ testing = FALSE
  /\ nextTxn = 1 /\ config = NoConfig /\ asked = {}

RosNext ==
  \/ \E acked \in BOOLEAN : Hello(acked)
  \/ Disconnect \/ RosSaysOff \/ HeartBeats \/ EscLine \/ StartTest \/ StopTest
  \/ \E key \in Keys, room \in BOOLEAN : RequestConfig(key, room)
  \/ \E a \in asked, ok, again \in BOOLEAN : ConfigResult(a, ok, again)
  \/ \E a \in asked : AnswerLost(a)
  \/ PassEnds

\* The main loop goes round.
RosFairness == WF_rosVars(PassEnds)

RosSpec == RosInit /\ [][RosNext]_rosVars
FairRosSpec == RosSpec /\ RosFairness

-----------------------------------------------------------------------------
(* Properties.                                                             *)

RosTypeOK ==
  /\ established \in BOOLEAN /\ testing \in BOOLEAN
  /\ link.count \in 0..StableCount /\ nextTxn \in 0..(TxnMod - 1)
  /\ config.txn \in 0..(TxnMod - 1)

\* A test goes on only while a heartbeat and an ESC line have come within their
\* timeouts, in the session in force (checkRosLinkTimeout, updateDomainFreshness).
TestHasData ==
  testing => established /\ link.on /\ domain.seen /\ domain.age <= DomainTicks

\* A setting is shown as taken over by ROS only on the answer to that very request,
\* whatever answers to earlier ones come late or twice (requestConfig, configAck).
SettledByOwnAnswer == config.end # "OK OF ANOTHER"

\* A transaction does not stay pending (checkConfigTimeout, forceRosOffline).
PendingEnds == []<>~config.pending

\* A host that no longer says anything loses the link, and with it any test
\* (checkRosLinkTimeout).
SilenceEnds == <>[][~HeartBeats]_rosVars => <>[](~link.on /\ ~testing)

\* Both: a test goes on only while its data come, and a setting is taken over
\* only on its own answer.
RosSound == RosTypeOK /\ TestHasData /\ SettledByOwnAnswer

\* Both: a transaction ends, and a silent host loses the link and any test.
RosEnds == PendingEnds /\ SilenceEnds
=============================================================================
