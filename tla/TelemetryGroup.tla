--------------------------- MODULE TelemetryGroup ----------------------------
(***************************************************************************)
(* One group of extended telemetry: which lines the gateway takes          *)
(* (parseExtendedTelemetryLine and acceptSequence of TelemetryProtocol.cpp)*)
(* and how long what it shows counts as fresh (Telemetry.h), with a host   *)
(* whose lines overtake each other, come twice, get lost, or were sent in  *)
(* a session that is over, and a publisher that restarts.                  *)
(*                                                                         *)
(* A tick is one pass of the main loop, of the order of a second.  Ages    *)
(* are counted up to the first value that matters no more; that they are   *)
(* differences of a 32-bit clock, which wraps, is not modelled.            *)
(***************************************************************************)
EXTENDS Integers, FiniteSets

CONSTANTS
  SeqMod,        \* sequence numbers are taken modulo it (2^32)
  Tokens,        \* tokens of host sessions
  GroupTicks,    \* the timeout of the group (1500 ms)
  ResyncTicks,   \* the 5 s of acceptSequence
  Transit,       \* bound: ticks a line is under way
  MaxWire,       \* bound: lines under way
  MaxRestarts    \* bound: restarts of the publisher within a session

\* A line a tick: no number is reused while the gateway still compares with it.  A line
\* is not under way for longer than the 5 s.
ASSUME GroupAssumption ==
  /\ {SeqMod, GroupTicks, ResyncTicks, Transit, MaxWire} \subseteq Nat \ {0}
  /\ Tokens \subseteq Nat \ {0}
  /\ GroupTicks <= ResyncTicks /\ Transit <= ResyncTicks
  /\ ResyncTicks + Transit + 1 < SeqMod \div 2

NoSession == 0
Kinds == {"good", "old", "invalid"}   \* valid and young, with an age over the timeout, not valid

VARIABLES
  session,   \* hostSessionToken of an established session, or NoSession
  group,     \* the stamp: accepted at all, session, seq, kind, ticks since rx, and fresh
  due,       \* whether the publisher may publish in this tick
  wire,      \* the lines under way
  restarted, \* how often the publisher has restarted
  shown      \* history: of the sample whose values are shown, the session its line says, and the age

groupVars == <<session, group, due, wire, restarted, shown>>

Older(n, bound) == IF n < bound THEN n + 1 ELSE bound
OldestSample == ResyncTicks + Transit + 1

NoStamp == [any |-> FALSE, session |-> NoSession, seq |-> 0, kind |-> "invalid", age |-> 0, fresh |-> FALSE]
NothingShown == [session |-> NoSession, age |-> OldestSample]

-----------------------------------------------------------------------------
(* Accepting a line.                                                       *)

\* Mutant: any number but the last one is taken.
NewerAny(seq, last) == seq # last

\* static_cast<int32_t>(seq - stamp.seq) > 0.
Newer(seq, last) == (seq - last) % SeqMod \in 1..((SeqMod \div 2) - 1)

\* Mutant: a group is never given up.
AcceptSequenceForever(stamp, line) ==
  ~stamp.any \/ (line.v3 /\ stamp.session # line.session) \/ Newer(line.seq, stamp.seq)

\* acceptSequence.  A legacy line has no session and stands back for a fresh v3 source.
AcceptSequence(stamp, line) ==
  \/ ~stamp.any
  \/ line.v3 /\ stamp.session # line.session
  \/ /\ ~(~line.v3 /\ stamp.session # NoSession /\ stamp.age <= ResyncTicks)
     /\ stamp.age > ResyncTicks \/ Newer(line.seq, stamp.seq)

\* updateTelemetryGroupFreshness.
GroupFresh(stamp) == stamp.any /\ stamp.kind = "good" /\ stamp.age <= GroupTicks

\* commitStamp, and the freshness that the handler brings up to date after it.
Stamped(line) ==
  [any |-> TRUE, session |-> IF line.v3 THEN line.session ELSE NoSession,
   seq |-> line.seq, kind |-> line.kind, age |-> 0, fresh |-> line.kind = "good"]

\* Mutant: the session of a line is not looked at.
OfSessionAny(line) == TRUE
\* parseExtendedTelemetryLine: a v3 line carries the session in force.
OfSession(line) == line.v3 => line.session = session

\* parseEsc, parsePer, parseNav: all of a line or nothing is taken, its values only if valid.
Accept(line) ==
  IF session # NoSession /\ OfSession(line) /\ AcceptSequence(group, line)
  THEN /\ group' = Stamped(line)
       /\ shown' = IF line.kind # "invalid"
                   THEN [session |-> Stamped(line).session, age |-> line.age] ELSE shown
  ELSE UNCHANGED <<group, shown>>

-----------------------------------------------------------------------------
(* Behaviours.                                                             *)

\* What forceRosOffline takes back.
GroupRevoked == group' = NoStamp /\ shown' = NothingShown

\* HOST:HELLO with a new token; if its ACK is refused there is no session.
GroupHello(token, acked) ==
  /\ token # session /\ \A line \in wire : line.session # token
  /\ session' = IF acked THEN token ELSE NoSession
  /\ GroupRevoked /\ UNCHANGED <<due, wire, restarted>>

\* The transport or the host is gone.  If ROS was not connected nothing is revoked.
GroupDisconnect(connected) ==
  /\ session # NoSession /\ session' = NoSession
  /\ IF connected THEN GroupRevoked ELSE UNCHANGED <<group, shown>>
  /\ UNCHANGED <<due, wire, restarted>>

\* ROS:0, or no heartbeat for too long.
RosOffline ==
  /\ session # NoSession
  /\ GroupRevoked /\ UNCHANGED <<session, due, wire, restarted>>

\* Sequence numbers count from the one the publisher gives next, which is 0: when it is
\* given, all of them are one further behind.
OneEarlier(numbered) == [numbered EXCEPT !.seq = (@ - 1) % SeqMod]

\* The host publishes a sample, at most one a tick, in the v3 or the legacy format.
Publish(kind, v3) ==
  /\ due /\ session # NoSession /\ Cardinality(wire) < MaxWire
  /\ LET line == [v3 |-> v3, session |-> session, seq |-> 0, kind |-> kind, age |-> 0]
     IN wire' = {OneEarlier(l) : l \in wire \cup {line}}
  /\ group' = IF group.any THEN OneEarlier(group) ELSE group
  /\ due' = FALSE
  /\ UNCHANGED <<session, restarted, shown>>

\* A publisher that restarts within a session counts from zero again: the last number
\* taken may be any, seen from there.
SourceRestarts ==
  /\ restarted < MaxRestarts /\ restarted' = restarted + 1
  /\ wire = {} /\ group.any /\ \E n \in 0..(SeqMod - 1) : group' = [group EXCEPT !.seq = n]
  /\ UNCHANGED <<session, due, wire, shown>>

\* A line is handled; again is TRUE when it is delivered once more later.
Receive(line, again) ==
  /\ line \in wire /\ wire' = IF again THEN wire ELSE wire \ {line}
  /\ Accept(line)
  /\ UNCHANGED <<session, due, restarted>>

\* Time passes, and updateExtendedFreshness.
GroupPassEnds ==
  /\ LET aged == [group EXCEPT !.age = IF group.any THEN Older(@, ResyncTicks + 1) ELSE 0]
     IN group' = [aged EXCEPT !.fresh = GroupFresh(aged)]
  /\ shown' = [shown EXCEPT !.age = Older(@, OldestSample)]
  /\ wire' = {[line EXCEPT !.age = @ + 1] : line \in {l \in wire : l.age < Transit}}
  /\ due' = TRUE
  /\ UNCHANGED <<session, restarted>>

GroupInit ==
  /\ session = NoSession /\ group = NoStamp /\ due = TRUE
  /\ wire = {} /\ restarted = 0 /\ shown = NothingShown

GroupNext ==
  \/ \E token \in Tokens, acked \in BOOLEAN : GroupHello(token, acked)
  \/ \E connected \in BOOLEAN : GroupDisconnect(connected)
  \/ RosOffline \/ SourceRestarts \/ GroupPassEnds
  \/ \E kind \in Kinds, v3 \in BOOLEAN : Publish(kind, v3)
  \/ \E line \in wire, again \in BOOLEAN : Receive(line, again)

\* The main loop goes round.
GroupFairness == WF_groupVars(GroupPassEnds)

GroupSpec == GroupInit /\ [][GroupNext]_groupVars
FairGroupSpec == GroupSpec /\ GroupFairness

-----------------------------------------------------------------------------
(* Properties.                                                             *)

GroupTypeOK ==
  /\ session \in Tokens \cup {NoSession}
  /\ group.seq \in 0..(SeqMod - 1) /\ group.kind \in Kinds
  /\ Cardinality(wire) <= MaxWire

\* Within a session, a sample gives way to an older one neither when lines overtake
\* each other, nor when one comes twice, nor when the numbers wrap, unless nothing has
\* come for 5 s or a legacy line has come last (acceptSequence).
NeverBack ==
  [][(shown'.session = shown.session /\ shown.session # NoSession
      /\ group.session # NoSession /\ group.age <= ResyncTicks)
       => shown'.age <= shown.age \/ GroupPassEnds]_groupVars

\* A group is fresh only on a line that the host sent in the session in force,
\* whatever of an earlier session is still under way (the expectedSession of
\* parseExtendedTelemetryLine, forceRosOffline); a legacy line says of no session.
FreshIsOfSession ==
  group.fresh /\ session # NoSession /\ group.session # NoSession => shown.session = session

\* A publisher that goes on in one session, and has its lines read, is shown again,
\* though its numbers wrap or it starts from zero, when acceptSequence gives way after 5 s.
Publishing == \E kind \in Kinds : Publish(kind, TRUE)
Reading == \E line \in wire : Receive(line, FALSE)
SourceShown ==
  (/\ []<><<Publishing>>_groupVars /\ []<><<Reading>>_groupVars
   /\ <>[][~RosOffline /\ session' = session]_groupVars)
    => []<>(group.any /\ group.age <= GroupTicks)
=============================================================================
