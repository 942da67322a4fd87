------------------------------ MODULE LinkProofs ------------------------------
(***************************************************************************)
(* What holds of a telemetry group (TelemetryGroup) and of the ROS link    *)
(* with its configuration transactions (RosLink) for all values of their   *)
(* constants.  The two share no variable: each has an invariant and a      *)
(* theorem of its own specification.                                       *)
(***************************************************************************)
EXTENDS TelemetryGroup, RosLink, TLAPS

-----------------------------------------------------------------------------
(* The telemetry group: the inductive invariant.                           *)

Seqs == 0..(SeqMod - 1)

Stamps == [any : BOOLEAN, session : Tokens \cup {NoSession}, seq : Seqs, kind : Kinds,
           age : 0..(ResyncTicks + 1), fresh : BOOLEAN]
Samples == [session : Tokens \cup {NoSession}, age : 0..OldestSample]
Lines == [v3 : BOOLEAN, session : Tokens, seq : Seqs, kind : Kinds, age : 0..Transit]

\* The types; a group that took no line is as at first.
GroupShapes ==
  /\ session \in Tokens \cup {NoSession} /\ due \in BOOLEAN
  /\ group \in Stamps /\ shown \in Samples /\ wire \subseteq Lines
  /\ ~group.any => group = NoStamp /\ shown = NothingShown

\* The line a group was last taken from is of the session in force, if there is one;
\* a fresh group shows that line.
StampOfSession ==
  /\ session # NoSession /\ group.session # NoSession => group.session = session
  /\ group.fresh => group.any /\ group.kind = "good"
  /\ group.any /\ group.session # NoSession /\ group.kind # "invalid"
       => shown.session = group.session

\* At most one line a tick: the numbers of the lines under way, counted from the next
\* one, are the last ones, and of two lines the one with the larger number is younger.
NumberedByAge ==
  /\ \A line \in wire : SeqMod - line.seq <= line.age + (IF due THEN 0 ELSE 1)
  /\ \A l1, l2 \in wire : l1.seq > l2.seq => l1.age <= l2.age

\* A line that the gateway would take for a newer one is not older than what is shown.
NewerIsYounger ==
  shown.session # NoSession =>
    \A line \in wire : Newer(line.seq, group.seq) => line.age <= shown.age

\* What is shown is as old as its line at least.  A legacy line follows a v3 one only
\* after the 5 s: what it leaves shown is older than any line under way.
ShownIsOlder ==
  /\ group.age <= shown.age
  /\ group.any /\ group.session = NoSession /\ shown.session # NoSession
       => ResyncTicks < shown.age

GroupInv ==
  GroupShapes /\ StampOfSession /\ NumberedByAge /\ NewerIsYounger /\ ShownIsOlder

-----------------------------------------------------------------------------
(* Numbers modulo SeqMod.                                                  *)

LEMMA GroupConstants ==
  /\ SeqMod \in Nat /\ GroupTicks \in Nat /\ ResyncTicks \in Nat /\ Transit \in Nat
  /\ Transit <= ResyncTicks /\ 1 <= ResyncTicks /\ SeqMod \div 2 \in Nat
  /\ 2 * (SeqMod \div 2) <= SeqMod /\ ResyncTicks + Transit + 1 < SeqMod \div 2
  /\ Tokens \subseteq Nat \ {0} /\ OldestSample \in Nat /\ OldestSample = ResyncTicks + Transit + 1
<1>1. /\ SeqMod \in Nat /\ GroupTicks \in Nat /\ ResyncTicks \in Nat \ {0} /\ Transit \in Nat
      /\ Transit <= ResyncTicks /\ ResyncTicks + Transit + 1 < SeqMod \div 2
      /\ Tokens \subseteq Nat \ {0}
  BY GroupAssumption
<1>2. SeqMod \div 2 \in Nat /\ 2 * (SeqMod \div 2) <= SeqMod
  BY <1>1
<1> QED
  BY <1>1, <1>2 DEF OldestSample

\* What % does to a difference of two numbers.
LEMMA Wrapped ==
  ASSUME NEW d \in Int, -SeqMod <= d, d < SeqMod
  PROVE  d % SeqMod = IF d >= 0 THEN d ELSE d + SeqMod
<1>1. SeqMod \in Nat /\ SeqMod > 0
  BY GroupConstants
<1> QED
  BY <1>1

LEMMA NewerMeans ==
  ASSUME NEW s \in Seqs, NEW g \in Seqs
  PROVE  Newer(s, g) <=> \/ s > g /\ s - g < SeqMod \div 2
                         \/ s < g /\ s - g + SeqMod < SeqMod \div 2
<1>1. SeqMod \in Nat /\ SeqMod \div 2 \in Nat /\ 2 * (SeqMod \div 2) <= SeqMod
  BY GroupConstants
<1>2. s \in Int /\ g \in Int /\ 0 <= s /\ s < SeqMod /\ 0 <= g /\ g < SeqMod
  BY <1>1 DEF Seqs
<1>3. (s - g) % SeqMod = IF s - g >= 0 THEN s - g ELSE s - g + SeqMod
  BY <1>1, <1>2, Wrapped
<1> HIDE DEF Newer
<1>4. Newer(s, g) <=> (s - g) % SeqMod \in 1..((SeqMod \div 2) - 1)
  BY DEF Newer
<1> QED
  BY <1>1, <1>2, <1>3, <1>4

LEMMA OneLess ==
  ASSUME NEW s \in Seqs
  PROVE  /\ (s - 1) % SeqMod \in Seqs
         /\ s > 0 => (s - 1) % SeqMod = s - 1
         /\ s = 0 => (s - 1) % SeqMod = SeqMod - 1
<1>1. SeqMod \in Nat /\ SeqMod > 0 /\ s \in Int /\ 0 <= s /\ s < SeqMod
  BY GroupConstants DEF Seqs
<1>2. (s - 1) % SeqMod = IF s - 1 >= 0 THEN s - 1 ELSE s - 1 + SeqMod
  BY <1>1, Wrapped
<1> QED
  BY <1>1, <1>2 DEF Seqs

\* A new number leaves the order of the earlier ones as it is.
LEMMA OrderShifts ==
  ASSUME NEW s \in Seqs, NEW g \in Seqs
  PROVE  Newer((s - 1) % SeqMod, (g - 1) % SeqMod) <=> Newer(s, g)
<1>1. SeqMod \in Nat /\ SeqMod \div 2 \in Nat /\ 2 * (SeqMod \div 2) <= SeqMod /\ 1 < SeqMod \div 2
  BY GroupConstants
<1> DEFINE s1 == (s - 1) % SeqMod
           g1 == (g - 1) % SeqMod
<1>2. /\ s1 \in Seqs /\ (s > 0 => s1 = s - 1) /\ (s = 0 => s1 = SeqMod - 1)
      /\ g1 \in Seqs /\ (g > 0 => g1 = g - 1) /\ (g = 0 => g1 = SeqMod - 1)
  BY OneLess
<1>3. Newer(s1, g1) <=> \/ s1 > g1 /\ s1 - g1 < SeqMod \div 2
                        \/ s1 < g1 /\ s1 - g1 + SeqMod < SeqMod \div 2
  BY <1>2, NewerMeans
<1>4. Newer(s, g) <=> \/ s > g /\ s - g < SeqMod \div 2
                      \/ s < g /\ s - g + SeqMod < SeqMod \div 2
  BY NewerMeans
<1>5. s \in Int /\ g \in Int /\ 0 <= s /\ s < SeqMod /\ 0 <= g /\ g < SeqMod
  BY <1>1 DEF Seqs
<1> HIDE DEF s1, g1
<1> QED
  BY <1>1, <1>2, <1>3, <1>4, <1>5 DEF s1, g1

-----------------------------------------------------------------------------
(* What the actions do to the stamp, the sample and the lines.             *)

LEMMA NothingIs ==
  /\ NoStamp \in Stamps /\ ~NoStamp.any /\ ~NoStamp.fresh
  /\ NoStamp.session = NoSession /\ NoStamp.age = 0
  /\ NothingShown \in Samples /\ NothingShown.session = NoSession
  /\ NothingShown.age = OldestSample
<1>1. SeqMod \in Nat /\ SeqMod > 0 /\ ResyncTicks \in Nat /\ OldestSample \in Nat
  BY GroupConstants
<1>2. NoStamp \in Stamps
  BY <1>1 DEF NoStamp, Stamps, NoSession, Seqs, Kinds
<1>3. NothingShown \in Samples
  BY <1>1 DEF NothingShown, Samples, NoSession
<1> QED
  BY <1>2, <1>3 DEF NoStamp, NothingShown

LEMMA EarlierLine ==
  ASSUME NEW l \in Lines
  PROVE  /\ OneEarlier(l) \in Lines /\ OneEarlier(l).seq = (l.seq - 1) % SeqMod
         /\ OneEarlier(l).age = l.age
<1>1. l.seq \in Seqs
  BY DEF Lines
<1>2. (l.seq - 1) % SeqMod \in Seqs
  BY <1>1, OneLess
<1>3. OneEarlier(l) = [l EXCEPT !.seq = (l.seq - 1) % SeqMod]
  BY DEF OneEarlier
<1> QED
  BY <1>2, <1>3 DEF Lines

LEMMA EarlierStamp ==
  ASSUME NEW g \in Stamps
  PROVE  /\ OneEarlier(g) \in Stamps /\ OneEarlier(g).seq = (g.seq - 1) % SeqMod
         /\ OneEarlier(g).any = g.any /\ OneEarlier(g).session = g.session
         /\ OneEarlier(g).kind = g.kind /\ OneEarlier(g).age = g.age /\ OneEarlier(g).fresh = g.fresh
<1>1. g.seq \in Seqs
  BY DEF Stamps
<1>2. (g.seq - 1) % SeqMod \in Seqs
  BY <1>1, OneLess
<1>3. OneEarlier(g) = [g EXCEPT !.seq = (g.seq - 1) % SeqMod]
  BY DEF OneEarlier
<1> QED
  BY <1>2, <1>3 DEF Stamps

\* A line published is the youngest; the others are one number further behind.
LEMMA Published ==
  ASSUME GroupInv, NEW kind \in Kinds, NEW v3 \in BOOLEAN, Publish(kind, v3)
  PROVE  /\ due /\ due' = FALSE /\ session # NoSession
         /\ session' = session /\ shown' = shown
         /\ group' = IF group.any THEN OneEarlier(group) ELSE group
         /\ \A m \in wire' : \/ \E l \in wire : m = OneEarlier(l)
                             \/ m \in Lines /\ m.seq = SeqMod - 1 /\ m.age = 0
<1> DEFINE line == [v3 |-> v3, session |-> session, seq |-> 0, kind |-> kind, age |-> 0]
<1>1. /\ due /\ due' = FALSE /\ session # NoSession
      /\ session' = session /\ shown' = shown
      /\ group' = IF group.any THEN OneEarlier(group) ELSE group
      /\ wire' = {OneEarlier(l) : l \in wire \cup {line}}
  BY DEF Publish
<1>2. line \in Lines
  <2>1. session \in Tokens
    BY <1>1 DEF GroupInv, GroupShapes
  <2>2. 0 \in Seqs /\ 0 \in 0..Transit
    BY GroupConstants DEF Seqs
  <2> QED
    BY <2>1, <2>2 DEF Lines
<1>3. 0 \in Seqs
  BY GroupConstants DEF Seqs
<1>4. OneEarlier(line) \in Lines /\ OneEarlier(line).seq = SeqMod - 1 /\ OneEarlier(line).age = 0
  <2>1. line.seq = 0 /\ line.age = 0
    OBVIOUS
  <2> HIDE DEF line
  <2> QED
    BY <1>2, <1>3, <2>1, EarlierLine, OneLess
<1> HIDE DEF line
<1> QED
  BY <1>1, <1>4

\* A line received is taken into the stamp, or nothing changes but the lines under way.
Taken(line) ==
  /\ session # NoSession /\ (line.v3 => line.session = session)
  /\ AcceptSequence(group, line)
  /\ group'.any /\ group'.session = (IF line.v3 THEN line.session ELSE NoSession)
  /\ group'.seq = line.seq /\ group'.kind = line.kind /\ group'.age = 0
  /\ (group'.fresh <=> line.kind = "good")
  /\ line.kind # "invalid" => shown'.session = group'.session /\ shown'.age = line.age
  /\ line.kind = "invalid" => shown' = shown

LEMMA Received ==
  ASSUME GroupInv, NEW line \in wire, NEW again \in BOOLEAN, Receive(line, again)
  PROVE  /\ line \in Lines /\ wire' \subseteq wire /\ session' = session /\ due' = due
         /\ group' \in Stamps /\ shown' \in Samples
         /\ Taken(line) \/ (group' = group /\ shown' = shown)
<1>1. /\ Accept(line) /\ wire' = (IF again THEN wire ELSE wire \ {line})
      /\ session' = session /\ due' = due
  BY DEF Receive
<1>2. line \in Lines /\ group \in Stamps /\ shown \in Samples
  BY DEF GroupInv, GroupShapes
<1>3. /\ line.session \in Tokens /\ line.seq \in Seqs /\ line.kind \in Kinds
      /\ line.age \in 0..Transit /\ line.v3 \in BOOLEAN
  BY <1>2 DEF Lines
<1>4. Stamped(line) \in Stamps
  <2>1. 0 \in 0..(ResyncTicks + 1)
    BY GroupConstants
  <2>2. (line.kind = "good") \in BOOLEAN
    OBVIOUS
  <2> QED
    BY <1>3, <2>1, <2>2 DEF Stamped, Stamps
<1>5. line.age \in 0..OldestSample
  BY <1>3, GroupConstants
<1>6. [session |-> Stamped(line).session, age |-> line.age] \in Samples
  <2>1. Stamped(line).session \in Tokens \cup {NoSession}
    BY <1>4 DEF Stamps
  <2> QED
    BY <1>5, <2>1 DEF Samples
<1>7. CASE session # NoSession /\ OfSession(line) /\ AcceptSequence(group, line)
  <2>1. /\ group' = Stamped(line)
        /\ shown' = IF line.kind # "invalid"
                    THEN [session |-> Stamped(line).session, age |-> line.age] ELSE shown
    BY <1>1, <1>7 DEF Accept
  <2>2. group' \in Stamps /\ shown' \in Samples
    BY <1>2, <1>4, <1>6, <2>1
  <2>3. /\ group'.any = TRUE /\ group'.session = (IF line.v3 THEN line.session ELSE NoSession)
        /\ group'.seq = line.seq /\ group'.kind = line.kind /\ group'.age = 0
        /\ group'.fresh = (line.kind = "good")
    BY <2>1 DEF Stamped
  <2>4. /\ line.kind # "invalid" => shown'.session = group'.session /\ shown'.age = line.age
        /\ line.kind = "invalid" => shown' = shown
    BY <2>1
  <2>5. line.v3 => line.session = session
    BY <1>7 DEF OfSession
  <2>6. Taken(line)
    BY <1>7, <2>3, <2>4, <2>5 DEF Taken
  <2> QED
    BY <1>1, <1>2, <2>2, <2>6
<1>8. CASE ~(session # NoSession /\ OfSession(line) /\ AcceptSequence(group, line))
  <2>1. group' = group /\ shown' = shown
    BY <1>1, <1>8 DEF Accept
  <2> QED
    BY <1>1, <1>2, <2>1
<1> QED
  BY <1>7, <1>8

\* At the end of a pass everything is a tick older.
LEMMA PassAges ==
  ASSUME GroupInv, GroupPassEnds
  PROVE  /\ session' = session /\ due' = TRUE /\ group' \in Stamps /\ shown' \in Samples
         /\ group'.any = group.any /\ group'.session = group.session /\ group'.seq = group.seq
         /\ group'.kind = group.kind
         /\ group'.fresh => group.any /\ group.kind = "good"
         /\ group'.age <= group.age + 1 /\ group'.age <= ResyncTicks + 1
         /\ shown'.session = shown.session
         /\ shown'.age = IF shown.age < OldestSample THEN shown.age + 1 ELSE OldestSample
         /\ \A m \in wire' : \E l \in wire : m \in Lines /\ m.seq = l.seq /\ m.age = l.age + 1
         /\ ~group.any => group'.age = 0
<1> DEFINE aged == [group EXCEPT !.age = IF group.any THEN Older(group.age, ResyncTicks + 1) ELSE 0]
<1>1. /\ group' = [aged EXCEPT !.fresh = GroupFresh(aged)]
      /\ shown' = [shown EXCEPT !.age = Older(shown.age, OldestSample)]
      /\ wire' = {[line EXCEPT !.age = line.age + 1] : line \in {l \in wire : l.age < Transit}}
      /\ due' = TRUE /\ session' = session
  BY DEF GroupPassEnds
<1>2. group \in Stamps /\ shown \in Samples /\ wire \subseteq Lines
  BY DEF GroupInv, GroupShapes
<1>3. group.age \in 0..(ResyncTicks + 1) /\ shown.age \in 0..OldestSample
  BY <1>2 DEF Stamps, Samples
<1> DEFINE older == IF group.any THEN Older(group.age, ResyncTicks + 1) ELSE 0
<1>4. older \in 0..(ResyncTicks + 1) /\ older <= group.age + 1 /\ (~group.any => older = 0)
  BY <1>3, GroupConstants DEF Older
<1>5. /\ aged \in Stamps /\ aged.any = group.any /\ aged.session = group.session
      /\ aged.seq = group.seq /\ aged.kind = group.kind /\ aged.age = older
  <2> HIDE DEF older
  <2>1. aged = [group EXCEPT !.age = older]
    BY DEF older
  <2> QED
    BY <1>2, <1>4, <2>1 DEF Stamps
<1> HIDE DEF aged
<1>6. /\ group' \in Stamps /\ group'.any = aged.any /\ group'.session = aged.session
      /\ group'.seq = aged.seq /\ group'.kind = aged.kind /\ group'.age = aged.age
      /\ group'.fresh = GroupFresh(aged)
  <2>1. GroupFresh(aged) \in BOOLEAN
    <3>1. aged.any \in BOOLEAN
      BY <1>5 DEF Stamps
    <3> QED
      BY <3>1 DEF GroupFresh
  <2> HIDE DEF GroupFresh
  <2> QED
    BY <1>1, <1>5, <2>1 DEF Stamps
<1>7. group'.fresh => group.any /\ group.kind = "good"
  BY <1>5, <1>6 DEF GroupFresh
<1>8. /\ shown' \in Samples /\ shown'.session = shown.session
      /\ shown'.age = IF shown.age < OldestSample THEN shown.age + 1 ELSE OldestSample
  <2>1. Older(shown.age, OldestSample) \in 0..OldestSample
    BY <1>3, GroupConstants DEF Older
  <2>2. /\ shown' \in Samples /\ shown'.session = shown.session
        /\ shown'.age = Older(shown.age, OldestSample)
    BY <1>1, <1>2, <2>1 DEF Samples
  <2> QED
    BY <2>2 DEF Older
<1>9. ASSUME NEW m \in wire'
      PROVE  \E l \in wire : m \in Lines /\ m.seq = l.seq /\ m.age = l.age + 1
  <2>1. PICK l \in wire : l.age < Transit /\ m = [l EXCEPT !.age = l.age + 1]
    BY <1>1
  <2>2. l \in Lines /\ l.age \in 0..Transit
    BY <1>2 DEF Lines
  <2>3. l.age + 1 \in 0..Transit
    BY <2>1, <2>2, GroupConstants
  <2> QED
    BY <2>1, <2>2, <2>3 DEF Lines
<1> HIDE DEF older
<1>10. group'.age <= group.age + 1 /\ group'.age <= ResyncTicks + 1 /\ (~group.any => group'.age = 0)
  BY <1>3, <1>4, <1>5, <1>6, GroupConstants
<1> QED
  BY <1>1, <1>5, <1>6, <1>7, <1>8, <1>9, <1>10

\* What is revoked, and what a disconnection may leave.
LEMMA SessionEnds ==
  ASSUME GroupInv,
         \/ \E token \in Tokens, acked \in BOOLEAN : GroupHello(token, acked)
         \/ \E connected \in BOOLEAN : GroupDisconnect(connected)
         \/ RosOffline
  PROVE  /\ session' \in Tokens \cup {NoSession} /\ due' = due /\ wire' = wire
         /\ GroupRevoked \/ (session' = NoSession /\ group' = group /\ shown' = shown)
<1>1. session \in Tokens \cup {NoSession}
  BY DEF GroupInv, GroupShapes
<1> QED
  BY <1>1 DEF GroupHello, GroupDisconnect, RosOffline

LEMMA SourceCountsAnew ==
  ASSUME GroupInv, SourceRestarts
  PROVE  /\ wire = {} /\ wire' = {} /\ group' \in Stamps
         /\ session' = session /\ due' = due /\ shown' = shown
         /\ group'.any = group.any /\ group'.session = group.session /\ group'.kind = group.kind
         /\ group'.age = group.age /\ group'.fresh = group.fresh /\ group.any
<1>1. /\ wire = {} /\ wire' = wire /\ session' = session /\ due' = due /\ shown' = shown /\ group.any
      /\ \E n \in Seqs : group' = [group EXCEPT !.seq = n]
  BY DEF SourceRestarts, Seqs
<1>2. PICK n \in Seqs : group' = [group EXCEPT !.seq = n]
  BY <1>1
<1>3. group \in Stamps
  BY DEF GroupInv, GroupShapes
<1> QED
  BY <1>1, <1>2, <1>3 DEF Stamps

-----------------------------------------------------------------------------
(* The invariant holds.                                                    *)

Over == \/ \E token \in Tokens, acked \in BOOLEAN : GroupHello(token, acked)
        \/ \E connected \in BOOLEAN : GroupDisconnect(connected)
        \/ RosOffline

LEMMA GroupActions ==
  ASSUME GroupNext
  PROVE  \/ Over \/ SourceRestarts \/ GroupPassEnds
         \/ \E kind \in Kinds, v3 \in BOOLEAN : Publish(kind, v3)
         \/ \E line \in wire, again \in BOOLEAN : Receive(line, again)
BY DEF GroupNext, Over

LEMMA GroupStarts == GroupInit => GroupInv
<1> SUFFICES ASSUME GroupInit PROVE GroupInv
  OBVIOUS
<1>1. /\ session = NoSession /\ group = NoStamp /\ due = TRUE
      /\ wire = {} /\ shown = NothingShown
  BY DEF GroupInit
<1>2. GroupShapes
  BY <1>1, NothingIs DEF GroupShapes
<1>3. StampOfSession
  BY <1>1, NothingIs DEF StampOfSession
<1>4. NumberedByAge /\ NewerIsYounger
  BY <1>1, NothingIs DEF NumberedByAge, NewerIsYounger
<1>5. ShownIsOlder
  BY <1>1, NothingIs, GroupConstants DEF ShownIsOlder
<1> QED
  BY <1>2, <1>3, <1>4, <1>5 DEF GroupInv

LEMMA GroupShapesStep ==
  ASSUME GroupInv, GroupNext
  PROVE  GroupShapes'
<1>0. /\ session \in Tokens \cup {NoSession} /\ due \in BOOLEAN
      /\ group \in Stamps /\ shown \in Samples /\ wire \subseteq Lines
      /\ ~group.any => group = NoStamp /\ shown = NothingShown
  BY DEF GroupInv, GroupShapes
<1>1. CASE Over
  <2>1. /\ session' \in Tokens \cup {NoSession} /\ due' = due /\ wire' = wire
        /\ GroupRevoked \/ (session' = NoSession /\ group' = group /\ shown' = shown)
    BY <1>1, SessionEnds DEF Over
  <2> QED
    BY <1>0, <2>1, NothingIs DEF GroupShapes, GroupRevoked
<1>2. CASE SourceRestarts
  BY <1>0, <1>2, SourceCountsAnew DEF GroupShapes
<1>3. CASE GroupPassEnds
  <2>1. group' \in Stamps /\ shown' \in Samples /\ session' = session /\ due' = TRUE
        /\ wire' \subseteq Lines
    BY <1>3, PassAges
  <2>2. ASSUME ~group'.any PROVE group' = NoStamp /\ shown' = NothingShown
    <3>1. ~group.any /\ group = NoStamp /\ shown = NothingShown
      BY <1>0, <1>3, <2>2, PassAges
    <3>2. /\ group' \in Stamps /\ group'.any = FALSE /\ group'.session = NoSession
          /\ group'.seq = group.seq /\ group'.kind = group.kind /\ ~group'.fresh /\ group'.age = 0
      BY <1>3, <3>1, PassAges, NothingIs
    <3>3. group' = NoStamp
      <4>1. group'.fresh = FALSE
        BY <3>2 DEF Stamps
      <4> QED
        BY <3>1, <3>2, <4>1 DEF NoStamp, Stamps
    <3>4. shown' = NothingShown
      <4>1. shown'.session = NoSession /\ shown'.age = OldestSample /\ shown' \in Samples
        BY <1>3, <3>1, PassAges, NothingIs, GroupConstants
      <4> QED
        BY <4>1 DEF NothingShown, Samples
    <3> QED
      BY <3>3, <3>4
  <2> QED
    BY <1>0, <2>1, <2>2 DEF GroupShapes
<1>4. ASSUME NEW kind \in Kinds, NEW v3 \in BOOLEAN, Publish(kind, v3) PROVE GroupShapes'
  <2>1. /\ due' = FALSE /\ session' = session /\ shown' = shown
        /\ group' = IF group.any THEN OneEarlier(group) ELSE group
        /\ \A m \in wire' : \/ \E l \in wire : m = OneEarlier(l)
                            \/ m \in Lines /\ m.seq = SeqMod - 1 /\ m.age = 0
    BY <1>4, Published
  <2>2. wire' \subseteq Lines
    BY <1>0, <2>1, EarlierLine
  <2>3. group' \in Stamps /\ (~group'.any => group' = NoStamp /\ shown' = NothingShown)
    BY <1>0, <2>1, EarlierStamp
  <2> QED
    BY <1>0, <2>1, <2>2, <2>3 DEF GroupShapes
<1>5. ASSUME NEW line \in wire, NEW again \in BOOLEAN, Receive(line, again) PROVE GroupShapes'
  <2>1. /\ wire' \subseteq wire /\ session' = session /\ due' = due
        /\ group' \in Stamps /\ shown' \in Samples
        /\ Taken(line) \/ (group' = group /\ shown' = shown)
    BY <1>5, Received
  <2>2. ~group'.any => group' = NoStamp /\ shown' = NothingShown
    BY <1>0, <2>1 DEF Taken
  <2> QED
    BY <1>0, <2>1, <2>2 DEF GroupShapes
<1> QED
  BY <1>1, <1>2, <1>3, <1>4, <1>5, GroupActions

LEMMA StampOfSessionStep ==
  ASSUME GroupInv, GroupNext
  PROVE  StampOfSession'
<1>0. /\ session # NoSession /\ group.session # NoSession => group.session = session
      /\ group.fresh => group.any /\ group.kind = "good"
      /\ group.any /\ group.session # NoSession /\ group.kind # "invalid"
           => shown.session = group.session
  BY DEF GroupInv, StampOfSession
<1>1. CASE Over
  <2>1. GroupRevoked \/ (session' = NoSession /\ group' = group /\ shown' = shown)
    BY <1>1, SessionEnds DEF Over
  <2>2. CASE GroupRevoked
    BY <2>2, NothingIs DEF StampOfSession, GroupRevoked
  <2>3. CASE session' = NoSession /\ group' = group /\ shown' = shown
    BY <1>0, <2>3 DEF StampOfSession
  <2> QED
    BY <2>1, <2>2, <2>3
<1>2. CASE SourceRestarts
  BY <1>0, <1>2, SourceCountsAnew DEF StampOfSession
<1>3. CASE GroupPassEnds
  <2>1. /\ session' = session /\ group'.any = group.any /\ group'.session = group.session
        /\ group'.kind = group.kind /\ shown'.session = shown.session
        /\ group'.fresh => group.any /\ group.kind = "good"
    BY <1>3, PassAges
  <2> QED
    BY <1>0, <2>1 DEF StampOfSession
<1>4. ASSUME NEW kind \in Kinds, NEW v3 \in BOOLEAN, Publish(kind, v3) PROVE StampOfSession'
  <2>1. /\ session' = session /\ shown' = shown
        /\ group' = IF group.any THEN OneEarlier(group) ELSE group
    BY <1>4, Published
  <2>2. group \in Stamps
    BY DEF GroupInv, GroupShapes
  <2>3. /\ group'.any = group.any /\ group'.session = group.session
        /\ group'.kind = group.kind /\ group'.fresh = group.fresh
    BY <2>1, <2>2, EarlierStamp
  <2> QED
    BY <1>0, <2>1, <2>3 DEF StampOfSession
<1>5. ASSUME NEW line \in wire, NEW again \in BOOLEAN, Receive(line, again) PROVE StampOfSession'
  <2>1. session' = session /\ (Taken(line) \/ (group' = group /\ shown' = shown))
    BY <1>5, Received
  <2>2. CASE Taken(line)
    BY <2>1, <2>2 DEF Taken, StampOfSession
  <2>3. CASE group' = group /\ shown' = shown
    BY <1>0, <2>1, <2>3 DEF StampOfSession
  <2> QED
    BY <2>1, <2>2, <2>3
<1> QED
  BY <1>1, <1>2, <1>3, <1>4, <1>5, GroupActions

LEMMA NumberedByAgeStep ==
  ASSUME GroupInv, GroupNext
  PROVE  NumberedByAge'
<1> DEFINE Behind(w, d) == \A line \in w : SeqMod - line.seq <= line.age + (IF d THEN 0 ELSE 1)
           Ordered(w) == \A l1, l2 \in w : l1.seq > l2.seq => l1.age <= l2.age
<1>0. Behind(wire, due) /\ Ordered(wire)
  BY DEF GroupInv, NumberedByAge
<1>a. /\ due \in BOOLEAN
      /\ \A l \in wire : l \in Lines /\ l.seq \in Seqs /\ l.seq \in Int /\ l.age \in Int /\ l.age >= 0 /\ l.age <= Transit
  <2>1. SeqMod \in Nat /\ Transit \in Nat
    BY GroupConstants
  <2> QED
    BY <2>1 DEF GroupInv, GroupShapes, Lines, Seqs
<1>b. SUFFICES Behind(wire', due') /\ Ordered(wire')
  BY DEF NumberedByAge
<1>1. CASE Over
  BY <1>0, <1>1, SessionEnds DEF Over
<1>2. CASE SourceRestarts
  BY <1>2, SourceCountsAnew
<1>3. CASE GroupPassEnds
  <2>1. due' = TRUE /\ \A m \in wire' : \E l \in wire : m.seq = l.seq /\ m.age = l.age + 1
    BY <1>3, PassAges
  <2>2. ASSUME NEW m \in wire' PROVE SeqMod - m.seq <= m.age
    <3>1. PICK l \in wire : m.seq = l.seq /\ m.age = l.age + 1
      BY <2>1
    <3>2. SeqMod - l.seq <= l.age + (IF due THEN 0 ELSE 1)
      BY <1>0
    <3>3. SeqMod - l.seq <= l.age + 1
      BY <3>2, <1>a, GroupConstants
    <3> QED
      BY <3>1, <3>3
  <2>3. ASSUME NEW m1 \in wire', NEW m2 \in wire', m1.seq > m2.seq PROVE m1.age <= m2.age
    <3>1. PICK l1 \in wire : m1.seq = l1.seq /\ m1.age = l1.age + 1
      BY <2>1
    <3>2. PICK l2 \in wire : m2.seq = l2.seq /\ m2.age = l2.age + 1
      BY <2>1
    <3>3. l1.age <= l2.age
      BY <1>0, <2>3, <3>1, <3>2
    <3> QED
      BY <1>a, <3>1, <3>2, <3>3
  <2>4. \A m \in wire' : m.age + 0 = m.age
    BY <1>a, <2>1
  <2> QED
    BY <2>1, <2>2, <2>3, <2>4
<1>4. ASSUME NEW kind \in Kinds, NEW v3 \in BOOLEAN, Publish(kind, v3)
      PROVE  Behind(wire', due') /\ Ordered(wire')
  <2>1. /\ due /\ due' = FALSE
        /\ \A m \in wire' : \/ \E l \in wire : m = OneEarlier(l)
                            \/ m \in Lines /\ m.seq = SeqMod - 1 /\ m.age = 0
    BY <1>4, Published
  <2>2. SeqMod \in Nat /\ Transit \in Nat /\ Transit + 1 < SeqMod
    BY GroupConstants
  <2>3. ASSUME NEW l \in wire
        PROVE  /\ OneEarlier(l).seq = l.seq - 1 /\ OneEarlier(l).age = l.age
               /\ SeqMod - l.seq <= l.age
    <3>1. l \in Lines /\ l.seq \in Seqs /\ l.seq \in Int /\ l.age \in Int /\ l.age <= Transit
      BY <1>a
    <3>2. SeqMod - l.seq <= l.age + 0
      BY <1>0, <2>1
    <3>3. l.seq > 0 /\ SeqMod - l.seq <= l.age
      BY <2>2, <3>1, <3>2
    <3> QED
      BY <3>1, <3>3, EarlierLine, OneLess
  <2>4. \A m \in wire' : \/ \E l \in wire : m.seq = l.seq - 1 /\ m.age = l.age /\ SeqMod - l.seq <= l.age
                         \/ m.seq = SeqMod - 1 /\ m.age = 0
    BY <2>1, <2>3
  <2>5. ASSUME NEW m \in wire' PROVE SeqMod - m.seq <= m.age + 1
    BY <1>a, <2>2, <2>4
  <2>6. ASSUME NEW m1 \in wire', NEW m2 \in wire', m1.seq > m2.seq PROVE m1.age <= m2.age
    <3>1. CASE m1.seq = SeqMod - 1 /\ m1.age = 0
      BY <1>a, <2>4, <3>1
    <3>2. ASSUME NEW l1 \in wire, m1.seq = l1.seq - 1, m1.age = l1.age PROVE m1.age <= m2.age
      <4>1. l1.seq <= SeqMod - 1 /\ l1.seq \in Int
        BY <1>a, <2>2 DEF Seqs
      <4>2. m2.seq # SeqMod - 1
        BY <2>2, <2>6, <3>2, <4>1
      <4>3. PICK l2 \in wire : m2.seq = l2.seq - 1 /\ m2.age = l2.age
        BY <2>4, <4>2
      <4>4. l1.seq > l2.seq
        BY <1>a, <2>6, <3>2, <4>3
      <4> QED
        BY <1>0, <3>2, <4>3, <4>4
    <3> QED
      BY <2>4, <3>1, <3>2
  <2> QED
    BY <2>1, <2>5, <2>6
<1>5. ASSUME NEW line \in wire, NEW again \in BOOLEAN, Receive(line, again)
      PROVE  Behind(wire', due') /\ Ordered(wire')
  <2>1. wire' \subseteq wire /\ due' = due
    BY <1>5, Received
  <2> QED
    BY <1>0, <2>1
<1> QED
  BY <1>1, <1>2, <1>3, <1>4, <1>5, GroupActions

LEMMA ShownIsOlderStep ==
  ASSUME GroupInv, GroupNext
  PROVE  ShownIsOlder'
<1>0. /\ group.age <= shown.age
      /\ group.any /\ group.session = NoSession /\ shown.session # NoSession
           => ResyncTicks < shown.age
  BY DEF GroupInv, ShownIsOlder
<1>a. /\ group \in Stamps /\ group.age \in 0..(ResyncTicks + 1)
      /\ shown \in Samples /\ shown.age \in 0..OldestSample
      /\ group.session \in Tokens \cup {NoSession}
      /\ ~group.any => shown = NothingShown
  BY DEF GroupInv, GroupShapes, Stamps, Samples
<1>b. /\ ResyncTicks \in Nat /\ OldestSample \in Nat /\ ResyncTicks + 1 < OldestSample + 1
      /\ ResyncTicks < OldestSample
  BY GroupConstants DEF OldestSample
<1>1. CASE Over
  <2>1. GroupRevoked \/ (session' = NoSession /\ group' = group /\ shown' = shown)
    BY <1>1, SessionEnds DEF Over
  <2>2. CASE GroupRevoked
    BY <1>b, <2>2, NothingIs DEF ShownIsOlder, GroupRevoked
  <2>3. CASE session' = NoSession /\ group' = group /\ shown' = shown
    BY <1>0, <2>3 DEF ShownIsOlder
  <2> QED
    BY <2>1, <2>2, <2>3
<1>2. CASE SourceRestarts
  BY <1>0, <1>2, SourceCountsAnew DEF ShownIsOlder
<1>3. CASE GroupPassEnds
  <2>1. /\ group'.any = group.any /\ group'.session = group.session
        /\ group'.age <= group.age + 1 /\ group'.age <= ResyncTicks + 1
        /\ shown'.session = shown.session
        /\ shown'.age = IF shown.age < OldestSample THEN shown.age + 1 ELSE OldestSample
        /\ group' \in Stamps
    BY <1>3, PassAges
  <2>2. group'.age \in Int
    BY <1>b, <2>1 DEF Stamps
  <2>3. group'.age <= shown'.age /\ shown.age <= shown'.age
    BY <1>0, <1>a, <1>b, <2>1, <2>2
  <2>4. ResyncTicks < shown.age => ResyncTicks < shown'.age
    BY <1>a, <1>b, <2>1
  <2> QED
    BY <1>0, <2>1, <2>3, <2>4 DEF ShownIsOlder
<1>4. ASSUME NEW kind \in Kinds, NEW v3 \in BOOLEAN, Publish(kind, v3) PROVE ShownIsOlder'
  <2>1. shown' = shown /\ group' = IF group.any THEN OneEarlier(group) ELSE group
    BY <1>4, Published
  <2>2. group'.any = group.any /\ group'.session = group.session /\ group'.age = group.age
    BY <1>a, <2>1, EarlierStamp
  <2> QED
    BY <1>0, <2>1, <2>2 DEF ShownIsOlder
<1>5. ASSUME NEW line \in wire, NEW again \in BOOLEAN, Receive(line, again) PROVE ShownIsOlder'
  <2>1. line \in Lines /\ (Taken(line) \/ (group' = group /\ shown' = shown))
    BY <1>5, Received
  <2>2. line.age \in 0..Transit /\ line.kind \in Kinds /\ line.session \in Tokens
    BY <2>1 DEF Lines
  <2>3. CASE Taken(line)
    <3>1. group'.age = 0 /\ group'.session = (IF line.v3 THEN line.session ELSE NoSession)
      BY <2>3 DEF Taken
    <3>2. CASE line.kind # "invalid"
      <4>1. shown'.session = group'.session /\ shown'.age = line.age
        BY <2>3, <3>2 DEF Taken
      <4> QED
        BY <2>2, <3>1, <4>1 DEF ShownIsOlder
    <3>3. CASE line.kind = "invalid"
      <4>1. shown' = shown
        BY <2>3, <3>3 DEF Taken
      <4>2. group'.age <= shown'.age
        BY <1>a, <1>b, <3>1, <4>1
      <4>3. ASSUME group'.session = NoSession, shown'.session # NoSession
            PROVE  ResyncTicks < shown'.age
        <5>1. NoSession \notin Tokens
          BY GroupConstants DEF NoSession
        <5>2. ~line.v3
          BY <2>2, <3>1, <4>3, <5>1
        <5>3. group.any
          BY <1>a, <4>1, <4>3, NothingIs
        <5>4. ~(group.session # NoSession /\ group.age <= ResyncTicks)
          BY <2>3, <5>2, <5>3 DEF Taken, AcceptSequence
        <5>5. CASE group.session = NoSession
          BY <1>0, <4>1, <4>3, <5>3, <5>5
        <5>6. CASE ~(group.age <= ResyncTicks)
          BY <1>0, <1>a, <1>b, <4>1, <5>6
        <5> QED
          BY <5>4, <5>5, <5>6
      <4> QED
        BY <4>2, <4>3 DEF ShownIsOlder
    <3> QED
      BY <3>2, <3>3
  <2>4. CASE group' = group /\ shown' = shown
    BY <1>0, <2>4 DEF ShownIsOlder
  <2> QED
    BY <2>1, <2>3, <2>4
<1> QED
  BY <1>1, <1>2, <1>3, <1>4, <1>5, GroupActions

\* Of a line that may be taken in the session of what is shown, while a v3 line was the
\* last, the number is newer; and a newer one is not older than what is shown.
LEMMA TakenInOrder ==
  ASSUME GroupInv, NEW line \in wire, Taken(line), shown.session # NoSession
  PROVE  line.age <= shown.age
<1>1. group.any /\ line \in Lines /\ group \in Stamps /\ shown \in Samples
  BY NothingIs DEF GroupInv, GroupShapes
<1>2. /\ ResyncTicks \in Nat /\ Transit \in Nat /\ Transit <= ResyncTicks /\ OldestSample \in Nat
      /\ line.age \in 0..Transit /\ shown.age \in 0..OldestSample /\ group.age \in 0..(ResyncTicks + 1)
  BY <1>1, GroupConstants DEF Lines, Samples, Stamps
<1>3. AcceptSequence(group, line) /\ session # NoSession /\ (line.v3 => line.session = session)
  BY DEF Taken
<1>4. CASE Newer(line.seq, group.seq)
  BY <1>4 DEF GroupInv, NewerIsYounger
<1>5. CASE group.age > ResyncTicks
  <2>1. group.age <= shown.age
    BY DEF GroupInv, ShownIsOlder
  <2> QED
    BY <1>2, <1>5, <2>1
<1>6. CASE line.v3 /\ group.session # line.session
  <2>1. group.session = NoSession
    BY <1>3, <1>6 DEF GroupInv, StampOfSession
  <2>2. ResyncTicks < shown.age
    BY <1>1, <2>1 DEF GroupInv, ShownIsOlder
  <2> QED
    BY <1>2, <2>2
<1> QED
  BY <1>1, <1>3, <1>4, <1>5, <1>6 DEF AcceptSequence

LEMMA NewerIsYoungerStep ==
  ASSUME GroupInv, GroupNext
  PROVE  NewerIsYounger'
<1> DEFINE Young(w, g, s) == s.session # NoSession =>
             \A line \in w : Newer(line.seq, g.seq) => line.age <= s.age
<1>0. Young(wire, group, shown)
  BY DEF GroupInv, NewerIsYounger
<1>a. /\ group \in Stamps /\ shown \in Samples /\ shown.age \in 0..OldestSample /\ group.seq \in Seqs
      /\ \A l \in wire : l \in Lines /\ l.seq \in Seqs /\ l.age \in 0..Transit
      /\ ~group.any => shown = NothingShown
  BY DEF GroupInv, GroupShapes, Stamps, Samples, Lines
<1>b. Transit \in Nat /\ OldestSample \in Nat /\ Transit < OldestSample
  BY GroupConstants DEF OldestSample
<1>c. SUFFICES Young(wire', group', shown')
  BY DEF NewerIsYounger
<1> HIDE DEF Newer
<1>1. CASE Over
  <2>1. wire' = wire /\ (GroupRevoked \/ (session' = NoSession /\ group' = group /\ shown' = shown))
    BY <1>1, SessionEnds DEF Over
  <2>2. CASE GroupRevoked
    BY <2>2, NothingIs DEF GroupRevoked
  <2> QED
    BY <1>0, <2>1, <2>2
<1>2. CASE SourceRestarts
  BY <1>2, SourceCountsAnew
<1>3. CASE GroupPassEnds
  <2>1. /\ group'.seq = group.seq /\ shown'.session = shown.session
        /\ shown'.age = IF shown.age < OldestSample THEN shown.age + 1 ELSE OldestSample
        /\ \A m \in wire' : \E l \in wire : m \in Lines /\ m.seq = l.seq /\ m.age = l.age + 1
    BY <1>3, PassAges
  <2>2. ASSUME shown'.session # NoSession, NEW m \in wire', Newer(m.seq, group'.seq)
        PROVE  m.age <= shown'.age
    <3>1. PICK l \in wire : m \in Lines /\ m.seq = l.seq /\ m.age = l.age + 1
      BY <2>1
    <3>2. l.age <= shown.age
      BY <1>0, <2>1, <2>2, <3>1
    <3>3. l.age \in 0..Transit /\ m.age \in 0..Transit
      BY <1>a, <3>1 DEF Lines
    <3> QED
      BY <1>a, <1>b, <2>1, <3>1, <3>2, <3>3
  <2> QED
    BY <2>2
<1>4. ASSUME NEW kind \in Kinds, NEW v3 \in BOOLEAN, Publish(kind, v3)
      PROVE  Young(wire', group', shown')
  <2>1. /\ shown' = shown /\ group' = IF group.any THEN OneEarlier(group) ELSE group
        /\ \A m \in wire' : \/ \E l \in wire : m = OneEarlier(l)
                            \/ m \in Lines /\ m.seq = SeqMod - 1 /\ m.age = 0
    BY <1>4, Published
  <2>2. ASSUME shown'.session # NoSession, NEW m \in wire', Newer(m.seq, group'.seq)
        PROVE  m.age <= shown'.age
    <3>1. group.any /\ group'.seq = (group.seq - 1) % SeqMod
      BY <1>a, <2>1, <2>2, NothingIs, EarlierStamp
    <3>2. CASE m.age = 0
      BY <1>a, <1>b, <2>1, <3>2
    <3>3. ASSUME NEW l \in wire, m = OneEarlier(l) PROVE m.age <= shown'.age
      <4>1. m.seq = (l.seq - 1) % SeqMod /\ m.age = l.age
        BY <1>a, <3>3, EarlierLine
      <4>2. Newer(l.seq, group.seq)
        BY <1>a, <2>2, <3>1, <4>1, OrderShifts
      <4> QED
        BY <1>0, <2>1, <2>2, <4>1, <4>2
    <3> QED
      BY <2>1, <3>2, <3>3
  <2> QED
    BY <2>2
<1>5. ASSUME NEW line \in wire, NEW again \in BOOLEAN, Receive(line, again)
      PROVE  Young(wire', group', shown')
  <2>1. wire' \subseteq wire /\ (Taken(line) \/ (group' = group /\ shown' = shown))
    BY <1>5, Received
  <2>2. ASSUME Taken(line), shown'.session # NoSession, NEW m \in wire', Newer(m.seq, group'.seq)
        PROVE  m.age <= shown'.age
    <3>1. m \in wire /\ group'.seq = line.seq
      BY <2>1, <2>2 DEF Taken
    <3>2. m.seq > line.seq
      \* Both numbers are among the last Transit + 1, less than half a cycle apart.
      <4>1. m.seq \in Seqs /\ line.seq \in Seqs
        BY <1>a, <3>1
      <4>2. \/ m.seq > line.seq /\ m.seq - line.seq < SeqMod \div 2
            \/ m.seq < line.seq /\ m.seq - line.seq + SeqMod < SeqMod \div 2
        BY <2>2, <3>1, <4>1, NewerMeans
      <4>3. SeqMod - m.seq <= Transit + 1
        <5>1. SeqMod - m.seq <= m.age + (IF due THEN 0 ELSE 1)
          BY <3>1 DEF GroupInv, NumberedByAge
        <5>2. m.age \in 0..Transit
          BY <1>a, <3>1
        <5>3. SeqMod \in Nat /\ m.seq \in Int
          BY <4>1, GroupConstants DEF Seqs
        <5>4. CASE due
          BY <1>b, <5>1, <5>2, <5>3, <5>4
        <5>5. CASE ~due
          BY <1>b, <5>1, <5>2, <5>3, <5>5
        <5> QED
          BY <5>4, <5>5
      <4>4. line.seq \in Int /\ m.seq \in Int /\ line.seq < SeqMod
        BY <4>1, GroupConstants DEF Seqs
      <4>5. /\ SeqMod \in Nat /\ SeqMod \div 2 \in Nat /\ 2 * (SeqMod \div 2) <= SeqMod
            /\ Transit + 1 < SeqMod \div 2
        BY GroupConstants
      <4> QED
        BY <1>b, <4>2, <4>3, <4>4, <4>5
    <3>3. m.age <= line.age
      BY <3>1, <3>2 DEF GroupInv, NumberedByAge
    <3>4. CASE line.kind # "invalid"
      BY <2>2, <3>3, <3>4 DEF Taken
    <3>5. CASE line.kind = "invalid"
      <4>1. shown' = shown
        BY <2>2, <3>5 DEF Taken
      <4>2. line.age <= shown.age
        BY <2>2, <4>1, TakenInOrder
      <4>3. m.age \in Int /\ line.age \in Int /\ shown.age \in Int
        BY <1>a, <1>b, <3>1
      <4> QED
        BY <3>3, <4>1, <4>2, <4>3
    <3> QED
      BY <3>4, <3>5
  <2>3. CASE group' = group /\ shown' = shown
    BY <1>0, <2>1, <2>3
  <2> QED
    BY <2>1, <2>2, <2>3
<1> QED
  BY <1>1, <1>2, <1>3, <1>4, <1>5, GroupActions

LEMMA GroupInvariant == GroupSpec => []GroupInv
<1>1. GroupInit => GroupInv
  BY GroupStarts
<1>2. GroupInv /\ [GroupNext]_groupVars => GroupInv'
  <2>1. ASSUME GroupInv, GroupNext PROVE GroupInv'
    BY <2>1, GroupShapesStep, StampOfSessionStep, NumberedByAgeStep, NewerIsYoungerStep,
       ShownIsOlderStep DEF GroupInv
  <2>2. ASSUME GroupInv, UNCHANGED groupVars PROVE GroupInv'
    BY <2>2 DEF groupVars, GroupInv, GroupShapes, StampOfSession, NumberedByAge, NewerIsYounger,
                ShownIsOlder
  <2> QED
    BY <2>1, <2>2
<1> QED
  BY <1>1, <1>2, PTL DEF GroupSpec

\* For every timeout, bound and set of session tokens, a group is fresh only on a line that
\* the host sent in the session in force (parseExtendedTelemetryLine, forceRosOffline).
THEOREM FreshKept == GroupSpec => []FreshIsOfSession
<1>1. GroupInv => FreshIsOfSession
  <2> SUFFICES ASSUME GroupInv, group.fresh, session # NoSession, group.session # NoSession
               PROVE  shown.session = session
    BY DEF FreshIsOfSession
  <2>1. group.any /\ group.kind = "good" /\ group.session = session
    BY DEF GroupInv, StampOfSession
  <2> QED
    BY <2>1 DEF GroupInv, StampOfSession
<1> QED
  BY <1>1, GroupInvariant, PTL

\* A sample never gives way to an older one of its session, whatever lines overtake each
\* other, come twice or are lost, and wherever the numbers wrap (acceptSequence).
THEOREM OrderKept == GroupSpec => NeverBack
<1> DEFINE Goes == (shown'.session = shown.session /\ shown.session # NoSession
                     /\ group.session # NoSession /\ group.age <= ResyncTicks)
                    => shown'.age <= shown.age \/ GroupPassEnds
<1>1. ASSUME GroupInv, GroupNext PROVE Goes
  <2> SUFFICES ASSUME shown'.session = shown.session, shown.session # NoSession, ~GroupPassEnds
               PROVE  shown'.age <= shown.age
    OBVIOUS
  <2>0. shown.age \in Int
    BY <1>1, GroupConstants DEF GroupInv, GroupShapes, Samples
  <2>1. CASE Over
    BY <1>1, <2>0, <2>1, SessionEnds, NothingIs DEF Over, GroupRevoked
  <2>2. CASE SourceRestarts
    BY <1>1, <2>0, <2>2, SourceCountsAnew
  <2>3. ASSUME NEW kind \in Kinds, NEW v3 \in BOOLEAN, Publish(kind, v3)
        PROVE  shown'.age <= shown.age
    <3>1. shown' = shown
      BY <1>1, <2>3, Published
    <3> QED
      BY <2>0, <3>1
  <2>4. ASSUME NEW line \in wire, NEW again \in BOOLEAN, Receive(line, again)
        PROVE  shown'.age <= shown.age
    <3>1. Taken(line) \/ shown' = shown
      BY <1>1, <2>4, Received
    <3>2. CASE Taken(line)
      <4>1. line.age <= shown.age
        BY <1>1, <3>2, TakenInOrder
      <4>2. shown'.age = line.age \/ shown' = shown
        BY <3>2 DEF Taken
      <4> QED
        BY <2>0, <4>1, <4>2
    <3> QED
      BY <2>0, <3>1, <3>2
  <2> QED
    BY <1>1, <2>1, <2>2, <2>3, <2>4, GroupActions
<1>2. GroupInv /\ [GroupNext]_groupVars => [Goes]_groupVars
  BY <1>1
<1> QED
  BY <1>2, GroupInvariant, PTL DEF GroupSpec, NeverBack

-----------------------------------------------------------------------------
(* The ROS link: the inductive invariant.                                  *)

Txns == 1..(TxnMod - 1)
Ends == {"READY", "ROS LINK LOST", "ACK TIMEOUT", "ROS OFFLINE", "DATA STALE",
         "USB TX BUSY", "WAITING ACK", "OK", "REFUSED"}

LinkStates == [on : BOOLEAN, count : 0..StableCount, stable : BOOLEAN, age : 0..(StartupTicks + 1)]
Domains == [seen : BOOLEAN, age : 0..(DomainTicks + 1), fresh : BOOLEAN]
Configs == [pending : BOOLEAN, txn : 0..(TxnMod - 1), key : Keys \cup {"NONE"}, age : 0..AckTicks,
            end : Ends]
Requests == [txn : Txns, key : Keys, later : 0..MaxAsked]

\* The types; none of the ways a transaction ends is by the answer to another.
RosShapes ==
  /\ established \in BOOLEAN /\ testing \in BOOLEAN /\ nextTxn \in 0..(TxnMod - 1)
  /\ link \in LinkStates /\ domain \in Domains /\ config \in Configs
  /\ asked \subseteq Requests

\* A test runs on a link and fresh data only, and data are fresh only on a recent line.
TestOnFresh ==
  /\ testing => established /\ link.on /\ domain.fresh
  /\ domain.fresh => domain.seen /\ domain.age <= DomainTicks

\* In the cycle of numbers, which skips 0, the next one is n after m.
NextIs(m, n) == m + n = TxnTaken(nextTxn) \/ m + n = TxnTaken(nextTxn) + TxnMod - 1

\* The number of a request tells how many came after it; the pending one is the last.
NumberTellsWhich ==
  /\ \A r \in asked : NextIs(r.txn, r.later + 1)
  /\ config.pending => config.txn \in Txns /\ NextIs(config.txn, 1)

RosInv == RosShapes /\ TestOnFresh /\ NumberTellsWhich

-----------------------------------------------------------------------------
(* What the actions do to the records.                                     *)

LEMMA RosConstants ==
  /\ GapTicks \in Nat \ {0} /\ StableCount \in Nat \ {0} /\ LinkTicks \in Nat \ {0}
  /\ StartupTicks \in Nat \ {0} /\ DomainTicks \in Nat \ {0} /\ AckTicks \in Nat \ {0}
  /\ MaxAsked \in Nat /\ TxnMod \in Nat /\ MaxAsked + 2 < TxnMod
BY RosAssumption

LEMMA EndedIs ==
  ASSUME NEW how \in Ends
  PROVE  Ended(how) \in Configs /\ ~Ended(how).pending
<1>1. NoConfig \in Configs /\ NoConfig.pending = FALSE
  <2>1. 0 \in 0..(TxnMod - 1) /\ 0 \in 0..AckTicks
    BY RosConstants
  <2> QED
    BY <2>1 DEF NoConfig, Configs, Ends
<1> QED
  BY <1>1 DEF Ended, Configs

LEMMA RevokedIs ==
  ASSUME RosInv, Revoked
  PROVE  /\ link' \in LinkStates /\ domain' \in Domains /\ testing' = FALSE /\ ~domain'.fresh
         /\ config' \in Configs /\ ~config'.pending
<1>1. /\ link' = LinkDown /\ domain' = Unseen /\ testing' = FALSE
      /\ config' = IF config.pending THEN Ended("ROS LINK LOST") ELSE config
  BY DEF Revoked
<1>2. 0 \in 0..StableCount /\ 0 \in 0..(StartupTicks + 1) /\ 0 \in 0..(DomainTicks + 1)
  BY RosConstants
<1>3. LinkDown \in LinkStates
  BY <1>2 DEF LinkDown, LinkStates
<1>4. Unseen \in Domains /\ ~Unseen.fresh
  BY <1>2 DEF Unseen, Domains
<1>5. config' \in Configs /\ ~config'.pending
  <2>1. config \in Configs
    BY DEF RosInv, RosShapes
  <2>2. Ended("ROS LINK LOST") \in Configs /\ ~Ended("ROS LINK LOST").pending
    BY EndedIs DEF Ends
  <2> QED
    BY <1>1, <2>1, <2>2
<1> QED
  BY <1>1, <1>3, <1>4, <1>5

LEMMA HeartbeatIs ==
  ASSUME RosInv, MarkRosHeartbeat
  PROVE  link' \in LinkStates /\ link'.on
<1> DEFINE near == link.on /\ link.age <= GapTicks
           count == IF near THEN Counted(link.count, StableCount) ELSE 1
           stable == near /\ (link.stable \/ count >= StableCount)
<1>1. link' = [on |-> TRUE, count |-> count, age |-> 0, stable |-> stable]
  BY DEF MarkRosHeartbeat
<1>2. link.count \in 0..StableCount /\ link.on \in BOOLEAN /\ link.stable \in BOOLEAN
  BY DEF RosInv, RosShapes, LinkStates
<1>3. count \in 0..StableCount
  <2> HIDE DEF near
  <2> QED
    BY <1>2, RosConstants DEF Counted
<1>4. stable \in BOOLEAN
  OBVIOUS
<1>5. 0 \in 0..(StartupTicks + 1)
  BY RosConstants
<1> HIDE DEF near, count, stable
<1> QED
  BY <1>1, <1>3, <1>4, <1>5 DEF LinkStates

LEMMA DomainNextIs ==
  ASSUME RosInv
  PROVE  /\ DomainNext \in Domains
         /\ DomainNext.fresh => link.on /\ DomainNext.seen /\ DomainNext.age <= DomainTicks
<1>1. domain \in Domains /\ domain.age \in 0..(DomainTicks + 1) /\ link.on \in BOOLEAN
  BY DEF RosInv, RosShapes, Domains, LinkStates
<1> DEFINE age == Counted(domain.age, DomainTicks + 1)
           fresh == link.on /\ age <= DomainTicks
<1>2. age \in 0..(DomainTicks + 1)
  BY <1>1, RosConstants DEF Counted
<1>3. fresh \in BOOLEAN
  OBVIOUS
<1>4. CASE domain.seen
  <2>1. DomainNext = [seen |-> TRUE, age |-> age, fresh |-> fresh]
    BY <1>4 DEF DomainNext
  <2>2. fresh => link.on /\ age <= DomainTicks
    OBVIOUS
  <2> HIDE DEF age, fresh
  <2> QED
    BY <1>2, <1>3, <2>1, <2>2 DEF Domains
<1>5. CASE ~domain.seen
  <2>1. DomainNext = Unseen
    BY <1>5 DEF DomainNext
  <2>2. 0 \in 0..(DomainTicks + 1)
    BY RosConstants
  <2> QED
    BY <2>1, <2>2 DEF Unseen, Domains
<1> QED
  BY <1>4, <1>5

LEMMA AgedIs ==
  ASSUME RosInv
  PROVE  /\ Aged(config) \in Configs
         /\ Aged(config).pending => config.pending /\ Aged(config).txn = config.txn
<1>1. config \in Configs /\ config.age \in 0..AckTicks
  BY DEF RosInv, RosShapes, Configs
<1>2. CASE ~config.pending
  BY <1>1, <1>2 DEF Aged
<1>3. CASE config.pending /\ config.age >= AckTicks
  <2>1. Aged(config) = Ended("ACK TIMEOUT")
    BY <1>3 DEF Aged
  <2> QED
    BY <2>1, EndedIs DEF Ends
<1>4. CASE config.pending /\ ~(config.age >= AckTicks)
  <2>1. Aged(config) = [config EXCEPT !.age = config.age + 1]
    BY <1>4 DEF Aged
  <2>2. config.age + 1 \in 0..AckTicks
    BY <1>1, <1>4, RosConstants
  <2> QED
    BY <1>1, <1>4, <2>1, <2>2 DEF Configs
<1> QED
  BY <1>2, <1>3, <1>4

\* A request takes the next number, or none; what was asked before is one further behind.
LEMMA Requested ==
  ASSUME RosInv, NEW key \in Keys, NEW room \in BOOLEAN, RequestConfig(key, room)
  PROVE  /\ established' = established /\ link' = link /\ domain' = domain /\ testing' = testing
         /\ config' \in Configs
         /\ \/ ~config'.pending /\ nextTxn' = nextTxn /\ asked' = asked
            \/ /\ nextTxn' = (TxnTaken(nextTxn) + 1) % TxnMod
               /\ config'.pending => config'.txn = TxnTaken(nextTxn)
               /\ \A q \in asked' :
                    \/ \E r \in asked : /\ r.later < MaxAsked /\ q \in Requests
                                        /\ q.txn = r.txn /\ q.later = r.later + 1
                    \/ q \in Requests /\ q.txn = TxnTaken(nextTxn) /\ q.later = 0
<1> DEFINE txn == TxnTaken(nextTxn)
<1>1. /\ established' = established /\ link' = link /\ domain' = domain /\ testing' = testing
      /\ IF ~link.on \/ ~domain.fresh
         THEN config' = Ended(IF link.on THEN "DATA STALE" ELSE "ROS OFFLINE")
              /\ UNCHANGED <<nextTxn, asked>>
         ELSE /\ nextTxn' = (txn + 1) % TxnMod
              /\ config' = IF room
                   THEN [pending |-> TRUE, txn |-> txn, key |-> key, age |-> 0, end |-> "WAITING ACK"]
                   ELSE Ended("USB TX BUSY")
              /\ asked' = {[r EXCEPT !.later = r.later + 1] : r \in {q \in asked : q.later < MaxAsked}}
                          \cup (IF room THEN {[txn |-> txn, key |-> key, later |-> 0]} ELSE {})
  BY DEF RequestConfig
<1>2. CASE ~link.on \/ ~domain.fresh
  <2>1. /\ config' = Ended("DATA STALE") \/ config' = Ended("ROS OFFLINE")
        /\ nextTxn' = nextTxn /\ asked' = asked
    BY <1>1, <1>2
  <2> QED
    BY <1>1, <2>1, EndedIs DEF Ends
<1>3. CASE ~(~link.on \/ ~domain.fresh)
  <2>1. txn \in Txns /\ txn \in 0..(TxnMod - 1)
    BY RosConstants DEF RosInv, RosShapes, TxnTaken, Txns
  <2> HIDE DEF txn
  <2>2. /\ nextTxn' = (txn + 1) % TxnMod
        /\ config' = IF room
             THEN [pending |-> TRUE, txn |-> txn, key |-> key, age |-> 0, end |-> "WAITING ACK"]
             ELSE Ended("USB TX BUSY")
        /\ asked' = {[r EXCEPT !.later = r.later + 1] : r \in {q \in asked : q.later < MaxAsked}}
                    \cup (IF room THEN {[txn |-> txn, key |-> key, later |-> 0]} ELSE {})
    BY <1>1, <1>3
  <2>3. config' \in Configs /\ (config'.pending => config'.txn = txn)
    <3>1. CASE room
      <4>1. 0 \in 0..AckTicks /\ "WAITING ACK" \in Ends
        BY RosConstants DEF Ends
      <4>2. config' = [pending |-> TRUE, txn |-> txn, key |-> key, age |-> 0, end |-> "WAITING ACK"]
        BY <2>2, <3>1
      <4> QED
        BY <2>1, <4>1, <4>2 DEF Configs
    <3>2. CASE ~room
      BY <2>2, <3>2, EndedIs DEF Ends
    <3> QED
      BY <3>1, <3>2
  <2>4. ASSUME NEW q \in asked'
        PROVE  \/ \E r \in asked : /\ r.later < MaxAsked /\ q \in Requests
                                   /\ q.txn = r.txn /\ q.later = r.later + 1
               \/ q \in Requests /\ q.txn = txn /\ q.later = 0
    <3>1. \/ \E r \in asked : r.later < MaxAsked /\ q = [r EXCEPT !.later = r.later + 1]
          \/ q = [txn |-> txn, key |-> key, later |-> 0]
      BY <2>2
    <3>2. ASSUME NEW r \in asked, r.later < MaxAsked, q = [r EXCEPT !.later = r.later + 1]
          PROVE  q \in Requests /\ q.txn = r.txn /\ q.later = r.later + 1
      <4>1. r \in Requests /\ r.later \in 0..MaxAsked
        BY DEF RosInv, RosShapes, Requests
      <4>2. r.later + 1 \in 0..MaxAsked
        BY <3>2, <4>1, RosConstants
      <4> QED
        BY <3>2, <4>1, <4>2 DEF Requests
    <3>3. CASE q = [txn |-> txn, key |-> key, later |-> 0]
      <4>1. 0 \in 0..MaxAsked
        BY RosConstants
      <4> QED
        BY <2>1, <3>3, <4>1 DEF Requests
    <3> QED
      BY <3>1, <3>2, <3>3
  <2> QED
    BY <1>1, <2>2, <2>3, <2>4 DEF txn
<1> QED
  BY <1>2, <1>3

\* The numbers go round from TxnMod - 1 to 1.
LEMMA NextNumber ==
  ASSUME RosInv
  PROVE  LET n == TxnTaken(nextTxn)
             next == (n + 1) % TxnMod
         IN /\ n \in Txns /\ next \in 0..(TxnMod - 1) /\ TxnTaken(next) \in Txns
            /\ TxnTaken(next) = n + 1 \/ (n = TxnMod - 1 /\ TxnTaken(next) = 1)
<1> DEFINE n == TxnTaken(nextTxn)
           next == (n + 1) % TxnMod
<1>1. TxnMod \in Nat /\ 2 < TxnMod
  BY RosConstants
<1>2. n \in Int /\ 1 <= n /\ n <= TxnMod - 1
  BY <1>1 DEF RosInv, RosShapes, TxnTaken
<1> HIDE DEF n
<1>3. next = IF n = TxnMod - 1 THEN 0 ELSE n + 1
  <2>1. CASE n = TxnMod - 1
    BY <1>1, <1>2, <2>1
  <2>2. CASE n # TxnMod - 1
    BY <1>1, <1>2, <2>2
  <2> QED
    BY <2>1, <2>2
<1> HIDE DEF next
<1>4. /\ n \in Txns /\ next \in 0..(TxnMod - 1) /\ TxnTaken(next) \in Txns
      /\ TxnTaken(next) = n + 1 \/ (n = TxnMod - 1 /\ TxnTaken(next) = 1)
  BY <1>1, <1>2, <1>3 DEF Txns, TxnTaken
<1> QED
  BY <1>4 DEF n, next

\* The answer that settles the pending transaction is the one to the last request.
LEMMA AnswerIsOwn ==
  ASSUME RosInv, NEW r \in asked, config.pending, Answers(r)
  PROVE  r.later = 0
<1> DEFINE n == TxnTaken(nextTxn)
<1>1. n \in Txns
  BY NextNumber
<1>2. r.txn \in Txns /\ r.later \in 0..MaxAsked
  BY DEF RosInv, RosShapes, Requests
<1>3. r.txn = config.txn
  BY DEF Answers
<1>4. /\ r.txn + (r.later + 1) = n \/ r.txn + (r.later + 1) = n + TxnMod - 1
      /\ r.txn + 1 = n \/ r.txn + 1 = n + TxnMod - 1
  BY <1>3 DEF RosInv, NumberTellsWhich, NextIs
<1> HIDE DEF n
<1> QED
  BY <1>1, <1>2, <1>4, RosConstants DEF Txns

\* An answer leaves all but the transaction as it is; that is over, or goes on.
LEMMA Answered ==
  ASSUME RosInv, NEW r \in asked, NEW ok \in BOOLEAN, NEW again \in BOOLEAN,
         ConfigResult(r, ok, again)
  PROVE  /\ UNCHANGED <<established, link, domain, testing, nextTxn>>
         /\ asked' \subseteq asked
         /\ config' \in Configs /\ (config'.pending => config' = config)
<1>1. /\ UNCHANGED <<established, link, domain, testing, nextTxn>>
      /\ asked' = (IF again THEN asked ELSE asked \ {r})
      /\ config' = IF config.pending /\ Answers(r)
                   THEN Ended(CASE ok /\ r.later = 0 -> "OK" [] ok /\ r.later > 0 -> "OK OF ANOTHER"
                                [] OTHER -> "REFUSED")
                   ELSE config
  BY DEF ConfigResult
<1>2. config \in Configs
  BY DEF RosInv, RosShapes
<1>3. CASE config.pending /\ Answers(r)
  <2>1. r.later = 0
    BY <1>3, AnswerIsOwn
  <2>2. config' = Ended(CASE ok /\ r.later = 0 -> "OK" [] ok /\ r.later > 0 -> "OK OF ANOTHER"
                          [] OTHER -> "REFUSED")
    BY <1>1, <1>3
  <2>3. CASE ok
    <3>1. ~(ok /\ r.later > 0)
      BY <2>1
    <3>2. config' = Ended("OK")
      BY <2>1, <2>2, <2>3, <3>1
    <3> QED
      BY <1>1, <3>2, EndedIs DEF Ends
  <2>4. CASE ~ok
    <3>1. config' = Ended("REFUSED")
      BY <2>2, <2>4
    <3> QED
      BY <1>1, <3>1, EndedIs DEF Ends
  <2> QED
    BY <2>3, <2>4
<1>4. CASE ~(config.pending /\ Answers(r))
  BY <1>1, <1>2, <1>4
<1> QED
  BY <1>3, <1>4

\* The end of a pass revokes everything, or makes everything older.
LEMMA PassIs ==
  ASSUME RosInv, PassEnds
  PROVE  /\ established' = established /\ nextTxn' = nextTxn /\ asked' = asked
         /\ Revoked \/ (/\ link' \in LinkStates /\ link'.on = link.on
                        /\ domain' = DomainNext /\ testing' = TestKept(DomainNext)
                        /\ config' = Aged(config))
<1>1. established' = established /\ nextTxn' = nextTxn /\ asked' = asked
  BY DEF PassEnds
<1>2. CASE LinkExpired
  BY <1>1, <1>2 DEF PassEnds
<1>3. CASE ~LinkExpired
  <2>1. /\ link' = IF link.on THEN [link EXCEPT !.age = Counted(link.age, StartupTicks + 1)] ELSE link
        /\ domain' = DomainNext /\ testing' = TestKept(DomainNext) /\ config' = Aged(config)
    BY <1>3 DEF PassEnds
  <2>2. link \in LinkStates /\ link.age \in 0..(StartupTicks + 1)
    BY DEF RosInv, RosShapes, LinkStates
  <2>3. Counted(link.age, StartupTicks + 1) \in 0..(StartupTicks + 1)
    BY <2>2, RosConstants DEF Counted
  <2>4. link' \in LinkStates /\ link'.on = link.on
    <3> HIDE DEF Counted
    <3> QED
      BY <2>1, <2>2, <2>3 DEF LinkStates
  <2> QED
    BY <1>1, <2>1, <2>4
<1> QED
  BY <1>2, <1>3

-----------------------------------------------------------------------------
(* The invariant holds.                                                    *)

\* The steps by which the session or the link is lost at once.
Losing == (\E acked \in BOOLEAN : Hello(acked)) \/ Disconnect \/ RosSaysOff

LEMMA LosingIs ==
  ASSUME RosInv, Losing
  PROVE  /\ established' \in BOOLEAN /\ nextTxn' = nextTxn /\ asked' = asked
         /\ Revoked \/ (~testing /\ UNCHANGED <<link, domain, testing, config>>)
<1>1. established \in BOOLEAN
  BY DEF RosInv, RosShapes
<1>2. ASSUME NEW acked \in BOOLEAN, Hello(acked)
      PROVE  established' \in BOOLEAN /\ nextTxn' = nextTxn /\ asked' = asked /\ Revoked
  BY <1>2 DEF Hello
<1>3. CASE Disconnect
  BY <1>3 DEF Disconnect
<1>4. CASE RosSaysOff
  BY <1>1, <1>4 DEF RosSaysOff
<1> QED
  BY <1>2, <1>3, <1>4 DEF Losing

LEMMA RosActions ==
  ASSUME RosNext
  PROVE  \/ Losing \/ HeartBeats \/ EscLine \/ StartTest \/ StopTest
         \/ \E key \in Keys, room \in BOOLEAN : RequestConfig(key, room)
         \/ \E r \in asked, ok \in BOOLEAN, again \in BOOLEAN : ConfigResult(r, ok, again)
         \/ \E r \in asked : AnswerLost(r)
         \/ PassEnds
BY DEF RosNext, Losing

LEMMA EscLineIs ==
  ASSUME RosInv, EscLine
  PROVE  /\ UNCHANGED <<established, link, testing, nextTxn, config, asked>>
         /\ domain' \in Domains /\ domain'.seen /\ domain'.age = 0 /\ domain'.fresh = domain.fresh
<1>1. /\ UNCHANGED <<established, link, testing, nextTxn, config, asked>>
      /\ domain' = [domain EXCEPT !.seen = TRUE, !.age = 0]
  BY DEF EscLine
<1>2. domain \in Domains /\ 0 \in 0..(DomainTicks + 1)
  BY RosConstants DEF RosInv, RosShapes
<1>3. /\ domain' \in Domains /\ domain'.seen = TRUE /\ domain'.age = 0
      /\ domain'.fresh = domain.fresh
  BY <1>1, <1>2 DEF Domains
<1> QED
  BY <1>1, <1>3

LEMMA RosStarts == RosInit => RosInv
<1> SUFFICES ASSUME RosInit PROVE RosInv
  OBVIOUS
<1>1. /\ established = FALSE /\ link = LinkDown /\ domain = Unseen /\ testing = FALSE
      /\ nextTxn = 1 /\ config = NoConfig /\ asked = {}
  BY DEF RosInit
<1>2. /\ 0 \in 0..StableCount /\ 0 \in 0..(StartupTicks + 1) /\ 0 \in 0..(DomainTicks + 1)
      /\ 1 \in 0..(TxnMod - 1) /\ 0 \in 0..(TxnMod - 1) /\ 0 \in 0..AckTicks
  BY RosConstants
<1>3. link \in LinkStates /\ domain \in Domains /\ domain.fresh = FALSE
  BY <1>1, <1>2 DEF LinkDown, LinkStates, Unseen, Domains
<1>4. config \in Configs /\ config.pending = FALSE
  BY <1>1, <1>2 DEF NoConfig, Configs, Ends
<1>5. RosShapes
  BY <1>1, <1>2, <1>3, <1>4 DEF RosShapes
<1>6. TestOnFresh
  BY <1>1, <1>3 DEF TestOnFresh
<1>7. NumberTellsWhich
  BY <1>1, <1>4 DEF NumberTellsWhich
<1> QED
  BY <1>5, <1>6, <1>7 DEF RosInv

LEMMA RosShapesStep ==
  ASSUME RosInv, RosNext
  PROVE  RosShapes'
<1>0. /\ established \in BOOLEAN /\ testing \in BOOLEAN /\ nextTxn \in 0..(TxnMod - 1)
      /\ link \in LinkStates /\ domain \in Domains /\ config \in Configs
      /\ asked \subseteq Requests
  BY DEF RosInv, RosShapes
<1>1. CASE Losing
  BY <1>0, <1>1, LosingIs, RevokedIs DEF RosShapes
<1>2. CASE HeartBeats
  BY <1>0, <1>2, HeartbeatIs DEF RosShapes, HeartBeats
<1>3. CASE EscLine
  BY <1>0, <1>3, EscLineIs DEF RosShapes
<1>4. CASE StartTest \/ StopTest
  BY <1>0, <1>4 DEF RosShapes, StartTest, StopTest
<1>5. ASSUME NEW key \in Keys, NEW room \in BOOLEAN, RequestConfig(key, room) PROVE RosShapes'
  <2>1. /\ established' = established /\ link' = link /\ domain' = domain /\ testing' = testing
        /\ config' \in Configs /\ asked' \subseteq Requests
    BY <1>0, <1>5, Requested
  <2>2. nextTxn' \in 0..(TxnMod - 1)
    <3>1. nextTxn' = nextTxn \/ nextTxn' = (TxnTaken(nextTxn) + 1) % TxnMod
      BY <1>5, Requested
    <3> QED
      BY <1>0, <3>1, NextNumber
  <2> QED
    BY <1>0, <2>1, <2>2 DEF RosShapes
<1>6. ASSUME NEW r \in asked, NEW ok \in BOOLEAN, NEW again \in BOOLEAN, ConfigResult(r, ok, again)
      PROVE  RosShapes'
  BY <1>0, <1>6, Answered DEF RosShapes
<1>7. ASSUME NEW r \in asked, AnswerLost(r) PROVE RosShapes'
  BY <1>0, <1>7 DEF RosShapes, AnswerLost
<1>8. CASE PassEnds
  <2>1. TestKept(DomainNext) \in BOOLEAN
    BY <1>0 DEF TestKept
  <2> QED
    BY <1>0, <1>8, <2>1, PassIs, RevokedIs, DomainNextIs, AgedIs DEF RosShapes
<1> QED
  BY <1>1, <1>2, <1>3, <1>4, <1>5, <1>6, <1>7, <1>8, RosActions

LEMMA TestOnFreshStep ==
  ASSUME RosInv, RosNext
  PROVE  TestOnFresh'
<1>0. /\ testing => established /\ link.on /\ domain.fresh
      /\ domain.fresh => domain.seen /\ domain.age <= DomainTicks
  BY DEF RosInv, TestOnFresh
<1>1. CASE Losing
  <2>1. CASE Revoked
    BY <2>1, RevokedIs DEF TestOnFresh
  <2>2. CASE ~testing /\ UNCHANGED <<link, domain, testing, config>>
    <3>1. ~testing'
      BY <2>2
    <3> QED
      BY <1>0, <2>2, <3>1 DEF TestOnFresh
  <2> QED
    BY <1>1, <2>1, <2>2, LosingIs
<1>2. CASE HeartBeats
  BY <1>0, <1>2, HeartbeatIs DEF TestOnFresh, HeartBeats
<1>3. CASE EscLine
  <2>1. 0 <= DomainTicks
    BY RosConstants
  <2> QED
    BY <1>0, <1>3, <2>1, EscLineIs DEF TestOnFresh
<1>4. CASE StartTest \/ StopTest
  BY <1>0, <1>4 DEF TestOnFresh, StartTest, StopTest
<1>5. ASSUME NEW key \in Keys, NEW room \in BOOLEAN, RequestConfig(key, room) PROVE TestOnFresh'
  BY <1>0, <1>5, Requested DEF TestOnFresh
<1>6. ASSUME NEW r \in asked, NEW ok \in BOOLEAN, NEW again \in BOOLEAN, ConfigResult(r, ok, again)
      PROVE  TestOnFresh'
  BY <1>0, <1>6, Answered DEF TestOnFresh
<1>7. ASSUME NEW r \in asked, AnswerLost(r) PROVE TestOnFresh'
  BY <1>0, <1>7 DEF TestOnFresh, AnswerLost
<1>8. CASE PassEnds
  <2>1. CASE Revoked
    BY <2>1, RevokedIs DEF TestOnFresh
  <2>2. CASE /\ link'.on = link.on /\ domain' = DomainNext /\ testing' = TestKept(DomainNext)
    <3>1. established' = established
      BY <1>8, PassIs
    <3>2. testing' => established' /\ link'.on /\ domain'.fresh
      BY <1>0, <2>2, <3>1 DEF TestKept
    <3> QED
      BY <2>2, <3>2, DomainNextIs DEF TestOnFresh
  <2> QED
    BY <1>8, <2>1, <2>2, PassIs
<1> QED
  BY <1>1, <1>2, <1>3, <1>4, <1>5, <1>6, <1>7, <1>8, RosActions

LEMMA NumberTellsWhichStep ==
  ASSUME RosInv, RosNext
  PROVE  NumberTellsWhich'
<1>0. /\ \A r \in asked : NextIs(r.txn, r.later + 1)
      /\ config.pending => config.txn \in Txns /\ NextIs(config.txn, 1)
  BY DEF RosInv, NumberTellsWhich
\* No new number is taken: what was told is told still.
<1>a. ASSUME nextTxn' = nextTxn, asked' \subseteq asked,
             config'.pending => config.pending /\ config'.txn = config.txn
      PROVE  NumberTellsWhich'
  BY <1>0, <1>a DEF NumberTellsWhich, NextIs
<1>1. CASE Losing
  BY <1>1, <1>a, LosingIs, RevokedIs
<1>2. CASE HeartBeats
  BY <1>2, <1>a DEF HeartBeats
<1>3. CASE EscLine
  BY <1>3, <1>a, EscLineIs
<1>4. CASE StartTest \/ StopTest
  BY <1>4, <1>a DEF StartTest, StopTest
<1>5. ASSUME NEW key \in Keys, NEW room \in BOOLEAN, RequestConfig(key, room)
      PROVE  NumberTellsWhich'
  <2> DEFINE n == TxnTaken(nextTxn)
             m == TxnTaken(nextTxn')
  <2>1. CASE ~config'.pending /\ nextTxn' = nextTxn /\ asked' = asked
    BY <2>1, <1>a
  <2>2. CASE /\ nextTxn' = (n + 1) % TxnMod
             /\ config'.pending => config'.txn = n
             /\ \A q \in asked' :
                  \/ \E r \in asked : /\ r.later < MaxAsked /\ q \in Requests
                                      /\ q.txn = r.txn /\ q.later = r.later + 1
                  \/ q \in Requests /\ q.txn = n /\ q.later = 0
    <3>1. n \in Txns /\ m \in Txns /\ (m = n + 1 \/ (n = TxnMod - 1 /\ m = 1))
      BY <2>2, NextNumber
    <3>2. \A r \in asked : /\ r.txn + (r.later + 1) = n \/ r.txn + (r.later + 1) = n + TxnMod - 1
                           /\ r.txn \in Txns /\ r.later \in 0..MaxAsked
      BY <1>0 DEF NextIs, RosInv, RosShapes, Requests
    <3> HIDE DEF n, m
    <3>3. ASSUME NEW q \in asked' PROVE NextIs(q.txn, q.later + 1)'
      <4>1. CASE q.txn = n /\ q.later = 0
        <5>1. n + (0 + 1) = m \/ n + (0 + 1) = m + TxnMod - 1
          BY <3>1, RosConstants DEF Txns
        <5> QED
          BY <4>1, <5>1 DEF NextIs, m
      <4>2. ASSUME NEW r \in asked, r.later < MaxAsked, q.txn = r.txn, q.later = r.later + 1
            PROVE  NextIs(q.txn, q.later + 1)'
        <5>1. /\ r.txn + (r.later + 1) = n \/ r.txn + (r.later + 1) = n + TxnMod - 1
              /\ r.txn \in Txns /\ r.later \in 0..MaxAsked
          BY <3>2
        <5>2. \/ r.txn + ((r.later + 1) + 1) = m
              \/ r.txn + ((r.later + 1) + 1) = m + TxnMod - 1
          BY <3>1, <4>2, <5>1, RosConstants DEF Txns
        <5> QED
          BY <4>2, <5>2 DEF NextIs, m
      <4> QED
        BY <2>2, <4>1, <4>2 DEF n
    <3>4. ASSUME config'.pending PROVE config'.txn \in Txns /\ NextIs(config.txn, 1)'
      <4>1. config'.txn = n
        BY <2>2, <3>4
      <4>2. n + 1 = m \/ n + 1 = m + TxnMod - 1
        BY <3>1, RosConstants DEF Txns
      <4> QED
        BY <3>1, <4>1, <4>2 DEF NextIs, m
    <3> QED
      BY <3>3, <3>4 DEF NumberTellsWhich
  <2> QED
    BY <1>5, <2>1, <2>2, Requested
<1>6. ASSUME NEW r \in asked, NEW ok \in BOOLEAN, NEW again \in BOOLEAN, ConfigResult(r, ok, again)
      PROVE  NumberTellsWhich'
  BY <1>6, <1>a, Answered
<1>7. ASSUME NEW r \in asked, AnswerLost(r) PROVE NumberTellsWhich'
  BY <1>7, <1>a DEF AnswerLost
<1>8. CASE PassEnds
  BY <1>8, <1>a, PassIs, RevokedIs, AgedIs
<1> QED
  BY <1>1, <1>2, <1>3, <1>4, <1>5, <1>6, <1>7, <1>8, RosActions

LEMMA RosInvariant == RosSpec => []RosInv
<1>1. RosInit => RosInv
  BY RosStarts
<1>2. RosInv /\ [RosNext]_rosVars => RosInv'
  <2>1. ASSUME RosInv, RosNext PROVE RosInv'
    BY <2>1, RosShapesStep, TestOnFreshStep, NumberTellsWhichStep DEF RosInv
  <2>2. ASSUME RosInv, UNCHANGED rosVars PROVE RosInv'
    BY <2>2 DEF rosVars, RosInv, RosShapes, TestOnFresh, NumberTellsWhich, NextIs
  <2> QED
    BY <2>1, <2>2
<1> QED
  BY <1>1, <1>2, PTL DEF RosSpec

\* For all timeouts, settings and numbers of transactions: a test goes on only while its
\* data come (checkRosLinkTimeout, updateDomainFreshness), and a setting is taken over
\* only on the answer to the last request (requestConfig, configAck), as long as an answer
\* is not late by a whole cycle of numbers.
THEOREM RosKept == RosSpec => []RosSound
<1>1. RosInv => RosSound
  <2> SUFFICES ASSUME RosInv PROVE RosSound
    OBVIOUS
  <2>1. RosTypeOK
    BY DEF RosInv, RosShapes, RosTypeOK, LinkStates, Configs
  <2>2. TestHasData
    BY DEF RosInv, TestOnFresh, TestHasData
  <2>3. SettledByOwnAnswer
    BY DEF RosInv, RosShapes, Configs, Ends, SettledByOwnAnswer
  <2> QED
    BY <2>1, <2>2, <2>3 DEF RosSound
<1> QED
  BY <1>1, RosInvariant, PTL
=============================================================================
