--------------------------- MODULE RealtimeProofs ---------------------------
(***************************************************************************)
(* Proofs about the two halves of the realtime statuses: RealtimeRelay,    *)
(* from the process that reads the gateway to the follower of an instance, *)
(* and HubClients, from that follower to the sockets of the instance.      *)
(*                                                                         *)
(* The relay, for every period, timeout and delay.  What carries live is   *)
(* never older than its own making (Carried); what the follower shows live *)
(* was so at most Delay before the last heartbeat, and, since every look   *)
(* of the watchdog finds that heartbeat younger than Timeout or marks the  *)
(* subject stale, Delay + Timeout before its last look (Watched).  While   *)
(* one leader publishes, a heartbeat was received since the last was made, *)
(* or one is on its way (Alive).                                           *)
(*                                                                         *)
(* The hub, for any number of sockets and any size of queue: a check that  *)
(* refuses unsubscribes before the socket is served again (Subscribed), so *)
(* that a refusal is never said to a subscriber, and what is published is  *)
(* what the hub knows (Following).                                         *)
(***************************************************************************)
EXTENDS RealtimeRelay, HubClients, TLAPS

Beats == [carries : Status \cup {"nothing"}, age : 0 .. Delay, phase : 0 .. Every]

\* The goroutines of hold live with the lease, and the view is live while one reads.
Leading ==
    /\ leader = Nobody => feed = "dialing" /\ beat.carries = "nothing"
    /\ Reading => liveAge = 0
    /\ leader # Nobody => (view = "live" <=> Reading)

Carried ==
    /\ beat.carries = "live" => liveAge <= beat.age
    /\ \A m \in air : m.status = "live" => liveAge <= m.age

Watched ==
    shown = "live" => /\ liveAge <= Delay + lastBeat
                      /\ liveAge <= Delay + Timeout + watchdog

RelayInv == TypeOK /\ Leading /\ Carried /\ Watched

\* A bound still holds when it grows.
LEMMA StillBelow ==
  ASSUME NEW y \in Nat, NEW d \in Nat, NEW t \in Nat, NEW b \in Nat, NEW w \in Nat, y <= d
  PROVE  y <= d + b /\ y <= d + t + w
  OBVIOUS

\* No heartbeat was received yet.
LEMMA RelayInvInit == Init => RelayInv
<1> SUFFICES ASSUME Init PROVE RelayInv
  OBVIOUS
<1> USE RelayAssumption DEF Init, NewBeat, Status, Longest
<1>1. TypeOK
  BY DEF TypeOK, Message
<1>2. Leading /\ Carried /\ Watched
  BY DEF Leading, Carried, Watched, Reading
<1> QED
  BY <1>1, <1>2 DEF RelayInv

\* No step of the leader, of the bus or of a follower breaks the invariant.
LEMMA RelayInvStep == RelayInv /\ [Next]_vars => RelayInv'
<1> SUFFICES ASSUME RelayInv, [Next]_vars PROVE RelayInv'
  OBVIOUS
<1> USE RelayAssumption DEF RelayInv, Status
<1>1. CASE UNCHANGED vars
  BY <1>1 DEF vars, leading, following, history, TypeOK, Leading, Carried, Watched, Reading, Message
<1>2. ASSUME NEW p \in Process, TakeLease(p) PROVE RelayInv'
  BY <1>2 DEF TakeLease, Lease!Start, FirstView, following, history,
              TypeOK, Leading, Carried, Watched, Reading, Message
<1>3. CASE LoseLease
  BY <1>3 DEF LoseLease, Lease!Stop, NewBeat, following, TypeOK, Leading, Carried, Watched, Reading, Message, Longest
<1>4. CASE Dial
  <2>1. TypeOK'
    BY <1>4 DEF Dial, Change, following, TypeOK, Message, Longest
  <2>2. Leading' /\ Carried' /\ Watched'
    BY <1>4 DEF Dial, Change, following, TypeOK, Leading, Carried, Watched, Reading, Message
  <2> QED BY <2>1, <2>2
<1>5. CASE Falls
  BY <1>5 DEF Falls, Change, following, TypeOK, Leading, Carried, Watched, Reading, Message
<1>6. CASE Report
  <2>1. Sent("status", view, 0) \in Message
    BY DEF Sent, TypeOK, Message
  <2>2. TypeOK'
    BY <1>6, <2>1 DEF Report, following, history, TypeOK
  <2>3. Leading' /\ Watched'
    BY <1>6 DEF Report, following, history, TypeOK, Leading, Watched, Reading
  <2>4. view = "live" => liveAge = 0
    BY <1>6 DEF Report, Leading
  <2>5. Carried'
    BY <1>6, <2>4 DEF Report, Sent, following, history, TypeOK, Carried
  <2> QED BY <2>2, <2>3, <2>5
<1>7. CASE MakeBeat
  <2>1. beat' \in Beats
    BY <1>7 DEF MakeBeat, TypeOK, Beats
  <2>2. TypeOK'
    BY <1>7, <2>1 DEF MakeBeat, following, history, TypeOK, Beats
  <2>3. Leading' /\ Carried' /\ Watched'
    BY <1>7 DEF MakeBeat, following, history, TypeOK, Leading, Carried, Watched, Reading
  <2> QED BY <2>2, <2>3
<1>8. CASE SendBeat
  <2>1. Sent("heartbeat", beat.carries, beat.age) \in Message
    BY <1>8 DEF SendBeat, Sent, TypeOK, Message
  <2>2. beat' \in Beats
    BY <1>8 DEF SendBeat, TypeOK, Beats
  <2>3. TypeOK'
    BY <1>8, <2>1, <2>2 DEF SendBeat, following, history, TypeOK, Beats
  <2>4. Leading' /\ Watched'
    BY <1>8 DEF SendBeat, following, history, TypeOK, Leading, Watched, Reading
  <2>5. Carried'
    BY <1>8 DEF SendBeat, Sent, following, history, TypeOK, Carried
  <2> QED BY <2>3, <2>4, <2>5
<1>9. ASSUME NEW m \in air, Receive(m) PROVE RelayInv'
  <2>1. m.status \in Status /\ m.age \in 0 .. Delay
    BY DEF TypeOK, Message
  <2>2. TypeOK'
    BY <1>9, <2>1 DEF Receive, Shows, leading, history, TypeOK, Longest
  <2>3. Leading' /\ Carried'
    BY <1>9 DEF Receive, leading, history, Leading, Carried, Reading
  <2>4. Watched'
    <3>1. shown' = "live" => liveAge <= Delay
      <4>1. m.status = "live" => liveAge <= m.age
        BY DEF Carried
      <4>2. shown' = m.status
        BY <1>9 DEF Receive, Shows
      <4> QED BY <4>1, <4>2, <2>1 DEF TypeOK, Longest
    <3>2. liveAge' = liveAge /\ watchdog' = watchdog /\ lastBeat' \in {0, lastBeat}
      BY <1>9 DEF Receive, history
    <3>3. liveAge \in Nat /\ lastBeat \in Nat /\ watchdog \in Nat
      BY DEF TypeOK, Longest
    <3>4. lastBeat' \in Nat /\ watchdog' \in Nat
      BY <3>2, <3>3
    <3>5. Delay \in Nat /\ Timeout \in Nat
      OBVIOUS
    <3>6. ASSUME shown' = "live"
          PROVE  liveAge' <= Delay + lastBeat' /\ liveAge' <= Delay + Timeout + watchdog'
      <4>1. liveAge' = liveAge /\ liveAge <= Delay
        BY <3>1, <3>2, <3>6
      <4> QED BY <4>1, <3>3, <3>4, <3>5, StillBelow
    <3> QED BY <3>6 DEF Watched
  <2> QED BY <2>2, <2>3, <2>4
<1>10. ASSUME NEW m \in air, Lose(m) PROVE RelayInv'
  <2>1. TypeOK'
    BY <1>10 DEF Lose, leading, following, history, TypeOK
  <2>2. Leading' /\ Carried' /\ Watched'
    BY <1>10 DEF Lose, leading, following, history, Leading, Carried, Watched, Reading
  <2> QED BY <2>1, <2>2
<1>11. CASE Watch
  <2>1. TypeOK'
    BY <1>11 DEF Watch, leading, history, TypeOK
  <2>2. Leading' /\ Carried'
    BY <1>11 DEF Watch, leading, history, Leading, Carried, Reading
  <2>3. Watched'
    BY <1>11 DEF Watch, TooLong, history, TypeOK, Watched
  <2> QED BY <2>1, <2>2, <2>3
<1>12. CASE Restart
  <2>1. 0 \in 0 .. Longest + 1 /\ 0 \in 0 .. Every
    BY DEF Longest
  <2>2. TypeOK'
    BY <1>12, <2>1 DEF Restart, leading, history, TypeOK
  <2>3. Leading' /\ Carried' /\ Watched'
    BY <1>12 DEF Restart, leading, history, Leading, Carried, Watched, Reading
  <2> QED BY <2>2, <2>3
<1>13. CASE Outage \/ Mend
  <2>1. 0 \in 0 .. Longest + 1
    BY DEF Longest
  <2>2. TypeOK'
    BY <1>13, <2>1 DEF Outage, Mend, leading, following, history, TypeOK
  <2>3. Leading' /\ Carried' /\ Watched'
    BY <1>13 DEF Outage, Mend, leading, following, history, Leading, Carried, Watched, Reading
  <2> QED BY <2>2, <2>3
<1>14. CASE Tick
  <2>1. beat' \in Beats
    BY <1>14 DEF Tick, OnTime, BeatDue, TypeOK, Leading, Beats
  <2>2. air' \subseteq Message
    BY <1>14 DEF Tick, OnTime, TypeOK, Message
  <2>3. /\ lastBeat' \in 0 .. Longest + 1 /\ watchdog' \in 0 .. Every
        /\ liveAge' \in 0 .. Longest + 1 /\ calm' \in 0 .. Longest + 1
    BY <1>14 DEF Tick, OnTime, Upto, TypeOK, Longest
  <2>4. TypeOK'
    BY <1>14, <2>1, <2>2, <2>3 DEF Tick, TypeOK, Beats
  <2>5. Leading'
    BY <1>14 DEF Tick, OnTime, TypeOK, Leading, Reading
  <2>6. liveAge' <= liveAge + 1
    BY <1>14 DEF Tick, Upto, TypeOK, Longest
  <2>7. Carried'
    <3>1. beat'.carries = "live" => liveAge' <= beat'.age
      BY <1>14, <2>6, <2>3 DEF Tick, TypeOK, Carried, Longest
    <3>2. ASSUME NEW n \in air', n.status = "live" PROVE liveAge' <= n.age
      <4>1. PICK m \in air : n = [m EXCEPT !.age = @ + 1]
        BY <1>14 DEF Tick
      <4>2. m \in Message
        BY DEF TypeOK
      <4>3. n.status = m.status /\ n.age = m.age + 1 /\ m.age \in Nat
        BY <4>1, <4>2 DEF Message
      <4> QED
        BY <3>2, <4>3, <2>6, <2>3 DEF Carried, TypeOK, Longest
    <3> QED BY <3>1, <3>2 DEF Carried
  <2>8. Watched'
    BY <1>14, <2>6, <2>3 DEF Tick, Upto, TypeOK, Watched, Longest
  <2> QED BY <2>4, <2>5, <2>7, <2>8
<1> QED
  BY <1>1, <1>2, <1>3, <1>4, <1>5, <1>6, <1>7, <1>8, <1>9, <1>10, <1>11, <1>12, <1>13, <1>14
     DEF Next, Feed, Beat, Deliver

\* What the steps keep, every behaviour keeps.
LEMMA RelayInvariant == Spec => []RelayInv
<1>1. Init => RelayInv
  BY RelayInvInit
<1>2. RelayInv /\ [Next]_vars => RelayInv'
  BY RelayInvStep
<1> QED
  BY <1>1, <1>2, PTL DEF Spec

\* The state of the relay keeps its types, whatever the periods.
THEOREM RelayTypes == Spec => []TypeOK
<1>1. RelayInv => TypeOK
  BY DEF RelayInv
<1> QED
  BY <1>1, RelayInvariant, PTL

\* No follower shows a subject live longer than Delay + Timeout + Every after a leader
\* read it (relay.go, follow).
THEOREM LiveIsNeverOld == Spec => []LiveIsRecent
<1>1. RelayInv => LiveIsRecent
  BY RelayAssumption DEF RelayInv, Watched, TypeOK, LiveIsRecent, Longest
<1> QED
  BY <1>1, RelayInvariant, PTL

\* The follower has heard of a heartbeat since, or the quiet has lasted, no more than b.
Fresh(b) == lastBeat <= b \/ calm <= b

\* The last heartbeat that was received is no older than the last that was made, or the
\* next one is on its way.
Alive ==
    /\ leader = Nobody \/ ~up => calm = 0
    /\ \/ Fresh(beat.phase)
       \/ beat.carries # "nothing" /\ Fresh(beat.age + Every)
       \/ \E m \in air : m.kind = "heartbeat" /\ Fresh(m.age + Every)

\* A heartbeat that is received, or made, or published, answers for the next period.
LEMMA AliveStep == RelayInv /\ Alive /\ [Next]_vars => Alive'
<1> SUFFICES ASSUME RelayInv, Alive, [Next]_vars PROVE Alive'
  OBVIOUS
<1> USE RelayAssumption DEF RelayInv
<1>0. /\ beat.phase \in 0 .. Every /\ beat.age \in Nat /\ lastBeat \in Nat /\ calm \in Nat
      /\ \A m \in air : m.age \in Nat
  BY DEF TypeOK, Longest, Message
<1>1. ASSUME calm' = 0, leader' # Nobody => beat'.phase \in Nat, leader' = Nobody => beat'.phase \in Nat
      PROVE Alive'
  BY <1>1 DEF Alive, Fresh
<1>2. CASE UNCHANGED <<leader, beat, up, air, lastBeat, calm>>
  BY <1>2 DEF Alive, Fresh
<1>3. ASSUME NEW p \in Process, TakeLease(p) PROVE Alive'
  BY <1>1, <1>0, <1>3 DEF TakeLease, Lease!Start, Alive, history
<1>4. CASE LoseLease \/ Outage
  BY <1>1, <1>0, <1>4 DEF LoseLease, Outage, NewBeat, leading
<1>5. CASE Report
  <2>1. air \subseteq air' /\ UNCHANGED <<leader, beat, up, lastBeat, calm>>
    BY <1>5 DEF Report, following, history
  <2> QED BY <2>1 DEF Alive, Fresh
<1>6. CASE MakeBeat
  <2>1. /\ beat'.carries # "nothing" /\ beat'.age = 0 /\ beat.carries = "nothing" /\ beat.phase = Every
        /\ UNCHANGED <<leader, up, air, lastBeat, calm>>
    BY <1>0, <1>6 DEF MakeBeat, BeatDue, TypeOK, Status, following, history
  <2> QED BY <2>1 DEF Alive, Fresh
<1>7. CASE SendBeat
  <2> DEFINE m == Sent("heartbeat", beat.carries, beat.age)
  <2>1. air' = air \cup {m} /\ beat'.phase = beat.phase /\ UNCHANGED <<leader, up, lastBeat, calm>>
    BY <1>7 DEF SendBeat, following, history
  <2>2. m.kind = "heartbeat" /\ m.age = beat.age
    BY DEF Sent
  <2> HIDE DEF m
  <2> QED BY <2>1, <2>2 DEF Alive, Fresh
<1>8. ASSUME NEW m \in air, Receive(m) PROVE Alive'
  <2>1. up /\ air' = air \ {m} /\ UNCHANGED <<leader, beat, up, calm>>
    BY <1>8 DEF Receive, leading, history
  <2>2. CASE m.kind = "heartbeat"
    BY <1>0, <1>8, <2>1, <2>2 DEF Receive, Alive, Fresh
  <2>3. CASE m.kind # "heartbeat"
    BY <1>8, <2>1, <2>3 DEF Receive, Alive, Fresh
  <2> QED BY <2>2, <2>3
<1>9. ASSUME NEW m \in air, Lose(m) PROVE Alive'
  BY <1>0, <1>1, <1>9 DEF Lose, Alive, leading, history
<1>10. CASE Restart
  BY <1>0, <1>1, <1>10 DEF Restart, Alive, leading, history
<1>11. CASE Mend
  BY <1>0, <1>1, <1>11 DEF Mend, Alive, leading, history
<1>12. CASE Tick
  <2>1. lastBeat' <= lastBeat + 1 /\ lastBeat' \in Nat
    BY <1>0, <1>12 DEF Tick, Upto
  <2>2. CASE leader = Nobody \/ ~up
    BY <1>0, <1>1, <1>12, <2>2 DEF Tick, TypeOK
  <2>3. CASE leader # Nobody /\ up
    <3>1. calm' <= calm + 1 /\ calm' \in Nat /\ leader' # Nobody /\ up'
      BY <1>0, <1>12, <2>3 DEF Tick, Upto
    <3>2. \A b \in Nat : Fresh(b) => lastBeat' <= b + 1 \/ calm' <= b + 1
      BY <1>0, <2>1, <3>1 DEF Fresh
    <3>3. CASE Fresh(beat.phase)
      <4>1. beat'.phase = beat.phase + 1
        BY <1>12, <2>3 DEF Tick
      <4> QED BY <1>0, <3>1, <3>2, <3>3, <4>1 DEF Alive, Fresh
    <3>4. CASE beat.carries # "nothing" /\ Fresh(beat.age + Every)
      <4>1. beat'.carries = beat.carries /\ beat'.age + Every = (beat.age + Every) + 1
        BY <1>0, <1>12, <3>4 DEF Tick
      <4> QED BY <1>0, <3>1, <3>2, <3>4, <4>1 DEF Alive, Fresh
    <3>5. ASSUME NEW m \in air, m.kind = "heartbeat", Fresh(m.age + Every) PROVE Alive'
      <4> DEFINE n == [m EXCEPT !.age = @ + 1]
      <4>1. n \in air'
        BY <1>12 DEF Tick
      <4>2. n.kind = "heartbeat" /\ n.age + Every = (m.age + Every) + 1
        BY <1>0, <3>5 DEF TypeOK, Message
      <4> HIDE DEF n
      <4> QED BY <1>0, <3>1, <3>2, <3>5, <4>1, <4>2 DEF Alive, Fresh
    <3> QED BY <3>3, <3>4, <3>5 DEF Alive
  <2> QED BY <2>2, <2>3
<1> QED
  BY <1>2, <1>3, <1>4, <1>5, <1>6, <1>7, <1>8, <1>9, <1>10, <1>11, <1>12
     DEF Next, Feed, Beat, Deliver, Dial, Falls, Change, Watch, vars, leading, following, history

\* The watchdog marks nothing stale once one leader has led, and Redis answered, for more
\* than Every + Delay (relay.go, follow; hub.go, heartbeatTimeout).
THEOREM WatchdogIsRight == Spec => AlarmIsReal
<1>1. Init => Alive
  BY RelayAssumption DEF Init, NewBeat, Alive, Fresh
<1>2. RelayInv /\ Alive /\ [Next]_vars => [Watch /\ shown # shown' => calm <= Every + Delay]_vars
  <2> SUFFICES ASSUME RelayInv, Alive, Watch, shown # shown' PROVE calm <= Every + Delay
    OBVIOUS
  <2>1. lastBeat > Timeout /\ lastBeat \in Nat /\ calm \in Nat
    BY DEF Watch, TooLong, RelayInv, TypeOK, Longest
  <2>2. /\ beat.phase \in Nat /\ beat.phase <= Every /\ beat.age \in Nat /\ beat.age <= Delay
        /\ \A m \in air : m.age \in Nat /\ m.age <= Delay
    BY RelayAssumption DEF RelayInv, TypeOK, Message
  <2> QED BY <2>1, <2>2, RelayAssumption DEF Alive, Fresh
<1> QED
  BY <1>1, <1>2, AliveStep, RelayInvariant, PTL DEF Spec, AlarmIsReal

----------------------------------------------------------------------------
(* The hub and its sockets. *)

\* What is about to be published is the status the hub already has.
Following == pub # None => pub.kind = statuses[pub.topic]

\* Both records of the permission agree; only a socket that is served is subscribed, and,
\* but during its check, only one that may be.
Subscribed ==
    \A c \in Client :
        /\ granted[c] = knows[c]
        /\ \A t \in Topic : c \in subs[t] => at[c] \notin {"out", "entered"}
        /\ at[c] = "forbidding" => ~knows[c]
        /\ at[c] \in {"serving", "forbidding"} /\ ~knows[c] => c \notin subs["billing"]

HubInv == HubTypeOK /\ Following /\ Subscribed /\ ToldTheTruth /\ DataIsAnnounced /\ DrainIsFinal

\* What follows in the queue changes nothing to what was heard before.
LEMMA StillLast ==
  ASSUME NEW q \in Seq(Frame), NEW f \in Frame, NEW n \in 0 .. Len(q), NEW t, NEW said, NEW w,
         LastWord(said, q, n, t, w)
  PROVE  LastWord(said, Append(q, f), n, t, w)
<1>1. \A i \in 1 .. n : Append(q, f)[i] = q[i]
  OBVIOUS
<1>2. \A i \in 1 .. n : \A j \in i + 1 .. n : Append(q, f)[j] = q[j]
  OBVIOUS
<1> QED BY <1>1, <1>2 DEF LastWord

\* A word at the end of the queue is the last.
LEMMA SaidLast ==
  ASSUME NEW q \in Seq(Frame), NEW f \in Frame, NEW t, NEW said, IsWord(f, t)
  PROVE  LastWord(said, Append(q, f), Len(q) + 1, t, f.kind)
<1> DEFINE n == Len(q) + 1
<1>1. n \in 1 .. n /\ Append(q, f)[n] = f /\ \A j \in n + 1 .. n : FALSE
  OBVIOUS
<1> QED BY <1>1 DEF LastWord

\* A frame that is no word on the subject leaves the last word what it was.
LEMMA SilentLast ==
  ASSUME NEW q \in Seq(Frame), NEW f \in Frame, NEW t, NEW said, NEW w,
         LastWord(said, q, Len(q), t, w), ~IsWord(f, t)
  PROVE  LastWord(said, Append(q, f), Len(q) + 1, t, w)
<1> DEFINE r == Append(q, f)
<1>1. \A i \in 1 .. Len(q) : r[i] = q[i]
  OBVIOUS
<1>2. r[Len(q) + 1] = f
  OBVIOUS
<1>3. Len(q) \in Nat
  OBVIOUS
<1> HIDE DEF r
<1>4. CASE said = w /\ \A i \in 1 .. Len(q) : ~IsWord(q[i], t)
  BY <1>1, <1>2, <1>3, <1>4 DEF LastWord
<1>5. ASSUME NEW i \in 1 .. Len(q), IsWord(q[i], t), q[i].kind = w,
             \A j \in i + 1 .. Len(q) : ~IsWord(q[j], t)
      PROVE  LastWord(said, r, Len(q) + 1, t, w)
  <2>1. i \in 1 .. Len(q) + 1 /\ IsWord(r[i], t) /\ r[i].kind = w
    BY <1>1, <1>3, <1>5
  <2>2. \A j \in i + 1 .. Len(q) + 1 : ~IsWord(r[j], t)
    BY <1>1, <1>2, <1>3, <1>5
  <2> QED BY <2>1, <2>2 DEF LastWord
<1> QED BY <1>4, <1>5 DEF LastWord, r

\* Reading the oldest frame keeps what will have been heard at the end.
LEMMA ReadLast ==
  ASSUME NEW q \in Seq(Frame), q # <<>>, NEW n \in 1 .. Len(q), NEW t, NEW said, NEW w,
         LastWord(said, q, n, t, w)
  PROVE  LastWord(IF IsWord(q[1], t) THEN q[1].kind ELSE said, Tail(q), n - 1, t, w)
<1> DEFINE r == Tail(q)
           now == IF IsWord(q[1], t) THEN q[1].kind ELSE said
<1>1. \A i \in 1 .. n - 1 : r[i] = q[i + 1]
  OBVIOUS
<1>2. n \in Nat \ {0} /\ 1 \in 1 .. n
  OBVIOUS
<1> HIDE DEF r
<1>3. CASE said = w /\ \A i \in 1 .. n : ~IsWord(q[i], t)
  <2>1. now = w
    BY <1>2, <1>3
  <2>2. \A i \in 1 .. n - 1 : ~IsWord(r[i], t)
    BY <1>1, <1>2, <1>3
  <2> QED BY <2>1, <2>2 DEF LastWord, r
<1>4. ASSUME NEW i \in 1 .. n, IsWord(q[i], t), q[i].kind = w,
             \A j \in i + 1 .. n : ~IsWord(q[j], t)
      PROVE  LastWord(now, r, n - 1, t, w)
  <2>1. \A j \in i .. n - 1 : ~IsWord(r[j], t)
    BY <1>1, <1>2, <1>4
  <2>2. CASE i = 1
    <3>1. now = w
      BY <1>4, <2>2
    <3> QED BY <2>1, <2>2, <3>1 DEF LastWord
  <2>3. CASE i # 1
    <3>1. i - 1 \in 1 .. n - 1 /\ IsWord(r[i - 1], t) /\ r[i - 1].kind = w
      BY <1>1, <1>2, <1>4, <2>3
    <3>2. \A j \in (i - 1) + 1 .. n - 1 : ~IsWord(r[j], t)
      BY <1>2, <2>1
    <3> HIDE DEF now
    <3> QED BY <3>1, <3>2 DEF LastWord
  <2> QED BY <2>2, <2>3
<1> QED BY <1>3, <1>4 DEF LastWord, r

\* What an offer does to the queue of one socket.
LEMMA OfferOne ==
  ASSUME HubTypeOK, NEW C \in SUBSET Client, NEW f \in Frame, Offer(C, f), NEW c \in Client
  PROVE  /\ ~lagging'[c] => ~lagging[c]
         /\ c \in C /\ ~lagging'[c] => queue'[c] = Append(queue[c], f)
         /\ c \notin C => queue'[c] = queue[c]
         /\ queue'[c] \in {queue[c], Append(queue[c], f)}
<1> USE HubClientsAssumption DEF HubTypeOK, Offer, Room, Overflows
<1>1. queue[c] \in Seq(Frame) /\ Len(queue[c]) \in Nat /\ Len(queue[c]) <= QueueSize
  OBVIOUS
<1>2. Overflows(c) \/ Room(c)
  BY <1>1
<1>3. lagging'[c] = (lagging[c] \/ (c \in C /\ Overflows(c)))
  BY Zenon
<1>4. queue'[c] = IF c \in C /\ Room(c) THEN Append(queue[c], f) ELSE queue[c]
  BY Zenon
<1> HIDE DEF HubTypeOK, Offer, Room, Overflows
<1> QED BY <1>2, <1>3, <1>4

\* An offer keeps the queues within their size.
LEMMA OfferTypes ==
  ASSUME HubTypeOK, NEW C \in SUBSET Client, NEW f \in Frame, Offer(C, f)
  PROVE  /\ queue' \in [Client -> Seq(Frame)] /\ \A c \in Client : Len(queue'[c]) <= QueueSize
         /\ lagging' \in [Client -> BOOLEAN]
<1> USE HubClientsAssumption DEF HubTypeOK, Offer, Room
<1>1. ASSUME NEW c \in Client
      PROVE  /\ queue[c] \in Seq(Frame) /\ Append(queue[c], f) \in Seq(Frame)
             /\ Room(c) => Len(Append(queue[c], f)) <= QueueSize
  OBVIOUS
<1>2. lagging' \in [Client -> BOOLEAN]
  BY DEF Overflows
<1>3. queue' \in [Client -> Seq(Frame)]
  BY <1>1
<1>4. ASSUME NEW c \in Client PROVE Len(queue'[c]) <= QueueSize
  BY <1>1
<1> QED BY <1>2, <1>3, <1>4

\* An offer leaves a socket its last word on a subject, or makes the frame the last one.
LEMMA OfferTells ==
  ASSUME HubTypeOK, NEW C \in SUBSET Client, NEW f \in Frame, Offer(C, f), UNCHANGED heard,
         NEW c \in Client, ~lagging'[c], NEW t \in Topic, NEW w,
         IF c \in C /\ IsWord(f, t) THEN f.kind = w ELSE LastWord(heard[c][t], queue[c], Len(queue[c]), t, w)
  PROVE  LastWord(heard'[c][t], queue'[c], Len(queue'[c]), t, w)
<1>1. queue[c] \in Seq(Frame) /\ Len(Append(queue[c], f)) = Len(queue[c]) + 1
  BY DEF HubTypeOK
<1>2. CASE c \notin C
  BY <1>2, OfferOne
<1>3. CASE c \in C
  <2>1. queue'[c] = Append(queue[c], f)
    BY <1>3, OfferOne
  <2>2. CASE IsWord(f, t)
    BY <1>1, <1>3, <2>1, <2>2, SaidLast
  <2>3. CASE ~IsWord(f, t)
    BY <1>1, <1>3, <2>1, <2>3, SilentLast
  <2> QED BY <2>2, <2>3
<1> QED BY <1>2, <1>3

\* One more frame in a queue is announced if it is no data, or comes after a status.
LEMMA OneMoreAnnounced ==
  ASSUME NEW said, NEW q \in Seq(Frame), NEW f \in Frame, Announced(said, q),
         f.kind = "data" => \E s \in HubStatus : LastWord(said[f.topic], q, Len(q), f.topic, s)
  PROVE  Announced(said, Append(q, f))
<1> SUFFICES ASSUME NEW i \in DOMAIN Append(q, f), Append(q, f)[i].kind = "data"
             PROVE  \E s \in HubStatus :
                        LastWord(said[Append(q, f)[i].topic], Append(q, f), i, Append(q, f)[i].topic, s)
  BY DEF Announced
<1>1. CASE i = Len(q) + 1
  <2>1. Append(q, f)[i] = f
    BY <1>1
  <2>2. PICK s \in HubStatus : LastWord(said[f.topic], q, Len(q), f.topic, s)
    BY <2>1
  <2>3. ~IsWord(f, f.topic)
    BY <2>1 DEF IsWord, Word, HubStatus
  <2> QED BY <1>1, <2>1, <2>2, <2>3, SilentLast
<1>2. CASE i # Len(q) + 1
  <2>1. i \in DOMAIN q /\ i \in 0 .. Len(q) /\ Append(q, f)[i] = q[i]
    BY <1>2
  <2>2. PICK s \in HubStatus : LastWord(said[q[i].topic], q, i, q[i].topic, s)
    BY <2>1 DEF Announced
  <2> QED BY <2>1, <2>2, StillLast
<1> QED BY <1>1, <1>2

\* An offer of data to sockets that were last told a status announces what it adds.
LEMMA OfferAnnounces ==
  ASSUME HubTypeOK, DataIsAnnounced, NEW C \in SUBSET Client, NEW f \in Frame, Offer(C, f), UNCHANGED heard,
         f.kind = "data" => \A c \in C : ~lagging[c] =>
             \E s \in HubStatus : LastWord(heard[c][f.topic], queue[c], Len(queue[c]), f.topic, s)
  PROVE  DataIsAnnounced'
<1> SUFFICES ASSUME NEW c \in Client, ~lagging'[c] PROVE Announced(heard[c], queue'[c])
  BY DEF DataIsAnnounced
<1>1. queue[c] \in Seq(Frame) /\ ~lagging[c] /\ Announced(heard[c], queue[c])
  BY OfferOne DEF HubTypeOK, DataIsAnnounced
<1>2. CASE c \notin C
  BY <1>1, <1>2, OfferOne
<1>3. CASE c \in C
  <2>1. queue'[c] = Append(queue[c], f)
    BY <1>3, OfferOne
  <2>2. f.kind = "data" => \E s \in HubStatus : LastWord(heard[c][f.topic], queue[c], Len(queue[c]), f.topic, s)
    BY <1>1, <1>3
  <2> QED BY <1>1, <2>1, <2>2, OneMoreAnnounced
<1> QED BY <1>2, <1>3

\* Nobody is served, nothing is said.
LEMMA HubInvInit == HubInit => HubInv
<1> SUFFICES ASSUME HubInit PROVE HubInv
  OBVIOUS
<1> USE HubClientsAssumption DEF HubInit
<1>1. HubTypeOK
  <2>1. \A c \in Client : queue[c] = <<>> /\ Len(queue[c]) = 0
    OBVIOUS
  <2>2. queue \in [Client -> Seq(Frame)]
    OBVIOUS
  <2> QED BY <2>1, <2>2 DEF HubTypeOK, HubStatus, Topic, Word
<1>2. Following /\ Subscribed /\ ToldTheTruth /\ DrainIsFinal
  BY DEF Following, Subscribed, ToldTheTruth, DrainIsFinal, Topic
<1>3. DataIsAnnounced
  BY DEF DataIsAnnounced, Announced
<1> QED BY <1>1, <1>2, <1>3 DEF HubInv

\* Every step keeps the types.
LEMMA HubTypesStep == HubTypeOK /\ [HubNext]_hubVars => HubTypeOK'
<1> SUFFICES ASSUME HubTypeOK, [HubNext]_hubVars PROVE HubTypeOK'
  OBVIOUS
<1> USE HubClientsAssumption
<1>0. CASE UNCHANGED hubVars
  BY <1>0 DEF HubTypeOK, hubVars, follower, sockets, wire
<1>1. ASSUME NEW s \in HubStatus, NEW again \in BOOLEAN, SetStatus(s, again) PROVE HubTypeOK'
  BY <1>1 DEF HubTypeOK, SetStatus, Apply, Said, sockets, wire, Topic
<1>2. CASE Publish
  <2>1. pub \in Frame /\ subs[pub.topic] \in SUBSET Client /\ pub # None
    BY <1>2 DEF HubTypeOK, Publish, Frame, Word
  <2>2. Offer(subs[pub.topic], pub)
    BY <1>2 DEF Publish
  <2> QED BY <1>2, <2>1, <2>2, OfferTypes DEF HubTypeOK, Publish, sockets
<1>3. ASSUME NEW again \in BOOLEAN, Mirror(again) PROVE HubTypeOK'
  BY <1>3 DEF HubTypeOK, Mirror, Apply, Said, sockets, wire, Topic
<1>4. ASSUME NEW t \in Topic, PublishData(t) PROVE HubTypeOK'
  <2>1. Said(t, "data") \in Frame /\ Audience(t) \in SUBSET Client
    BY DEF Said, Frame, Audience, HubTypeOK
  <2> QED BY <1>4, <2>1, OfferTypes DEF HubTypeOK, PublishData, follower, sockets
<1>5. CASE Drain
  BY <1>5 DEF HubTypeOK, Drain, follower, sockets, wire
<1>6. ASSUME NEW c \in Client, Serve(c) PROVE HubTypeOK'
  <2>1. CASE Enter(c)
    BY <2>1 DEF HubTypeOK, Enter, Go, follower, wire
  <2>2. ASSUME NEW has \in BOOLEAN, Accept(c, has) PROVE HubTypeOK'
    BY <2>2 DEF HubTypeOK, Accept, Go, follower, wire
  <2>3. ASSUME NEW has \in BOOLEAN, Revalidate(c, has) PROVE HubTypeOK'
    BY <2>3 DEF HubTypeOK, Revalidate, Refreshed, Go, follower, wire
  <2>4. CASE Close(c)
    BY <2>4 DEF HubTypeOK, Close, Refused, Stops, Lags, Fails, Go, follower, wire
  <2>5. CASE Leave(c)
    <3>1. queue' \in [Client -> Seq(Frame)] /\ \A b \in Client : Len(queue'[b]) <= QueueSize
      <4>1. queue' = [queue EXCEPT ![c] = <<>>] /\ <<>> \in Seq(Frame) /\ Len(<<>>) = 0
        BY <2>5 DEF Leave
      <4> QED BY <4>1 DEF HubTypeOK
    <3>2. heard' \in [Client -> [Topic -> Word \cup {"none"}]]
      BY <2>5 DEF HubTypeOK, Leave
    <3>3. subs' \in [Topic -> SUBSET Client]
      BY <2>5 DEF HubTypeOK, Leave
    <3>4. at' \in [Client -> {"out", "entered", "serving", "dropping", "forbidding", "closing"}]
      BY <2>5 DEF HubTypeOK, Leave, Go
    <3> QED BY <2>5, <3>1, <3>2, <3>3, <3>4 DEF HubTypeOK, Leave, follower
  <2>6. CASE Misread(c)
    <3>1. [topic |-> None, kind |-> "error"] \in Frame
      BY DEF Frame
    <3> QED BY <2>6, <3>1, OfferTypes DEF HubTypeOK, Misread, follower, sockets
  <2>7. ASSUME NEW t \in Topic, Subscribe(c, t) PROVE HubTypeOK'
    <3>1. Said(t, statuses[t]) \in Frame
      BY DEF Said, Frame, Word, HubTypeOK
    <3>2. /\ queue' \in [Client -> Seq(Frame)] /\ \A b \in Client : Len(queue'[b]) <= QueueSize
          /\ lagging' \in [Client -> BOOLEAN]
      BY <2>7, <3>1, OfferTypes DEF Subscribe, Welcome, HubTypeOK
    <3> QED BY <2>7, <3>2 DEF HubTypeOK, Subscribe, follower, sockets
  <2>8. ASSUME NEW t \in Topic, Forbid(c, t) PROVE HubTypeOK'
    <3>1. Said(t, "forbidden") \in Frame
      BY DEF Said, Frame, Word
    <3> QED BY <2>8, <3>1, OfferTypes DEF HubTypeOK, Forbid, follower, sockets
  <2>9. ASSUME NEW t \in Topic, Unsubscribe(c, t) PROVE HubTypeOK'
    BY <2>9 DEF HubTypeOK, Unsubscribe, follower, sockets, wire
  <2>10. CASE DropForbidden(c)
    <3>1. subs' \in [Topic -> SUBSET Client]
      BY <2>10 DEF HubTypeOK, DropForbidden, Dropped, Topic
    <3> QED BY <2>10, <3>1 DEF HubTypeOK, DropForbidden, Go, follower, wire
  <2>11. CASE TellForbidden(c)
    <3>1. Said("billing", "forbidden") \in Frame
      BY DEF Said, Frame, Word, Topic
    <3> QED BY <2>11, <3>1, OfferTypes DEF HubTypeOK, TellForbidden, Go, follower, sockets
  <2>12. CASE Write(c)
    <3>1. queue[c] \in Seq(Frame) /\ queue[c] # <<>> /\ Len(queue[c]) <= QueueSize
      BY <2>12 DEF HubTypeOK, Write
    <3>2. Head(queue[c]) \in Frame /\ Tail(queue[c]) \in Seq(Frame) /\ Len(Tail(queue[c])) <= QueueSize
      BY <3>1
    <3>3. Head(queue[c]).kind \in Word => Head(queue[c]).topic \in Topic
      BY <3>2 DEF Frame, Word, HubStatus
    <3>4. queue' \in [Client -> Seq(Frame)] /\ \A b \in Client : Len(queue'[b]) <= QueueSize
      BY <2>12, <3>2 DEF HubTypeOK, Write
    <3>5. heard' \in [Client -> [Topic -> Word \cup {"none"}]]
      BY <2>12, <3>3 DEF HubTypeOK, Write
    <3> QED BY <2>12, <3>4, <3>5 DEF HubTypeOK, Write, follower, sockets
  <2> QED BY <1>6, <2>1, <2>2, <2>3, <2>4, <2>5, <2>6, <2>7, <2>8, <2>9, <2>10, <2>11, <2>12
          DEF Serve, Handle, Check
<1> QED BY <1>0, <1>1, <1>2, <1>3, <1>4, <1>5, <1>6 DEF HubNext, Follow

\* A socket enters and leaves with no subscription, and a check that refuses takes away
\* the one it refuses before the socket is served again; what is published is in the hub.
LEMMA SubscribedStep == HubInv /\ [HubNext]_hubVars => Following' /\ Subscribed' /\ DrainIsFinal'
<1> SUFFICES ASSUME HubInv, [HubNext]_hubVars PROVE Following' /\ Subscribed' /\ DrainIsFinal'
  OBVIOUS
<1> USE HubClientsAssumption DEF HubInv, HubTypeOK, Following, Subscribed, DrainIsFinal, Served
<1>0. CASE UNCHANGED hubVars
  BY <1>0 DEF hubVars, follower, sockets, wire
<1>1. CASE Follow
  BY <1>1 DEF Follow, SetStatus, Publish, Mirror, PublishData, Apply, Said, sockets, wire, follower, Topic
<1>2. CASE Drain
  BY <1>2 DEF Drain, follower, sockets, wire
<1>3. ASSUME NEW c \in Client, Serve(c) PROVE Following' /\ Subscribed' /\ DrainIsFinal'
  <2>1. CASE Enter(c)
    BY <2>1 DEF Enter, Admits, Go, follower, wire
  <2>2. ASSUME NEW has \in BOOLEAN, Accept(c, has) PROVE Following' /\ Subscribed' /\ DrainIsFinal'
    BY <2>2 DEF Accept, Go, follower, wire, Topic
  <2>3. ASSUME NEW has \in BOOLEAN, Revalidate(c, has) PROVE Following' /\ Subscribed' /\ DrainIsFinal'
    BY <2>3 DEF Revalidate, Refreshed, Go, follower, wire
  <2>4. CASE Close(c)
    BY <2>4 DEF Close, Refused, Stops, Lags, Fails, Go, follower, wire, Topic
  <2>5. CASE Leave(c)
    BY <2>5 DEF Leave, Go, follower, Topic
  <2>6. CASE Misread(c)
    BY <2>6 DEF Misread, follower, sockets
  <2>7. ASSUME NEW t \in Topic, Subscribe(c, t) \/ Forbid(c, t) \/ Unsubscribe(c, t)
        PROVE  Following' /\ Subscribed' /\ DrainIsFinal'
    <3>1. UNCHANGED <<statuses, pub, at, knows, granted, run>> /\ at[c] = "serving"
      BY <2>7 DEF Subscribe, Forbid, Unsubscribe, follower, sockets, wire
    <3>2. \A b \in Client, u \in Topic : b \in subs'[u] => b \in subs[u] \/ (b = c /\ u = t /\ Allowed(c, t))
      BY <2>7 DEF Subscribe, Forbid, Unsubscribe, wire
    <3> QED BY <3>1, <3>2 DEF Allowed, Topic
  <2>8. CASE DropForbidden(c)
    <3>1. \A b \in Client, u \in Topic : b \in subs'[u] => b \in subs[u]
      BY <2>8 DEF DropForbidden, Dropped, Topic
    <3>2. UNCHANGED <<statuses, pub, knows, granted, run>> /\ at[c] = "dropping"
      BY <2>8 DEF DropForbidden, follower
    <3>3. \A b \in Client : b # c => at'[b] = at[b]
      BY <2>8 DEF DropForbidden, Go
    <3>5. at'[c] = IF c \in subs["billing"] /\ ~Allowed(c, "billing") THEN "forbidding" ELSE "serving"
      BY <2>8 DEF DropForbidden, Go
    <3>6. at'[c] \in {"serving", "forbidding"} /\ (at'[c] = "forbidding" => ~knows[c])
      BY <3>5 DEF Allowed
    <3>4. ~knows[c] => c \notin subs'["billing"]
      BY <2>8 DEF DropForbidden, Dropped, Allowed, Topic
    <3> QED BY <3>1, <3>2, <3>3, <3>4, <3>6 DEF Topic
  <2>10. CASE TellForbidden(c)
    BY <2>10 DEF TellForbidden, Go, follower
  <2>9. CASE Write(c)
    BY <2>9 DEF Write, follower, sockets
  <2> QED BY <1>3, <2>1, <2>2, <2>3, <2>4, <2>5, <2>6, <2>7, <2>8, <2>9, <2>10
          DEF Serve, Handle, Check
<1> QED BY <1>0, <1>1, <1>2, <1>3 DEF HubNext

\* What a subscribed socket was last told stays what the hub knows: a status that changes
\* is about to be published, and publishing it, or welcoming a socket, tells it or cuts it.
LEMMA ToldStep == HubInv /\ [HubNext]_hubVars => ToldTheTruth'
<1> SUFFICES ASSUME HubInv, [HubNext]_hubVars,
                    NEW t \in Topic, NEW c \in Client, c \in subs'[t], ~lagging'[c]
             PROVE  \/ LastWord(heard'[c][t], queue'[c], Len(queue'[c]), t, statuses'[t])
                    \/ pub' = Said(t, statuses'[t])
  BY HubTypesStep DEF ToldTheTruth, HubInv, HubTypeOK
<1> USE HubClientsAssumption DEF HubInv
<1> DEFINE Told == LastWord(heard[c][t], queue[c], Len(queue[c]), t, statuses[t])
           ToldNow == LastWord(heard'[c][t], queue'[c], Len(queue'[c]), t, statuses'[t])
<1>0. c \in subs[t] /\ ~lagging[c] => Told \/ pub = Said(t, statuses[t])
  BY DEF ToldTheTruth
<1>1. CASE UNCHANGED <<statuses, subs, pub, wire>>
  BY <1>0, <1>1 DEF wire
<1>2. ASSUME NEW s \in HubStatus, NEW u \in Topic, NEW again \in BOOLEAN,
             Apply(u, s, again), pub = None, UNCHANGED <<subs, wire>>
      PROVE  ToldNow \/ pub' = Said(t, statuses'[t])
  <2>1. Told
    BY <1>0, <1>2 DEF wire, Said, HubTypeOK
  <2>2. statuses'[u] = s /\ (u # t => statuses'[t] = statuses[t])
    BY <1>2 DEF Apply, HubTypeOK
  <2>3. CASE statuses'[t] = statuses[t]
    BY <1>2, <2>1, <2>3 DEF wire
  <2>4. CASE statuses'[t] # statuses[t]
    BY <1>2, <2>2, <2>4 DEF Apply
  <2> QED BY <2>3, <2>4
<1>3. CASE Publish
  <2>1. pub \in Frame /\ subs[pub.topic] \in SUBSET Client /\ pub # None
    BY <1>3 DEF HubTypeOK, Publish, Frame, Word
  <2>2. Offer(subs[pub.topic], pub) /\ UNCHANGED <<statuses, subs, heard>>
    BY <1>3 DEF Publish
  <2>3. ~lagging[c] /\ HubTypeOK
    BY <2>1, <2>2, OfferOne
  <2>4. CASE t = pub.topic
    <3>1. IsWord(pub, t) /\ pub.kind = statuses[t]
      BY <2>1, <2>4 DEF Following, IsWord, Word, HubTypeOK
    <3> QED BY <2>1, <2>2, <2>3, <2>4, <3>1, OfferTells
  <2>5. CASE t # pub.topic
    <3>1. ~IsWord(pub, t) /\ Told
      BY <1>0, <2>2, <2>3, <2>5 DEF IsWord, Said
    <3> QED BY <2>1, <2>2, <2>3, <3>1, OfferTells
  <2> QED BY <2>4, <2>5
<1>4. ASSUME NEW C \in SUBSET Client, NEW f \in Frame, Offer(C, f), UNCHANGED <<statuses, pub, heard>>,
             c \in C => ~IsWord(f, t), c \in subs[t]
      PROVE  ToldNow \/ pub' = Said(t, statuses'[t])
  <2>1. ~lagging[c]
    BY <1>4, OfferOne
  <2> QED BY <1>0, <1>4, <2>1, OfferTells
<1>5. ASSUME NEW u \in Topic, PublishData(u) PROVE ToldNow \/ pub' = Said(t, statuses'[t])
  <2>1. Said(u, "data") \in Frame /\ Audience(u) \in SUBSET Client /\ ~IsWord(Said(u, "data"), t)
    BY DEF Said, Frame, Audience, HubTypeOK, IsWord, Word, HubStatus
  <2> QED BY <1>4, <1>5, <2>1 DEF PublishData, follower
<1>6. ASSUME NEW b \in Client, Serve(b) PROVE ToldNow \/ pub' = Said(t, statuses'[t])
  <2>1. CASE Enter(b) \/ Close(b) \/ \E has \in BOOLEAN : Accept(b, has) \/ Revalidate(b, has)
    BY <1>1, <2>1 DEF Enter, Close, Accept, Revalidate, follower
  <2>2. CASE Leave(b)
    <3>1. b # c /\ c \in subs[t]
      BY <2>2 DEF Leave, HubTypeOK
    <3>2. UNCHANGED <<statuses, pub, queue[c], lagging[c], heard[c]>>
      BY <2>2, <3>1 DEF Leave, HubTypeOK, follower
    <3> QED BY <1>0, <3>1, <3>2
  <2>3. CASE Misread(b)
    <3> DEFINE f == [topic |-> None, kind |-> "error"]
    <3>1. f \in Frame /\ ~IsWord(f, t)
      BY DEF Frame, IsWord, Word, HubStatus
    <3> QED BY <1>4, <2>3, <3>1 DEF Misread, follower
  <2>4. ASSUME NEW u \in Topic, Subscribe(b, u) PROVE ToldNow \/ pub' = Said(t, statuses'[t])
    <3>1. UNCHANGED <<statuses, pub, heard>>
      BY <2>4 DEF Subscribe, follower
    <3>2. c \in subs[t] \/ (c = b /\ t = u)
      BY <2>4 DEF Subscribe, HubTypeOK
    <3>3. CASE b \in subs[u]
      BY <1>0, <2>4, <3>1, <3>2, <3>3 DEF Subscribe
    <3>4. CASE b \notin subs[u]
      <4>1. Said(u, statuses[u]) \in Frame /\ Offer({b}, Said(u, statuses[u]))
        BY <2>4, <3>4 DEF Subscribe, Welcome, Said, Frame, Word, HubTypeOK
      <4>2. CASE c = b /\ t = u
        <5>1. IsWord(Said(u, statuses[u]), t) /\ Said(u, statuses[u]).kind = statuses[t]
          BY <4>2 DEF IsWord, Said, Word, HubTypeOK
        <5> QED BY <3>1, <4>1, <4>2, <5>1, OfferTells
      <4>3. CASE c # b \/ t # u
        <5>1. c \in {b} => ~IsWord(Said(u, statuses[u]), t)
          BY <4>3 DEF IsWord, Said
        <5> QED BY <1>4, <3>1, <3>2, <4>1, <4>3, <5>1
      <4> QED BY <4>2, <4>3
    <3> QED BY <3>3, <3>4
  <2>5. ASSUME NEW u \in Topic, Offer({b}, Said(u, "forbidden")), b \notin subs[u],
               UNCHANGED <<statuses, pub, heard>>, subs' = subs
        PROVE  ToldNow \/ pub' = Said(t, statuses'[t])
    <3>1. Said(u, "forbidden") \in Frame
      BY DEF Said, Frame, Word
    <3>2. c \in {b} => ~IsWord(Said(u, "forbidden"), t)
      BY <2>5 DEF IsWord, Said
    <3> QED BY <1>4, <2>5, <3>1, <3>2
  <2>6. ASSUME NEW u \in Topic, Forbid(b, u) PROVE ToldNow \/ pub' = Said(t, statuses'[t])
    <3>1. b \notin subs[u]
      BY <2>6 DEF Forbid, Allowed, Subscribed, Topic
    <3> QED BY <2>5, <2>6, <3>1 DEF Forbid, follower
  <2>7. ASSUME NEW u \in Topic, Unsubscribe(b, u) PROVE ToldNow \/ pub' = Said(t, statuses'[t])
    <3>1. c \in subs[t]
      BY <2>7 DEF Unsubscribe, HubTypeOK
    <3> QED BY <1>0, <2>7, <3>1 DEF Unsubscribe, follower, wire
  <2>8. CASE DropForbidden(b)
    <3>1. c \in subs[t]
      BY <2>8 DEF DropForbidden, Dropped, HubTypeOK, Topic
    <3> QED BY <1>0, <2>8, <3>1 DEF DropForbidden, follower, wire
  <2>9. CASE TellForbidden(b)
    <3>1. b \notin subs["billing"]
      BY <2>9 DEF TellForbidden, Subscribed, Topic
    <3>2. Offer({b}, Said("billing", "forbidden")) /\ UNCHANGED <<statuses, pub, heard, subs>>
      BY <2>9 DEF TellForbidden, follower
    <3>3. "billing" \in Topic
      BY DEF Topic
    <3> QED BY <2>5, <3>1, <3>2, <3>3
  <2>10. CASE Write(b)
    <3>1. UNCHANGED <<statuses, pub, subs, lagging>>
      BY <2>10 DEF Write, follower
    <3>2. CASE b # c
      <4>1. queue'[c] = queue[c] /\ heard'[c] = heard[c]
        BY <2>10, <3>2 DEF Write, HubTypeOK
      <4> QED BY <1>0, <3>1, <4>1
    <3>3. CASE b = c
      <4> DEFINE q == queue[c]
      <4>1. /\ q \in Seq(Frame) /\ q # <<>> /\ q[1] = Head(q) /\ q[1] \in Frame
            /\ Len(q) \in 1 .. Len(q) /\ Len(Tail(q)) = Len(q) - 1
        BY <2>10, <3>3 DEF Write, HubTypeOK
      <4>2. queue'[c] = Tail(q)
        BY <2>10, <3>3 DEF Write, HubTypeOK
      <4>3. q[1].kind \in Word => q[1].topic \in Topic
        BY <4>1 DEF Frame, Word, HubStatus
      <4>4. heard'[c][t] = IF IsWord(q[1], t) THEN q[1].kind ELSE heard[c][t]
        <5>1. heard' = IF q[1].kind \in Word THEN [heard EXCEPT ![c][q[1].topic] = q[1].kind] ELSE heard
          BY <2>10, <3>3, <4>1 DEF Write
        <5> HIDE DEF q
        <5>2. CASE q[1].kind \in Word
          BY <4>3, <5>1, <5>2 DEF HubTypeOK, IsWord
        <5>3. CASE q[1].kind \notin Word
          BY <5>1, <5>3 DEF IsWord
        <5> QED BY <5>2, <5>3
      <4> HIDE DEF q
      <4>5. LastWord(heard[c][t], q, Len(q), t, statuses[t]) => ToldNow
        BY <3>1, <4>1, <4>2, <4>4, ReadLast
      <4> QED BY <1>0, <3>1, <4>5 DEF q
    <3> QED BY <3>2, <3>3
  <2> QED BY <1>6, <2>1, <2>2, <2>3, <2>4, <2>6, <2>7, <2>8, <2>9, <2>10 DEF Serve, Handle, Check
<1>7. CASE Follow
  <2>1. ASSUME NEW s \in HubStatus, NEW again \in BOOLEAN, SetStatus(s, again) PROVE ToldNow \/ pub' = Said(t, statuses'[t])
    BY <1>2, <2>1 DEF SetStatus, FollowerIdle, Topic
  <2>2. ASSUME NEW again \in BOOLEAN, Mirror(again) PROVE ToldNow \/ pub' = Said(t, statuses'[t])
    BY <1>2, <2>2 DEF Mirror, Topic, HubTypeOK
  <2> QED BY <1>3, <1>5, <1>7, <2>1, <2>2 DEF Follow
<1>8. CASE Drain
  BY <1>1, <1>8 DEF Drain, follower
<1>9. CASE UNCHANGED hubVars
  BY <1>1, <1>9 DEF hubVars, follower
<1> QED BY <1>6, <1>7, <1>8, <1>9 DEF HubNext

\* Data goes to sockets that were told a status of its subject; what waits before it is
\* read before it.
LEMMA AnnouncedStep == HubInv /\ [HubNext]_hubVars => DataIsAnnounced'
<1> SUFFICES ASSUME HubInv, [HubNext]_hubVars PROVE DataIsAnnounced'
  OBVIOUS
<1> USE HubClientsAssumption DEF HubInv
<1>1. CASE UNCHANGED wire
  BY <1>1 DEF DataIsAnnounced, wire
<1>2. ASSUME NEW C \in SUBSET Client, NEW f \in Frame, Offer(C, f), UNCHANGED heard, f.kind # "data"
      PROVE  DataIsAnnounced'
  BY <1>2, OfferAnnounces
<1>3. ASSUME NEW t \in Topic, PublishData(t) PROVE DataIsAnnounced'
  <2> DEFINE f == Said(t, "data")
  <2>1. f \in Frame /\ f.topic = t /\ Audience(t) \in SUBSET subs[t] /\ Audience(t) \in SUBSET Client
    BY DEF Said, Frame, Audience, HubTypeOK
  <2>2. ASSUME NEW c \in Audience(t), ~lagging[c]
        PROVE  \E s \in HubStatus : LastWord(heard[c][t], queue[c], Len(queue[c]), t, s)
    <3>1. pub # Said(t, statuses[t]) /\ statuses[t] \in HubStatus
      BY <1>3 DEF PublishData, FollowerIdle, Said, HubTypeOK
    <3> QED BY <2>1, <2>2, <3>1 DEF ToldTheTruth
  <2>3. Offer(Audience(t), f) /\ UNCHANGED heard
    BY <1>3 DEF PublishData
  <2> HIDE DEF f
  <2> QED BY <2>1, <2>2, <2>3, OfferAnnounces
<1>4. CASE Follow
  <2>1. CASE Publish
    <3>1. pub \in Frame /\ subs[pub.topic] \in SUBSET Client /\ pub.kind # "data"
      BY <2>1 DEF HubTypeOK, Publish, Frame, Word, HubStatus
    <3> QED BY <1>2, <2>1, <3>1 DEF Publish
  <2> QED BY <1>1, <1>3, <1>4, <2>1 DEF Follow, SetStatus, Mirror
<1>5. ASSUME NEW c \in Client, Serve(c) PROVE DataIsAnnounced'
  <2>1. CASE Enter(c) \/ Close(c) \/ \E has \in BOOLEAN : Accept(c, has) \/ Revalidate(c, has)
    BY <1>1, <2>1 DEF Enter, Close, Accept, Revalidate
  <2>2. CASE Leave(c)
    <3> SUFFICES ASSUME NEW b \in Client, ~lagging'[b] PROVE Announced(heard'[b], queue'[b])
      BY DEF DataIsAnnounced
    <3>1. CASE b = c
      <4>1. queue'[b] = <<>>
        BY <2>2, <3>1 DEF Leave, HubTypeOK
      <4> QED BY <4>1 DEF Announced
    <3>2. CASE b # c
      <4>1. queue'[b] = queue[b] /\ lagging'[b] = lagging[b] /\ heard'[b] = heard[b]
        BY <2>2, <3>2 DEF Leave, HubTypeOK
      <4> QED BY <4>1 DEF DataIsAnnounced
    <3> QED BY <3>1, <3>2
  <2>3. CASE Misread(c)
    <3>1. [topic |-> None, kind |-> "error"] \in Frame
      BY DEF Frame
    <3> QED BY <1>2, <2>3, <3>1 DEF Misread
  <2>4. ASSUME NEW t \in Topic, Subscribe(c, t) PROVE DataIsAnnounced'
    <3>1. Said(t, statuses[t]) \in Frame /\ Said(t, statuses[t]).kind # "data"
      BY DEF Said, Frame, Word, HubStatus, HubTypeOK
    <3>2. CASE Offer({c}, Said(t, statuses[t]))
      BY <1>2, <2>4, <3>1, <3>2 DEF Subscribe
    <3>3. CASE UNCHANGED <<queue, lagging>>
      BY <1>1, <2>4, <3>3 DEF Subscribe, wire
    <3> QED BY <2>4, <3>2, <3>3 DEF Subscribe, Welcome
  <2>5. ASSUME NEW t \in Topic, Offer({c}, Said(t, "forbidden")), UNCHANGED heard PROVE DataIsAnnounced'
    <3>1. Said(t, "forbidden") \in Frame /\ Said(t, "forbidden").kind # "data"
      BY DEF Said, Frame, Word
    <3> QED BY <1>2, <2>5, <3>1
  <2>6. ASSUME NEW t \in Topic, Forbid(c, t) \/ Unsubscribe(c, t) PROVE DataIsAnnounced'
    BY <1>1, <2>5, <2>6 DEF Forbid, Unsubscribe
  <2>7. CASE Check(c)
    BY <1>1, <2>5, <2>7 DEF Check, DropForbidden, TellForbidden, Topic
  <2>8. CASE Write(c)
    <3> SUFFICES ASSUME NEW b \in Client, ~lagging'[b] PROVE Announced(heard'[b], queue'[b])
      BY DEF DataIsAnnounced
    <3>1. CASE b # c
      <4>1. queue'[b] = queue[b] /\ lagging'[b] = lagging[b] /\ heard'[b] = heard[b]
        BY <2>8, <3>1 DEF Write, HubTypeOK
      <4> QED BY <4>1 DEF DataIsAnnounced
    <3>2. CASE b = c
      <4> DEFINE q == queue[c]
                 r == Tail(q)
      <4>1. q \in Seq(Frame) /\ q # <<>> /\ q[1] = Head(q) /\ q[1] \in Frame /\ queue'[c] = r
        BY <2>8 DEF Write, HubTypeOK
      <4>2. q[1].kind \in Word => q[1].topic \in Topic
        BY <4>1 DEF Frame, Word, HubStatus
      <4>3. Announced(heard[c], q)
        BY <2>8, <3>2 DEF DataIsAnnounced, Write
      <4> SUFFICES ASSUME NEW i \in DOMAIN r, r[i].kind = "data"
                   PROVE  \E s \in HubStatus : LastWord(heard'[c][r[i].topic], r, i, r[i].topic, s)
        BY <3>2, <4>1 DEF Announced
      <4>4. i \in Nat /\ i + 1 \in DOMAIN q /\ i + 1 \in 1 .. Len(q) /\ r[i] = q[i + 1] /\ q[i + 1] \in Frame
        BY <4>1
      <4> DEFINE t == r[i].topic
      <4>5. t \in Topic
        BY <4>4 DEF Frame
      <4>6. heard'[c][t] = IF IsWord(q[1], t) THEN q[1].kind ELSE heard[c][t]
        <5>1. heard' = IF q[1].kind \in Word THEN [heard EXCEPT ![c][q[1].topic] = q[1].kind] ELSE heard
          BY <2>8, <4>1 DEF Write
        <5> HIDE DEF q, t
        <5>2. CASE q[1].kind \in Word
          BY <4>2, <4>5, <5>1, <5>2 DEF HubTypeOK, IsWord
        <5>3. CASE q[1].kind \notin Word
          BY <5>1, <5>3 DEF IsWord
        <5> QED BY <5>2, <5>3
      <4>7. PICK s \in HubStatus : LastWord(heard[c][t], q, i + 1, t, s)
        BY <4>3, <4>4 DEF Announced
      <4>8. LastWord(IF IsWord(q[1], t) THEN q[1].kind ELSE heard[c][t], r, (i + 1) - 1, t, s)
        <5> HIDE DEF q, t
        <5> QED BY <4>1, <4>4, <4>7, ReadLast DEF r
      <4>9. (i + 1) - 1 = i
        BY <4>4
      <4> HIDE DEF q, r, t
      <4>10. LastWord(heard'[c][t], r, i, t, s)
        BY <4>6, <4>8, <4>9
      <4> QED BY <4>10 DEF t
    <3> QED BY <3>1, <3>2
  <2> QED BY <1>5, <2>1, <2>2, <2>3, <2>4, <2>6, <2>7, <2>8 DEF Serve, Handle
<1>6. CASE Drain \/ UNCHANGED hubVars
  BY <1>1, <1>6 DEF Drain, hubVars
<1> QED BY <1>4, <1>5, <1>6 DEF HubNext

THEOREM HubInvariant == HubSpec => []HubInv
<1>1. HubInv /\ [HubNext]_hubVars => HubInv'
  BY HubTypesStep, SubscribedStep, ToldStep, AnnouncedStep DEF HubInv
<1> QED BY HubInvInit, <1>1, PTL DEF HubSpec

\* The state of the hub keeps its shape: no queue outgrows queueSize (hub.go, offer).
THEOREM HubTypes == HubSpec => []HubTypeOK
<1>1. HubInv => HubTypeOK
  BY DEF HubInv
<1> QED BY HubInvariant, <1>1, PTL

\* A subscribed socket that is not being closed was told what the hub knows, or is about
\* to be, whatever the order of statuses, subscriptions and checks (hub.go, applyStatus).
THEOREM SocketsKnowTheStatus == HubSpec => []ToldTheTruth
<1>1. HubInv => ToldTheTruth
  BY DEF HubInv
<1> QED BY HubInvariant, <1>1, PTL

\* A frame never reaches a socket before the status of its subject, nor after its refusal
\* (hub.go, subscribe, dropForbidden).
THEOREM DataFollowsStatus == HubSpec => []DataIsAnnounced
<1>1. HubInv => DataIsAnnounced
  BY DEF HubInv
<1> QED BY HubInvariant, <1>1, PTL

\* No socket comes in behind the wait of the drain (hub.go, enter and draining).
THEOREM NobodyAfterTheDrain == HubSpec => []DrainIsFinal
<1>1. HubInv => DrainIsFinal
  BY DEF HubInv
<1> QED BY HubInvariant, <1>1, PTL

\* The only data that is offered goes to sockets whose last check allowed it.
LEMMA SilentStep ==
  HubInv /\ [HubNext]_hubVars =>
      \A c \in Client : at[c] = "serving" /\ ~knows[c] /\ Len(queue'[c]) > Len(queue[c])
                             => queue'[c][Len(queue'[c])].kind # "data"
<1> SUFFICES ASSUME HubInv, [HubNext]_hubVars, NEW c \in Client,
                    at[c] = "serving", ~knows[c], Len(queue'[c]) > Len(queue[c])
             PROVE  queue'[c][Len(queue'[c])].kind # "data"
  OBVIOUS
<1> USE HubClientsAssumption DEF HubInv
<1> DEFINE q == queue[c]
<1>1. q \in Seq(Frame) /\ Len(q) \in Nat /\ queue'[c] # q /\ queue'[c] # <<>>
  <2>1. q \in Seq(Frame) /\ Len(q) \in Nat
    BY DEF HubTypeOK
  <2>2. Len(<<>>) = 0
    OBVIOUS
  <2> QED BY <2>1, <2>2
<1>2. ASSUME NEW C \in SUBSET Client, NEW f \in Frame, Offer(C, f), f.kind # "data" \/ c \notin C
      PROVE  queue'[c][Len(queue'[c])].kind # "data"
  <2>1. queue'[c] = Append(q, f) /\ c \in C
    BY <1>1, <1>2, OfferOne
  <2>2. Append(q, f)[Len(Append(q, f))] = f
    BY <1>1
  <2> QED BY <1>2, <2>1, <2>2
<1>3. CASE Follow
  <2>1. CASE Publish
    <3>1. pub \in Frame /\ subs[pub.topic] \in SUBSET Client /\ pub.kind # "data"
      BY <2>1 DEF HubTypeOK, Publish, Frame, Word, HubStatus
    <3> QED BY <1>2, <2>1, <3>1 DEF Publish
  <2>2. ASSUME NEW t \in Topic, PublishData(t) PROVE queue'[c][Len(queue'[c])].kind # "data"
    <3>1. Said(t, "data") \in Frame /\ Audience(t) \in SUBSET Client
      BY DEF Said, Frame, Audience, HubTypeOK
    <3>2. c \notin Audience(t)
      BY DEF Audience, Subscribed, Topic
    <3> QED BY <1>2, <2>2, <3>1, <3>2 DEF PublishData
  <2> QED BY <1>1, <1>3, <2>1, <2>2 DEF Follow, SetStatus, Mirror, wire
<1>4. ASSUME NEW b \in Client, Serve(b) PROVE queue'[c][Len(queue'[c])].kind # "data"
  <2>1. CASE Enter(b) \/ Close(b) \/ \E has \in BOOLEAN : Accept(b, has) \/ Revalidate(b, has)
    BY <1>1, <2>1 DEF Enter, Close, Accept, Revalidate, wire
  <2>2. CASE Leave(b)
    <3>1. queue'[c] = q \/ queue'[c] = <<>>
      BY <2>2 DEF Leave, HubTypeOK
    <3> QED BY <1>1, <3>1
  <2>3. CASE Misread(b)
    <3>1. [topic |-> None, kind |-> "error"] \in Frame
      BY DEF Frame
    <3> QED BY <1>2, <2>3, <3>1 DEF Misread
  <2>4. ASSUME NEW t \in Topic, Subscribe(b, t) PROVE queue'[c][Len(queue'[c])].kind # "data"
    <3>1. Said(t, statuses[t]) \in Frame /\ Said(t, statuses[t]).kind # "data"
      BY DEF Said, Frame, Word, HubStatus, HubTypeOK
    <3> QED BY <1>1, <1>2, <2>4, <3>1 DEF Subscribe, Welcome
  <2>5. ASSUME NEW t \in Topic, Offer({b}, Said(t, "forbidden")) PROVE queue'[c][Len(queue'[c])].kind # "data"
    <3>1. Said(t, "forbidden") \in Frame /\ Said(t, "forbidden").kind # "data"
      BY DEF Said, Frame, Word
    <3> QED BY <1>2, <2>5, <3>1
  <2>6. ASSUME NEW t \in Topic, Forbid(b, t) \/ Unsubscribe(b, t)
        PROVE  queue'[c][Len(queue'[c])].kind # "data"
    BY <1>1, <2>5, <2>6 DEF Forbid, Unsubscribe, wire
  <2>7. CASE Check(b)
    BY <1>1, <2>5, <2>7 DEF Check, DropForbidden, TellForbidden, Topic, wire
  <2>8. CASE Write(b)
    <3>1. queue'[c] = q \/ (q # <<>> /\ queue'[c] = Tail(q))
      BY <2>8 DEF Write, HubTypeOK
    <3>2. q # <<>> => Len(Tail(q)) = Len(q) - 1
      BY <1>1
    <3>3. Len(queue'[c]) > Len(q)
      OBVIOUS
    <3> HIDE DEF q
    <3> QED BY <1>1, <3>1, <3>2, <3>3
  <2> QED BY <1>4, <2>1, <2>2, <2>3, <2>4, <2>6, <2>7, <2>8 DEF Serve, Handle
<1>5. CASE Drain \/ UNCHANGED hubVars
  BY <1>1, <1>5 DEF Drain, hubVars, wire
<1> QED BY <1>3, <1>4, <1>5 DEF HubNext

\* Once a check found the permission gone, the socket is sent no more of what needs it,
\* whatever was subscribed before and whoever publishes (hub.go, setGranted, dropForbidden).
THEOREM RevocationIsFollowed == HubSpec => RevokedIsSilent
<1>1. HubInv /\ [HubNext]_hubVars =>
        [\A c \in Client : at[c] = "serving" /\ ~knows[c] /\ Len(queue'[c]) > Len(queue[c])
                               => queue'[c][Len(queue'[c])].kind # "data"]_hubVars
  BY SilentStep
<1> QED BY <1>1, HubInvariant, PTL DEF HubSpec, RevokedIsSilent
=============================================================================
