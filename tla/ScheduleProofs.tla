---------------------------- MODULE ScheduleProofs ----------------------------
(***************************************************************************)
(* Machine-checked proofs about Schedule, for any schedules, cron minutes, *)
(* look-back horizon and number of kills, failing writes, clock changes,   *)
(* refused submissions and blocked minutes.                                *)
(***************************************************************************)
EXTENDS Schedule, TLAPS

\* A write of the snapshot leaves the file as it was or equal to memory.
LEMMA SaveEffect ==
  ASSUME Saved \/ SaveFails, faults \in Nat
  PROVE  /\ \/ dpresent' = dpresent /\ dlast' = dlast
            \/ dpresent' = present' /\ dlast' = last'
         /\ faults' \in Nat
BY DEF Saved, SaveFails

\* PutSchedule changes the marker of one schedule only.
LEMMA PutEffect ==
  ASSUME TypeOK, NEW s \in Schedules, NEW t \in Times, PutSchedule(s, t)
  PROVE  /\ last' \in [Schedules -> Times]
         /\ last'[s] = t /\ \A r \in Schedules : r # s => last'[r] = last[r]
         /\ present' = present \cup {s} /\ present' \subseteq Schedules
BY DEF PutSchedule, TypeOK

\* A fire is appended to the list of one schedule.
LEMMA AppendFire ==
  ASSUME NEW S, NEW q \in Seq(S), NEW t \in S
  PROVE  /\ Append(q, t) \in Seq(S)
         /\ Len(q) \in Nat /\ Len(Append(q, t)) = Len(q) + 1
         /\ Append(q, t)[Len(q) + 1] = t
         /\ \A i \in 1..Len(q) : Append(q, t)[i] = q[i] /\ q[i] \in S
<1>1. Append(q, t) \in Seq(S) /\ Len(q) \in Nat /\ Len(Append(q, t)) = Len(q) + 1
  OBVIOUS
<1>2. Append(q, t)[Len(q) + 1] = t
  OBVIOUS
<1>3. ASSUME NEW i \in 1..Len(q) PROVE Append(q, t)[i] = q[i] /\ q[i] \in S
  <2>1. q[i] \in S
    OBVIOUS
  <2>2. Append(q, t)[i] = q[i]
    BY <1>1
  <2> QED
    BY <2>1, <2>2
<1> QED
  BY <1>1, <1>2, <1>3

\* Every fire is a minute of the clock.
LEMMA FireTime ==
  ASSUME TypeOK, NEW r \in Schedules, NEW i \in 1..Len(fires[r])
  PROVE  fires[r][i] \in 1..MaxTime
<1>1. fires[r] \in Seq(1..MaxTime)
  BY DEF TypeOK
<1>2. ASSUME NEW S, NEW q \in Seq(S), NEW j \in 1..Len(q) PROVE q[j] \in S
  OBVIOUS
<1> QED
  BY <1>1, <1>2

\* What is due has a slot after every fire its marker covers.
LEMMA DueIsEarned ==
  ASSUME NEW s, NEW l \in Times, NEW t \in 1..MaxTime, NEW f \in 1..MaxTime,
         rewinds = 0 \/ refused = 0,
         ~Rewound(l, t), Wanted(s, l, t), Covers(f, l, t)
  PROVE  \E m \in Slots : f < m /\ m <= t
<1> USE ScheduleAssumption DEF Times
<1>1. CASE Matches(t) /\ l # t
  <2>1. l = 0 \/ l < t
    BY <1>1 DEF Rewound
  <2>2. f < t
    BY <1>1, <2>1 DEF Covers
  <2> QED
    BY <1>1, <2>2 DEF Matches
<1>2. CASE l # 0 /\ \E m \in PreviousMatches(t) : l < m
  <2>1. PICK m \in PreviousMatches(t) : l < m
    BY <1>2
  <2>2. f <= l /\ m \in Slots /\ m < t
    BY <1>2, <2>1 DEF Covers, PreviousMatches
  <2> QED
    BY <2>1, <2>2
<1> QED
  BY <1>1, <1>2 DEF Wanted

-----------------------------------------------------------------------------
LEMMA ScheduleInvInit == Init => ScheduleInv
<1> SUFFICES ASSUME Init PROVE ScheduleInv
  OBVIOUS
<1>1. TypeOK
  <2>1. busy \in BOOLEAN /\ closed \in BOOLEAN
    BY DEF Init
  <2>2. << >> \in Seq(1..MaxTime)
    OBVIOUS
  <2>3. 1 \in 1..MaxTime /\ 0 \in Times
    BY ScheduleAssumption DEF Times
  <2>4. /\ last \in [Schedules -> Times] /\ dlast \in [Schedules -> Times]
        /\ copy \in [Schedules -> Times] /\ fires \in [Schedules -> Seq(1..MaxTime)]
    BY <2>2, <2>3 DEF Init
  <2>5. {rewinds, refused, blocks, faults, kills} \subseteq Nat
    BY DEF Init
  <2> QED
    BY <2>1, <2>3, <2>4, <2>5 DEF Init, TypeOK
<1>2. \A s \in Schedules : fires[s] = << >> /\ Len(fires[s]) = 0
  BY DEF Init
<1>3. TickerShape /\ OnlyCreated /\ MarkedIsDue
  BY <1>2 DEF Init, TickerShape, OnlyCreated, MarkedIsDue
<1>4. Covered /\ FireIsEarned
  BY <1>2 DEF Covered, FireIsEarned
<1> QED
  BY <1>1, <1>3, <1>4 DEF ScheduleInv

LEMMA CreateKeeps == ASSUME ScheduleInv, NEW s \in Schedules, Create(s) PROVE ScheduleInv'
<1> USE ScheduleAssumption
<1>0. TypeOK /\ TickerShape /\ OnlyCreated /\ Covered /\ MarkedIsDue /\ FireIsEarned
  BY DEF ScheduleInv
<1>1. 0 \in Times
  BY <1>0 DEF TypeOK, Times
<1>2. /\ last' \in [Schedules -> Times]
      /\ last'[s] = 0 /\ \A r \in Schedules : r # s => last'[r] = last[r]
      /\ present' = present \cup {s} /\ present' \subseteq Schedules
  BY <1>0, <1>1, PutEffect DEF Create
<1>3. /\ \/ dpresent' = dpresent /\ dlast' = dlast
         \/ dpresent' = present' /\ dlast' = last'
      /\ faults' \in Nat
  BY <1>0, SaveEffect DEF Create, TypeOK
<1>5. TypeOK'
  <2>1. busy' \in BOOLEAN /\ closed' \in BOOLEAN
    BY <1>0 DEF Create, store, ticker, history, counts, TypeOK
  <2>2. {rewinds', refused', blocks', faults', kills'} \subseteq Nat
    BY <1>0, <1>2, <1>3 DEF Create, store, ticker, history, counts, TypeOK
  <2> QED
    BY <1>0, <1>2, <1>3, <2>1, <2>2 DEF Create, store, ticker, history, counts, TypeOK, Times
<1>6. TickerShape'
  BY <1>0, <1>2, <1>3 DEF Create, store, ticker, history, counts, TypeOK, TickerShape
<1>7. OnlyCreated'
  BY <1>0, <1>2, <1>3 DEF Create, store, ticker, history, counts, TypeOK, OnlyCreated,
     TickerShape
<1>8. Covered'
  <2> SUFFICES ASSUME NEW r \in Schedules, NEW i \in 1..Len(fires'[r])
               PROVE  /\ Covers(fires[r][i], last[r], now)'
                      /\ Covers(fires[r][i], dlast[r], now)'
                      /\ r \in todo' => Covers(fires[r][i], copy[r], tnow)'
    BY DEF Covered
  <2>1. /\ fires' = fires /\ i \in 1..Len(fires[r]) /\ fires[r][i] \in 1..MaxTime
        /\ Covers(fires[r][i], last[r], now) /\ Covers(fires[r][i], dlast[r], now)
        /\ r \in todo => Covers(fires[r][i], copy[r], tnow)
    <3>1. fires' = fires
      BY DEF Create, history
    <3>2. i \in 1..Len(fires[r]) /\ fires[r][i] \in 1..MaxTime
      BY <1>0, <3>1, FireTime
    <3> QED
      BY <1>0, <3>1, <3>2 DEF Covered
  <2>2. /\ last'[r] = (IF r = s THEN 0 ELSE last[r])
        /\ dlast'[r] = dlast[r] \/ dlast'[r] = last'[r]
    BY <1>2, <1>3
  <2>3. /\ now' = now /\ tnow' = tnow /\ copy' = copy /\ todo' \subseteq todo
        /\ refused' = refused /\ rewinds' = rewinds
    BY DEF Create, store, ticker, history, counts
  <2>4. r # s
    BY <1>0, <2>1 DEF Create, OnlyCreated
  <2>5. now \in 1..MaxTime /\ tnow \in 1..MaxTime
    BY <1>0 DEF TypeOK
  <2>6. refused' # 0 \/ refused' = refused
    BY <2>3
  <2> QED
    BY <2>1, <2>2, <2>3, <2>4, <2>5, <2>6 DEF Covers
<1>9. MarkedIsDue'
  <2>1. /\ cur' = cur /\ tnow' = tnow /\ fires' = fires
        /\ rewinds' = rewinds /\ refused' = refused
    BY DEF Create, ticker
  <2>2. s \notin cur /\ cur \subseteq Schedules
    BY <1>0 DEF Create, OnlyCreated, TypeOK
  <2> QED
    BY <1>0, <1>2, <1>3, <2>1, <2>2 DEF MarkedIsDue
<1>10. FireIsEarned'
  BY <1>0, <1>2, <1>3 DEF Create, store, ticker, history, counts, FireIsEarned, TypeOK
<1> QED
  BY <1>5, <1>6, <1>7, <1>8, <1>9, <1>10 DEF ScheduleInv

LEMMA DeleteKeeps == ASSUME ScheduleInv, NEW s \in Schedules, Delete(s) PROVE ScheduleInv'
<1> USE ScheduleAssumption
<1>0. TypeOK /\ TickerShape /\ OnlyCreated /\ Covered /\ MarkedIsDue /\ FireIsEarned
  BY DEF ScheduleInv
<1>3. /\ \/ dpresent' = dpresent /\ dlast' = dlast
         \/ dpresent' = present' /\ dlast' = last'
      /\ faults' \in Nat
  BY <1>0, SaveEffect DEF Delete, RemoveSchedule, TypeOK
<1>5. TypeOK'
  <2>1. busy' \in BOOLEAN /\ closed' \in BOOLEAN
    BY <1>0 DEF Delete, RemoveSchedule, store, ticker, history, counts, TypeOK
  <2>2. {rewinds', refused', blocks', faults', kills'} \subseteq Nat
    BY <1>0, <1>3 DEF Delete, RemoveSchedule, store, ticker, history, counts, TypeOK
  <2> QED
    BY <1>0, <1>3, <2>1, <2>2 DEF Delete, RemoveSchedule, store, ticker, history, counts,
       TypeOK, Times
<1>6. TickerShape'
  BY <1>0, <1>3 DEF Delete, RemoveSchedule, store, ticker, history, counts, TypeOK,
     TickerShape
<1>7. OnlyCreated'
  BY <1>0, <1>3 DEF Delete, RemoveSchedule, store, ticker, history, counts, TypeOK,
     OnlyCreated, TickerShape
<1>8. Covered'
  <2> SUFFICES ASSUME NEW r \in Schedules, NEW i \in 1..Len(fires'[r])
               PROVE  /\ Covers(fires[r][i], last[r], now)'
                      /\ Covers(fires[r][i], dlast[r], now)'
                      /\ r \in todo' => Covers(fires[r][i], copy[r], tnow)'
    BY DEF Covered
  <2>1. /\ fires' = fires /\ i \in 1..Len(fires[r]) /\ fires[r][i] \in 1..MaxTime
        /\ Covers(fires[r][i], last[r], now) /\ Covers(fires[r][i], dlast[r], now)
        /\ r \in todo => Covers(fires[r][i], copy[r], tnow)
    BY <1>0 DEF Delete, RemoveSchedule, store, ticker, history, counts, Covered, TypeOK
  <2> QED
    BY <1>0, <1>3, <2>1 DEF Delete, RemoveSchedule, store, ticker, history, counts, TypeOK,
       Times, Covers, TickerShape, OnlyCreated, MarkedIsDue
<1>9. MarkedIsDue'
  BY <1>0, <1>3 DEF Delete, RemoveSchedule, store, ticker, history, counts, TypeOK, Times,
     MarkedIsDue, TickerShape, OnlyCreated
<1>10. FireIsEarned'
  BY <1>0, <1>3 DEF Delete, RemoveSchedule, store, ticker, history, counts, FireIsEarned,
     TypeOK
<1> QED
  BY <1>5, <1>6, <1>7, <1>8, <1>9, <1>10 DEF ScheduleInv

LEMMA TickStartKeeps == ASSUME ScheduleInv, TickStart PROVE ScheduleInv'
<1> USE ScheduleAssumption
<1>0. TypeOK /\ TickerShape /\ OnlyCreated /\ Covered /\ MarkedIsDue /\ FireIsEarned
  BY DEF ScheduleInv
<1>5. TypeOK'
  <2>1. busy' \in BOOLEAN /\ closed' \in BOOLEAN
    BY <1>0 DEF TickStart, store, ticker, history, counts, TypeOK
  <2>2. {rewinds', refused', blocks', faults', kills'} \subseteq Nat
    BY <1>0 DEF TickStart, store, ticker, history, counts, TypeOK
  <2> QED
    BY <1>0, <2>1, <2>2 DEF TickStart, store, ticker, history, counts, TypeOK, Times
<1>6. TickerShape'
  BY <1>0 DEF TickStart, store, ticker, history, counts, TypeOK, TickerShape
<1>7. OnlyCreated'
  BY <1>0 DEF TickStart, store, ticker, history, counts, TypeOK, OnlyCreated, TickerShape
<1>8. Covered'
  <2> SUFFICES ASSUME NEW r \in Schedules, NEW i \in 1..Len(fires'[r])
               PROVE  /\ Covers(fires[r][i], last[r], now)'
                      /\ Covers(fires[r][i], dlast[r], now)'
                      /\ r \in todo' => Covers(fires[r][i], copy[r], tnow)'
    BY DEF Covered
  <2>1. /\ fires' = fires /\ i \in 1..Len(fires[r]) /\ fires[r][i] \in 1..MaxTime
        /\ Covers(fires[r][i], last[r], now) /\ Covers(fires[r][i], dlast[r], now)
        /\ r \in todo => Covers(fires[r][i], copy[r], tnow)
    <3>1. fires' = fires
      BY DEF TickStart, history
    <3>2. i \in 1..Len(fires[r]) /\ fires[r][i] \in 1..MaxTime
      BY <1>0, <3>1, FireTime
    <3> QED
      BY <1>0, <3>1, <3>2 DEF Covered
  <2> QED
    BY <1>0, <2>1 DEF TickStart, store, ticker, history, counts, TypeOK, Times, Covers,
       TickerShape, OnlyCreated, MarkedIsDue
<1>9. MarkedIsDue'
  BY <1>0 DEF TickStart, store, ticker, history, counts, TypeOK, Times, MarkedIsDue,
     TickerShape, OnlyCreated
<1>10. FireIsEarned'
  BY <1>0 DEF TickStart, store, ticker, history, counts, FireIsEarned, TypeOK
<1> QED
  BY <1>5, <1>6, <1>7, <1>8, <1>9, <1>10 DEF ScheduleInv

LEMMA TickEndKeeps == ASSUME ScheduleInv, TickEnd PROVE ScheduleInv'
<1> USE ScheduleAssumption
<1>0. TypeOK /\ TickerShape /\ OnlyCreated /\ Covered /\ MarkedIsDue /\ FireIsEarned
  BY DEF ScheduleInv
<1>5. TypeOK'
  <2>1. busy' \in BOOLEAN /\ closed' \in BOOLEAN
    BY <1>0 DEF TickEnd, store, ticker, history, counts, TypeOK
  <2>2. {rewinds', refused', blocks', faults', kills'} \subseteq Nat
    BY <1>0 DEF TickEnd, store, ticker, history, counts, TypeOK
  <2> QED
    BY <1>0, <2>1, <2>2 DEF TickEnd, store, ticker, history, counts, TypeOK, Times
<1>6. TickerShape'
  BY <1>0 DEF TickEnd, store, ticker, history, counts, TypeOK, TickerShape
<1>7. OnlyCreated'
  BY <1>0 DEF TickEnd, store, ticker, history, counts, TypeOK, OnlyCreated, TickerShape
<1>8. Covered'
  <2> SUFFICES ASSUME NEW r \in Schedules, NEW i \in 1..Len(fires'[r])
               PROVE  /\ Covers(fires[r][i], last[r], now)'
                      /\ Covers(fires[r][i], dlast[r], now)'
                      /\ r \in todo' => Covers(fires[r][i], copy[r], tnow)'
    BY DEF Covered
  <2>1. /\ fires' = fires /\ i \in 1..Len(fires[r]) /\ fires[r][i] \in 1..MaxTime
        /\ Covers(fires[r][i], last[r], now) /\ Covers(fires[r][i], dlast[r], now)
        /\ r \in todo => Covers(fires[r][i], copy[r], tnow)
    <3>1. fires' = fires
      BY DEF TickEnd, history
    <3>2. i \in 1..Len(fires[r]) /\ fires[r][i] \in 1..MaxTime
      BY <1>0, <3>1, FireTime
    <3> QED
      BY <1>0, <3>1, <3>2 DEF Covered
  <2> QED
    BY <1>0, <2>1 DEF TickEnd, store, ticker, history, counts, TypeOK, Times, Covers,
       TickerShape, OnlyCreated, MarkedIsDue
<1>9. MarkedIsDue'
  BY <1>0 DEF TickEnd, store, ticker, history, counts, TypeOK, Times, MarkedIsDue,
     TickerShape, OnlyCreated
<1>10. FireIsEarned'
  BY <1>0 DEF TickEnd, store, ticker, history, counts, FireIsEarned, TypeOK
<1> QED
  BY <1>5, <1>6, <1>7, <1>8, <1>9, <1>10 DEF ScheduleInv

LEMMA NotDueKeeps == ASSUME ScheduleInv, NEW s \in Schedules, NotDue(s) PROVE ScheduleInv'
<1> USE ScheduleAssumption
<1>0. TypeOK /\ TickerShape /\ OnlyCreated /\ Covered /\ MarkedIsDue /\ FireIsEarned
  BY DEF ScheduleInv
<1>5. TypeOK'
  <2>1. busy' \in BOOLEAN /\ closed' \in BOOLEAN
    BY <1>0 DEF NotDue, store, ticker, history, counts, TypeOK
  <2>2. {rewinds', refused', blocks', faults', kills'} \subseteq Nat
    BY <1>0 DEF NotDue, store, ticker, history, counts, TypeOK
  <2> QED
    BY <1>0, <2>1, <2>2 DEF NotDue, store, ticker, history, counts, TypeOK, Times
<1>6. TickerShape'
  BY <1>0 DEF NotDue, store, ticker, history, counts, TypeOK, TickerShape
<1>7. OnlyCreated'
  BY <1>0 DEF NotDue, store, ticker, history, counts, TypeOK, OnlyCreated, TickerShape
<1>8. Covered'
  <2> SUFFICES ASSUME NEW r \in Schedules, NEW i \in 1..Len(fires'[r])
               PROVE  /\ Covers(fires[r][i], last[r], now)'
                      /\ Covers(fires[r][i], dlast[r], now)'
                      /\ r \in todo' => Covers(fires[r][i], copy[r], tnow)'
    BY DEF Covered
  <2>1. /\ fires' = fires /\ i \in 1..Len(fires[r]) /\ fires[r][i] \in 1..MaxTime
        /\ Covers(fires[r][i], last[r], now) /\ Covers(fires[r][i], dlast[r], now)
        /\ r \in todo => Covers(fires[r][i], copy[r], tnow)
    <3>1. fires' = fires
      BY DEF NotDue, history
    <3>2. i \in 1..Len(fires[r]) /\ fires[r][i] \in 1..MaxTime
      BY <1>0, <3>1, FireTime
    <3> QED
      BY <1>0, <3>1, <3>2 DEF Covered
  <2> QED
    BY <1>0, <2>1 DEF NotDue, store, ticker, history, counts, TypeOK, Times, Covers,
       TickerShape, OnlyCreated, MarkedIsDue
<1>9. MarkedIsDue'
  BY <1>0 DEF NotDue, store, ticker, history, counts, TypeOK, Times, MarkedIsDue,
     TickerShape, OnlyCreated
<1>10. FireIsEarned'
  BY <1>0 DEF NotDue, store, ticker, history, counts, FireIsEarned, TypeOK
<1> QED
  BY <1>5, <1>6, <1>7, <1>8, <1>9, <1>10 DEF ScheduleInv

LEMMA SkipKeeps == ASSUME ScheduleInv, NEW s \in Schedules, Skip(s) PROVE ScheduleInv'
<1> USE ScheduleAssumption
<1>0. TypeOK /\ TickerShape /\ OnlyCreated /\ Covered /\ MarkedIsDue /\ FireIsEarned
  BY DEF ScheduleInv
<1>1. copy[s] \in Times
  BY <1>0 DEF TypeOK, Times
<1>2. /\ last' \in [Schedules -> Times]
      /\ last'[s] = copy[s] /\ \A r \in Schedules : r # s => last'[r] = last[r]
      /\ present' = present \cup {s} /\ present' \subseteq Schedules
  BY <1>0, <1>1, PutEffect DEF Skip
<1>3. /\ \/ dpresent' = dpresent /\ dlast' = dlast
         \/ dpresent' = present' /\ dlast' = last'
      /\ faults' \in Nat
  BY <1>0, SaveEffect DEF Skip, TypeOK
<1>5. TypeOK'
  <2>1. busy' \in BOOLEAN /\ closed' \in BOOLEAN
    BY <1>0 DEF Skip, store, ticker, history, counts, TypeOK
  <2>2. {rewinds', refused', blocks', faults', kills'} \subseteq Nat
    BY <1>0, <1>2, <1>3 DEF Skip, store, ticker, history, counts, TypeOK
  <2> QED
    BY <1>0, <1>2, <1>3, <2>1, <2>2 DEF Skip, store, ticker, history, counts, TypeOK, Times
<1>6. TickerShape'
  BY <1>0, <1>2, <1>3 DEF Skip, store, ticker, history, counts, TypeOK, TickerShape
<1>7. OnlyCreated'
  BY <1>0, <1>2, <1>3 DEF Skip, store, ticker, history, counts, TypeOK, OnlyCreated,
     TickerShape
<1>8. Covered'
  <2> SUFFICES ASSUME NEW r \in Schedules, NEW i \in 1..Len(fires'[r])
               PROVE  /\ Covers(fires[r][i], last[r], now)'
                      /\ Covers(fires[r][i], dlast[r], now)'
                      /\ r \in todo' => Covers(fires[r][i], copy[r], tnow)'
    BY DEF Covered
  <2>1. /\ fires' = fires /\ i \in 1..Len(fires[r]) /\ fires[r][i] \in 1..MaxTime
        /\ Covers(fires[r][i], last[r], now) /\ Covers(fires[r][i], dlast[r], now)
        /\ r \in todo => Covers(fires[r][i], copy[r], tnow)
    <3>1. fires' = fires
      BY DEF Skip, history
    <3>2. i \in 1..Len(fires[r]) /\ fires[r][i] \in 1..MaxTime
      BY <1>0, <3>1, FireTime
    <3> QED
      BY <1>0, <3>1, <3>2 DEF Covered
  <2>2. /\ last'[r] = (IF r = s THEN copy[s] ELSE last[r])
        /\ dlast'[r] = dlast[r] \/ dlast'[r] = last'[r]
    BY <1>2, <1>3
  <2>3. /\ now' = now /\ tnow' = tnow /\ copy' = copy /\ todo' \subseteq todo
        /\ refused' = refused /\ rewinds' = rewinds
    BY DEF Skip, store, ticker, history, counts
  <2>4. s \in todo /\ (rewinds = 0 => tnow <= now)
    BY <1>0 DEF Skip, TickerShape
  <2>5. now \in 1..MaxTime /\ tnow \in 1..MaxTime
    BY <1>0 DEF TypeOK
  <2>6. refused' # 0 \/ refused' = refused
    BY <2>3
  <2> QED
    BY <2>1, <2>2, <2>3, <2>4, <2>5, <2>6 DEF Covers
<1>9. MarkedIsDue'
  BY <1>0, <1>2, <1>3 DEF Skip, store, ticker, history, counts, TypeOK, Times, MarkedIsDue,
     TickerShape, OnlyCreated
<1>10. FireIsEarned'
  BY <1>0, <1>2, <1>3 DEF Skip, store, ticker, history, counts, FireIsEarned, TypeOK
<1> QED
  BY <1>5, <1>6, <1>7, <1>8, <1>9, <1>10 DEF ScheduleInv

LEMMA MarkKeeps == ASSUME ScheduleInv, NEW s \in Schedules, Mark(s) PROVE ScheduleInv'
<1> USE ScheduleAssumption
<1>0. TypeOK /\ TickerShape /\ OnlyCreated /\ Covered /\ MarkedIsDue /\ FireIsEarned
  BY DEF ScheduleInv
<1>1. tnow \in Times
  BY <1>0 DEF TypeOK, Times
<1>2. /\ last' \in [Schedules -> Times]
      /\ last'[s] = tnow /\ \A r \in Schedules : r # s => last'[r] = last[r]
      /\ present' = present \cup {s} /\ present' \subseteq Schedules
  BY <1>0, <1>1, PutEffect DEF Mark, Due
<1>4. /\ dpresent' = present' /\ dlast' = last' /\ faults' = faults
      /\ (rewinds = 0 \/ refused = 0) =>
           \A i \in 1..Len(fires[s]) : \E m \in Slots : fires[s][i] < m /\ m <= tnow
  <2>1. dpresent' = present' /\ dlast' = last' /\ faults' = faults
    BY DEF Mark, Saved
  <2>2. ASSUME rewinds = 0 \/ refused = 0, NEW i \in 1..Len(fires[s])
        PROVE  \E m \in Slots : fires[s][i] < m /\ m <= tnow
    <3>1. /\ copy[s] \in Times /\ tnow \in 1..MaxTime /\ fires[s][i] \in 1..MaxTime
          /\ Covers(fires[s][i], copy[s], tnow)
      BY <1>0 DEF TypeOK, Covered, Mark, Due
    <3> QED
      BY <2>2, <3>1, DueIsEarned DEF Mark, Due
  <2> QED
    BY <2>1, <2>2
<1>5. TypeOK'
  <2>1. busy' \in BOOLEAN /\ closed' \in BOOLEAN
    BY <1>0 DEF Mark, Due, store, ticker, history, counts, TypeOK
  <2>2. {rewinds', refused', blocks', faults', kills'} \subseteq Nat
    BY <1>0, <1>2, <1>4 DEF Mark, Due, store, ticker, history, counts, TypeOK
  <2> QED
    BY <1>0, <1>2, <1>4, <2>1, <2>2 DEF Mark, Due, store, ticker, history, counts, TypeOK,
       Times
<1>6. TickerShape'
  BY <1>0, <1>2, <1>4 DEF Mark, Due, store, ticker, history, counts, TypeOK, TickerShape
<1>7. OnlyCreated'
  BY <1>0, <1>2, <1>4 DEF Mark, Due, store, ticker, history, counts, TypeOK, OnlyCreated,
     TickerShape
<1>8. Covered'
  <2> SUFFICES ASSUME NEW r \in Schedules, NEW i \in 1..Len(fires'[r])
               PROVE  /\ Covers(fires[r][i], last[r], now)'
                      /\ Covers(fires[r][i], dlast[r], now)'
                      /\ r \in todo' => Covers(fires[r][i], copy[r], tnow)'
    BY DEF Covered
  <2>1. /\ fires' = fires /\ i \in 1..Len(fires[r]) /\ fires[r][i] \in 1..MaxTime
        /\ Covers(fires[r][i], last[r], now) /\ Covers(fires[r][i], dlast[r], now)
        /\ r \in todo => Covers(fires[r][i], copy[r], tnow)
    <3>1. fires' = fires
      BY DEF Mark, history
    <3>2. i \in 1..Len(fires[r]) /\ fires[r][i] \in 1..MaxTime
      BY <1>0, <3>1, FireTime
    <3> QED
      BY <1>0, <3>1, <3>2 DEF Covered
  <2>2. /\ last'[r] = (IF r = s THEN tnow ELSE last[r])
        /\ dlast'[r] = dlast[r] \/ dlast'[r] = last'[r]
    BY <1>2, <1>4
  <2>3. /\ now' = now /\ tnow' = tnow /\ copy' = copy /\ todo' \subseteq todo
        /\ refused' = refused /\ rewinds' = rewinds
    BY DEF Mark, Due, store, ticker, history, counts
  <2>4. /\ s \in todo /\ (rewinds = 0 => tnow <= now)
        /\ copy[s] \in Nat /\ (copy[s] = 0 \/ copy[s] <= tnow)
    <3>1. Due(s) /\ copy[s] \in 0..MaxTime
      BY <1>0 DEF Mark, TypeOK, Times
    <3> QED
      BY <1>0, <3>1 DEF Due, Rewound, TickerShape, TypeOK
  <2>5. now \in 1..MaxTime /\ tnow \in 1..MaxTime
    BY <1>0 DEF TypeOK
  <2>6. refused' # 0 \/ refused' = refused
    BY <2>3
  <2> QED
    BY <2>1, <2>2, <2>3, <2>4, <2>5, <2>6 DEF Covers
<1>9. MarkedIsDue'
  BY <1>0, <1>2, <1>4 DEF Mark, Due, store, ticker, history, counts, TypeOK, Times,
     MarkedIsDue, TickerShape, OnlyCreated
<1>10. FireIsEarned'
  BY <1>0, <1>2, <1>4 DEF Mark, Due, store, ticker, history, counts, FireIsEarned, TypeOK
<1> QED
  BY <1>5, <1>6, <1>7, <1>8, <1>9, <1>10 DEF ScheduleInv

LEMMA MarkFailsKeeps ==
  ASSUME ScheduleInv, NEW s \in Schedules, MarkFails(s)
  PROVE  ScheduleInv'
<1> USE ScheduleAssumption
<1>0. TypeOK /\ TickerShape /\ OnlyCreated /\ Covered /\ MarkedIsDue /\ FireIsEarned
  BY DEF ScheduleInv
<1>1. tnow \in Times
  BY <1>0 DEF TypeOK, Times
<1>2. /\ last' \in [Schedules -> Times]
      /\ last'[s] = tnow /\ \A r \in Schedules : r # s => last'[r] = last[r]
      /\ present' = present \cup {s} /\ present' \subseteq Schedules
  BY <1>0, <1>1, PutEffect DEF MarkFails, Due
<1>3. /\ \/ dpresent' = dpresent /\ dlast' = dlast
         \/ dpresent' = present' /\ dlast' = last'
      /\ faults' \in Nat
  BY <1>0, SaveEffect DEF MarkFails, Due, TypeOK
<1>5. TypeOK'
  <2>1. busy' \in BOOLEAN /\ closed' \in BOOLEAN
    BY <1>0 DEF MarkFails, Due, store, ticker, history, counts, TypeOK
  <2>2. {rewinds', refused', blocks', faults', kills'} \subseteq Nat
    BY <1>0, <1>2, <1>3 DEF MarkFails, Due, store, ticker, history, counts, TypeOK
  <2> QED
    BY <1>0, <1>2, <1>3, <2>1, <2>2 DEF MarkFails, Due, store, ticker, history, counts,
       TypeOK, Times
<1>6. TickerShape'
  BY <1>0, <1>2, <1>3 DEF MarkFails, Due, store, ticker, history, counts, TypeOK, TickerShape
<1>7. OnlyCreated'
  BY <1>0, <1>2, <1>3 DEF MarkFails, Due, store, ticker, history, counts, TypeOK,
     OnlyCreated, TickerShape
<1>8. Covered'
  <2> SUFFICES ASSUME NEW r \in Schedules, NEW i \in 1..Len(fires'[r])
               PROVE  /\ Covers(fires[r][i], last[r], now)'
                      /\ Covers(fires[r][i], dlast[r], now)'
                      /\ r \in todo' => Covers(fires[r][i], copy[r], tnow)'
    BY DEF Covered
  <2>1. /\ fires' = fires /\ i \in 1..Len(fires[r]) /\ fires[r][i] \in 1..MaxTime
        /\ Covers(fires[r][i], last[r], now) /\ Covers(fires[r][i], dlast[r], now)
        /\ r \in todo => Covers(fires[r][i], copy[r], tnow)
    <3>1. fires' = fires
      BY DEF MarkFails, history
    <3>2. i \in 1..Len(fires[r]) /\ fires[r][i] \in 1..MaxTime
      BY <1>0, <3>1, FireTime
    <3> QED
      BY <1>0, <3>1, <3>2 DEF Covered
  <2>2. /\ last'[r] = (IF r = s THEN tnow ELSE last[r])
        /\ dlast'[r] = dlast[r] \/ dlast'[r] = last'[r]
    BY <1>2, <1>3
  <2>3. /\ now' = now /\ tnow' = tnow /\ copy' = copy /\ todo' \subseteq todo
        /\ refused' = refused /\ rewinds' = rewinds
    BY DEF MarkFails, Due, store, ticker, history, counts
  <2>4. /\ s \in todo /\ (rewinds = 0 => tnow <= now)
        /\ copy[s] \in Nat /\ (copy[s] = 0 \/ copy[s] <= tnow)
    BY <1>0 DEF MarkFails, Due, Rewound, TickerShape, TypeOK, Times
  <2>5. now \in 1..MaxTime /\ tnow \in 1..MaxTime
    BY <1>0 DEF TypeOK
  <2>6. refused' # 0 \/ refused' = refused
    BY <2>3
  <2> QED
    BY <2>1, <2>2, <2>3, <2>4, <2>5, <2>6 DEF Covers
<1>9. MarkedIsDue'
  BY <1>0, <1>2, <1>3 DEF MarkFails, Due, store, ticker, history, counts, TypeOK, Times,
     MarkedIsDue, TickerShape, OnlyCreated
<1>10. FireIsEarned'
  BY <1>0, <1>2, <1>3 DEF MarkFails, Due, store, ticker, history, counts, FireIsEarned, TypeOK
<1> QED
  BY <1>5, <1>6, <1>7, <1>8, <1>9, <1>10 DEF ScheduleInv

LEMMA FireKeeps == ASSUME ScheduleInv, NEW s \in Schedules, Fire(s) PROVE ScheduleInv'
<1> USE ScheduleAssumption
<1>0. TypeOK /\ TickerShape /\ OnlyCreated /\ Covered /\ MarkedIsDue /\ FireIsEarned
  BY DEF ScheduleInv
<1>3. /\ \/ dpresent' = dpresent /\ dlast' = dlast
         \/ dpresent' = present' /\ dlast' = last'
      /\ faults' \in Nat
  BY <1>0, SaveEffect DEF Fire, TypeOK
<1>4. /\ fires' \in [Schedules -> Seq(1..MaxTime)]
      /\ Len(fires[s]) \in Nat /\ Len(fires'[s]) = Len(fires[s]) + 1
      /\ fires'[s][Len(fires[s]) + 1] = tnow
      /\ \A i \in 1..Len(fires[s]) : fires'[s][i] = fires[s][i] /\ fires[s][i] \in 1..MaxTime
      /\ \A r \in Schedules : r # s => fires'[r] = fires[r]
  <2>1. fires[s] \in Seq(1..MaxTime) /\ tnow \in 1..MaxTime
    BY <1>0 DEF TypeOK
  <2>2. fires' = [fires EXCEPT ![s] = Append(@, tnow)] /\ fires'[s] = Append(fires[s], tnow)
    BY <1>0 DEF Fire, TypeOK
  <2>3. Append(fires[s], tnow) \in Seq(1..MaxTime)
    BY <2>1, AppendFire
  <2>4. /\ fires' \in [Schedules -> Seq(1..MaxTime)]
        /\ \A r \in Schedules : r # s => fires'[r] = fires[r]
    BY <1>0, <2>2, <2>3 DEF TypeOK
  <2> QED
    BY <2>1, <2>2, <2>4, AppendFire
<1>5. TypeOK'
  <2>1. busy' \in BOOLEAN /\ closed' \in BOOLEAN
    BY <1>0 DEF Fire, store, ticker, history, counts, TypeOK
  <2>2. {rewinds', refused', blocks', faults', kills'} \subseteq Nat
    BY <1>0, <1>3, <1>4 DEF Fire, store, ticker, history, counts, TypeOK
  <2> QED
    BY <1>0, <1>3, <1>4, <2>1, <2>2 DEF Fire, store, ticker, history, counts, TypeOK, Times
<1>6. TickerShape'
  BY <1>0, <1>3, <1>4 DEF Fire, store, ticker, history, counts, TypeOK, TickerShape
<1>7. OnlyCreated'
  BY <1>0, <1>3, <1>4 DEF Fire, store, ticker, history, counts, TypeOK, OnlyCreated,
     TickerShape
<1>8. Covered'
  <2> SUFFICES ASSUME NEW r \in Schedules, NEW i \in 1..Len(fires'[r])
               PROVE  /\ Covers(fires[r][i], last[r], now)'
                      /\ Covers(fires[r][i], dlast[r], now)'
                      /\ r \in todo' => Covers(fires[r][i], copy[r], tnow)'
    BY DEF Covered
  <2>1. /\ last' = last /\ (dlast' = dlast \/ dlast' = last) /\ now' = now /\ tnow' = tnow
        /\ copy' = copy /\ todo' = todo /\ refused' = refused /\ rewinds' = rewinds
    BY <1>3 DEF Fire
  <2>2. CASE i \in 1..Len(fires[r])
    <3>1. fires'[r][i] = fires[r][i]
      BY <1>4, <2>2
    <3> QED
      BY <1>0, <2>1, <2>2, <3>1 DEF Covered, Covers
  <2>3. CASE i \notin 1..Len(fires[r])
    <3>1. r = s /\ fires'[r][i] = tnow
      BY <1>4, <2>3
    <3>2. last[s] = tnow /\ dlast[s] = tnow /\ s \notin todo /\ tnow \in 1..MaxTime
      BY <1>0 DEF Fire, MarkedIsDue, TickerShape, TypeOK
    <3> QED
      BY <2>1, <3>1, <3>2 DEF Covers
  <2> QED
    BY <2>2, <2>3
<1>9. MarkedIsDue'
  BY <1>0, <1>3, <1>4 DEF Fire, store, ticker, history, counts, TypeOK, Times, MarkedIsDue,
     TickerShape, OnlyCreated
<1>10. FireIsEarned'
  <2> SUFFICES ASSUME rewinds' = 0 \/ refused' = 0,
                      NEW r \in Schedules, NEW i \in 1..(Len(fires'[r]) - 1)
               PROVE  \E m \in Slots : fires'[r][i] < m /\ m <= fires'[r][i + 1]
    BY DEF FireIsEarned
  <2>0. refused' = refused /\ rewinds' = rewinds /\ Len(fires[r]) \in Nat /\ Len(fires[r]) > 0
    BY <1>0, <1>4 DEF Fire, TypeOK
  <2>1. CASE i + 1 \in 1..Len(fires[r])
    <3>1. fires'[r][i] = fires[r][i] /\ fires'[r][i + 1] = fires[r][i + 1]
      <4>1. i \in 1..Len(fires[r])
        BY <2>0, <2>1
      <4> QED
        BY <1>4, <2>1, <4>1
    <3>2. i \in 1..(Len(fires[r]) - 1)
      BY <2>0, <2>1
    <3> QED
      BY <1>0, <2>0, <3>1, <3>2 DEF FireIsEarned
  <2>2. CASE i + 1 \notin 1..Len(fires[r])
    <3>1. r = s /\ i = Len(fires[s]) /\ i \in 1..Len(fires[s]) /\ fires'[r][i + 1] = tnow
      <4>1. r = s
        BY <1>4, <2>0, <2>2
      <4>2. i = Len(fires[s])
        BY <1>4, <2>0, <2>2, <4>1
      <4> QED
        BY <1>4, <2>0, <4>1, <4>2
    <3>2. \E m \in Slots : fires[s][i] < m /\ m <= tnow
      BY <1>0, <2>0, <3>1 DEF Fire, MarkedIsDue
    <3> QED
      BY <1>4, <3>1, <3>2
  <2> QED
    BY <2>1, <2>2
<1> QED
  BY <1>5, <1>6, <1>7, <1>8, <1>9, <1>10 DEF ScheduleInv

LEMMA FireRefusedKeeps ==
  ASSUME ScheduleInv, NEW s \in Schedules, FireRefused(s)
  PROVE  ScheduleInv'
<1> USE ScheduleAssumption
<1>0. TypeOK /\ TickerShape /\ OnlyCreated /\ Covered /\ MarkedIsDue /\ FireIsEarned
  BY DEF ScheduleInv
<1>1. 0 \in Times
  BY <1>0 DEF TypeOK, Times
<1>2. /\ last' \in [Schedules -> Times]
      /\ last'[s] = 0 /\ \A r \in Schedules : r # s => last'[r] = last[r]
      /\ present' = present \cup {s} /\ present' \subseteq Schedules
  BY <1>0, <1>1, PutEffect DEF FireRefused
<1>3. /\ \/ dpresent' = dpresent /\ dlast' = dlast
         \/ dpresent' = present' /\ dlast' = last'
      /\ faults' \in Nat
  BY <1>0, SaveEffect DEF FireRefused, TypeOK
<1>5. TypeOK'
  <2>1. busy' \in BOOLEAN /\ closed' \in BOOLEAN
    BY <1>0 DEF FireRefused, store, ticker, history, counts, TypeOK
  <2>2. {rewinds', refused', blocks', faults', kills'} \subseteq Nat
    BY <1>0, <1>2, <1>3 DEF FireRefused, store, ticker, history, counts, TypeOK
  <2> QED
    BY <1>0, <1>2, <1>3, <2>1, <2>2 DEF FireRefused, store, ticker, history, counts, TypeOK,
       Times
<1>6. TickerShape'
  BY <1>0, <1>2, <1>3 DEF FireRefused, store, ticker, history, counts, TypeOK, TickerShape
<1>7. OnlyCreated'
  BY <1>0, <1>2, <1>3 DEF FireRefused, store, ticker, history, counts, TypeOK, OnlyCreated,
     TickerShape
<1>8. Covered'
  <2> SUFFICES ASSUME NEW r \in Schedules, NEW i \in 1..Len(fires'[r])
               PROVE  /\ Covers(fires[r][i], last[r], now)'
                      /\ Covers(fires[r][i], dlast[r], now)'
                      /\ r \in todo' => Covers(fires[r][i], copy[r], tnow)'
    BY DEF Covered
  <2>1. /\ fires' = fires /\ i \in 1..Len(fires[r]) /\ fires[r][i] \in 1..MaxTime
        /\ Covers(fires[r][i], last[r], now) /\ Covers(fires[r][i], dlast[r], now)
        /\ r \in todo => Covers(fires[r][i], copy[r], tnow)
    <3>1. fires' = fires
      BY DEF FireRefused, history
    <3>2. i \in 1..Len(fires[r]) /\ fires[r][i] \in 1..MaxTime
      BY <1>0, <3>1, FireTime
    <3> QED
      BY <1>0, <3>1, <3>2 DEF Covered
  <2>2. /\ last'[r] = (IF r = s THEN 0 ELSE last[r])
        /\ dlast'[r] = dlast[r] \/ dlast'[r] = last'[r]
    BY <1>2, <1>3
  <2>3. /\ now' = now /\ tnow' = tnow /\ copy' = copy /\ todo' \subseteq todo
        /\ rewinds' = rewinds
    BY DEF FireRefused, store, ticker, history, counts
  <2>4. refused' > 0 /\ (rewinds = 0 /\ r = s => fires[r][i] < now)
    <3>1. refused' > 0 /\ s \in cur
      BY <1>0 DEF FireRefused, TypeOK
    <3>2. ASSUME rewinds = 0, r = s PROVE fires[r][i] < now
      <4>1. tnow <= now /\ tnow \in Nat /\ now \in Nat
        BY <1>0, <3>2 DEF TickerShape, TypeOK
      <4>2. \E m \in Slots : fires[r][i] < m /\ m <= tnow
        BY <1>0, <2>1, <3>1, <3>2 DEF MarkedIsDue
      <4> QED
        BY <2>1, <4>1, <4>2
    <3> QED
      BY <3>1, <3>2
  <2>5. now \in 1..MaxTime /\ tnow \in 1..MaxTime
    BY <1>0 DEF TypeOK
  <2>6. refused' # 0 \/ refused' = refused
    BY <2>3, <2>4
  <2> QED
    BY <2>1, <2>2, <2>3, <2>4, <2>5, <2>6 DEF Covers
<1>9. MarkedIsDue'
  BY <1>0, <1>2, <1>3 DEF FireRefused, store, ticker, history, counts, TypeOK, Times,
     MarkedIsDue, TickerShape, OnlyCreated
<1>10. FireIsEarned'
  <2>1. fires' = fires /\ refused' # 0 /\ rewinds' = rewinds
    BY <1>0 DEF FireRefused, store, ticker, history, counts, TypeOK
  <2> QED
    BY <1>0, <2>1 DEF FireIsEarned
<1> QED
  BY <1>5, <1>6, <1>7, <1>8, <1>9, <1>10 DEF ScheduleInv

LEMMA ClockKeeps == ASSUME ScheduleInv, Clock PROVE ScheduleInv'
<1> USE ScheduleAssumption
<1>0. TypeOK /\ TickerShape /\ OnlyCreated /\ Covered /\ MarkedIsDue /\ FireIsEarned
  BY DEF ScheduleInv
<1>5. TypeOK'
  <2>1. busy' \in BOOLEAN /\ closed' \in BOOLEAN
    BY <1>0 DEF Clock, store, ticker, history, counts, TypeOK
  <2>2. {rewinds', refused', blocks', faults', kills'} \subseteq Nat
    BY <1>0 DEF Clock, store, ticker, history, counts, TypeOK
  <2>3. now' \in 1..MaxTime
    BY <1>0 DEF Clock, TypeOK
  <2>4. UNCHANGED <<store, ticker, history>>
    BY DEF Clock
  <2> QED
    BY <1>0, <2>1, <2>2, <2>3, <2>4 DEF store, ticker, history, TypeOK
<1>6. TickerShape'
  BY <1>0 DEF Clock, store, ticker, history, counts, TypeOK, TickerShape
<1>7. OnlyCreated'
  BY <1>0 DEF Clock, store, ticker, history, counts, TypeOK, OnlyCreated, TickerShape
<1>8. Covered'
  <2> SUFFICES ASSUME NEW r \in Schedules, NEW i \in 1..Len(fires'[r])
               PROVE  /\ Covers(fires[r][i], last[r], now)'
                      /\ Covers(fires[r][i], dlast[r], now)'
                      /\ r \in todo' => Covers(fires[r][i], copy[r], tnow)'
    BY DEF Covered
  <2>1. /\ fires' = fires /\ i \in 1..Len(fires[r]) /\ fires[r][i] \in 1..MaxTime
        /\ Covers(fires[r][i], last[r], now) /\ Covers(fires[r][i], dlast[r], now)
        /\ r \in todo => Covers(fires[r][i], copy[r], tnow)
    <3>1. fires' = fires
      BY DEF Clock, history
    <3>2. i \in 1..Len(fires[r]) /\ fires[r][i] \in 1..MaxTime
      BY <1>0, <3>1, FireTime
    <3> QED
      BY <1>0, <3>1, <3>2 DEF Covered
  <2>2. /\ last' = last /\ dlast' = dlast /\ copy' = copy /\ todo' = todo /\ tnow' = tnow
        /\ now \in Nat /\ now' = now + 1 /\ rewinds' = rewinds /\ refused' = refused
    BY <1>0 DEF Clock, store, ticker, counts, TypeOK
  <2> QED
    BY <2>1, <2>2 DEF Covers
<1>9. MarkedIsDue'
  BY <1>0 DEF Clock, store, ticker, history, counts, TypeOK, Times, MarkedIsDue,
     TickerShape, OnlyCreated
<1>10. FireIsEarned'
  BY <1>0 DEF Clock, store, ticker, history, counts, FireIsEarned, TypeOK
<1> QED
  BY <1>5, <1>6, <1>7, <1>8, <1>9, <1>10 DEF ScheduleInv

LEMMA ClockBackKeeps == ASSUME ScheduleInv, ClockBack PROVE ScheduleInv'
<1> USE ScheduleAssumption
<1>0. TypeOK /\ TickerShape /\ OnlyCreated /\ Covered /\ MarkedIsDue /\ FireIsEarned
  BY DEF ScheduleInv
<1>5. TypeOK'
  <2>1. busy' \in BOOLEAN /\ closed' \in BOOLEAN
    BY <1>0 DEF ClockBack, store, ticker, history, counts, TypeOK
  <2>2. {rewinds', refused', blocks', faults', kills'} \subseteq Nat
    BY <1>0 DEF ClockBack, store, ticker, history, counts, TypeOK
  <2> QED
    BY <1>0, <2>1, <2>2 DEF ClockBack, store, ticker, history, counts, TypeOK, Times
<1>6. TickerShape'
  BY <1>0 DEF ClockBack, store, ticker, history, counts, TypeOK, TickerShape
<1>7. OnlyCreated'
  BY <1>0 DEF ClockBack, store, ticker, history, counts, TypeOK, OnlyCreated, TickerShape
<1>8. Covered'
  <2> SUFFICES ASSUME NEW r \in Schedules, NEW i \in 1..Len(fires'[r])
               PROVE  /\ Covers(fires[r][i], last[r], now)'
                      /\ Covers(fires[r][i], dlast[r], now)'
                      /\ r \in todo' => Covers(fires[r][i], copy[r], tnow)'
    BY DEF Covered
  <2>1. /\ fires' = fires /\ i \in 1..Len(fires[r]) /\ fires[r][i] \in 1..MaxTime
        /\ Covers(fires[r][i], last[r], now) /\ Covers(fires[r][i], dlast[r], now)
        /\ r \in todo => Covers(fires[r][i], copy[r], tnow)
    <3>1. fires' = fires
      BY DEF ClockBack, history
    <3>2. i \in 1..Len(fires[r]) /\ fires[r][i] \in 1..MaxTime
      BY <1>0, <3>1, FireTime
    <3> QED
      BY <1>0, <3>1, <3>2 DEF Covered
  <2>2. /\ last' = last /\ dlast' = dlast /\ copy' = copy /\ todo' = todo /\ tnow' = tnow
        /\ rewinds' # 0 /\ refused' = refused
    BY <1>0 DEF ClockBack, store, ticker, counts, TypeOK
  <2> QED
    BY <2>1, <2>2 DEF Covers
<1>9. MarkedIsDue'
  <2>1. /\ cur' = cur /\ last' = last /\ dlast' = dlast /\ tnow' = tnow /\ fires' = fires
        /\ rewinds' # 0 /\ refused' = refused
    BY <1>0 DEF ClockBack, store, ticker, history, TypeOK
  <2> QED
    BY <1>0, <2>1 DEF MarkedIsDue
<1>10. FireIsEarned'
  <2>1. fires' = fires /\ rewinds' # 0 /\ refused' = refused
    BY <1>0 DEF ClockBack, store, ticker, history, counts, TypeOK
  <2> QED
    BY <1>0, <2>1 DEF FireIsEarned
<1> QED
  BY <1>5, <1>6, <1>7, <1>8, <1>9, <1>10 DEF ScheduleInv

LEMMA BlockKeeps == ASSUME ScheduleInv, Block PROVE ScheduleInv'
<1> USE ScheduleAssumption
<1>0. TypeOK /\ TickerShape /\ OnlyCreated /\ Covered /\ MarkedIsDue /\ FireIsEarned
  BY DEF ScheduleInv
<1>5. TypeOK'
  <2>1. busy' \in BOOLEAN /\ closed' \in BOOLEAN
    BY <1>0 DEF Block, store, ticker, history, counts, TypeOK
  <2>2. {rewinds', refused', blocks', faults', kills'} \subseteq Nat
    BY <1>0 DEF Block, store, ticker, history, counts, TypeOK
  <2> QED
    BY <1>0, <2>1, <2>2 DEF Block, store, ticker, history, counts, TypeOK, Times
<1>6. TickerShape'
  BY <1>0 DEF Block, store, ticker, history, counts, TypeOK, TickerShape
<1>7. OnlyCreated'
  BY <1>0 DEF Block, store, ticker, history, counts, TypeOK, OnlyCreated, TickerShape
<1>8. Covered'
  <2> SUFFICES ASSUME NEW r \in Schedules, NEW i \in 1..Len(fires'[r])
               PROVE  /\ Covers(fires[r][i], last[r], now)'
                      /\ Covers(fires[r][i], dlast[r], now)'
                      /\ r \in todo' => Covers(fires[r][i], copy[r], tnow)'
    BY DEF Covered
  <2>1. /\ fires' = fires /\ i \in 1..Len(fires[r]) /\ fires[r][i] \in 1..MaxTime
        /\ Covers(fires[r][i], last[r], now) /\ Covers(fires[r][i], dlast[r], now)
        /\ r \in todo => Covers(fires[r][i], copy[r], tnow)
    <3>1. fires' = fires
      BY DEF Block, history
    <3>2. i \in 1..Len(fires[r]) /\ fires[r][i] \in 1..MaxTime
      BY <1>0, <3>1, FireTime
    <3> QED
      BY <1>0, <3>1, <3>2 DEF Covered
  <2> QED
    BY <1>0, <2>1 DEF Block, store, ticker, history, counts, TypeOK, Times, Covers,
       TickerShape, OnlyCreated, MarkedIsDue
<1>9. MarkedIsDue'
  BY <1>0 DEF Block, store, ticker, history, counts, TypeOK, Times, MarkedIsDue,
     TickerShape, OnlyCreated
<1>10. FireIsEarned'
  BY <1>0 DEF Block, store, ticker, history, counts, FireIsEarned, TypeOK
<1> QED
  BY <1>5, <1>6, <1>7, <1>8, <1>9, <1>10 DEF ScheduleInv

LEMMA UnblockKeeps == ASSUME ScheduleInv, Unblock PROVE ScheduleInv'
<1> USE ScheduleAssumption
<1>0. TypeOK /\ TickerShape /\ OnlyCreated /\ Covered /\ MarkedIsDue /\ FireIsEarned
  BY DEF ScheduleInv
<1>5. TypeOK'
  <2>1. busy' \in BOOLEAN /\ closed' \in BOOLEAN
    BY <1>0 DEF Unblock, store, ticker, history, counts, TypeOK
  <2>2. {rewinds', refused', blocks', faults', kills'} \subseteq Nat
    BY <1>0 DEF Unblock, store, ticker, history, counts, TypeOK
  <2> QED
    BY <1>0, <2>1, <2>2 DEF Unblock, store, ticker, history, counts, TypeOK, Times
<1>6. TickerShape'
  BY <1>0 DEF Unblock, store, ticker, history, counts, TypeOK, TickerShape
<1>7. OnlyCreated'
  BY <1>0 DEF Unblock, store, ticker, history, counts, TypeOK, OnlyCreated, TickerShape
<1>8. Covered'
  <2> SUFFICES ASSUME NEW r \in Schedules, NEW i \in 1..Len(fires'[r])
               PROVE  /\ Covers(fires[r][i], last[r], now)'
                      /\ Covers(fires[r][i], dlast[r], now)'
                      /\ r \in todo' => Covers(fires[r][i], copy[r], tnow)'
    BY DEF Covered
  <2>1. /\ fires' = fires /\ i \in 1..Len(fires[r]) /\ fires[r][i] \in 1..MaxTime
        /\ Covers(fires[r][i], last[r], now) /\ Covers(fires[r][i], dlast[r], now)
        /\ r \in todo => Covers(fires[r][i], copy[r], tnow)
    <3>1. fires' = fires
      BY DEF Unblock, history
    <3>2. i \in 1..Len(fires[r]) /\ fires[r][i] \in 1..MaxTime
      BY <1>0, <3>1, FireTime
    <3> QED
      BY <1>0, <3>1, <3>2 DEF Covered
  <2> QED
    BY <1>0, <2>1 DEF Unblock, store, ticker, history, counts, TypeOK, Times, Covers,
       TickerShape, OnlyCreated, MarkedIsDue
<1>9. MarkedIsDue'
  BY <1>0 DEF Unblock, store, ticker, history, counts, TypeOK, Times, MarkedIsDue,
     TickerShape, OnlyCreated
<1>10. FireIsEarned'
  BY <1>0 DEF Unblock, store, ticker, history, counts, FireIsEarned, TypeOK
<1> QED
  BY <1>5, <1>6, <1>7, <1>8, <1>9, <1>10 DEF ScheduleInv

LEMMA KillKeeps == ASSUME ScheduleInv, Kill PROVE ScheduleInv'
<1> USE ScheduleAssumption
<1>0. TypeOK /\ TickerShape /\ OnlyCreated /\ Covered /\ MarkedIsDue /\ FireIsEarned
  BY DEF ScheduleInv
<1>5. TypeOK'
  <2>1. busy' \in BOOLEAN /\ closed' \in BOOLEAN
    BY <1>0 DEF Kill, store, ticker, history, counts, TypeOK
  <2>2. {rewinds', refused', blocks', faults', kills'} \subseteq Nat
    BY <1>0 DEF Kill, store, ticker, history, counts, TypeOK
  <2> QED
    BY <1>0, <2>1, <2>2 DEF Kill, store, ticker, history, counts, TypeOK, Times
<1>6. TickerShape'
  BY <1>0 DEF Kill, store, ticker, history, counts, TypeOK, TickerShape
<1>7. OnlyCreated'
  BY <1>0 DEF Kill, store, ticker, history, counts, TypeOK, OnlyCreated, TickerShape
<1>8. Covered'
  <2> SUFFICES ASSUME NEW r \in Schedules, NEW i \in 1..Len(fires'[r])
               PROVE  /\ Covers(fires[r][i], last[r], now)'
                      /\ Covers(fires[r][i], dlast[r], now)'
                      /\ r \in todo' => Covers(fires[r][i], copy[r], tnow)'
    BY DEF Covered
  <2>1. /\ fires' = fires /\ i \in 1..Len(fires[r]) /\ fires[r][i] \in 1..MaxTime
        /\ Covers(fires[r][i], last[r], now) /\ Covers(fires[r][i], dlast[r], now)
        /\ r \in todo => Covers(fires[r][i], copy[r], tnow)
    <3>1. fires' = fires
      BY DEF Kill, history
    <3>2. i \in 1..Len(fires[r]) /\ fires[r][i] \in 1..MaxTime
      BY <1>0, <3>1, FireTime
    <3> QED
      BY <1>0, <3>1, <3>2 DEF Covered
  <2>2. /\ last' = dlast /\ dlast' = dlast /\ todo' = {} /\ now' = now
        /\ rewinds' = rewinds /\ refused' = refused
    BY <1>0 DEF Kill, store, ticker, counts, TypeOK
  <2> QED
    BY <2>1, <2>2 DEF Covers
<1>9. MarkedIsDue'
  BY <1>0 DEF Kill, store, ticker, history, counts, TypeOK, Times, MarkedIsDue, TickerShape,
     OnlyCreated
<1>10. FireIsEarned'
  BY <1>0 DEF Kill, store, ticker, history, counts, FireIsEarned, TypeOK
<1> QED
  BY <1>5, <1>6, <1>7, <1>8, <1>9, <1>10 DEF ScheduleInv

-----------------------------------------------------------------------------
LEMMA ScheduleInvStutter == ASSUME ScheduleInv, UNCHANGED vars PROVE ScheduleInv'
BY DEF ScheduleInv, TypeOK, TickerShape, OnlyCreated, Covered, Covers, MarkedIsDue,
   FireIsEarned, vars, store, ticker, history, counts

LEMMA ScheduleInvNext == ScheduleInv /\ [Next]_vars => ScheduleInv'
<1> SUFFICES ASSUME ScheduleInv, [Next]_vars PROVE ScheduleInv'
  OBVIOUS
<1>1. CASE Tick
  BY <1>1, TickStartKeeps, TickEndKeeps, NotDueKeeps, SkipKeeps, MarkKeeps, MarkFailsKeeps,
     FireKeeps, FireRefusedKeeps DEF Tick
<1>2. CASE \E s \in Schedules : Create(s) \/ Delete(s)
  BY <1>2, CreateKeeps, DeleteKeeps
<1>3. CASE Clock \/ ClockBack \/ Block \/ Unblock \/ Kill
  BY <1>3, ClockKeeps, ClockBackKeeps, BlockKeeps, UnblockKeeps, KillKeeps
<1>4. CASE UNCHANGED vars
  BY <1>4, ScheduleInvStutter
<1> QED
  BY <1>1, <1>2, <1>3, <1>4 DEF Next

\* LastFiredAt in memory, in state.json and in the ticker's copies covers every
\* fire, whatever is killed, refused, deleted, blocked or set back.
THEOREM ScheduleInvariant == Spec => []ScheduleInv
<1> QED
  BY ScheduleInvInit, ScheduleInvNext, PTL DEF Spec

\* The scheduler fires no slot twice: two fires of a schedule have a cron minute
\* between them, and the marker of each is in state.json for the next start.
THEOREM ScheduleEachSlotOnce == Spec => []EachSlotOnce
<1>1. ScheduleInv => EachSlotOnce
  <2> SUFFICES ASSUME ScheduleInv PROVE EachSlotOnce
    OBVIOUS
  <2>1. FireIsStored
    BY DEF ScheduleInv, TypeOK, Covered, Covers, FireIsStored
  <2> QED
    BY <2>1 DEF ScheduleInv, EachSlotOnce
<1> QED
  BY <1>1, ScheduleInvariant, PTL

=============================================================================
