---------------------------- MODULE Time_proofs ----------------------------
(***************************************************************************)
(* Proofs about what depends on the passing of time: the record of an      *)
(* engine's clock, for every largest time, every window and any messages;  *)
(* the alarms of the library, for any number of them, any intervals and    *)
(* any nesting of run_alarms; and the caches of the agent, for any number, *)
(* flags and timeouts of them.                                             *)
(***************************************************************************)
EXTENDS EngineTime, SnmpAlarm, CacheHandler, Induction

-----------------------------------------------------------------------------
(* The time of an engine (EngineTime).                                     *)

\* A stamp <<b, t>> made e seconds ago is not ahead of the engine: the engine
\* has counted at least e since, or it has begun another boot no later than
\* its time would have wrapped.
Behind(b, t, e) ==
    \/ b = engine.boots /\ t + e <= engine.time
    \/ b + 1 = engine.boots /\ t + e <= engine.time + EngineTimeMax + 1
    \/ b + 1 < engine.boots

MessagesBehind ==
    \A m \in sent : m.at <= clock /\ Behind(m.boots, m.time, clock - m.at)

RecordBehind ==
    record.auth => /\ record.known
                   /\ record.since <= clock
                   /\ Behind(record.boots, record.time, clock - record.since)

EngineInv == TypeOK /\ MessagesBehind /\ RecordBehind

\* What the manager's handling of a message does to the record.
LEMMA ReceiveType ==
    ASSUME TypeOK, NEW m \in sent, Receive(m)
    PROVE  /\ record' \in Records
           /\ verdict' \in {"fresh", "old", "rejected", "unauthenticated", "garbled"}
           /\ UNCHANGED <<clock, engine, sent>>
           /\ \/ record' = record
              \/ ~record.auth /\ ~record'.auth
              \/ /\ m.auth /\ ~Invalid(m) /\ ~Old(m)
                 /\ record' = [known |-> TRUE, boots |-> m.boots, time |-> m.time,
                               since |-> clock, auth |-> TRUE]
<1> m \in Messages /\ record \in Records /\ clock \in Clock
  BY DEF TypeOK
<1>0. 0 \in Boots /\ 0 \in Times
  BY EngineTimeAssumption DEF Boots, Times
<1>1. /\ Ensured \in Records
      /\ record.auth => Ensured = record
      /\ ~record.auth => ~Ensured.auth
  BY <1>0 DEF Ensured, SetEngineTime, Records
<1>2. CASE ReceiveFresh(m)
  BY <1>2, <1>1 DEF ReceiveFresh, SetEngineTime, Records, Messages
<1>3. CASE ReceiveOld(m) \/ ReceiveTooOld(m) \/ ReceiveGarbled(m)
  BY <1>3, <1>1 DEF ReceiveOld, ReceiveTooOld, ReceiveGarbled
<1>4. CASE ReceiveUnauthenticated(m)
  BY <1>4, <1>1 DEF ReceiveUnauthenticated, SetEngineTime, Records, Messages
<1> QED BY <1>2, <1>3, <1>4 DEF Receive

\* The engine's clock never runs behind a stamp that was not ahead of it.
LEMMA TickKeepsBehind ==
    ASSUME TypeOK, Tick, NEW b \in Boots, NEW t \in Times, NEW since \in Clock,
           Behind(b, t, clock - since)
    PROVE  Behind(b, t, clock - since)'
<1> engine.boots \in Boots /\ engine.time \in Times /\ clock \in Clock
  BY DEF TypeOK
<1>1. CASE engine.time < EngineTimeMax
  <2>1. engine'.boots = engine.boots /\ engine'.time = engine.time + 1 /\ clock' = clock + 1
    BY <1>1 DEF Tick, Second, TypeOK
  <2> QED BY <2>1, EngineTimeAssumption DEF Behind, Boots, Times, Clock
<1>2. CASE ~(engine.time < EngineTimeMax)
  <2>1. engine'.boots = engine.boots + 1 /\ engine'.time = 0 /\ clock' = clock + 1
    BY <1>2 DEF Tick, Second
  <2>2. engine.time = EngineTimeMax
    BY <1>2, EngineTimeAssumption DEF Times
  <2> QED BY <2>1, <2>2, EngineTimeAssumption DEF Behind, Boots, Times, Clock
<1> QED BY <1>1, <1>2

\* ... and so does a boot.
LEMMA RebootKeepsBehind ==
    ASSUME TypeOK, Reboot, NEW b \in Boots, NEW t \in Times, NEW since \in Clock,
           Behind(b, t, clock - since)
    PROVE  Behind(b, t, clock - since)'
<1> engine.boots \in Boots /\ engine.time \in Times /\ clock \in Clock
  BY DEF TypeOK
<1>1. engine'.boots = engine.boots + 1 /\ engine'.time = 0 /\ clock' = clock
  BY DEF Reboot
<1>2. CASE b = engine.boots
  <2>1. t + (clock - since) <= EngineTimeMax
    BY <1>2, EngineTimeAssumption DEF Behind, Boots, Times, Clock
  <2> QED BY <1>1, <1>2, <2>1, EngineTimeAssumption DEF Behind, Boots, Times, Clock
<1>3. CASE b + 1 <= engine.boots
  BY <1>1, <1>3 DEF Behind, Boots
<1> QED BY <1>2, <1>3 DEF Behind, Boots

\* The check of a message, in terms of the boots and the time recorded.
LEMMA TimelinessOf ==
    ASSUME NEW m, NEW b \in Nat, NEW last \in Nat, m.boots \in Nat, m.time \in Nat,
           GetEngineTime(TRUE).boots = b, GetEngineTime(TRUE).last = last
    PROVE  /\ Invalid(m) <=> b = EngineBootMax \/ b > m.boots
           /\ Old(m) <=> b = m.boots /\ m.time < last
<1> DEFINE their == GetEngineTime(TRUE)
<1>1. their.boots = b /\ their.last = last
  OBVIOUS
<1>2. /\ Invalid(m) <=> their.boots = EngineBootMax \/ their.boots > m.boots
      /\ Old(m) <=> their.boots = m.boots /\ m.time < their.last
  BY DEF Invalid, Old
<1> HIDE DEF their
<1> QED BY <1>1, <1>2

\* There are no messages, and no record.
LEMMA EngineInitInv == Init => EngineInv
<1> SUFFICES ASSUME Init PROVE EngineInv
  OBVIOUS
<1>1. NoRecord \in Records
  BY EngineTimeAssumption DEF NoRecord, Records, Boots, Times, Clock
<1>2. engine \in [boots : Boots, time : Times]
  <2>1. 1 \in Boots /\ StartTimes \subseteq Times
    BY EngineTimeAssumption DEF Boots, Times
  <2> QED BY <2>1 DEF Init
<1>3. TypeOK
  BY <1>1, <1>2, EngineTimeAssumption DEF Init, TypeOK, Clock
<1>4. MessagesBehind /\ RecordBehind
  BY DEF Init, MessagesBehind, RecordBehind, NoRecord
<1> QED BY <1>3, <1>4 DEF EngineInv

\* Every step of the engine and of the manager keeps the record behind.
LEMMA EngineStepInv == EngineInv /\ [Next]_vars => EngineInv'
<1> SUFFICES ASSUME EngineInv, [Next]_vars PROVE EngineInv'
  OBVIOUS
<1> USE DEF EngineInv
<1>t. /\ clock \in Clock /\ engine.boots \in Boots /\ engine.time \in Times
      /\ record \in Records /\ sent \subseteq Messages
      /\ engine = [boots |-> engine.boots, time |-> engine.time]
  BY DEF TypeOK
<1>m. \A m \in sent : m.boots \in Boots /\ m.time \in Times /\ m.at \in Clock
  BY <1>t DEF Messages
<1>r. record.boots \in Boots /\ record.time \in Times /\ record.since \in Clock
  BY <1>t DEF Records
<1>1. CASE Tick
  <2>1. clock' = clock + 1 /\ UNCHANGED <<record, sent, verdict>>
    BY <1>1 DEF Tick
  <2>2. clock' \in Clock
    BY <1>1, <2>1, <1>t, EngineTimeAssumption DEF Tick, Clock
  <2>3. engine' \in [boots : Boots, time : Times]
    BY <1>1, <1>t, EngineTimeAssumption DEF Tick, Second, Boots, Times
  <2>4. TypeOK'
    BY <2>1, <2>2, <2>3 DEF TypeOK
  <2>5. MessagesBehind'
    BY <1>1, <2>1, <1>m, <1>t, TickKeepsBehind DEF MessagesBehind, Clock
  <2>6. RecordBehind'
    BY <1>1, <2>1, <1>r, <1>t, TickKeepsBehind DEF RecordBehind, Clock
  <2> QED BY <2>4, <2>5, <2>6
<1>2. CASE Reboot
  <2>1. UNCHANGED <<clock, record, sent, verdict>>
    BY <1>2 DEF Reboot
  <2>2. engine' \in [boots : Boots, time : Times]
    BY <1>2, <1>t, EngineTimeAssumption DEF Reboot, Boots, Times
  <2>3. TypeOK'
    BY <2>1, <2>2 DEF TypeOK
  <2>4. MessagesBehind'
    BY <1>2, <2>1, <1>m, RebootKeepsBehind DEF MessagesBehind
  <2>5. RecordBehind'
    BY <1>2, <2>1, <1>r, RebootKeepsBehind DEF RecordBehind
  <2> QED BY <2>3, <2>4, <2>5
<1>3. ASSUME NEW auth \in BOOLEAN, EngineSends(auth) PROVE EngineInv'
  <2> DEFINE new == [boots |-> engine.boots, time |-> engine.time,
                     auth |-> auth, at |-> clock]
  <2>1. sent' = sent \cup {new} /\ UNCHANGED <<clock, engine, record, verdict>>
    BY <1>3 DEF EngineSends
  <2>2. new \in Messages
    BY <1>t DEF Messages
  <2>3. new.at <= clock /\ Behind(new.boots, new.time, clock - new.at)
    BY <1>t DEF Behind, Clock, Times
  <2>4. TypeOK'
    BY <2>1, <2>2 DEF TypeOK
  <2>5. MessagesBehind'
    BY <2>1, <2>3 DEF MessagesBehind, Behind
  <2>6. RecordBehind'
    BY <2>1 DEF RecordBehind, Behind
  <2> QED BY <2>4, <2>5, <2>6
<1>4. CASE Lose
  BY <1>4 DEF Lose, TypeOK, MessagesBehind, RecordBehind, Behind
<1>5. ASSUME NEW m \in sent, Receive(m) PROVE EngineInv'
  <2>1. /\ record' \in Records
        /\ verdict' \in {"fresh", "old", "rejected", "unauthenticated", "garbled"}
        /\ UNCHANGED <<clock, engine, sent>>
        /\ \/ record' = record
           \/ ~record.auth /\ ~record'.auth
           \/ record' = [known |-> TRUE, boots |-> m.boots, time |-> m.time,
                         since |-> clock, auth |-> TRUE]
    BY <1>5, ReceiveType
  <2>2. TypeOK'
    BY <2>1 DEF TypeOK
  <2>3. MessagesBehind'
    BY <2>1 DEF MessagesBehind, Behind
  <2>4. Behind(m.boots, m.time, 0)
    BY <1>m, <1>t, EngineTimeAssumption
    DEF MessagesBehind, Behind, Boots, Times, Clock
  <2>5. clock - clock = 0 /\ clock <= clock
    BY <1>t DEF Clock
  <2>6. RecordBehind'
    BY <2>1, <2>4, <2>5 DEF RecordBehind, Behind
  <2> QED BY <2>2, <2>3, <2>6
<1>6. CASE UNCHANGED vars
  BY <1>6 DEF vars, TypeOK, MessagesBehind, RecordBehind, Behind
<1> QED BY <1>1, <1>2, <1>3, <1>4, <1>5, <1>6 DEF Next

\* The invariant holds of every run of the manager and the engine.
THEOREM EngineInvariant == Spec => []EngineInv
<1>1. Init => EngineInv
  BY EngineInitInv
<1>2. EngineInv /\ [Next]_vars => EngineInv'
  BY EngineStepInv
<1> QED BY <1>1, <1>2, PTL DEF Spec

\* The variables keep their types.
THEOREM EngineTypes == Spec => []TypeOK
<1>1. EngineInv => TypeOK
  BY DEF EngineInv
<1> QED BY <1>1, EngineInvariant, PTL

-----------------------------------------------------------------------------
\* get_enginetime never gives a time more than one second ahead of the engine,
\* whatever was lost, repeated or delayed and however often the engine booted.
THEOREM EstimateNotAhead == Spec => []NotAhead
<1>1. EngineInv => NotAhead
  <2> SUFFICES ASSUME EngineInv, record.auth
               PROVE ~Before([boots |-> engine.boots, time |-> engine.time + 1], Requested)
    BY DEF NotAhead
  <2>1. /\ clock \in Clock /\ engine.boots \in Boots /\ engine.time \in Times
        /\ record.boots \in Boots /\ record.time \in Times /\ record.since \in Clock
    BY DEF EngineInv, TypeOK, Records
  <2> DEFINE diff == clock - record.since
  <2>2. Behind(record.boots, record.time, diff) /\ record.known
    BY DEF EngineInv, RecordBehind
  <2>3. diff \in Nat
    BY <2>1 DEF EngineInv, RecordBehind, Clock
  <2>4. CASE diff > EngineTimeMax - record.time
    <3>1. record.boots < engine.boots
      BY <2>1, <2>2, <2>3, <2>4, EngineTimeAssumption DEF Behind, Boots, Times
    <3>2. Requested.boots = record.boots + 1
      BY <2>1, <2>2, <2>4, <3>1, EngineTimeAssumption
      DEF Requested, GetEngineTime, Boots
    <3>3. Requested.time = diff - (EngineTimeMax - record.time)
      BY <2>2, <2>4 DEF Requested, GetEngineTime
    <3> QED BY <2>1, <2>2, <2>3, <3>1, <3>2, <3>3, EngineTimeAssumption
            DEF Before, Behind, Boots, Times
  <2>5. CASE ~(diff > EngineTimeMax - record.time)
    <3>1. Requested.boots = record.boots /\ Requested.time = record.time + diff
      BY <2>2, <2>5 DEF Requested, GetEngineTime
    <3> QED BY <2>1, <2>2, <2>3, <3>1, EngineTimeAssumption
            DEF Before, Behind, Boots, Times
  <2> QED BY <2>4, <2>5
<1> QED BY <1>1, EngineInvariant, PTL

\* While the recorded time has not wrapped, a message the engine sends now is
\* accepted: the manager can always get back in step.
THEOREM CurrentAccepted == Spec => []CurrentIsAccepted
<1>1. EngineInv => CurrentIsAccepted
  <2> SUFFICES ASSUME EngineInv, NEW m \in Messages,
                      m.boots = engine.boots, m.time = engine.time,
                      engine.boots < EngineBootMax, NotWrapped
               PROVE ~Invalid(m) /\ ~Old(m)
    BY DEF CurrentIsAccepted
  <2>1. /\ clock \in Clock /\ engine.boots \in Boots /\ engine.time \in Times
        /\ record.boots \in Boots /\ record.time \in Times /\ record.since \in Clock
    BY DEF EngineInv, TypeOK, Records
  <2>n. m.boots \in Nat /\ m.time \in Nat
    BY DEF Messages, Boots, Times
  <2>2. CASE record.auth
    <3>1. record.known /\ Behind(record.boots, record.time, clock - record.since)
      BY <2>2 DEF EngineInv, RecordBehind
    <3>2. clock - record.since \in Nat
      BY <2>1, <2>2 DEF EngineInv, RecordBehind, Clock
    <3>3. ~(clock - record.since > EngineTimeMax - record.time)
      BY <2>1, <3>2, EngineTimeAssumption DEF NotWrapped, Times
    <3>4. GetEngineTime(TRUE).boots = record.boots /\ GetEngineTime(TRUE).last = record.time
      BY <2>2, <3>1, <3>3 DEF GetEngineTime
    <3>5. record.boots \in Nat /\ record.time \in Nat
      BY <2>1 DEF Boots, Times
    <3>6. /\ Invalid(m) <=> record.boots = EngineBootMax \/ record.boots > m.boots
          /\ Old(m) <=> record.boots = m.boots /\ m.time < record.time
      BY <2>n, <3>4, <3>5, TimelinessOf
    <3>7. record.boots <= engine.boots /\ (record.boots = engine.boots => record.time <= engine.time)
      BY <2>1, <3>1, <3>2, EngineTimeAssumption DEF Behind, Boots, Times
    <3> QED BY <2>1, <3>5, <3>6, <3>7, EngineTimeAssumption DEF Boots, Times
  <2>3. CASE ~record.auth
    <3>1. ~(0 > EngineTimeMax - 0)
      BY EngineTimeAssumption
    <3>2. GetEngineTime(TRUE).boots = 0 /\ GetEngineTime(TRUE).last = 0
      BY <2>3, <3>1 DEF GetEngineTime
    <3>3. /\ Invalid(m) <=> 0 = EngineBootMax \/ 0 > m.boots
          /\ Old(m) <=> 0 = m.boots /\ m.time < 0
      BY <2>n, <3>2, TimelinessOf
    <3> QED BY <2>n, <3>3, EngineTimeAssumption
  <2> QED BY <2>2, <2>3
<1> QED BY <1>1, EngineInvariant, PTL

\* The record of an engine, once authenticated, stays so and never goes back.
THEOREM RecordNeverGoesBack == Spec => NeverGoesBack
<1>1. EngineInv /\ [Next]_vars =>
        [record.auth => record'.auth /\ ~Before(record', record)]_vars
  <2> SUFFICES ASSUME EngineInv, Next, record.auth
               PROVE record'.auth /\ ~Before(record', record)
    OBVIOUS
  <2>1. record.boots \in Boots /\ record.time \in Times /\ record.known
    BY DEF EngineInv, TypeOK, Records, RecordBehind
  <2>2. ~Before(record, record)
    BY <2>1 DEF Before, Boots, Times
  <2>3. CASE record' = record
    BY <2>2, <2>3
  <2>4. CASE record' # record
    <3>1. PICK m \in sent : Receive(m)
      BY <2>4 DEF Next, Tick, Reboot, Lose, EngineSends
    <3>2. /\ m.auth /\ ~Invalid(m) /\ ~Old(m)
          /\ record' = [known |-> TRUE, boots |-> m.boots, time |-> m.time,
                        since |-> clock, auth |-> TRUE]
      BY <2>4, <3>1, ReceiveType DEF EngineInv
    <3>3. m.boots \in Boots /\ m.time \in Times
      BY DEF EngineInv, TypeOK, Messages
    <3> DEFINE their == GetEngineTime(TRUE)
    <3>4. their.last = record.time
      BY <2>1 DEF GetEngineTime
    <3>5. their.boots = record.boots \/ their.boots = record.boots + 1
      BY <2>1 DEF GetEngineTime
    <3>a. record.boots \in Nat /\ record.time \in Nat
      BY <2>1 DEF Boots, Times
    <3>b. m.boots \in Nat /\ m.time \in Nat
      BY <3>3 DEF Boots, Times
    <3>c. their.boots \in Nat
      <4> HIDE DEF their
      <4> QED BY <3>5, <3>a
    <3>6. their.boots \in Nat /\ their.last \in Nat /\ m.boots \in Nat /\ m.time \in Nat
      BY <3>4, <3>a, <3>b, <3>c
    <3>7. /\ Invalid(m) <=> their.boots = EngineBootMax \/ their.boots > m.boots
          /\ Old(m) <=> their.boots = m.boots /\ m.time < their.last
      BY <3>6, TimelinessOf
    <3> HIDE DEF their
    <3>8. m.boots >= their.boots /\ (their.boots = m.boots => m.time >= record.time)
      BY <3>2, <3>4, <3>6, <3>7
    <3>9. m.boots >= record.boots /\ (record.boots = m.boots => m.time >= record.time)
      BY <2>1, <3>5, <3>6, <3>8 DEF Boots
    <3>10. record'.auth /\ record'.boots = m.boots /\ record'.time = m.time
      BY <3>2
    <3>11. ~(m.boots < record.boots) /\ ~(m.boots = record.boots /\ m.time < record.time)
      BY <2>1, <3>6, <3>9 DEF Boots, Times
    <3> QED BY <3>10, <3>11 DEF Before
  <2> QED BY <2>3, <2>4
<1> QED BY <1>1, EngineInvariant, PTL DEF NeverGoesBack, Spec

-----------------------------------------------------------------------------
\* Both clocks have counted the same seconds since a message of the engine's
\* present boot was sent.
InStep ==
    \A m \in sent : m.boots = engine.boots => engine.time - m.time = clock - m.at

\* The record stays in step until the engine boots again.
LEMMA InStepStays == EngineInv /\ InStep /\ [Next]_vars => InStep'
<1> SUFFICES ASSUME EngineInv, InStep, [Next]_vars PROVE InStep'
  OBVIOUS
<1>1. /\ clock \in Clock /\ engine.boots \in Boots /\ engine.time \in Times
      /\ \A m \in sent : m.boots \in Boots /\ m.time \in Times /\ m.at \in Clock
      /\ \A m \in sent : m.boots <= engine.boots
  <2>1. clock \in Clock /\ engine.boots \in Boots /\ engine.time \in Times
    BY DEF EngineInv, TypeOK
  <2>2. \A m \in sent : m.boots \in Boots /\ m.time \in Times /\ m.at \in Clock
    BY DEF EngineInv, TypeOK, Messages
  <2>3. \A m \in sent : m.boots <= engine.boots
    BY <2>1, <2>2 DEF EngineInv, MessagesBehind, Behind, Boots
  <2> QED  BY <2>1, <2>2, <2>3
<1>2. CASE Tick
  <2>1. sent' = sent /\ clock' = clock + 1
    BY <1>2 DEF Tick
  <2>2. CASE engine.time < EngineTimeMax
    <3>1. engine'.boots = engine.boots /\ engine'.time = engine.time + 1
      BY <1>2, <2>2 DEF Tick, Second, EngineInv, TypeOK
    <3> QED  BY <1>1, <2>1, <3>1 DEF InStep, Boots, Times, Clock
  <2>3. CASE ~(engine.time < EngineTimeMax)
    <3>1. engine'.boots = engine.boots + 1
      BY <1>2, <2>3 DEF Tick, Second
    <3> QED  BY <1>1, <2>1, <3>1 DEF InStep, Boots
  <2> QED  BY <2>2, <2>3
<1>3. CASE Reboot
  <2>1. engine'.boots = engine.boots + 1 /\ sent' = sent
    BY <1>3 DEF Reboot
  <2> QED  BY <1>1, <2>1 DEF InStep, Boots
<1>4. ASSUME NEW auth \in BOOLEAN, EngineSends(auth) PROVE InStep'
  BY <1>1, <1>4 DEF EngineSends, InStep, Times, Clock
<1>5. CASE Lose
  BY <1>5 DEF Lose, InStep
<1>6. ASSUME NEW m \in sent, Receive(m) PROVE InStep'
  <2>1. UNCHANGED <<clock, engine, sent>>
    BY <1>6, ReceiveType DEF EngineInv
  <2> QED  BY <2>1 DEF InStep
<1>7. CASE UNCHANGED vars
  BY <1>7 DEF vars, InStep
<1> QED  BY <1>2, <1>3, <1>4, <1>5, <1>6, <1>7 DEF Next

\* A fresh message that was not under way for longer than the window brings the
\* record back to within the window of the engine's own clock (set_enginetime,
\* lcd_time.c, after the check of usm_check_and_update_timeliness).
THEOREM FreshInWindow == Spec => FreshSynchronises
<1>1. Init => InStep
  BY DEF Init, InStep
<1>2. EngineInv /\ InStep /\ [Next]_vars =>
        [\A m \in sent :
            ReceiveFresh(m) /\ clock - m.at <= TimeWindow /\ m.boots = engine.boots =>
                /\ record'.boots = engine.boots
                /\ Abs(record'.time - engine.time) <= TimeWindow]_vars
  <2> SUFFICES ASSUME EngineInv, InStep, NEW m \in sent, ReceiveFresh(m),
                      clock - m.at <= TimeWindow, m.boots = engine.boots
               PROVE  /\ record'.boots = engine.boots
                      /\ Abs(record'.time - engine.time) <= TimeWindow
    OBVIOUS
  <2>1. record'.boots = m.boots /\ record'.time = m.time
    BY DEF ReceiveFresh, SetEngineTime
  <2>2. clock \in Nat /\ m.at \in Nat /\ m.time \in Nat /\ engine.time \in Nat
    BY DEF EngineInv, TypeOK, Messages, Times, Clock
  <2>3. m.at <= clock /\ engine.time - m.time = clock - m.at
    BY DEF EngineInv, MessagesBehind, InStep
  <2>4. Abs(m.time - engine.time) = clock - m.at
    BY <2>2, <2>3 DEF Abs
  <2> QED  BY <2>1, <2>4
<1> QED  BY <1>1, <1>2, InStepStays, EngineInitInv, EngineStepInv, PTL
         DEF Spec, FreshSynchronises

-----------------------------------------------------------------------------
(* Alarms (SnmpAlarm).                                                     *)

Alarm == [clientreg : 0 .. MaxReg, t : Nat, repeat : BOOLEAN, next : Nat,
          fired : BOOLEAN, complete : BOOLEAN]
Frame == [at : {"loop", "callback"}, clientreg : 0 .. MaxReg, now : Nat]

AlarmTypeOK ==
    /\ alarmClock \in Nat
    /\ thealarms \subseteq Alarm
    /\ regnum \in 1 .. MaxReg + 1
    /\ stack \in Seq(Frame)
    /\ filling \in [at : {"no", "walked", "linked"}, tail : 0 .. MaxReg]
    /\ filling # NotFilling => regnum <= MaxReg
    /\ fireHistory \in [fires : [Regs -> Nat], promised : [Regs -> Nat]]

\* An alarm has its number alone, and a number not given yet has no past.  Only a
\* registration that is linked and not filled in has none.
Numbered ==
    /\ \A a, b \in thealarms : a.clientreg = b.clientreg => a = b
    /\ \A a \in thealarms : a.clientreg < regnum /\ (a.complete <=> a.clientreg # 0)
    /\ \A a \in thealarms : ~a.complete => filling.at = "linked"
    /\ \A r \in Regs : r >= regnum => fireHistory.fires[r] = 0

\* Nothing is due before its promise, and what was fired came after it.
Promised ==
    \A a \in thealarms :
        a.complete => /\ fireHistory.promised[a.clientreg] <= a.next
                      /\ a.fired => fireHistory.promised[a.clientreg] <= alarmClock

\* A callback is under way once, its alarm is marked or gone.
InCallback ==
    /\ \A i \in 1 .. Len(stack) : stack[i].at = "callback" =>
         /\ stack[i].clientreg \in Regs /\ stack[i].clientreg < regnum
         /\ stack[i].now <= alarmClock
         /\ fireHistory.promised[stack[i].clientreg] <= stack[i].now
         /\ \A a \in thealarms : a.clientreg = stack[i].clientreg => a.fired
    /\ \A i, j \in 1 .. Len(stack) :
         /\ stack[i].at = "callback" /\ stack[j].at = "callback"
         /\ stack[i].clientreg = stack[j].clientreg
         => i = j

AlarmInv == AlarmTypeOK /\ Numbered /\ Promised /\ InCallback /\ FiresOnce

-----------------------------------------------------------------------------
(* The stack of run_alarms.                                                *)

\* A frame on top of others.
LEMMA Pushed ==
    ASSUME NEW S, NEW s \in Seq(S), NEW x \in S
    PROVE  LET more == <<x>> \o s IN
           /\ more \in Seq(S) /\ more[1] = x
           /\ \A i \in 1 .. Len(more) :
                i = 1 \/ (i - 1 \in 1 .. Len(s) /\ more[i] = s[i - 1])
<1> DEFINE more == <<x>> \o s
<1>1. more \in Seq(S) /\ Len(more) = Len(s) + 1 /\ Len(s) \in Nat
  OBVIOUS
<1>2. more[1] = x
  OBVIOUS
<1>3. \A i \in 1 .. Len(s) + 1 : i # 1 => i - 1 \in 1 .. Len(s) /\ more[i] = s[i - 1]
  OBVIOUS
<1> HIDE DEF more
<1>4. \A i \in 1 .. Len(more) :
        i = 1 \/ (i - 1 \in 1 .. Len(s) /\ more[i] = s[i - 1])
  BY <1>1, <1>3
<1> QED  BY <1>1, <1>2, <1>4 DEF more

\* The frames below the top.
LEMMA Below ==
    ASSUME NEW S, NEW s \in Seq(S), s # <<>>
    PROVE  /\ Tail(s) \in Seq(S) /\ Head(s) = s[1] /\ Head(s) \in S /\ 1 \in 1 .. Len(s)
           /\ \A i \in 1 .. Len(Tail(s)) :
                i + 1 \in 1 .. Len(s) /\ i + 1 # 1 /\ Tail(s)[i] = s[i + 1]
OBVIOUS

\* The top replaced by a frame that is not a callback, or by one of an alarm that
\* no callback is under way for.  (What the callbacks below say, they go on saying.)
LEMMA TopReplaced ==
    ASSUME AlarmTypeOK, InCallback, stack # <<>>, NEW x \in Frame,
           stack' = <<x>> \o Tail(stack)
    PROVE  /\ stack' \in Seq(Frame)
           /\ stack'[1] = x
           /\ \A i \in 1 .. Len(stack') :
                i = 1 \/ (i \in 1 .. Len(stack) /\ stack'[i] = stack[i])
<1>1. /\ Tail(stack) \in Seq(Frame)
      /\ \A i \in 1 .. Len(Tail(stack)) :
           i + 1 \in 1 .. Len(stack) /\ i + 1 # 1 /\ Tail(stack)[i] = stack[i + 1]
  BY Below DEF AlarmTypeOK
<1>2. /\ stack' \in Seq(Frame) /\ stack'[1] = x
      /\ \A i \in 1 .. Len(stack') :
           i = 1 \/ (i - 1 \in 1 .. Len(Tail(stack)) /\ stack'[i] = Tail(stack)[i - 1])
  BY <1>1, Pushed
<1>3. \A i \in 1 .. Len(stack') :
        i = 1 \/ ((i - 1) + 1 \in 1 .. Len(stack) /\ stack'[i] = stack[(i - 1) + 1])
  BY <1>1, <1>2
<1>4. \A i \in 1 .. Len(stack') : (i - 1) + 1 = i
  BY <1>2
<1> QED  BY <1>2, <1>3, <1>4

-----------------------------------------------------------------------------
(* The invariant holds at first and is preserved by every action.          *)

\* An empty list satisfies the invariant.
LEMMA AlarmInitInv == AlarmInit => AlarmInv
<1> SUFFICES ASSUME AlarmInit  PROVE AlarmInv
  OBVIOUS
<1>1. MaxReg \in Nat
  BY SnmpAlarmAssumption
<1>2. AlarmTypeOK
  BY <1>1 DEF AlarmInit, AlarmTypeOK, NotFilling, Regs
<1>3. Numbered /\ Promised /\ FiresOnce
  BY DEF AlarmInit, Numbered, Promised, FiresOnce
<1>4. InCallback
  BY DEF AlarmInit, InCallback
<1> QED  BY <1>2, <1>3, <1>4 DEF AlarmInv

\* The alarms change and none is new: some go, some get another time.
LEMMA FewerAlarms ==
    ASSUME AlarmInv, thealarms' \subseteq Alarm,
           UNCHANGED <<alarmClock, regnum, stack, filling>>,
           \A a \in thealarms' : a.complete = (a.clientreg # 0),
           \A a, b \in thealarms' : a.clientreg = b.clientreg => a = b,
           \A a \in thealarms' : \E b \in thealarms :
               /\ b.clientreg = a.clientreg /\ b.repeat = a.repeat
               /\ b.fired = a.fired /\ b.complete = a.complete,
           fireHistory' \in [fires : [Regs -> Nat], promised : [Regs -> Nat]],
           fireHistory'.fires = fireHistory.fires,
           \A a \in thealarms : a.clientreg \in Regs /\ a.fired =>
               fireHistory'.promised[a.clientreg] = fireHistory.promised[a.clientreg],
           \A i \in 1 .. Len(stack) : stack[i].at = "callback" =>
               fireHistory'.promised[stack[i].clientreg]
                   = fireHistory.promised[stack[i].clientreg],
           \A a \in thealarms' :
               a.complete => fireHistory'.promised[a.clientreg] <= a.next
    PROVE  AlarmInv'
<1>1. AlarmTypeOK'
  BY DEF AlarmInv, AlarmTypeOK, NotFilling
<1>2. Numbered'
  BY DEF AlarmInv, Numbered
<1>3. Promised'
  <2> SUFFICES ASSUME NEW a \in thealarms', a.complete
               PROVE  /\ fireHistory'.promised[a.clientreg] <= a.next
                      /\ a.fired => fireHistory'.promised[a.clientreg] <= alarmClock'
    BY DEF Promised
  <2>1. PICK b \in thealarms : /\ b.clientreg = a.clientreg /\ b.fired = a.fired
                               /\ b.complete = a.complete
    OBVIOUS
  <2>2. a.clientreg \in Regs
    BY DEF Alarm, Regs
  <2> QED  BY <2>1, <2>2 DEF AlarmInv, Promised
<1>4. InCallback'
  <2>1. ASSUME NEW i \in 1 .. Len(stack), stack[i].at = "callback"
        PROVE  /\ stack[i].clientreg \in Regs /\ stack[i].clientreg < regnum
               /\ stack[i].now <= alarmClock
               /\ fireHistory.promised[stack[i].clientreg] <= stack[i].now
    BY <2>1 DEF AlarmInv, InCallback
  <2>2. ASSUME NEW i \in 1 .. Len(stack), stack[i].at = "callback",
               NEW a \in thealarms', a.clientreg = stack[i].clientreg
        PROVE  a.fired
    <3>1. PICK b \in thealarms : b.clientreg = a.clientreg /\ b.fired = a.fired
      OBVIOUS
    <3> QED  BY <2>2, <3>1 DEF AlarmInv, InCallback
  <2>3. \A i, j \in 1 .. Len(stack) :
          /\ stack[i].at = "callback" /\ stack[j].at = "callback"
          /\ stack[i].clientreg = stack[j].clientreg
          => i = j
    BY DEF AlarmInv, InCallback
  <2>4. ASSUME NEW i \in 1 .. Len(stack), stack[i].at = "callback"
        PROVE  fireHistory'.promised[stack[i].clientreg] <= stack[i].now
    <3>1. fireHistory'.promised[stack[i].clientreg]
            = fireHistory.promised[stack[i].clientreg]
      BY <2>4
    <3> QED  BY <2>1, <2>4, <3>1
  <2>5. stack' = stack /\ regnum' = regnum /\ alarmClock' = alarmClock
    OBVIOUS
  <2> QED  BY <2>1, <2>2, <2>3, <2>4, <2>5 DEF InCallback
<1>5. FiresOnce'
  BY DEF AlarmInv, FiresOnce
<1> QED  BY <1>1, <1>2, <1>3, <1>4, <1>5 DEF AlarmInv

\* snmp_alarm_unregister and snmp_alarm_unregister_all only take alarms away.
LEMMA StepUnregister ==
    ASSUME AlarmInv, (\E r \in Regs : Unregister(r)) \/ UnregisterAll
    PROVE  AlarmInv'
<1>1. /\ thealarms' \subseteq thealarms
      /\ UNCHANGED <<alarmClock, regnum, stack, filling, fireHistory>>
  BY DEF Unregister, UnregisterAll, Without
<1>2. thealarms' \subseteq Alarm /\ fireHistory \in [fires : [Regs -> Nat], promised : [Regs -> Nat]]
  BY <1>1 DEF AlarmInv, AlarmTypeOK
<1>3. \A a \in thealarms' : a.complete = (a.clientreg # 0)
  BY <1>1, <1>2 DEF AlarmInv, Numbered, Alarm
<1>4. \A a, b \in thealarms' : a.clientreg = b.clientreg => a = b
  BY <1>1 DEF AlarmInv, Numbered
<1>5. \A a \in thealarms' : a.complete => fireHistory'.promised[a.clientreg] <= a.next
  BY <1>1 DEF AlarmInv, Promised
<1> QED  BY <1>1, <1>2, <1>3, <1>4, <1>5, FewerAlarms

\* snmp_alarm_reset promises the alarm anew, its own callback excepted.
LEMMA StepReset ==
    ASSUME AlarmInv, NEW r \in Regs, Reset(r)
    PROVE  AlarmInv'
<1>1. PICK a \in thealarms :
        /\ a.clientreg = r
        /\ thealarms' = Without(r) \cup {[a EXCEPT !.next = alarmClock + a.t]}
        /\ fireHistory' = IF a.fired THEN fireHistory
                          ELSE [fireHistory EXCEPT !.promised[r] = alarmClock + a.t]
  BY DEF Reset
<1> DEFINE later == [clientreg |-> r, t |-> a.t, repeat |-> a.repeat,
                     next |-> alarmClock + a.t, fired |-> a.fired, complete |-> a.complete]
<1>2. /\ a \in Alarm /\ alarmClock \in Nat /\ thealarms \subseteq Alarm
      /\ fireHistory \in [fires : [Regs -> Nat], promised : [Regs -> Nat]]
      /\ MaxReg \in Nat /\ r # 0 /\ r \in Nat
  BY SnmpAlarmAssumption DEF AlarmInv, AlarmTypeOK, Regs
<1>3. thealarms' = Without(r) \cup {later} /\ later \in Alarm
  BY <1>1, <1>2 DEF Alarm
<1>4. UNCHANGED <<alarmClock, regnum, stack, filling>>
  BY DEF Reset
<1>5. a.complete /\ later.complete = (later.clientreg # 0)
  BY <1>1, <1>2 DEF AlarmInv, Numbered
<1>6. /\ later.clientreg = r /\ later.next = alarmClock + a.t /\ later.fired = a.fired
      /\ later.repeat = a.repeat /\ later.complete = a.complete
  OBVIOUS
<1> HIDE DEF later
<1>7. /\ \A b \in thealarms' : b.complete = (b.clientreg # 0)
      /\ \A b, c \in thealarms' : b.clientreg = c.clientreg => b = c
      /\ thealarms' \subseteq Alarm
  BY <1>2, <1>3, <1>5, <1>6 DEF AlarmInv, Numbered, Without, Alarm
<1>8. \A c \in thealarms' : \E b \in thealarms :
        /\ b.clientreg = c.clientreg /\ b.repeat = c.repeat
        /\ b.fired = c.fired /\ b.complete = c.complete
  BY <1>1, <1>3, <1>6 DEF Without
<1>9. /\ fireHistory' \in [fires : [Regs -> Nat], promised : [Regs -> Nat]]
      /\ fireHistory'.fires = fireHistory.fires
      /\ \A q \in Regs : q # r => fireHistory'.promised[q] = fireHistory.promised[q]
      /\ a.fired => fireHistory' = fireHistory
      /\ ~a.fired => fireHistory'.promised[r] = alarmClock + a.t
  <2>1. alarmClock + a.t \in Nat
    BY <1>2 DEF Alarm
  <2>2. CASE a.fired
    BY <1>1, <1>2, <2>2
  <2>3. CASE ~a.fired
    <3>1. fireHistory' = [fires |-> fireHistory.fires,
                          promised |-> [fireHistory.promised EXCEPT ![r] = alarmClock + a.t]]
      BY <1>1, <1>2, <2>3
    <3> QED  BY <1>2, <2>1, <2>3, <3>1
  <2> QED  BY <2>2, <2>3
<1>10. \A b \in thealarms : b.clientreg \in Regs /\ b.fired =>
         fireHistory'.promised[b.clientreg] = fireHistory.promised[b.clientreg]
  BY <1>1, <1>9 DEF AlarmInv, Numbered
<1>11. \A i \in 1 .. Len(stack) : stack[i].at = "callback" =>
         fireHistory'.promised[stack[i].clientreg] = fireHistory.promised[stack[i].clientreg]
  BY <1>1, <1>9 DEF AlarmInv, InCallback
<1>12. \A b \in thealarms' : b.complete => fireHistory'.promised[b.clientreg] <= b.next
  <2>1. fireHistory'.promised[r] <= alarmClock + a.t
    <3>1. a.t \in Nat /\ fireHistory.promised[r] \in Nat
      BY <1>2 DEF Alarm
    <3>2. CASE a.fired
      <4>1. fireHistory.promised[r] <= alarmClock
        BY <1>1, <1>5, <3>2 DEF AlarmInv, Promised
      <4> QED  BY <1>2, <1>9, <3>1, <3>2, <4>1
    <3>3. CASE ~a.fired
      BY <1>2, <1>9, <3>1, <3>3
    <3> QED  BY <3>2, <3>3
  <2>2. ASSUME NEW b \in Without(r), b.complete
        PROVE  fireHistory'.promised[b.clientreg] <= b.next
    <3>1. b \in thealarms /\ b.clientreg # r /\ b.clientreg \in Regs
      BY <1>2, <2>2 DEF Without, AlarmInv, Numbered, Alarm, Regs
    <3> QED  BY <1>9, <2>2, <3>1 DEF AlarmInv, Promised
  <2> QED  BY <1>3, <1>6, <2>1, <2>2
<1> QED  BY <1>4, <1>7, <1>8, <1>9, <1>10, <1>11, <1>12, FewerAlarms

\* A new alarm, with the next number.
LEMMA NewAlarm ==
    ASSUME AlarmInv, regnum <= MaxReg,
           NEW kept \in SUBSET thealarms, NEW t \in Intervals, NEW repeat \in BOOLEAN,
           thealarms' = kept \cup {Entry(regnum, t, repeat, alarmClock + t)},
           fireHistory' = [fireHistory EXCEPT !.promised[regnum] = alarmClock + t],
           regnum' = regnum + 1,
           UNCHANGED <<alarmClock, stack>>,
           \/ filling' = filling /\ (filling # NotFilling => regnum < MaxReg)
           \/ filling' = NotFilling /\ \A a \in kept : a.complete
    PROVE  AlarmInv'
<1> DEFINE new == Entry(regnum, t, repeat, alarmClock + t)
<1>1. /\ alarmClock \in Nat /\ thealarms \subseteq Alarm /\ t \in Nat /\ MaxReg \in Nat
      /\ fireHistory \in [fires : [Regs -> Nat], promised : [Regs -> Nat]]
      /\ regnum \in Regs /\ regnum \in Nat /\ regnum # 0 /\ alarmClock + t \in Nat
  BY SnmpAlarmAssumption DEF AlarmInv, AlarmTypeOK, Regs
<1>2. /\ new.clientreg = regnum /\ new.next = alarmClock + t /\ new.complete /\ ~new.fired
      /\ new \in Alarm
  BY <1>1 DEF Entry, Alarm
<1> HIDE DEF new
<1>3. thealarms' = kept \cup {new} /\ thealarms' \subseteq Alarm
  BY <1>1, <1>2 DEF new
<1>4. /\ fireHistory' \in [fires : [Regs -> Nat], promised : [Regs -> Nat]]
      /\ fireHistory'.fires = fireHistory.fires
      /\ fireHistory'.promised[regnum] = alarmClock + t
      /\ \A q \in Regs : q # regnum => fireHistory'.promised[q] = fireHistory.promised[q]
  <2>1. fireHistory' = [fires |-> fireHistory.fires,
                        promised |-> [fireHistory.promised EXCEPT ![regnum] = alarmClock + t]]
    BY <1>1
  <2> QED  BY <1>1, <2>1
<1>5. AlarmTypeOK'
  <2>1. regnum' \in 1 .. MaxReg + 1
    BY <1>1
  <2>2. filling' \in [at : {"no", "walked", "linked"}, tail : 0 .. MaxReg]
    BY <1>1 DEF AlarmInv, AlarmTypeOK, NotFilling
  <2>3. filling' # NotFilling => regnum' <= MaxReg
    BY <1>1
  <2> QED  BY <1>1, <1>3, <1>4, <2>1, <2>2, <2>3 DEF AlarmInv, AlarmTypeOK, NotFilling
<1>6. \A a \in kept : a \in thealarms /\ a.clientreg < regnum
  BY DEF AlarmInv, Numbered
<1>7. \A a \in kept : a.clientreg # regnum /\ (a.complete => a.clientreg \in Regs)
  <2> SUFFICES ASSUME NEW a \in kept
               PROVE  a.clientreg # regnum /\ (a.complete => a.clientreg \in Regs)
    OBVIOUS
  <2>1. a \in Alarm /\ a.clientreg < regnum /\ a.clientreg \in 0 .. MaxReg
    BY <1>1, <1>6 DEF Alarm
  <2>2. a.complete => a.clientreg # 0
    BY DEF AlarmInv, Numbered
  <2> QED  BY <1>1, <2>1, <2>2 DEF Regs
<1>8. Numbered'
  <2>1. \A a, b \in thealarms' : a.clientreg = b.clientreg => a = b
    BY <1>2, <1>3, <1>6, <1>7 DEF AlarmInv, Numbered
  <2>2. \A a \in thealarms' : a.clientreg < regnum' /\ (a.complete <=> a.clientreg # 0)
    <3>1. \A a \in kept : a.clientreg \in Nat
      BY <1>1, <1>6 DEF Alarm
    <3> QED  BY <1>1, <1>2, <1>3, <1>6, <3>1 DEF AlarmInv, Numbered
  <2>3. \A a \in thealarms' : ~a.complete => filling'.at = "linked"
    BY <1>2, <1>3, <1>6 DEF AlarmInv, Numbered
  <2>4. \A r \in Regs : r >= regnum' => fireHistory'.fires[r] = 0
    <3>1. \A r \in Regs : r >= regnum' => r >= regnum
      BY <1>1 DEF Regs
    <3> QED  BY <1>4, <3>1 DEF AlarmInv, Numbered
  <2> QED  BY <2>1, <2>2, <2>3, <2>4 DEF Numbered
<1>9. Promised'
  BY <1>1, <1>2, <1>3, <1>4, <1>6, <1>7 DEF AlarmInv, Promised
<1>10. InCallback'
  <2>1. \A i \in 1 .. Len(stack) : stack[i].at = "callback" =>
          /\ stack[i].clientreg # regnum /\ stack[i].clientreg < regnum'
          /\ stack[i].clientreg \in Regs
    BY <1>1 DEF AlarmInv, InCallback, Regs
  <2> QED  BY <1>2, <1>3, <1>4, <1>6, <2>1 DEF AlarmInv, InCallback
<1>11. FiresOnce'
  <2>1. fireHistory.fires[regnum] = 0
    BY <1>1 DEF AlarmInv, Numbered
  <2> QED  BY <1>2, <1>3, <1>4, <1>6, <2>1 DEF AlarmInv, FiresOnce
<1> QED  BY <1>5, <1>8, <1>9, <1>10, <1>11 DEF AlarmInv

\* A registration in one step adds an alarm with a number nobody has.
LEMMA StepRegister ==
    ASSUME AlarmInv, Register
    PROVE  AlarmInv'
<1>1. PICK t \in Intervals, repeat \in BOOLEAN :
        /\ thealarms' = thealarms \cup {Entry(regnum, t, repeat, alarmClock + t)}
        /\ fireHistory' = [fireHistory EXCEPT !.promised[regnum] = alarmClock + t]
  BY DEF Register
<1>2. regnum \in Nat /\ MaxReg \in Nat
  BY SnmpAlarmAssumption DEF AlarmInv, AlarmTypeOK
<1>3. regnum <= MaxReg /\ (filling # NotFilling => regnum < MaxReg)
  BY <1>2 DEF Register, NumberLeft
<1>4. regnum' = regnum + 1 /\ UNCHANGED <<alarmClock, stack, filling>>
  BY DEF Register
<1> QED  BY <1>1, <1>3, <1>4, NewAlarm

\* The end of a registration fills in the entry that a signal found empty.
LEMMA StepFill ==
    ASSUME AlarmInv, Fill
    PROVE  AlarmInv'
<1> DEFINE kept == {a \in thealarms : a.complete}
<1>1. PICK t \in Intervals, repeat \in BOOLEAN :
        /\ thealarms' = kept \cup {Entry(regnum, t, repeat, alarmClock + t)}
        /\ fireHistory' = [fireHistory EXCEPT !.promised[regnum] = alarmClock + t]
  BY DEF Fill
<1>2. regnum <= MaxReg
  BY DEF Fill, AlarmInv, AlarmTypeOK, NotFilling
<1>3. regnum' = regnum + 1 /\ UNCHANGED <<alarmClock, stack>> /\ filling' = NotFilling
  BY DEF Fill
<1>4. kept \in SUBSET thealarms /\ \A a \in kept : a.complete
  OBVIOUS
<1> HIDE DEF kept
<1> QED  BY <1>1, <1>2, <1>3, <1>4, NewAlarm

\* The registration of the main loop has come to another place.
LEMMA StepWalk ==
    ASSUME AlarmInv, Walk
    PROVE  AlarmInv'
<1> DEFINE numbers == {a.clientreg : a \in thealarms}
<1>1. /\ filling = NotFilling /\ UNCHANGED <<alarmClock, thealarms, regnum, stack, fireHistory>>
      /\ regnum <= MaxReg /\ thealarms \subseteq Alarm /\ MaxReg \in Nat
  BY SnmpAlarmAssumption DEF Walk, Client, NumberLeft, AlarmInv, AlarmTypeOK
<1>2. \A a \in thealarms : a.clientreg \in Regs
  BY <1>1 DEF AlarmInv, Numbered, NotFilling, Alarm, Regs
<1>3. filling' \in [at : {"no", "walked", "linked"}, tail : 0 .. MaxReg]
  <2>1. CASE thealarms = {}
    BY <1>1, <2>1 DEF Walk
  <2>2. CASE thealarms # {}
    <3>1. numbers \subseteq 0 .. MaxReg /\ numbers # {}
      BY <1>2, <2>2 DEF Regs
    <3> HIDE DEF numbers
    <3>2. PICK m \in numbers : \A k \in numbers : k <= m
      BY <1>1, <3>1, GreatestOf
    <3> USE DEF numbers
    <3>3. \E r \in Regs : /\ \E a \in thealarms : a.clientreg = r
                          /\ \A a \in thealarms : a.clientreg <= r
      BY <1>2, <3>2
    <3>4. filling'.tail \in Regs /\ filling' = [at |-> "walked", tail |-> filling'.tail]
      BY <2>2, <3>3 DEF Walk
    <3> QED  BY <1>1, <3>4 DEF Regs
  <2> QED  BY <2>1, <2>2
<1>4. AlarmTypeOK'
  BY <1>1, <1>3 DEF AlarmInv, AlarmTypeOK
<1>5. Numbered'
  BY <1>1 DEF AlarmInv, Numbered, NotFilling
<1>6. Promised' /\ InCallback' /\ FiresOnce'
  BY <1>1 DEF AlarmInv, Promised, InCallback, FiresOnce
<1> QED  BY <1>4, <1>5, <1>6 DEF AlarmInv

\* The middle of a registration drops what a signal put behind the tail.
LEMMA StepLink ==
    ASSUME AlarmInv, Link
    PROVE  AlarmInv'
<1> DEFINE half == [clientreg |-> 0, t |-> 0, repeat |-> FALSE, next |-> 0,
                    fired |-> FALSE, complete |-> FALSE]
           kept == {a \in thealarms : a.clientreg <= filling.tail}
<1>1. /\ filling.at = "walked" /\ stack = <<>> /\ regnum <= MaxReg /\ regnum \in Nat
      /\ regnum # 0 /\ thealarms \subseteq Alarm /\ MaxReg \in Nat
      /\ filling \in [at : {"no", "walked", "linked"}, tail : 0 .. MaxReg]
      /\ UNCHANGED <<alarmClock, regnum, stack, fireHistory>>
  BY SnmpAlarmAssumption DEF Link, AlarmInv, AlarmTypeOK, NotFilling
<1>2. CASE thealarms' = kept \cup {half} /\ filling' = [filling EXCEPT !.at = "linked"]
  <2>1. filling' = [at |-> "linked", tail |-> filling.tail]
    BY <1>1, <1>2
  <2>2. half.clientreg = 0 /\ ~half.complete /\ half \in Alarm
    BY <1>1 DEF Alarm
  <2> HIDE DEF half
  <2>3. \A a \in kept : a.clientreg # 0 /\ a.complete /\ a \in thealarms
    BY <1>1 DEF AlarmInv, Numbered
  <2> HIDE DEF kept
  <2>4. AlarmTypeOK'
    BY <1>1, <1>2, <2>1, <2>2, <2>3 DEF AlarmInv, AlarmTypeOK, NotFilling
  <2>5. Numbered'
    BY <1>1, <1>2, <2>1, <2>2, <2>3 DEF AlarmInv, Numbered
  <2>6. Promised' /\ FiresOnce'
    BY <1>1, <1>2, <2>2, <2>3 DEF AlarmInv, Promised, FiresOnce
  <2>7. InCallback'
    BY <1>1 DEF InCallback
  <2> QED  BY <2>4, <2>5, <2>6, <2>7 DEF AlarmInv
<1>3. CASE UNCHANGED <<thealarms, filling>>
  BY <1>1, <1>3 DEF AlarmInv, AlarmTypeOK, Numbered, Promised, InCallback, FiresOnce
<1> QED  BY <1>2, <1>3 DEF Link

\* A call of run_alarms begins, or is over: the callbacks under way are the same.
LEMMA StepCall ==
    ASSUME AlarmInv, RunAlarms \/ NoneDue
    PROVE  AlarmInv'
<1>1. UNCHANGED <<alarmClock, thealarms, regnum, filling, fireHistory>>
  BY DEF RunAlarms, NoneDue
<1>2. CASE RunAlarms
  <2> DEFINE x == [at |-> "loop", clientreg |-> 0, now |-> 0]
  <2>1. x \in Frame /\ x.at # "callback" /\ stack' = <<x>> \o stack /\ stack \in Seq(Frame)
    BY <1>2, SnmpAlarmAssumption DEF RunAlarms, Frame, AlarmInv, AlarmTypeOK
  <2> HIDE DEF x
  <2>2. /\ stack' \in Seq(Frame) /\ stack'[1] = x
        /\ \A i \in 1 .. Len(stack') :
             i = 1 \/ (i - 1 \in 1 .. Len(stack) /\ stack'[i] = stack[i - 1])
    BY <2>1, Pushed
  <2>3. AlarmTypeOK' /\ Numbered' /\ Promised' /\ FiresOnce'
    BY <1>1, <2>2 DEF AlarmInv, AlarmTypeOK, Numbered, Promised, FiresOnce
  <2>4. ASSUME NEW i \in 1 .. Len(stack'), NEW j \in 1 .. Len(stack'),
               stack'[i].at = "callback", stack'[j].at = "callback",
               stack'[i].clientreg = stack'[j].clientreg
        PROVE  i = j
    <3>1. i - 1 = j - 1
      BY <2>1, <2>2, <2>4 DEF AlarmInv, InCallback
    <3> QED  BY <2>2, <3>1
  <2>5. ASSUME NEW i \in 1 .. Len(stack'), stack'[i].at = "callback"
        PROVE  /\ stack'[i].clientreg \in Regs /\ stack'[i].clientreg < regnum
               /\ stack'[i].now <= alarmClock
               /\ fireHistory.promised[stack'[i].clientreg] <= stack'[i].now
               /\ \A a \in thealarms : a.clientreg = stack'[i].clientreg => a.fired
    BY <2>1, <2>2, <2>5 DEF AlarmInv, InCallback
  <2>6. InCallback'
    BY <1>1, <2>4, <2>5 DEF InCallback
  <2> QED  BY <2>3, <2>6 DEF AlarmInv
<1>3. CASE NoneDue
  <2>1. stack # <<>> /\ stack' = Tail(stack) /\ stack \in Seq(Frame)
    BY <1>3 DEF NoneDue, AlarmInv, AlarmTypeOK
  <2>2. /\ stack' \in Seq(Frame)
        /\ \A i \in 1 .. Len(stack') :
             i + 1 \in 1 .. Len(stack) /\ stack'[i] = stack[i + 1]
    BY <2>1, Below
  <2>3. AlarmTypeOK' /\ Numbered' /\ Promised' /\ FiresOnce'
    BY <1>1, <2>2 DEF AlarmInv, AlarmTypeOK, Numbered, Promised, FiresOnce
  <2>4. ASSUME NEW i \in 1 .. Len(stack'), NEW j \in 1 .. Len(stack'),
               stack'[i].at = "callback", stack'[j].at = "callback",
               stack'[i].clientreg = stack'[j].clientreg
        PROVE  i = j
    <3>1. i + 1 = j + 1
      BY <2>1, <2>2, <2>4 DEF AlarmInv, InCallback
    <3> QED  BY <2>2, <3>1
  <2>5. ASSUME NEW i \in 1 .. Len(stack'), stack'[i].at = "callback"
        PROVE  /\ stack'[i].clientreg \in Regs /\ stack'[i].clientreg < regnum
               /\ stack'[i].now <= alarmClock
               /\ fireHistory.promised[stack'[i].clientreg] <= stack'[i].now
               /\ \A a \in thealarms : a.clientreg = stack'[i].clientreg => a.fired
    BY <2>1, <2>2, <2>5 DEF AlarmInv, InCallback
  <2>6. InCallback'
    BY <1>1, <2>4, <2>5 DEF InCallback
  <2> QED  BY <2>3, <2>6 DEF AlarmInv
<1> QED  BY <1>2, <1>3

\* An alarm that is marked as being run.
LEMMA MarkedInList ==
    ASSUME NEW a \in Alarm, NEW v \in BOOLEAN
    PROVE  [a EXCEPT !.fired = v] =
               [clientreg |-> a.clientreg, t |-> a.t, repeat |-> a.repeat,
                next |-> a.next, fired |-> v, complete |-> a.complete]
BY DEF Alarm

\* run_alarms enters the callback of the next due alarm.
LEMMA StepFire ==
    ASSUME AlarmInv, Fire
    PROVE  AlarmInv'
<1>1. PICK a \in thealarms :
        /\ ~a.fired /\ a.next <= alarmClock /\ a.complete
        /\ thealarms' = (thealarms \ {a}) \cup {[a EXCEPT !.fired = TRUE]}
        /\ stack' = <<[at |-> "callback", clientreg |-> a.clientreg, now |-> alarmClock]>>
                      \o Tail(stack)
        /\ fireHistory' = [fireHistory EXCEPT !.fires[a.clientreg] = @ + 1]
  BY DEF Fire, FindNext
<1> DEFINE r == a.clientreg
           run == [clientreg |-> r, t |-> a.t, repeat |-> a.repeat, next |-> a.next,
                   fired |-> TRUE, complete |-> a.complete]
           x == [at |-> "callback", clientreg |-> r, now |-> alarmClock]
<1>2. /\ a \in Alarm /\ alarmClock \in Nat /\ thealarms \subseteq Alarm
      /\ fireHistory \in [fires : [Regs -> Nat], promised : [Regs -> Nat]]
      /\ MaxReg \in Nat /\ regnum \in Nat /\ stack # <<>> /\ stack \in Seq(Frame)
      /\ UNCHANGED <<program, alarmClock, regnum, filling>>
  BY SnmpAlarmAssumption DEF AlarmInv, AlarmTypeOK, Fire
<1>3. r \in Regs /\ r < regnum /\ r # 0
  BY <1>1, <1>2 DEF AlarmInv, Numbered, Alarm, Regs
<1>4. fireHistory.promised[r] <= alarmClock
  <2>1. fireHistory.promised[r] <= a.next
    BY <1>1 DEF AlarmInv, Promised
  <2>2. fireHistory.promised[r] \in Nat /\ a.next \in Nat
    BY <1>2, <1>3 DEF Alarm
  <2> QED  BY <1>1, <1>2, <2>1, <2>2
<1>5. thealarms' = (thealarms \ {a}) \cup {run}
  <2>1. [a EXCEPT !.fired = TRUE] = run
    BY <1>2, MarkedInList
  <2> HIDE DEF run
  <2> QED  BY <1>1, <2>1
<1>6. /\ run \in Alarm /\ run.clientreg = r /\ run.fired /\ run.next = a.next
      /\ run.repeat = a.repeat /\ run.complete
  BY <1>1, <1>2 DEF Alarm
<1>7. /\ x \in Frame /\ x.at = "callback" /\ x.clientreg = r /\ x.now = alarmClock
      /\ stack' = <<x>> \o Tail(stack)
  BY <1>1, <1>2 DEF Alarm, Frame
<1>8. /\ fireHistory' \in [fires : [Regs -> Nat], promised : [Regs -> Nat]]
      /\ fireHistory'.promised = fireHistory.promised
      /\ fireHistory'.fires[r] = fireHistory.fires[r] + 1
      /\ \A q \in Regs : q # r => fireHistory'.fires[q] = fireHistory.fires[q]
  <2>1. fireHistory' = [fires |-> [fireHistory.fires EXCEPT ![r] = @ + 1],
                        promised |-> fireHistory.promised]
    BY <1>1, <1>2
  <2> QED  BY <1>2, <1>3, <2>1
<1> HIDE DEF run, x
<1>9. \A b \in thealarms \ {a} : b.clientreg # r /\ b \in thealarms
  BY DEF AlarmInv, Numbered
<1>10. /\ stack' \in Seq(Frame) /\ stack'[1] = x
       /\ \A i \in 1 .. Len(stack') :
            i = 1 \/ (i \in 1 .. Len(stack) /\ stack'[i] = stack[i])
  BY <1>2, <1>7, TopReplaced DEF AlarmInv
<1>11. AlarmTypeOK'
  BY <1>2, <1>5, <1>6, <1>8, <1>10 DEF AlarmInv, AlarmTypeOK, NotFilling
<1>12. Numbered'
  <2>1. \A b, c \in thealarms' : b.clientreg = c.clientreg => b = c
    BY <1>5, <1>6, <1>9 DEF AlarmInv, Numbered
  <2>2. \A b \in thealarms' : b.clientreg < regnum /\ (b.complete <=> b.clientreg # 0)
    BY <1>3, <1>5, <1>6 DEF AlarmInv, Numbered
  <2>3. \A b \in thealarms' : ~b.complete => filling.at = "linked"
    BY <1>5, <1>6 DEF AlarmInv, Numbered
  <2>4. \A q \in Regs : q >= regnum => q # r
    BY <1>2, <1>3 DEF Regs
  <2>5. \A q \in Regs : q >= regnum => fireHistory'.fires[q] = 0
    BY <1>8, <2>4 DEF AlarmInv, Numbered
  <2> QED  BY <1>2, <2>1, <2>2, <2>3, <2>5 DEF Numbered
<1>13. Promised'
  BY <1>1, <1>2, <1>4, <1>5, <1>6, <1>8 DEF AlarmInv, Promised
\* No callback below is that of a: a would be marked, and sa_find_next passed it by.
<1>14. \A i \in 1 .. Len(stack) : stack[i].at = "callback" => stack[i].clientreg # r
  BY <1>1 DEF AlarmInv, InCallback
<1>15. InCallback'
  <2>1. ASSUME NEW i \in 1 .. Len(stack'), NEW j \in 1 .. Len(stack'),
               stack'[i].at = "callback", stack'[j].at = "callback",
               stack'[i].clientreg = stack'[j].clientreg
        PROVE  i = j
    <3>1. ASSUME NEW k \in 1 .. Len(stack'), stack'[k].at = "callback"
          PROVE  k = 1 <=> stack'[k].clientreg = r
      BY <1>7, <1>10, <1>14, <3>1
    <3>2. i = 1 <=> j = 1
      BY <2>1, <3>1
    <3>3. i # 1 => /\ i \in 1 .. Len(stack) /\ stack'[i] = stack[i]
                   /\ j \in 1 .. Len(stack) /\ stack'[j] = stack[j]
      BY <1>10, <3>2
    <3> QED  BY <2>1, <3>2, <3>3 DEF AlarmInv, InCallback
  <2>2. ASSUME NEW i \in 1 .. Len(stack'), stack'[i].at = "callback"
        PROVE  /\ stack'[i].clientreg \in Regs /\ stack'[i].clientreg < regnum
               /\ stack'[i].now <= alarmClock
               /\ fireHistory.promised[stack'[i].clientreg] <= stack'[i].now
               /\ \A b \in thealarms' : b.clientreg = stack'[i].clientreg => b.fired
    <3>1. CASE i = 1
      BY <1>2, <1>3, <1>4, <1>5, <1>6, <1>7, <1>9, <1>10, <3>1
    <3>2. CASE i # 1
      BY <1>5, <1>6, <1>10, <2>2, <3>2 DEF AlarmInv, InCallback
    <3> QED  BY <3>1, <3>2
  <2> QED  BY <1>2, <1>8, <2>1, <2>2 DEF InCallback
<1>16. FiresOnce'
  <2>1. ~a.repeat => fireHistory.fires[r] = 0
    <3>1. fireHistory.fires[r] \in Nat
      BY <1>2, <1>3
    <3>2. ~a.repeat => ~(fireHistory.fires[r] > 0)
      BY <1>1, <1>3 DEF AlarmInv, FiresOnce
    <3> QED  BY <3>1, <3>2
  <2>2. \A b \in thealarms \ {a} : b.clientreg # 0 => b.clientreg \in Regs
    BY <1>2 DEF Alarm, Regs
  <2> QED  BY <1>5, <1>6, <1>8, <1>9, <2>1, <2>2 DEF AlarmInv, FiresOnce
<1> QED  BY <1>11, <1>12, <1>13, <1>15, <1>16 DEF AlarmInv

\* After a callback its alarm, if it is still there, is updated.
LEMMA StepReturnFromCallback ==
    ASSUME AlarmInv, ReturnFromCallback
    PROVE  AlarmInv'
<1> DEFINE f == Head(stack)
           x == [at |-> "loop", clientreg |-> f.clientreg, now |-> f.now]
           again == UNION {Updated(a, f.now) : a \in {b \in thealarms : b.clientreg = f.clientreg}}
<1>1. /\ stack # <<>> /\ f.at = "callback" /\ stack \in Seq(Frame) /\ f \in Frame
      /\ f = stack[1] /\ 1 \in 1 .. Len(stack)
      /\ alarmClock \in Nat /\ thealarms \subseteq Alarm
      /\ fireHistory \in [fires : [Regs -> Nat], promised : [Regs -> Nat]]
      /\ MaxReg \in Nat /\ regnum \in Nat
      /\ UNCHANGED <<program, alarmClock, regnum, filling, fireHistory>>
  BY SnmpAlarmAssumption, Below DEF ReturnFromCallback, AlarmInv, AlarmTypeOK
<1>2. /\ thealarms' = Without(f.clientreg) \cup again
      /\ stack' = <<[f EXCEPT !.at = "loop"]>> \o Tail(stack)
  BY DEF ReturnFromCallback
<1>3. x \in Frame /\ x.at # "callback" /\ stack' = <<x>> \o Tail(stack)
  BY <1>1, <1>2 DEF Frame
<1>4. /\ f.clientreg \in Regs /\ f.clientreg < regnum /\ f.now <= alarmClock /\ f.now \in Nat
      /\ fireHistory.promised[f.clientreg] <= f.now
  BY <1>1 DEF AlarmInv, InCallback, Frame
<1> HIDE DEF x, f
<1>5. /\ stack' \in Seq(Frame) /\ stack'[1] = x
      /\ \A i \in 1 .. Len(stack') :
           i = 1 \/ (i \in 1 .. Len(stack) /\ stack'[i] = stack[i])
  BY <1>1, <1>3, TopReplaced DEF AlarmInv
\* What sa_update_entry leaves of the alarm: a repeated one with its next time.
<1>6. ASSUME NEW b \in again
      PROVE  /\ b.clientreg = f.clientreg /\ b.repeat /\ ~b.fired /\ b.complete
             /\ b \in Alarm /\ fireHistory.promised[b.clientreg] <= b.next
             /\ again = {b}
  <2>1. PICK a \in thealarms : a.clientreg = f.clientreg /\ b \in Updated(a, f.now)
    OBVIOUS
  <2>2. /\ a \in Alarm /\ a.repeat /\ b = [a EXCEPT !.fired = FALSE, !.next = f.now + a.t]
        /\ Updated(a, f.now) = {b}
    BY <1>1, <2>1 DEF Updated
  <2>3. a.complete /\ \A c \in thealarms : c.clientreg = f.clientreg => c = a
    BY <1>1, <1>4, <2>1 DEF AlarmInv, Numbered, Regs
  <2>4. again = {b}
    BY <2>1, <2>2, <2>3
  <2>5. f.now + a.t \in Nat /\ fireHistory.promised[f.clientreg] <= f.now + a.t
    BY <1>1, <1>4, <2>2 DEF Alarm
  <2>6. b = [clientreg |-> f.clientreg, t |-> a.t, repeat |-> a.repeat,
             next |-> f.now + a.t, fired |-> FALSE, complete |-> a.complete]
    BY <2>1, <2>2 DEF Alarm
  <2>7. b \in Alarm
    BY <2>2, <2>5, <2>6, <2>1 DEF Alarm
  <2> QED  BY <2>2, <2>3, <2>4, <2>5, <2>6, <2>7
<1> HIDE DEF again
<1>7. \A b \in Without(f.clientreg) : b \in thealarms /\ b.clientreg # f.clientreg
  BY DEF Without
<1>8. thealarms' \subseteq Alarm
  BY <1>1, <1>2, <1>6, <1>7
<1>9. AlarmTypeOK'
  BY <1>1, <1>5, <1>8 DEF AlarmInv, AlarmTypeOK, NotFilling
<1>10. Numbered'
  <2>1. \A b, c \in thealarms' : b.clientreg = c.clientreg => b = c
    BY <1>2, <1>6, <1>7 DEF AlarmInv, Numbered
  <2>2. \A b \in thealarms' : b.clientreg < regnum /\ (b.complete <=> b.clientreg # 0)
    BY <1>2, <1>4, <1>6, <1>7 DEF AlarmInv, Numbered, Regs
  <2>3. \A b \in thealarms' : ~b.complete => filling.at = "linked"
    BY <1>2, <1>6, <1>7 DEF AlarmInv, Numbered
  <2> QED  BY <1>1, <2>1, <2>2, <2>3 DEF AlarmInv, Numbered
<1>11. Promised'
  BY <1>1, <1>2, <1>6, <1>7 DEF AlarmInv, Promised
\* The other callbacks are those of other alarms.
<1>12. \A i \in 1 .. Len(stack') : stack'[i].at = "callback" =>
         /\ i \in 1 .. Len(stack) /\ stack'[i] = stack[i]
         /\ stack[i].clientreg # f.clientreg
  <2> SUFFICES ASSUME NEW i \in 1 .. Len(stack'), stack'[i].at = "callback"
               PROVE  /\ i \in 1 .. Len(stack) /\ stack'[i] = stack[i]
                      /\ stack[i].clientreg # f.clientreg
    OBVIOUS
  <2>1. i # 1 /\ i \in 1 .. Len(stack) /\ stack'[i] = stack[i]
    BY <1>3, <1>5
  <2> QED  BY <1>1, <2>1 DEF AlarmInv, InCallback
<1>13. InCallback'
  <2>1. ASSUME NEW i \in 1 .. Len(stack'), NEW j \in 1 .. Len(stack'),
               stack'[i].at = "callback", stack'[j].at = "callback",
               stack'[i].clientreg = stack'[j].clientreg
        PROVE  i = j
    BY <1>12, <2>1 DEF AlarmInv, InCallback
  <2>2. ASSUME NEW i \in 1 .. Len(stack'), stack'[i].at = "callback"
        PROVE  /\ stack'[i].clientreg \in Regs /\ stack'[i].clientreg < regnum
               /\ stack'[i].now <= alarmClock
               /\ fireHistory.promised[stack'[i].clientreg] <= stack'[i].now
               /\ \A b \in thealarms' : b.clientreg = stack'[i].clientreg => b.fired
    BY <1>2, <1>6, <1>7, <1>12, <2>2 DEF AlarmInv, InCallback
  <2> QED  BY <1>1, <2>1, <2>2 DEF InCallback
<1>14. FiresOnce'
  BY <1>1, <1>2, <1>6, <1>7 DEF AlarmInv, FiresOnce
<1> QED  BY <1>9, <1>10, <1>11, <1>13, <1>14 DEF AlarmInv

\* Time alone breaks nothing that was promised.
LEMMA StepTimePasses ==
    ASSUME AlarmInv, TimePasses
    PROVE  AlarmInv'
<1>1. /\ alarmClock \in Nat /\ alarmClock' = alarmClock + 1
      /\ UNCHANGED <<program, thealarms, regnum, stack, filling, fireHistory>>
      /\ thealarms \subseteq Alarm /\ stack \in Seq(Frame)
      /\ fireHistory \in [fires : [Regs -> Nat], promised : [Regs -> Nat]]
  BY DEF TimePasses, AlarmInv, AlarmTypeOK
<1>2. AlarmTypeOK' /\ Numbered' /\ FiresOnce'
  BY <1>1 DEF AlarmInv, AlarmTypeOK, Numbered, FiresOnce
<1>3. Promised'
  <2> SUFFICES ASSUME NEW a \in thealarms, a.complete, a.fired
               PROVE  fireHistory.promised[a.clientreg] <= alarmClock + 1
    BY <1>1 DEF AlarmInv, Promised
  <2>1. a.clientreg \in Regs
    BY <1>1 DEF AlarmInv, Numbered, Alarm, Regs
  <2>2. fireHistory.promised[a.clientreg] \in Nat
    BY <1>1, <2>1
  <2>3. fireHistory.promised[a.clientreg] <= alarmClock
    BY DEF AlarmInv, Promised
  <2> QED  BY <1>1, <2>2, <2>3
<1>4. InCallback'
  <2>1. \A i \in 1 .. Len(stack) : stack[i].now \in Nat
    <3>1. \A i \in 1 .. Len(stack) : stack[i] \in Frame
      BY <1>1
    <3> QED  BY <3>1 DEF Frame
  <2>2. \A n \in Nat : n <= alarmClock => n <= alarmClock + 1
    <3>1. alarmClock \in Nat
      BY <1>1
    <3> QED  BY ONLY <3>1
  <2>3. \A i \in 1 .. Len(stack) : stack[i].now <= alarmClock => stack[i].now <= alarmClock + 1
    BY ONLY <2>1, <2>2
  <2> QED  BY <1>1, <2>3 DEF AlarmInv, InCallback
<1> QED  BY <1>2, <1>3, <1>4 DEF AlarmInv

\* Every step preserves the invariant.
LEMMA AlarmStepInv == AlarmInv /\ [AlarmNext]_alarmVars => AlarmInv'
<1> SUFFICES ASSUME AlarmInv, [AlarmNext]_alarmVars  PROVE AlarmInv'
  OBVIOUS
<1>1. CASE Register
  BY <1>1, StepRegister
<1>2. CASE Walk
  BY <1>2, StepWalk
<1>3. CASE Link
  BY <1>3, StepLink
<1>4. CASE Fill
  BY <1>4, StepFill
<1>5. CASE UnregisterAll \/ \E r \in Regs : Unregister(r)
  BY <1>5, StepUnregister
<1>6. CASE \E r \in Regs : Reset(r)
  BY <1>6, StepReset
<1>7. CASE RunAlarms \/ NoneDue
  BY <1>7, StepCall
<1>8. CASE Fire
  BY <1>8, StepFire
<1>9. CASE ReturnFromCallback
  BY <1>9, StepReturnFromCallback
<1>10. CASE TimePasses
  BY <1>10, StepTimePasses
<1>11. CASE FireHalfRegistered \/ UNCHANGED alarmVars
  <2>1. UNCHANGED <<alarmClock, thealarms, regnum, stack, filling, fireHistory>>
    BY <1>11 DEF FireHalfRegistered, alarmVars
  <2> QED  BY <2>1 DEF AlarmInv, AlarmTypeOK, Numbered, Promised, InCallback, FiresOnce
<1> QED  BY <1>1, <1>2, <1>3, <1>4, <1>5, <1>6, <1>7, <1>8, <1>9, <1>10, <1>11 DEF AlarmNext

-----------------------------------------------------------------------------
(* The theorems.                                                           *)

\* Of the alarms as a whole: numbers, promises and the callbacks under way.
THEOREM AlarmInvariant == AlarmSpec => []AlarmInv
<1> QED  BY AlarmInitInv, AlarmStepInv, PTL DEF AlarmSpec

\* An alarm without SA_REPEAT is called once, however deep run_alarms is nested
\* and whatever its callbacks register, unregister and reset.
THEOREM CalledOnce == AlarmSpec => []FiresOnce
<1>1. AlarmInv => FiresOnce
  BY DEF AlarmInv
<1> QED  BY <1>1, AlarmInvariant, PTL

\* No step calls an alarm before its interval has passed since it was registered
\* or last reset from outside its callback.
THEOREM CalledInTime == AlarmSpec => NotEarly
<1> DEFINE InTime == \A r \in Regs : fireHistory'.fires[r] # fireHistory.fires[r] =>
                         alarmClock >= fireHistory.promised[r]
<1>1. AlarmInv /\ [AlarmNext]_alarmVars => [InTime]_alarmVars
  <2> SUFFICES ASSUME AlarmInv, AlarmNext, NEW r \in Regs,
                      fireHistory'.fires[r] # fireHistory.fires[r]
               PROVE  alarmClock >= fireHistory.promised[r]
    OBVIOUS
  <2>1. fireHistory \in [fires : [Regs -> Nat], promised : [Regs -> Nat]] /\ alarmClock \in Nat
    BY DEF AlarmInv, AlarmTypeOK
  <2>2. CASE Fire
    <3>1. PICK a \in thealarms :
            /\ a.next <= alarmClock /\ a.complete
            /\ fireHistory' = [fireHistory EXCEPT !.fires[a.clientreg] = @ + 1]
      BY <2>2 DEF Fire, FindNext
    <3>2. fireHistory'.fires = [fireHistory.fires EXCEPT ![a.clientreg] = @ + 1]
      BY <2>1, <3>1
    <3>3. a.clientreg = r
      BY <2>1, <3>2
    <3>4. fireHistory.promised[r] <= a.next
      BY <3>1, <3>3 DEF AlarmInv, Promised
    <3>5. fireHistory.promised[r] \in Nat /\ a.next \in Nat
      BY <2>1 DEF AlarmInv, AlarmTypeOK, Alarm
    <3> QED  BY <2>1, <3>1, <3>4, <3>5
  <2>3. CASE ~Fire
    <3>1. fireHistory'.fires = fireHistory.fires
      BY <2>1, <2>3 DEF AlarmNext, Register, Walk, Link, Fill, UnregisterAll, Unregister,
            Reset, RunAlarms, NoneDue, FireHalfRegistered, ReturnFromCallback, TimePasses
    <3> QED  BY <3>1
  <2> QED  BY <2>2, <2>3
<1>2. [][InTime]_alarmVars => NotEarly
  BY DEF NotEarly
<1> QED  BY <1>1, <1>2, AlarmInvariant, PTL DEF AlarmSpec

-----------------------------------------------------------------------------
(* Caches (CacheHandler).                                                  *)

\* What the alarm releases in the end.
Freed(c) == c \in HasFree /\ Flags[c] \cap {"DONT_FREE_EXPIRED", "DONT_AUTO_RELEASE"} = {}

Lasts(c) == IF Timeout[c] = -1 THEN 0 ELSE Timeout[c]

CacheTypeOK ==
    /\ valid \subseteq Caches
    /\ stamp \in [Caches -> Nat]
    /\ outstanding \in BOOLEAN /\ release \in Nat
    /\ cacheClock \in 0 .. MaxCacheTime

\* The alarm is due within one round while there is something to release, and
\* comes no later than a round after the timeout of each cache.
AlarmIsSet ==
    /\ cacheClock <= release
    /\ outstanding => release <= cacheClock + Frequency
    /\ \A c \in valid : Freed(c) => outstanding /\ release <= stamp[c] + Lasts(c) + Frequency

CacheInv == CacheTypeOK /\ AlarmIsSet

\* The constants.
LEMMA CacheNumbers ==
    /\ Frequency \in Nat /\ MaxCacheTime \in Nat /\ Never \in Nat /\ MaxCacheTime <= Never
    /\ \A c \in Caches : Lasts(c) \in Nat
    /\ \A c \in Caches : Timeout[c] # -1 => Lasts(c) = Timeout[c]
<1>1. Frequency \in Nat /\ MaxCacheTime \in Nat
  BY CacheAssumption
<1>2. ASSUME NEW c \in Caches  PROVE Lasts(c) \in Nat
  <2>1. Timeout[c] = -1 \/ Timeout[c] \in Nat
    BY CacheAssumption
  <2> QED  BY <2>1 DEF Lasts
<1> QED  BY <1>1, <1>2 DEF Never, Lasts

\* A use of a cache, which may put its time forward.
LEMMA Touched ==
    ASSUME CacheInv, NEW c \in Caches,
           UNCHANGED <<outstanding, release, cacheClock>>, valid' \subseteq valid,
           stamp' = stamp \/ stamp' = [stamp EXCEPT ![c] = cacheClock]
    PROVE  CacheInv'
<1>1. stamp' \in [Caches -> Nat] /\ cacheClock \in Nat /\ valid' \subseteq Caches
  BY CacheNumbers DEF CacheInv, CacheTypeOK
<1>2. \A d \in Caches : stamp'[d] = stamp[d] \/ stamp'[d] = cacheClock
  BY DEF CacheInv, CacheTypeOK
<1>3. ASSUME NEW d \in valid', Freed(d)
      PROVE  outstanding /\ release <= stamp'[d] + Lasts(d) + Frequency
  <2>1. /\ outstanding /\ release <= cacheClock + Frequency
        /\ release <= stamp[d] + Lasts(d) + Frequency
    BY <1>3 DEF CacheInv, AlarmIsSet
  <2>2. release \in Nat /\ Lasts(d) \in Nat /\ Frequency \in Nat
    BY <1>1, <1>3, CacheNumbers DEF CacheInv, CacheTypeOK
  <2>3. stamp'[d] = stamp[d] \/ stamp'[d] = cacheClock
    BY <1>1, <1>2, <1>3
  <2> QED  BY <1>1, <2>1, <2>2, <2>3
<1> QED  BY <1>1, <1>3 DEF CacheInv, CacheTypeOK, AlarmIsSet

\* A load, successful or not.
LEMMA Loaded ==
    ASSUME CacheInv, NEW c \in Caches, NEW ok \in BOOLEAN, NEW lapsed,
           Load(c, ok, lapsed), UNCHANGED cacheClock,
           IF ok THEN stamp' = [stamp EXCEPT ![c] = cacheClock]
           ELSE stamp' = stamp \/ stamp' = [stamp EXCEPT ![c] = cacheClock]
    PROVE  CacheInv'
<1>1. CASE ~ok
  <2>1. valid' = valid \ {c} /\ UNCHANGED <<outstanding, release>>
    BY <1>1 DEF Load
  <2> QED  BY <1>1, <2>1, Touched
<1>2. CASE ok
  <2>1. /\ valid' = valid \cup {c} /\ stamp' = [stamp EXCEPT ![c] = cacheClock]
        /\ cacheClock \in Nat /\ stamp \in [Caches -> Nat]
        /\ Frequency \in Nat /\ release \in Nat /\ outstanding \in BOOLEAN
    BY <1>2, CacheNumbers DEF Load, CacheInv, CacheTypeOK
  <2>2. \/ outstanding' = TRUE /\ release' = cacheClock + Frequency /\ ~outstanding
        \/ /\ UNCHANGED <<outstanding, release>>
           /\ outstanding \/ "DONT_FREE_EXPIRED" \in Flags[c]
    BY <1>2, <2>1 DEF Load
  <2>3. CacheTypeOK'
    <3>1. stamp' \in [Caches -> Nat] /\ valid' \subseteq Caches
      BY <2>1 DEF CacheInv, CacheTypeOK
    <3>2. outstanding' \in BOOLEAN
      BY <2>1, <2>2, Zenon
    <3>3. release' \in Nat
      <4>1. cacheClock + Frequency \in Nat
        BY <2>1
      <4> QED  BY <2>1, <2>2, <4>1
    <3> QED  BY <3>1, <3>2, <3>3 DEF CacheInv, CacheTypeOK
  <2>4. /\ cacheClock <= release' /\ (outstanding' => release' <= cacheClock + Frequency)
    BY <2>1, <2>2 DEF CacheInv, AlarmIsSet
  <2>5. ASSUME NEW d \in valid', Freed(d)
        PROVE  outstanding' /\ release' <= stamp'[d] + Lasts(d) + Frequency
    <3>1. CASE d = c
      <4>1. outstanding'
        BY <2>2, <2>5, <3>1 DEF Freed
      <4>2. stamp'[d] = cacheClock /\ Lasts(d) \in Nat
        BY <2>1, <3>1, CacheNumbers
      <4>3. release' \in Nat
        BY <2>1, <2>2
      <4> QED  BY <2>1, <2>4, <4>1, <4>2, <4>3
    <3>2. CASE d # c
      <4>1. d \in valid /\ stamp'[d] = stamp[d]
        BY <2>1, <2>5, <3>2
      <4>2. outstanding /\ release <= stamp[d] + Lasts(d) + Frequency
        BY <2>5, <4>1 DEF CacheInv, AlarmIsSet
      <4> QED  BY <2>2, <4>1, <4>2
    <3> QED  BY <3>1, <3>2
  <2> QED  BY <2>3, <2>4, <2>5 DEF CacheInv, AlarmIsSet
<1> QED  BY <1>1, <1>2

\* release_cached_resources goes on if it has left something.
LEMMA Released ==
    ASSUME CacheInv, Release
    PROVE  CacheInv'
<1>1. /\ cacheClock \in Nat /\ cacheClock <= MaxCacheTime /\ stamp \in [Caches -> Nat]
      /\ release \in Nat /\ valid \subseteq Caches /\ Frequency \in Nat
      /\ Never \in Nat /\ MaxCacheTime <= Never /\ MaxCacheTime \in Nat
  BY CacheNumbers DEF CacheInv, CacheTypeOK
<1>2. /\ valid' \subseteq valid /\ UNCHANGED <<stamp, cacheClock>> /\ outstanding' = Active
      /\ release' = IF Active THEN cacheClock + Frequency ELSE Never
      /\ Active \in BOOLEAN
  BY DEF Release, Active
<1>3. CacheTypeOK'
  BY <1>1, <1>2 DEF CacheInv, CacheTypeOK
<1>4. ASSUME NEW c \in valid', Freed(c)
      PROVE  Active /\ cacheClock + Frequency <= stamp[c] + Lasts(c) + Frequency
  <2>1. c \in valid /\ c \in Looked
    BY <1>2, <1>4 DEF Looked, Freed
  <2>2. ~Expired(c)
    BY <1>4, <2>1 DEF Release, Freed
  <2>3. Timeout[c] # -1 /\ ~ (cacheClock - stamp[c] >= Timeout[c])
    BY <2>2 DEF Expired
  <2>4. Lasts(c) = Timeout[c] /\ Lasts(c) \in Nat /\ stamp[c] \in Nat
    BY <1>1, <2>1, <2>3, CacheNumbers
  <2> QED  BY <1>1, <2>1, <2>2, <2>3, <2>4 DEF Active
<1> QED  BY <1>1, <1>2, <1>3, <1>4 DEF CacheInv, AlarmIsSet

\* Whatever happens to the caches, the alarm they share is set in time.
LEMMA CacheStepInv == CacheInv /\ [CacheNext]_cacheVars => CacheInv'
<1> SUFFICES ASSUME CacheInv, [CacheNext]_cacheVars  PROVE CacheInv'
  OBVIOUS
<1>1. ASSUME NEW c \in Caches, NEW r \in Requests, Use(r, c)  PROVE CacheInv'
  <2>1. CASE (c \in used[r] /\ c \in valid) \/ ~Expired(c)
    <3>1. /\ UNCHANGED <<valid, outstanding, release, cacheClock>>
          /\ stamp' = stamp \/ stamp' = [stamp EXCEPT ![c] = cacheClock]
      BY <1>1, <2>1 DEF Use, Marked
    <3> QED  BY <3>1, Touched
  <2>2. CASE ~ ((c \in used[r] /\ c \in valid) \/ ~Expired(c))
    <3>1. PICK ok \in BOOLEAN : Load(c, ok, c \in valid) /\ stamp' = Marked(c, ok)
      BY <1>1, <2>2 DEF Use
    <3>2. /\ IF ok THEN stamp' = [stamp EXCEPT ![c] = cacheClock]
             ELSE stamp' = stamp \/ stamp' = [stamp EXCEPT ![c] = cacheClock]
          /\ UNCHANGED cacheClock
      BY <1>1, <3>1 DEF Use, Marked
    <3> QED  BY <3>1, <3>2, Loaded
  <2> QED  BY <2>1, <2>2
<1>2. ASSUME NEW c \in Caches, NEW r \in Requests, Commit(r, c)  PROVE CacheInv'
  <2>1. /\ UNCHANGED <<outstanding, release, cacheClock>> /\ valid' \subseteq valid
        /\ stamp' = stamp \/ stamp' = [stamp EXCEPT ![c] = cacheClock]
    BY <1>2 DEF Commit, Marked
  <2> QED  BY <2>1, Touched
<1>3. ASSUME NEW c \in Caches, NEW ok \in BOOLEAN, Reload(c, ok)  PROVE CacheInv'
  <2>1. /\ IF ok THEN stamp' = [stamp EXCEPT ![c] = cacheClock]
           ELSE stamp' = stamp \/ stamp' = [stamp EXCEPT ![c] = cacheClock]
        /\ UNCHANGED cacheClock /\ Load(c, ok, TRUE)
    BY <1>3 DEF Reload
  <2> QED  BY <2>1, Loaded
<1>4. CASE \/ \E r \in Requests : EndRequest(r)
           \/ UNCHANGED cacheVars
  BY <1>4 DEF EndRequest, cacheVars, CacheInv, CacheTypeOK, AlarmIsSet
<1>5. CASE CacheTick
  <2>1. /\ cacheClock' = cacheClock + 1 /\ cacheClock < MaxCacheTime /\ release > cacheClock
        /\ UNCHANGED <<valid, stamp, outstanding, release>>
        /\ cacheClock \in Nat /\ release \in Nat /\ Frequency \in Nat /\ MaxCacheTime \in Nat
    BY <1>5, CacheNumbers DEF CacheTick, CacheInv, CacheTypeOK
  <2>2. /\ cacheClock' <= release' /\ cacheClock' \in 0 .. MaxCacheTime
        /\ release <= cacheClock + Frequency => release' <= cacheClock' + Frequency
    BY <2>1
  <2> QED  BY <2>1, <2>2 DEF CacheInv, CacheTypeOK, AlarmIsSet
<1> QED  BY <1>1, <1>2, <1>3, <1>4, <1>5, Released DEF CacheNext

\* What the agent may release is released a round of the alarm after its timeout, at
\* the latest, for any caches with any flags and timeouts (cache_handler.c).
THEOREM ReleasedInTime == CacheSpec => []UnusedIsReleased
<1>1. CacheInit => CacheInv
  <2> SUFFICES ASSUME CacheInit  PROVE CacheInv
    OBVIOUS
  <2>1. /\ valid \subseteq Caches /\ stamp = [c \in Caches |-> 0] /\ cacheClock = 0
        /\ outstanding = (\E c \in valid : "DONT_FREE_EXPIRED" \notin Flags[c])
        /\ release = IF outstanding THEN Frequency ELSE Never
    BY DEF CacheInit
  <2>2. CacheTypeOK
    BY <2>1, CacheNumbers DEF CacheTypeOK
  <2>3. ASSUME NEW c \in valid, Freed(c)
        PROVE  outstanding /\ release <= stamp[c] + Lasts(c) + Frequency
    <3>1. outstanding
      BY <2>1, <2>3 DEF Freed
    <3>2. c \in Caches
      BY <2>1
    <3>3. stamp[c] = 0 /\ Lasts(c) \in Nat /\ Frequency \in Nat
      BY <2>1, <3>2, CacheNumbers
    <3>4. release = Frequency
      BY <2>1, <3>1
    <3> QED  BY <3>1, <3>3, <3>4
  <2> QED  BY <2>1, <2>2, <2>3, CacheNumbers DEF CacheInv, AlarmIsSet
<1>2. CacheInv => UnusedIsReleased
  <2> SUFFICES ASSUME CacheInv, NEW c \in valid, Freed(c)
               PROVE  cacheClock - stamp[c] <= Lasts(c) + Frequency
    BY DEF UnusedIsReleased, Freed, Lasts
  <2>1. cacheClock <= release /\ release <= stamp[c] + Lasts(c) + Frequency
    BY DEF CacheInv, AlarmIsSet
  <2>2. /\ cacheClock \in Nat /\ release \in Nat /\ stamp[c] \in Nat
        /\ Lasts(c) \in Nat /\ Frequency \in Nat
    BY CacheNumbers DEF CacheInv, CacheTypeOK
  <2> QED  BY <2>1, <2>2
<1> QED  BY <1>1, <1>2, CacheStepInv, PTL DEF CacheSpec

=============================================================================
