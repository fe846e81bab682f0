----------------------------- MODULE EngineTime -----------------------------
(***************************************************************************)
(* What the manager knows of the clock of one SNMPv3 engine: its record in *)
(* etimelist (snmplib/lcd_time.c) and the timeliness check of messages     *)
(* from it (snmplib/snmpusm.c).                                            *)
(*                                                                         *)
(* The engine (external) counts its boots and the seconds since; it stamps *)
(* every message with both.  Its messages may be lost, repeated, delayed   *)
(* and overtaken.  Both clocks tick at the same rate.  The 2^31 - 1 of     *)
(* ENGINETIME_MAX and ENGINEBOOT_MAX and the 150 s of USM_TIME_WINDOW are  *)
(* parameters; `clock' is the manager's snmpv3_local_snmpEngineTime, which *)
(* does not wrap here.                                                     *)
(***************************************************************************)
EXTENDS Integers, FiniteSets

CONSTANTS EngineTimeMax,    \* ENGINETIME_MAX
          EngineBootMax,    \* ENGINEBOOT_MAX
          TimeWindow,       \* USM_TIME_WINDOW
          StartTimes,       \* seconds since its boot when the engine is first heard
          MaxClock,         \* bound on the manager's clock
          MaxSent           \* bound on the messages under way

ASSUME EngineTimeAssumption ==
    /\ EngineTimeMax \in Nat \ {0} /\ EngineBootMax \in Nat \ {0}
    /\ StartTimes \subseteq 0 .. EngineTimeMax
    /\ TimeWindow \in Nat /\ MaxClock \in Nat /\ MaxSent \in Nat

VARIABLES clock,        \* the manager's clock
          engine,       \* [boots, time] of the engine
          record,       \* the engine's entry of etimelist
          sent,         \* messages of the engine that may still arrive
          verdict       \* history: what became of the last message

vars == <<clock, engine, record, sent, verdict>>

Boots == 0 .. EngineBootMax
Times == 0 .. EngineTimeMax
Clock == 0 .. MaxClock

\* at: the manager's clock when the message was sent (history).
Messages == [boots : Boots, time : Times, auth : BOOLEAN, at : Clock]

\* since: lastReceivedEngineTime.  Until `known' there is no entry.
Records == [known : BOOLEAN, boots : Boots, time : Times, since : Clock,
            auth : BOOLEAN]

NoRecord == [known |-> FALSE, boots |-> 0, time |-> 0, since |-> 0, auth |-> FALSE]

TypeOK ==
    /\ clock \in Clock
    /\ engine \in [boots : Boots, time : Times]
    /\ record \in Records
    /\ sent \subseteq Messages
    /\ verdict \in {"none", "fresh", "old", "rejected", "unauthenticated", "garbled"}

Init ==
    /\ clock = 0
    /\ engine \in [boots : {1}, time : StartTimes]
    /\ record = NoRecord
    /\ sent = {}
    /\ verdict = "none"

-----------------------------------------------------------------------------
(* The engine and the network (external).                                  *)

Second ==
    IF engine.time < EngineTimeMax THEN [engine EXCEPT !.time = @ + 1]
    ELSE [boots |-> engine.boots + 1, time |-> 0]

Tick ==
    /\ clock < MaxClock
    /\ engine.time = EngineTimeMax => engine.boots < EngineBootMax
    /\ clock' = clock + 1
    /\ engine' = Second
    /\ UNCHANGED <<record, sent, verdict>>

Reboot ==
    /\ engine.boots < EngineBootMax
    /\ engine' = [boots |-> engine.boots + 1, time |-> 0]
    /\ UNCHANGED <<clock, record, sent, verdict>>

\* An authenticated response or notInTimeWindow report, or the report without
\* authentication that answers the probe of usm_discover_engineid.
EngineSends(auth) ==
    /\ Cardinality(sent) < MaxSent
    /\ sent' = sent \cup
         {[boots |-> engine.boots, time |-> engine.time, auth |-> auth, at |-> clock]}
    /\ UNCHANGED <<clock, engine, record, verdict>>

Lose ==
    /\ \E m \in sent : sent' = sent \ {m}
    /\ UNCHANGED <<clock, engine, record, verdict>>

-----------------------------------------------------------------------------
(* lcd_time.c                                                              *)

\* get_enginetime_ex.  `authenticated' asks for an authenticated entry.
GetEngineTime(authenticated) ==
    LET usable == record.known /\ (~authenticated \/ record.auth)
        boots == IF usable THEN record.boots ELSE 0
        time == IF usable THEN record.time ELSE 0
        diff == IF usable THEN clock - record.since ELSE 0
    IN  IF diff > EngineTimeMax - time
        THEN [boots |-> IF boots < EngineBootMax THEN boots + 1 ELSE boots,
              time |-> diff - (EngineTimeMax - time), last |-> time]
        ELSE [boots |-> boots, time |-> time + diff, last |-> time]

\* Mutant: the record is not stamped with the local time.
SetEngineTimeUnstamped(r, boots, time, authenticated) ==
    IF authenticated \/ ~r.auth
    THEN [known |-> TRUE, boots |-> boots, time |-> time, since |-> r.since,
          auth |-> authenticated]
    ELSE r

\* Mutant: the boots of an entry are never updated.
SetEngineTimeSameBoots(r, boots, time, authenticated) ==
    IF authenticated \/ ~r.auth
    THEN [known |-> TRUE, boots |-> IF r.auth THEN r.boots ELSE boots,
          time |-> time, since |-> clock, auth |-> authenticated]
    ELSE r

\* set_enginetime: only an authenticated time replaces an authenticated one.
SetEngineTime(r, boots, time, authenticated) ==
    IF authenticated \/ ~r.auth
    THEN [known |-> TRUE, boots |-> boots, time |-> time, since |-> clock,
          auth |-> authenticated]
    ELSE r

\* ENSURE_ENGINE_RECORD, for every incoming message.
Ensured == SetEngineTime(record, 0, 0, FALSE)

-----------------------------------------------------------------------------
(* usm_check_and_update_timeliness, the remote case.  The entry Ensured may *)
(* have made or reset is not authenticated, so it does not matter here.     *)

Abs(n) == IF n < 0 THEN -n ELSE n

\* Mutant: the boots of the message are not looked at.
InvalidMaxOnly(m) == GetEngineTime(TRUE).boots = EngineBootMax

Invalid(m) ==
    LET their == GetEngineTime(TRUE)
    IN  their.boots = EngineBootMax \/ their.boots > m.boots

\* Mutant: the comparison is the wrong way round.
OldReversed(m) ==
    LET their == GetEngineTime(TRUE)
    IN  their.boots = m.boots /\ m.time > their.last

Old(m) ==
    LET their == GetEngineTime(TRUE)
    IN  their.boots = m.boots /\ m.time < their.last

InWindow(m) == Abs(GetEngineTime(TRUE).time - m.time) <= TimeWindow

ReceiveFresh(m) ==
    /\ m.auth
    /\ ~Invalid(m) /\ ~Old(m)
    /\ record' = SetEngineTime(Ensured, m.boots, m.time, TRUE)
    /\ verdict' = "fresh"
    /\ UNCHANGED <<clock, engine, sent>>

ReceiveOld(m) ==
    /\ m.auth
    /\ ~Invalid(m) /\ Old(m) /\ InWindow(m)
    /\ record' = Ensured
    /\ verdict' = "old"
    /\ UNCHANGED <<clock, engine, sent>>

ReceiveTooOld(m) ==
    /\ m.auth
    /\ Invalid(m) \/ (Old(m) /\ ~InWindow(m))
    /\ record' = Ensured
    /\ verdict' = "rejected"
    /\ UNCHANGED <<clock, engine, sent>>

\* No check: its time is kept as a guess.
ReceiveUnauthenticated(m) ==
    /\ ~m.auth
    /\ record' = SetEngineTime(Ensured, m.boots, m.time, FALSE)
    /\ verdict' = "unauthenticated"
    /\ UNCHANGED <<clock, engine, sent>>

\* The user is unknown, or the digest of a message damaged on its way is wrong.
ReceiveGarbled(m) ==
    /\ record' = Ensured
    /\ verdict' = "garbled"
    /\ UNCHANGED <<clock, engine, sent>>

Receive(m) ==
    \/ ReceiveFresh(m) \/ ReceiveOld(m) \/ ReceiveTooOld(m)
    \/ ReceiveUnauthenticated(m) \/ ReceiveGarbled(m)

Next ==
    \/ Tick \/ Reboot \/ Lose
    \/ \E auth \in BOOLEAN : EngineSends(auth)
    \/ \E m \in sent : Receive(m)

Spec == Init /\ [][Next]_vars

-----------------------------------------------------------------------------
(* Properties.                                                             *)

\* Order of engine times: the boots first.
Before(a, b) == a.boots < b.boots \/ (a.boots = b.boots /\ a.time < b.time)

\* What was learnt with authentication is never lost to a guess and never goes
\* back, whatever is repeated or overtaken: no message that is accepted as
\* fresh is older than one accepted before it.
NeverGoesBack ==
    [][record.auth => record'.auth /\ ~Before(record', record)]_vars

\* What a request to the engine is stamped with.
Requested == GetEngineTime(FALSE)

\* The estimate is never ahead of the engine by more than the second that
\* get_enginetime adds when the time wraps; one of no authentication may be.
NotAhead ==
    record.auth =>
        ~Before([boots |-> engine.boots, time |-> engine.time + 1], Requested)

\* A fresh authenticated message that was under way for no longer than the
\* window puts the manager back in step with the engine, whatever it knew
\* before: its next request is inside the engine's window.
FreshSynchronises ==
    [][\A m \in sent :
          ReceiveFresh(m) /\ clock - m.at <= TimeWindow /\ m.boots = engine.boots =>
              /\ record'.boots = engine.boots
              /\ Abs(record'.time - engine.time) <= TimeWindow]_vars

\* The recorded time has not run past the largest time since.
NotWrapped == record.time + (clock - record.since) <= EngineTimeMax

\* Until then an engine can always be heard, however often it rebooted and
\* however late the message of the last record came: its message of this very
\* second is accepted.  So a manager whose estimate is outside the engine's
\* window gets back in step through the report notInTimeWindow.
CurrentIsAccepted ==
    \A m \in Messages :
        /\ m.auth /\ m.boots = engine.boots /\ m.time = engine.time
        /\ engine.boots < EngineBootMax /\ NotWrapped
        => ~Invalid(m) /\ (Old(m) => InWindow(m))

=============================================================================
