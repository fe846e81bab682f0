----------------------------- MODULE SnmpAlarm -----------------------------
(***************************************************************************)
(* Alarms of the library (snmplib/snmp_alarm.c): callbacks registered for  *)
(* a time on the monotonic clock, run by run_alarms.                       *)
(*                                                                         *)
(* run_alarms is called by the handler of SIGALRM, between any two steps   *)
(* of the main loop, or by the main loop itself.  A callback may do what   *)
(* the main loop may: register, unregister and reset alarms, its own       *)
(* included, and call run_alarms again.  `stack' holds the run_alarms that *)
(* are under way, the innermost first.  Time 0 is a cleared timeval.  Of   *)
(* the main loop's operations only registering is split at the points a    *)
(* signal may fall on.                                                     *)
(***************************************************************************)
EXTENDS Naturals, Sequences, FiniteSets

CONSTANTS Intervals,    \* intervals of the alarms registered
          MaxReg,       \* bound on the alarms registered
          MaxTime,      \* bound on the clock
          MaxDepth      \* bound on the nesting of run_alarms

ASSUME SnmpAlarmAssumption ==
    /\ Intervals \subseteq Nat
    /\ MaxReg \in Nat /\ MaxTime \in Nat \ {0} /\ MaxDepth \in Nat

VARIABLES program,      \* "up", or "undefined" when memory was misused
          alarmClock,
          thealarms,    \* the registered alarms; one that is not complete was
                        \* linked, but not filled in
          regnum,       \* number the next alarm gets
          stack,        \* at: looking for the next alarm (loop), or in the callback
                        \* of clientreg, which was entered at time now
          filling,      \* how far the main loop is with a registration
          fireHistory   \* see AlarmInit

alarmVars == <<program, alarmClock, thealarms, regnum, stack, filling, fireHistory>>

Up == program = "up"
Regs == 1 .. MaxReg
\* tail: the last alarm of the list when it was walked, 0 if there was none.
NotFilling == [at |-> "no", tail |-> 0]

\* fireHistory.fires: how often each alarm was fired.
\* fireHistory.promised: no alarm fires before this time.
AlarmInit ==
    /\ program = "up"
    /\ alarmClock = 1
    /\ thealarms = {}
    /\ regnum = 1
    /\ stack = <<>>
    /\ filling = NotFilling
    /\ fireHistory = [fires |-> [r \in Regs |-> 0], promised |-> [r \in Regs |-> 0]]

-----------------------------------------------------------------------------
(* What the main loop and callbacks do.                                    *)

\* A callback is under way, or the main loop has control and is not in the
\* middle of a registration.
Client ==
    /\ Up
    /\ IF stack = <<>> THEN filling = NotFilling ELSE Head(stack).at = "callback"

\* Numbers left, one set aside for a registration under way.
NumberLeft == regnum + (IF filling = NotFilling THEN 0 ELSE 1) <= MaxReg

Entry(r, t, repeat, next) ==
    [clientreg |-> r, t |-> t, repeat |-> repeat, next |-> next,
     fired |-> FALSE, complete |-> TRUE]

\* snmp_alarm_register_hr in a callback, where no signal arrives.
Register ==
    /\ Client /\ stack # <<>>
    /\ NumberLeft
    /\ \E t \in Intervals, repeat \in BOOLEAN :
         /\ thealarms' = thealarms \cup {Entry(regnum, t, repeat, alarmClock + t)}
         /\ fireHistory' = [fireHistory EXCEPT !.promised[regnum] = alarmClock + t]
    /\ regnum' = regnum + 1
    /\ UNCHANGED <<program, alarmClock, stack, filling>>

\* The main loop's, where a signal may: the list is walked to its end ...
Walk ==
    /\ Client /\ stack = <<>>
    /\ NumberLeft
    /\ filling' = [at |-> "walked",
                   tail |-> IF thealarms = {} THEN 0
                            ELSE CHOOSE r \in Regs :
                                   /\ \E a \in thealarms : a.clientreg = r
                                   /\ \A a \in thealarms : a.clientreg <= r]
    /\ UNCHANGED <<program, alarmClock, thealarms, regnum, stack, fireHistory>>

\* ... a cleared entry is linked behind what was the last alarm then: what a
\* callback registered meanwhile is cut off, and what it freed is written to ...
Link ==
    /\ Up /\ stack = <<>> /\ filling.at = "walked"
    /\ IF filling.tail = 0 \/ \E a \in thealarms : a.clientreg = filling.tail
       THEN /\ thealarms' = {a \in thealarms : a.clientreg <= filling.tail} \cup
                   {[clientreg |-> 0, t |-> 0, repeat |-> FALSE, next |-> 0,
                     fired |-> FALSE, complete |-> FALSE]}
            /\ filling' = [filling EXCEPT !.at = "linked"]
            /\ UNCHANGED program
       ELSE program' = "undefined" /\ UNCHANGED <<thealarms, filling>>
    /\ UNCHANGED <<alarmClock, regnum, stack, fireHistory>>

\* ... and then filled in.
Fill ==
    /\ Up /\ stack = <<>> /\ filling.at = "linked"
    /\ \E t \in Intervals, repeat \in BOOLEAN :
         /\ thealarms' = {a \in thealarms : a.complete}
                            \cup {Entry(regnum, t, repeat, alarmClock + t)}
         /\ fireHistory' = [fireHistory EXCEPT !.promised[regnum] = alarmClock + t]
    /\ regnum' = regnum + 1
    /\ filling' = NotFilling
    /\ UNCHANGED <<program, alarmClock, stack>>

Without(r) == {a \in thealarms : a.clientreg # r}

\* snmp_alarm_unregister
Unregister(r) ==
    /\ Client
    /\ \E a \in thealarms : a.clientreg = r
    /\ thealarms' = Without(r)
    /\ UNCHANGED <<program, alarmClock, regnum, stack, filling, fireHistory>>

\* snmp_alarm_unregister_all
UnregisterAll ==
    /\ Client
    /\ thealarms # {}
    /\ thealarms' = {}
    /\ UNCHANGED <<program, alarmClock, regnum, stack, filling, fireHistory>>

\* Mutant: the interval is added to the time the alarm was due.
ResetFromDue(r) ==
    /\ Client
    /\ \E a \in thealarms :
         /\ a.clientreg = r
         /\ thealarms' = Without(r) \cup {[a EXCEPT !.next = @ + a.t]}
         /\ fireHistory' = IF a.fired THEN fireHistory
                       ELSE [fireHistory EXCEPT !.promised[r] = alarmClock + a.t]
    /\ UNCHANGED <<program, alarmClock, regnum, stack, filling>>

\* snmp_alarm_reset
Reset(r) ==
    /\ Client
    /\ \E a \in thealarms :
         /\ a.clientreg = r
         /\ thealarms' = Without(r) \cup {[a EXCEPT !.next = alarmClock + a.t]}
         /\ fireHistory' = IF a.fired THEN fireHistory
                       ELSE [fireHistory EXCEPT !.promised[r] = alarmClock + a.t]
    /\ UNCHANGED <<program, alarmClock, regnum, stack, filling>>

-----------------------------------------------------------------------------
(* run_alarms.                                                             *)

\* A call, by a callback, by the main loop or by the handler of the timer that
\* set_an_alarm set, which a second signal does not interrupt.
RunAlarms ==
    /\ Up
    /\ IF stack = <<>> THEN \E a \in thealarms : a.complete /\ a.next <= alarmClock
                       ELSE Client
    /\ Len(stack) < MaxDepth
    /\ stack' = <<[at |-> "loop", clientreg |-> 0, now |-> 0]>> \o stack
    /\ UNCHANGED <<program, alarmClock, thealarms, regnum, filling, fireHistory>>

Earlier(a, b) ==
    a.next < b.next \/ (a.next = b.next /\ a.clientreg < b.clientreg)

\* Mutant: the first alarm of the list is looked at.
FindFirst ==
    {a \in thealarms : ~a.fired /\ \A b \in thealarms : ~b.fired =>
                           a.clientreg <= b.clientreg}

\* sa_find_next: the earliest alarm, or the first registered of them, that is
\* not being run; at most one.
FindNext ==
    LET idle == {a \in thealarms : ~a.fired}
    IN  {a \in idle : \A b \in idle : ~Earlier(b, a)}

\* None, or the next one is in the future: run_alarms returns.
NoneDue ==
    /\ Up
    /\ stack # <<>> /\ Head(stack).at = "loop"
    /\ \A a \in FindNext : a.next > alarmClock
    /\ stack' = Tail(stack)
    /\ UNCHANGED <<program, alarmClock, thealarms, regnum, filling, fireHistory>>

\* The callback is entered.
Fire ==
    /\ Up
    /\ stack # <<>> /\ Head(stack).at = "loop"
    /\ \E a \in FindNext :
         /\ a.next <= alarmClock
         /\ a.complete
         /\ thealarms' = (thealarms \ {a}) \cup {[a EXCEPT !.fired = TRUE]}
         /\ stack' = <<[at |-> "callback", clientreg |-> a.clientreg,
                         now |-> alarmClock]>> \o Tail(stack)
         /\ fireHistory' = [fireHistory EXCEPT !.fires[a.clientreg] = @ + 1]
    /\ UNCHANGED <<program, alarmClock, regnum, filling>>

\* The alarm is one that is being registered: its time is still 0.  Its callback
\* is NULL, or called at once, and the entry freed that the main loop goes on
\* writing to.
FireHalfRegistered ==
    /\ Up
    /\ stack # <<>> /\ Head(stack).at = "loop"
    /\ \E a \in FindNext : ~a.complete
    /\ program' = "undefined"
    /\ UNCHANGED <<alarmClock, thealarms, regnum, stack, filling, fireHistory>>

\* Mutant: an alarm that runs once is kept.
UpdatedForEver(a, now) == {[a EXCEPT !.fired = FALSE, !.next = now + a.t]}

\* sa_update_entry after a run: only a repeated alarm with an interval stays.
Updated(a, now) ==
    IF a.repeat /\ a.t # 0
    THEN {[a EXCEPT !.fired = FALSE, !.next = now + a.t]}
    ELSE {}

\* The callback returns.  It may have unregistered its alarm.
ReturnFromCallback ==
    /\ Up
    /\ stack # <<>> /\ Head(stack).at = "callback"
    /\ LET f == Head(stack) IN
       /\ thealarms' = Without(f.clientreg) \cup
            UNION {Updated(a, f.now) : a \in {b \in thealarms : b.clientreg = f.clientreg}}
       /\ stack' = <<[f EXCEPT !.at = "loop"]>> \o Tail(stack)
    /\ UNCHANGED <<program, alarmClock, regnum, filling, fireHistory>>

TimePasses ==
    /\ Up
    /\ alarmClock < MaxTime
    /\ alarmClock' = alarmClock + 1
    /\ UNCHANGED <<program, thealarms, regnum, stack, filling, fireHistory>>

AlarmNext ==
    \/ Register \/ Walk \/ Link \/ Fill \/ UnregisterAll
    \/ \E r \in Regs : Unregister(r) \/ Reset(r)
    \/ RunAlarms \/ NoneDue \/ Fire \/ FireHalfRegistered \/ ReturnFromCallback
    \/ TimePasses

\* The timer of a due alarm expires, or the main loop calls run_alarms, and
\* callbacks return.
AlarmFairness ==
    /\ SF_alarmVars(RunAlarms /\ stack = <<>>)
    /\ WF_alarmVars(NoneDue \/ Fire \/ FireHalfRegistered)
    /\ SF_alarmVars(ReturnFromCallback)

AlarmSpec == AlarmInit /\ [][AlarmNext]_alarmVars /\ AlarmFairness

-----------------------------------------------------------------------------
(* Properties.                                                             *)

\* snmp_alarm.c:351 promises that an alarm without SA_REPEAT is called once,
\* and it is, however its callback or another one resets alarms and calls
\* run_alarms again: nothing that was fired once stays registered to be found.
FiresOnce ==
    \A a \in thealarms :
        a.clientreg # 0 /\ ~a.repeat /\ fireHistory.fires[a.clientreg] > 0 =>
            a.fired /\ fireHistory.fires[a.clientreg] = 1

\* No alarm is called before its interval has passed since it was registered or
\* reset from outside its callback.
NotEarly ==
    [][\A r \in Regs : fireHistory'.fires[r] # fireHistory.fires[r] =>
          alarmClock >= fireHistory.promised[r]]_alarmVars

\* An alarm that is due is run or unregistered, whatever the callbacks do, as
\* long as no signal hits a registration at the wrong point.
DueIsRun ==
    \A r \in Regs :
        (\E a \in thealarms : a.clientreg = r /\ ~a.fired /\ a.next <= alarmClock)
          ~> \/ ~Up
             \/ \A a \in thealarms : a.clientreg = r => a.fired \/ a.next > alarmClock

=============================================================================
