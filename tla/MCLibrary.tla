----------------------------- MODULE MCLibrary ------------------------------
(***************************************************************************)
(* The parts of the library that run beside each other in a manager and in *)
(* an agent: the record of an engine's time, alarms, persistent files,     *)
(* streams, callbacks and cached tables.  They share no state, so each     *)
(* runs alone: `part' is the one that does.                                *)
(***************************************************************************)
EXTENDS EngineTime, SnmpAlarm, PersistentStore, StreamBuffer, Callbacks, CacheHandler,
        TLC

CONSTANT Parts          \* the parts that a run looks at

VARIABLE part

-----------------------------------------------------------------------------
\* Messages shorter and longer than a buffer, and what is no message.
Short == [header |-> 2, size |-> 2, wrong |-> FALSE]
Long == [header |-> 3, size |-> 5, wrong |-> FALSE]
Garbage == [header |-> 2, size |-> 3, wrong |-> TRUE]

MCStreams == [1 .. 3 -> {Short, Long, Garbage}]

\* An ordinary cache, one of a file that is checked at every request, and one
\* that an alarm reloads.
MCTimeout == "plain" :> 2 @@ "file" :> -1 @@ "timer" :> 2
MCFlags ==
    "plain" :> {} @@ "file" :> {"DONT_INVALIDATE_ON_SET", "RESET_TIMER_ON_USE"}
        @@ "timer" :> {"AUTO_RELOAD", "PRELOAD", "DONT_FREE_EXPIRED"}

-----------------------------------------------------------------------------
TimeInit == Init
TimeNext == Next

\* A part that does not run starts in one way only.
LibraryInit ==
    /\ part \in Parts
    /\ TimeInit /\ (part # "time" => engine.time = 0)
    /\ AlarmInit /\ StoreInit
    /\ StreamInit /\ (part # "stream" => stream = [m \in 1 .. 3 |-> Short])
    /\ EventInit
    /\ CacheInit /\ (part # "cache" => valid = {})

LibraryNext ==
    /\ UNCHANGED part
    /\ \/ /\ part = "time" /\ TimeNext
          /\ UNCHANGED <<alarmVars, storeVars, streamVars, eventVars, cacheVars>>
       \/ /\ part = "alarm" /\ AlarmNext
          /\ UNCHANGED <<vars, storeVars, streamVars, eventVars, cacheVars>>
       \/ /\ part = "store" /\ StoreNext
          /\ UNCHANGED <<vars, alarmVars, streamVars, eventVars, cacheVars>>
       \/ /\ part = "stream" /\ StreamNext
          /\ UNCHANGED <<vars, alarmVars, storeVars, eventVars, cacheVars>>
       \/ /\ part = "events" /\ EventNext
          /\ UNCHANGED <<vars, alarmVars, storeVars, streamVars, cacheVars>>
       \/ /\ part = "cache" /\ CacheNext
          /\ UNCHANGED <<vars, alarmVars, storeVars, streamVars, eventVars>>

LibrarySpec ==
    LibraryInit
        /\ [][LibraryNext]_<<part, vars, alarmVars, storeVars, streamVars, eventVars,
                            cacheVars>>

==============================================================================
