----------------------------- MODULE Callbacks ------------------------------
(***************************************************************************)
(* The callbacks of one event (snmplib/callback.c): functions registered   *)
(* with a priority and called in a list that they may change themselves,   *)
(* by registering, unregistering or calling the same event again.  The     *)
(* lock of the event is a counter: who finds it taken for 100 rounds goes  *)
(* on without it, and unlocks it all the same.                             *)
(*                                                                         *)
(* A function stands for itself with its client argument; a node is never  *)
(* given the number of a freed one.                                        *)
(***************************************************************************)
EXTENDS Integers, Sequences, SequencesExt, Subsequence

CONSTANTS Hooks,        \* the functions
          Priorities,
          MaxNodes,     \* bounds the registrations
          MaxCalls,     \* bounds the calls within calls
          None          \* sc_callback of a node that was unregistered in use

ASSUME CallbacksAssumption ==
    Priorities \subseteq Int /\ None \notin Hooks /\ {MaxNodes, MaxCalls} \subseteq Nat

VARIABLES list,         \* thecallbacks[major][minor]: [id, fn, priority]
          nodes,        \* number of nodes made so far
          lock,         \* _locks[major][minor]
          running       \* the calls of the event, the innermost first:
                        \* [at: the node called, called, begun: histories]

eventVars == <<list, nodes, lock, running>>

EventInit == list = <<>> /\ nodes = 0 /\ lock = 0 /\ running = <<>>

Ids(l) == {l[k].id : k \in DOMAIN l}
Live(l) == {l[k].id : k \in {m \in DOMAIN l : l[m].fn # None}}

\* _callback_lock: nobody else can give the lock back while this waits.
Locked == IF lock >= 1 THEN lock ELSE lock + 1

\* A callback that is running has not lost the node it was called from.
NotLost == running # <<>> => running[1].at \in Ids(list)

-----------------------------------------------------------------------------
\* Mutant: a callback is registered before those of its priority.
PlaceFirst(priority) == Cardinality({k \in DOMAIN list : list[k].priority < priority})

Place(priority) == Cardinality({k \in DOMAIN list : list[k].priority <= priority})

\* netsnmp_register_callback
RegisterCallback(f, priority) ==
    /\ nodes < MaxNodes
    /\ nodes' = nodes + 1
    /\ list' = InsertAt(list, Place(priority) + 1,
                        [id |-> nodes + 1, fn |-> f, priority |-> priority])
    /\ lock' = Locked - 1
    /\ UNCHANGED running

\* snmp_unregister_callback: a node is freed when the lock is held once, by
\* this function it is supposed, and otherwise left without a callback.
UnregisterCallback(f) ==
    /\ list' = IF Locked = 1
               THEN Chosen(list, {k \in DOMAIN list : list[k].fn # f})
               ELSE [k \in DOMAIN list |-> IF list[k].fn = f
                                           THEN [list[k] EXCEPT !.fn = None] ELSE list[k]]
    /\ lock' = Locked - 1
    /\ UNCHANGED <<nodes, running>>

\* The first node from place k on that has a callback; 0 for the end.
FirstFrom(k) ==
    LET live == {m \in k .. Len(list) : list[m].fn # None}
    IN  IF live = {} THEN 0 ELSE CHOOSE m \in live : \A n \in live : m <= n

\* snmp_call_callbacks, up to the first callback.
CallCallbacks ==
    LET first == FirstFrom(1)
    IN  /\ Len(running) < MaxCalls
        /\ IF first = 0
           THEN lock' = Locked - 1 /\ UNCHANGED running
           ELSE /\ lock' = Locked
                /\ running' = <<[at |-> list[first].id, called |-> <<list[first].id>>,
                                 begun |-> Live(list)]>> \o running
        /\ UNCHANGED <<list, nodes>>

\* The callback returns, and the next one is called or the loop ends.
CallbackReturns ==
    /\ running # <<>>
    /\ LET here == CHOOSE k \in DOMAIN list : list[k].id = running[1].at
           next == FirstFrom(here + 1)
       IN  IF next = 0
           THEN running' = Tail(running) /\ lock' = lock - 1
           ELSE /\ running' = [running EXCEPT ![1].at = list[next].id,
                                              ![1].called = Append(@, list[next].id)]
                /\ UNCHANGED lock
    /\ UNCHANGED <<list, nodes>>

\* clear_callback, at the end of the program.
ClearCallback ==
    /\ running = <<>>
    /\ list' = <<>>
    /\ lock' = Locked - 1
    /\ UNCHANGED <<nodes, running>>

\* What follows the use of a freed node is not defined: here the program ends.
EventNext ==
    /\ NotLost
    /\ \/ \E f \in Hooks, p \in Priorities : RegisterCallback(f, p)
       \/ \E f \in Hooks : UnregisterCallback(f)
       \/ CallCallbacks
       \/ CallbackReturns
       \/ ClearCallback

EventSpec == EventInit /\ [][EventNext]_eventVars

-----------------------------------------------------------------------------
(* Properties.                                                             *)

\* However the callbacks of an event change its list while it is called, a call
\* that ends has called every callback that stayed registered throughout, none
\* twice, in the order of priorities and within one priority of registration.
CallsInOrder ==
    [][Len(running') < Len(running) =>
        LET call == running[1]
        IN  /\ call.begun \cap Live(list) \subseteq {call.called[i] : i \in DOMAIN call.called}
            /\ \A i, j \in DOMAIN call.called, k, l \in DOMAIN list :
                 i < j /\ list[k].id = call.called[i] /\ list[l].id = call.called[j] =>
                   \/ list[k].priority < list[l].priority
                   \/ list[k].priority = list[l].priority /\ list[k].id < list[l].id]_eventVars

\* callback.c:352 skips "unregistered callbacks", which are left in the list,
\* without a callback, for the calls that still go through it: a node that a
\* call stands on is not freed.
NothingFreedInUse == \A k \in DOMAIN running : running[k].at \in Ids(list)

=============================================================================
