# Verification of the MIB browser

The repository is a MIB browser: a Qt application (`src/mibBrowser`, 3.7k lines of C++)
that shows the tree of the MIB files it finds and sends SNMP GET, GETNEXT and walk
requests to an agent, on top of the net-snmp 5.7.3 library, which the repository carries
together with its agent (`src/net-snmp-5.7.3`, 134k lines of C).

This directory holds TLA+ modules of the parts of it where order, failure and stale state
matter, the TLC configurations that check them on small instances, and proofs, checked by
TLAPS, of what holds for every value of the constants. `PROJECT.json` lists components,
runs, seeded faults ("mutants"), theorems, hazards, and the source lines behind every
definition.

    tlc -config Requests.cfg MCRequests           # a run: see the table of runs
    tlapm Requests_proofs.tla                     # the proofs of a module

## 1. Inventory

### The browser (`src/mibBrowser`)

| part | state | operations | calls, is called by |
|---|---|---|---|
| main, MainWindow | a Form, a status label | start | shows the Form |
| Form (`form.cpp`) | tree and current item, panel, OID field, button states, search (`searchText`, `searchCount`, `searchList`), `tableOid`, `tableHeaders`, the parameters `snmp`, the Indexes window | constructor (init of the library, tree), `itemInfo`, `on_requestGet_clicked`, `on_requestGetNext_clicked`, `on_indexesButton_clicked`, search slots, `getRequestResult`, destructor (`snmp_shutdown`) | starts SnmpRequests, receives their results over the event queue, fills Indexes |
| tree building (`appendChildrenMibTree`) | `elements`, the fields of a MibObject | sort the peers, cut the description into fields | net-snmp's parse tree and `sprint_realloc_description` |
| SnmpRequest (`snmp_request.cpp`) | a thread, a session pointer, PDU, OID, type of request | `run`: `getRequest`, `walkRequest`; `snmpSyncResponse`, `snmpSynchInput`, `snmpWalk` | net-snmp sessions; signals to Form |
| Indexes (`indexes.cpp`) | the table, its headings, its items with tool tips | `getTable`, `on_trans_clicked`, `on_copyOid_clicked`, `deleteInfoFromTable` | filled by Form |
| Snmp dialog (`snmp.cpp`) | version, user, keys, community | copy in and out of the form | read at each click |
| line formatter (`snmptrap_log.cpp`) | options | format one variable as a line | used by a walk, always with `%#v\n` |

### The library and the agent (`src/net-snmp-5.7.3`)

| part | state | operations |
|---|---|---|
| sessions (`snmp_api.c`) | request list, callback, counters of ids, packet buffer | open, send, read and dispatch, resend, time out, close |
| streams (`_sess_read`) | the packet buffer of a session | receive, cut into messages, move the rest, grow |
| engine time (`lcd_time.c`, `snmpusm.c`, `snmpv3.c`) | `etimelist`, own boots and time | get, set, timeliness check |
| alarms (`snmp_alarm.c`) | list of alarms, their numbers | register, unregister, reset, `run_alarms`, the itimer |
| callbacks (`callback.c`) | a list per event, a lock per event | register, call (also from a callback), unregister, clear |
| persistent files (`read_config.c`, `snmp_api.c`) | the file, its backups, `_snmp_store_needed` | save, append, clean, read back |
| USM users (`snmpusm.c`) | list of users | store, parse, look up |
| MIB linker (`parse.c`) | tree, roots, hash buckets, orphans, loaded modules | read a module and its imports, link, adopt orphans, unload |
| MIB parser and printer (`parse.c`, `mib.c`) | | parse texts, print nodes |
| containers (`container_binary_array.c`, `container.c`) | arrays sorted late, iterators | insert, remove, find, next, iterate |
| access control (`vacm.c`) | views, access entries, groups | create, destroy, look up, choose |
| agent (`snmp_agent.c`) | two lists of sessions, the SET in process, requests per subtree | accept, queue, passes over the handlers, late answers, scan, close |
| registry (`agent_registry.c`) | list of subtrees with stacks of registrations, lookup cache | register (ranges too), unregister, find |
| helpers (`agent/helpers`) | caches and their shared alarm; tables and the search through their rows | load, expire, release; GET, GETNEXT of columns |
| daemon (`snmpd.c`) | | main loop, signals, start and end |

The parts not named in section 2 (transports, BER, keys, logging, TLS, AgentX coding,
portability) are listed in `PROJECT.json` with the reason why they are not modelled.

### What is hard here

- **Threads against slots.** Every click makes an object that is a thread and lives in the
  GUI thread; its results arrive over a queue, after other clicks; members of Form such as
  `tableOid` are overwritten meanwhile; `start()` may be called twice.
- **The synchronous call on top of an asynchronous session.** Answers come late, twice,
  out of order; the timer resends with new message ids; reports are matched differently
  from responses; early returns leave a callback into a dead stack frame.
- **A remote MIB that changes while it is walked**, and a comparison of OIDs as texts.
- **Delegation in the agent.** A request may wait for subagents in any phase, others queue
  behind a SET, both lists use one link, and the scan that wakes them changes them.
- **Reentrancy**: `run_alarms` from a signal handler, from the main loop and from callbacks
  that change the list it iterates over; callbacks that change the list that calls them.
- **Crashes** between the file operations of a store, refused renames and writes.
- **Time**: estimates of a remote clock from delayed and repeated messages; wrap-around.
- **Tables with overlapping claims**: subtrees that split each other, views with masks, modules
  that import from each other, rows in no order searched for several variables at once.
- **Hand-written sequential code** whose state survives from one use to the next: the
  table of the index window, the search counter, the sort, the sorting of lines into fields.

`PROJECT.json` lists 40 hazards by line, with the properties that cover them.

## 2. Modules

    SyncCall ------ promise of one call --------+
      ^  refined by            EXTENDS          |
    SyncRequest  <- proofs     SnmpWalk <-------+      (what a request does)
                                  :   <- proofs
    Browser <- proofs  ..(a run ends with a text or an exception)..  (who starts requests)
      :  current item                :  lines of a walk
    TreeSelection  <- proofs       IndexTable  <- proofs
    TreeOrder, MibNode, MibLinker  <- proofs   (how the tree gets its items and texts)

    AgentService --- promise of the agent       EngineTime, SnmpAlarm,
      ^  refined by                             PersistentStore,  <- proofs
    SnmpAgent <- proofs (requests in the agent) CacheHandler,
      :  which handler      :  what a handler finds     StreamBuffer,     <- proofs
                                                        Callbacks         <- proofs
    AgentRegistry <-proofs TableIterator <- proofs          : who may
                          BinaryArray    <- proofs      Vacm  <- proofs

    MCRequests, MCTables, MCSnmpAgent, MCLibrary give these modules their instances
    Subsequence: what is left of a queue or a list (Browser, Callbacks, IndexTable, MibNode,
    MibLinker)
    Induction: the lemmas about natural numbers, finite orders and parts of sequences that
    the proofs share; Requests_proofs holds those of SyncRequest and SnmpWalk, AgentTables_proofs
    those of the containers, tables and the registry, Library_proofs those of PersistentStore, Callbacks,
    StreamBuffer

`SnmpWalk` uses the calls that `SyncCall` promises, and `SyncRequest` is shown to keep that
promise, so the walk needs no packets, timers or message ids. `Browser` uses only how a
run may end. In `SnmpAgent` a handler is what it answers; the registry, the tables and
the access check behind it are modules of their own. The others meet their environment
at an interface small enough to be one (a message, a file, a signal, a clock).

### The browser

**SyncCall** — `phase`, `n`, `outcome`. What `SnmpRequest::snmpSyncResponse` promises its
callers: one call at a time, each returns, success hands over the answer to the own
request, nothing is called after a failure.

**SyncRequest** — one session and the worker thread in `snmpSyncResponse`. `pc` is the place
in that function (`read` is the inside of `_sess_read` on a stream, which may hold more
packets), `lstate` the `synch_state` on its stack, `callback` the `callback_magic`,
`requests` the session's request list (`retries`, and whether its `expireM` has passed),
`sent` every transmission. Actions: `Enter`, `Send`, `SendFails`, `Return`, `SelectFails`
(the function and its early returns), `Expire` and `SessTimeout` (the clock and
`snmp_sess_timeout`, including its stop at the first failing resend), `ReadResponse`,
`ReadNotInTimeWindow`, `ReadReport`, `ReadOther`, `Disconnect`, `EndRead`
(`_sess_read`/`_sess_process_packet` with the effect of `snmpSynchInput`). Answers to
anything in `sent` may arrive at any time, repeatedly, or never, which covers loss,
duplication and reordering. `ReturnTo` carries the guard of the two callers: they go on only
after STAT_SUCCESS. Left out: building and decoding packets (a failure of either is
`SendFails` or a packet that does not count), and the callback's handling of answers that
are "not authentic", which drop the answer. The cutting of a stream into messages is
StreamBuffer.

**SnmpWalk** — the `while` loop of `snmpWalk` with its four exits and the exception, an agent
(external) that answers GETNEXT with the successor in a MIB that may change between any
two steps, and `StartsWith`, the meaning of `QString::startsWith` on dotted decimal texts.
`Blank` are the instances whose value has no text.

**Browser** — Form's slots, the event queue and the life of SnmpRequest objects. `work` maps
each object to its kind, state and number of runs; `queue` holds queued `sendResult`
and `deleteLater`; `restart` marks a slot between its two calls of `start()`. The program
may be aborted in four ways the code contains (null current item, exception in `run`,
`~QThread` on a running thread, a row of an empty table): these are steps, and
properties say when they can happen. Object names are reused after deletion, so the history
is unbounded although two requests exist at a time.

**TreeSelection** — current item, described item, OID field, Indexes button, search field and
counter, and the request each click makes. **IndexTable** — `getTable` with what
`setRowCount` leaves in place and how `setItem` places an item by the number of its column,
transposition, Copy OID. **TreeOrder** — the exchange sort and the reversal of
`appendChildrenMibTree`, one loop iteration per step. **MibNode** — the text of an
object, clause by clause, and the sorting of its lines into fields by the first keyword they
contain; `tmp` are the lines that wait for the next one.

**MibLinker** — `read_module_internal` with the modules it imports, the buckets by label,
`do_linkup`, `do_subtree`, orphans and `adopt_orphans`, `unload_module` and the nodes it frees. A
module's objects come in the order of its text; which module is read when is the user's.
`Consistent` is what SMI asks of modules and the code only warns of: a label is defined in one
way, a place has one label, and no label is a root's.

### The library

**StreamBuffer** — the packet buffer of a stream session: a read takes any part of what was
sent, complete messages are handed on, the rest is moved or the buffer grown; garbage
and a closed connection end the session. A byte is its message and its place in it, its value
left out. `Turn` is one turn of the loop over the buffer, `Processing` the loop, `Left` what is
moved to the start.

**Callbacks** — registration in order of priority, the call of an event whose callbacks may
register, unregister, or call the event again, with the lock that gives up without
having been taken and is given back all the same. `running` are the calls under way, each with
the node it stands on and, as history, whom it has called and who was registered when it began.

**SnmpAlarm** — the list of alarms, `stack` of active `run_alarms`, a clock. Callbacks and the
main loop register, unregister, reset; SIGALRM may start `run_alarms` between any two
steps. Of the main loop's operations registering is split where a signal may fall (`Walk`,
`Link`, `Fill`); its unregistering and resetting are single steps, so the windows
inside these two are not covered. The value of the itimer (`set_an_alarm`) is left out: the
timer of a due alarm expires.

**EngineTime** — the record of one engine in `etimelist` as `usm_process_in_msg` and
`usm_check_and_update_timeliness` use and set it, the engine's own clock and boots, and a
network that delays, repeats and loses its messages. The manager's clock does not wrap.

**PersistentStore** — the agent's file, its backup slots, and what memory holds, through start,
`snmp_save_persistent`, the STORE_DATA callbacks, `snmp_clean_persistent`, SIGHUP and
`snmp_shutdown`; a crash between any two calls of the file system, renames, writes and removals
that are refused. What was refused, and a file that comes to stand in front of an older backup, is
kept in `history`, which the properties go by. Only engineBoots, oldEngineID and users (whose
lines are written together or not at all); the engineID does not change.

**BinaryArray** — the array with its dirty flag, the quicksort and the binary search as they are
written, duplicates, and an iterator with the counter by which it notices changes.
**Vacm** — families of subtrees with masks, the entry that decides for an OID, the verdict over
a whole subtree, the choice among access entries.

### The agent

**AgentService** — `stage`, `sets`: every request accepted is worked on once and answered once,
a SET alone. **SnmpAgent** — `asp` the agent sessions (command, mode, bindings with owner,
status and delegation), `link` the member both lists use, `delegatedList`, `queuedList`,
`processingSet`, `pc` the place of the one thread, `scan` the pointers of the scan. Actions for
arrival, `netsnmp_handle_request`, a pass over the handlers (each binding answered, refused,
passed on or delegated), `handle_set_loop`, the GETNEXT loop, wrapping up, the subagent's
answers in any order, `netsnmp_check_outstanding_agent_requests` step by step, and a subagent
that goes. GETBULK and the handlers' own work are left out.

**AgentRegistry** — the list of disjoint regions, each with its stack of registrations:
`netsnmp_subtree_load` and its splits, ranges, unloading one, one session's, or a range,
`netsnmp_subtree_find` with its cache. The later subtrees of a range are copies of its first one,
links included; as long as each falls into one region the load gives it links of its own. Where it
goes on behind that region (`Tangles`, finding 25) the code changes the links of the first
subtree's neighbours: the model then sets `tangled` and stops. **CacheHandler** — caches with flags and timeouts that
share one alarm: used by a request, invalidated by a SET, expired, released, reloaded.

**TableIterator** — a GETNEXT of several variables of one table: what the table helper takes
out of each name, the search over all rows for all variables at once, the step to the next
column, the table's handler (external: a value, a hole, a column it does not know), the sparse
table helper, and the loop of the agent that asks again or goes to the next table.

The four MC modules give the structured constants of a run a definition. What they hold
together does not share state, so running the parts side by side would only multiply their
states: a variable `part`, chosen in the initial state from the constant `Parts`, says which
one takes steps. The modules that theorems are about are extended, so that a run checks the
very definitions that are proved; the others are instances. A property of an instance is the
property of its module, under the condition that its part runs where the others' initial state
need not satisfy it.

The operators and actions marked "Mutant" are plausible bugs of the definition that follows them:
with the definition replaced by its mutant, TLC finds the property named in `PROJECT.json`
violated.

## 3. Runs

Each run is one MC module with a `.cfg`; the eight of the second table find a violation, see
section 6.

| run | parts | shows |
|---|---|---|
| `requests` (`Requests.cfg`) | SyncRequest | SessionReusable, NeverWaitsForNothing (so the block == 1 exit of the loop is dead code), TriesNotAhead, ImplementsSyncCall (refinement, with its liveness) |
| | SnmpWalk | WalkInOrder, WalkComplete, FirstVersionWalkEnds |
| | Browser | OneGetAtATime, TableMatchesHeading, DestroyedOnlyIfRestarted, ButtonsComeBack, RequestsFreed |
| `tables` (`Tables.cfg`) | MibLinker | EverythingIsLinked: in whatever order modules are asked for and unloaded, an object whose ancestors are there has its OID |
| | TreeOrder, MibNode | TreeInOrder; PanelRight |
| | TreeSelection, IndexTable | AsksForTheDescribed, EveryMatchFound; ShowsTheLastWalk |
| | BinaryArray | NextIsNext, VisitsAll |
| | AgentRegistry | FindsTheBest: the lookup gives the registration with the first claim, as if there were no list, stacks or cache, until a range tangles the list |
| | TableIterator | NextInTable: each variable gets the next instance of the table, or the next table if there is none |
| | Vacm | VerdictHolds: what is said of a subtree holds for every OID below it |
| `agent` (`Agent.cfg`) | SnmpAgent | ListsRight, ServesRequests (refinement of AgentService), CommitsWhatAllAgreed, EveryRequestAnswered |
| | SnmpAlarm | DueIsRun |
| `library` (`Library.cfg`) | EngineTime | NotAhead, CurrentIsAccepted, NeverGoesBack, FreshSynchronises |
| | SnmpAlarm | FiresOnce, NotEarly |
| | PersistentStore | BootsNeverReused, NoUserComesBack, WholeStoreIsReadBack |
| | StreamBuffer, Callbacks, CacheHandler | DeliversTheStream; CallsInOrder; UnusedIsReleased |

| run | violated |
|---|---|
| `walk_tail` | LastColumnEnds |
| `agent_all_or_nothing`, `agent_no_orphan` | AllOrNothing, NoOrphan |
| `registry_range` | RangeIsGone |
| `access_rules` | RulesAreFollowed |
| `columns` | EndsApart |
| `unload` | NothingFreedIsLinked |
| `callbacks_freed` | NothingFreedInUse |

Why these bounds are enough to meet the interesting cases:

- *Calls*: 3 calls, 2 retries, every kind of session. Three calls let an answer of the call before,
  and of the one before that, arrive in the last; two retries let the timer and the reports use
  up the count in either order. The theorems of section 5 hold for any number of both.
- *Walk*: columns 1, 2 and 10. Column 10 is there for column 1, whose text it begins with; column 2
  stands between them.
- *Window*: two requests are what any of the races in `Browser` needs; because names are reused,
  chains of any number of requests occur.
- *Index*: three walks (a table, its transposition, and another table over it), 3 columns, 2 rows.
- *Tree*: five peers with sub-identifiers 0..3 make the sort exchange an element more than once and
  the reversal have a middle; descriptions of two lines that may mention two of the
  keywords: DESCRIPTION, which does not leave the field, and STATUS, which does.
- *Linker*: five modules: two that import from each other, one that imports from a module without
  a file, one with a syntax error, a label that two define, a branch defined before its parent;
  two unloads. Two labels stand at one place, so these modules are not `Consistent`; those of
  `unload` are, which `MCTablesAssumption` has TLC evaluate.
- *Containers*: five entries with three keys make the quicksort go three levels deep and meet
  duplicates; seven changes.
- *Registry*: a range of two subtrees and three names (one above it, its first subtree, one below
  its second, which is registered before the range or after), two priorities; a cache of two
  places, less than the regions there are.
- *Columns*: three columns of which the middle one may be unregistered, two rows, any set of
  values, and two variables that may be before, in, between or behind the columns.
- *Access*: nine families, nested, beside each other and with open places, of which any set makes
  the view; three access entries.
- *Agent*: three requests are a SET, one behind it and one behind that, or two delegated and one
  that the scan wakes; the second has two bindings, so that one may refuse while the other is
  delegated; one subagent beside the agent's own handlers.
- *Engine time*: a window of 1 and times up to 5 leave room for messages on time, late within the
  window, late beyond it, and for the wrap of the time into the next boot; three boots reach the
  limit; two messages under way can overtake each other.
- *Alarms*: three alarms (two where liveness is checked), time up to 3, a nested `run_alarms`, which
  is a callback that calls it, or a signal in one the main loop called.
- *Store*: two slots of backups let all of them be taken, and let one be removed before the other.
  Five stores, three crashes and two refused calls let both be taken, the removal of the later one
  be refused, a file be renamed in front of it and a start read both; without the mark that
  `Rename` leaves there `BootsNeverReused` would fail. Users are independent of each other, so
  one is enough: it is added, removed and may come back.
- *Stream*: three messages, each shorter or longer than the buffer, or no message.
- *Callbacks*: three registrations and a nested call are what a callback needs to free a node
  behind or before the one that calls it.
- *Caches*: an ordinary one, one that is checked at every use, one reloaded by an alarm; time for
  three rounds of the release.

No run checks for deadlock: each of these models stops by its bound (calls, clock,
stores), at the end of an algorithm, or when the program is aborted. That nobody waits
for ever is stated as liveness where it matters (`ImplementsSyncCall`, `ButtonsComeBack`,
`RequestsFreed`, `DueIsRun`, `FirstVersionWalkEnds`, `EveryRequestAnswered`).

## 4. Fairness

- `SyncRequest!Fairness`: weak fairness of the worker's own steps and of the clock. Strong
  fairness of `SessTimeout`: packets may arrive for ever, each of them disables the timeout
  branch for one iteration, but select returns 0 when none is there, and the code
  processes an overdue request then. Nothing is assumed of the network.
- `SyncCall!CSpec`: a call that was begun ends; this is what `SyncRequest` is shown to keep.
- `SnmpWalk`: the loop goes on, and calls return (from `SyncCall`). Nothing is assumed of the
  agent's changes.
- `Browser`: the event loop handles its events, a slot finishes, a run ends (from
  `SyncRequest` and `SnmpWalk`; the walk of section 6 that does not end is left aside).
  Nobody has to click.
- `SnmpAgent`: weak fairness of the agent's thread, including the check of outstanding requests in
  its main loop (`snmpd.c`, every turn). Strong fairness of the subagents' answers: a subagent
  answers, or its time-out in the session does, or it goes.
- `SnmpAlarm`: the timer of a due alarm expires or the main loop calls `run_alarms`;
  callbacks return. The second is an assumption on the callbacks, not on this code.

The `tables` and `library` runs state safety only and assume no fairness.

## 5. Proofs

All proofs are checked to the last leaf and rest only on the named assumptions of the
modules (natural numbers, sets, Booleans); nothing is assumed of sizes, except that the OIDs
an agent can serve are finite in number (`SnmpWalkAssumption`: an OID has at most 128
sub-identifiers of 32 bits), and that a message in a stream has a header of two bytes or more and
is not shorter than it. Each component has one inductive invariant, a conjunction of named
parts; TLC checked it on the bounds of the run before it was proved. There is a lemma per
action, and the properties are read off at the end.

**Requests_proofs**, of SyncRequest. None of the safety properties is inductive. `IInv` adds to TypeOK:
what `callback` and `lstate.reqid` are at each place of the function; that an idle session has
an empty list, no callback and an open socket; that nothing of the current call is under way
before it is sent; that a waiting call has its request on the list; that the list holds requests
of the current call only, one for each; and that no transmission is ahead of its request's
retries. Each action is shown to preserve it, conjunct by conjunct. From it follow
`WaitIsBacked`, `SessionStaysReusable`, `OwnAnswer`, `ListIsCurrent`, `TriesCounted`, and
`Refinement`: every initial state and every step of SyncRequest is one of SyncCall, or leaves its
variables unchanged, for any number of calls and retries, both versions and both transports.

**Requests_proofs**, of SnmpWalk. The model's order of OIDs is about prefixes and parts of sequences;
the first lemmas say it place by place (`PrecedesIs`) and show it to be a strict total order for
OIDs of any length. So an agent's answer is the first of what comes after the OID
asked for, or an end of the MIB (`AnswerIs`). `WalkInv`: the loop is never behind a line it has
written (`Place`), the lines ascend and lie below the start as far as texts tell (`InOrder`),
and what was there all the time is listed or lies ahead (`NothingMissed`). An answer
that is accepted lies after the OID asked for although the loop never looks at that; and what
begins with the OID begins with its text, so nothing below the start is taken for the end.
`LinesInOrder` and `NothingLost` follow, for any changes of the agent's MIB in between.

**Browser_proofs.** `WindowInv` adds to the types: the events of a request object stand in the
queue in the order of its life, the deletion last and once for each end of a run
(`RunsInOrder`); a slot between its two calls of `start()` holds the object it has just started,
and only a column walk is started twice (`BetweenStarts`); while the buttons are off, or were not
switched on too early, at most one request of them is outstanding (`ButtonsGuard`); the table
of the last click on Indexes, and the headings that belong to it (`LastClick`). It is an
invariant about a queue of any length: `Without`, which takes an object's events out when
it is deleted, is shown to keep order and number of the others (`WithoutIsWithout`).
`OneGet`, `TableAndHeading` and `DestroyedRestarted` follow for every set of objects.

**SnmpAgent_proofs.** The heaviest part is that one member, `link`, serves two lists. `Chain` says
without recursion that a list is a sequence of different sessions along `link`; lemmas give
what pushing, appending, popping and removing do to a chain, and that a change elsewhere leaves
it alone. `AgentInv`: both lists are chains and have nothing in common (`Lists`); an open session
is in one of them or is the one worked on (`Places`); the two pointers of the scan are
neighbours in the list that the scan changes (`Scanning`); a SET that is worked on is
`processingSet` (`SetIsAlone`); what is queued waits for one (`Queueing`); and the modes a
waiting session may be in (`Phases`). From it:

- `ListsStayRight`: `ListsRight` for any number of requests, bindings and subagents.
- `AgentServes`: SnmpAgent implements AgentService, as a theorem about the behaviours, step by
  step: each request accepted is worked on once, a SET alone, and answered at most once.
- `CommitsAgreed`: a SET is committed only if all bindings agreed, unless one pass both failed
  and delegated (finding 2). It needs one more invariant, `Agreement`: what an error that is kept
  in a session says of its mode, and of the pass it is in.

**Tables_proofs.** Six components that stand alone.

- TreeOrder: `OrderInv` has an invariant for each phase: while sorting, the prefix before the
  outer counter is descending and dominates the rest, and the element at the outer counter
  dominates those already compared with it; while reversing, the two outer parts are
  exchanged and the middle is not. `SortedInTheEnd`, `NoPeerLost` and `ChildrenInOrder` follow
  for any number of peers, empty lists included.
- MibNode: while no text mentions a keyword, each field holds exactly the lines read of its
  clause, and what waits in `tmp` has no field, but behind a description (`FieldsRead`); with any
  mentions, a heading is in its field once it is read (`HeadingsRead`). That a clause begins with
  its keyword, and that the description and what follows it stand at the end, comes from the
  texts the library writes (`TextsAre`); how parts of a text are put together is `OfConcat`,
  `OfAppend`. `PanelShows` follows for any choice of clauses, mentions and length.
- TreeSelection: what the search has found are the matches up to its counter
  (`SelectionInv`), hence `SearchFinds`; the OID field and the Indexes button are those of the
  described item or the field was edited (`DescribedInv`), hence the action property
  `AsksDescribed`, for any tree.
- Vacm: a view is finite and has one family for a subtree (`ControlInv`); of two families one
  is longer, and this is an order, so the search for the best one finds it (`BestIs`, from
  `MinimalOf`). What decides for an OID below a subtree decides for the subtree or is one of the
  families inside it (`CoversBelow`), hence `VerdictOnSubtree`, for any families and masks.
- IndexTable: there are items from the table of a walk until the next one is asked for
  (`Cleared`), and unless walks overlap at most one is outstanding (`OneAtATime`); then every
  cell holds the instance of its own two headings if the last walk gave it, turned or not
  (`LastShown`). A row and a column have a place of their own in the list of items
  (`OnePlace`). `LastWalkShown` follows for any columns numbered from 1 without a gap
  (`NoGap`); finding 12 is what happens otherwise.

- MibLinker: `LinkerInv` says that every node is a root or hangs below the node of its parent, which
  was made before it, and that a label is there once (`IsTree`); that each object of a module read to
  its end is in the tree for that module or an orphan (`NothingLost`); and that when nothing was linked
  since adopt_orphans no orphan has its parent in the tree (`NoneReady`). Linking is a
  transformation of a tree and a list of objects: nothing gets lost in it (`DoSubtreeIs`,
  `BelowImportsIs`, `BelowRootsIs`, `LinkedIs`, `OrphanedIs`), do_subtree ends within its rounds
  because each of them places an object (`Progress`), and adopting goes on until no orphan is
  ready (`AdoptOrphansIs`). Unloading keeps the parents of what it keeps (`LineageIs`, `NeededIs`),
  so the rest is still a tree. OIDs are a recursion over the ids of the nodes (`OidIs`), definitions one over
  steps down from the roots (`DefinedIs`). `LinkerInvariant` and `ObjectsAreLinked` hold for any
  `Consistent` modules, however they import from each other, in any order of reading and
  unloading, with syntax errors, missing files and cycles. Without `Consistent` a label may stand
  at two places and find the wrong parent. It is about behaviours up to finding 7.

**Time_proofs.** Three components with a clock.

- EngineTime: the record, if it is authenticated, and every authenticated message under way
  stem from a moment of the engine's past: no more boots than the engine has now, and with the
  same boots no more time than has passed since (`EngineInv`). From this come
  `EstimateNotAhead`, `CurrentAccepted` and the action property `RecordNeverGoesBack`, for any
  window and limits. `FreshInWindow` needs a second invariant of what follows a fresh message
  (`InStep`): the record is within the window of the engine's clock and stays there until the
  engine starts again.
- SnmpAlarm: every entry has its number alone, and the one without a callback is that of a
  registration a signal cut into (`Numbered`); no alarm is due before its promise, and one that
  is marked as fired was due (`Promised`); of each alarm at most one callback is under way in the
  nested runs, and its entry is marked or gone (`InCallback`); `FiresOnce`. `CalledOnce` and
  `CalledInTime` hold for any number of alarms and any depth of nesting.
- CacheHandler: while a cache that may be freed is valid, the alarm is set, and for no later than
  a round after that cache's timeout (`AlarmIsSet`), whichever cache started it. Hence
  `ReleasedInTime`, for any caches, flags, timeouts and requests.

**Library_proofs.** Three components of the library that share nothing.

- PersistentStore: what a start would read is a function of the file and the backups
  (`ReadFrom`), so the invariant can be about the next start instead of the past:
  `LinesWritten` (what the store has put into the file, place by place), `InOneStore` (a line that
  was refused is known), `TidyStore` (a store that began with no file, and met no refusal, ends
  with exactly its users and no backup), `BootsGrow` (whatever a crash leaves, the next start has
  more boots than the last that served). The file may be renamed among the backups because what
  is read stays the same if none stands behind it (`Moved`); if one does, that is marked. From it
  `BootsGoOn`, `RemovedStayAway`, `ReadBack`, for any number of slots, stores, refusals and crashes.
- Callbacks: the list is in the order of priority and registration (`InOrder`), and each call under
  way is measured against the list as it is *now* (`CallOK`): whom it has called stand there in
  the order of the calls, and of those it has passed by and that were registered when it
  began, everyone still registered has been called. A change of the list keeps that because
  what is left of the old nodes is in the new list in the old order (`Embedded`, `CallStays`),
  which is why `CalledInOrder` holds in spite of callbacks that unregister each other. It is about
  calls that end; a freed node (finding 8) ends the model's program.
- StreamBuffer: `StreamInv` says that there is a message up to which all have been processed and
  behind which the buffer holds exactly the bytes received (`Cut`). The loop over the buffer
  keeps the same with the messages it has taken (`Taken`, `TurnIs`), and ends because each turn
  takes a byte at least (`ProcessingIs`). That the messages lie one after the other in the
  stream is `ByteIs`. Hence `StreamDelivered`, for any messages, cuts and sizes.

**AgentTables_proofs.** Three components of the agent with a search of their own.

- BinaryArray: `array_qsort` is shown to sort. `Reordered` says that what it leaves is a
  permutation, inside the bounds, of what it was given; `Parted` is the invariant of its loop (what
  is left of one index is not above the middle element, what is right of the other not
  below it, and neither index leaves the bounds), so the two parts it goes into are shorter
  (`PartitionIs`). The recursion is shown to have a value (`SortingIs`, `QsortUnfolds`), and by
  induction over the length that value is sorted (`QsortIs`). `BisectIs` says what the binary
  search comes to, `NextIs` what find_next makes of it, also among duplicates. `ArrayInv`: what
  is not dirty is in order, without duplicates the keys are distinct, and an iterator that
  nobody disturbed has ahead of it what it has still to give. `WalksInOrder` and `IteratesAll`
  follow for any keys and any number of entries.
- TableIterator: `IteratorInv` is about every variable of the packet by itself, wherever the
  helper is in its passes over the rows: the name it has come to has behind it what was behind
  the name asked for (`SameBehind`), and in a pass the columns before its own have nothing there
  and the row kept is the first one of the column (`Looking`, `Looked`). `ParsedIs` says what column and row the helper takes out of a name of any
  shape. `NextFound` follows for any columns, rows, values, order of the rows and number of variables;
  the variables that the end of another one cuts off (finding 6) are left out.
- AgentRegistry: `RegistryInv` describes the list in terms of what is registered: the regions lie
  side by side from the first OID to the last (`SideBySide`), the stack of each holds exactly the
  registrations that span it, in the order of their claims, and none begins or ends inside a region
  (`StackOK`), no name is there twice with the same priority (`LiveOK`), and the lookup cache points
  into the list, before its last region (`CacheOK`). Everything rests on an order of OIDs: `Offset`,
  where two of them differ, gives `Less` a transitive order, and a registration spans the OIDs
  it is a prefix of, up to `End` (`SpansIs`). Registering cuts two regions and pushes onto those in
  between (`LoadedIs`); unloading takes the registration from the region of its first OID and those
  behind it, which are all that have it; no region is ever empty and left out, since the root spans
  all. Ranges go by induction over their elements, which is what
  `RangesAreClear` is for: the elements after the first get their end from the first one's
  subtree, which is right if nothing is registered below that (finding 20), and the rounds of
  unregistering take all of them if the range begins at 1 (finding 4); without that `RangeIsGone`
  fails. `RegistryInvariant` is about the list until it is `tangled` (finding 25), names below the
  later subtrees included. The instance of `tables` satisfies the condition (`MCTablesAssumption`),
  that of `registry_range` does not. `RegistrySearch` shows that the comparisons that
  `netsnmp_subtree_find_prev` skips would not have ended it, and that a search from a cached place
  ends where one from the start does. Hence `BestIsFound`, for any names, priorities, sessions,
  lookups and size of the cache.

**Induction.** The library's induction theorems take a predicate as a parameter, which the
provers here cannot instantiate. This module states induction over Nat with a set in the
predicate's place: a set of natural numbers that is not empty has a least element
(`LeastOf`, from the well-foundedness of inclusion on finite sets), hence `GreatestOf`,
`InductionOn`, and that the functions a step after step definition speaks of exist
(`RecursionOn`, `IterationOn`), also where the recursion goes over a measure instead of a number
(`MeasuredRecursion`, for the quicksort, the lineage of a node and its OID). `StagedOn` and `StaysIn`
say the same of the steps of a definition that is applied again and again (`Staged`), in the linker's
loops. The proofs about queues, chains and backups rest on it.
`MinimalOf` is about orders instead of numbers: a finite set that is not empty has a minimal
element in every transitive, irreflexive relation; walks and views rest on that. `ChosenIs`
says what `Chosen` keeps of a sequence, for the event queue and the list of callbacks;
`ChosenUnfolds` and `ChosenMore` how it is composed, for the texts of MibNode; `PartsOf` that
what is chosen and what is not are all of it, for the objects the linker takes out of a list.

Every invariant that a passing run checks, and every action property, is stated by a theorem.
Only model-checked:

- liveness under fairness, which is out of the prover's reach: `FirstVersionWalkEnds`,
  `ButtonsComeBack`, `RequestsFreed`, `DueIsRun`, `EveryRequestAnswered`, and the liveness half of
  `ImplementsSyncCall`;
- `EverythingIsLinked` for modules that are not `Consistent`, of which `tables` has an instance.

## 6. What the code does other than its texts say

The first eight are runs that TLC finds violated; the others were met while translating, and
the models do what the code does.

1. `walk_tail`: `snmp_request.cpp:527` takes an answer with the OID asked for as the end of the
   MIB, but compares it with the first OID of the walk: at the end of a v2c agent's view the last
   GETNEXT is repeated for ever.
2. `agent_all_or_nothing`: a pass of a SET that one handler refuses and another delegates
   leaves no error behind (`snmp_agent.c:3305`), and the SET is committed; `:3145` says another pass
   frees what was reserved.
3. `agent_no_orphan`: `snmp_agent.c:1545` follows the list of one subtree's bindings only; a
   binding of another subtree keeps waiting for a subagent that has gone, whatever `:1530` says.
   `EveryRequestAnswered` holds as long as there is no such orphan.
4. `registry_range`: `agent_registry.c:1748` takes the upper bound of a range for a number of
   sub-identifiers; of a range that does not begin at 1 the wrong ones are unregistered.
5. `access_rules`: `vacm.c:896` goes on to the next rule when the kept entry has won one; an entry
   for any security model replaces one that matches the message's.
6. `columns`: `table_iterator.c:849` leaves the loop over the variables of a packet at the first
   that is at the end of the table; those after it are not moved to their next column, and if
   none before it was, they are answered from the next table (a GETNEXT of the last row of the
   last column and of the last row of another one, in this order). `NextInTable` holds for all
   others.
7. `unload`: `parse.c:882` unlinks a root only if it is the first of the roots; unloading the
   module of the roots leaves a freed one linked.
8. `callbacks_freed`: `callback.c:470` finds the lock count of the outer call when a callback
   unregisters itself or another in a nested call, and frees the node that the outer call goes on
   from.
9. `snmp_request.cpp:553`: a walk of column 1 goes on into columns 10 to 19, whose texts
   start with its own (`WalkInOrder` says exactly which siblings a walk may list).
10. `snmp_request.cpp:567`: instances whose value has no text are left out of a walk, and a
    GET of one is answered with a message that there is no such name (`:253`).
11. `types.h:295` calls `retries` the number of retries; a report notInTimeWindow resends
    while `retries <= session.retries`, once more than the timer (`snmp_api.c:5355`).
12. `indexes.cpp:96` places a value by the number of its column: with a gap in the numbers
    of the columns values stand under a neighbour's heading or in the next row. The run has no gap.
13. `snmp_alarm.c:460` says that reset resets an alarm; one that runs once and is reset in its
    own callback is removed all the same when the callback returns (`:216-231`, `:83-110`).
14. `snmp_alarm.c:433-445`: a signal during a registration finds an entry with time 0 and no
    callback yet, or frees the one it will be linked to; a registration by a callback
    between the two is lost.
15. `snmpusm.c:2154-2155` has every higher boots count remembered; the code first refuses any
    message once the recorded boots are at the maximum (`:2216`, which says so itself), and
    takes a message with the recorded boots and time for new (`:2228`).
16. `lcd_time.h:64` says the macro makes sure there is a record; it also sets its time to 0 for
    every message, if the record is not authenticated (`lcd_time.c:381`).
17. `read_config.c:1665-1675` removes the backups in the order in which a start reads them up to
    the first missing one (`:1287`): a crash between two removals, or one that is refused, hides
    the later ones until another file is renamed in front of them, and then they count as newer.
18. `snmpd.c:1228`: SIGHUP reads engineBoots again and increments them without storing them, as a
    start does (`:1086`); it does not read oldEngineID (`read_config.c:538`), so the first run
    sets them to 1 once more (`snmpv3.c:987`).
19. `read_config.c:1640` wants the backups removed after a successful dump; `snmp_store`
    (`snmp_api.c:892`) removes them also when a line of the new file could not be written, and a
    removal that is refused is only logged (`read_config.c:1672`): the users of that backup come
    back with the next start or SIGHUP. `NoUserComesBack` is of stores without such a refusal.
20. `agent_registry.c:1215-1230` copies the end of a range from a subtree that loading has
    shortened; `:1234`: a range that fails half way unregisters what another module had there.
21. `agent_registry.c:1714`: unregistering what is not registered returns with the lookup
    cache still switched off; the lookups go on without it.
22. `container_binary_array.c:836`: an iterator counts each of its removals, the container not
    the one of its last entry; after that the iterator refuses to go on, although `:832` says it is
    kept in sync, and a later insertion lets it go on over an array that is not sorted. `VisitsAll`
    is of iterators that agree with an undisturbed container.
23. `table_iterator.c:525`: one name `table.2` (beside the entry) makes the answer to all variables
    of the table in the same packet an error, if one of them has a column.
24. `form.cpp:112` and `:174`: a later line of a description that contains the word DESCRIPTION is
    added to the field twice. `Quiet`, the condition of `FieldsRight`, excludes it.
25. `agent_registry.c:1205` takes the first subtree of a range as a template for the rest, but
    copies it (`:1211`, `:493`) after it was loaded, with its `children`, `prev` and `next`. If a
    name below a later subtree is registered already, the copy is split before it has its own
    (`:929`), and `:727-734` make the registrations under the first subtree, and the region behind
    it, point into the later one. `FindsTheBest` is of registries without such a range.

`get_enginetime_ex` (`lcd_time.c:142` and after) is one second ahead once the time wraps, which
`NotAhead` allows for. An exception from a walk (`snmp_request.cpp:603`) leaves `run` and ends
the program; Form starts a GET without a current item, and a column walk twice
(`form.cpp:409`, `:416`). These are steps of `Browser`. An item that is taken for a table by its
name alone (`form.cpp:329-335`) and has no children makes the Indexes button end the program,
which `AsksForTheDescribed` excludes by its condition on `Tables`.

## 7. Not modelled, and the plan

The order of the modules was: the call and its session, the walk on top of it, the window
that starts both, then the tree and the index window, the library's alarms, clocks and
files; then the agent with its promise, its registry, tables and caches, the linker, streams,
callbacks, containers and access control. What is left, in the order of its weight:

1. In the agent: GETBULK, baby steps, the phases of a SET inside the table helpers.
2. Opening and closing sessions: the configuration in `form.cpp:463-562`, the engineID probe
   that blocks the GUI thread, sessions that nothing closes, and `~Form`, which shuts the library
   down while workers may run.
3. `snmpv3_local_snmpEngineTime` and the local case of the timeliness check.
4. Pure conversions against definitions: lengths and integers of BER, the texts of GET answers
   (`snmp_request.cpp:228-470`).

Left aside for good: lexing, parsing and printing of MIB texts and the coding of packets
(deterministic processing of texts and bytes, far more lines than state), cryptography and keys,
transports, logging and configuration lines (input and output), replacements of system functions,
headers, vendored code, and data races inside the library below the level of its calls. These are
most of the repository's 136k lines: the models cover 9k, those with state that more than one
actor or more than one step changes.
