# f8n: models, checks and proofs

f8n is a C++ library for small daemons and desktop programs: a message queue
with a loop thread, a log with a thread of its own, a daemon skeleton on libev,
preferences in JSON files, SQLite connections and transactions, an HTTP client
on libcurl, plugins, translations and some path and string helpers. It has no
tests and, besides a one-line `README.md`, no documentation: the code under
`src/f8n/` and its comments are the reference. Paths below are relative to the
repository; `MessageQueue.cpp:140` means `src/f8n/runtime/MessageQueue.cpp`.

This directory holds TLA+ modules that model the parts of f8n where threads,
files or failures interact, TLC configurations that check them on small
instances, and proofs checked by TLAPS for instances of any size.
`PROJECT.json` lists the runs, the lines each definition stands for, the
hazards in the code, and the theorems.

## Inventory

| Component | State it keeps | Operations | Hard part |
|---|---|---|---|
| Message queue, `runtime/` | time-ordered list, set of targets, set of weak receivers (all under `queueMutex`), the batch `dispatch` (loop thread only), the atomic `nextMessageTime` | Post, Broadcast, Debounce, Remove, Contains, Register, Unregister, RegisterForBroadcasts, UnregisterForBroadcasts, Dispatch, WaitAndDispatch | posts from any thread while the loop sweeps, handles and sleeps; methods of two sections; unlocked reads |
| Log, `debug/` | global `queue`, `thread`, `backends`, `cancel` under a recursive mutex; the queue's list and `active` under its own | Start, Stop, verbose/info/warning/error | a thread joined with a lock held, objects used without one, wakeups |
| Daemon loop, `daemon/daemon.h:56-112` | a pipe, a libev loop | Post, ReadCallback, Run, SIGTERM | two sources of wakeups (pipe, timers), a pipe that fills up, timers that are early |
| Daemon lifecycle, `daemon/daemon.h:114-283` | lock file, pid | start, stop, running | two starts at once, stale lock files, a pid used again |
| Preferences, `preferences/` | JSON values per component, caches of open components, files | Get, Set, SetDefault, Load, Save, ForPlugin, ForComponent, SavePluginPreferences | saving in destructors, crash while saving, unlocked caches |
| Transactions, `db/ScopedTransaction.cpp` | `transactionCounter` of the connection, `canceled` per scope | Begin, End, Cancel, CommitAndRestart | nesting, failures nobody looks at |
| Connections and statements, `db/` | SQLite handle, static reference count, statement | Open, Close, Execute, Step, Interrupt | the count's lock is per instance |
| HTTP client, `net/HttpClient.h` | thread, mode, cancel flag, set of running instances | Run, Cancel, Wait | cancel, wait and completion race |
| Plugins, `plugins/` | the instance, loaded plugins | Instance, LoadPlugins, QueryInterface, QueryFunction | callbacks under a lock, exceptions while loading |
| Locale, `i18n/` | selected and default strings | Initialize, SetSelectedLocale, Translate, Dimension | fallbacks when a file cannot be read |
| Schemas, `sdk/ISchema.h` | entries, the C strings they own | Add, AddInt, ..., FindByName, Release | who frees which string |
| Environment, file system, `environment/` | none | path and directory functions | directories made by several processes at once |
| Strings, `str/` | none | split, join, replace, copy | empty and boundary inputs |

How they interact. Applications own a message queue and call `WaitAndDispatch`
in a loop (or the daemon's libev loop calls `Dispatch`); handlers run on that
thread and call the queue again, other threads post to it. Everything may log;
`debug::Start` and `Stop` bracket the program. Preferences are handed to plugins
through `Plugins::QueryFunction`. Transactions are scopes on a connection. The
HTTP client runs callbacks on its own thread.

What makes each component correct: the queue hands over every message once, in
order, when due and to a registered target, and never oversleeps; the log writes
every entry once and in order and can be stopped and started at any time; the
daemon runs once and stops when told; preferences survive a crash with old or
new values; a transaction commits all or nothing; after
`Cancel` no callback of a request comes; SQLite is up while a connection is alive;
a query sees exactly the plugins that are enabled; the selected, the announced and
the saved locale are one; a string of a schema is freed once; a directory is there
when all who make it have returned.

## Modules

| Module | Models | Checked by | Proofs |
|---|---|---|---|
| `Mailbox` | what the queue promises its clients: an atomic mailbox | `ImplementsMailbox` in `queue_threads` | refinement, in `MessageQueueProofs` and `DaemonLoopProofs` |
| `MessageQueue` | `MessageQueue.cpp`, all methods that change state | five runs | `MessageQueueProofs` |
| `LogQueue` | `debug.cpp` from `Start` to `thread_proc` | two runs | `LogQueueProofs` |
| `DaemonLock` | `daemon.h:114-283`: the lock file, start and `--stop` | three runs | `DaemonLockProofs` |
| `DaemonLoop` | `daemon.h:56-112`, on top of `MessageQueue` | `daemon_loop` | `DaemonLoopProofs` |
| `HttpClient` | `HttpClient.h`: Run, Wait, Cancel, the worker | `services` | `HttpClientProofs` |
| `Transactions` | `ScopedTransaction.cpp`, with `Connection::Execute` and `Interrupt` | `services` | `TransactionsProofs` |
| `Connections` | the lives of `Connection.cpp` and `Statement.cpp` objects and the static count | `services` | `ServicesProofs` |
| `Preferences` | `Preferences.cpp`, with crashes and failing files | `services` | `PreferencesProofs` |
| `Plugins` | `Plugins.cpp`, `Plugins.h` | `services` | `ServicesProofs` |
| `Locale` | `Locale.cpp`, with files that change | `services` | `ServicesProofs` |
| `Schema` | `ISchema.h` | `services` | `ServicesProofs` |
| `Directories` | `CreateDirectory` of `Filesystem.cpp` | `services` | `ServicesProofs` |
| `MCMessageQueue`, `MCLogQueue`, `MCDaemonLock`, `MCDaemonLoop` | constants of the instances TLC checks | | |
| `MCServices` | the services side by side in one run | `services` | `ServicesProofs` |

Operators named as mutants in a comment (for example `StaysBehind` before
`StaysAhead`) are alternatives for the definition that follows them, each a
plausible bug in that code; no specification uses them. `PROJECT.json` says
which property fails when one of them takes the place of the original.

### MessageQueue

One critical section under `queueMutex` is one action. A client (a thread, or
the loop thread inside a handler or between two turns) calls a method; a method
with two sections (`Unregister`, `Debounce`) leaves the second one in
`pending[c]`, and anything may happen before it runs. The loop thread's path
through `WaitAndDispatch` and `Dispatch` is cut at each access outside the lock;
`pc` says where it is:

| `pc` | Code |
|---|---|
| `idle` | outside the queue, between two turns of the application's loop |
| `waiting` | in `waitForDispatch.wait` or `wait_until` (65-79) |
| `dispatch`, `check` | before reading the clock (88), before comparing with `nextMessageTime` (90-94) |
| `sweep` | before the section that moves due messages to the batch (98-127) |
| `next`, `handling`, `receivers` | in the loop over the batch (131-136), in a handler, between two receivers of a broadcast (306-314) |
| `size`, `front`, `store` | the tail without a lock (140-142): before `queue.size()`, before `begin()`, before the store |
| `crashed` | `begin()` of an emptied list has been dereferenced |

Times are integers, `now` advances one by one to `MaxTime`. Messages carry a
number given by `Enqueue`, which the code does not have: it lets properties tell
two equal messages apart. Undefined behaviour is a choice over its outcomes: the
node the tail holds may be freed, and its time is then any value; erasing from
the set of receivers, whose order changes when one dies, may take nothing, the
receiver, or it and others.

Bounds: `MaxTime` on the clock and on due times, `MaxPosts` on messages
accepted; both are guards marked `\* bound`.

`Mailbox` is the queue seen from outside: a set of pending messages, of which
`Deliver` hands over the earliest that is due. `Leave` of a target does not
promise that nothing arrives afterwards. The refinement maps the batch and the
list together to the mailbox's pending messages.

### LogQueue

Whoever is inside `Start`, `Stop` or `enqueue` owns the recursive mutex, so it
does not matter which of the clients it is: `mutex` tells what the owner is
doing. `Start` is two steps (`Start`, `Announce`) because the log thread runs
as soon as it exists, `Stop` is three (`Stop`, `StopQueue`, `FinishStop`). The
log thread goes through `loop`, `pop`, `waiting`, `visiting`, `writing` and, if
its backend logs, `calling`. An entry is its number in the session, its level,
and whether it is the one `Start` logs (tag `"LOG_SESSION"`). `written[b]` is
the last call backend `b` has seen in its session; the code has no such variable,
the backends have. Bounds: `MaxBackends`, `MaxEntries` per session; the number
of sessions is not bounded.

### DaemonLock

`proc[p]` says what runs under pid `p`: a start on its way through `daemon::start`
(`checking`, `starting`, `locking`, `writing`), a daemon (`running`, `quitting`),
a process of some other program, or none. `file` is the lock file: absent, empty
or a pid. There is one `--stop` command at a time; `stopAt`, `stopPid` and
`polls` are its local variables. `DaemonPids` is the set of results
`getDaemonPid` may return: from an empty file nothing is read into `int pid`,
which is not initialized, so the result is any member of the constant `Garbage`
that `kill(pid, 0)` answers for. Opening the file and writing the pid are two
steps because the stream is flushed when it is closed. A failing `fork`,
`setsid`, `chdir` or `pipe` ends the start, which `Crash` covers.

Two constants say what may happen around the daemon: `Exclusive` (nobody starts a
second one until the first has written its pid) and `PidReuse` (the pid of a
process that has ended is given again). A daemon that cannot open the lock file
runs all the same (`nameless`); no start can know of it, and the properties do
not count it. Bound: the set of pids, each given once without `PidReuse`.

### DaemonLoop

`EvMessageQueue` is a `MessageQueue` whose `Dispatch` is called by a libev loop.
The module EXTENDS `MessageQueue`: the steps of `Dispatch` are its actions, and
what waits there for the condition variable, waits here in `BeginTurn`. A turn of
the loop takes the time (`loopTime`), collects the callbacks that are ready
(`ready`, and `expired` timers), and runs them one by one: `ReadCallback`,
`DelayedDispatch`, `SignalQuit`. `EvPost` is the queue's `Post` followed by what
wakes the loop, an event for the pipe (`writing[c]`, which `WriteEvent` writes as
soon as there is room) or a timer. `ev` is `init` in `OnInit`, `running` in `Run`,
`ended` behind it. `Broadcast` and the registrations are not overridden and wake
nothing. What the code cannot avoid has names: `LoopBlocked`, the loop thread writing
to its own full pipe; `Silent`, a broadcast, or a message whose timer was started late
in a turn, counts from the turn's beginning, and may fire too soon; `Overslept`, a due
message with a later silent one in the list while the loop sleeps: the silent one's time
may have been stored over its own, or a broadcast, which wakes nothing, may have stored
another since. `Heard` is what wakes
the loop for a message: a byte in the pipe or about to be written, a timer, or the
loop already on its way to the sweep. `LoopHears` puts these together.

### HttpClient

One client, `Users` that hold it, and the runs of it. `user[u]` is where a user
is in `Run`, `Wait` or `Cancel`; `transfer[r]` is where a run is, on its worker
thread or, in `Current` mode, on the caller's: `perform` in `curl_easy_perform`,
`callback` before the call of the user's callback, `leave` and `erase` before the
two things a worker does at its end, giving up `thread` and erasing the client
from the static set `instances`. `destroyed` says the last reference is gone. What
the code leaves undefined - joining a thread that was just reset, erasing what is
not in the set - is `crashed' \in BOOLEAN`, and a destructor that joins its own
thread is a crash. `overtaken` marks the case in which a second `Run` has come
between the two last steps of a worker.

### Transactions

`scopes` are the `ScopedTransaction` objects alive, in any nesting and any order of
destruction; `transactionCounter` is the connection's. `db` is SQLite as the code
uses it: whether a transaction is open, what it has written, what is stored. BEGIN,
COMMIT and ROLLBACK may fail (`faults`; `Connection::Execute` returns the error and
`Begin` and `End` drop it), and `Connection::Interrupt` may meet a statement, which makes
SQLite roll back. A statement that fails changes nothing. `batch` numbers the stretches
from the counter leaving zero to its return; `written`, `undone`, `stuck` and `loose` are
history. A ROLLBACK that fails leaves what was canceled in the open transaction with the
counter at zero; `stuck` has its batch. The next scope's BEGIN fails inside that
transaction, and if it is not canceled its COMMIT stores the canceled writes with its
own. `CanceledIsUndone` says that this is the only way they get into the database.

### Connections

`life[c]` leads a connection through its constructor and destructor, each in two
steps, because `UpdateReferenceCount` reads and writes the static count under a
mutex that belongs to the instance: `read[c]` is what was read, and `raced` says
that two threads have been inside at once. A connection is not closed while it
has statements; `left_open` is a handle the destructor could not close.

### Preferences

An object is its mode and its JSON; `holders[o]` are the threads, or the
plugin cache, with a `shared_ptr` to it. The constructor loads the file. Saving is
two steps: `BeginWrite` opens the file and so truncates it, `EndWrite` writes, and a crash
may come between them. `CannotOpen` is the `fopen` that fails and leaves the file alone,
`WritePart` the `fwrite` that stores a part of the text, which does not parse; `Save`
ignores both, and so does everybody else. `Make` may find a file that it cannot read, and
then has no settings, which an object in ModeAutoSave saves at its end. With two writers (`mixed`) the file may end up as text that does not parse,
which reads as no settings. `SetDefault` is two sections of the object's mutex,
`Contains` and then `Set`. `latest` is what should be found next, less what such a
failure has taken: it is what was set last in ModeAutoSave or saved last in
ModeReadWrite, the file as it stands after a last save that could not open it, nothing
after a part was written, unless an object is there to save again, and `stored`, what the
last write has left, after a crash. A component is of a plugin (`ForPlugin`, a
strong cache without a lock, taken to be used by one thread at a time) or not
(`ForComponent`, weak pointers, one per mode).

### Plugins

`directory` is a sequence of entries, each of a kind that says what becomes of it:
a library with or without `GetPlugin`, of another SDK, one that throws or asks for
the instance again, a dangling link whose canonical name is empty. `LoadEntry`
is one turn of the constructor's loop with `instanceMutex` held, `ThrowOutOfLoop`
the exception that ends the loop and is swallowed; the entries behind it are not loaded.
A query holds the instance's mutex from `BeginQuery` to `EndQuery`; preferences may be set
between its visits. `asked` is what it asks for: any function, which some plugins have and
answer (`having`), of those that are enabled, or `GetPlugin`, for which `QueryInterface`
does not ask whether a plugin is enabled (`everyone`, `Plugins.h:84`).

### Locale

`disk` is what the files hold at the moment, `locales` what `Initialize` has listed
and so possibly out of date, `localeData` and `defaultLocaleData` what has been
loaded. `Select` is `SetSelectedLocale` as it is called by `Initialize` and by
users; `Translate` returns the locale whose string is used. `InitializeThrows` is
`fs::Filename` throwing at a file that was found and is gone, or is a link to nothing: the
path is new, the files before it are listed, and nothing has been selected.
`SetSelectedLocale` drops the old strings before it knows that it can load the new ones
(`Locale.cpp:117`): a word then falls to the default locale, although the selected one has
it, and `SelectedEverywhere` allows that. `ChangeFile` installs, spoils or removes a file, `Restart` is a new process.

### Schema

An entry of a `TSchema` owns the strings that its `Add` method has allocated,
members of a `heap`: the strings of one entry lie at one place, and the allocator
takes the first places that are free. `AddEntry` stands for the five `Add` methods,
which differ in the number of strings (`Needed`), `AddAll` copies all the entries of
another schema, `Release` runs the destructor, which frees them.

### Directories

`creator[c]` and `prefix[c]` lead a call of `CreateDirectory` along its path:
`LookForAll`, `Look` at the next parent, `MakeDirectory` of what was missing, with
others between the look and the `mkdir`. `beaten` says that somebody else had
made the directory; `slash`, that the path ends with one: then the last parent
is the path itself, and the final `mkdir` fails.

## Runs

| Run | Instance | Shows |
|---|---|---|
| `queue_threads` | 1 client thread and the loop, 1 target, a type that is posted and one that is debounced | posts, broadcasts, debounces, removes and registrations in every interleaving with the loop keep `UnregisterDrains`, `NoLostWakeup`, `HandledInOrder`; no more of a debounced message than callers: the two sections of `Debounce` are not atomic, and that is all it costs; the queue implements `Mailbox` |
| `queue_single_thread` | no client threads, all methods | `nextMessageTime` is exact when only the loop thread uses the queue; that the tail without a lock is then safe is a theorem (`SingleThreadTailIsSafe`) |
| `queue_liveness` | 1 client thread, 2 receivers | every message is handled: what the stale `nextMessageTime` strands, a later turn of the loop finds; receivers that stay get every broadcast; dead ones are pruned, although they collapse in the copy of the set |
| `stale_next_time` | 1 client thread | violation, see findings |
| `unregistered_in_batch` | no client threads | violation, see findings |
| `log_queue` | 2 backends that may log, 3 entries a session, 2 levels | every entry is written once and in order, after the one that opens the session, and nothing is freed in use. A backend that logs can keep `Stop` from returning, and nothing else can; that deadlock is reached, so deadlock is not an error of this run |
| `log_levels` | 1 backend | violation, see findings |
| `lock_one_start` | 4 pids, starts do not overlap, no pid is used again, an empty file reads as anything | at most one daemon has the lock file, the file names it while it runs, and what a crashed one leaves behind does no harm, unless the file is empty |
| `lock_two_starts`, `stop_wrong_process` | 4 pids, starts overlap; 3 pids, used again | violations, see findings |
| `daemon_loop` | 1 worker thread that posts, 1 target, a type that is posted and one that is debounced, a pipe of 2, clock of 2, handlers and `OnInit` post, broadcast, debounce, remove, register and unregister | whatever is in the list, something is left that will wake the loop for it (`LoopHears`), and so a posted message leaves the list although the loop is woken outside the mutex and one event stands for many messages; SIGTERM ends the loop; the exceptions are in the properties: SIGTERM itself, `Silent`, `Overslept`, `LoopBlocked` |
| `services` | see below | the properties of the eight services, each followed on its own |

The bounds are small but not idle. With two posted messages there are messages
at the front, behind it and with equal times; with a clock of two or three ticks the
front is overdue, due and in the future; one thread plus handlers on the loop
thread give two callers of every method, and what matters about a third is
covered by the proofs. Negative delays and timeouts are among the inputs (`OverdueOrSoon`,
`ForeverOrSoon`). Runs with client threads that remove messages can reach
`crashed` and stop there; they do not check deadlock. Four pids are a daemon, a
start with its parent and child, and another program; without `PidReuse` the
system stops when they are used up, and those runs do not check deadlock.

`daemon_loop` may stop, ended by SIGTERM or blocked by its own pipe, and does not
check deadlock. It has no receivers, so that a broadcast is handed to nobody:
their order is the subject of `queue_liveness`. A pipe of two events fills up
with two posts and the quit event; the real one holds some sixty thousand. Three
messages, which `Overslept` takes - one that is due, so that `Dispatch` gets as far as
the tail, a silent one that the tail finds in front, and one posted before that while
the tail stores its time - are not within this bound; `DaemonHearsPosts` covers them,
and any number.

`services` puts eight modules in one run. They share no state in the code, so a
behaviour picks one `service` and leaves the rest as they are; what TLC explores
is the sum of their state spaces, some 307 000 states, and the types and
properties of all are checked in each. Two users and two runs of the HTTP client
give a run that overtakes the worker of the one before, and both reasons to hold
the mutex. Two scopes nest, three batches and three writes let a failed COMMIT
or ROLLBACK leak into the next batch and the one after, two faults let both ends of a
transaction fail. Three connections are the two that race and one that suffers.
Two preference objects in each of three modes overlap; one key and one value tell set
from unset, and that is all `SettingsSurvive` compares. Three entries of a plugin
directory are one in front of, at and behind the entry that throws; kinds that
take the same path are left out (`no_entry`, `unloadable` and `not_so` go the way
of `other_sdk`). Two paths and two locales give a locale that one of them lacks.
Two schemas of two entries, at four places of the heap; `Bool` and `Double` own as
many strings as `Int`. Three callers of `CreateDirectory` for a path of three
components, of which any number exists. All of them may stop when their bounds are used up or their
users have left, and two of them by blocking for ever on purpose (a plugin that
asks for the instance it is loaded by, a crash): no deadlock check.

Fairness. `LiveSpec` of the queue says that the application goes on calling
`WaitAndDispatch` (its purpose), handlers return, a method that has started
finishes, and time passes. It does not assume that anybody posts, that waits
wake for nothing, or that the application calls `Dispatch` by itself. `LiveSpec`
of the log says that the log thread and a thread inside `Start` or `Stop` are
scheduled, and that a backend's method returns. Both are weak fairness: once
such a step is possible it stays so, except where another thread owns the mutex,
and there the property names the exception.

`EvLiveSpec` of the daemon's loop assumes that libev's loop goes on and handlers
and `OnInit` return (`SF` on `EvLoop`: strong, because a handler that registers
again and again takes the step away each time and would otherwise count as fair),
that a call that has begun is finished, a `write` to a pipe with room included,
and that time passes. `HttpFairness` says that a user inside a method goes on when the
mutex is free often enough (`SF`, because the mutex comes and goes), and that
a worker goes on, which includes libcurl looking at the cancel flag: `curl_easy_perform`
calls the progress callback at least once a second. It does not say that a transfer
ends by itself. The other services have safety properties only.

## Findings

- `stale_next_time`: `Dispatch` ends by reading the front without the lock and
  storing its time (`MessageQueue.cpp:140-142`). A `Post` from another thread
  between the two is overwritten by the older, later time, and the next
  `Dispatch` returns early with a due message in the list. `queue_liveness`
  shows that the message is delayed and not lost. In a daemon the stale time may be that
  of a broadcast, for which nothing wakes the loop (one case of `Overslept` of
  `DaemonLoop`): the message then waits for whatever is posted next.
- `unregistered_in_batch`: a target unregistered after the sweep is still handed
  its message (`MessageQueue.cpp:133`).
- `log_levels`: `debug::error` reaches `IBackend::verbose`
  (`debug.cpp:153-155`).
- `lock_two_starts`: the pid gets to the lock file long after `exitIfRunning`
  has looked there (`daemon.h:203`, `244-247`); two starts in between both
  become daemons. The parent of `--start` exits at the fork, so a script that
  runs it twice in a row can meet this.
- `stop_wrong_process`: any process that has got the pid of a crashed daemon
  passes for the daemon (`daemon.h:119`): `--stop` sends it SIGTERM
  (`daemon.h:134`), and no start succeeds until it ends.

Not a run, but read on the way: the `/* try for 7 seconds */` of
`daemon.h:137-141` is seven times half a second. `Locale::Dimension` ends with
`return defaultValue; /* not found anywhere */` (`Locale.cpp:173`), and throws before that
for a key that neither locale has, once the default locale is loaded: `key` is no number
(`Locale.cpp:170`). `stringToFile` compares the number of items written, one, with the
size of the text (`Preferences.cpp:100-102`), and so returns false for what it has written
too; nobody looks.

## Proofs

All theorems are of the form `Spec => ...` for the specifications TLC checks,
for every value of the constants that satisfies the named assumptions
`QueueAssumption`, `LogAssumption`, `LockAssumption` and so on (types are naturals,
delays and timeouts integers, the threads finitely many, the loop is no client
thread, and the like). Every invariant that a run checks is the subject of a theorem,
and so is every action property of a run that passes; the tables name what
a theorem assumes beyond the constants' assumptions.

`MessageQueueProofs`

| Theorem | Property |
|---|---|
| `TypeCorrect` | `TypeOK` |
| `HandlesInOrder` | `HandledInOrder` |
| `NoOrphans` | `UnregisterDrains` |
| `WakesInTime` | `NoLostWakeup` |
| `SingleThreadSkipsNothing` | `NeverSkipsDue`, if `Threads = {}` |
| `SingleThreadTailIsSafe` | `pc` is never `crashed`, if `Threads = {}` |
| `CoalescesDebounced` | `DebounceCoalesces` |
| `QueueImplementsMailbox` | `ImplementsMailbox` |

`HandledInOrder` is not inductive: it speaks of two handlers, and what lies
between them is the batch and the list. The invariant `InOrder` says that the
last message handled, the batch and the list are one ascending chain in (due
time, number), that every message of the batch was due when it was swept, and
that the clock has not gone back. `Enqueue` keeps it because a new message is
not due before now and has the highest number. `QueueImplementsMailbox` uses
the same chain: the head of the batch is the earliest of everything pending.
`NeverSkipsDue` needs `NextTimeIsFront`: while the loop thread is on its way to
the comparison, `nextMessageTime` is the time of the front. That is false with a
second thread, as `stale_next_time` shows, and the theorem assumes there is none.

`DebounceCoalesces` compares numbers, and `DebounceRoom` is what makes it inductive:
the messages waiting of a target and a type that are only ever debounced
(`Waiting`), together with the callers between `Debounce`'s two sections for them
(`Coming`), are never more than the threads. `DebounceEffect` says what any step can
do to the two sets - take from them, empty the list of the kind, or move one caller
from the second to the first - and the count follows from that alone. Since a
caller's Remove empties the list of the kind before the caller is on its way, there is
room for it.

`DaemonLoopProofs`

| Theorem | Property |
|---|---|
| `LoopUsesQueue` | the daemon's specification implies the queue's |
| `DaemonTypeCorrect` | `EvTypeOK` |
| `DaemonHearsPosts` | `LoopHears`, if `RemovesOnLoop` |
| `DaemonImplementsMailbox` | `ImplementsMailbox` |
| `DaemonLeavesNoOrphans` | `UnregisterDrains` |

Every step of the daemon's loop is a step of the queue or leaves the queue alone
(`LoopUsesQueue`), so that what is proved of the queue holds in a daemon; TLC checks
`ImplementsMailbox` and `UnregisterDrains` on the queue alone, in `queue_threads`.

`DaemonHearsPosts` is the safety half of `PostWakesLoop`: there is no state in which a
message is in the list and nothing is left to wake the loop for it. `LoopHears` alone
is not inductive, because a byte in the pipe is worth nothing if the `Dispatch` it
causes returns early. `StoredTime` says what `nextMessageTime` is worth at each place
of `Dispatch` - at the tail, no later than any message that is heard by nothing else -
and `Heeded` says of each message who wakes the loop for it and that the loop will then
get past the early return. The assumption `RemovesOnLoop` (client threads neither
unregister, debounce nor remove) is what keeps the tail, which reads the list without a lock,
from reading an emptied one: with a client thread that removes messages `crashed` is
reached, in `queue_threads` too.

`LogQueueProofs`

| Theorem | Property |
|---|---|
| `TypeCorrect` | `TypeOK` |
| `NothingFreed` | `NothingFreedInUse` |
| `SessionFirst` | `SessionComesFirst` |
| `InOrder` | `WritesInOrder` |

They rest on one inductive invariant, `IInv`: `Phases` (which flags go with
which stretch of `Start` and `Stop`), `Numbered` (the queue holds the last
entries accepted, numbered through) and `Progress` (the backends have been given
exactly the entries that left the queue, except the one on its way). The proofs
cover backends that log from the log thread.

`DaemonLockProofs`

| Theorem | Property |
|---|---|
| `TypeCorrect` | `TypeOK` |
| `OneAtATime` | `OneDaemon`, if `Exclusive` |
| `DaemonIsFound` | `LockNamesDaemon`, if `Exclusive` |
| `StaleLockIsHarmless` | `NoneFoundIfNoneRuns`, if `~PidReuse` |

`OneDaemon` and `LockNamesDaemon` need each other: the second start is refused
because the file names the daemon (`FindsDaemon`), and the file goes on naming
it because nobody else gets as far as opening it. With `OneStart`, which
`Exclusive` gives, they are inductive, for any reuse of pids and any `Garbage`.
`lock_two_starts` shows what happens without `Exclusive`. `NoneFoundIfNoneRuns` rests
on `FileIsOwn`: the pid in the file is that of a process that was a daemon once, and
if no pid is given again, nothing else has it. With reuse it is false, as
`stop_wrong_process` shows.

`TransactionsProofs`

| Theorem | Property |
|---|---|
| `BatchesAllOrNothing` | `AllOrNothing` |
| `CanceledBatchesUndone` | `CanceledIsUndone` |
| `TransactionOpenWhileScoped` | `OpenWhileScoped` |

`AllOrNothing` speaks of what is stored; it is inductive together with the same
statement about what is pending (`Whole`), because a COMMIT or ROLLBACK that failed leaves
a whole batch pending for the next one to take along. What is pending of a canceled batch
is `stuck`, and what is stored of one has been `Outlived`: a later batch that was not
canceled has ended, and stays ended (`OutlivedStays`). It also goes with the writes of the
batch that goes on all pending and none stored (`Current`). `Begins` says that
nothing is written for a batch that has not begun, `TransactionsTyped` that the counter
is the number of scopes, `Counted` that without failures it is SQLite that follows the
counter. All of it holds for any finite set of scopes and any number of failures.

`ServicesProofs`

| Theorem | Property |
|---|---|
| `OneLocale` | `SelectedEverywhere` |
| `SqliteStaysUp` | `UpWhileAlive` |
| `QueriesAreExact` | `QueriesSeeTheEnabled` |
| `LoadsAllOrUpToAThrow` | `AllOrUpToTheFirstThatThrows` |
| `OneOwner` | `StringsHaveOneOwner` |
| `FoundIsStable` | `FoundStaysFound` |
| `DirectoryMade` | `MadeWhenAllReturned` |
| `EachIsItself` | the specification of `MCServices` implies that of each service |
| `ServicesTypeCorrect` | `TypeOK` of `MCServices` |

`OneLocale` needs an invariant that ties the loaded data to the selected locale; an
`Initialize` that throws disturbs neither.
`SqliteStaysUp` needs one about the count on the way through a constructor or
destructor: as long as nobody has `raced`, one thread at most is inside, what it has
read is what is there, and the count includes a connection until its destructor is done.

`QueriesAreExact` says of a query under way what it has seen of the plugins it has
reached (`Seen`, by what it has asked for), and that nothing is loaded meanwhile. `LoadsAllOrUpToAThrow` needs the
same of the loading (`LoadedUpToNext`): the instance has the good plugins in
front of the next entry, each once and in order, and no library besides theirs is
open but that of an entry that threw.

`OneOwner` and `FoundIsStable` rest on `SchemaIInv`: entries of one schema do not share
strings (`Disjoint`), schemas neither, and the heap is what they own. `Build` keeps it
for whatever is `Fresh` - entries at places of their own, taken from free ones - and
`AddNewIsFresh` and `AddAllIsFresh` show that both methods add such entries.
`FoundIsStable` also needs that the first entry of a name is still the first when more
are appended (`ConcatFirsts`).

`DirectoryMade` holds for a path of any length and any number of callers. The
invariant says that a caller on its way has all the prefixes behind it (`Passed`),
and that, where somebody has been beaten or is about to be, the path is complete or
there is a caller at the first prefix that is missing (`Frontier`): of those who
meet at a prefix, the one who makes it goes on.

`ServicesTypeCorrect` puts together one lemma a service. The types are not obvious
everywhere: that the run assigned to a client's `thread` exists needs that one has
begun (`SomeStarted`), and that the counter of scopes is a number needs
`TransactionsTyped`. `EachIsItself` carries all these theorems over to the run.

`PreferencesProofs`

| Theorem | Property |
|---|---|
| `OneObjectPerMode` | `OnePerMode` |
| `SettingsAreFound` | `SettingsSurvive` |

`OnePerMode` follows from `InCache`: of a component that is no plugin's, the cache
points at every object that somebody holds, because a new one is entered when the
old one cannot be locked. `SettingsSurvive` rests on `OneSaves` - while nothing has
clashed there is one object at most that saves, and whoever writes the file holds
it - and `HasLatest`: either an object in ModeAutoSave lives and has the latest
settings, or none does, and the file has them or the only writer is about to write
them; what a save that fails takes is out of `latest` from that step on. `FileStored` is what a crash relies on.

`HttpClientProofs`

| Theorem | Property |
|---|---|
| `WorkersKeepTheClient` | `AliveWhileWorking` |
| `CancelIsFinal` | `NoCallbackAfterCancel` |

A worker takes no lock, and yet a run that has not given up the client's thread can
always be reached (`Reachable`): it is the last one that began, and it can be
joined or its user has the mutex inside `Run`. So whoever has the mutex and finds
nothing to join, or has joined, leaves no run on its way behind. `KeptAlive` needs
that runs do not overlap, which is what `overtaken` excludes.

Only model-checked: liveness (`EventuallyHandled`, `BroadcastReaches`, `DeadArePruned`,
`EventuallyWritten`, `OnlyReentryBlocksStop`, `PostWakesLoop`, `TermEndsLoop`,
`CancelReturns`), which the prover cannot do.

## Not modelled

- Queue: handlers that throw or call `Dispatch`; a system clock that is set back;
  `Contains`, which only reads; the user data of messages; registering the same
  receiver twice while the set's order is broken.
- Log: backends that call `Start` or `Stop` themselves; the backends `Start` drops
  when a session is under way (a leak); file and console output.
- Daemon's lifecycle: two `--stop` commands at once, processes of other users,
  negative pids read from an empty file (process groups), signals of the
  application's own.
- Daemon's loop: `Post` with a delay from another thread, which starts a timer on
  a loop another thread runs in, a data race; system calls that are interrupted or fail
  (`read` that returns -1 leaves `type` uninitialized, `daemon.h:83`).
- HTTP client: `Run` and `Canceled` cannot be instantiated as they are written
  (`userAgent` and `canceledCb` are not members, `HttpClient.h:228`, `381`), so the
  model follows what they say; `canceledCallback` is never set. The cancel flag is
  never reset, so the next `Run` of a canceled client is aborted too: that is in
  the model. Setters, headers, and callbacks that call the client are left out. One
  curl handle a run is lost when a client is used again.
- Connections: what a statement steps through, binds and reads; `modifiedRows`,
  which nothing sets; texts bound without a copy; a second `Open` of the same
  connection, which loses the first handle.
- Preferences: `GetKeys`, which reads without the mutex; `Release` and
  `Unmanaged`; the raw pointers `LoadPluginPreferences` hands out; `dump()` that
  throws in a destructor; names of plugins that differ in case only and share a file.
- Plugins: a handler that queries again, which waits for its own thread's mutex;
  the destructor, which never runs; what plugins do.
- Locale: files that parse to something other than an object of strings;
  `Dimension`, which only reads, from the same two files as `Translate`.
- Schema: a schema added to itself, which never ends; limits and default values.
- Environment and file system besides `CreateDirectory` and reading a file, and
  strings: single calls of the system or functions of one string, without state.

The components marked `partly` or `not_modelled` in `PROJECT.json` name what is
left out and why.

## What could follow

1. The set of broadcast receivers with its order explicit, in a module of its own that
   refines the choice `UnregisterForBroadcasts` makes now.
2. An abstract specification of the log (a session's entries, each written once, in
   order) that `LogQueue` refines, and the proof of it from `LogQueueProofs!IInv`.
3. Handlers that throw, which leave the batch behind.
