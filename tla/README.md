# A TLA+ model of ArmaDebugEngine

ArmaDebugEngine is a DLL that is loaded into Arma 3. It hooks the game's script
virtual machine, sees every SQF instruction before it is executed, and halts
the game at breakpoints, steps, pause requests and script errors. Debug clients
talk to it over a WebSocket. This directory holds a model of it, the
model-checking runs and the proofs about it. Paths below are relative to
`src/BIDebugEngine/BIDebugEngine/`.

## The system

Three threads matter.

* The **script thread** is the game's own. The hooks call
  `Debugger::onInstruction` for each instruction, which may end up in
  `BPAction_Halt::execute` (breakPoint.cpp:223): it calls `onHalt`, waits on a
  condition variable in slices of one second, keeps the engine alive between
  them, and calls `onContinue` when its flag is set.
* The **error-handler thread** (EngineHook.cpp:653) polls `waitForErrorHandler`
  and halts in the script thread's stead while that one spins.
* The **network thread** (NetworkController.cpp:30) runs the WebSocket server:
  its open, close and message handlers, one at a time. With `ExecuteCode` it
  evaluates SQF itself.

They share members of the global `Debugger`: `state`,
`breakStateContinueEvent`, `breakStateInfo`, `stepInfo`, `exceptionFilter`
without a lock, `breakPoints` under `breakPointsLock`, and the connection set
under `m_connection_lock`. A thread other than the game's needs the invoker lock
of the Intercept host to run script commands; the game holds it during scripts
and gives it up between frames. Other plug-ins' threads may ask for a stack dump
(`dumpStack`), through the same flag as script errors.

### Components

| component | state | operations | correct when |
|---|---|---|---|
| halt and resume (Debugger.cpp, breakPoint.cpp) | `state`, `breakStateContinueEvent` and its flag, `breakStateInfo` | `execute`, `onHalt`, `onContinue`, `commandContinue` | a halt lasts until it is told to end and then ends; no release is carried over; no pointer is followed that the other thread has reset; `state` tells the truth |
| connections (WebSocketServer.cpp, NetworkController.cpp) | `connections`, `clientConnected` | open, close, send | nobody connected means nothing stays halted |
| breakpoint registry (NetworkController.cpp, Debugger.cpp) | `breakPoints`, `breakPointsLock`, `currentCount` | add, delete, clear, look up, trigger | one hit per statement; complete deletes; periodic hit counts; commands never wait for a halted game |
| stepping (Debugger.cpp:461-489) | `stepInfo` | arm, decide at each instruction | step over stays out of called code, step out leaves the frame, a step ends with its script |
| commands and locks (NetworkController.cpp, WebSocketServer.cpp, Debugger.cpp:329-386, 740-927) | `m_connection_lock`, the invoker lock, `clientConnected` | every command, broadcasts | no lock is taken twice; nobody waits for a thread that waits for him; script commands run beside no script |
| error handshake (EngineHook.cpp:653-661, 797-806, 845-857) | `waitForErrorHandler`, `exceptionFilter` | hand over, filter, answer, dump | each error is judged once, by the filter the client set; everybody is let go |
| script hooks (EngineHook.cpp:700-816) | the filter of the last instruction | per-instruction filter, error, assert, halt, echo | one call per source line |
| script text (Script.cpp) | none | text of one file, column | the lines shown are the script's lines |
| hook installation (dllmain.cpp, EngineHook.cpp:451-649) | code pages, `HookIntegrity` | pattern scan, patch, report | each pattern is found where it is; hooks return; the report is true |
| serialization, assembly interface, tracker, pipe server, test windows | none that matters here | | |

`PROJECT.json` lists them all with their status, and the hazards of each at
their lines.

## The modules

| module | models |
|---|---|
| `HaltContract` | what halting promises, seen from outside: halt, serve a command, release, resume, or fault |
| `HaltProtocol` | the two threads around a halt, one action per access to a shared variable |
| `HaltProtocol_proofs` | theorems about it |
| `MCHaltProtocol` | its instances for TLC |
| `BreakpointTable` | what the registry promises: a table that commands change at once and each statement looks into once |
| `Breakpoints` | the registry, the lookup on copies, hit-count conditions |
| `Breakpoints_proofs` | theorems about it |
| `MCBreakpoints` | its instances for TLC |
| `Stepping` | where a step command stops: filter, decision, arming, over the callstacks of the virtual machine |
| `Stepping_proofs` | theorems about it |
| `MCStepping` | its instances for TLC |
| `ErrorContract` | what the error handshake promises: rounds of requests, each judged exactly once |
| `ErrorHandshake` | the error flag between several threads and the handler, the filter, nested halts |
| `ErrorHandshake_proofs` | theorems about it |
| `MCErrorHandshake` | its instances for TLC |
| `Commands` | every command of the clients, connections that close, and the two locks |
| `Commands_proofs` | theorems about it |
| `MCCommands` | its instances for TLC |
| `ScriptText` | cutting one file out of the preprocessor's output; columns |
| `ScriptText_proofs` | theorems about it |
| `MCScriptText` | its instances for TLC |
| `Hooks` | scanning for patterns, writing jumps, reporting |
| `Hooks_proofs` | theorems about it |
| `MCHooks` | its instances for TLC |

`HaltProtocol`, `Breakpoints` and `Stepping` look at one concern of the script
thread each; `ErrorHandshake` and `Commands` put halts, continues and the other
threads together again, with a halt as one or a few steps, because how the two
threads meet inside it is settled by `HaltProtocol`. The modules overlap on
`state` and the event only, and give them the same meaning.

### HaltProtocol

`pc["engine"]` walks through the code of the halting thread:

| labels | code |
|---|---|
| `startup`, `started`, `run`, `checkStep`, `checkBreak` | `onStartup`, `onInstruction` and the tests of `checkForBreakpoint` |
| `publish`, `setState`, `setInfo`, `sendHalt`, `checkClient` | the assignments of `onHalt`, Debugger.cpp:530-592 |
| `test`, `park`, `blocked`, `alive` | the wait loop, breakPoint.cpp:249-263; predicate and blocking are separate steps because the other thread sets the flag without `waitMutex` |
| `dropEvent`, `dropInfo` | `onContinue` |
| `cc...` | `commandContinue`, Debugger.cpp:619-640, which both threads run: `CommandContinue(t)` |

`pc["net"]` is `idle` between handlers. `opened`, `closed`, `qState`, `qInfo` are
the points inside the connection slot and the queries. The script error path
runs on another thread, but only while the script thread spins, so "engine"
stands for both of them.

`event` says that `breakStateContinueEvent` is not null and `second` is the flag
of the current halt; since a late command goes through the shared pointer, it
always reaches the current one. `info` is `null`, `bare` (halted without an
instruction: pause, error, script command) or `live`. Following a null pointer
sets `crash` and stops everything.

`note` is what a client knows: a halt notification is open, `sent` or `seen`. Its
lag stands for the delay of messages in both directions. Client policy is a
parameter: `Eager` clients send commands whenever they like, the others answer a
halt once, after they have seen it (a pause is sent while they believe the game
runs); `MayDisconnect` lets connections close; `LateAttach` lets them open while
scripts run. A client may connect as soon as `onStartup` has started the network
thread, and so before `onStartup` sets `state` (Debugger.cpp:525-526): a pause it
asks for then is overwritten. `PauseIsKept`, checked and proved for all clients,
says that nothing else but a halt or a command drops one.

Assumed: the compiler and the processor keep the order of the accesses
(sequential consistency); the code's plain members do not promise that.
Abstracted: the content of messages, the target of a step (it may be reached at
any instruction; see the plan), the breakpoint lookup (any instruction may hit).

### Breakpoints

`breakPoints` is a function from lower-case names to sets of breakpoints; a name
is a path and whether it is spelled with capitals. The engine walks through
`empty`, `lock`, `lookup`, `trigger` (and `halted`) as the tail of
`checkForBreakpoint` does; each command of the network thread is received,
waits for the lock and updates the registry. `EngEmpty` reads the registry
without the lock, as the code does. The records keep an identity, so that copies
of a replaced breakpoint can be told from the registered one; `currentCount` is
kept per identity because the copies share the condition object. `passes`, `hits`
and `lateHits` are history. Whether an erase with capitals finds its key depends
on the hash of the external string class, so both outcomes are allowed.

`TableOf` reads the registry as the table of `BreakpointTable`: at each place (a
lower-case name and a line) the identities on that line. An instruction asks
from `EngInstruction` until `EngLookup`; if `EngEmpty` finds nothing it has looked
the table up right there. That commands change the table in `NetUpdate`, between
the two, is all a client can notice of lists, copies and lock.

### Stepping

The sequential side of a step, on the script thread. `callstack` has the frames
of each context with their document, line and what `allowStepInto` reads of
them: the name of the instruction before `_ip`. Below the top that is the
instruction which opened the next frame: one of the two calls that
Debugger.cpp:241 names (`Calls`), of which `allowStepInto` knows one, or an
operator with code of its own. At the top, or with `_ip` at 0, it may be anything
and the model leaves it open. The moves `Start`, `Advance`, `Call`, `Scope`,
`Return` and `Finish` are the virtual machine's and external; each but the last
shows one instruction (`pc = "hook"`). `Reported` is the filter of
`_scriptInstruction` (EngineHook.cpp:755), `StepTarget` and `AllowStepInto` are
the step test of `checkForBreakpoint` with its helper, `Armed` is what
`commandContinue` records, truncation included. `HaltForPause`, `HaltForStep`,
`HaltAtBreakpoint` (any reported instruction may have one) and `HaltByScript`
are the ways to halt; a halt ends with `Continue` or `StepCommand`; `LateCommand`
is either of them at a running script. A halt is atomic here: how its two threads
meet is `HaltProtocol`.

Nothing is taken for granted of the scripts: contexts may execute the same
compiled text, a scope may be written on the line of its operator, and a context
may have the address of a finished one. What the code makes of that is in the
properties. `StepOverStaysOut` names the two ways in which a step over gets into
called code: by a unary call, and by a call from a scope of which the filter has
shown nothing. The second needs the history variable `skipped`, which says that an
instruction above the stepped frame was hidden. The bookkeeping items of loops
count as part of the scope they open.

### ErrorHandshake

`pc` says what each thread does. A requester (`script`, a plug-in, or `net` while
it executes code) is at `spin` in the loop of EngineHook.cpp:804 or 852. The
handler goes `poll`, `connected`, `judge`, perhaps `halted`, `reset`: the loop of
653-661 with the two tests of `onScriptError` (Debugger.cpp:404-414) taken apart,
because the network thread rewrites the filter and the connection between them.
`net` is at `filter` while `SetExceptionFilter` sets bit by bit what it has
cleared, and at `exec` while it runs the code of `ExecuteCode`.

Halts nest: the handler and `net` may halt while the script thread is halted.
`event` is the thread whose halt `breakStateContinueEvent` belongs to, `released`
the threads whose own flag is up; `Resume` is the end of the wait loop with
`onContinue`, which drops the event whosever it is. `unjudged`, `asked`, `cut` and
`nested` are history. With no client an error is not judged but dumped, as in the
code; `errorType` is the evaluator's, one for all threads.

In `ErrorContract` a round is open while the flag is up, the spinning threads wait,
and the verdict has been given once the handler is past `connected` or `judge`.
A thread that joins after the verdict shares it, as in the code; one that has not
seen the flag go down before it is raised again waits for another round.

`Nice` clients send `ExecuteCode` in a halt only, as the comment on
NetworkController.cpp:205 asks for (the code does not test it).

### Commands

Every command of `incomingMessage`, by what it does to locks, state and threads:

| kind | commands |
|---|---|
| `plain`, `silent`, `bad` | those that answer from the debugger's own state; those that do not answer; text that is no JSON |
| `continue`, `haltNow` | themselves |
| `loadFile` | LoadFile, and FetchAllFunctionsInNamespace without the profile namespace: one invoker lock, held until the answer is out |
| `functions` | FetchAllFunctionsInNamespace with it: the handler's invoker lock (NetworkController.cpp:266) and a second one inside (Debugger.cpp:885), each after a test of `state` of its own |
| `available` | getAvailableVariables: the lock is given back before the answer |
| `profile` | getVariable of a profile variable: in a halt, the lock without a test |
| `execute` | ExecuteCode: neither a lock nor a test; the code may halt, on the network thread |

A broadcast is `lock`, then one `SendOne` per connection, then `SendEnds`;
`server.send` throws for a connection that is closing (`PeerCloses`), which ends
the process on the game thread, turns into an exception message on the network
thread, and ends the server if that message throws again. `needInvoker` and
`waitInvoker` keep apart the test of `state` and the wait that it decides about,
`needAgain` and `waitAgain` those of the second lock; `guards` are the
`invoker_lock` objects of the network thread, the last of which gives the lock
back. Whether the host gives a thread the lock a second time is not to be seen
here: `Reentrant` is a constant. The runs set it; if it is FALSE, TLC finds the
network thread waiting for itself in `functions` (`NoCircularWait`).

A halt of executed code ends with its wait (`codeWaits`), which nothing ends; what
it sends and how it nests is in `ErrorHandshake`. `Entangled` names the two cases
in which the network thread waits for what only it could bring about: that wait,
and a profile variable asked for in a halt. `NoCircularWait` and `NetReturns` say
that there are no others. `NoWaitInHalt` says so of the invoker lock, and
`EngineExclusive` that script commands run beside no script, executed code of
clients that are not `debug` excepted.

Clients behave in one of four ways, fixed for a session. `debug`: they attach
before scripts run, send no pause, and continue, use the engine or execute code
only when the last they were told is that the game has halted. `pause`: they
pause, continue and execute code whenever they like, but use no command that tests
`state` for the invoker lock. `browse`: nothing halts, no pause is sent, and they
ask for anything. All three ask for profile variables at any time. `careless`: none
of these. The properties hold for the first three; for `careless` clients TLC
refutes `NoWaitInHalt` (with `loadFile`: the run `load_file`).

### ScriptText

A document is a file `a` of up to `MaxLines` lines, text, blank or an include of
`b`, whose includes are of a one-line `c`; `Content` is what the preprocessor makes
of it (external, from the comments and tests of the code). After an include it
continues with the number of the next line (`goesBack = "next"`) or of the include
line itself (`"same"`, the case Script.cpp:73-75 describes); a script may also be
compiled from a plain string, and the output may be appended to a line of no file
(`appended`). The position asked about may be before the first directive and have
no file name; then the first file named is the wanted one (`needSourceFile`). One
step is one call of the closure `readLine`:
`ReadLineMacro` with `RemoveEmptyLines`, or `ReadText`. `curPos` is the number of
the line it is in. `LineOffset` is `getScriptLineOffset` on characters.

What the properties had to leave out says as much as they do: `Named` (without a
file name in the position, what comes before the first directive is put out or
removed again, and a line `#include` is put above the file), `CanRewind` (the
numbers never run back, or there is an empty line before the first include: else
`removeEmptyLines` eats the first line's text and the rest shifts), `Once` (a file
included twice is put out twice), the first line of a plain string (its columns
are one short from the second on), and a terminating NUL that is always appended.
Lines end in one character: with "\r\n" the directives are read alike, but
`removeEmptyLines` looks for two "\n" in a row and would find no empty line.

### Hooks

One step of `Scan` is one position of `findPattern`. `UseMatch` is what placeHooks
does with a match: remember a function, or write a jump of `PatchLength` cells
(`Write`) and remember where the hook returns (`jmpBack`). `NoMatch`, `Report` and
`StartAgain` are the failure, the message and the second caller of placeHooks.
`Claimed` are the flags that are set although nothing was looked for
(EngineHook.cpp:588-595); `handlers` counts the error-handler threads, one more for
each call. `Debugger::onStartup`, which both callers run after placeHooks, is in
`HaltProtocol`, once. The
list of patterns is a parameter; `needs` is the test that leaves a pattern out if
another one was not found. `Fits` says that patterns lie in code long enough for
the jump (external). The image is bytes from a small set; nothing else runs while
hooks are placed.

## The runs

| run | instance | shows |
|---|---|---|
| `halt_attached` | one patient client, which attaches during start-up or after it, all commands | no crash; the client is told the truth; steps stay armed; each answered halt ends although the wake-up can be lost |
| `halt_sessions` | two eager clients that come and go | the contract is implemented, pauses are kept but at start-up, no dangling instruction, no game frozen with nobody connected |
| `breakpoints` | one file, two lines, counts 0 and 2, two adds, four instructions | the table is implemented; one trigger per line; periodic hit counts; one late hit at most; commands finish in a halt |
| `stepping` | one context of up to three frames, one of a single frame, one document of two lines, both kinds of calls | a step over stays out of called code, but for unary calls and calls from a scope the filter has hidden |
| `error_handshake` | a script, one plug-in, `net`; one error type; halts and executions anywhere | the contract is implemented: nobody is let go before the round is judged; the handler always works for a waiting thread; the filter is one the client asked for; a lone waiter is let go; only nested halts can lose their event |
| `commands` | two connections, all commands, three kinds of clients | no circle of threads that wait for one another, over locks or a halt, but the two entanglements; script commands run beside no script, executed code of impolite clients excepted; one halt at most overtakes an acknowledgement; the network thread comes back unless it is entangled |
| `script_text` | all files of three lines that include files of two | line numbers for positions with a file name, no foreign text, columns |
| `hooks` | all images of eight bytes over two values, four patterns, placeHooks twice | scans are exact, hooks return, the report is true of what was looked for |
| `disconnect`, `hitcount`, `execute_error`, `load_file` | one client, one breakpoint | what was found (below) |

Bounds. The halt protocol has a finite state space for every `MaxConns`; two
connections are enough because the code only asks whether the set is empty. In
`Breakpoints`, `MaxAdds` bounds the breakpoints ever made and `MaxInstructions`
the instructions executed: two adds give a replacement, a duplicate attempt and
two lines of a file; four instructions give two periods of a count of two.

`Stepping`: three frames are the least in which a scope, a call from it and the
stepped frame differ; two lines tell the same line from another; the second
context needs one frame to disturb the filter of the first, and one document is
the case in which it can.

`ErrorHandshake` has three requesters: two are needed for one to join the flag of
another, and the third is the network thread, which can be stuck itself. One
error type and "ok" give four filters. One client connects at a time, and an
execution meets at most one error or halt. `Commands` needs two connections for a
broadcast that throws after it has reached one. `ScriptText`: three lines hold an
include with a line before and behind it, or two includes and a line; two lines of
the included file hold an include of its own and a line. `Hooks`: eight positions
hold every pattern (two or three bytes), two jumps of two cells and a rest; the
four jobs are a jump beside its pattern, a function, a jump inside its pattern
that needs the function, and a pattern with a wildcard.

`CHECK_DEADLOCK FALSE` is given where a crashed process stops for good
(`HaltProtocol` with pointers followed, `Commands`), where the system is done
(`ScriptText`, `Hooks`, which are sequential and end), and in `ErrorHandshake`,
where the threads may wait for one another for ever: the finding `execute_error`.
The runs `halt_attached`, `breakpoints` and `stepping` check for deadlock.

Fairness. The operating system schedules both threads and the wait times out
after a second: `WF_vars(EngineNext)`, `WF_vars(NetNext)`. Nothing is assumed of
users: nobody has to connect, look at a halt, answer it or leave. In
`Breakpoints` the engine's work and the update are weakly fair; the writer's
lock is strongly fair because a `shared_mutex` that is released over and over is
eventually given to a waiting writer; leaving a halt (`EngContinue`) is not fair
at all, which is what makes `CommandsFinish` interesting. In `ErrorHandshake` each
thread's own steps are weakly fair, and so is the end of an execution; errors,
breakpoints and all commands need not happen. In `Commands` the steps of a
broadcast and of the network thread, and the frames of the game, are strongly
fair: neither `m_connection_lock` nor the invoker lock is given to the other
thread for ever, because a frame's scripts end and the host lets a waiting thread
in between frames. Halts are free there, so the wait for the invoker ends only
because a client of these kinds does not wait in a halt. `Stepping`, `ScriptText` and
`Hooks` state no fairness: nothing is claimed to happen eventually.

## What was found

Each has a run that shows the trace and an entry under "findings".

1. **Two continues for one halt** (`disconnect`). When the last client leaves
   during a halt, the engine's own continue and the close slot's race, and one
   follows the event pointer after `onContinue` has reset it.
2. **Hit count** (`hitcount`) is counted on a copy.
3. **Executed code that stops** (`execute_error`). An error, a breakpoint or a halt
   in the code of an `ExecuteCode` makes the network thread wait for a continue
   that only it could receive.
4. **Waiting for the engine** (`load_file`). LoadFile reads `state` before it
   waits for the invoker lock; a halt in between keeps the lock for good.

### Other disagreements

TLC refutes these too. They have no run of their own; to see the trace, take the
constants given here and name the property as INVARIANT or PROPERTY.

| what | module, property | constants |
|---|---|---|
| A query too early: `onHalt` publishes `breakState` before the instruction, a query in between dereferences null | HaltProtocol, `NoNullDereference` | `disconnect`'s, with `Requests = {"query"}`, `Eager = TRUE`, `MayDisconnect = FALSE` |
| A continue too early: between the script thread's test of `waitForHalt` and `onHalt` it is lost as a continue and leaves `state == breakState` behind while scripts run; the next query dereferences null | HaltProtocol, `BreakStateEnds` | `disconnect`'s, with `Requests = {"continue", "haltNow"}`, `Eager = TRUE`, `MayDisconnect = FALSE` |
| A pause that crosses a halt notification overwrites `breakState`; the client sees the halt and is refused its queries | HaltProtocol, `SeenHaltServesQueries` | `disconnect`'s, with `Requests = {"query", "haltNow"}`, `MayDisconnect = FALSE` |
| clearFileBreakpoints uses a name that was not lower-cased | Breakpoints, `KeysAreLowered` | `hitcount`'s |
| A pause asked for while `onStartup` runs is overwritten by it (NetworkController.h:17: "Triggers halt on next possible instruction") | HaltProtocol, `EarlyPauseIsKept` | `halt_attached`'s |
| A step over into a call (Debugger.cpp:441-450): of a unary call, whose name `allowStepInto` does not compare with; and in `if (a) then { call b }` on one line, where the scope is not reported when it opens, so the first instruction reported is in `b` and the stepped frame still says "scope" | Stepping, `StepOverIsNoStepInto` | `stepping`'s |
| A step over on the spot: it halts on its own line again after other code was reported in between | Stepping, `StepOverLeavesLine` | `stepping`'s |
| A step misses its stop: one filter serves all contexts, and another one has just executed the same line of the same document | Stepping, `StepIsNeverMissed` | `stepping`'s |
| Executed code runs beside the game's scripts unless its client waits for a halt (NetworkController.cpp:205: "please be nice") | Commands, `EngineNeverShared` | `commands`' |
| A circle of waits: a profile variable asked for in a halt, whatever `state` is; executed code that halts | Commands, `NoCircleAtAll` | `commands`' |
| Line numbers shift in a text with directives if the position has no file name | ScriptText, `NamelessLinesKeepTheirNumbers` | `script_text`'s |
| The hook flags that only a profiling build would earn are reported as set (EngineHook.cpp:588-595) and sent to the client | Hooks, `ReportIsTrue` | `hooks`' |

The first two need a client that acts before it has seen the halt:
`HaltProtocol_proofs` shows that with patient clients neither happens
(`PatientNeverCrashes`, `PatientBreakStateEnds`), nor the third if they do not pause
(`PatientQueriesAreServed`).

Met while reading, without a model of its own:

* The 64-bit hook of `assert` halts when its argument is true (EngineHook.cpp:458-460),
  the 32-bit assembly hook when it is false.
* `dumpStack` with a client attached halts as an error: the evaluator says "ok", and
  that bit of the default filter is set (`DumpStack` and `JudgeError` model it).
* The pattern of onScriptError occurs more than once (EngineHook.cpp:195); only the
  leftmost is hooked (`ScanIsExact`).
* A second call of placeHooks does not find the patterns its own jumps have
  overwritten and reports working hooks as failed (comment at `HooksAreSound`). It
  also starts a second error-handler thread (EngineHook.cpp:653; `handlers`), and
  `Debugger::onStartup` after it a second network thread. The flag `executeCode` is
  set without a test, too (560, in 64-bit builds).
* A step that was armed in a script which then ends is taken over by the next
  script whose context has the same address: `stepInfo` is never reset
  (Debugger.cpp:461), and `Stepping` allows it.
* `SQF_Assembly_Iface` never patches the vtable of NewExpression; the simulate and
  VMContext hooks are never installed, so the bookkeeping they would do is dead.
* FetchInstructionRef does not answer if it finds nothing; LogCallstack's "send"
  sends the wrong archive (breakPoint.cpp:270-291); profile variables are reported
  as parsingNamespace (Debugger.cpp:829), and getCodeVariables reports all as
  missionNamespace (863-891).
* SetExceptionFilter shifts by a number of the client's without a test: 64 and more
  are undefined. getCommandLineParam throws if the option ends the command line.
* No caller passes `compact` to `getScriptFromFirstLine` (the only call that did,
  RVClasses.cpp:174, is a comment); offset 0 is reported at a line end.

## What is proved

`HaltProtocol_proofs`, for every `MaxConns` and every set of requests:

* for all clients, `TypeCorrect`, `NoDangling`, `PausesAreKept` (from
  `StepCommandInv`: no pause comes between the two writes of a step command) and `ImplementsContractSafety`: each
  step maps to a step of `HaltContract` or a stutter. The strengthening is
  `EventInv`: the event is published exactly between `EngPublish` and
  `EngDropEvent`, and the flag is down at the start and up at the end. Without it
  a `Release` could not be told from a release carried over.
* for patient clients (`Patient`: they attach before the first script, stay, and
  answer each halt once after seeing it), `PatientNeverCrashes`,
  `PatientIsToldTheTruth`, `PatientBreakState` and `PatientStepIsArmed`. None of
  these is inductive. `PatientInv` ties the two program counters together: the network thread is inside a command only while
  the engine waits and the flag is still down (`AnswerInv`), which is true because
  a note is open only then (`AnswerInv`), because the engine clears nothing before
  the flag is up (`EngineInv`), and because nobody else continues a halt while
  someone is attached (`AttachedInv`). `StateInv` and `StepInv` carry `state` and
  the armed step through the accesses of one command. Two more follow about what
  TLC refutes for other clients: `PatientBreakStateEnds`, and, if they never send
  `haltNow`, `PatientQueriesAreServed` (`SeenHaltServesQueries`).

`Breakpoints_proofs`, for any files, lines, counts and bounds: `TypeCorrect`;
`OneTrigger`, `ListsAreNonEmpty` and `DeleteLeavesNothing` (the definition
`DeleteIsComplete`, which the table implies) from `RegistryInv` (lines are unique
in each list), with a lemma for each registry operation (`AddKeeps`,
`DeleteKeeps`, ...); `HitCountsArePeriodic` and `LateHitsAreSingle` from
`CountInv`: every breakpoint in the registry or in a copy has an identity of its
own, its passes are `n` times its hits plus its counter, which is below `n` (a
count of 0 never hits), and what is still in play has not been hit late.
Identities are what makes this inductive: a breakpoint set again on a line is a
new one and counts from zero. `RegistryIsTable` is the refinement of
`BreakpointTable`. Its strengthening `TableInv` says that the names of adds,
deletes and instructions are in lower case and that nothing is left to trigger
before the next lookup. Uniqueness of lines is what makes a list that is searched
for its first match a table (`TableEntry`): an add puts one identity in one place,
a delete empties one, and an unlocked emptiness test is a lookup because an empty
map is an empty table. A clear with capitals is either the table's `ClearFile` or
a stutter.

`Stepping_proofs`, for any contexts, documents, lines and bounds: `TypeCorrect`
without conditions, and `StepOverIsSound` if no stack is deeper than 256 frames.
`OverInv` says that whatever lies above the stepped frame was called by it with an
operator `allowStepInto` knows, or was opened at this very instruction, or has had
an instruction hidden. The stack of a finished context is empty, so that an address
used again does not disturb it. The depth bound is needed to know that the recorded
frame is the top one. `MoveShows` reduces the moves of the virtual machine to what
they do to one frame.

`ErrorHandshake_proofs`, for any plug-ins, error types and clients, also those
that are not nice: `TypeCorrect`; `HandlerServesWaiters` and
`FirstRequestsAreJudged` from `HandoverInv` (the flag is up only while somebody
spins, it is up whenever the handler is at work, an unjudged request keeps it up,
and after the verdict nobody is unjudged, which is why the reset may take the flag
down); `FilterIsObeyed` from `FilterInv` (what is set or still to be set was asked
for, and what was asked for is set or still to be set unless the command broke
off); `ContinuesReachHalts` from `HaltInv` (of two halts at the same time both are
marked as nested). `HandshakeIsRounds`, the refinement of `ErrorContract`, needs no
more than `HandoverInv`: the flag goes down in `Reset` only, which follows a
verdict, and a verdict finds the flag up and somebody waiting. `FirstRequestsAreJudged`
says the same of one thread, with a history variable in place of the rounds.

`Hooks_proofs`, for every image, list of patterns and number of calls:
`TypeCorrect` (a scan never reads outside of the image), `ScansAreExact`, and
`HooksWork`. The last needs `PlaceInv`: which jumps are placed and whole, that
places not under a jump are as they were loaded, that a match a jump was placed at
was one in the loaded image (patterns do not match bytes of a jump, because the
name of a hook is no byte), and that jobs behind the one at hand have not been
tried in the first call. Overlapping jumps, and second copies of a pattern when
placeHooks runs twice, are outside of what is claimed; both are conditions of
the property. Of the report it says that what is shown as working is there, of all
that was looked for.

`Commands_proofs`, for any connections and commands: `TypeCorrect`,
`NeverRelocked`, `EngineIsExclusive` and `OneHaltOvertakes` whatever the clients
do, and `NobodyWaitsInVain` if none is careless. `LockInv` says that
m_connection_lock is held exactly in a broadcast, `GameInv` that the game thread
has the invoker except between frames, `SessionInv` what the network thread knows
about connections at each of its labels. `NobodyWaitsInVain` is the hard one: a
client that debugs asks for the engine only if it was last told of a halt, and
`DebugInv` shows that what it was told is true, or that the acknowledgement which
corrects it is on its way and no command is read before it is out (`AckClears`).
The same gives `EngineIsExclusive` for the code that debugging clients execute.
`NobodyIsStuck` puts the two locks and the halt together (`NoCircularWait`):
`HolderInv` adds that a network thread with the invoker lock is past waiting for it
for the first time and that a game thread in a halt has an event a command can
set. Holders of m_connection_lock are in a broadcast and wait for nothing, so every
circle has to go through the invoker lock and a halt, which `NobodyWaitsInVain`
excludes but for a profile variable, or through a halt of executed code, or, if the
lock is not `Reentrant`, through its second acquisition; hence that assumption.

`ScriptText_proofs`, for files of any length with includes anywhere:
`TypeCorrect`, `NoOtherFile`, `OffsetCorrect` and `NumbersKept`. The text is put
together by recursive functions and a fold, so induction is needed. The library's
theorem of it takes an operator as parameter, which the provers here cannot
instantiate; with a *set* in its place (`Smallest`, `Induction`, `Recursion`, from
the theorem that the natural numbers are well-founded) it goes through.
`PathFlatten` splits the text into what each line of the file was turned into,
`MarkSteps` follows the `#line` directives along it, and `StageSteps` says how the
text of one file looks: before its first include, in an include, behind it.
`PutsInv` (what was put out is text of the wanted file or what the code adds)
gives `NoOtherFile`; `KeepInv` (at each stage, how the number of the next line put
out relates to the lines already there, and whether a line eaten by
`removeEmptyLines` was a blank one) gives `NumbersKept`. The proof found an
ambiguity of the model: `InfoLine` was a CASE with guards that overlap on blank
lines of a plain string, of which TLC takes the first and TLAPS any. It is an IF
now, and so is the note in `HaltProtocol`'s `EngSendHalt`.

Only model-checked: liveness (`AnsweredHaltEnds`, `AbandonedHaltEnds`,
`CommandsFinish`, `LoneRequestIsAnswered`, `NetReturns`, the fairness in
`HaltContract`), which is out of the prover's reach. Every other property of the
passing runs is proved. The four runs that expect a violation refute theirs.

## The plan

1. `HaltContract`, `HaltProtocol`, `BreakpointTable`, `Breakpoints` and their
   proofs: done.
2. `Stepping` and its proofs: done.
3. `ErrorContract`, `ErrorHandshake` and their proofs: done.
4. `Commands` and its proofs: done.
5. `ScriptText`, `Hooks` (the pattern scan) and their proofs: done.
6. The `_ip - 1` of `allowStepInto` in `Stepping`, and the nested invoker lock and
   ExecuteCode in `Commands`: done.

## Not modelled

Of the 23464 lines of C++ about 17300 are the vendored `json.hpp`. What is left out
of the rest:

* Code conditions, `ExecCode` actions and the engine's own script semantics:
  arbitrary SQF, run by the game.
* JSON conversion (`Serialize`, `RVClasses`), what a query's answer contains, and
  `dumpStack`'s text: data, without control of its own.
* The assembly stubs (they save registers and call the C++ functions that are
  modelled), vtable hooks (`SQF-Assembly-Iface`), commands registered with the host,
  and the pattern functions that compute an offset.
* The bookkeeping of `VMContext` and `Script::dbg_instructionExec`: its hooks are
  never installed.
* `SQFVM_Replacements`: bodies of functions of an external virtual machine.
* The tracker (disabled), the named pipe server (not used any more), the monitors
  (logs) and the interactive test programs.
* The submodules (intercept, websocketpp, asio, sqf-vm), which are not part of the
  tree and appear only as far as the code here uses them.
* Shutdown: the process ends with the game.
