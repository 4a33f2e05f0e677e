# opc_config: a TLA+ model of the OPC UA clients, the server and what stands beside them

The repository holds a small OPC UA server and three generations of a client,
written on the open62541 library, with many of the library's example programs
beside them and a vendored json library. This directory specifies what those
programs do, model-checks it with TLC and proves the central results with TLAPS.

## 1. The system

| Part | Source | State it keeps | Operations |
|---|---|---|---|
| Listing | `src/new_client.hpp` 344-479 | call stack, loop indices, one `UA_Variant` per call | browse, print a row, recurse, read, return |
| Current client | `src/new_client.cpp`, `.hpp` 22-143, `include/common.h` | `running`, `retval`, the client handle and its configuration | parse two files, load certificate and key, connect, list, delete |
| Counting client | `src/old/client_main.cpp` | `running`, `one`, the value read | connect, create a node once, browse, read, write value + 1, sleep |
| Configured-variables client | `src/old/client.cpp`, `client.hpp` | `running`, `findIndex`, `varOut`, loop indices | connect, browse, read, compare names, write, create, print |
| Server | `src/server_main.cpp` | three variables, access control, a monitored item, `running` | start, log in, write, sample, end |
| Real-time PubSub | `examples/pubsub_realtime` | counters shared by two or three threads, thread ids, flags, tables | set up, count, publish, receive, record, stop |
| PubSub | `examples/pubsub` | a connection, groups, data sets, fields, external values | set up, freeze, serve, toggle, clean up |
| Sealed keys | `*_tpm_keystore.c` | a session with a token, buffers | check, decrypt, set up, serve |
| Asynchronous methods | `tutorial_server_method_async.c`, `client_method_async.c` | operations, results, `running` | call, take, set a result, join |
| Configuration file | `server_pubsub_file_configuration.c`, `examples/common.h` | a file, the configuration of the server | load, configure, save, crash |
| Publishers in an interrupt | `pubsub_interrupt_publish.c`, `vxworks/` | timer, callback, semaphore, tasks | arm, publish, stop |
| Discovery | `examples/discovery` | the list of servers, an address, an endpoint | announce, register, deregister, find |
| json | `include/json.hpp` | lexer, stacks of the parser, a value | scan, parse, point, patch, write and read binary |
| `old_client.*`, remaining examples, unused helpers | `src/old`, `examples`, `new_client.hpp` | - | - |

Paths of the first five rows are below the repository's own `src` directory.

How the parts meet: a client process is one thread that calls the server
synchronously with a time-out; several clients may share a server, whose address
space is their only shared state. Every example is a program of its own; those
with threads share globals without locks, those with an interrupt share them with
its handler. Each program relies on the open62541 library, which is not in the
repository: what it does is modelled from how it is used and marked external.
The clients parse their settings with `json.hpp`.

What is hard in this code:

- **stale state**: a variant that keeps the value of an earlier reference, an
  answer that is used for a whole round, a value read, incremented and written
  back, pointers of the json parser into vectors that grow;
- **failure**: every call may fail, and most results are not looked at; a write
  that failed for its client may still be carried out, later;
- **ordering**: nested loops whose indices must start again; groups that work before
  they are frozen or have keys; removals that shift what comes after them;
- **signals, interrupts, crashes and restarts**: SIGINT between any two steps, a timer
  between any two statements, a process killed between its read and its write, or
  while it rewrites its file;
- **threads**: a counter passed from one thread to the next without a lock, memory
  that must exist until the last thread is joined, three tasks that wait for each other;
- **edges of numbers**: five widths per sign in two formats, sizes in front of what
  they count, a counter that wraps;
- **undefined behaviour**: variants that point to dead locals, names copied without
  terminator, uninitialised variants and pointers. Each is a nondeterministic choice.

What makes each part correct:

- listing: bounded on every graph; rows in the order of the references, none
  twice; complete if no answer was cut; a value shown was read in the same call;
- current client: never less security than configured; the handle is live at each
  use; an exit code means what it says; an early SIGINT is honoured; it always ends;
- counting client: no increment is invented; one that overlapped no other
  counts; one node per process at most; it ends after SIGINT;
- configured-variables client: it writes only where the name is the configured
  one; the last entry of a name wins; it asks for nodes exactly for the names
  that are missing; it ends after SIGINT;
- server: a stranger is never let in, whatever of the start failed; registers keep
  their type and start anew with the process; the last value written is reported;
- programs with threads: no memory is used that is not there; what was made is
  released; no counter is made up or goes back; they end, but for those of
  section 4 that cannot;
- sealed keys: only intact data is decrypted, with the key asked for, inside its buffer;
- asynchronous methods: each call gets its own results, no chain of calls forks, no
  operation starves, the server outlives its worker;
- configuration: the file is never a mixture, and only a run that ends while it
  writes loses what was saved;
- interrupts: they go wrong only in two known windows; after a stop nothing is left, and
  Stop returns but for one known deadlock;
- discovery: the best endpoint or none, and none left behind but one without a mode; a
  success means the server is not listed;
- json: exactly JSON is accepted and stands for what the grammar says; positions
  are right; a pointer reaches one element; a diff arrives; bytes come back.

## 2. The modules

| Modules | Model |
|---|---|
| `Listing`, `BrowsingVars` | the promise of a listing, and the traversal that keeps it |
| `NewClient` | `main` of the current client, with `BrowsingVars` as one of its phases |
| `CounterClient` | `main` of the counting client, any number of processes, late writes, kills |
| `VariableClient` | `main` of the configured-variables client, any number of processes, its helpers, other writers |
| `OpcServer`, `Registers` | the server and its clients' writes, and the typed registers it promises |
| `Steps`, `Process` | C programs as data, and the process that runs one |
| `TsnLoopback`, `TsnPublisher`, `TsnSingle`, `TsnMultiple`, `NodesetPublisher`, `NodesetSubscriber` | the six real-time programs, in `Steps` |
| `Realtime` | the six with their network and their peer |
| `PubSubPublishers`, `PubSubSubscribers`, `PubSubServers` | fourteen PubSub programs, in `Steps` |
| `TpmKeyStore` | the four programs with sealed keys |
| `AsyncMethods`, `ConfigFile`, `InterruptPublisher`, `VxWorksPublisher`, `Discovery` | one example each |
| `JsonDocs` | values and the grammar of JSON: the reference the parser is compared with |
| `JsonLexer`, `JsonParser` | from bytes to tokens; from tokens to calls of a handler, and the handlers, which build the value |
| `JsonPatch` | pointers, `at`, `operator[]`, `contains`, `flatten`; patch, diff, merge patch |
| `JsonBinary` | writers and readers of three binary formats, and what they owe each other |
| `BrowsingVarsProofs`, `NewClientProofs`, `CounterClientProofs`, `VariableClientProofs`, `OpcServerProofs`, `ExamplesProofs`, `JsonParserProofs`, `ProgramsProofs` | theorems |
| `MC*` | the instances TLC checks; `MCPrograms` also holds what the PubSub programs must keep to, `MCExamples` puts the five examples side by side |

Operators whose comment says "A slip" are plausible errors in the operator that
follows them: each property of a run was seen to fail with one of them in its
place. No specification uses them.

**BrowsingVars.** `stack` is the call stack: a frame holds the node of the call,
its depth `n`, whether the browse was answered, `referencesSize`, the loop index
`j`, the local `value`, and `below`, what the last call made from here left in the memory
of its own variant, where the next one may find it. `out` is the text printed, a row
being its position, its hyphens, its node and what the VALUE column shows. A value is its provenance:
the node it was read from. The address space is constant (`Refs`, `Ns`, `IdType`,
`Variables`, `Printable`), but an answer to a browse may be any prefix of the
references and any read may fail. `whole` and the field `read` are history. One
action per branch of the loops: `ListObject` and `SkipUnnamed` for `BrowsingVars`
(depth 0), `SkipNamespace0` and `ReadReference` for the recursion, `Browse` and
`Return` for both.

**NewClient.** `pc` is the line of `main` that comes next. `files` is chosen at
the start among all settings, including missing ones, and does not change. The
library is what `new_client` relies on: an endpoint is chosen that has the mode
and the policy configured and a policy the client has loaded; a key it cannot use
leaves it with the policy None. `session`, `stopped` are history.

**CounterClient.** One `pc`, `raw`, `todo` per process; `value` is the server.
A call succeeds, fails without effect, or fails although it has its effect; a
failed write may also wait in `inflight` and arrive any time later. `issued`,
`applied`, `adds`, `overlap` are history: `overlap` holds the variables of which
some client read while an increment of it was under way. References that are not
variables, or not Int32, change nothing and are left out, as is the text printed.

**VariableClient.** `k`, `j`, `findIndex` are the code's, counted from 1, with 0
for the code's -1. A value on the server is its type, the configured entry it was
sent for, and whether it is the configured value: the variant sent points to dead
stack, so it may not be. `SameName` may answer either way for a name that equals,
or begins, the configured one, because the copy has no terminator. `clean` is
history: in this round no call failed, no undefined behaviour showed and nobody
else wrote.

**OpcServer.** `pc` is the next statement of `main`, or how the process ended.
`control` is who the access control lets in: `SetDefault` leaves "anyone", a failed
replacement "nobody", whose context is then gone. Each result the code overwrites
is a choice that changes only what the failed call would have made. `wire` holds
writes under way, `item` what the monitored item last reported. `Registers` sees
the values and the users logged in, and nothing of how they came about.

**Steps and Process.** A function of C is a sequence of steps; a call names what it
makes, needs, touches and drops, and where its result goes; `If`, `While`, `Fn`
become relative jumps, so that a `return` leaves its own function only. The
function's name is the operator's name, and a caller concatenates what it calls.
`Process` gives the steps their meaning, one action per kind of step: a call
succeeds or fails (`Succeed`, `Fail`, up to `MaxFailures`), memory that is not
there is touched (`Crash`), a value is computed (`Compute`, with an effect the
program's module names), threads are created and joined, and SIGINT comes at any
time. `live`, `gone` are what exists and what was released. Only variables that a
condition or a property reads are in `data`.

**Realtime.** The pointee of a pointer is a variable of its own, with a capital
(`*pubCounterData` is `PubCounter`). The network loses and repeats but keeps the
order (one publisher, one multicast group). A loopback's peer counts; a publisher's
peer returns what it gets. `published`, `sent`, `row` are history. The four Tsn programs
give a callback to their writer group and none to their reader group
(`pubsub_TSN_loopback.c:479-492`), so the library never starts `subscriber()` and what
arrives is received by the server's own loop in `main` (`Serve`), as in the nodeset's subscriber.

**The PubSub programs and TpmKeyStore.** A part that needs another is a `needs` of its
call; the order of the set-up is thereby in the programs' hands. The token is
external: a session, an object search, blocks of 16 bytes; a digest that was not
computed is what the memory held. A missing terminator, a pointer that is not
initialised and a status that is left over from the call before are choices.

**AsyncMethods, ConfigFile, InterruptPublisher, VxWorksPublisher, Discovery.** Hand
written state machines. `AsyncMethods` has one action per statement of the worker
that touches shared state, so the library may give up on an operation between any
two of them. `ConfigFile` writes byte by byte, where a byte is the configuration it
is of. `InterruptPublisher` runs the timer's handler between any two steps of
`main`, as one step, because a signal handler on the only thread is not
interrupted. `VxWorksPublisher` has its tasks' statements interleave and counts
cycles in place of time. `Discovery` has each call to another process fail before
or after it took effect.

**The json modules.** A document is a tree of kinds and members in the order of
`std::map`; numbers, `true` and the like are single tokens except in the lexer and
the binary formats, which work on bytes. `JsonLexer` takes one byte per step, with
`next_unget` and the position as the code keeps them; `scan_number`'s jumps are a
table of arcs. `JsonParser` has one action per branch of `sax_parse_internal`, and a
variable `sax` that is one of the two handlers (`BothStarts`). A handler keeps memory as a
sequence of nodes with pointers into it, so that a pointer into a vector that has moved
would show. What a text means, and whether the value built means that, is in `MCJsonText`. A function that may throw returns
the number of its exception. In the formats a number of 64 bits is its eight bytes;
a number the code converts to a smaller one keeps its low bytes.

## 3. The runs

| Run | Question | Result |
|---|---|---|
| `browsing` | is the listing bounded, ordered, complete, of its own values, a refinement of `Listing`, terminating? | holds |
| `browsing_stale` | does a row show its own node's value or nothing? | violated |
| `new_client` | security, handle, exit codes, SIGINT and termination of the process | holds |
| `counter` | two counting clients on one variable, or one killed and restarted twice, with unreliable calls | holds |
| `variable` | one client over two rounds, or two clients whose rounds interleave, every call failing anywhere | holds |
| `server` | failed starts, kills, a restart, logins, late writes; the refinement of `Registers` | holds |
| `programs` | memory, set-up, clean-up, counters and keys of twenty-four programs | holds |
| `programs_stop` | do they end after SIGINT, the loopback when its peer stops too? (three cannot) | holds |
| `examples` | calls, configuration, interrupts, tasks, discovery | holds |
| `examples_stop` | do they stop, and does no operation starve? | holds |
| `json_text` | is exactly JSON accepted, does it mean what the grammar says, do the handler's pointers stay sound, is the lexer right? | holds |
| `json_values` | pointers, patches, binary formats | holds |

Where several properties are asked of one instance they are parts of one
conjunction; the comments of the parts say what each is about. The conjunctions
and where their parts are:

- `EndsCleanly`: types, `HandleLive`, `ExitCodeMeaning` (`NewClient`);
- `SentAsConfigured`: types, `ReachesItsVariable`, `LastEntryWins` (`VariableClient`);
- `NobodyUninvited`: types and the logins (`OpcServer`);
- `CrashOnlyAfterFailure` (`Process`, `TpmKeyStore`), `SetUpInOrder` (with
  `ServesSetUp`, `KeysFirst`, `FrozenFirst`, `FieldsInOrder`; `MCPrograms`),
  `NothingLeft` (with `DeletesServer`), `TokenRespected`
  (`TokenSeesIntact`, `AskedForKey`, `InsideBuffer` of `TpmKeyStore`), `CountersTrue`
  (`Realtime`);
- `CallsAccounted`, `ConfigurationKept`, `InterruptContained`, `StopsCompletely`,
  `DiscoverySound`: `Inv` of the five modules;
- `BuildsMeaning` (`MCJsonText`), `PointersSound` (`StacksAgree`, `AssertionsHold`,
  `PointersStay` of `JsonParser`), `LexerReads` (`Reads` of `JsonLexer`), `PointersMean` and
  `PatchesArrive` (`JsonPatch`, `MCJsonValues`), `BytesReturn` (`JsonBinary`).

Bounds, and why they suffice:

- `browsing`: eight nodes with two cycles (one through a third node, one of a
  node to itself), a node with two parents, all namespaces from 0 to 3, the three
  kinds of id, a variable of a type that is not printed. The depth is bounded by
  the code (two calls), so a longer chain adds no kind of step; references beyond
  a node's own list differ in order only. The theorems remove the bound.
- `new_client`: every combination of file contents and the full set of endpoints;
  the listing below it is small because `browsing` covers it.
- `counter`: integers from -3 to 3, starting one below the maximum so that
  an increment wraps; two rounds each for a pair of clients, which allow a late
  write to pass a later one of the same client; two restarts for a single one, so
  that a process meets nodes of both its predecessors. `MaxRounds` bounds
  successful connections only; failed ones are unbounded.
- `variable`: three entries, two of one name (an integer, a string) around one
  that is missing; a folder with an object, two variables of that name of
  which one takes only an integer, and a variable whose name begins it; two
  rounds, so that the second meets the node the first added. For the pair, one
  round each and an entry whose json value has no type of its own.
- `server`: two clients, two writes, two starts: a write of the first life may
  arrive in the second, and two writes may fall between two samples.
- `programs`: `MaxFailures` is two for the PubSub programs, one for the real-time and
  the key programs, which are longer or interleave; counters reach two, enough for a
  lost, a repeated and a good message; tables have one place. Decrypted files
  have one to three blocks, the boundaries of the loop over blocks.
- `programs_stop`: all programs but the two key stores; no failures, and counters that stop at once in the two-way
  programs: their loops, not their values, decide whether they end.
- `examples`: three request ids (two chains and one more), two sessions; two
  configurations of three bytes and three accidents; three ticks of a timer whose
  table has three places; two starts of the tasks; one server of each kind with eight
  offers, two of them with an endpoint without a mode. `examples_stop`: one start each, two
  offers; every call of the VxWorks tasks may fail in both, and the server not start.
- `json_text`: nine tokens hold two nested containers with members, or three empty
  ones; seven with a callback, which may answer anything every time. The lexer reads
  six bytes that matter to numbers (with the maxima at 79 and 76, so that
  two-digit numbers are on both sides of them), six of comments, and strings of two
  characters with all lead bytes, and the tail bytes, where the ranges of UTF-8 change.
- `json_values`: pointers of six characters; documents with pointers of two tokens; 179
  sources, 92 targets for `diff`, among them an array of twelve, where the index has
  two digits, and keys with a slash and with the escape of one; every patch operation on
  every document of up to three nodes that patches make of two small ones; numbers at 2^n - 1 and
  2^n for every width, texts with lengths on both sides of every head (containers of
  up to 24 elements), inputs of four arbitrary pieces, three for MessagePack.

Deadlock checking is on in `programs`, `programs_stop` and `json_text`, where an
ended program stutters: there a state in which nobody can go on is an error of its
own. Elsewhere it is off because the program ends or a bound stops it.

Fairness is weak, and only on the steps of a program or of one of its threads:
each is scheduled, and every call of the library returns, if only by its time-out
(`cc->timeout`, or the library's default).
Nothing makes SIGINT, a kill, a failure, a message, a late write, a timer's
interrupt or another client's write happen. `StopsAfterSigint` is about loops that read `running` at
their head only; the counting client's holds although a connection that keeps closing
returns there without a pause. A message is a step of the server's loop, which also
goes round without one.

## 4. What the models showed

`browsing_stale` ends in a violation: `new_client.hpp:408` ignores a failed read and
prints the older value of the variant in the VALUE column. How stale it can be is
bounded by `ShownWasReadLast` alone: the variant (line 396) is never initialised and the
calls from one loop have it at one place of the stack, so a row may show what was last
read under another parent.

Other disagreements between the code and its comments met on the way. Where a
property would be broken by one of them it says so (`Known`, or an exception in
its text), and the models do what the code does:

- `client.hpp:192` asks for `name123` whatever variable is missing; 152, 158, 164, 170
  leave a pointer to a local in the variant that is then written; 214 fills a copy of
  the json value, so the program prints nulls. `client_main.cpp:76` indexes `settings`
  as an array, and the json files of `configs` have an object there (`BadConfig`).
- `server_main.cpp:12`: `stopHandler` is registered nowhere, so a signal kills the
  server inside its loop and the clean-up of line 89 is reached only if it could not start.
- None of the four Tsn programs hands its subscriber to the library (479-492 of
  `pubsub_TSN_loopback.c`, and alike). `pubsub_TSN_loopback_single_thread.c:916` and
  `pubsub_TSN_publisher_multiple_thread.c:989` therefore call a pointer that was never
  set (`CalledUnset` in `MCPrograms`), and nothing behind these calls is reached. The
  comments at 1130 and 1136 of `pubsub_TSN_loopback.c` and at 1105 of
  `pubsub_TSN_publisher.c` speak of a loop that SIGINT ends and that ends the server: it
  is in `subscriber()`, which never runs. So the loopback ends after SIGINT only once its
  peer has said that it stops (`StopsWithPeer`), and the publisher does not end at all.
- `pubsub_TSN_loopback.c:1017`: two threads test and set `baseTimeCalculated`
  without a lock; 1387 deletes the last of the repeated nodes and then cleared ids.
- `pubsub_nodeset_rt_publisher.c:411` does not compare with `MAX_MEASUREMENTS`;
  `pubsub_nodeset_rt_subscriber.c:639` prints to a file that is not open, and 614 joins
  a thread that was never created.
- `pubsub_interrupt_publish.c:204` arms the timer before the callback is set (220), and
  374 frees what the interrupt reads before the timer is gone.
- `vxworks/pubsub_interrupt_publish_tsn.c:183`: a server that cannot start wakes the sender once,
  while `running` is set, and waits for it; the sender may go round and wait again, the
  interrupt gives nothing after `running` is cleared (537), and Stop waits for the server
  before its own `semGive` (542): all three wait for ever. `StopsWhenTold` leaves out
  exactly a Stop that finds the server waiting there (`Told` in `MCExamples`). 432 reads
  the trigger time after an interrupt may have replaced it; a timer whose interrupt
  cannot be rerouted stays.
- `tutorial_pubsub_mqtt_publish.c:91`: with JSON compiled in it is always used.
- `pubsub_publish_encrypted_tpm_keystore.c:561`: the keys read from the files are
  stored past the end of the arrays, and the group keeps zeros.
- `server_multicast.c:291`: an endpoint whose mode is invalid ends the program and its
  description is not deleted (`NothingLeft` in `Discovery` names it).
- `client_find_servers.c:150`: when one server does not answer, those after it are not asked.
- `json.hpp`: 7106 leaves a discarded member behind; 8758 leaves the column at 0 after a
  newline is given back; 14380 announces exceptions from
  `contains` for tokens as `01` or `a` below an array, where it returns false, and 14431
  throws another for an empty token (`ContainsMeansAt`); 14092 rebuilds
  an object whose first key is 0 as an array; 24102 asserts on an add below a number, 24132 ignores a remove
  there, and 24062 lets an add make an object of null (`LocationsExist`);
  9673 wraps a CBOR number below -2^63; 9796 takes a length of 2^64 - 1 for no length.

## 5. What is proved

For every value of the constants, with the assumptions the modules state and TLC
evaluates (`AddressSpaceAssumption`, `SentinelAssumption`, `SecurityAssumption`,
`ListingAssumption`, `CounterAssumption`, `VariableAssumption`, `ServerAssumption`,
`ExamplesAssumption`; they say what kind of thing a constant is, that its special values
are none of the others, and for `NewNode` that a node added is new):

| Module | Theorem | States |
|---|---|---|
| `BrowsingVarsProofs` | `TypeCorrect` | `Spec => []TypeOK` |
| | `Complete` | `Spec => []ListingComplete` |
| | `Refinement` | `Spec => ImplementsListing` |
| | `BoundedDepth` | `Spec => []DepthBound` |
| | `ShownLastAlways` | `Spec => []ShownWasReadLast` |
| `NewClientProofs` | `SecureAlways` | `Spec => []SecureAsConfigured` |
| | `StopsBeforeConnecting` | `Spec => []StopBeforeConnect` |
| | `EndsCleanlyAlways` | `Spec => []EndsCleanly` |
| `CounterClientProofs` | `TypeCorrect` | `Spec => []TypeOK` |
| | `NoPhantom` | `Spec => []NoPhantomIncrement` |
| | `AddedOnce` | `Spec => []AddedOncePerProcess` |
| | `SerialCounts` | `Spec => []SerialIncrementsCount` |
| `VariableClientProofs` | `SentAsConfiguredAlways` | `Spec => []SentAsConfigured` |
| | `AsksExactly` | `Spec => []AsksForTheMissing` |
| `OpcServerProofs` | `NobodyUninvitedAlways` | `Spec => []NobodyUninvited` |
| | `ServerImplementsRegisters` | `Spec => ImplementsRegisters` |
| `ExamplesProofs` | `ConfigurationAlwaysKept` | `Spec => []ConfigurationKept` |
| | `InterruptAlwaysContained` | `Spec => []InterruptContained` |
| | `AlwaysStopsCompletely` | `Spec => []StopsCompletely` |
| | `DiscoveryAlwaysSound` | `Spec => []DiscoverySound` |
| | `CallsAlwaysAccounted` | `Spec => []CallsAccounted` |
| `JsonParserProofs` | `PointersAlwaysSound` | `Spec => []PointersSound` |
| `ProgramsProofs` | `TokenIsRespected` | `ASSUME KeyEffectsGiven PROVE Spec => []TokenRespected` |
| | `CountersAreTrue` | `ASSUME EffectsGiven PROVE Spec => CountersTrue` |

So every safety property of the runs `browsing`, `new_client`, `counter`, `variable`,
`server` and `examples`, of `json_text` the one about pointers and of `programs` those
about the token and the counters, holds beyond their bounds. Each rests on an inductive
invariant that TLC checked on the run's instance first.

*The listing.* `TypeOK` alone is not inductive: a frame of depth 2 would allow a
third. `TInv` adds `Nested`: the stack is empty, or the folder's call, or that and
one call on the reference the folder's loop stands at. `Progress` relates output
to loop indices: a position has been printed exactly if it is expected and the
loops have `Passed` it. At the end both loops have passed everything, which is
completeness; and since every position printed lies before the one the loops
stand at, each `PrintRow` meets the guard of `Listing`, which is the refinement.
`ValueSource` adds that what the memory of the inner call's variant holds, in a call or
between two, is the value of the last row read, which gives `ShownLastAlways`.

*The current client.* `Configured` carries the settings from the file to the
connection, where the library's choice of an endpoint meets them. `Connected` ties
`retval`, `session` and the exit code together, line by line; `Remembered` says that
past `CheckRunning` no earlier SIGINT is left. `Listing` is the traversal's own
invariant wherever `main` is inside it: the instance `BP` of `BrowsingVarsProofs` supplies
the proof of those steps, so none of them is proved twice.

*The counting client.* `NoPhantomIncrement` speaks of the server only, so it is
not inductive: a client may hold a number that is about to be written. `NotAhead`
extends it to the numbers clients hold and to late writes: none is ahead of the
start plus the writes *issued* (`issued` counts a write when it is sent, and only
grows). Reading copies a number below the limit; writing sends at most one more
and raises the limit by one. `NodesOK` says that the node of a pending write exists
and that an added node is new, so that no limit starts again.
For `SerialCounts`, `Sole` says of a variable without overlap that a number somebody
still holds for it, a client about to write or the network, is computed from the
value it has, and that there is one such holder. `Counted` is then a congruence modulo the width, with a
quotient as its witness, which `Increment` keeps whether it wraps or not.

*The configured-variables client.* `Served` says what the two loops have done where
they stand: each variable of the answer holds the last entry for it among those they
have been at, or a later one. `FoundSoFar` says the same of `findIndex`. Both are
claims about clean rounds only; `AtItsVariable`, which needs no clean round, gives
that what is sent reaches a variable of a like name. A client's own steps
keep them; another client's write ends the round's cleanness (`OthersKeep`).

*The server.* `Guarded` says that from the replacement of the access control on
the default one, which lets anyone in, is gone whatever fails later; with it no login can be a
stranger's, which is `Invited`. `Untouched` says that before the loop runs a node has
its first value or is not there. These two are what each step needs to be one of
`Registers` or to leave its variables alone.

*The configuration in a file.* `BeingWritten` says that while it is written the file is
the beginning of what the server has; `NoAccident` and `NoneWhileWriting` say, stage
by stage, which buffer then holds the last configuration, or a whole one.

*The interrupt and the tasks.* `TimerPlaced` and `CrashPlaced` tie the timer and its
windows to the line of `main`. For the tasks `UserAndTasks`, `ServerPlaced` and `SenderPlaced`
say what the line of each of the three implies for the other two: a callback exists while
the server is between adding and removing it, the sender passes its semaphore only
then, and the user waits for both before a new start.

*Discovery.* The loop over the endpoints is a function of the index. That it
exists, and that what it ends with is of the highest mode, is shown with the least index
for which it would fail (`Least`, from the well-foundedness of `<`): the
induction theorems of the library cannot be instantiated here, `WFMin`, which takes a set, can.

*The asynchronous methods.* An id is in one place at a time: `WireApart` gives it
to the call under way, `ResultsWhole` to its operations, which are there all
together and unanswered, and then to one answer; the client may have forgotten it meanwhile.
That is why an answer meets no call but its own. `NothingForgotten` and
`QueuedPending` say of a pending operation that it is queued or with the worker. Chains of
calls are counted by `Cardinality`: a send takes an id that is free and adds one, what is
received removes one, for any number of sessions.

*The value that is built.* `PointersSound` says nothing of the memory below the
stack, so a write through a pointer could undo it later. `Downwards` orders the memory: a member
is a later node than the container that holds it. `Linked` says of the stack that it
leads from each container to the one put last into it, upwards in that order, with the
containers the callback refused at its end. So a member that waits for its
value, a new element, and all that is taken out or discarded when a container ends
come after everything that stays open, and a write to them leaves the stack linked
(`ElementWritten`, `AttachedPlaced`, `FewerKids`, `DiscardedGood`). `Ready` says that
after a key `object_element` points to a member of the object on top, or that the callback has
refused; `Fits` says it place by place, with the parser's bits for the kinds of what is
open. The vectors of keys and of members have any length, `KeyOrder` may be anything,
and the callback may answer anything.

*The programs with sealed keys.* They have one thread, but each is some hundred steps
long, so their correctness is put together as their code is. `Notes` annotates a piece of
code: for each step, and for its end, a set of values of the variables, with whether a
decryption is under way. Each note holds wherever control may come from (the step before,
a jump), whether a call succeeds or fails, and still holds when SIGINT has come (`Steady`);
and where the step asks the token or writes to the buffer, the note allows it (`Allows`).
`Triple(C, A, R, D)` says that there are such notes which lead from `C` to `D`, or to `R` if
the code returns. It has one rule for each way in which `Steps` makes code of code (one
after the other, `If`, `IfElse`, `Maybe`, `While`, `Fn`, `Into`, `Put`, ...), and `Tame` is the
short form for code that changes none of the variables in question. With these the functions are
proved as one would by hand: after `decrypt` compares, the file is `Genuine` or there is no
digest; behind `find_object_by_label` the object is `Found`; the loop over blocks keeps
`Room`, that block `part` fits and the next one too if `more` is set. At the `cleanup` label
something may still be left decrypting, but then `rv` says so (`Excused`), and the
program gives up on it before it decrypts the second file. `KeyInv` is only that the control is
at a step whose note is right. `KeyEffectsGiven` is like `EffectsGiven` below, and
`KeyTableAssumption` says that the four names stand for the four programs. `LengthsAssumption`
says that a sealed file is one or more whole blocks, which `decrypt_data` does not look at and
the seal and `CKM_AES_CBC` see to: with less than a block its
`clear_data_length - 16` would wrap around.

*The counters of the real-time programs.* `EffectsGiven` says that the computations are
those of `RealtimeEffect`, as `EffectOfAll` of the run has it; it is a hypothesis of
the theorem and not an `ASSUME`, because TLC cannot go through all values of the variables.
The six programs have some thousand steps between them, and no invariant could list what
holds at each. `Within` and `Flows` say of a piece of code what its steps may do (which
counters they compute or set to zero, which threads they create) and where its jumps lead;
`FlowRules` and `LoopRules` give both for each way to put code together, so that they are
shown function by function. `Phased` cuts a function at one step, where `main`
creates the user thread: before it counters are only set to zero, behind it
nobody of `main` does that any more and the server may receive, and no jump leads back
(`Landing`). What a step of a thread
then leaves of the counters is one of five lemmas (`Working`, `Stepping`, `Preparing`,
`Clearing`, `Doing`), and the invariants speak of counters and a few lines
only: a loopback's `published`, `PubCounter`, `SubCounter` and `message` are in that order
(`Echoes`), a publisher's `SubCounter`, `message`, `published` and `PubCounter` in theirs
(`Returns`); what the nodesets send or record is a step behind at most (`Sends`, `Records`).
`TsnSingle` and `TsnMultiple` go no further than a pointer that was never set, and nothing
is claimed of them. The bounds and the number of failed calls are any numbers.

Only model-checked:

- liveness (`Terminates`, `StopsAfterSigint`, `StopsWhenTold`), which is out of the
  prover's reach;
- the other properties of `json_text` and those of `json_values`: the grammar, values,
  pointers, patches and the formats are defined by `RECURSIVE` operators, which the prover's SMT backend does not
  accept in a module, and what they compute is induction over data;
- `CrashOnlyAfterFailure`, `SetUpInOrder` and `NothingLeft` of
  `programs`: they follow what is alive through each of 24 tables of some hundred steps, and
  TLC's run is exhaustive there up to the bounds of section 3.


## 6. What is not modelled

- `old_client.*`, which includes a header that is not there, and helpers that nothing
  calls (`GetDataType`, `InitClient`, `WriteVariant`, `CreateVariable` and others of
  `new_client.hpp`).
- The remaining client and server examples: straight-line calls of the library
  without threads, signals of their own or state that outlives a call; the data
  types, event filters, history and alarms they set up are the library's.
- Of `json.hpp`: the templates that choose overloads and convert C++ types,
  iterators, the serializer to text with its algorithm for the shortest decimal of a
  float, UBJSON and BJData, doubles in MessagePack or CBOR whose float would be
  subnormal, and the text of error messages. A float is its bits.
- Of the PubSub programs: configuration values, times, the layout of messages, and
  encryption the build leaves out; of `server_register.c` the integer it offers.
- Layout and number formats of what is printed, and memory that is never freed.

## 7. Plan

Done: the models of section 2, the theorems of section 5. What is left, in order:

1. The types of `Process` for any table of well-formed steps.
2. The server examples as further programs for `Process`, and the reconnecting
   clients (`client_connect_loop.c`, `client_subscription_loop.c`) as a module.
