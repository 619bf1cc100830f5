# A verification of the v87 panel

v87 is a control panel for virtual machines: a Node.js server keeps accounts
and server records in JSON files, unpacks a root file system for every server,
and runs each machine with the emulator v86 inside its own process. These
modules model the panel, the part of the emulator that decides whether a machine
runs, the file server that gives a machine its disk with the transport to it, and
the network that a machine sees. TLC checks them on small instances, and TLAPS
proves the theorems named below for every value of the constants.

## The system

| Component | State | Operations | Hard parts |
|---|---|---|---|
| Accounts, servers, machines (`src/panel/server.js`, `db.js`, `utils/token.js`, `utils/authMiddleware.js`) | `users.json`, `servers.json`, `creationProgress`, `runningVMs`, the server directories, the tokens in clients' hands | register, login, create, creation-progress, start, stop, startup, delete | a handler that awaits goes on with what it read before; failures and restarts between two awaits; limits checked against data in flight |
| Administration (`server.js` from line 1001) | the same | update, suspend and delete accounts; suspend, update, stop and delete servers; change the limits | the same, against the owners' requests; tokens that keep an old role |
| VM runner, boot, run loop (`vm_runner.js`, `browser/starter.js`, `main.js`, `rust/cpu/cpu.rs`) | the emulator of a `VMInstance`, boot stage, `running`, `stopping`, `idle`, `tick_counter`, scheduled callbacks, `in_hlt` | start, the steps of the boot, a slice, an interrupt, stop, destroy | overtaken callbacks, lost wake-ups, a stop at any moment of the boot |
| 9P file server (`9p_handler.js`) | fids with open files, four metadata caches (modes, links, types, devices) and their `.bin` files, the directory tree | attach, walk, open, create, read, write, mkdir, symlink, rename, unlink, remove, clunk | one step of several failing, caches against files, stale fids |
| Metadata format (`utils/fsMetadata.js`, `9p_handler.js`) | — | encode, decode | 16-bit counts and lengths |
| virtio transport (`virtio.js`, `lib/9p.js`) | the rings, the map from tags to buffer chains | notify, pop, reply, interrupt, reset | wrapping indices, replies out of order, reset with requests in flight |
| Network adapter (`network_adapter.js`, `browser/fake_network.js`) | the guest's TCP connections and the host's sockets | SYN, data, FIN, RST, close | sequence numbers, half-closed connections, a host that answers late |
| Files and packages (`server.js` 517–995) | files under `root`, `installed_packages.json`, `pkg_extract` | upload, save, rename, delete, install, uninstall | quota measured before an await, lost updates |
| Configuration (`server.js` 1199–1229) | `config.limits`, `LIMITS`, `config.json` | read, update | memory and file after a failed write |
| Terminal sockets (`server.js` 1295–1318) | rooms of socket.io | join, input | — |
| Web frontend (`public/`), processor, JIT and devices (`src/rust`, `src/*.js`), bundled libraries | | | |

The parts meet in one process. A route reads and writes the database with
synchronous calls, keeps progress and machines in two maps, and awaits file
operations; a `VMInstance` in `runningVMs` owns a `V86`, which boots by
callbacks and then runs in slices that it schedules on the same event loop. The
guest reaches its directory through virtio, `Virtio9pHandler` and
`create9pHandler`, and the network through `NodeNetworkAdapter`.

What makes each part correct:

- *Accounts and servers.* The limits of an account hold whatever is in flight.
  What `creation-progress` answers is true. A creation or deletion that was
  accepted ends, and touches no other account's record or files. A machine
  runs as its record says, and every machine has a record.
- *Administration.* What is suspended has no machine in `runningVMs` (an emulator
  that was stopped before it had booted runs on outside it). There is an administrator.
- *Run loop.* A running machine is always about to run again, at once when it
  has something to do; a machine that was stopped stops; the panel survives it.
- *9P.* A name shows the guest what was made under it, after any requests and
  restarts. A cache equals its file or is marked. A fid writes to no other's file.
- *virtio.* A request is answered at most once, by the reply that is its own,
  and neither a request nor a reply is left in a ring unseen.
- *Network.* Each end of a connection receives what the other sent, in order and
  once, and the end of the stream after it; a connection that is over leaves no
  socket open and no entry in the table.
- *Files and packages.* An upload keeps the quota, but for what passes the walk that
  measures the directory. A package that is listed is unpacked, and the list forgets none.
- *Configuration.* The limits in force are those that a restart will find, outside
  the end of an update.

## The modules

| Module | Models | Uses |
|---|---|---|
| `Panel` | accounts, servers, machines | — |
| `PanelAdmin` | the administrator's routes, next to everything in `Panel` | extends `Panel` |
| `VmInstance` | runner, boot and run loop of one server's emulators | — |
| `NinePHandler` | the 9P server of one machine, its metadata files, and the file manager next to it | — |
| `RequestReply` | abstract: what the transport of the 9P server promises its guest | — |
| `Virtio9p` | the rings of virtio, their driver, and the map of tags above them | instances `RequestReply` |
| `ByteStream` | abstract: what one direction of a connection promises | — |
| `FakeTcp` | the TCP connections of a guest, the adapter's end and the host's socket | instances `ByteStream` |
| `PanelFiles` | uploads and their quota, packages, the configuration | — |
| `MCPanel`, `MCPanelAdmin`, `MCVmInstance`, `MCNinePHandler`, `MCVirtio9p`, `MCFakeTcp`, `MCPanelFiles` | the values of the constants for TLC | extend the module they name |
| `PanelProofs`, `VmInstanceProofs`, `NinePProofs`, `FakeTcpProofs`, `Virtio9pProofs`, `PanelFilesProofs` | the theorems | extend the module they name (`NinePProofs`: `NinePHandler`) and `TLAPS` |
| `PanelAdminProofs` | the theorems about `PanelAdmin` | extends `PanelAdmin` and `PanelProofs` |
| `Virtio9pRefinement` | that `Virtio9p` implements `RequestReply` | extends `Virtio9pProofs` |

### Panel

JavaScript between two awaits is not interrupted, so it is one action. A
handler that awaits leaves a record in `reqs` that holds what it captured, here
the directory and with it the owner and the id, and goes on from it in later
actions: `CreateServer`, `EnsureDir`, `Extracted` (each with its failure) are
the create route; `DeleteServer`, `RemoveFiles`, `DeleteRecord` the delete
route. `db.js` loads and saves its files synchronously, so a database operation
is a part of the action that calls it.

- `servers` is a set of records with a `pos`, their place in the array: ids
  may repeat, and `find` takes the first. `GetServer`, `Updated` and `Without`
  are `getServer`, `updateServer` and `deleteServer` on it.
- `tokens` is every token ever issued. A token carries an id and a role and
  nothing revokes it, so a request may come with any of them.
- `disk` says of every directory whether it is absent, being unpacked, short
  of files, or complete. `Extracted` on a directory removed meanwhile leaves
  the files that were still to be written, or nothing.
- `NaN` is `parseInt` of a field that holds no number. It passes every
  comparison, and `Stored` makes it the null that the JSON file holds, which
  counts nothing.
- `Restart` ends the process and starts it again: the two maps and the
  handlers are gone, the files stay.

RAM is counted in units of 256 MB. Names, descriptions, disk sizes (which no
code reads) and passwords are left out.

### PanelAdmin

The synchronous routes are one action each; `DeleteUser` is the one that waits,
once for every server and once for the home directory, with the list of servers
it read at its start. `AdminAuthFirst` chooses between the routes as they are
mounted, where `requireAdmin` finds no `req.user` and refuses everyone, and the
routes with `requireAuth` before it, without which nothing behind it could be
checked. The role, the suspension and the limits of an account each keep their
value when the body leaves them out.

### VmInstance

Every callback of the event loop is one action. `Start` is
`VMInstance.start`; `WasmLoaded`, `FilesLoaded` and `Done` are the boot;
`YieldCallback` is a scheduled callback with `do_tick` in it, which runs a slice
(`MainLoop`), ends the loop (`StopTick`), or finds itself overtaken; `RaiseIrq`
is an interrupt that a device raises between two slices; `Stop` is
`VMInstance.stop` with `V86.destroy`. `MainLoop` keeps of the processor whether
it is halted (`hlt`) and whether it takes interrupts (`iflag`), and chooses
freely what the guest makes of them. `tick_counter` is counted modulo
`TickWindow`, and a number is used again only when its last callback is gone, so
equality of numbers means what it does for an unbounded counter.

### NinePHandler

`handle9p` is synchronous, so a request is one action: `Attach`, `Walk`,
`Setattr`, `Open`, `Clunk`, `Create`, `Symlink`, `Mkdir`, `RemoveFid` (Tremove),
`Unlinkat`, `Renameat`. The host has no modes, and a link that the guest makes
is an empty file there; what the guest is shown comes from the caches of modes,
links and types.

- `tree` says what the host holds at every place. `link` is an empty file made
  by Tsymlink, `hostlink` a link that `extractInitrd` made on the host;
  `existsSync` and `statSync` follow the latter, out of this tree, so a request
  meets any `Targets`.
- `store` has the caches (`meta`), the `.bin` files (`saved`) and the dirty
  flags. `Saved` is a request whose saves succeed. In `SaveFails` one of them
  throws: the fields before it are saved, its own file is as it was or cut to
  nothing, and the fields behind it are changed only if the code changes their
  cache before the first save (`ahead`), as `setSymlink` does.
- `Reload` is a new machine on the same directory: `loadMetadata`, no fids; the
  descriptors the last handler left open stay with the process or end with it.
- `Clunk` closes the descriptor before it forgets the fid.
  `ClunkFails` is a `closeSync` that throws in between: nothing is answered, the
  number is given up, and the fid keeps it. `unsure` has the numbers of such fids:
  what is opened next may get the same one, and the guest then writes through the
  old fid to the new file. `DescriptorsHeld` is about the fids that are not among them.
- `stray` collects the places whose metadata something has left behind, and
  `mishaps` counts what does: a failed save, a change by the file manager, the
  move of a directory with something in it. It also counts a close that failed.
  The properties say what holds everywhere else.

A request is given its place instead of a path below a fid's: the guest can walk
to every place that exists, and the host refuses what is gone. So a fid keeps its
descriptor only. Requests that are refused and requests that only answer
(Tversion, Tflush, Tgetattr, Treadlink, Treaddir, Tread, Twrite, unknown ones)
change nothing and are not actions. The guest is taken not to rename a name to
itself and not to remove or replace the directory it has mounted. The fourth
cache, of devices, is only read.

### Virtio9p and RequestReply

The guest's driver puts a chain of buffers into the available ring and writes to
the notification port; that write does not return before the handler of
`Virtio9pHandler` has emptied the queue. So `Submit` is the driver, then `Handle`
or `HandlerFails` takes requests one by one while `draining` holds, `Drained` is
`notify_me_after(0)`, and the guest goes on. `Interrupt` is the driver reading
`isr_status` and taking every answer. `Reset` is `VirtIO.reset`, which clears
the queue and leaves the map of tags as it is.

- Indices are modulo `IdxMod` (2^16 in the code) and a slot is an index modulo
  `Size` (32). A chain is named by its head; its descriptors and the split of a
  message into buffers are left out.
- `content` says whose answer is in the buffers of a chain. `Handle` writes it
  through `tag_bufchain`, as `SendReply` does, not to the chain it was called
  for: that these are the same is what `Implements` is about.
- `HandlerFails` is an error that reaches the outer catch of `handle9p`, which
  answers nothing. The guest then flushes the request: with the answer to the
  flush the tag is free again and the chain never comes back. Flushes
  themselves are always answered.
- `flush_replies` computes whether the driver wants an interrupt and raises it
  in any case; `PushReply` does too.

`RequestReply` knows two sets of tags, those that were asked and those that were
answered; `Implements` maps the requests without an answer in the used ring to
the first and the contents of the answered chains to the second.

### FakeTcp

A frame of the guest is handled synchronously, so an action of the guest is its
segment with the whole of `handle_fake_tcp`. What the adapter sends waits in
`toGuest` until `GuestReceive`, or is lost. The disjuncts of `Process` are the
branches and early returns of `TCPConnection.process`, in their order; `Close`,
`Released` and `Pump` are `close`, `release` and `pump`. The events of the
host's socket in `NodeNetworkAdapter` are `Connected`, `Refused`, `HostData`,
`HostEnd`, `SocketClosed` and `SocketError`.

- The guest has one tuple of addresses and ports, so `tcp_conn` is its entry in
  the table or `NoConn`. A second SYN makes a second connection (`on_tcp_connection`
  does not look), hence `Conn` and `conn`.
- A byte of the host is the pair of its connection and its number, a byte of the
  guest its number, so that streams can be compared. `received` and `written`
  are what each end has got.
- `Wire` reduces what a header carries modulo `W`; the adapter's own numbers
  are JavaScript numbers and are not reduced, as in the code.
- The guest's TCP is not part of the repository: it does what a TCP may do,
  which includes repeating anything that is not acknowledged, ACKs alone, data
  with a FIN, and a RST for what comes after its end. It may send its next bytes
  before the last ones are acknowledged.
- A socket is `"shut"` when `end()` was called, `"ending"` when the other host has
  ended it (Node then ends it in return), `"broken"` when it is written to after
  either of them, which raises an error as the adapter looks only at `destroyed` and
  `connecting`, and `"failed"` after an error.
- `mishaps` has the kinds of trouble of a history: a lost frame, a repeated SYN,
  an error of a socket, a reset. A socket whose connect is refused is not one.
- `ByteStream` is one direction: the sender's count grows until it closes, each step
  gives the receiver the next bytes only, and the end comes behind all of them.
  `HostToGuest(c)` and `GuestToHost(c)` map `FakeTcp` to it; a segment of the guest
  may be sent and written to the socket in one step, so both ends may act in one.

### PanelFiles

Each handler of `server.js` that waits for a file operation is a record in
`reqs` with its `stage`; one action is what runs from one `await` to the next.
`Upload`, `Measured`, `Moved` are the upload; `Install` to `RemoveDeb` the
installation of a package with its `finally`; `Uninstall` shares the three
actions of the list; `UpdateConfig` to `AssignLimits` the route of the limits.

- `fs.writeFile` and `fs.writeJson` cut a file before they write it, so a write
  is two actions and `Torn` is what a reader finds in between. Two writes that
  overlap leave either value or a mixture that does not parse.
- `pkg_extract` holds at most one `data.tar` of each compression, and `FindTar`
  takes any of them, as `readdir` may list them in any order.
- `getDirSize` is a walk of many awaits, so what it returns is the size of no one
  moment. `walks` says of each walk under way what it must find (`low`, and `kept`
  of the temporary files: what has stayed where it is), and what it can (`high`),
  and `Results` are the sums in between. Every action that changes the directory
  tells the walks what is lost to them and what comes (`Disturbed`). `RenameFile`
  loses what it moves: a walk may come across it twice or nowhere. `StatFails` is a
  failing `lstat`, which counts as nothing.
- `excess` of a walk is what it may not have counted although it is stored, and,
  behind the walk, what is stored or the limit lowered by before `fs.move` ends.
  `QuotaKept` allows an upload that much over the limit and no more.
- `limits` has `config.limits`, `LIMITS` and the limits in `config.json`. The file is
  whole (`WriteConfig`) before the handler goes on behind its await and assigns
  `LIMITS` (`AssignLimits`); other handlers, a restart, or a close that fails and
  leaves `LIMITS` as it was come in between. `LimitsSaved` says what holds outside
  that gap.
- `WriteList` may write the whole list and fail to close it: the list has the package,
  the answer is 500 and confirms nothing.
- `Fails` is any awaited operation that throws, at every stage; `DownloadFails`
  has the two outcomes of a download, an error that is answered and a response
  that is cut, which leaves the promise open for good; `Restart` ends every
  handler and leaves the files.
- `history` is not in the code. It records the overlaps after which a property
  no longer holds: two handlers that read the list before either wrote, two
  installations in one `pkg_extract`, one that found what a restart had left,
  two updates of the limits at once or one that failed behind its write. The properties show that nothing else
  breaks them.

## The runs

| Run | Configuration | Shows |
|---|---|---|
| `panel_lifecycle` | two accounts, two ids, two handlers in flight, one failure or restart | with no failure what `creation-progress` calls complete is ready and whole; a progress entry without a creation is left by a failure only; a deletion removes no other account's record and no other server's files; every creation and deletion ends |
| `panel_limits` | two accounts, three servers, four RAM inputs: below the minimum, the minimum, the limit, no number | types; the server limit; no request of a user takes its RAM over the limit; a machine runs with its record's memory and directory |
| `panel_orphan` | one server, one handler | *violated*: `NoOrphanVM` |
| `panel_admin` | an administrator and a user (either may become the other), one server, one handler, the deletion of an account, one failure | a suspended server does not run; a machine comes to run for a suspended account by a transfer only; the last administrator goes only while there is a token older than its account's role |
| `panel_admin_shipped` | the same, as mounted | *violated*: `AdminsNotRefused` |
| `vm_instance` | two emulators, ticks modulo 3 | the loop of a running emulator is alive and does not fork; no wake-up is lost; only an emulator that had not booted escapes its stop; destroy and boot end |
| `vm_crash` | the same | *violated*: `PanelOutlivesStop` |
| `ninep_handler` | two directories with a place in each, one unpacked as a link of the host, two fids, two descriptors, one mishap | types; metadata follow their file through every request and restart; a cache that is not marked is in its file; a fid's descriptor is open and its own unless its close has failed; no request gives up what is known of a file that stays |
| `virtio_9p` | two chains, indices modulo 4, three tags | types; an answer that was not taken is announced; `RequestReply` is implemented; every request ends |
| `fake_tcp` | one connection, two bytes of the host and three of the guest, numbers that wrap behind the second byte of either, one mishap | both streams arrive in order and once, and the end of a stream after its bytes; an open socket can be reached; connecting, delivering and closing end |
| `fake_tcp_syn` | two connections by a repeated SYN, one byte each way | types; nothing is sent after a FIN, and the table holds no closed connection |
| `panel_files` | two handlers, two packages of different compression, three requests, two failures or restarts, writes, removals and renames beside them | an upload passes its limit by no more than its walk may have missed; what is listed is unpacked; the list forgets nothing; the limits in force are saved |

The violated runs are disagreements between the code and what its comments or
its README say; `PROJECT.json` quotes the lines.

**Bounds.** Two accounts are the fewest with an owner and another, and the first
is the administrator. Two handlers in flight are the fewest that interleave: two
deletions of one server, a deletion and the creation it overtakes, or requests
of two accounts. `MaxNow` bounds the ids ever issued; with a server limit of 1 or
2 and one or two ids more, a limit is reached, a server deleted and its slot used
again. `MaxRecords` is as large as `MaxNow` where ids differ, and 3 for two limits
of 2 where they may not. `MaxFaults = 1` puts one failed file operation or one
restart at any point of any other history; the properties that must hold without
failures say `faults = 0` or `faults > 0` themselves. `TickWindow = 3` leaves
room for the current callback and two that were overtaken; the theorems about
the loop hold for every window. In `NinePHandler` two directories with one place
in each are the fewest in which a directory can be moved with its content, onto
an empty one and back, and a name be used again for another kind; two
descriptors are enough for one fid to use the number of another before or after it
and for both to be open; `MCBound` leaves the second out behind a mishap of the
metadata, which have no part in what descriptors do; and
`MaxMishaps = 1` puts one mishap anywhere in a history of any length. The two
fids are interchangeable, and so are the descriptors; the run uses both symmetries.

In `Virtio9p` two chains and indices modulo 4 wrap both the ring and the index
within three requests; with a third tag there are more tags than chains, and a tag
is used again while the chain of the request that failed under it is still with
the device. In `FakeTcp` two bytes with `ChunkSize = 1` are the fewest with
one segment on its way, one behind it and a FIN behind both, and with the guest's
third a byte may be written to a socket that a FIN has already ended; the numbers
of either wrap behind the second byte, so that streams with and without a wrap
end. A second SYN multiplies the states, so `fake_tcp_syn` has one
byte each way and only safety.
`MaxQueue` keeps the guest from repeating itself while answers wait. In
`PanelFiles` two handlers are the fewest that overlap, and three requests are
enough for two that overlap after one that failed, or before one that finds what
they left; with two failures a restart can follow a failed step. Storage is
counted in units of one package, with uploads of 2 and limits
of 2 and 3, so that one upload fits, with a package beside it or not, and two never
do. `MaxFiles` is one unit written beside the uploads, and `MaxExcess` stops writes and
renames when a walk has had one unit of them; an upload, which it does not bind, and
`lstat` can make a walk miss more. Each package has a compression of its own, and the run uses the symmetry of
packages and of handlers.

`CHECK_DEADLOCK FALSE` stands in the configurations of the panel, of its files, of
the emulators and of the network because the bounds end every history: the clock,
the requests and the fault count reach their bound, every emulator has been
started and stopped, and a connection is over. The runs of `NinePHandler` and of
`Virtio9p`, which always take requests, check for deadlock.

**Fairness.** `Panel!FairSpec` has weak fairness of `Proceed(n)` for every
handler in flight: the file operations it awaits end, well or badly, and Node
then continues it. Clients, the clock and failures owe nothing.
`VmInstance!FairSpec` has weak fairness of the boot of every emulator and of
every callback that `setImmediate` or `setTimeout` was given: the event loop runs
what is due. Devices, clients and the guest owe nothing. `Virtio9p!FairSpec` has
weak fairness of the notification handler, which is a loop that runs to its end,
and of the interrupt that is raised; nobody need submit a request.
`FakeTcp!FairSpec` has weak fairness of what Node does with a socket (a connect
is answered or refused, a socket that was ended closes) and of what every TCP
does: it takes its frames, acknowledges, resets what it does not know and repeats
what is not acknowledged. Programs of the guest and the other host owe nothing.

## What is proved

`PanelProofs`, `PanelAdminProofs`, `VmInstanceProofs`, `NinePProofs`,
`FakeTcpProofs`, `Virtio9pProofs`, `Virtio9pRefinement` and `PanelFilesProofs` are
checked by TLAPS to the last leaf. They assume of the constants what the named
`ASSUME`s of the modules say and, where that is said, `OneCreatePerMs` or
`MaxGuest < W`. Every invariant and every action property that a passing run checks
is stated by one of them.

- `PanelTypeCorrect`: `Spec => []TypeOK`. `TypeOK` is inductive because it says
  of `servers` that no two records have one place and of `running` that no two
  machines have one id: the first makes `GetServer` a choice of exactly one
  record, the second is what the check in start and the removal in stop keep.
- `PanelServerLimit`: `Spec => []ServerLimit`, for both values of
  `OneCreatePerMs`. The count alone is not inductive. `LimitInv` adds that
  `servers` is finite; that every record belongs to an account that exists, so
  that one that registers starts with none; and that a token still carries the
  role of its account, without which a create could come with a token of an
  administrator for an account that is a user now (`PanelAdmin` has such states).
  `Updated` keeps every owner and `Without` only removes, so only
  `CreateServer` adds, and it counts before it does.
- `PanelFilesPersist`: `Spec => FilesPersist`. A restart, a failed extraction and
  its end touch only directories that are being unpacked, so `TypeOK` is enough.
- `PanelRunsAsRecorded`, `PanelNoStaleProgress`, `PanelCompleteMeansUsable`,
  `PanelDeletesOnlyItsOwner`, under `OneCreatePerMs`. All rest on `OneCreateInv`,
  which is inductive. `IdsInv`: an id of a record, a machine or a handler is below
  `now`, and no two records share one, so `GetServer` is a lookup by a key. Every
  step is then one of records (`RecordsStep`) and of machines (`MachinesStep`), from which
  `MachinesInv` follows. `HandlersInv`: one creation for an id, and each handler is
  for the owner in the record. `DirsInv`: no directory is used before its id is
  issued, so a creation starts with none. `SoundInv`: with no failure a record is
  being deleted, usable, or being created with an entry in `progress` and a
  directory that fits the stage.
- `PanelKeepsRamLimit`: `Spec => UsersKeepRamLimit`, under `OneCreatePerMs`. Create
  checks the sum it adds a size to, and startup the sum without the server whose
  size it replaces; with a shared id startup would leave two records out of the sum
  and change one, so an id has to name one record (`IdsInv`). `TotalRam` is a fold
  that takes the servers in the order of `CHOOSE`. That a server more adds its size
  (`TotalAdd`) whatever that order is, that a subset has no larger sum (`TotalFewer`),
  and that the fold is defined at all (`SumsExist`, `SumsUnique`) are proved by a
  counterexample of the least cardinality (`LeastNatural`). A field that holds no
  number passes the comparison and is stored as what counts nothing (`NotRefused`).
- `AdminSuspendedServerStopped`, `AdminSuspendedRunsByTransfer` and
  `AdminLastByStaleToken`, under `OneCreatePerMs`. `AdminInv` is `IdsInv`, which
  every route of an administrator keeps, with two parts of its own: a machine has
  no record that is suspended, and a deletion of an account in flight was begun
  with an administrator's token of another account, which is still there when the
  deletion ends. For the steps of `Panel` they need of it only `RecordsStep`,
  `MachinesStep` and that nobody is suspended or loses a role (`PanelAccounts`).
  Machines and records disagree here after a transfer or a change, so `MachinesInv`
  is no part of it.
- `VmTypeCorrect`: `Spec => []TypeOK`.
- `LoopNeverForks`: `Spec => []OneLoop`. Of the callbacks of an emulator at most one
  carries its newest number, as `NextTick` counts before it schedules and takes a
  number only when no callback has it.
- `LoopNeverLost` and `WakeUpsNeverLost`: `Spec => []LoopAlive` and
  `Spec => []AwakeRunsAtOnce`. Every action that takes the newest callback away, or wakes the
  processor, schedules another with `NextTick`; the invariant `IInv` adds `BootOrder`: an emulator is
  idle between two callbacks, which is the condition under which an interrupt
  schedules, and it runs only when it has booted.
- `EscapesOnlyUnbooted`: `Spec => []OnlyUnbootedEscapes`, which needs of
  `BootOrder` that an emulator without its `VMInstance` has been destroyed, and
  that a destroy that waits has told a running loop to stop.
- `CacheAlwaysSaved`: `Spec => []CacheSaved`, which is inductive. Every request
  changes the store by `Saved` or `SaveFails`, and one lemma for each says that
  a field ends equal to its file or with its flag set, whichever save failed.
- `DescriptorsAlwaysHeld`: `Spec => []DescriptorsHeld`, inductive once `fids` is
  known to be a function to numbers (`DescInv`). A fid takes only a free
  descriptor, and whoever closes one forgets its number in the same request, or the
  number is `unsure`; that Tremove and Twalk leave descriptors open costs numbers and
  harms no fid.
- `NineTypeCorrect`, `MetadataAlwaysFollows`, `MetadataAlwaysStays`: for any tree of
  places, any number of fids and of mishaps. `NinePAssumption` says that the places
  are closed under prefixes and that what is unpacked is a tree. `NineInv` adds three
  parts to `TypeOK`. `IsTree`: what has something below it is a directory, without
  which a rename could put content under a file, or two contents at one place.
  `Followed` says more than `Fits` of a file, namely that its type is recorded: a
  rename moves only entries that exist, so a file without a type would take over the
  link that was at its new name. `SavedAlike`: until a save fails the files equal the
  caches, so a restart forgets nothing. The lemmas on `MovedTo` (places keep their
  order below the new name, and no two meet) make a rename a change of the two
  names and of `LeftBehind`; a request then keeps the invariant by
  `SavedKeepsInv` or `FailedKeepsInv`, whichever of its saves failed.
- `FakeTcpTypeCorrect` and `FinAlwaysLast`: `Spec => []TypeOK` and
  `Spec => []FinIsLast`, for any number of connections. Neither is inductive:
  that the table never holds a closed connection needs `TableInv`, which ties
  the entry to a connection that lives and whose socket was accepted, so that a
  repeated SYN does not take its object; and that a connection with
  a FIN has an empty buffer needs `GoodConn`: the buffer is empty in every state
  behind the FIN, and a FIN waits for the buffer only in a connection that was
  active and takes no more bytes.
- `SocketsAlwaysReachable` and `HostStreamKept`, for any number of connections and of
  bytes. `OpenInv` says of every socket what of the guest's stream is acknowledged
  to it, that nothing has passed one that has not connected, and that a connection
  is closed for writing only when its socket is not read any more. `SoloInv` is
  about a history with one SYN. There is then at most one connection with a socket (`Alone`),
  which is `Idle`, `Waiting` for its socket, or `Accepted`. Of an accepted one,
  `HostFlow` says that the buffer goes on where the acknowledged bytes end, that what
  the guest has beyond them is of the chunk that is pending (`Stream`), and that at
  most one frame on its way carries what the guest would take next (`Frames`); a
  second one would be taken twice or end the stream early. An acknowledgement is
  counted once because what it says and what was counted before differ by no more
  than a chunk, and `FakeTcpAssumption` has `ChunkSize` below `W` (1460 and 2^32 in
  the code): a chunk of `W` bytes would look as if nothing was acknowledged.
- `GuestStreamKept`, with `MaxGuest < W`. `OrderInv` is the order of what was written,
  on every connection, whether overtaken or not; `GuestFlow` that a socket which is
  open, or was ended by the guest's FIN, has all that the guest has sent. The
  adapter takes bytes whose number equals the one it expects, and it does not reduce
  its own, so a stream stops at the last number. In a stream of `W` bytes or more a
  later byte could have the number of an earlier one and be taken for it, hence
  `MaxGuest < W`. `Isns` may be any numbers, also those from which a stream wraps.
- `GuestStreamImplemented`: `Spec => GuestToHost(c)!Spec` for every connection, with
  `MaxGuest < W` and through any mishaps, a repeated SYN included. Beside `OrderInv` it
  needs `SentInv`, that no socket has more than the guest sent. The mapping leaves out
  the end of the stream: the adapter takes a FIN whatever its number and its bytes, so
  the promise about it is not kept (`GuestStream` says where it is).
- `HostStreamImplemented`: `Spec => HostToGuest(c)!Spec` where `c` is the only
  connection. Then no SYN is repeated (`SoleSingle`), so `HostStream` holds of it in
  every state, and the steps that remain to be shown are that nothing is taken back and
  that nothing comes behind the end. After a second SYN bytes of two connections may
  reach the guest one behind the other, so what it receives is the stream of neither.
- `VirtioTypeCorrect`, `RepliesAnnounced`, `RequestsNotMissed`: the indices stay
  in their range; an answer that was not taken has its interrupt raised; and when
  the device is not in its handler, it has taken every request and `avail_event`
  is the entry that the driver fills next, so the next `Submit` notifies it.
- `VirtioImplementsRequestReply`: `Spec => Implements`. The invariant says that
  the chains in the used ring that the driver has not taken are distinct, each
  with the answer to its request, and that the one request the device has not
  taken is the one it was notified of. Distinct chains are no more than `Size`
  (the pigeonhole principle of `FiniteSetTheorems`), so the positions in between
  fall into different slots and an answer overwrites none that is still there;
  the lemmas on `Plus`, `Minus` and `Slot` rest on `Size` dividing `IdxMod`. What
  `tag_bufchain` keeps of requests that were given up is never read, because
  `Handle` sets the entry it reads. Every action is then a step of
  `RequestReply` or a stutter.
- `QuotaAlwaysKept`, `LimitsAlwaysSaved`, `InstalledAlwaysListed`,
  `ListedAlwaysUnpacked`: the four properties of `PanelFiles`, for any number of
  handlers, packages, formats, failures and restarts. The invariant has a part for
  each hazard. `QuotaInv`: what is stored is no more than the walk of an upload must
  find and its excess, and once the upload was let through there is room for it but
  for its excess. Each change of the directory keeps that because `Disturbed` takes no
  more from `low` than it adds to the excess or takes from what is stored
  (`DisturbedQuota`). `ConfigInv`: an update that met no other is the only one and writes
  what `config.limits` is, and until it assigns `LIMITS` the file has that or is cut.
  `ListInv`:
  unless two have read the list before either wrote, the one handler that has read
  it knows what is in it, and holds every confirmed package while the file is cut.
  `ExtractInv`: an installation that is alone in `pkg_extract` finds its own
  archive there, and the directory exists only with an installation in it or as a
  leftover. `SeenInv`: what a handler has read is unpacked or doubtful. An action
  touches one or two parts, and the Keep lemmas carry the others.

Model-checked only: the leads-to properties, which need fairness and so `ENABLED`
(`CreationEnds`, `DeletionEnds`, `DestroyEnds`, `BootEnds`, `ConnectEnds`,
`HostDelivered`, `BothEndsClose`, `RequestsEnd`). `UsersKeepRamLimit` and
`RunningAsRecorded` where ids may repeat are neither checked nor proved: the runs have
`OneCreatePerMs`, too.

## Not modelled

The processor, the JIT and the devices are upstream code whose state is data;
`VmInstance` keeps the two bits the run loop depends on. They are by far most of
the lines of the repository, with the web frontend and the editor bundled with
it. The terminal sockets pass bytes and keep nothing. The frontend can send
nothing that is not already an input here. A database file that is torn by a
crash while it is written stops every later request, and no code answers that.
`9p_handler.old.js` is not imported. Of the 9P server the contents of files, the
answers, device nodes (metadata without a file on the host) and the JSON files
that `loadMetadata` reads of older versions are left out. The codec of the
metadata files keeps no state; a save that throws because a count or a length is
beyond 16 bits is one of the failures of `SaveFails`.

Of virtio the registers of the configuration space and saved states are left
out; of the network ARP, DHCP, DNS, ICMP, NTP and UDP, which answer a frame and
keep nothing, and connections into the guest, which nothing in the panel makes.
A `VMInstance` that is stopped leaves the sockets of its adapter open.

Of these the modules are silent although the code has them: a fid keeps the path
it was walked to when a directory above it is renamed; the metadata of what is
below a directory that is renamed stay under the old names; two handlers on one
directory, after an emulator that had not booted escaped its stop, overwrite
each other's caches; two servers created in the same millisecond share an id, and
`OneCreatePerMs` says where that is excluded.

## Plan

1. A composition of `VmInstance` and `NinePHandler`: two emulators on one
   directory.
2. `MetadataFormat`: the codec as functions, what a file that was cut reads as.
