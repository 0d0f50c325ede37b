# TLA+ models of vmango

vmango is a web interface for libvirt: one Go process (`bootstrap.Web`) serves
HTML forms with `net/http`, keeps the ssh keys it hands to new machines in a text
file, and does everything else by calling libvirt on the hypervisors ("nodes") of
its configuration. It keeps no database; the state is that of libvirt, of the key
file, and of two caches in memory. systemd restarts the process when it dies
(`vmango.service`). The console of a machine is a page in the browser: noVNC with
vmango's own user interface (`ui_vmango.js`) for the display, xterm.js
(`vmango.WSConsole.js`) for the serial line, each on a web socket that the process
copies to and from a libvirt stream.

This directory specifies the parts where goroutines, callbacks, timers, failures
and crashes interact, on both ends of that web socket, checks them with TLC, and
proves with TLAPS what it can of the server's own part: the connection pool, the
lifecycle of a machine and its disks, its devices, the collection of pages from several
hypervisors, the key file, the sizes of volumes and the order of what a web socket carries;
and, in the browser, of the sessions, view, pointer and keyboard of the VNC page and of what
is typed at the console terminal.

## Running

    tlc -config pool.cfg MCConnectionPool.tla      # any cfg with its MC module
    tlapm ConnectionPoolProofs.tla
    tlapm NodeListingProofs.tla
    tlapm VmLifecycleProofs.tla
    tlapm DomainDevicesProofs.tla
    tlapm RepositoryProofs.tla
    tlapm InputProofs.tla
    tlapm VncViewerProofs.tla
    tlapm SubsequencesProofs.tla                   # the lemmas on lists they share

`PROJECT.json` lists the runs, the mutants that show what each property rejects,
the source lines every definition models, the hazards and the theorems.

## Inventory

| Component | State it keeps | Operations | What is hard | What makes it correct |
|---|---|---|---|---|
| Connection pool (`libvirt/connection_pool.go`) | map from URI to connection and mutex, an RWMutex over the map | Acquire, Release, Nodes | a write lock, a read lock and a mutex nested; libvirt calls made under the locks; a map read without lock; connections die | one user per URI, the user has the cached connection, it is not replaced under him, every Acquire returns |
| VM manager (`compute/virtual_machine_manager.go`) | none of its own | Create, Delete | a dozen libvirt calls, each may fail, others interleave, nothing is transactional | a reported success is complete, vmango runs no half-made VM, deleting one VM spares the others |
| VM repository (`libvirt/virtual_machine_repository.go`, `.._marshalling.go`) | domains in libvirt; configdrive cache | Save, Delete, List, Get, Start, Poweroff, Reboot, attach and detach of volumes and interfaces, console and graphic streams | read-modify-write of XML, fan-out to nodes, an unsynchronised cache, streams that outlive the lock | edits only of stopped domains, no lost edit, cache never wrong |
| Volume repository (`libvirt/volume_repository.go`) | volumes in libvirt pools, image metadata from the configuration | Create, Clone, Resize, Delete, Upload, Get, List | partial clone, protected images, sizes that no word holds | protected images survive, one disk has one user, a volume is as large as asked and never shrinks |
| Event broker (`filesystem/scripted_compute_event_broker.go`) | list of subscriptions | Subscribe, Publish | scripts run in the middle of Create | in order, first mandatory failure stops |
| Key repository (`filesystem/key_repository.go`) | lines of the key file | Add, Delete, List, Get | no lock, truncate and rewrite, scanner limits, a list that points into the scanner's buffer | no key lost or doubled, the guest gets the keys chosen |
| Device namer (`libvirt/device_namer.go`) | counters per bus | Next | names of attached disks, 26 letters | names unique |
| Network, volume pool, node repositories (`libvirt/*_repository.go`) | none | Get, List | index arithmetic on libvirt's ids | no panic |
| Config drive (`configdrive/`) | temporary files | GenerateIso, ParseIso | external commands | what is written is read back |
| Web handlers (`web/env_handler_*.go`) | none; two goroutines per console | forms, pages, websockets | stale forms, goroutines that outlive each other | every form maps to one operation |
| Sessions and login (`web/env.go`, `env_session.go`, `env_handler_auth.go`) | signed cookies | login, logout, `authenticated` | | |
| Configuration, bootstrap (`config/`, `bootstrap/`) | constants of the process | Parse, Web | | |
| VNC session (`core/rfb.js`, `core/websock.js`) | connection and handshake state, receive queue, timers | connect, disconnect, sendCredentials, one step per frame | a frame is any piece of the stream, timers outlive what set them, a new session begins while the old one ends | sessions stay apart, a handshake does not stop with a message unread, disconnecting ends |
| VNC page (`app/ui_vmango.js`, `app/webutil.js`) | the session, dialogs, status line, key buttons, settings | connect, reconnect, password, buttons, settings | events of a session that is gone, two sources of truth for keys and settings | the page says what is, and why a session ended |
| VNC receive path (`core/rfb.js`, `core/decoders/`, `core/display.js`) | rectangle under way, render queue | an update in every encoding | readers back up by hand, images load later than what follows them | the reader stays in step, the picture is what was sent, the next update is asked for |
| VNC keyboard, pointer, display (`core/input/`, `core/display.js`, `core/util/events.js`) | keys and buttons down, viewport, damage | key, mouse, touch, wheel, resize, clip, scale, drag | events without a partner, timers, AltGr, an emulated capture, flips that wait | nothing stays down in the guest, the canvas shows what it should |
| Console terminal (`xterm.js`) | lines in a circular list, two buffers, cursor, parser, selection, hidden textarea | control functions, resize, scroll, select, type, compose | a list that trims, splices and re-wraps under its users, rows redrawn only when named, chunks cut anywhere | text is kept, shown, selected and sent once |
| Console page (`vmango.WSConsole.js`, `fit.js`) | terminal and socket | open, fit, write, send | greetings and the first message | the guest's output is what is on the screen |
| noVNC cursor, encryption, logging; renderers of xterm.js; page scripts | presentation | | | |

Interaction: a handler runs in a goroutine of its own and calls a repository
directly or through the VM manager. Every repository call is
`Acquire(node)`, a few libvirt calls, `defer Release(node)`; all repositories
share one pool, so the calls to one hypervisor exclude each other and a *sequence*
of calls excludes nobody. The manager calls the VM repository, the volume
repository and the event broker; the broker runs shell scripts. List operations
of the VM repository start one goroutine per node. A console handler ends its hold
on the pool before it copies; from then on browser, handler and libvirt's stream
go on by themselves. In the browser everything is a callback: of the socket, of
the keyboard and mouse, of timers, of the image decoder and of animation frames,
one at a time, on state they share.

## Modules

| Module | Models | Composition |
|---|---|---|
| `NodeLock` | what the pool promises: at most one owner per hypervisor, a request is granted or refused | abstract |
| `ConnectionPool` | `connection_pool.go` lock by lock | implements `NodeLock` |
| `ConnectionPoolProofs` | theorems on `ConnectionPool` | extends it |
| `VmLifecycle` | `virtual_machine_manager.go` and the repository calls it makes | one call is one step because of `NodeLock` |
| `VmLifecycleProofs` | theorems on `VmLifecycle` | extends it |
| `KeySet` | what the key repository promises: a set of keys | abstract |
| `KeyFile` | `key_repository.go` system call by system call | implements `KeySet` until a mishap |
| `KeyScanner` | `List` and `Get` of the keys byte by byte, and the keys of a configdrive | reads the file of `KeyFile` while nobody changes it |
| `VolumeSizes` | `compute/size.go`; `Create`, `Clone` and `Resize` of `volume_repository.go` | one request at a time because of `NodeLock` |
| `RepositoryProofs` | theorems on `KeyFile`, the refinement of `KeySet`; theorems on `VolumeSizes` and `KeyScanner` | extends all three |
| `NodeListing` | `List` and `Get` over several nodes, the configdrive cache of `domainToVm` | uses the promise of `NodeLock`: one owner per hypervisor |
| `NodeListingProofs` | theorems on `NodeListing` | extends it |
| `DomainDevices` | attach and detach of volumes and interfaces, `Save`, `device_namer.go` | one edit holds the connection (`NodeLock`) |
| `DomainDevicesProofs` | theorems on `DomainDevices` | extends it |
| `Subsequences` | the loops that keep some elements of a list (`Keep`) | operator of `KeyFile`, `KeyScanner`, `DomainDevices` |
| `SubsequencesProofs` | lemmas on `Keep`, on the elements of lists, on `FlattenSeq` and on folds | extends it; used by five of the proof modules |
| `ConsoleProxy` | the console and VNC websockets | starts where `Release` ended the hold on the connection |
| `NodePage` | `NodeRepository.Get` and `parseCpuAffinity` | one call, holds the connection throughout |
| `RfbSession` | one RFB object: `core/rfb.js` without its decoders, `core/websock.js` | operators on a session record |
| `VncViewer` | the VNC page, its sessions, servers and sockets | extends `RfbSession` |
| `VncViewerProofs` | theorems on `VncViewer` | extends it |
| `VncStream` | the receive path: websock queue, `_framebufferUpdate`, decoders, render queue | starts where `RfbSession` is connected |
| `VncKeyboard` | `core/input/keyboard.js`, `util.js`, `sendKey` | |
| `VncScreen` | viewport, scaling, damage and flips; the page's view settings | |
| `VncPointer` | `core/input/mouse.js`, capture, viewport drag | extends `VncScreen`: it points at what is shown |
| `TermList` | xterm's `CircularList` | operators |
| `TermLines` | a line of cells; packing and cutting of wrapped lines | operators |
| `TermBuffer` | `Buffer` and `BufferSet`: resize and reflow | extends `TermList`, `TermLines` |
| `TermSelection` | `SelectionModel`, `SelectionManager` | extends `TermBuffer` |
| `TermScreen` | `InputHandler`, scrolling, redrawing, the console page | extends `TermSelection` |
| `TermParser` | `EscapeSequenceParser` over classes of characters | operators |
| `TermConsole` | what the guest sends, chunk by chunk, through parser and screen | extends `TermScreen`, `TermParser` |
| `TermTyping` | `CompositionHelper`, key events, clipboard, the hidden textarea | |
| `TermPage` | the whole console page | extends `TermConsole`, `TermTyping` |
| `InputProofs` | theorems on `VncScreen`, `VncPointer`, `VncKeyboard`, `TermTyping` and `ConsoleProxy`, the way from the user to the guest | extends them |
| `MC*` | small constants for TLC | extend their module |
| `MCRepositories`, `MCVncInput` | the same | put modules with nothing in common side by side in one run |

### ConnectionPool

A thread is a goroutine inside a repository call. `pc` is its place in `Acquire`
or `Release`:

| `pc` | code |
|---|---|
| `idle` | not in the pool |
| `wlock`, `drain`, `insert` | `cacheMu.Lock` (own the writer slot, wait for the readers), then lines 62-70 |
| `rlock`, `rwait` | `cacheMu.RLock`, queued behind a pending writer |
| `mulock` | `cache[uri].Mu.Lock`, read lock held |
| `check`, `open` | `IsAlive`; `NewConnect` |
| `return`, `fail` | about to run the deferred `RUnlock` |
| `using`, `release` | the caller's libvirt calls; `Release` before its map read |

Go's RWMutex is modelled as it works: a writer announces itself, later readers
queue, and its unlock lets the queued readers in. A connection is its generation
number `gen`, `handle` is what a caller got. `IsAlive` may fail on a good
connection; `ConnDies` may happen under a user. `RaceCrash` is the Go runtime's
"concurrent map read and map write": `Release` reads the map without the lock
while a thread stores a new entry. The process is then down until `Restart`.

Properties: `PoolSafe` (`MutualExclusion`, `GuardedMapRead` and `HandleIsCurrent`),
`RaceOnlyWhileWarming` (the crash needs a hypervisor that was connected to and
another that was not, so it cannot happen with one hypervisor, or once each was reached
in this life of the process, however connections die afterwards), the refinement `ImplementsNodeLock`, and the liveness property
`HealthyNodeServed`: every Acquire for a hypervisor that answers returns, and it
states precisely how far a hung one reaches: one request that hangs while
it *uses* the connection harms nobody else, but as long as a second one for that
hypervisor is queued in `Acquire` it holds the read lock of the whole pool, the
next `Acquire` waits for the write lock, and everybody behind it waits too.

Fairness: goroutines are scheduled (WF of a thread's own steps); Go mutexes are
not starved because of their starvation mode (SF of taking a lock); a libvirt call
returns (WF), except for the URIs in `HungUris`; systemd restarts (WF).

### VmLifecycle

One hypervisor. Volumes are paths that are absent, blank or filled; a domain has a
list of disk paths, runs or not, autostarts or not. `jobs[r]` is the Create or
Delete a request is running: `make` (clone and create volumes, then `Save`), `cd`,
`upload`, `attach` (the configdrive), `publish` (scripts), `cleanup` or `start`;
`get`, `undefine`, `delvols`. Each step is one repository call with its failure as
an action of its own, and failures keep what the call had done when it failed
(a clone whose resize failed leaves the volume; a Save whose autostart call failed
leaves the domain). `User*` actions are the other forms. `HostReboot` starts the
autostart domains, `Crash` ends vmango between any two calls.

A step is a whole repository call because the pool gives the hypervisor to one
call at a time, which is what `ConnectionPool` implements; other tools that
change the same hypervisor are modelled only in the initial state.

History variables say who touched what: `creator`, `approved` (its scripts are
over), `booted` (the host started it when it
last booted), `outside` (somebody other than its Create and the host's boot changed
the domain or its disks), `byPath` (a volume attached by naming its path), `lost` (a volume deleted
while a domain or a request still named it).

Properties: `NoHalfMadeVm` (`CompleteOnSuccess`: a Create that reports success left
everything in place, and a boot of the host changes nothing in that; `RunsOnlyComplete`:
what runs and nobody else touched has its configdrive filled and attached and its
scripts passed, *or* a boot of the host started it), `SharingExplained`, and
`DeletesExplained` (`DeleteSparesOthers`, `ProtectedSurvives`). The last two hold
with an exception that is worth knowing: domains can share a disk when somebody
attached it by path, and when a volume was deleted while a request or a domain
still named it (nothing in `volumes.Delete` looks at either).

The second half of `RunsOnlyComplete` is real: `Save` switches autostart on
(`virtual_machine_repository.go:583`) before the configdrive exists and before any script
ran, so a boot of the host meanwhile, or after vmango died or Create failed, starts what
there is by then, provided that its disks still exist. That includes a machine that a
mandatory script refused: Create ignores the error when its removal fails. vmango's own
steps never start one.

`vm_script` is expected to fail: the sample configuration says that `vm_created`
scripts run "when new vm created", but a Create whose name is taken updates the
existing domain, runs the scripts for it, and when a mandatory one fails deletes
it.

### KeyFile

The file is a sequence of lines; a line is a key, a comment, blank, or longer than
`bufio.Scanner` takes. `ended` says whether the last line has its newline. `Add`
is a read and an append, `Delete` a read, a truncation and a write, each step with
its failure; `Crash` may come between them. A short write leaves a prefix whose
last line may be cut. `mishaps` records which of six things happened; the
properties say that *only* these lose a key (`LossExplained`) and only three of
them double one (`DuplicatesExplained`), together `MishapsExplain`, and that up to
the first mishap the file is a set of keys (`ImplementsKeySet`). An `overlap` is what a
rewrite would destroy: it is noted when `Truncate` finds a file that is not, but for
blank lines and the key to delete, what the rewrite has in memory. That compares with
the whole file, not with what a scan of it yields: a line that a scanner stops at can
hide an `Add` between the read and the truncation.

### KeyScanner

`bufio.Scanner` reads into a buffer that it shifts, doubles up to a limit and
overwrites, and `List` keeps slices of it as the values of the keys. A byte is
`<<line, place>>`, so one sees in the buffer which line a byte came from; a scan is the
arrays the scanner has had, its window, and how far it has read the file. A key of
`list` is what was parsed and where in which array its text is. `CreateVm` is the form of
a new machine: the keys chosen from the list, looked up again and written to a
configdrive of either format; `ConfigKeys` is what the machine's page reads from it.

Property: `KeysDelivered`, which is `ListSound` (fingerprints and comments are right
and in order whatever moves; the values too if nothing moves) and `KeysReachGuest`.
`HeldInPlace` says when nothing moves: the file fits into the buffer, and what the
last read has to wait for at its end is near the front. The exceptions: in any other file
a value may be the bytes of other lines, which then go into the configdrive; and the
OpenStack format, a map from comments, keeps one of two keys with the same comment.

### VolumeSizes

A size is a number and a unit from a form. `Bytes` multiplies modulo `Word`; libvirt
takes number and unit separately from `Create` and `Clone` and refuses what no word
holds (`Fits`). A request is a chain of libvirt calls: create or clone, for a qcow2 clone
that is to be larger a resize (`grow`), and `virVolumeToVolume`, which reads the volume
back (`describe`); each may fail and leaves what the calls before it did. `seen` is
the size of the original that `Clone` read first. `Operator` is virsh, which resizes
and deletes at any time; `before` and `meddled` are history.

Property: `SizesSound`, which is `SizeAsAsked`, `FailureLeavesOneVolume` and
`NeverShrinks`. The exceptions: `Resize` hands libvirt the product, so a number of
gigabytes beyond the word asks for its remainder, and succeeds if that is larger than
the volume; a clone whose resize failed stays in the size of its original under the name
the user will try again; a resize that an operator overtook is not claimed to have the
size asked for. The size of a new machine's memory is made by the same `Bytes` in
`virtual_machine_repository.go` and is not modelled a second time.

### NodeListing

A worker `<<q, n>>` is the goroutine that `List` starts for request `q` and node
`n`; `Get` is one worker without the appending. `wk[w].pc` is its place: `acquire`,
`list` (`ListAllDomains`), `convert` (the loop around `domainToVm`, `todo` being the
domains left), `parse` (`parseConfigDrive`), `lockcache` and `store` (the two lines
around the cache write), `release`, `lockresult` and `append` (the mutex of the
result slice), `finished`. `copy` is the slice header `append` has read. The result
is a set of rows, as no page depends on their order. Volumes and networks are read
in one step: they use neither cache nor conversion. `only` is a set: a node that a
request names twice is not modelled.

A configdrive has a version, the number of the change that wrote it. `Remove` and
`Create` replace the VM of a path at any time, `Die` is the end of the process by a
panic in a goroutine of `List` (`PanicInList`; net/http recovers only its own) or
by Go's check of concurrent map accesses (`MapRace`), `Restart` is systemd. History
variable: `shown`, the version a page last showed of a path.

Properties: `SharingSound`, which is `AnswerComplete` (a finished List has exactly the
rows of the nodes that answered), `OnlyHoldersOwn` (error and panic paths give the
connection back) and `RaceNeedsTwoHypervisors` (the unguarded cache read races only with
a goroutine of another hypervisor, which is when the process can die);
`NeverBackToOlder`; `ListReturns`. `NeverBackToOlder` is for paths that only one
hypervisor has; where two hypervisors have the same volume path, the cache, which is
keyed by path alone, shows the VM of either one. It does not say that a page is up to
date: a cached configuration is shown as long as the process lives.

Fairness: goroutines are scheduled and libvirt answers or fails (WF of `Step`, of
`PanicInList`, of `Return`); a mutex reaches everybody who waits (SF of `Locks`),
which for the connection is `HealthyNodeServed` of `ConnectionPool` when no hypervisor
hangs.

### DomainDevices

The persistent XML of one domain: the disks with bus and target letter, the
`<interface>` elements, the QEMU arguments. The id of a netdev is its number;
`NoId` is an argument without one, `ForeignId` one an operator chose. A request holds
the connection between `Read` (lookup, state check, XML) and `Define`; `owner` is
that hold. `DetachInterface` is two such calls: the first failing to find the
interface leads to the second, and every other error of the first is dropped and
answered as "done", as the code does; `failed` remembers that there was one. Operators add a device or a NIC with their own tools at any time,
also between a request's read and its define.

History variables: `acked` (attachments reported as done and not detached since) and
`mishaps` (an edit fell into somebody's copy; a detach went on without any argument
that carries the MAC; the MAC was the empty one that the page shows for a NIC without
MAC).

Properties: `DevicesSound` (`NamerNeverCollides`, `AckedStay`, `NetdevsPaired`,
`OperatorDeviceKept`) and `DetachRemoves`: a detach of a MAC that answers "done" has taken
exactly one NIC with that MAC from the domain, as it was when the new XML was defined, and
left all disks and other NICs. The exceptions they name are behaviours of the
code: the dropped error of the first half ("done", and nothing was removed); with no
carrier of the MAC the needle is empty, every argument *without* an id goes and no NIC
does; and the empty MAC takes the last device.

### ConsoleProxy

A session has a handler and a pump. The handler upgrades, opens the stream
(`Open` starts the pump), and copies the browser to the stream; the pump copies the
stream to the browser. Messages are numbered per direction. `Open` with
`DOMAIN_CONSOLE_FORCE` breaks the stream of every other console session of the VM.
`kind` says whether a session is a console, whose handler closes its stream when
it returns, or VNC, whose handler does not. Nobody closes a websocket.

Properties: `SessionsSound`, which is `InOrder` (what reached the VM, and what reached the
browser, are the first messages sent, none missing, doubled or swapped) and three on how
sessions end. `ConsolePumpEnds`: the closed
stream ends a console's pump. `VncPumpEnds` and `HandlerEnds` say exactly what can
keep a goroutine for ever: a VNC pump whose VM keeps the connection and sends nothing,
a handler whose browser stays and types nothing. Fairness: the goroutines are
scheduled (WF of `HandlerStep`, `PumpStep`); browser and VM owe nothing.

### NodePage

`Get` is a sequence of libvirt calls: `GetCapabilities` (rows per cell and CPU),
`GetFreePages`, `ListDomains`, one step per VM for the pins, `Filter`. Host state:
cells, online CPUs, pages, free pages, and each VM's `<cputune>`; it changes between
the calls (`SetPages`, `UsePages`, `SetOnline`, `Retune`). Slices are functions on
`0 .. n - 1`; an index outside is `Panic`, which net/http recovers. The page sizes
come in the order of a Go map iteration: any. Unsigned numbers are modulo `Wide`. A
set of CPUs is the set of its ranges, as libvirt prints it and `parseCpuAffinity`
reads it.

Property: `PageSound`, which is `PageIsTrue` (`CellsAreTrue`, `PinsAreTrue`) in every
state and `PanicExplained` of every step. They hold with
exceptions that the code has: percentages may be wild when huge pages are removed
between the two calls that count them; a VM with only some vcpus and the emulator
pinned can be missing from CPUs it may run on; `Get` panics on a host whose CPU or
cell ids have holes, and over a VM pinned to CPUs that are not there.

### RfbSession and VncViewer

An RFB object is a record, and a callback of the browser (socket opened, message,
close, timer, flush of the display, a call of the page) an operator from the record
before to the record after; JavaScript runs them one at a time. `conn` is
`_rfb_connection_state`, `init` `_rfb_init_state`, `rq` the receive queue in
messages, `short` that the last has arrived only in part, `start`, `timer` and
`retry` the three timers, `events` what is dispatched to the page, `out` what
reaches the socket. `VncViewer` keeps all sessions the page ever made (`rfb`), each
with its server (`net`), because the old ones still have sockets and timers; `ui` is
what `ui_vmango.js` remembers and shows. The user presses only what the style sheet
shows. A server is a record of its answers: version, security types, how the login
ends, what it sends later; `Plans` are the servers the sessions of a behaviour meet. They
follow the protocol (`PlansAssumption`): what they send is what their version has
(`IsServer`), and a frame may hold any part of it.

Properties: `SessionsApart` (`OneSession`: at most one session lives, the page holds
it and shows its state; `LeftoversExplained`: what a disconnected one leaves behind),
`HandshakeGoesOn`, `RefusalShown`, `KeysInStep`, `DisconnectEnds`. Their exceptions
are behaviours of the code: a canvas stays on the page when the socket could not be
opened, a session that failed for an illegal message reads on and may ask the page for a password, which
then goes to the session after it, a refusal that was still unread when the login failed is read by a
timer after the end, the keyboard stays taken when the user disconnects while images load, a Tight
server without authentication waits for ever when its result is in the same frame as
the list before it, and a page that reconnects shows key buttons as pressed that are
not. Fairness (`FairSpec`): the browser runs timers that are set; nothing is assumed
of socket, server or user.

### VncStream

The stream is a sequence of parts, a part being what one `rQwait` asks for: a header,
a line of pixels, a tile. `SocketReceives` brings any number of the parts sent, and
`Receive` is `_handle_message` until the queue is empty or the reader waits.
The client record has the queue with its read index and its growth and compaction, the
rectangle under way, decoder state, the render queue, and the bookkeeping of
updates asked for. A reader that takes a part of another kind is `garbled`. The
server may send an update only when it owes one or updates are continuous.

Properties: `ReadInStep`, `NeverStopsAsking`, `PictureExplained`, `CatchesUp`.
The exceptions: a fence of more than 64 bytes and a raw rectangle without lines put the
reader out of step; an update without rectangles behind a loading image leaves
nobody to ask; tiles of hextile, a change of size, and pixels that are queued as a view
into the receive buffer are drawn too early or from the wrong bytes; a broken image
stops the queue. Fairness (`FairSpec`): the network delivers, images are decoded
or fail, the server answers requests.

### VncKeyboard, VncScreen, VncPointer

`VncKeyboard` has the user's keys (`held`), the events on their way (`queue`), the
`Keyboard` object (`kb`: keys down with their keysyms, the key that waits for its
keypress, the AltGr timer) and the keys down in the guest. `VncScreen` has the
`Display` object on one axis (both are alike): viewport, back buffer, visible canvas,
damage, flips queued behind images; the RFB properties; the page's settings with form
control, cache and local storage; the window and its animation frame; and the server
that may resize. `VncPointer` adds mouse, touch, wheel, the capture element, and the
viewport drag over that screen.

Properties: `KeysReleased`, `ButtonsReleased` (nothing is down in the guest that the
user does not hold), `ViewShown` (`ViewportInside`, `ShowsTheScreen`, `ViewSettled`),
`GuestAskedToFit`, `PointerTold`. The variables `loose` and `why` name what may leave a
key or button down: view only set while something is held, the focus moving inside the
page, a timer that outlives the blur or the character it was set for, a second button under
the capture element, wheel or mode changes during a drag. `KeysReleased` is stated for
every moment at which no event is on its way, timers set or not; an AltGr that Windows sends
as Control and Alt may have its Control down.

### TermList to TermBuffer

`TermList` is the circular list as the code indexes it: `start`, `length`, `max`, an
array with holes, and `trimmed`, how many lines listeners were told are gone.
`TermLines` has a line as a sequence of cells (letter, second half of a wide letter,
or null) and the pure algorithms of the re-wrap; `TermBuffer` the buffer with cursor,
region, saved cursor and tabs, `Resize` with its growing, shrinking and trimming of
rows, `Reflow` in both directions, and the set of the normal and the alternate buffer.

### TermSelection and TermScreen

The selection is two places `<<column, line>>`, a word length and a mode, as in
`SelectionModel`; clicks, drags and trims are operators. `TermScreen` has one
operator for each handler of `InputHandler` and for scroll, clear, reset and resize of
the terminal. A chunk of output is parsed without interruption (`open`) and asks at its
end for the rows it noted to be drawn; `Frame` draws them. History variables: `stale`,
the rows that are not on the page as the buffer has them; `lax`, that something known
to be undrawn happened; `strayed`, that the cursor has been above the screen; `stuck`
is the exception that ended the writer.

Properties: `ScreenSound` (list, base, view and cursor fit together), `StopsExplained`
(the three ways the writer stops for ever), `HistoryKept` (what left the screen stays as
it was), `ReflowKeepsText`, `RedrawExplained`, `SelectionFollows`.

### TermParser and TermConsole

Characters are classes (`"a"`, `"esc"`, `"["`, a digit, `"lf"`, ...); `Parse` is the
table-driven loop with its states, collected and numeric parameters, and the calls it
makes to handlers. `Receives` parses a message and applies the calls to the
screen. `ChunksDoNotMatter`: wherever messages break the output off, the handlers are
called as for one piece - except around a delete between letters and a cancelled device
control string.

### TermTyping and TermPage

Everything the user types has a number. `typing` is the hidden textarea with its marked
text, the state of `CompositionHelper`, its timeouts in order, and what was
sent; `ime` is the input method, which writes into the textarea and whose keys have the
code 229. `TypedOnce`: what the user means arrives once and in order, whichever of
keydown, keypress, paste or timeout sends it; `spoilt` collects the late timeouts and
overwritten textareas that lose or double text. A right click and, on Linux, every
selection by mouse overwrite the textarea, and a selection also does so while a text is
composed. `TypingSpec` is the typing by itself, with any keys and any number of acts.
`TermPage` joins it to the terminal: what is sent ends the selection and takes the view
down, and what is selected there decides what a click writes into the textarea.

## Runs

| Run | Bounds | Question | Distinct states |
|---|---|---|---|
| `pool` | 3 goroutines with 4, 2 and 2 requests they may make, 3 nodes on 2 URIs of which one may hang, an unknown node, 2 connections per URI | locks, refinement, and who is served | 73 000 |
| `vm` | 2 VMs whose forms make the same volume, 3 forms, 2 requests, 2 scripts, 4 arrivals | half-made VMs, sharing and deleting disks | 1 100 000 |
| `vm_script` | 1 VM, 2 arrivals | scripts run for a VM that is not new (a finding) | - |
| `repositories` | the key file with 2 requests, 2 keys, 5 inputs, 3 files, 4 lines, 2 mishaps; or lists of files of up to 4 of 6 lines with a buffer of 6 bytes that grows to 12; or 2 volumes, 3 numbers, words of 4 bits | lost and doubled keys, keys that reach the guest, sizes | 600 000 |
| `listing` | 2 requests, 2 nodes on 2 URIs, a hidden volume, a VM whose conversion panics, 2 changes | rows, locks, cache, and that lists come | 84 000 |
| `devices` | 2 requests, 2 volumes, 2 buses of 2 letters, 2 MACs, 4 requests or edits in all | attach and detach | 898 000 |
| `proxy` | 2 sessions, two consoles or a console and a display, 4 messages in all | order, and how sessions end | 230 000 |
| `node_page` | 2 cells, 3 CPUs, 2 page sizes, 2 pages, 6 kinds of pinning, 1 change of the host | the node page | 1 580 000 |
| `viewer` | 15 servers alone, and three pairs of sessions in a row; 3 clicks, 2 messages after the handshake | sessions, handshakes, what the page shows | 947 000 |
| `stream` | 20 streams of up to 5 updates in every encoding, a buffer of 8 parts that grows to 16 | reader, picture, requests | 2 100 |
| `input` | 5 browsers with 7 keys and 3 presses; 2 buttons and 4 acts; screens and windows of 1 to 3 pixels and 4 changes | keys, buttons, view | 1 250 000 |
| `terminal` | 11 scenes on 2 by 2 to 4 by 2 cells with one line of scrollback: any two of 44 control functions, or 3 to 5 of a few, or control sequences of up to 5 characters, or 3 keys and a selection by mouse | the console page | 770 000 |

Why they are enough: three goroutines give a user, a writer and a queued reader
at once, which is the longest chain the pool's locks can form; two URIs are one
that is in trouble and one that is not; a node id beside another on one URI is
the case where node and URI differ. Two requests are a Create and whatever races
it, the user actions are a third party that needs no job; four arrivals are enough
for two creates, a volume page and a deletion, crash or reboot. Four lines hold
a comment and every key twice. A buffer of six bytes holds two of the shortest keys
or one that must be shifted, grows once, and is full with a line of its largest size: every
way in which the scanner moves bytes occurs, and each exception of `KeysDelivered` was
seen to occur. With four bits and a K of two, five G and five M overflow and five K do
not; two volumes are an original and its clone. In `listing` one browser asks for one VM or for
volumes, the other for the VMs or the networks of both hypervisors: two goroutines for
one hypervisor, and two of one List that both append; two changes are a removal and a
creation or a death. Two device requests and two letters reach a full bus and a detach
that races another; four messages are two in a row in one direction while others go
the other way. Two cells of two and one CPUs and two page sizes tell quotient from
remainder and a hole from a gapless numbering. One change of the host is enough
for the node page because each exception needs one, before or between the calls.

Two sessions are one that ends and the next; in one pair the first ends while its images are
drawn, in the other two it asks for a password after its end and the next is an ordinary server or
one that refuses, so every exception of the properties is reached. Three clicks are a disconnect, a
connect and a key. Each stream brings two or three decoders together behind an
image, or one exception. Three presses are a modifier, a key and one more; four
pointer acts are both buttons down and up; three pixels are enough for a viewport with
something on each side. In the terminal two rows and one line of scrollback make the
list full after two line feeds and trim at the third; two columns wrap at the third
letter and put a wide letter before, on or after the edge. The typing scene was also
run for two systems with five acts and for one with six.

Bounds are constants (`MaxOps`, `MaxDisks`, `MaxGen`, `MaxLines`, `MaxChanges`,
`MaxMessages`, `MaxClicks`, `PressBounds`, `ActBounds`, `ChangeBounds`, `left` and
`moves` of a scene) and bound what the outside does, never what the code does in
answer, except that a List that meets the panicking VM after the last death is left
with an error of its node as the only way on.

Deadlock is not checked in `vm`, `vm_script` (after `MaxOps` arrivals nothing more
arrives), `proxy` (sessions end), and in the runs of browser code, where the bounds on
user and server leave nothing to do. In the others it is.

## Proofs

`ConnectionPoolProofs` proves, for every finite or infinite set of goroutines,
nodes and URIs and every assignment `NodeUri` (`ASSUME`s of `ConnectionPool`):
type correctness, `PoolSafe` (and its three parts), `NeverReplacedInUse` (a
connection is replaced in the cache only while nobody works with it),
`RaceOnlyWhileWarming`, and that every behaviour implements `NodeLock`.

Its inductive invariant `IInv` ties each lock variable to the places in the code
that hold it: `wOwner` is the one thread in `drain` or `insert`; `readers` is the
set of threads at the places under the read lock; while a thread is in `insert`
there is no reader; `mu[u]` is the one thread from `check` to `release` for `u`;
the entry exists from `rlock` on; from `return` on the handle is the current
generation. Each property alone is not inductive: that `HandleIsCurrent` is
preserved when *another* thread opens a connection needs the mutex part, that the
map read is guarded needs the reader part. `RaceOnlyWhileWarming` is about two threads
that know nothing of each other: the one in `Release` has the current connection of a
hypervisor (`HandleCached`), so that one was connected to; the one in `insert` stores a new
entry, and a hypervisor that was connected to in this life of the process has an entry
(`OpenedKnown`). The refinement maps the owner of a
URI to the thread at `using` or `release` for it; `OwnerIsUser` uses the mutex
part to show that there is one such thread, and `Invisible` that every step which
changes neither users nor wishes is a stutter of `NodeLock`.

`NodeListingProofs` proves, for every set of requests, nodes, hypervisors, paths and
queries and every `MaxChanges` (`ASSUME`s of `NodeListing`), type correctness,
`OnlyHoldersOwn`, `RaceNeedsTwoHypervisors` and `NeverBackToOlder`. The argument for
the last one: of the paths that only one hypervisor has, only the holder of
that connection ever works on one (`OneWorker`, from `OnlyHoldersOwn`); so from its
miss to its store nobody else fills that hole of the cache, and what it stores
was read from the drive after the last page showed that path (`FillsHole`); the
cache has exactly what was shown last, and a drive is never older than that, since
every creation takes a new number (`CacheShown`, `Numbered`). `NobodyLeft` is needed
because a request that starts or ends resets its goroutines. Steps that leave cache
and drives alone are dealt with once, in `QuietStep` and `AloneRest`.
`AnswerComplete`, and with it the `SharingSound` of the run, has an invariant of its own,
`RowsInv`: what a goroutine has seen is what it still has to convert and its rows
(`Collecting`); between reading and assigning the shared slice it has the mutex, and the
slice is still as it read it (`Appending`); the slice has of each node exactly what the
goroutine for that node has seen once it finished (`Appended`). Without `Appending` a
second append could be based on a slice that lacks the first.

`VmLifecycleProofs` proves, for every set of machines, paths, forms, scripts and requests
(`ASSUME`s of `VmLifecycle`: a configdrive's path is of one machine only), the properties
of the run `vm`: `SharingExplained`, `DeletesExplained` and `NoHalfMadeVm`. The
invariant has three parts. `Typed` also says which domains and jobs have left no trace.
`SharingInv` is about ownership: a request *claims* the volumes it has made or will
delete, and outside the two exceptions a volume that is gone is claimed by nobody
(`GoneUnclaimed`), one that exists is on one domain or claimed by one request, except
that several requests may be deleting the same (`OneOwner`), and no list has one twice
(`NoneTwice`). So the Delete that removes a volume had it from a domain that is
undefined by then, and no other domain has it. `HalfMadeInv` says how far a Create is
with a domain that is its own and that nobody touched: the volumes it has in memory are a
prefix of those its form asks for (`MakesInOrder`), and at each place between `Save` and
the answer which disks the domain has, whether the configdrive is filled, and that it
does not run, unless the host booted it (`Progress`). `RunsOnlyComplete` alone says nothing
of a domain that does not run yet, so it is not inductive. A boot of the host is dealt with in
`RebootHalf`: what it starts is autostarted, and its disks exist (`HasDisks`).

`DomainDevicesProofs` proves, for every set of paths, buses, MACs and requests and every
last letter (`ASSUME`s of `DomainDevices`), `DevicesSound` and `DetachRemoves`. The
invariant is about configurations: letters of a bus go up in the order of its disks, so
that the one after the last disk's is new (`Ordered`); each id of an argument is on one netdev and one device (`OnceEach`, `BothKinds`), and what was
acknowledged is there (`Kept`). It is stated of the hypervisor's configuration *and* of the copy
that a request holds, since a definition replaces the one by the other; and only
the owner of the connection has a copy (`OneHolder`), which is what the hypervisor has unless an
operator edited that since, so that no request overwrites another. `DetachRemoves` compares the new
configuration with the one it replaces: an id has one device, so the id the needle finds is of a
NIC with the MAC (`NeedleFound`, `LastMacIs`), and taking its arguments leaves the
ids and MACs of the others (`IdRemoved`).

`RepositoryProofs` proves of the key file, for every set of keys, inputs, files and requests (`ASSUME`s of
`KeyFile`), `MishapsExplain` and the refinement of `KeySet`. Its invariant says of each set
of mishaps what is so while none of them occurred: without an overlap there is one
rewrite, and it finds the file as it truncated it (`OneRewrite`); without any that
loses keys, the file, or the memory of the rewrite with its key, has just the keys that are
stored (`NothingLost`); without those that double them, a key about to be appended is
the only one of its input and is neither in the file, nor in another request's memory
(`NothingTwice`). `MishapsExplain` looks only at files that nobody rewrites, hence the
statements about memory. The refinement maps the file, or during a rewrite the
memory, to the set; up to the first mishap that is the history variable
(`ViewIsStored`), and the history takes the steps of the set (`HistoryStep`): `Add` when the
append ends, `Delete` when the rewrite ends, unless another Delete of the same key was
first. The attempt to prove an earlier form of this found two mistakes in the model, and TLC
then the traces: `Truncate` compared only the part of the file that a scan yields, and so did
not note an Add behind a long line as overwritten; and the mapping took a key to
be in the set while a second Delete of it was rewriting.

`SubsequencesProofs` holds what those three, `VncViewerProofs` and `InputProofs` need of lists. `Keep(s, S)` is a loop, so
what it returns is proved by induction; the theorems of the library that are
called induction take an operator as a parameter, which the provers cannot
instantiate, but `WFMin` does not: the least counterexample gives `SetInduction`. From it
follow the existence of the loop's function (`KeptExists`) and `KeepPlaces`, which says
where in `s` each element of `Keep(s, S)` was. In the same way `FoldRun` and `FoldAppend` say of the
community modules' `FoldLeft`, for any operator `Op`, that it goes through a list from its first element to
its last, and `FlatPlaces` where in a list the lists are that it was flattened from. `Op` is a constant of that module, so each loop over events, bytes or keys instantiates it.

`InputProofs` proves, for every set of sizes with a largest one and any colours,
buttons and bounds (`ASSUME`s of `VncScreen` and `VncPointer`), the invariants of the
run `input` that are about view and pointer: `ViewShown`,
`GuestAskedToFit` and `ButtonsReleased`. The specification is `PointerSpec`, which the
run restricts to some settings and joins with the keyboard, with which it shares
nothing. The canvas shows the screen because of what `Tracked` and `Queued` say of
the time in between: a pixel that is not as painted is noted as damage, damage
waits only behind an image, and then a flip waits with it. The view fits its mode
because RFB's properties, the settings and the server's knowledge change together
(`InStep`, `Aligned`), and between a resize of the window and its frame only `Aligned`
holds, after it `Fitted`. No button is left down because, until one of the
exceptions, what RFB's mask holds is what the user holds (`Held`), and the guest has
been told of it unless it drags (`Told`). The lemmas follow the code: one for
every method of `Display`, then RFB's and the page's, then one for every action.

The same module proves `KeysReleased` of `VncKeyboard` (`KeySpec`, which the run joins in the
same way) for any keys whose names are none of the tables' own (`KeysAssumption`), any
browsers and any bounds. A key that is down is in the list, under the key it was
sent with (`Kept`), so that the release, which takes keysym and code from the list, finds it.
The rest is about what is still to come: a code is `Underway` if it is in the list, if it is the
Control held back for an AltGr, or if it waits for its character; and a code that the
user does not hold is `Settled`, which is to say not under way and without a press in the queue,
or ended in the queue by a keyup or a blur with no press behind that. Each handler does to
`Underway` what its event says (`HeadHandled`), each act of the user appends events that
say it (`EventsSent`). In a legacy browser a printing key is not named by its keydown, and
what is sent for it is right because its own character is next (`Paired`, `Awaited`): this is what
a timer set for an earlier key breaks, and why that is an exception. An AltGr too slow to
be merged was one until the proof showed that it need not be; the property now covers it.

Of the console terminal it proves `TypedOnce` (`TypingSpec`), for all systems, any keys and
any number of acts. What the guest has yet to get is spread over the textarea, the positions noted
by `CompositionHelper` and its timeouts, so the invariant `TypingInv` says for each list of
timeouts where the rest of it is, as long as nothing was `spoilt`. While a text is
composed (`Composing`) everything before it is sent, or the first timeout that sends will send just that. When it
has ended (`Ended`), the first of those timeouts sends from its start, each of the others
begins where the one before it ends, and the last begins where the composition did.
Otherwise (`Neither`) all is sent, but for what the one timeout that compares old and new
text will find. What that comparison finds is proved in `DifferenceIs` and the lemmas
around it: `replace` removes the *first* place at which the old text occurs, which for text that was
appended is its beginning. One lemma for each
handler says what it makes of the three cases, and `TimeoutComesHolds` takes the timeouts
in order. The attempt found an error of the property: on Linux a selection by
mouse empties the textarea even while a text is being composed, which then is never
sent. The property counted that only after the end of a composition, and TLC had been
given no mouse together with the keys. Now the exception includes it and the run has both.

Of `ConsoleProxy` it proves `InOrder`, the part of the run's `SessionsSound` that is about
messages, for any sessions and bound. `ProxyInv` says of each direction that what has arrived, the
message in hand and those waiting are numbered without a gap, for as long as the loop
that copies has not ended; after that nothing arrives any more. `PumpWaits` is needed because
opening a stream starts the pump, which therefore must not have run before.

`VncViewerProofs` proves, for every set of servers that follow the protocol, any number
of sessions, clicks and messages, and frames cut anywhere (`PlansAssumption`), the three
invariants of the run `viewer` and its action property
`KeysInStep`. Each is a statement about callbacks, and a callback of RFB is a loop: one
frame may take a session through the whole handshake, and each stage tells the page
something, on which the page answers the session. So the invariant (`Inv`) is about what
lies between the callbacks. `Stage` says, of a session that is being set up, which of the
server's answers it waits for, and that what has arrived and what is under way is a
beginning of them and nothing else; this is what makes `HandshakeGoesOn` hold, because a
whole message is always the one the stage reads. `Fits` says what a session may look
like in each connection state (no socket yet, live, ending, ended), `PageFits` that the
page shows the state of the one it holds, and every other session has ended. Who may ask for a password
without a session that waits for one is `Noise`, which an ended session leaves to those after it.
The lemmas say of each method of RFB what it makes of a session that is being set up
(`Outcome`: it goes on, asks, fails or connects), of one that is connected (`Lives`,
`Falls`) and of one that has ended (`Still`). `KeysInStep` follows from what the fold over the keys of a click
does to the guest's keys and to the page's buttons.
The attempt found that two properties were false as they stood: `RefusalShown` and two
clauses of `LeftoversExplained` did not allow for a password that an ended session makes the page ask for
and that goes to the session after it. TLC had not been given the servers for
it; now it has, and reaches each of these exceptions.

`RepositoryProofs` also proves `SizesSound`, for every set of numbers below the word and every
positive word and K (`ASSUME`s of `VolumeSizes`). The word need not be a multiple of K, as
only one fact about remainders is used: what fits is its own (`BytesOfAsked`). The
property is about answers, so its invariant `SizeInv` says what each place of a request
owes to the answer: before the first call succeeds nothing has changed, and the original
is as it was read (`Fresh`); between the two halves of a clone there is one volume
more (`OneMore`), and libvirt has accepted the size, so `Bytes` is what was asked
for (`Half`); what is read back is large enough (`Made`). All of it but the types is void
once an operator has changed something, except that the size fits, which
`NeverShrinks` does not need: libvirt compares before it resizes.

It proves `KeysDelivered` as well, for every size of the first buffer, every largest token not below
it and every set of key files in which a blank line is no key (`ASSUME`s of `KeyScanner`).
Nothing bounds the lines or their number, so the text is not computed: `Laid` says
where in it each line begins, and follows from `FlatPlaces`. The invariant `ScanInv` then
has two halves. `Formed` says that the unread part of the last array is the text just
before the file offset; a shift, a growth and a read each keep that and the place
reached (`ShiftMoves`, `GrowMoves`, `ReadMoves`). `Progress` says that this place is the end
of some line `k`, that no line up to `k` is too long, and that the list is what parses of
them, in order (`KeptOf`). Hence the first newline in the window ends line `k + 1`
(`FirstNewline`), what is left at the end of the file is the last line (`RestIsLine`), and a scan
that stops has either gone through the file or met a long line. Of the *values* of keys nothing
of this kind holds, as a shift overwrites the bytes they are slices of. They hold for a file
`HeldInPlace` because the first read takes all of it (`Held`), and after that no unread byte is
moved within the array (`NoShift`); an array that is full is copied, and the old one stays. What reaches the
guest follows from the list and those values.

Only model-checked: liveness (`HealthyNodeServed`, `ListReturns`, how console sessions
end, `DisconnectEnds`, `CatchesUp`), which TLAPS does not do with fairness and
ENABLED; everything about `NodePage`, `VncStream` and the terminal but for its typing. What `WordAt` and the terminal's
parser compute for every input would need induction over nested data, or is written with
RECURSIVE operators, which the prover does not take.

## Plan

The modules were written in the order of what can go wrong most: the pool and its
abstract lock; the lifecycle of a VM; the key file; the listing of several hypervisors;
the devices of a domain; the console; the node page; the theorems on the pool and the
listing; the list of keys and the sizes of volumes; then the browser's end of the
console, from the VNC session inwards, and the terminal from its lines outwards; the
theorems on view, pointer and keyboard; those on the lifecycle, the devices, the answers of the
listing and the key file; those on the VNC session and the list of keys; those on typing at the
console and on the proxy. What is left, in this order:

1. Theorems: `VncStream`'s `ReadInStep`; then the terminal's `ScreenSound`.
2. An abstract specification of the listing (a page is one row set per node that
   answered) that `NodeListing` implements, and one of the device list (a set of
   attached things) that `DomainDevices` implements.
3. `Nodes` with unknown and repeated names, against a reference definition.
4. The volume pool repository and `NodeRepository.List`, which go through the nodes
   in turn and skip the ones that fail.

## Not modelled

Sessions and login keep their state in the browser's signed cookie and do not
touch the rest. Configuration and bootstrap run once; their results are the
constants. The config drive reads and writes ISO images with external commands; of what
is in them only the keys are modelled.
Templates, the page scripts and `vendor/` are presentation or third-party. Sizes,
formats, CPU and memory settings are left out of `VmLifecycle`: no property
depends on them; `VolumeSizes` has the sizes of volumes. The volume pool repository and
the list of nodes are planned.

Of the browser: the renderers, links, accessibility tree, mouse reports and bell of
xterm.js, the local cursor, encryption, base64 and logging of noVNC are presentation or
functions without state; `app/ui.js` is loaded by no page. Colours, character
attributes and what is sent for a key are left out, as nothing here depends on them.
One dimension of the VNC screen stands for both. The look of the control bar, the
clipboard panel and the on-screen keyboard of touch devices are not modelled.
