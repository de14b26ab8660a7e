# Matchlock in TLA+

Matchlock runs commands in micro-VMs. A *supervisor* process (`matchlock run`,
or `matchlock rpc` started by an SDK) creates one VM: a row in SQLite, a
`/24` subnet, a TAP interface, nftables tables, disk images, a Firecracker
process. There is no daemon: every process of the host works on the same
database files and host resources, so correctness rests on SQL constraints,
on pid checks, and on the order in which each process does things. An SDK
drives its `matchlock rpc` process with JSON-RPC lines over two pipes. Inside
the VM an agent runs the commands and a FUSE client mounts the host's virtual
file system; the guest's HTTP leaves through a proxy that applies a policy.

The questions the project asks, because a test hardly reaches them:

1. Can two VMs get the same subnet, whatever the interleaving of allocators?
2. After a crash or a failed step anywhere, can what is left on the host still
   be found and given back, without touching a VM that is alive?
3. Can an SDK session lose, reorder or misdirect requests, or hang in `Close`?
4. Does a file the guest holds open stay the same file through renames and
   removals, and do guest and host agree on what exists?
5. Does a command's output and exit code reach its caller, does every call
   return, and does cancelling it end the command?
6. Can a request leave for a host the policy did not allow, or carry a secret
   out of its scope, while the policy changes and connections are reused?
7. Do concurrent pulls and prunes, and crashes in a schema migration, leave
   the files and rows that others rely on?

## 1. Inventory

| Component | State | Operations | Hard behaviours | What makes it correct |
|---|---|---|---|---|
| Subnet allocator (`pkg/state/subnet.go`) | table `subnet_allocations` | Allocate, Get, Release, Cleanup | several processes, one statement at a time, no transaction around read and insert | an octet has one owner; full means full |
| Lifecycle store (`pkg/lifecycle/record.go`, `state_machine.go`, `db.go`) | versioned records, one head per VM | Init, SetPhase, SetLastError, SetResource, MarkCleanup, Update, Load | load and append are two transactions; `SQLITE_BUSY` retry | dense versions, legal phase histories |
| Reconciler, VM manager (`reconcile*.go`, `manager.go`) | none of its own | ReconcileVM, ReconcileAll, Remove, Prune | check-then-act on a VM somebody else supervises; each step may fail | never touches a live VM; never drops the row of a VM with leftovers |
| VM state manager (`pkg/state/state.go`) | table `vms`, VM directories | Register, Unregister, List, Get, Remove, Kill | `List` writes `crashed` on a stale read; pid liveness | a row says running only of a live supervisor |
| Sandbox on Linux (`pkg/sandbox/sandbox_linux.go`) | row, subnet, TAP, nftables, disks, VMM | New, Start, Close, Exec, files, policy | a dozen acquisitions with an error path each; kill at any step | everything acquired is released or recoverable |
| RPC handler (`pkg/rpc/handler.go`) | VM, cancel table, stdin queues, port-forward manager | the request loop and one goroutine per request | cancel and close race with requests | requests run on an open VM; close closes everything |
| Go SDK client (`pkg/sdk`) | pending table, reader, stdin pumps | calls, give up, Close, hooks | result, cancel, EOF and Close race | every call returns; stdin stays in order |
| VFS server (`pkg/vfs`) | handle table, memory tree, mounts, rules | file operations, hooks, routing | handles across rename and remove; mounts inside directories | a handle keeps its file; listings agree with stat |
| Guest FUSE client (`internal/guestruntime/fused`) | node tree with cached paths, one connection | every FUSE operation | a rename while another thread uses an old path; broken connection | paths follow renames; every call returns |
| Exec relay, backend, agent (`pkg/sandbox/exec_relay.go`, `pkg/vm/linux`, `guestruntime/agent`) | two connections, goroutines per direction | batch, streaming, pipe, tty, files | half-closed connections, cancel, grace period, exit before output | output whole before exit; calls return; cancel kills |
| Proxy (`pkg/net`) | connections, upstream pool | intercept HTTP, HTTPS, TCP; forward | pooled connection dies between requests; answers rewritten half-way | only allowed requests; reuse only after a whole answer |
| Policy (`pkg/policy`) | hosts, paths, rules, secrets, one lock | gates, hooks, callbacks, changes | changes during a request; a callback that calls back | a secret reaches only its hosts; every call of the engine returns |
| Image store, builder (`pkg/image`) | rows, layer references, blob files | pull, import, tag, remove, gc | pull and prune in two processes; partial files | what is referenced keeps its files; a pull delivers |
| Schema migrations (`pkg/storedb`) | versions, lock and backup files, WAL | Open, migrate, restore | two programs open one database; crash in any step | no committed row is lost |
| Kernels, volumes, overlays, configuration, guest init, nftables batches | files and values | one-shot | none of their own | see section 7 |
| macOS backend, sandbox and network stack | as on Linux, other resources | New, Start, Close | another order of Close | as on Linux |

The components interact as follows.

* The supervisor calls the state manager, allocator and lifecycle store, which
  share files with every other `matchlock` process. Rows and subnets are in
  `~/.matchlock/state.db` (`state/db.go:12`), the lifecycle records in
  `~/.matchlock/vms/state.db` (`lifecycle/db.go:13`): two files, so that no
  transaction covers both. Image rows and blobs are shared in the same way;
  `storedb.Open` migrates every such file, each with one module's migrations.
* `list`, `gc`, `rm` and `prune` are processes that come and go. They see a
  supervisor only through its row and `kill(pid, 0)`.
* The SDK writes requests to the stdin of its rpc process and reads answers
  from its stdout. The handler's one loop reads; every request but `create`,
  `close` and the stdin notifications has a goroutine.
* `matchlock exec` reaches the supervisor's relay over a Unix socket; the
  relay, or the supervisor itself, reaches the guest agent over vsock. Each
  leg is a connection with its own frames, end of file and death.
* The guest's FUSE client sends one request at a time to the VFS server over
  vsock; rules of the policy are applied around each operation.
* The proxy asks the policy engine before and after each request; the engine
  may call a hook in the SDK, and the SDK and other processes change the
  engine while requests run.

`PROJECT.json` lists the components, modelled or not, and, under `hazards`,
what is hard to test in them, each at its line.

## 2. Modules

```
SubnetPool  <--- refines --- SubnetAllocator  <- MCSubnetAllocator
    ^                               ^----------- HostStateProofs
    |  uses Grant, Free
SandboxHost <- MCSandboxHost
    |    ^---- SandboxHostProofs
    v  uses Phases, validateTransition
LifecyclePhases <- LifecycleStore <- MCLifecycleStore, HostStateProofs

RPCWire <- RPCHandler ---+
   ^------ SDKClient  ---+--> RPCSession <- MCRPCSession, RPCSessionProofs

VFSProviders <- VFSServer <- GuestFuse <- VFSSession <- MCVFSSession, VFSSessionProofs

ExecCall <------------------------------- refines --+
ExecLink <- GuestAgent <- ExecBackend <- ExecRelay <- ExecSession <- MCExecSession, ExecSessionProofs

PolicyEngine <- HTTPProxy <- ProxySession <- MCProxySession, ProxySessionProofs

ImageStore <- MCImageStore, ImageStoreProofs
SchemaMigration <- MCSchemaMigration, SchemaMigrationProofs
```

**SubnetPool** is the abstract promise: a table from VMs to octets, a step of
which grants a free octet to a VM that has none or frees one.
**SubnetAllocator** is `subnet.go` one SQL statement per step: `Allocate`
looks for the VM's row, reads the used octets and inserts; a statement that
fails, on a constraint or otherwise, is an error to the caller at once
(`subnet.go:107`). The `UNIQUE` constraints are the only synchronisation. Its refinement of `SubnetPool` is the identity on the
table; the calls in progress are what it hides.

**LifecyclePhases** is `state_machine.go`. **LifecycleStore** is the record
store under any number of writers, each with a program of store calls
(`Program[w]`; `els` is where its caller goes on when the call fails). A call
loads the newest record, edits its copy, and saves it in a second transaction
that reads the head, appends and moves the head; a busy save is retried at
most `MaxAttempts` times, and any other error ends the save at once.
`MCLifecycleStore` holds the call sequences of
`New`, `Close` and a failing `ReconcileVM`, less some calls that keep the phase.

**SandboxHost** composes the Linux sandbox, the state manager, the reconciler,
the allocator (through `SubnetPool`, whose atomic steps SubnetAllocator is
shown to implement) and the phases. Per VM it keeps the database (`status`,
`pid`, `phase`, `table`), the host (`tap`, `nft`, `disks`, `dir`, `vmm`) and
the supervisor (`pc`, `gen`, `info`, `errs`, `failing`); per administrative
process one record (`adm`). Each label of `pc` is one database transaction or
one host operation of `New`, `Start` and `Close`, with its error path;
`adm[q].pc` does the same for `list`, `gc`, `rm` and `prune`, so a command can
be overtaken between any two of its steps. `SupervisorKilled`, `AdminKilled`
and `VMMExits` may happen at any time. Where `New` closes the sandbox itself its
deferred functions follow (`CloseReturns`), a TAP whose deletion fails stays
(`FailBeforeMachine`), and a reconcile that cannot read the record starts the
history over (`RecInit`).

**RPCWire** has the two pipes and the requests. **RPCHandler** is the loop and
the goroutines of `handler.go`; **SDKClient** the callers, the reader, the
stdin pumps and `Close` of `pkg/sdk`; **RPCSession** puts them together with a
process that may be signalled or die. A request is its caller's name with a
kind: `create`, `exec`, a command that takes stdin (`pipe`, `tty`), a log
stream (`follow`), `forward` for port forwards, `call` for any one-shot call,
or `none` for a call the program does not make. Results are ok or error.

**VFSProviders** is the tree the providers keep: for each path the identity of
the file or directory there, or none, with the memory and the real provider's
own rules for open, create, rename and remove, and the router that gives a path
to the longest mount. `Dangling` names the symbolic links of a host directory
that lead nowhere: a listing has them, `Stat` follows them and finds nothing. **VFSServer** adds the handle table, the rules that block
before an operation, and one operator per request; a file that was created but
cannot be stated is closed again and stays (`DispatchUnstated`). **GuestFuse** is the guest's
node tree, where each node caches its path, the mutex around one request and
answer on the connection, and what each operation does to the nodes.
**VFSSession** lets threads of the guest run operations against the server and
the connection break. Two pieces of history, which nothing in the code reads,
say where the guest's tree may part from the host's: a call is `raced` when
another in hand moves or removes on a related path, and `tangled` is set by the
calls that leave the tree of nodes behind the host for good (`Tangles`): a move
or removal that was raced, a move of a mount, and a directory made without its
inode number in the answer.

**ExecCall** is the abstract promise to a caller: chunks are produced in order
and delivered in order, a command exits, and the caller gets one answer, whole
if nothing was lost; a chunk may still be delivered, in order, to a caller that
has cancelled. **ExecLink** is a connection: frames in two directions
with a capacity, end of file, and closing. **GuestAgent** runs the command:
launch, stdin and output copiers, cancellation with SIGTERM, grace period and
SIGKILL, exit status. **ExecBackend** is the host's side of that connection
with its context watcher, whose reader may write a frame it holds after the
cancelled call has returned (`WriteLate`), **ExecRelay** the relay in the supervisor and the
command line's client at its other end. Each goroutine of each component has a
program counter of its own. **ExecSession** composes them for one call of a
mode (`batch`, `stream`, `pipe`, `tty`, `file`) made through the relay or
directly, and gives the refinement mapping to `ExecCall`.

**PolicyEngine** is the engine with its RWMutex (readers, one pending writer
that blocks new readers), the host, path and private-address gates, the rules
and their matching, edits of requests and answers, placeholders of secrets and
the files they are read from. A path prefix is a string of its own: without a
final slash it also covers segments that it only begins (`Covers`, constant
`Begins`). **HTTPProxy** is one guest connection in mode
`http`, `https` or `tcp`: the request loop step by step with the upstream
pool. Over https the host is the one of the TLS handshake; the `Host` header is
not compared with it (`http.go:173`). An answer may be interim (1xx); the code
takes it for the final one, and `owed` marks the connection. **ProxySession** adds the processes that change the policy, the SDK's
callback and servers that close idle connections. `Config` names scenarios; a
behaviour runs in one of them.

**ImageStore** has the image rows, the layer references, the blob files, the
temporary files and per process the command with its place in it: `pull`
(lookup, fetch, ingest each layer, save, prune), `import`, `rm` and `gc`. `held`
and `quiet` are history: the references (a row's layer, or its rootfs) that
have existed ever since a prune began, and whether a command ran undisturbed.
**SchemaMigration** has the database as `main` and `wal`, the `backup`, the
lock, and per opener its place in `Open`: lock, connection, backup, one
transaction per migration, and on failure the restore in the order of its
system calls; the lock is given up before the connection is closed
(`CloseFailed`). Closing a connection to a file that a restore replaced does
not touch the new file. `rows` and `damaged` are history: what was committed, and
whether a restore was cut short or met another open handle.

## 3. Runs

| Run | Instance | What it shows |
|---|---|---|
| `subnet_allocator` | 3 VMs, 2 processes, 2 octets | Refines the pool; octets unique; a row never moves; `exhausted` only if the pool was full at some moment of the call; every call returns |
| `lifecycle_store` | `New` and `Close` beside a `gc` of one VM | Versions dense, writers finish; an update that no other one slipped into follows the state machine and keeps the cleanup marks |
| `host_faults` | 1 VM, 2 processes of `rm`, `gc` and `prune`, all faults | A leak keeps its row; `cleaned` is true; live VMs are spared by reconcile and by removal |
| `host_two_vms` | 2 VMs of `run --rm`, one networked, 1 octet, `list`, `gc`, `prune`, a persistent operator | Live VMs keep row, subnet, TAP and disks; no leak without a row; what a dead supervisor left is given back |
| `rpc_session` | create with one call of each kind or two port forwards | stdin in order, requests on an open VM, no lost listener, closed means closed; `Close` ends the session unless it, or the reader, hangs in one of the two places of section 6 |
| `rpc_close_blocks` | a command that does not read its stdin, two chunks, a pipe of one line | *Violated*: `Close` waits for ever to write its request |
| `vfs_session` | 2 threads, 3 operations, 2 mounts, one in memory below a directory of the other, a dangling link, blocking rules | An open file stays its file; cached paths follow renames; a listing has exactly what can be stated and the dangling links; every call returns |
| `exec_session` | one call of every mode, by relay or directly | The exec path implements `ExecCall`; calls return; cancelling kills while the agent watches |
| `exec_pipe_cancel` | a pipe client that leaves | *Violated*: the command runs on |
| `proxy_session` | 2 connections, six scenarios | What leaves was allowed; secrets stay in scope; a connection is reused only with the body of the answer taken from it read; calls of the engine return |
| `image_store` | 2 processes, 3 commands, 2 images sharing a layer | A prune spares a blob that one reference named all along; an undisturbed command delivers files that exist, of one image unless a row mixes two (section 6) |
| `schema_migrations` | one process of an old release, two of a new one | No committed row is lost, open handles find their migrations, outside the two cases of section 6 |

`exec_pipe_cancel` states what the comment at `exec_relay.go:305` says,
`rpc_close_blocks` the one at `sdk/client.go:166`; `findings` in
`PROJECT.json` quotes them.

### Bounds and why they are enough

* `MinOctet..MaxOctet`: one or two octets instead of 155, so that exhaustion
  and reuse happen. The theorems hold for every range.
* Two processes for three VMs: each pair of statements can interleave, and a
  third VM meets a full pool.
* `MaxAttempts = 2` for the eight attempts of the save: one retry that wins
  and one save that gives up. `Never` is a call index past every program.
* `MaxGen = 1`: an id is registered once (ids are random). `MaxGen = 2` makes
  reuse possible; see section 6.
* `HostFaults` lets every host and database operation fail. It is on with one
  VM and off with two: with both the space is too large, and faults of one VM
  touch another only through `Cleanup` (section 6).
* In `host_two_vms` one of the VMs has a network, which only keeps the state
  space small: `LiveVMsKeepResources` is proved for any number of networked VMs.
* `Commands` limits what the operator types in a run; between them the runs
  use list, gc, rm and prune. `gcAll` and `rmStopped` are the same steps over
  another selection; the theorems cover all of them.
* No symmetry in SandboxHost: `IdleAdmin` chooses some VM as a placeholder.
* `PipeCap` lines fit in the pipe to the process; `ChanCap` chunks in a stdin
  queue (64 in the code); `Chunks` chunks are sent by a stdin pump. One is
  enough for a chunk to meet end of file, a cancel and a full queue. `PipeCap`
  is 2 in `rpc_session`, so that a loop that waits leaves the pipe full, and 1
  with two chunks in `rpc_close_blocks`; the real pipe holds 64 KiB and a chunk
  4 KiB.
  `Sequenced` calls are made after the create returned, the others at any
  time; `Impatient` calls may give up.
* VFS: `MaxOps = 3` operations of two threads, so that two overlap and a third
  finds what they left, `MaxId = 7` bounds the files ever made: six are there,
  one of them the dangling link (`Dangling = {6}`). One directory holds a file and can be moved with it, another holds the mount in memory, so that
  removing it leaves a directory the mount alone implies. The connection
  breaks only when all operations have begun: a break ends every one in
  progress, and later ones only fail.
* Exec: one call per behaviour (sessions share nothing), `PipeCap = 1` frame
  per direction and per pipe so that every writer blocks, at most two chunks
  of input or output so that order matters.
* Proxy: `MaxIdle = 1` idle connection per host, so that the pool is full with
  two; each scenario bounds requests (`left`), server closes (`drops`) and
  policy changes (`ops`). The scenarios are: *updates* of hosts and paths,
  *secrets* with rules and rotating files, *nested* callbacks that change the
  policy, and answers that are *rewritten*, *called* on and *refused*.
* Images: two processes, three commands, two images with a common base layer,
  one tag. Processes are symmetric and only safety is checked.
* Schema: an old program and two new ones for one file, two rows,
  `MaxFailures = 3` failed operations or kills: enough for a failure, a failed
  restore and a further open.

`CHECK_DEADLOCK FALSE` where the system may stop: no VM left to create, a
session, call or list of commands that is over.

### Fairness

* `FairAllocatorSpec`, `FairLifecycleSpec`: a call in progress goes on; SQLite
  answers within `busy_timeout`. Allocation never retries and a save at most
  `MaxAttempts` times, so this is enough.
* `OperatedHostSpec`: a command that was started goes on, the operator keeps
  starting `prune` (strong fairness: other commands occupy the process now and
  then) and does not kill it, and a Firecracker process that outlived its
  supervisor ends. The last is needed: such a process holds the TAP, and
  deleting it fails with `EBUSY`. This is an assumption about the kernel and
  the operator; nothing in the code ends an orphan. No fairness for
  supervisors: one that hangs alive is rightly never reclaimed.
* `FairSessionSpec`: goroutines that can run do, both sides read their pipes
  unless they wait for something else, `Close`'s timeouts expire. Nothing makes
  a command end or read its stdin, or a user call, give up or close.
* `Spec` of VFSSession: the host's goroutine and the threads go on; strong
  fairness for taking the connection's mutex, which a Go mutex justifies: a
  waiter is handed the lock after a millisecond.
* `ExecSpec`: weak fairness for each goroutine of relay, backend and agent, for
  the launcher, and for the end of a process that got SIGKILL. Commands and
  clients owe nothing: one may ignore SIGTERM, never read, or never exit.
* `ProxySpec`: weak fairness for each policy change and for what a handler does
  inside the engine (`EngineCall`). Guests and servers owe nothing: a handler
  may wait for ever for a request, its body, an answer or a guest that does not
  read, none of which has a deadline. Two assumptions remain inside the engine.
  A callback returns unless it waits for its own policy change; and a server
  sends the rest of a body that is rewritten, or closes, since `OnResponse`
  reads it with the lock held and without a deadline (`network_hooks.go:505`).
* `StoreSpec`, `SchemaSpec`: none; only safety is stated.

## 4. Proofs

Checked by TLAPS for every value of the constants: any number of VMs,
processes, calls, connections, images, migrations. Each inductive invariant
was first checked by TLC on the instance of the run. The invariants are in the
component's module, the proofs in the module named after it; HostStateProofs
holds those of the two stores of the state database, and VFSSessionProofs its
own invariants.

**HostStateProofs**, on the subnet allocator, assumes only `OctetsAssumption`,
a non-empty range of positive naturals. `AllocatorTypeCorrect`; `AllocatorImplementsPool`: with
the type invariant, each statement of each process is a pool step or a
stutter. `SubnetsUnique` then needs no more than the pool: `Grant` only takes
octets without an owner. `SubnetNeverMoves` and `ExhaustionIsReal` are the action
properties; the second rests on what `FirstFree` returns for any set of used
octets, the last octet of the range included.

**HostStateProofs**, on the lifecycle store, assumes `AttemptsAssumption`, at
least one attempt, and `ProgramAssumption`, programs are sequences of well-formed calls. Versions
are not inductive alone: `StoreInv` adds the types, that a writer in its save
has a call to save (`SavesAreCalls`), and that the head is the length of the
history. `HistoryStep` says that any step leaves the history or appends one
record with version head + 1; `StoreTypeCorrect` and `StoreVersionsDense`
follow. `UpdatesFollowPhases` and `UpdatesNeverLoseMarks` are about an update
that no other one slipped into: the copy still has the newest version when it
is saved (`Undisturbed`). A phase is checked against the record that was
loaded, the step is from the record that is newest at the save;
`CopiesAreCurrent` says that the two are the same when their versions are, and
that no copy is ever newer. For an update that another one did slip into both are
false (section 6).

**SandboxHostProofs** assumes `HostAssumption`, and every theorem but
`HostTypeCorrect` assumes `MaxGen = 1`, ids are not reused.
`SupervisorEffect` and `CommandEffect` say once what the some sixty steps of a
supervisor and of a command may do to a VM; each invariant is proved from them.

| Theorem | Further assumptions | Invariant |
|---|---|---|
| `LiveVMsSkipped`, `RemovalSparesOwners` | none | `OwnershipInv`: an owner is named by its row (`OwnerIsRegistered`), so that the check finds it; a command past the check without force has a VM without an owner (`OwnerIsSpared`), which stays so since ids are not reused; only an error-free command without force removes (`RemovalIsGuarded`) |
| `LeaksRecoverable` | `~NftDenied`; `~RunRm` or `~HostFaults` | `RecoveryInv`: who deletes a row has given everything back, step by step, in a reconcile (`ReconcileProgress`) or in `Close` (`CloseProgress`) |
| `CleanedIsClean` | `~NftDenied`, no `--force-running` | `CleanedInv`: the same progress, and nobody creates once `cleaned` is recorded |
| `LiveVMsKeepResources` | `~HostFaults`, no `--force-running` | `KeepInv`: what `New` has created by each step (`CreationProgress`), and no `Cleanup` of the subnets picks a VM with an owner (`CleanupSparesOwners`) |

Section 6 has what happens where an assumption fails.

**SchemaMigrationProofs** assumes `OpenersAssumption`: programs are sequences
of migrations. `MigrationsKeepData` follows from `SchemaInv`: the lock has one
holder and only it is in `Open`, the pending migrations are the missing ones,
and, until a restore is cut short or meets another handle, `DataIsSafe`:
whoever may have to restore alone has a backup with every committed row, and
nobody can commit a row that the backup misses, since no handle is open.

**RPCSessionProofs** assumes `WireAssumption` and `HandlerAssumption`.
`SessionTypeCorrect`, `StdinStaysInOrder`, `RequestsHaveTheirVM` and
`ListenersHaveOwners` follow from `SessionInv`. Order of stdin is a statement
about what a command has read; the induction needs it of every place on the
way from the pump to the command: pipe, the line in the loop's hand, the queue
(`PipeInOrder`, `ReadInOrder`), that a request is written and read once
(`RequestOnce`), and that no input exists before the command is ready
(`NoInput`). Requests have their VM because `create` and `close` wait for
`InFlight = {}` first (`LoopInv`). `CloseIsComplete` adds `CloseInv` and
assumes `OneCreate`: a second `create` makes the handler forget the first VM.

**ImageStoreProofs** assumes `ImagesAssumption` and `NamesAssumption`.
`AloneIsComplete` and `PrunesKeepReferenced` follow from `StoreInv`: the
counts are those of the rows and a row has an image's layers (`TablesInv`);
what a prune read covers what it must respect (`PruneInv`); and what an
undisturbed command may rely on at each step (`AloneInv`), in particular that
its own prune sees the row it has just saved.

**ProxySessionProofs** assumes that `Config` is well formed
(`ConfigAssumption`), `ProxyBounds`, at least one idle connection and rules
the engine accepts, and two facts about the values used
(`UpstreamsAssumption`, `LiteralsAssumption`). `ProxyTypeCorrect`,
`ForwardedOnlyAllowed`, `SecretsStayInScope` and `ReuseIsClean` hold for any
policy, rules, secrets, traffic and number of connections. `ProxyInv` relates
a handler's place to the host it is for (`HostInv`), to what the gates have
allowed and would allow now (`AllowedInv`), and to what its request and its
connection carry (`CarriedInv`); `EngineInv` adds that a cached secret in use
is never empty and `PoolInv` that an idle connection is filed under its host.

**ExecSessionProofs** assumes `ExecBounds`: a call has one of the five modes,
comes through the relay or from the host process, and may have any number of
chunks each way; the stdin pipe holds at least one. `ExecTypeCorrect`, and
`ExecKeepsPromise`: ExecSession implements ExecCall (`ImplementsCall`), in
every mode and whatever dies, disconnects or is cancelled when. The mapping
reads only the two ends, what the process has written and what the caller has;
`ExecInv` says what is in between. `StreamInv` follows a stream from the pipe
to the caller: some chunk `b` is the last that has left the backend, the
frames to the client count on from what it has up to `b`, those from the guest
from `b` up to what the copier has handed over, and an answer comes behind
the last chunk. It is stated up to the first torn frame, and the order of
answers only where the output travels in frames (`Framed`; not in a terminal
or a batch result). `AnswerInv` says that an answer on its way, and the
backend's outcome, is the command's own or that the call is lost;
`LateInv` that the frame a cancelled call may still write is the next one;
`CopierInv` when a copier is in the middle of a frame; `CallerInv`,
`BackendInv` and `AgentInv` who is connected to whom: that a connection that
ends before the answer means a lost call (`EndedIsLost`) rests on these three.
The proof first sorts the steps: while the caller waits, each moves nothing
(`Still`) or is one of ten moves (`Moves`), by the guest, the command, the
backend, the relay or the client (`StepMoves`); a step that ends the wait
settles the call with the command's status and all its output, or as lost
(`Settles`). Every invariant is then kept move by move.

**VFSSessionProofs** assumes `VFSProvidersAssumption` (the paths are closed
under the parent, mounts are paths, the workspace is one), `InitTreeAssumption`
(what the mounts hold is a file system: one id per entry of a host directory
that can be stated, every entry in a directory, links only in host directories) and `GuestFuseAssumption` (what the guest has
looked up exists). For any paths, mounts, rules, threads and number of
operations: `ListingMatchesStatHolds`, `NodePathsFollowHolds` and
`HandlesFollowFileHolds`, from `VFSInvHolds`. `VFSInv` has four parts.

* `Base`: the request or answer on the connection is that of the call that
  holds the mutex (`WireOK`), and in a host directory an entry has one id, is
  not both file and directory, and lies in a directory (`TreeOK`). Of dangling
  links only the last holds: they have no id to a client. The listings follow.
* `HandleOK`: each host handle is that of one open file, of an open or create
  under way to the guest, or of a release under way to the host.
* `Track`, while the connection is up and nothing is tangled. `Placed`: a node
  hangs where its cached path says. `FollowOK`: the path leads to the node's
  file unless a move or removal that the host has served and the guest has not
  yet entered carries or clears it. `CallOK`, `PairsOK`: a call in hand still
  has the directory and the entry it began with, and two that the host has
  served do not meet. This is where the kernel's locks on directories are
  needed, and, where they do not reach (a directory moved above another call's),
  `raced`. All of it is about *firm* paths, those outside the mounts in memory
  or with a mount at or below them: elsewhere a rename leaves the content
  behind, and inode numbers are made from the path.
* `FileOK`: an open file that nothing raced is on the file of its node, which
  holds from the answer on: a handle keeps its file.

That a subtree moves as one needs no induction over paths or over the tree: a
prefix is compared name by name, the longest mount is a greatest element of a
set of numbers, and what hangs below a node (`Hanging`) is the least set closed
under children, so that a closed set that leaves a node out is a proof that it
does not hang there.

Only model-checked: every liveness property (`CallsReturn`, `WritersFinish`,
`CrashedIsReclaimed`, `CloseEndsSession`, `CallReturns`, `CancelKills`,
`PolicyCallsReturn`), since the prover handles neither fairness nor `ENABLED`.
Every invariant and safety action property of a passing run is a theorem.

## 5. Known limits of the model

* SandboxHost: no two supervisors for one id at a time, and no reuse of a pid
  by an unrelated process. `Sandbox.Stop` has no caller and is left out. VFS,
  proxy and CA of `New` are one step that may fail. The directory of a VM
  counts as no leak: it holds logs, `swap.img` and the overlay snapshots, files
  that `gc` does not look at and `rm` deletes with the row.
* LifecycleStore does not tell resources apart.
* RPC: terminal resizes, malformed lines, event notifications, a bounded
  stdout pipe and the death of the client are left out; there is one `create`
  per program. Sending the response and the deferred functions after it are
  one step. When the process dies its state is reset. At EOF of its stdin the
  rpc process ends without closing the VM: in SandboxHost this is a killed
  supervisor, whose leftovers are recoverable.
* `CloseEndsSession` excepts a session that stays in one of two states
  (section 6): `CloseWaits`, Close's own line waits on a full pipe, and
  `ReaderWaits`, the reader waits to fail a call that gave up in the instant its
  result arrived.
* VFS: contents, modes, times and the kernel's FORGET are left out; so are
  the asynchronous hooks, which only tests install, and the handles of a
  connection that dropped (the server never releases them). Of the host's
  symbolic links only those that lead nowhere are modelled, the directory of
  the target missing too, so that `O_CREATE` does not make it; the guest's
  client cannot make links. Hard links and links with a target, which give one
  file two paths, are left out, and so are errors of the host in reading and
  writing a handle. Ids are never used again; the host's inode numbers are, and
  the server passes no generation (`server.go:405`), so what a new file with an
  old number means to the guest is outside the model. Flags of a rename are
  ignored as in `fused/main.go:584`. A host handle that `DispatchUnstated`
  cannot close because a rule blocks it has no number and is not counted.
  `HandlesFollowFile` excepts files whose opening a move or removal overlapped
  (`raced`), `NodePathsFollow` ends with a call that tangles the tree, and
  `ListingMatchesStat` speaks of parents in host directories (section 6).
* Exec: `CancelKills` excepts what nobody in the guest watches (`Unwatched`): a
  terminal or file call, a pipe call whose stdin was ended by the empty frame, a
  reader blocked on a command that does not read. A stdin that the hangup itself
  closes is not excepted: there the signals must follow. File calls ignore
  their context.
  Port-forward requests over the relay are left out.
* Proxy: a host pattern has at most one `*`, over whole labels. The DNS
  forwarder, certificates, events and the rewriting of event streams line by
  line are left out. A rule without effect keeps its place in the list and
  matches nothing. Idle times ascend in the pool's list, so that reaping drops
  a prefix.
* ImageStore: one cache directory, so that copying a layer between
  directories has no work; no image repeats a layer; listing and sizes are
  left out.
* SchemaMigration: a migration's effect on the rows is that it is recorded.

## 6. Deviations

What the code does that a reader of its comments and documents would not
expect. Except for `exec_pipe_cancel` and `rpc_close_blocks` these are narrow windows or unusual
configurations; the properties above state them as exceptions or a constant
excludes them, and the constants stay in the model.

**Host**

* `RunRm = TRUE` with faults: `run --rm` (`cmd_run.go:508`), and the failure
  path of `create` (`handler.go:388`), remove the VM's row though `Close`
  failed, so a leak loses its row. `host_two_vms` shows it safe without faults.
* `NftDenied = TRUE`: a permission error of nftables is taken for success
  (`reconcile_linux.go:75`), and `rm` drops the row of a VM with tables.
* `MaxGen = 2`: `List` marks the id crashed that it read before the row was
  registered anew (`state.go:162`).
* `TapSubnetsUnique` (two networked VMs, one octet): `Close` frees the subnet
  before it deletes the TAP (`sandbox_linux.go:721`, `:743`), so for a moment
  two interfaces have one address.
* Two networked VMs with `HostFaults`: a failed lookup of the row makes
  `Cleanup` (`subnet.go:187`) release the subnet of a live VM.
* `UpdatesFollowStateMachine` without `Undisturbed`: `cleaned` is followed by
  `cleaning` (`record.go:241`; `docs/lifecycle.md:62` has no such arrow), since
  the phase is checked against the record loaded before the save.
* `Close` closes the events channel (`sandbox_linux.go:731`) while callbacks
  after a file operation may still send on it.

**SDK session**

* `CancelAborts` (`Scenarios <- ExecScenario`): a cancel line read before its
  request is registered is lost (`handler.go:227`; `protocol.go:101`).
* `CloseDoesNotBlock`, run `rpc_close_blocks`: a command that does not read
  its stdin blocks the handler's loop (`handler.go:936`), later chunks fill the
  pipe, and `Close` waits in the write of its request (`protocol.go:145`) or of
  its cancel line (`protocol.go:172`) before it reaches `Kill`
  (`client.go:177`). The timeout bounds only the wait for the answer.
  `CloseWaits` is this state.
* A call gives up in the instant its result arrives: the result stays in its
  channel of capacity 1, and the reader's send of the error at EOF
  (`protocol.go:206`) blocks with the lock on the pending table held, which the
  call needs to leave. `ReaderWaits` is this state.
* Two creates in one program: `handleCreate` (`handler.go:417`) overwrites
  `h.vm`, so `close` leaves the first VM open. `OneCreate` excludes it.

**Exec**

* `DisconnectKillsPipe`, run `exec_pipe_cancel`: closing stdin sends an empty
  frame, on which the agent's reader ends, so that nobody sees the connection
  close.
* `FramesIntact`: a frame is two writes (`wire.go:38`) and the agent's two
  copiers share a connection without a lock (`agent/main.go:802`), so frames
  can mix. `Lost` and `Whole` of the refinement except such a call.
* In pipe and tty mode an error of the relay is an exit code 1. In a tty the
  exit code may overtake output (`agent/main.go:774`), so `Whole` excepts it.
* The check of `waitDone` and the kill after the grace period
  (`agent/main.go:203`) are two steps; the pid may have gone in between.
* The relay's watcher can stay blocked in a write to stdin
  (`exec_relay.go:321`) after the call has returned.

**VFS**

* `RenamedPathsCurrent` (constants `MCOneMount*`, `Known <- MCFewKnown`): a
  lookup that overlaps a rename enters a node with its old path
  (`fused/main.go:364` promises the new one).
* Two renames that overlap on related paths, or a rename that overlaps a
  removal, leave a directory node with a path that leads elsewhere; every later
  rename through it goes astray, so that five operations reach a node whose path
  is another file's though no call is in hand. A `mkdir` whose stat fails or is
  blocked (`server.go:266`) is answered without attributes, and the guest takes
  a number made from the path for the directory's own. `tangled` marks these
  states.
* Renaming a directory that holds a nested mount leaves the mount where it
  was, as does a rename over a directory that only a mount below implies
  (`MovesMount`). A file of the base provider can shadow an ancestor of a mount. `rmdir`
  of a mount point removes the provider's own root.
* The memory provider's rename of a directory leaves its children behind
  (`memory.go:287`), and its remove ignores subdirectories, so that a path can
  exist that no listing leads to; `ListingMatchesStat` is about host
  directories.
* A rule whose operations are all unknown matches every operation; a rule that
  blocks `after` never acts; one that blocks `close` leaks the handle, and
  `HandlesFollowFile` counts open host files only without such a rule.
* Inodes of two providers can coincide, and the guest then takes two files for
  one.

**Network**

* `Config <- NoTimeout`: a callback without `timeout_ms` that changes the
  policy waits for a write lock behind its own read lock (`engine.go:320`).
* `NoAnswerIsOwed`: an interim answer (`http.ReadResponse` returns 100, 103 and
  101 alike; `http.go:86`, `:191`) is passed on as the answer, and the
  connection goes back to the pool with the final answer still to come
  (`http.go:121`), which the next request on it gets. `ReusedAfterWholeAnswer`
  speaks of the answer taken.
* A path prefix that does not end in a slash also allows paths whose segment
  only begins with it (`engine.go:253` does not ask for one).
* A body replaced by a callback leaves the original unread on a connection
  that is then reused. A pooled connection that died closes the guest's
  connection without a retry (`http.go:86`).
* HTTPS and TCP check the host once per connection, and the path before
  rewrites. Removing the last allowed host allows all.
* Errors and timeouts of callbacks allow the request. Placeholders in a body
  are not looked for. A secret file configured without a placeholder loses its
  file (`engine.go:58`); an empty file replaces the cached value.

**Images and schema**

* A prune of another process removes the blobs and temporary files
  (`sha256_` names count as legacy files) of a pull under way: the pull fails
  or leaves a row without files, which the next pull repairs. `image rm` tries
  the registry cache after any error.
* `Get` makes two queries (`store.go:362`) and can mix two images; a pull that
  saves the mixture under a second tag stores it, and a later pull of that tag,
  though undisturbed, returns one image's rootfs for the other's layers
  (`RowsAreWhole`).
* A prune reads the layer references and the rootfs references in two queries
  (`store.go:801`, `:831`). A blob whose only reference turns from rootfs into
  layer between them is removed though something referred to it at each moment.
* A restore that is cut short loses the rows: the next `Open` removes the
  whole backup before it makes its own (`db.go:194`). A restore under another
  process's open handle orphans it, and its later writes are lost. `damaged`
  marks both.

## 7. Not modelled, and what is left

Not modelled, since no state of their own outlives a call or the state is
another module's:

* Python and TypeScript SDKs: the protocol of SDKClient in another runtime.
* macOS sandbox, backend and network stack: the structure of SandboxHost and
  HTTPProxy over frameworks that are not in the repository.
* nftables rules: a batch of netlink messages; SandboxHost has the tables.
* Port forwarding: two byte copies per connection; the listeners' life is in
  RPCHandler.
* Kernel cache: ImageStore's steps for one file without pruning.
* Guest init, overlay snapshots, volumes: sequences of mounts or one file copy,
  whose only outcome is success or failure.
* Configuration, diagnose, setup: values and reports.

What is left to prove is liveness, which is out of the prover's reach. No
module holds a `RECURSIVE` operator.
