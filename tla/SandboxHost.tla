----------------------------- MODULE SandboxHost ----------------------------
(***************************************************************************)
(* The life of sandbox VMs on one host, as the processes of matchlock see  *)
(* and change it.                                                          *)
(*                                                                         *)
(*  - A supervisor (`matchlock run` or `matchlock rpc`) builds a VM with   *)
(*    sandbox.New, boots it with Start and takes it down with Close        *)
(*    (pkg/sandbox/sandbox_linux.go).  It may be killed at any step; the   *)
(*    Firecracker process it started then lives on.                        *)
(*  - Administrative commands (`list`, `gc`, `rm`, `prune`) run in         *)
(*    processes of their own (pkg/lifecycle/reconcile.go, manager.go,      *)
(*    pkg/state/state.go), at any time and any number at once.             *)
(*                                                                         *)
(* They share the SQLite state database (vms, subnet_allocations, the      *)
(* newest vm_lifecycle record) and the host: TAP interfaces, nftables      *)
(* tables, disk images, VM directories.  One action is one SQL statement   *)
(* or one host operation.  Allocate is the atomic grant of SubnetPool,     *)
(* which SubnetAllocator implements; a lifecycle update is atomic here and *)
(* taken apart in LifecycleStore.                                          *)
(***************************************************************************)
EXTENDS SubnetPool, LifecyclePhases

CONSTANTS Admins,       \* processes that run administrative commands
          Networked,    \* the VMs that are not created with NoNetwork
          Commands,     \* the commands the operator issues
          ForceRunning, \* the values of `gc --force-running` in use
          MaxGen,       \* how often one VM id may be created; ids are random
                        \* by default, so 1 unless a caller chooses the id
          RunRm,        \* TRUE: the supervisor removes the VM after Close
          HostFaults,   \* TRUE: host and database operations may fail
          NftDenied     \* TRUE: deleting nftables rules may be denied (EPERM)

AllCommands == {"list", "gc", "gcAll", "rm", "rmStopped", "prune"}

ASSUME HostAssumption ==
    /\ VMs # {}
    /\ Networked \subseteq VMs
    /\ Commands \subseteq AllCommands
    /\ ForceRunning \subseteq BOOLEAN
    /\ MaxGen \in Nat \ {0}
    /\ RunRm \in BOOLEAN
    /\ HostFaults \in BOOLEAN
    /\ NftDenied \in BOOLEAN

VARIABLES
    status,   \* vms.status, "none" without a row
    pid,      \* vms.pid: the generation of the supervisor, 0 for none
    phase,    \* phase of the newest lifecycle record, NoPhase without one
    tap,      \* the octet configured on the VM's TAP interface, NoOctet: no TAP
    nft,      \* the VM's nftables tables exist
    disks,    \* upper.ext4 or bootstrap.ext4 exist
    dir,      \* the VM directory exists
    vmm,      \* the VM's Firecracker process is running
    pc,       \* where the VM's supervisor is
    gen,      \* how many supervisors the VM id has had; also the pid of the last
    info,     \* subnetInfo.Octet, in the supervisor's memory
    errs,     \* Close has collected an error
    failing,  \* sandbox.New is going to return an error
    adm       \* adm[q]: the command process q is executing

dbVars   == <<table, status, pid, phase>>
hostVars == <<tap, nft, disks, dir, vmm>>
supVars  == <<pc, gen, info, errs, failing>>
vars     == <<table, status, pid, phase, tap, nft, disks, dir, vmm,
              pc, gen, info, errs, failing, adm>>

NewPCs     == {"lifecycleInit", "disks", "subnet", "machine", "network",
               "created"}
NewFailPCs == {"f_early", "f_network", "f_machine", "f_subnet", "f_unregister",
               "f_defer"}
LivePCs    == {"start", "boot", "setRunning", "running"}
ClosePCs   == {"c_stopping", "c_cleaning", "c_network", "c_subnet",
               "c_unregister", "c_machine", "c_disks", "c_final"}
RemovePCs  == {"rm_get", "rm_mark", "rm_tx", "rm_dir"}
ReconcilePCs == {"rec_get", "rec_init", "rec_phase", "rec_subnet",
                 "rec_rootfs", "rec_tap", "rec_nft", "rec_done"}
SupervisorPCs == {"none", "exited"} \cup NewPCs \cup NewFailPCs \cup LivePCs
                 \cup ClosePCs \cup RemovePCs
AdminPCs == {"idle", "list", "mark", "pick", "cl_scan", "cl_check", "cl_delete"}
            \cup ReconcilePCs \cup RemovePCs

\* todo, seen: the ids a command still has to visit, and the ids List or
\* Cleanup found dead; vm: the one in work; bad: its reconcile had an error.
AdminState == [pc : AdminPCs, cmd : AllCommands, force : BOOLEAN, vm : VMs,
               todo : SUBSET VMs, seen : SUBSET VMs, bad : BOOLEAN]

IdleAdmin == [pc |-> "idle", cmd |-> "list", force |-> FALSE,
              vm |-> CHOOSE v \in VMs : TRUE, todo |-> {}, seen |-> {},
              bad |-> FALSE]

HostInit ==
    /\ PoolInit
    /\ status = [v \in VMs |-> "none"]
    /\ pid = [v \in VMs |-> 0]
    /\ phase = [v \in VMs |-> NoPhase]
    /\ tap = [v \in VMs |-> NoOctet]
    /\ nft = [v \in VMs |-> FALSE]
    /\ disks = [v \in VMs |-> FALSE]
    /\ dir = [v \in VMs |-> FALSE]
    /\ vmm = [v \in VMs |-> FALSE]
    /\ pc = [v \in VMs |-> "none"]
    /\ gen = [v \in VMs |-> 0]
    /\ info = [v \in VMs |-> NoOctet]
    /\ errs = [v \in VMs |-> FALSE]
    /\ failing = [v \in VMs |-> FALSE]
    /\ adm = [q \in Admins |-> IdleAdmin]

-----------------------------------------------------------------------------
(* Statements and host operations that several actors share.               *)

SupervisorAlive(v) == pc[v] \notin {"none", "exited"}

\* isProcessRunning mutated: every probe fails.
isProcessRunningNever(v, p) == FALSE

\* isProcessRunning mutated: the zombie of a dead supervisor reads as alive.
isProcessRunningZombie(v, p) == p # 0

\* isProcessRunning(pid): the process exists and is no zombie.
isProcessRunning(v, p) == p # 0 /\ p = gen[v] /\ SupervisorAlive(v)

Goto(v, l) == pc' = [pc EXCEPT ![v] = l]

\* store.SetPhase: a transition that is not allowed leaves the record alone.
SetPhase(v, p) ==
    phase' = [phase EXCEPT ![v] = IF validateTransition(@, p) THEN p ELSE @]

\* store.SetPhase when the caller ignores its error: the write may fail too.
TrySetPhase(v, p) ==
    SetPhase(v, p) \/ (HostFaults /\ UNCHANGED phase)

\* Unregister mutated: a status List and Prune do not know.
UnregisterClosed(v) ==
    /\ status' = [status EXCEPT ![v] = IF @ = "none" THEN @ ELSE "closed"]
    /\ pid' = [pid EXCEPT ![v] = 0]

\* state.Manager.Unregister: UPDATE; no row is an error.
Unregister(v) ==
    /\ status' = [status EXCEPT ![v] = IF @ = "none" THEN @ ELSE "stopped"]
    /\ pid' = [pid EXCEPT ![v] = 0]

\* UPDATE vms SET status = 'crashed' WHERE id = ?
MarkCrashed(v) ==
    status' = [status EXCEPT ![v] = IF @ = "none" THEN @ ELSE "crashed"]

\* The transaction of state.Manager.Remove.
RemoveRows(v) ==
    /\ table' = [table EXCEPT ![v] = NoOctet]
    /\ status' = [status EXCEPT ![v] = "none"]
    /\ pid' = [pid EXCEPT ![v] = 0]

\* os.RemoveAll of the VM directory, which holds the disk images.
RemoveDir(v) ==
    /\ dir' = [dir EXCEPT ![v] = FALSE]
    /\ disks' = [disks EXCEPT ![v] = FALSE]

\* linux.DeleteInterface works unless Firecracker still has the TAP open.
TapBusy(v) == tap[v] # NoOctet /\ vmm[v]

-----------------------------------------------------------------------------
(* sandbox.New.                                                            *)

\* Manager.Register: the row names this process as the VM's supervisor.
Register(v) ==
    /\ ~SupervisorAlive(v) /\ gen[v] < MaxGen
    /\ gen' = [gen EXCEPT ![v] = @ + 1]
    /\ status' = [status EXCEPT ![v] = "running"]
    /\ pid' = [pid EXCEPT ![v] = gen[v] + 1]
    /\ dir' = [dir EXCEPT ![v] = TRUE]
    /\ info' = [info EXCEPT ![v] = NoOctet]
    /\ errs' = [errs EXCEPT ![v] = FALSE]
    /\ failing' = [failing EXCEPT ![v] = FALSE]
    /\ Goto(v, "lifecycleInit")
    /\ UNCHANGED <<table, phase, tap, nft, disks, vmm, adm>>

\* The INSERT fails: the directory is removed again.
RegisterFails(v) ==
    /\ HostFaults
    /\ ~SupervisorAlive(v) /\ gen[v] < MaxGen
    /\ gen' = [gen EXCEPT ![v] = @ + 1]
    /\ RemoveDir(v)
    /\ Goto(v, "exited")
    /\ UNCHANGED <<dbVars, tap, nft, vmm, info, errs, failing, adm>>

\* lifecycleStore.Init; when it fails the row is unregistered and New returns.
LifecycleInit(v) ==
    /\ pc[v] = "lifecycleInit"
    /\ \/ /\ phase' = [phase EXCEPT ![v] = "creating"]
          /\ Goto(v, "disks")
       \/ HostFaults /\ Goto(v, "f_early") /\ UNCHANGED phase
    /\ UNCHANGED <<table, status, pid, hostVars, gen, info, errs, failing, adm>>

\* createBootstrapRootfs, createExt4Image, prepareOverlayUpperRootfs.
CreateDisks(v) ==
    /\ pc[v] = "disks"
    /\ \/ /\ dir[v]
          /\ disks' = [disks EXCEPT ![v] = TRUE]
          /\ Goto(v, "subnet")
       \/ /\ disks' = [disks EXCEPT ![v] = FALSE]
          /\ Goto(v, "f_unregister")
    /\ UNCHANGED <<dbVars, tap, nft, dir, vmm, gen, info, errs, failing, adm>>

\* subnetAlloc.Allocate: the VM's own row if it has one, else a free octet.
AllocateSubnet(v) ==
    /\ pc[v] = "subnet" /\ v \in Networked
    /\ \/ table[v] # NoOctet /\ UNCHANGED table
       \/ \E o \in Octets : Grant(v, o)
    /\ info' = [info EXCEPT ![v] = table'[v]]
    /\ Goto(v, "machine")
    /\ UNCHANGED <<status, pid, phase, hostVars, gen, errs, failing, adm>>

SkipSubnet(v) ==
    /\ pc[v] = "subnet" /\ v \notin Networked
    /\ Goto(v, "machine")
    /\ UNCHANGED <<dbVars, hostVars, gen, info, errs, failing, adm>>

\* The network or CPU configuration is refused, the CA pool or the
\* allocation fails; some of these paths remove the disks at once, on the
\* others the deferred cleanup does.
FailBeforeSubnet(v) ==
    /\ pc[v] = "subnet"
    /\ disks' \in {disks, [disks EXCEPT ![v] = FALSE]}
    /\ Goto(v, "f_unregister")
    /\ UNCHANGED <<dbVars, tap, nft, dir, vmm, gen, info, errs, failing, adm>>

\* backend.Create: create the TAP and give it the gateway's address.
CreateMachine(v) ==
    /\ pc[v] = "machine"
    /\ ~TapBusy(v)
    /\ tap' = [tap EXCEPT ![v] = IF v \in Networked THEN info[v] ELSE @]
    /\ Goto(v, "network")
    /\ UNCHANGED <<dbVars, nft, disks, dir, vmm, gen, info, errs, failing, adm>>

\* No kernel, bad extra disks, no swap file, or no TAP.  A TAP that cannot be
\* configured is deleted again; when that fails too, which is not looked at,
\* it stays.
FailBeforeMachine(v) ==
    /\ pc[v] = "machine"
    /\ disks' \in {disks, [disks EXCEPT ![v] = FALSE]}
    /\ \/ UNCHANGED tap
       \/ /\ v \in Networked /\ ~TapBusy(v)
          /\ \E o \in {NoOctet} \cup (IF HostFaults THEN {info[v]} ELSE {}) :
                 tap' = [tap EXCEPT ![v] = o]
    /\ Goto(v, "f_subnet")
    /\ UNCHANGED <<dbVars, nft, dir, vmm, gen, info, errs, failing, adm>>

\* Firewall and NAT tables; NAT that cannot be set up is only a warning.
SetupNetwork(v) ==
    /\ pc[v] = "network"
    /\ \E b \in (IF v \in Networked THEN BOOLEAN ELSE {nft[v]}) :
           nft' = [nft EXCEPT ![v] = b]
    /\ Goto(v, "created")
    /\ UNCHANGED <<dbVars, tap, disks, dir, vmm, gen, info, errs, failing, adm>>

\* Overlay snapshots, proxy, DNS forwarder or firewall fail.
FailNetwork(v) ==
    /\ pc[v] = "network"
    /\ Goto(v, "f_machine")
    /\ UNCHANGED <<dbVars, hostVars, gen, info, errs, failing, adm>>

\* The VFS providers or the VFS server fail: cleanupVM.
FailVFS(v) ==
    /\ pc[v] = "created"
    /\ Goto(v, "f_network")
    /\ UNCHANGED <<dbVars, hostVars, gen, info, errs, failing, adm>>

\* SetPhase(created) and SetLastError(nil); when one of them fails, New
\* closes the sandbox.
SetCreated(v) ==
    /\ pc[v] = "created"
    /\ \/ /\ validateTransition(phase[v], "created")
          /\ SetPhase(v, "created")
          /\ Goto(v, "start")
          /\ UNCHANGED failing
       \/ /\ HostFaults \/ ~validateTransition(phase[v], "created")
          /\ failing' = [failing EXCEPT ![v] = TRUE]
          /\ Goto(v, "c_stopping")
          /\ TrySetPhase(v, "created")
    /\ UNCHANGED <<table, status, pid, hostVars, gen, info, errs, adm>>

-----------------------------------------------------------------------------
(* The error paths of New, in the order of its cleanups.  Their errors are *)
(* ignored.                                                                *)

UnregisterEarly(v) ==
    /\ pc[v] = "f_early"
    /\ Unregister(v) \/ (HostFaults /\ UNCHANGED <<status, pid>>)
    /\ Goto(v, "exited")
    /\ UNCHANGED <<table, phase, hostVars, gen, info, errs, failing, adm>>

UndoNetwork(v) ==
    /\ pc[v] = "f_network"
    /\ nft' = [nft EXCEPT ![v] = FALSE] \/ (HostFaults /\ UNCHANGED nft)
    /\ Goto(v, "f_machine")
    /\ UNCHANGED <<dbVars, tap, disks, dir, vmm, gen, info, errs, failing, adm>>

UndoMachine(v) ==
    /\ pc[v] = "f_machine"
    /\ \/ ~TapBusy(v) /\ tap' = [tap EXCEPT ![v] = NoOctet]
       \/ (HostFaults \/ TapBusy(v)) /\ UNCHANGED tap
    /\ Goto(v, "f_subnet")
    /\ UNCHANGED <<dbVars, nft, disks, dir, vmm, gen, info, errs, failing, adm>>

UndoSubnet(v) ==
    /\ pc[v] = "f_subnet"
    /\ Free(v) \/ (HostFaults /\ UNCHANGED table)
    /\ Goto(v, "f_unregister")
    /\ UNCHANGED <<status, pid, phase, hostVars, gen, info, errs, failing, adm>>

UndoRegister(v) ==
    /\ pc[v] = "f_unregister"
    /\ Unregister(v) \/ (HostFaults /\ UNCHANGED <<status, pid>>)
    /\ Goto(v, "f_defer")
    /\ UNCHANGED <<table, phase, hostVars, gen, info, errs, failing, adm>>

\* The deferred functions: remove the disks, record create_failed.
NewReturnsError(v) ==
    /\ pc[v] = "f_defer"
    /\ disks' = [disks EXCEPT ![v] = FALSE] \/ (HostFaults /\ UNCHANGED disks)
    /\ TrySetPhase(v, "create_failed")
    /\ Goto(v, "exited")
    /\ UNCHANGED <<table, status, pid, tap, nft, dir, vmm, gen, info, errs,
                   failing, adm>>

-----------------------------------------------------------------------------
(* Sandbox.Start.  When it fails the caller closes the sandbox.            *)

SetStarting(v) ==
    /\ pc[v] = "start"
    /\ \/ /\ validateTransition(phase[v], "starting")
          /\ SetPhase(v, "starting")
          /\ Goto(v, "boot")
       \/ /\ HostFaults \/ ~validateTransition(phase[v], "starting")
          /\ Goto(v, "c_stopping")
          /\ UNCHANGED phase
    /\ UNCHANGED <<table, status, pid, hostVars, gen, info, errs, failing, adm>>

\* machine.Start: Firecracker runs and the guest is ready.
BootMachine(v) ==
    /\ pc[v] = "boot"
    /\ vmm' = [vmm EXCEPT ![v] = TRUE]
    /\ Goto(v, "setRunning")
    /\ UNCHANGED <<dbVars, tap, nft, disks, dir, gen, info, errs, failing, adm>>

\* It does not start, or is stopped again because the guest is not ready.
BootFails(v) ==
    /\ pc[v] = "boot"
    /\ TrySetPhase(v, "start_failed")
    /\ Goto(v, "c_stopping")
    /\ UNCHANGED <<table, status, pid, hostVars, gen, info, errs, failing, adm>>

SetRunning(v) ==
    /\ pc[v] = "setRunning"
    /\ \/ /\ validateTransition(phase[v], "running")
          /\ SetPhase(v, "running")
          /\ Goto(v, "running")
       \/ /\ HostFaults \/ ~validateTransition(phase[v], "running")
          /\ Goto(v, "c_stopping")
          /\ TrySetPhase(v, "running")
    /\ UNCHANGED <<table, status, pid, hostVars, gen, info, errs, failing, adm>>

-----------------------------------------------------------------------------
(* Sandbox.Close: every step is tried, errors are collected.               *)

\* The command ended, a signal or `kill` arrived, or the client closed.
BeginClose(v) ==
    /\ pc[v] = "running"
    /\ Goto(v, "c_stopping")
    /\ UNCHANGED <<dbVars, hostVars, gen, info, errs, failing, adm>>

\* SetPhase whose error Close collects.
ClosePhase(v, p) ==
    \/ /\ validateTransition(phase[v], p)
       /\ SetPhase(v, p)
       /\ UNCHANGED errs
    \/ /\ HostFaults \/ ~validateTransition(phase[v], p)
       /\ errs' = [errs EXCEPT ![v] = TRUE]
       /\ UNCHANGED phase

\* markCleanup after a step that worked: its own error is collected too.
MarkCleanup(v) ==
    UNCHANGED errs \/ (HostFaults /\ errs' = [errs EXCEPT ![v] = TRUE])

CloseStopping(v) ==
    /\ pc[v] = "c_stopping"
    /\ ClosePhase(v, "stopping")
    /\ Goto(v, "c_cleaning")
    /\ UNCHANGED <<table, status, pid, hostVars, gen, info, failing, adm>>

CloseCleaning(v) ==
    /\ pc[v] = "c_cleaning"
    /\ ClosePhase(v, "cleaning")
    /\ Goto(v, "c_network")
    /\ UNCHANGED <<table, status, pid, hostVars, gen, info, failing, adm>>

\* VFS server, hooks, firewall, NAT, proxy and DNS forwarder.
CloseNetwork(v) ==
    /\ pc[v] = "c_network"
    /\ \/ nft' = [nft EXCEPT ![v] = FALSE] /\ MarkCleanup(v)
       \/ HostFaults /\ errs' = [errs EXCEPT ![v] = TRUE] /\ UNCHANGED nft
    /\ Goto(v, "c_subnet")
    /\ UNCHANGED <<dbVars, tap, disks, dir, vmm, gen, info, failing, adm>>

\* subnetAlloc.Release, while the TAP is still configured.
CloseSubnet(v) ==
    /\ pc[v] = "c_subnet"
    /\ \/ Free(v) /\ MarkCleanup(v)
       \/ HostFaults /\ errs' = [errs EXCEPT ![v] = TRUE] /\ UNCHANGED table
    /\ Goto(v, "c_unregister")
    /\ UNCHANGED <<status, pid, phase, hostVars, gen, info, failing, adm>>

\* close(events), guest sync, Unregister: before the machine is closed.
CloseUnregister(v) ==
    /\ pc[v] = "c_unregister"
    /\ \/ /\ status[v] # "none"
          /\ Unregister(v)
          /\ MarkCleanup(v)
       \/ /\ HostFaults \/ status[v] = "none"
          /\ errs' = [errs EXCEPT ![v] = TRUE]
          /\ UNCHANGED <<status, pid>>
    /\ Goto(v, "c_machine")
    /\ UNCHANGED <<table, phase, hostVars, gen, info, failing, adm>>

\* CloseMachine mutated: the TAP is left to the kernel.
CloseMachineKeepsTap(v) ==
    /\ pc[v] = "c_machine"
    /\ vmm' = [vmm EXCEPT ![v] = FALSE]
    /\ Goto(v, "c_disks")
    /\ UNCHANGED <<dbVars, tap, nft, disks, dir, gen, info, errs, failing, adm>>

\* machine.Close: stop Firecracker, wait for its exit, delete the TAP.
CloseMachine(v) ==
    /\ pc[v] = "c_machine"
    /\ vmm' = [vmm EXCEPT ![v] = FALSE]
    /\ \/ tap' = [tap EXCEPT ![v] = NoOctet] /\ MarkCleanup(v)
       \/ HostFaults /\ errs' = [errs EXCEPT ![v] = TRUE] /\ UNCHANGED tap
    /\ Goto(v, "c_disks")
    /\ UNCHANGED <<dbVars, nft, disks, dir, gen, info, failing, adm>>

CloseDisks(v) ==
    /\ pc[v] = "c_disks"
    /\ \/ disks' = [disks EXCEPT ![v] = FALSE] /\ MarkCleanup(v)
       \/ HostFaults /\ errs' = [errs EXCEPT ![v] = TRUE] /\ UNCHANGED disks
    /\ Goto(v, "c_final")
    /\ UNCHANGED <<dbVars, tap, nft, dir, vmm, gen, info, failing, adm>>

\* The return to the caller: New, when it closed the sandbox itself, has its
\* deferred functions still to run; `run --rm` and a failed `create` of the RPC
\* server go on to remove the VM.
CloseReturns(v) ==
    \/ failing[v] /\ Goto(v, "f_defer")
    \/ ~failing[v] /\ Goto(v, "exited")
    \/ ~failing[v] /\ RunRm /\ Goto(v, "rm_get")

\* CloseFinal mutated: the collected errors are not looked at.
CloseFinalIgnoringErrors(v) ==
    /\ pc[v] = "c_final"
    /\ TrySetPhase(v, "cleaned")
    /\ CloseReturns(v)
    /\ UNCHANGED <<table, status, pid, hostVars, gen, info, errs, failing, adm>>

\* The final phase, and the return to the caller.
CloseFinal(v) ==
    /\ pc[v] = "c_final"
    /\ TrySetPhase(v, IF errs[v] THEN "cleanup_failed" ELSE "cleaned")
    /\ CloseReturns(v)
    /\ UNCHANGED <<table, status, pid, hostVars, gen, info, errs, failing, adm>>

-----------------------------------------------------------------------------
(* state.Manager.Remove, called by the supervisor itself.                  *)

RmGet(v) ==
    /\ pc[v] = "rm_get"
    /\ \/ status[v] \in {"stopped", "crashed"} /\ Goto(v, "rm_tx")
       \/ status[v] \in {"none", "running"} /\ Goto(v, "exited")
    /\ UNCHANGED <<dbVars, hostVars, gen, info, errs, failing, adm>>

RmTx(v) ==
    /\ pc[v] = "rm_tx"
    /\ \/ RemoveRows(v) /\ Goto(v, "rm_dir")
       \/ HostFaults /\ Goto(v, "exited") /\ UNCHANGED <<table, status, pid>>
    /\ UNCHANGED <<phase, hostVars, gen, info, errs, failing, adm>>

RmDir(v) ==
    /\ pc[v] = "rm_dir"
    /\ RemoveDir(v) \/ (HostFaults /\ UNCHANGED <<dir, disks>>)
    /\ Goto(v, "exited")
    /\ UNCHANGED <<dbVars, tap, nft, vmm, gen, info, errs, failing, adm>>

-----------------------------------------------------------------------------
(* What no code decides.                                                   *)

\* The supervisor is killed; its Firecracker process is not.
SupervisorKilled(v) ==
    /\ SupervisorAlive(v)
    /\ Goto(v, "exited")
    /\ UNCHANGED <<dbVars, hostVars, gen, info, errs, failing, adm>>

\* The guest powers off, or Firecracker dies or is killed by hand.
VMMExits(v) ==
    /\ vmm[v]
    /\ vmm' = [vmm EXCEPT ![v] = FALSE]
    /\ UNCHANGED <<dbVars, tap, nft, disks, dir, supVars, adm>>

-----------------------------------------------------------------------------
(* Administrative commands.                                                *)

AdminGoto(q, l) == adm' = [adm EXCEPT ![q].pc = l]

AdminEnds(q) == adm' = [adm EXCEPT ![q] = IdleAdmin]

\* `list`, `gc`, `rm --stopped`, `prune`: all VMs List returns.
BeginAll(q, c, f) ==
    /\ adm[q].pc = "idle" /\ c \in Commands \cap {"list", "gcAll", "rmStopped", "prune"}
    /\ adm' = [adm EXCEPT ![q] =
                  [IdleAdmin EXCEPT !.pc = "list", !.cmd = c,
                                    !.force = f /\ c = "gcAll"]]
    /\ UNCHANGED <<dbVars, hostVars, supVars>>

\* `gc <id>` and `rm <id>`.
BeginOne(q, c, v, f) ==
    /\ adm[q].pc = "idle" /\ c \in Commands \cap {"gc", "rm"}
    /\ adm' = [adm EXCEPT ![q] =
                  [IdleAdmin EXCEPT !.pc = "rec_get", !.cmd = c, !.vm = v,
                                    !.force = f /\ c = "gc"]]
    /\ UNCHANGED <<dbVars, hostVars, supVars>>

\* The status List reports: running becomes crashed without a process.
ListedDead(v) == status[v] = "running" /\ ~isProcessRunning(v, pid[v])

\* The ids each command goes on with, chosen from what List returned.
Selected(c) ==
    LET rows == {v \in VMs : status[v] # "none"}
        dead == {v \in VMs : ListedDead(v) \/ status[v] \in {"stopped", "crashed"}}
    IN  CASE c = "gcAll" -> rows
          [] c \in {"rmStopped", "prune"} -> dead
          [] OTHER -> {}

\* Manager.List, its SELECT.
List(q) ==
    /\ adm[q].pc = "list"
    /\ adm' = [adm EXCEPT ![q].pc = "mark",
                          ![q].todo = Selected(adm[q].cmd),
                          ![q].seen = {v \in VMs : ListedDead(v)}]
    /\ UNCHANGED <<dbVars, hostVars, supVars>>

\* Manager.List, one of its UPDATEs: the row may have changed since.
ListMark(q, v) ==
    /\ adm[q].pc = "mark" /\ v \in adm[q].seen
    /\ MarkCrashed(v)
    /\ adm' = [adm EXCEPT ![q].seen = @ \ {v}]
    /\ UNCHANGED <<table, pid, phase, hostVars, supVars>>

ListReturns(q) ==
    /\ adm[q].pc = "mark" /\ adm[q].seen = {}
    /\ AdminGoto(q, "pick")
    /\ UNCHANGED <<dbVars, hostVars, supVars>>

\* The next VM of the command.
Pick(q, v) ==
    /\ adm[q].pc = "pick" /\ v \in adm[q].todo
    /\ adm' = [adm EXCEPT ![q].pc = "rec_get", ![q].vm = v,
                          ![q].todo = @ \ {v}, ![q].bad = FALSE]
    /\ UNCHANGED <<dbVars, hostVars, supVars>>

\* No VM is left: prune goes on with SubnetAllocator.Cleanup.
PickDone(q) ==
    /\ adm[q].pc = "pick" /\ adm[q].todo = {}
    /\ IF adm[q].cmd = "prune" THEN AdminGoto(q, "cl_scan") ELSE AdminEnds(q)
    /\ UNCHANGED <<dbVars, hostVars, supVars>>

-----------------------------------------------------------------------------
(* Reconciler.ReconcileVM.                                                 *)

\* Reconcilable mutated: the liveness check is dropped.
ReconcilableUnchecked(v, force) == status[v] # "none"

\* Without a row, or with a live supervisor and no --force-running, the VM
\* is skipped.
Reconcilable(v, force) ==
    /\ status[v] # "none"
    /\ status[v] = "running" /\ isProcessRunning(v, pid[v]) => force

RecGet(q) ==
    /\ adm[q].pc = "rec_get"
    /\ AdminGoto(q, IF Reconcilable(adm[q].vm, adm[q].force)
                    THEN "rec_init" ELSE "pick")
    /\ UNCHANGED <<dbVars, hostVars, supVars>>

\* A VM without a lifecycle record gets one.  Exists says no on any database
\* error too, so that Init may start the history of a VM that has one over.
\* That Init fails is ignored; a record that cannot be loaded ends the
\* reconcile.
RecInit(q) ==
    /\ adm[q].pc = "rec_init"
    /\ \/ /\ phase[adm[q].vm] = NoPhase \/ HostFaults
          /\ phase' = [phase EXCEPT ![adm[q].vm] = "creating"]
          /\ AdminGoto(q, "rec_phase")
       \/ /\ phase[adm[q].vm] # NoPhase \/ HostFaults
          /\ AdminGoto(q, "rec_phase")
          /\ UNCHANGED phase
       \/ HostFaults /\ AdminGoto(q, "pick") /\ UNCHANGED phase
    /\ UNCHANGED <<table, status, pid, hostVars, supVars>>

RecPhase(q) ==
    /\ adm[q].pc = "rec_phase"
    /\ TrySetPhase(adm[q].vm, "cleaning")
    /\ AdminGoto(q, "rec_subnet")
    /\ UNCHANGED <<table, status, pid, hostVars, supVars>>

RecFails(q, l) ==
    adm' = [adm EXCEPT ![q].pc = l, ![q].bad = TRUE]

RecSubnet(q) ==
    /\ adm[q].pc = "rec_subnet"
    /\ \/ Free(adm[q].vm) /\ AdminGoto(q, "rec_rootfs")
       \/ HostFaults /\ RecFails(q, "rec_rootfs") /\ UNCHANGED table
    /\ UNCHANGED <<status, pid, phase, hostVars, supVars>>

RecRootfs(q) ==
    /\ adm[q].pc = "rec_rootfs"
    /\ \/ disks' = [disks EXCEPT ![adm[q].vm] = FALSE] /\ AdminGoto(q, "rec_tap")
       \/ HostFaults /\ RecFails(q, "rec_tap") /\ UNCHANGED disks
    /\ UNCHANGED <<dbVars, tap, nft, dir, vmm, supVars>>

RecTap(q) ==
    /\ adm[q].pc = "rec_tap"
    /\ \/ /\ ~TapBusy(adm[q].vm)
          /\ tap' = [tap EXCEPT ![adm[q].vm] = NoOctet]
          /\ AdminGoto(q, "rec_nft")
       \/ /\ HostFaults \/ TapBusy(adm[q].vm)
          /\ RecFails(q, "rec_nft")
          /\ UNCHANGED tap
    /\ UNCHANGED <<dbVars, nft, disks, dir, vmm, supVars>>

\* deleteNFTTable takes EPERM and EACCES for success.
RecNft(q) ==
    /\ adm[q].pc = "rec_nft"
    /\ \/ nft' = [nft EXCEPT ![adm[q].vm] = FALSE] /\ AdminGoto(q, "rec_done")
       \/ NftDenied /\ AdminGoto(q, "rec_done") /\ UNCHANGED nft
       \/ HostFaults /\ RecFails(q, "rec_done") /\ UNCHANGED nft
    /\ UNCHANGED <<dbVars, tap, disks, dir, vmm, supVars>>

\* RecDone mutated: `rm` and `prune` remove the VM whatever was left.
RecDoneIgnoringErrors(q) ==
    /\ adm[q].pc = "rec_done"
    /\ TrySetPhase(adm[q].vm, IF adm[q].bad THEN "cleanup_failed" ELSE "cleaned")
    /\ AdminGoto(q, IF adm[q].cmd \in {"rm", "rmStopped", "prune"}
                    THEN "rm_get" ELSE "pick")
    /\ UNCHANGED <<table, status, pid, hostVars, supVars>>

\* The final phase; `rm` and `prune` remove the VM when nothing failed.
RecDone(q) ==
    /\ adm[q].pc = "rec_done"
    /\ TrySetPhase(adm[q].vm, IF adm[q].bad THEN "cleanup_failed" ELSE "cleaned")
    /\ AdminGoto(q, IF ~adm[q].bad /\ adm[q].cmd \in {"rm", "rmStopped", "prune"}
                    THEN "rm_get" ELSE "pick")
    /\ UNCHANGED <<table, status, pid, hostVars, supVars>>

-----------------------------------------------------------------------------
(* state.Manager.Remove, called by VMManager.Remove and Prune.             *)

AdmRmGet(q) ==
    LET v == adm[q].vm
    IN  /\ adm[q].pc = "rm_get"
        /\ AdminGoto(q, IF \/ status[v] = "none"
                           \/ status[v] = "running" /\ isProcessRunning(v, pid[v])
                        THEN "pick"
                        ELSE IF status[v] = "running" THEN "rm_mark" ELSE "rm_tx")
        /\ UNCHANGED <<dbVars, hostVars, supVars>>

AdmRmMark(q) ==
    /\ adm[q].pc = "rm_mark"
    /\ MarkCrashed(adm[q].vm) \/ (HostFaults /\ UNCHANGED status)
    /\ AdminGoto(q, "rm_tx")
    /\ UNCHANGED <<table, pid, phase, hostVars, supVars>>

AdmRmTx(q) ==
    /\ adm[q].pc = "rm_tx"
    /\ \/ RemoveRows(adm[q].vm) /\ AdminGoto(q, "rm_dir")
       \/ HostFaults /\ AdminGoto(q, "pick") /\ UNCHANGED <<table, status, pid>>
    /\ UNCHANGED <<phase, hostVars, supVars>>

AdmRmDir(q) ==
    /\ adm[q].pc = "rm_dir"
    /\ RemoveDir(adm[q].vm) \/ (HostFaults /\ UNCHANGED <<dir, disks>>)
    /\ AdminGoto(q, "pick")
    /\ UNCHANGED <<dbVars, tap, nft, vmm, supVars>>

-----------------------------------------------------------------------------
(* SubnetAllocator.Cleanup: read the allocations, look each VM up, then    *)
(* delete those that were not found.                                       *)

CleanupScan(q) ==
    /\ adm[q].pc = "cl_scan"
    /\ adm' = [adm EXCEPT ![q].pc = "cl_check",
                          ![q].todo = {v \in VMs : table[v] # NoOctet}]
    /\ UNCHANGED <<dbVars, hostVars, supVars>>

\* Any error of Manager.Get counts as "not found".
CleanupCheck(q, v) ==
    /\ adm[q].pc = "cl_check" /\ v \in adm[q].todo
    /\ \E stale \in BOOLEAN :
          /\ stale => status[v] = "none" \/ HostFaults
          /\ ~stale => status[v] # "none"
          /\ adm' = [adm EXCEPT ![q].todo = @ \ {v},
                                ![q].seen = IF stale THEN @ \cup {v} ELSE @]
    /\ UNCHANGED <<dbVars, hostVars, supVars>>

CleanupChecked(q) ==
    /\ adm[q].pc = "cl_check" /\ adm[q].todo = {}
    /\ AdminGoto(q, "cl_delete")
    /\ UNCHANGED <<dbVars, hostVars, supVars>>

CleanupDelete(q, v) ==
    /\ adm[q].pc = "cl_delete" /\ v \in adm[q].seen
    /\ Free(v)
    /\ adm' = [adm EXCEPT ![q].seen = @ \ {v}]
    /\ UNCHANGED <<status, pid, phase, hostVars, supVars>>

CleanupDone(q) ==
    /\ adm[q].pc = "cl_delete" /\ adm[q].seen = {}
    /\ AdminEnds(q)
    /\ UNCHANGED <<dbVars, hostVars, supVars>>

\* The command is interrupted between two of its steps.
AdminKilled(q) ==
    /\ adm[q].pc # "idle"
    /\ AdminEnds(q)
    /\ UNCHANGED <<dbVars, hostVars, supVars>>

-----------------------------------------------------------------------------
NewStep(v) ==
    \/ LifecycleInit(v) \/ CreateDisks(v) \/ AllocateSubnet(v)
    \/ SkipSubnet(v) \/ FailBeforeSubnet(v) \/ CreateMachine(v)
    \/ FailBeforeMachine(v) \/ SetupNetwork(v) \/ FailNetwork(v)
    \/ FailVFS(v) \/ SetCreated(v)
    \/ UnregisterEarly(v) \/ UndoNetwork(v) \/ UndoMachine(v)
    \/ UndoSubnet(v) \/ UndoRegister(v) \/ NewReturnsError(v)

StartStep(v) == SetStarting(v) \/ BootMachine(v) \/ BootFails(v) \/ SetRunning(v)

CloseStep(v) ==
    \/ CloseStopping(v) \/ CloseCleaning(v) \/ CloseNetwork(v)
    \/ CloseSubnet(v) \/ CloseUnregister(v) \/ CloseMachine(v)
    \/ CloseDisks(v) \/ CloseFinal(v) \/ RmGet(v) \/ RmTx(v) \/ RmDir(v)

AdminStep(q) ==
    \/ List(q) \/ ListReturns(q) \/ PickDone(q)
    \/ \E v \in VMs : ListMark(q, v) \/ Pick(q, v)
    \/ RecGet(q) \/ RecInit(q) \/ RecPhase(q) \/ RecSubnet(q)
    \/ RecRootfs(q) \/ RecTap(q) \/ RecNft(q) \/ RecDone(q)
    \/ AdmRmGet(q) \/ AdmRmMark(q) \/ AdmRmTx(q) \/ AdmRmDir(q)
    \/ CleanupScan(q) \/ CleanupChecked(q) \/ CleanupDone(q)
    \/ \E v \in VMs : CleanupCheck(q, v) \/ CleanupDelete(q, v)

SupervisorStep(v) ==
    \/ Register(v) \/ RegisterFails(v)
    \/ NewStep(v) \/ StartStep(v) \/ BeginClose(v) \/ CloseStep(v)
    \/ SupervisorKilled(v) \/ VMMExits(v)

CommandBegins(q) ==
    \E c \in Commands, f \in ForceRunning :
        BeginAll(q, c, f) \/ \E v \in VMs : BeginOne(q, c, v, f)

HostStep ==
    \/ \E v \in VMs : SupervisorStep(v)
    \/ \E q \in Admins : CommandBegins(q) \/ AdminStep(q)

HostNext == HostStep \/ \E q \in Admins : AdminKilled(q)

HostSpec == HostInit /\ [][HostNext]_vars

(***************************************************************************)
(* An operator who keeps running `prune`, each time to its end, and kills  *)
(* Firecracker processes that outlived their supervisor.                   *)
(***************************************************************************)
OperatedHostSpec ==
    /\ HostInit /\ [][HostStep]_vars
    /\ \A q \in Admins : /\ WF_vars(AdminStep(q))
                          /\ SF_vars(BeginAll(q, "prune", FALSE))
    /\ \A v \in VMs : WF_vars(pc[v] = "exited" /\ VMMExits(v))

-----------------------------------------------------------------------------
HostTypeOK ==
    /\ PoolTypeOK
    /\ status \in [VMs -> {"none", "running", "stopped", "crashed"}]
    /\ pid \in [VMs -> 0..MaxGen]
    /\ phase \in [VMs -> Phases \cup {NoPhase}]
    /\ tap \in [VMs -> Octets \cup {NoOctet}]
    /\ nft \in [VMs -> BOOLEAN]
    /\ disks \in [VMs -> BOOLEAN]
    /\ dir \in [VMs -> BOOLEAN]
    /\ vmm \in [VMs -> BOOLEAN]
    /\ pc \in [VMs -> SupervisorPCs]
    /\ gen \in [VMs -> 0..MaxGen]
    /\ info \in [VMs -> Octets \cup {NoOctet}]
    /\ errs \in [VMs -> BOOLEAN]
    /\ failing \in [VMs -> BOOLEAN]
    /\ adm \in [Admins -> AdminState]

\* Host resources of v that somebody has to give back.
Leaked(v) ==
    table[v] # NoOctet \/ tap[v] # NoOctet \/ nft[v] \/ disks[v]

(***************************************************************************)
(* "This prevents losing VM metadata while leaking host resources"         *)
(* (docs/lifecycle.md, rm and prune): at every moment, after every crash   *)
(* and every failed step, a VM that still has a subnet, a TAP, nftables    *)
(* tables or disks has its row in vms, where `gc`, `rm` and `prune` look.  *)
(***************************************************************************)
LeakIsRecoverable == \A v \in VMs : Leaked(v) => status[v] # "none"

(***************************************************************************)
(* "If a VM is still running, reconciliation is skipped unless             *)
(* --force-running is provided" (docs/lifecycle.md): no command is past    *)
(* the check for a VM whose supervisor is creating, starting or running it.*)
(***************************************************************************)
ReconcileSkipsLiveVMs ==
    \A q \in Admins :
        /\ adm[q].pc \in (ReconcilePCs \ {"rec_get"}) \cup RemovePCs
        /\ ~adm[q].force
        => pc[adm[q].vm] \notin NewPCs \cup LivePCs

(***************************************************************************)
(* What that protects: from the moment New returns until Close begins, no administrative     *)
(* command takes the VM's subnet, TAP or disks away or changes its row.    *)
(***************************************************************************)
LiveVMKeepsResources ==
    \A v \in VMs :
        pc[v] \in LivePCs =>
            /\ status[v] = "running" /\ pid[v] = gen[v]
            /\ disks[v]
            /\ v \in Networked => /\ info[v] # NoOctet
                                 /\ table[v] = info[v]
                                 /\ tap[v] = info[v]

(***************************************************************************)
(* Two running VMs never share a subnet.                                   *)
(***************************************************************************)
LiveSubnetsUnique ==
    \A v, w \in Networked :
        v # w /\ pc[v] \in LivePCs /\ pc[w] \in LivePCs => tap[v] # tap[w]

(***************************************************************************)
(* "Allocate unique subnet for this VM" (sandbox_linux.go): no two TAP     *)
(* interfaces of the host are configured with the same /24.  The code does *)
(* not meet this (README, Deviations).                                     *)
(***************************************************************************)
TapSubnetsUnique ==
    \A v, w \in VMs : v # w /\ tap[v] # NoOctet => tap[v] # tap[w]

(***************************************************************************)
(* A lifecycle record that says cleaned is true: nothing of the VM is left *)
(* on the host, whoever wrote the record and whatever failed before.       *)
(***************************************************************************)
CleanedMeansClean == \A v \in VMs : phase[v] = "cleaned" => ~Leaked(v)

(***************************************************************************)
(* A VM's rows are deleted only when nothing that creates resources for it *)
(* is alive any more.                                                      *)
(***************************************************************************)
RemovalSparesLiveVMs ==
    [][\A v \in VMs : status[v] # "none" /\ status'[v] = "none"
                       => pc[v] \notin NewPCs \cup LivePCs]_vars

(***************************************************************************)
(* Whatever step a supervisor dies at, its VM's resources are eventually   *)
(* given back: no combination of row, record and host state makes the      *)
(* reconcilers refuse the VM for ever.                                     *)
(***************************************************************************)
CrashedIsReclaimed ==
    \A v \in VMs : pc[v] = "exited" /\ Leaked(v) ~> ~Leaked(v)

-----------------------------------------------------------------------------
(* The inductive strengthenings of these properties, for hosts on which VM *)
(* ids are not reused (MaxGen = 1).                                        *)

RemovingCommands == {"rm", "rmStopped", "prune"}

\* A command that works on adm[q].vm after ReconcileVM's check of the row.
PastCheck(q) == adm[q].pc \in (ReconcilePCs \ {"rec_get"}) \cup RemovePCs

\* The supervisor that will create or is creating v's resources.
MayCreate(v) == pc[v] \in NewPCs \cup {"none"}

\* The supervisor that will use, is creating or uses v's resources.
Owned(v) == MayCreate(v) \/ pc[v] \in LivePCs

\* The owner is named by the row, so that the liveness check finds it.
OwnerIsRegistered(v) ==
    /\ pc[v] # "none" => gen[v] = 1
    /\ pc[v] = "none" => status[v] = "none"
    /\ pc[v] \in NewPCs \cup LivePCs => status[v] = "running" /\ pid[v] = gen[v]

\* --force-running never removes, and nothing is removed after an error.
RemovalIsGuarded(q) ==
    /\ adm[q].force => adm[q].cmd \notin RemovingCommands
    /\ adm[q].pc \in RemovePCs => adm[q].cmd \in RemovingCommands /\ ~adm[q].bad

\* No command works on a VM that has an owner, or believes it is dead.
OwnerIsSpared(q) ==
    /\ PastCheck(q) /\ ~adm[q].force => ~Owned(adm[q].vm)
    /\ adm[q].pc \notin {"cl_check", "cl_delete"} =>
           \A v \in adm[q].seen : ~Owned(v)

(***************************************************************************)
(* Inductive with MaxGen = 1 alone; implies ReconcileSkipsLiveVMs.         *)
(***************************************************************************)
OwnershipInv ==
    /\ HostTypeOK
    /\ \A v \in VMs : OwnerIsRegistered(v)
    /\ \A q \in Admins : RemovalIsGuarded(q) /\ OwnerIsSpared(q)

\* What an error-free reconcile has given back by the time it is at a step.
ReconcileProgress(q) ==
    LET v == adm[q].vm
        l == adm[q].pc
    IN  ~adm[q].force /\ ~adm[q].bad =>
          /\ l \in {"rec_rootfs", "rec_tap", "rec_nft", "rec_done"} \cup RemovePCs
               => table[v] = NoOctet
          /\ l \in {"rec_tap", "rec_nft", "rec_done"} \cup RemovePCs => ~disks[v]
          /\ l \in {"rec_nft", "rec_done"} \cup RemovePCs => tap[v] = NoOctet
          /\ l \in {"rec_done"} \cup RemovePCs => ~nft[v]

\* The same of a Close without errors, or on a host without faults.
CloseProgress(v) ==
    LET l == pc[v]
    IN  ~errs[v] \/ ~HostFaults =>
          /\ l \in {"c_subnet", "c_unregister", "c_machine", "c_disks", "c_final"}
                   \cup RemovePCs => ~nft[v]
          /\ l \in {"c_unregister", "c_machine", "c_disks", "c_final"}
                   \cup RemovePCs => table[v] = NoOctet
          /\ l \in {"c_disks", "c_final"} \cup RemovePCs => tap[v] = NoOctet
          /\ l \in {"c_final"} \cup RemovePCs => ~disks[v]

ProgressInv ==
    /\ OwnershipInv
    /\ \A v \in VMs : CloseProgress(v)
    /\ \A q \in Admins : ReconcileProgress(q)

(***************************************************************************)
(* For LeakIsRecoverable: who deletes a row has given everything back.     *)
(***************************************************************************)
RecoveryInv ==
    /\ ProgressInv
    /\ \A v \in VMs : RunRm \/ pc[v] \notin RemovePCs
    /\ LeakIsRecoverable

\* Nobody uses --force-running.
NothingForced == \A q \in Admins : ~adm[q].force

(***************************************************************************)
(* For CleanedMeansClean: who records cleaned has given everything back,   *)
(* and nobody creates anything afterwards.                                 *)
(***************************************************************************)
CleanedInv ==
    /\ ProgressInv
    /\ NothingForced
    /\ \A v \in VMs : phase[v] = "cleaned" => ~Leaked(v) /\ ~MayCreate(v)

\* What New has created by the time it is at a step, and Start keeps.
CreationProgress(v) ==
    LET l == pc[v]
    IN  /\ l = "none" => table[v] = NoOctet
        /\ l \in {"subnet", "machine", "network", "created"} \cup LivePCs
             => disks[v]
        /\ v \in Networked =>
             /\ l \in {"machine", "network", "created"} \cup LivePCs
                  => info[v] # NoOctet /\ table[v] = info[v]
             /\ l \in {"network", "created"} \cup LivePCs => tap[v] = info[v]

\* SubnetAllocator.Cleanup looks only at VMs that have been registered, and
\* deletes only allocations without an owner.
CleanupSparesOwners(q) ==
    adm[q].pc \in {"cl_check", "cl_delete"} =>
        /\ \A v \in adm[q].todo : pc[v] # "none"
        /\ \A v \in adm[q].seen : ~Owned(v)

(***************************************************************************)
(* For LiveVMKeepsResources: New has created what it needs, and no command *)
(* takes it away.                                                          *)
(***************************************************************************)
KeepInv ==
    /\ OwnershipInv
    /\ NothingForced
    /\ \A v \in VMs : CreationProgress(v)
    /\ \A q \in Admins : CleanupSparesOwners(q)
=============================================================================
