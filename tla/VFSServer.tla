----------------------------- MODULE VFSServer -----------------------------
(***************************************************************************)
(* The host's end of the workspace: VFSServer (pkg/vfs/server.go) answers  *)
(* the guest's requests one after the other over the single connection of  *)
(* the guest's FUSE daemon, through the intercepting provider and its hook *)
(* engine.  The rules of a configuration are blocking or rewriting hooks   *)
(* before an operation; the events after it change nothing here.           *)
(***************************************************************************)
EXTENDS VFSProviders

CONSTANTS
  Rules,     \* the configured hook rules: records [ops, paths, action, phase]
  InitTree,  \* what the mounts hold when the VM starts
  MaxId      \* bound on the files and directories ever made

\* How many entries there are when the VM starts.
InitIds == Cardinality({p \in Paths : Has(InitTree, p)})

\* A file system has one id per entry it can tell the stat of (there are no hard
\* links, and no links to files that are there), none both a file and a directory,
\* and every entry of a host directory lies in a directory.
ASSUME InitTreeAssumption ==
  /\ MaxId \in Nat /\ InitIds \in 0..MaxId
  /\ InitTree \in Tree(1..InitIds) /\ Dangling \subseteq 1..InitIds
  /\ \A p \in Paths : LeadsNowhere(InitTree, p) => ~InMemory(p)
  /\ \A p \in Paths : ~InMemory(p) /\ p # resolve(p) /\ Has(InitTree, p) => HasDir(InitTree, Front(p))
  /\ \A p \in Paths : ~InMemory(p) => ~(HasFile(InitTree, p) /\ HasDir(InitTree, p))
  /\ \A p, q \in Paths :
       /\ ~InMemory(p) /\ ~InMemory(q) /\ ProviderStat(InitTree, p) # Absent
       /\ ProviderStat(InitTree, p).id = ProviderStat(InitTree, q).id
       => p = q

VARIABLES
  tree,      \* the providers' content
  nextId,    \* the id of the next file or directory
  handles,   \* VFSServer.handles: number -> [file, path]
  nextFH,    \* VFSServer.nextFH
  hostOpen,  \* the numbers whose inner host handle is open
  inbox,     \* the request on the connection
  outbox,    \* the response on the connection
  conn       \* is the connection up?

serverVars == <<tree, nextId, handles, nextFH, hostOpen, inbox, outbox, conn>>

Nothing == [op |-> "none"]

\* VFSRequest, without modes, times, offsets and data.
Request(op, p) == [op |-> op, path |-> p, new |-> p, fh |-> 0, write |-> FALSE, excl |-> FALSE]

\* VFSResponse.
Response(err, stat, fh, names) == [err |-> err, stat |-> stat, fh |-> fh, names |-> names]
Failed(err) == Response(err, Absent, 0, {})
Done == Failed("ok")

\* The hook operations of a request, in the order the provider is called.
HookOps(r) ==
  CASE r.op \in {"lookup", "getattr"}      -> <<"stat">>
    [] r.op = "setattr"                    -> <<"chmod", "stat">>
    [] r.op = "truncate" /\ r.fh = 0       -> <<"open", "truncate", "close">>
    [] r.op \in {"unlink", "rmdir"}        -> <<"remove">>
    [] r.op = "mkdir"                      -> <<"mkdir", "stat">>
    [] r.op = "release"                    -> <<"close">>
    [] r.op \in {"fsync", "fsyncpath"}     -> <<"sync">>
    [] OTHER                               -> <<r.op>>

\* The operations a rule of the configuration can name.
parseVFSHookOp ==
  {"stat", "readdir", "open", "create", "mkdir", "chmod", "remove", "remove_all", "rename",
   "symlink", "readlink", "read", "write", "close", "sync", "truncate"}

\* Rules with another action are dropped, names of other operations too: a rule
\* left without operations is a rule for every one.
buildVFSHookEngine ==
  {[r EXCEPT !.ops = @ \cap parseVFSHookOp] : r \in {q \in Rules : q.action \in {"allow", "block"}}}

\* Only a block makes a hook, and the hook it makes runs before an operation.
compileHooksFromRules == {r \in buildVFSHookEngine : r.action = "block"}

matchesOpPath(h, hookOp, p) == (h.ops = {} \/ hookOp \in h.ops) /\ p \in h.paths

\* Before: the first hook of its phase that matches blocks.  A rename is matched
\* by its old path only.
Blocked(hookOp, p) ==
  \E h \in compileHooksFromRules : h.phase = "before" /\ matchesOpPath(h, hookOp, p)

\* The hooks of an open handle see the path it was opened by.
HandleBlocked(hookOp, fh) == Blocked(hookOp, handles[fh].path)

\* statFromInfo: the number of what a host directory stores is the host's own; any
\* other is made from the path and the kind.
Inode(p, stat) ==
  IF ~InMemory(p) /\ stat.id # None THEN <<"host", stat.id>> ELSE <<stat.kind, p>>

\* memHandle and realHandle keep the file, not the path; interceptHandle the path.
Handle(file, p) == [file |-> file, path |-> p]

-----------------------------------------------------------------------------
\* The number of a new handle.
NewFH == nextFH + 1

\* The response and the content a request for a path leads to.
Outcome(r) ==
  LET same(resp) == [tree |-> tree, resp |-> resp, made |-> None]
      changed(x, resp) == [tree |-> x.tree, resp |-> resp, made |-> x.id]
      blocked(op) == Blocked(op, r.path)
      stat(t) == Stat(t, r.path)
  IN IF blocked(HookOps(r)[1]) THEN same(Failed("EPERM"))
     ELSE CASE r.op \in {"lookup", "getattr"} ->
            same(IF stat(tree) = Absent THEN Failed("ENOENT")
                 ELSE Response("ok", stat(tree), 0, {}))
       [] r.op = "fsyncpath" ->
            same(IF ~InMemory(r.path) /\ ProviderStat(tree, r.path) = Absent
                 THEN Failed("ENOENT") ELSE Done)
       [] r.op \in {"setattr", "chtimes"} ->
            same(IF Frozen(r.path) THEN Failed("EROFS")
                 ELSE IF ProviderStat(tree, r.path) = Absent THEN Failed("ENOENT")
                 ELSE IF r.op = "setattr" /\ blocked("stat") THEN Failed("EPERM")
                 ELSE Response("ok", stat(tree), 0, {}))
       [] r.op = "readdir" ->
            LET l == ReadDir(tree, r.path) IN same(Response(l.err, Absent, 0, l.names))
       [] r.op = "mkdir" ->
            LET x == RouterMkdir(tree, r.path, nextId)
            IN  changed(x, IF x.err # "ok" THEN Failed(x.err)
                           ELSE IF blocked("stat") THEN Done
                           ELSE Response("ok", stat(x.tree), 0, {}))
       [] r.op \in {"unlink", "rmdir"} ->
            LET x == RouterRemove(tree, r.path) IN changed(x, Failed(x.err))
       [] r.op = "rename" ->
            LET x == RouterRename(tree, r.path, r.new) IN changed(x, Failed(x.err))
       [] r.op = "truncate" ->
            LET x == RouterOpen(tree, r.path, TRUE, FALSE, FALSE, nextId)
            IN  same(IF x.err # "ok" THEN Failed(x.err)
                     ELSE IF blocked("truncate") THEN Failed("EPERM") ELSE Done)
       [] r.op \in {"open", "create"} ->
            LET x == RouterOpen(tree, r.path, r.write, r.op = "create", r.excl, nextId)
            IN  changed(x, IF x.err # "ok" THEN Failed(x.err)
                           ELSE Response("ok", [kind |-> "file", id |-> x.id], NewFH, {}))

PathOps == {"lookup", "getattr", "setattr", "chtimes", "readdir", "mkdir", "unlink",
            "rmdir", "rename", "open", "create", "fsyncpath"}
HandleOps == {"read", "write", "fsync"}

Ready == conn /\ inbox # Nothing
Reply(resp) == inbox' = Nothing /\ outbox' = resp

\* dispatch, for the operations on paths.
DispatchPath ==
  /\ Ready
  /\ inbox.op \in PathOps \/ (inbox.op = "truncate" /\ inbox.fh = 0)
  /\ LET x == Outcome(inbox)
         opened == inbox.op \in {"open", "create"} /\ x.resp.err = "ok"
     IN /\ tree' = x.tree
        /\ nextId' = IF x.made = nextId THEN nextId + 1 ELSE nextId
        /\ IF opened
           THEN /\ nextFH' = nextFH + 1
                /\ handles' = [h \in DOMAIN handles \cup {NewFH} |->
                                IF h \in DOMAIN handles THEN handles[h]
                                ELSE Handle(x.resp.stat.id, inbox.path)]
                /\ hostOpen' = hostOpen \cup {NewFH}
           ELSE UNCHANGED <<nextFH, handles, hostOpen>>
        /\ Reply(x.resp)
  /\ UNCHANGED conn

\* dispatch, for a create whose file is opened but cannot be stated: the host
\* handle is closed again, and the file stays.  A handle that a rule keeps from being
\* closed here has no number, and hostOpen leaves it out.
DispatchUnstated ==
  /\ Ready /\ inbox.op = "create"
  /\ LET x == Outcome(inbox)
     IN /\ x.resp.err = "ok"
        /\ tree' = x.tree
        /\ nextId' = IF x.made = nextId THEN nextId + 1 ELSE nextId
  /\ Reply(Failed("EIO"))
  /\ UNCHANGED <<handles, nextFH, hostOpen, conn>>

\* dispatch, for the operations on an open handle, but for the errors of the host's
\* file system in reading and writing: a rule is matched with the
\* path the handle was opened by, and fsync ignores its result.
DispatchHandle ==
  /\ Ready
  /\ inbox.op \in HandleOps \/ (inbox.op = "truncate" /\ inbox.fh # 0)
  /\ Reply(IF inbox.op = "fsync" THEN Done
           ELSE IF inbox.fh \notin DOMAIN handles THEN Failed("EBADF")
           ELSE IF HandleBlocked(inbox.op, inbox.fh) THEN Failed("EPERM")
           ELSE IF inbox.op # "read" /\ Frozen(handles[inbox.fh].path) THEN Failed("EROFS")
           ELSE Response("ok", [kind |-> "file", id |-> handles[inbox.fh].file], 0, {}))
  /\ UNCHANGED <<tree, nextId, handles, nextFH, hostOpen, conn>>

\* Mutant: the handle stays in the table.
ReleasedKept(fh) ==
  /\ handles' = handles
  /\ hostOpen' = hostOpen \ {fh}

\* release: the handle leaves the table first; when a rule blocks its close the
\* host handle stays open.
Released(fh) ==
  /\ handles' = [h \in DOMAIN handles \ {fh} |-> handles[h]]
  /\ hostOpen' = IF fh \in DOMAIN handles /\ ~HandleBlocked("close", fh)
                 THEN hostOpen \ {fh} ELSE hostOpen

DispatchRelease ==
  /\ Ready /\ inbox.op = "release"
  /\ Released(inbox.fh)
  /\ Reply(Done)
  /\ UNCHANGED <<tree, nextId, nextFH, conn>>

ServerStep == DispatchPath \/ DispatchUnstated \/ DispatchHandle \/ DispatchRelease

\* HandleConnection returns and closes the connection; the table of handles
\* is not touched.
Disconnect ==
  /\ conn
  /\ conn' = FALSE
  /\ inbox' = Nothing /\ outbox' = Nothing
  /\ UNCHANGED <<tree, nextId, handles, nextFH, hostOpen>>

\* The mounts' directories, with what they hold when the VM starts.
ServerInit ==
  /\ tree = InitTree
  /\ nextId = InitIds + 1
  /\ handles = <<>> /\ nextFH = 0 /\ hostOpen = {}
  /\ inbox = Nothing /\ outbox = Nothing /\ conn = TRUE
=============================================================================
