----------------------------- MODULE GuestFuse -----------------------------
(***************************************************************************)
(* The guest's end of the workspace: the FUSE daemon                       *)
(* (internal/guestruntime/fused/main.go), whose handlers the guest's       *)
(* kernel calls from several threads at once, and which keeps one          *)
(* connection to the host behind one mutex.                                *)
(*                                                                         *)
(* A handler computes the path from the path its node has cached, waits    *)
(* for the mutex, sends, reads the answer, unlocks, and only then enters   *)
(* its result into the tree of nodes.  The kernel's locks on directories   *)
(* and the tree of nodes itself (package fs of go-fuse) are external: an   *)
(* operation that changes a directory excludes every other one in it, and  *)
(* a node is known by its inode number, so that an entry with a number     *)
(* already known gets the node that has it.                                *)
(***************************************************************************)
EXTENDS VFSServer

CONSTANTS
  Threads,     \* the kernel's concurrent calls, numbered; a call takes the least free number
  OpenModes,   \* which opens are made: TRUE for writing, FALSE for reading
  Known,       \* the paths the guest has looked up when the model starts
  GuestOps,    \* the operations the guest makes
  MaxOps       \* bound on the operations a guest makes

ASSUME GuestFuseAssumption ==
  /\ Threads \subseteq Nat \ {0} /\ MaxOps \in Nat
  /\ Known \subseteq Paths /\ <<>> \in Known
  /\ \A p \in Known \ {<<>>} :
       /\ Front(p) \in Known /\ Stat(InitTree, p) # Absent
       /\ Front(p) = <<>> \/ Stat(InitTree, Front(p)).kind = "dir"

VARIABLES
  nodes,     \* inode number -> VFSNode: [path, isDir, kids]
  files,     \* the VFSFileHandles: records [fh, node, path, raced]
  thread,    \* thread -> the call in hand, or Nothing
  lock,      \* the thread in VFSClient.Request, or Nobody
  ops,       \* how many operations have begun
  tangled    \* history, nothing in the code reads it: see Tangles

guestVars == <<nodes, files, thread, lock, ops>>

Nobody == 0

Root == <<"root", 0>>

Kids(i) == DOMAIN nodes[i].kids

Closed(ns, T) == \A j \in T : \A n \in DOMAIN ns[j].kids : ns[j].kids[n] \in T

\* The nodes that no set can leave out that holds i and, with a node, its children.
Hanging(ns, i) ==
  {j \in DOMAIN ns : \A T \in SUBSET (DOMAIN ns \ {j}) : i \in T => ~Closed(ns, T)}

\* i and what hangs below it.
Subtree(i) == Hanging(nodes, i)

Makers == {"mkdir", "create"}
Removers == {"unlink", "rmdir"}
Shifters == {"rename"} \cup Removers
DirOps == {"lookup", "rename"} \cup Makers \cup Removers
NodeOps == {"getattr", "setattr", "chtimes", "truncate", "fsyncpath"}

-----------------------------------------------------------------------------
(* The guest kernel, external: which calls it makes, and when.             *)

\* The directories a call locks, exclusively unless it is a lookup.
Locked(c) ==
  CASE c.op = "rename" -> {c.dir, c.todir}
                          \cup {nodes[c.todir].kids[n] : n \in Kids(c.todir) \cap {c.toname}}
    [] c.op = "rmdir"  -> {c.dir, c.node}
    [] c.op \in DirOps \ {"rename", "rmdir"} -> {c.dir}
    [] OTHER           -> {}

Excluded(c) ==
  \E t \in Threads :
    /\ thread[t] # Nothing
    /\ thread[t].op # "lookup" \/ c.op # "lookup" \/ thread[t].path = c.path
    /\ thread[t].locked \cap Locked(c) # {}

\* A call as its handler starts: the path comes from the path the node has cached.
Call(op, dir, name, node, p) ==
  [op |-> op, dir |-> dir, name |-> name, todir |-> dir, toname |-> name, node |-> node,
   path |-> p, new |-> p, fh |-> 0, write |-> FALSE, excl |-> FALSE,
   stage |-> "ready", raced |-> FALSE, resp |-> Nothing, locked |-> {}]

\* Bound: the paths of the call, and what a rename carries along, are in Paths.
Fits(c) ==
  /\ c.path \in Paths /\ c.new \in Paths
  /\ c.path # c.new => \A q \in Inside(tree, c.path) : Rebase(q, c.path, c.new) \in Paths

\* Does d, in hand at the same time, make c one whose path may lead elsewhere by
\* the time it is used?  Only a call that moves or removes does, on a related path.
Races(c, d) ==
  /\ \/ c.op \in Shifters /\ d.op \in DirOps
     \/ c.op = "open" /\ d.op \in Shifters
  /\ \E x \in {c.path, c.new}, y \in {d.path, d.new} : IsPrefix(x, y) \/ IsPrefix(y, x)

\* Start of a call.  raced is history, nothing in the code reads it.
Start(t, c) ==
  /\ ops < MaxOps /\ ops' = ops + 1
  /\ c.op \in GuestOps /\ Fits(c)
  /\ thread[t] = Nothing /\ (\A u \in Threads : u < t => thread[u] # Nothing)
  /\ ~Excluded(c)
  /\ thread' = [u \in Threads |->
       IF u = t
       THEN [c EXCEPT !.locked = Locked(c),
                      !.raced = \E v \in Threads : thread[v] # Nothing /\ Races(c, thread[v])]
       ELSE IF thread[u] # Nothing /\ Races(thread[u], c)
       THEN [thread[u] EXCEPT !.raced = TRUE] ELSE thread[u]]
  /\ UNCHANGED <<nodes, lock>>

IsDir(i) == nodes[i].isDir
Child(d, n) == Join(nodes[d].path, n)
Directories == {d \in DOMAIN nodes : IsDir(d)}

\* Lookup of a name in a directory.
Lookup(t, d, n) ==
  /\ Start(t, Call("lookup", d, n, Root, Child(d, n)))
  /\ UNCHANGED files

\* Mkdir and Create of a name the kernel has no entry for.
Make(t, d, n, op) ==
  /\ n \notin Kids(d)
  /\ nextId + Cardinality({u \in Threads : thread[u] # Nothing /\ thread[u].op \in Makers}) <= MaxId
  /\ Start(t, [Call(op, d, n, Root, Child(d, n)) EXCEPT !.write = (op = "create")])
  /\ UNCHANGED files

\* Unlink and Rmdir of an entry.
Delete(t, d, n) ==
  /\ Start(t, Call(IF IsDir(nodes[d].kids[n]) THEN "rmdir" ELSE "unlink",
                   d, n, nodes[d].kids[n], Child(d, n)))
  /\ UNCHANGED files

\* Rename of an entry to a name of a directory that is not below it, without flags:
\* the handler ignores them.
Move(t, d, n, e, m) ==
  /\ Child(e, m) # Child(d, n)
  /\ Start(t, [Call("rename", d, n, nodes[d].kids[n], Child(d, n))
                 EXCEPT !.todir = e, !.toname = m, !.new = Child(e, m)])
  /\ e \notin Subtree(nodes[d].kids[n])
  /\ UNCHANGED files

\* Getattr, Setattr, truncation and Fsync of a node.
OnNode(t, i, op) ==
  /\ Start(t, Call(op, i, "", i, nodes[i].path))
  /\ UNCHANGED files

\* Open of a file's node, and Readdir of a directory's.
OpenNode(t, i, w) ==
  /\ ~IsDir(i)
  /\ Start(t, [Call("open", i, "", i, nodes[i].path) EXCEPT !.write = w])
  /\ UNCHANGED files

ReadNode(t, i) ==
  /\ IsDir(i)
  /\ Start(t, Call("readdir", i, "", i, nodes[i].path))
  /\ UNCHANGED files

\* Read, Write, Fsync and truncation of an open file.
OnHandle(t, f, op) ==
  /\ Start(t, [Call(op, f.node, "", f.node, f.path) EXCEPT !.fh = f.fh])
  /\ UNCHANGED files

\* Release: the kernel closes an open file, no other call holding it.
Release(t, f) ==
  /\ \A u \in Threads : thread[u] # Nothing => thread[u].fh # f.fh
  /\ Start(t, [Call("release", f.node, "", f.node, f.path) EXCEPT !.fh = f.fh])
  /\ files' = files \ {f}

Begin(t) ==
  \/ \E d \in Directories : \E p \in Paths :
       /\ p # <<>> /\ Front(p) = nodes[d].path
       /\ \/ Lookup(t, d, Last(p))
          \/ \E op \in Makers : Make(t, d, Last(p), op)
  \/ \E d \in Directories : \E n \in Kids(d) :
       \/ Delete(t, d, n)
       \/ \E e \in Directories : \E p \in Paths :
            p # <<>> /\ Front(p) = nodes[e].path /\ Move(t, d, n, e, Last(p))
  \/ \E i \in DOMAIN nodes :
       \/ \E op \in NodeOps : OnNode(t, i, op)
       \/ \E w \in OpenModes : OpenNode(t, i, w)
       \/ ReadNode(t, i)
  \/ \E f \in files : Release(t, f) \/ \E op \in HandleOps \cup {"truncate"} : OnHandle(t, f, op)

-----------------------------------------------------------------------------
(* VFSClient.Request: one request at a time, the mutex held from the       *)
(* writing of the request to the reading of the response.                  *)

EndCall(t) == thread' = [thread EXCEPT ![t] = Nothing]

\* The request is written; on a dead connection the call ends with EIO.
Send(t) ==
  /\ thread[t] # Nothing /\ thread[t].stage = "ready" /\ lock = Nobody
  /\ IF conn
     THEN /\ lock' = t
          /\ thread' = [thread EXCEPT ![t].stage = "sent"]
          /\ inbox' = LET c == thread[t]
                      IN  [op |-> c.op, path |-> c.path, new |-> c.new, fh |-> c.fh,
                           write |-> c.write, excl |-> c.excl]
     ELSE EndCall(t) /\ UNCHANGED <<lock, inbox>>
  /\ UNCHANGED <<nodes, files, ops, tree, nextId, handles, nextFH, hostOpen, outbox, conn>>

\* Mutant: the mutex stays locked when reading fails.
ReceiveKeepsLock(t) ==
  /\ lock = t /\ (outbox # Nothing \/ ~conn)
  /\ lock' = IF conn THEN Nobody ELSE lock
  /\ IF conn /\ outbox.err = "ok"
     THEN thread' = [thread EXCEPT ![t].stage = "answered", ![t].resp = outbox]
     ELSE EndCall(t)
  /\ outbox' = Nothing
  /\ UNCHANGED <<nodes, files, ops, tree, nextId, handles, nextFH, hostOpen, inbox, conn>>

\* The response is read and the mutex unlocked; a lost connection gives EIO.
Receive(t) ==
  /\ lock = t /\ (outbox # Nothing \/ ~conn)
  /\ lock' = Nobody
  /\ IF conn /\ outbox.err = "ok"
     THEN thread' = [thread EXCEPT ![t].stage = "answered", ![t].resp = outbox]
     ELSE EndCall(t)
  /\ outbox' = Nothing
  /\ UNCHANGED <<nodes, files, ops, tree, nextId, handles, nextFH, hostOpen, inbox, conn>>

-----------------------------------------------------------------------------
(* What a handler does with its answer.                                    *)

Answered(t) == thread[t] # Nothing /\ thread[t].stage = "answered"

\* The inode number of a new entry: the one in the answer, or one made from the
\* path and the kind when the answer has no attributes.
InodeInAnswer(op, p, stat) ==
  Inode(p, [kind |-> IF op = "create" THEN "file" ELSE IF op = "mkdir" THEN "dir" ELSE stat.kind,
            id |-> stat.id])

EntryInode(c) == InodeInAnswer(c.op, c.path, c.resp.stat)

\* NewInode: the node of a known inode number is taken as it is, path included.
Entered(c) ==
  LET i == EntryInode(c)
      isDir == c.op = "mkdir" \/ c.resp.stat.kind = "dir"
      new == [path |-> c.path, isDir |-> isDir, kids |-> <<>>]
      all == [j \in DOMAIN nodes \cup {i} |-> IF j \in DOMAIN nodes THEN nodes[j] ELSE new]
  IN  [all EXCEPT ![c.dir].kids = [n \in (DOMAIN @) \cup {c.name} |->
                                     IF n = c.name THEN i ELSE @[n]]]

\* A tree of nodes without those that no longer hang below the root.
Pruned(ns) == [i \in Hanging(ns, Root) |-> ns[i]]

Without(d, n) ==
  [nodes EXCEPT ![d].kids = [m \in (DOMAIN @) \ {n} |-> @[m]]]

rebasePathForRename(p, old, new) ==
  IF IsPrefix(old, p) THEN Rebase(p, old, new) ELSE p

\* Mutant: the renamed node alone, not what is below it.
UpdateRenamedOnly(i, old, new) ==
  [nodes EXCEPT ![i].path = rebasePathForRename(@, old, new)]

\* updateCachedPathsAfterRename: every node of the subtree that is known by now.
updateCachedPathsAfterRename(i, old, new) ==
  [j \in DOMAIN nodes |->
     IF j \in Subtree(i)
     THEN [nodes[j] EXCEPT !.path = rebasePathForRename(@, old, new)]
     ELSE nodes[j]]

\* Rename: the cached paths, then the entry (MvChild).
Renamed(c) ==
  LET i == nodes[c.dir].kids[c.name]
      ns == updateCachedPathsAfterRename(i, c.path, c.new)
      cut == [ns EXCEPT ![c.dir].kids = [m \in (DOMAIN @) \ {c.name} |-> @[m]]]
  IN  IF c.dir \in DOMAIN nodes /\ c.name \in Kids(c.dir)
      THEN [cut EXCEPT ![c.todir].kids = [m \in (DOMAIN @) \cup {c.toname} |->
                                            IF m = c.toname THEN i ELSE @[m]]]
      ELSE nodes

\* The open file a call ends with.  raced: the path it was opened by may have led
\* elsewhere than to its node.
Opened(c) ==
  [fh |-> c.resp.fh, node |-> IF c.op = "create" THEN EntryInode(c) ELSE c.node,
   path |-> c.path, raced |-> c.op = "open" /\ (c.raced \/ tangled)]

\* The tree of nodes a call leaves.
NodesAfter(c) ==
  CASE c.op \in {"lookup"} \cup Makers /\ c.dir \in DOMAIN nodes -> Entered(c)
    [] c.op \in Removers /\ c.dir \in DOMAIN nodes -> Without(c.dir, c.name)
    [] c.op = "rename" /\ c.todir \in DOMAIN nodes -> Renamed(c)
    [] OTHER -> nodes

Finish(t) ==
  /\ Answered(t)
  /\ EndCall(t)
  /\ LET c == thread[t]
     IN /\ \E ns \in {NodesAfter(c)} : nodes' = Pruned(ns)
        /\ files' = IF c.op \in {"open", "create"} THEN files \cup {Opened(c)} ELSE files
  /\ UNCHANGED <<lock, ops>>

-----------------------------------------------------------------------------
(* When the tree of nodes stops following the host.                        *)

\* The answer to a call, on the connection or read.
Answer(t) == IF thread[t].stage = "answered" THEN thread[t].resp ELSE outbox

\* Has the host done what the call asks?
Effective(t) ==
  \/ thread[t].stage = "answered"
  \/ lock = t /\ outbox # Nothing /\ outbox.err = "ok"

\* A mount at or below a renamed directory, or below its new name, stays where it is
\* on the host.
MovesMount(c) == \E m \in Mounts : IsPrefix(c.path, m) \/ IsPrefix(c.new, m)

\* The calls that leave the tree of nodes behind the host for good: a move or removal
\* that another call on a related path overlaps, a move of a mount, and a directory
\* that is made without its inode number in the answer.
Tangles(t) ==
  /\ thread[t] # Nothing /\ Effective(t)
  /\ \/ thread[t].op \in Shifters /\ thread[t].raced
     \/ thread[t].op = "rename" /\ MovesMount(thread[t])
     \/ thread[t].op = "mkdir" /\ Answer(t).stat = Absent

Noted == tangled' = (tangled \/ \E t \in Threads : Tangles(t)')

\* The inode number of a path when the VM starts.
KnownInode(p) == IF p = <<>> THEN Root ELSE Inode(p, Stat(InitTree, p))

\* The guest has looked up the entries of Known.
GuestInit ==
  /\ nodes = [i \in {KnownInode(p) : p \in Known} |->
                LET p == CHOOSE q \in Known : KnownInode(q) = i
                IN  [path |-> p, isDir |-> p = <<>> \/ Stat(InitTree, p).kind = "dir",
                     kids |-> [n \in {Last(q) : q \in {r \in Known \ {<<>>} : Front(r) = p}} |->
                                 KnownInode(Join(p, n))]]]
  /\ files = {} /\ thread = [t \in Threads |-> Nothing] /\ lock = Nobody /\ ops = 0
  /\ tangled = FALSE
=============================================================================
