----------------------------- MODULE VFSSession -----------------------------
(***************************************************************************)
(* The workspace of a running VM: the guest's FUSE daemon and the host's   *)
(* VFS server at the two ends of one connection, while it is up.           *)
(***************************************************************************)
EXTENDS GuestFuse

vars == <<serverVars, guestVars, tangled>>

Init == ServerInit /\ GuestInit

GuestBegins == (\E t \in Threads : Begin(t)) /\ UNCHANGED serverVars /\ Noted
GuestSends == \E t \in Threads : Send(t) /\ Noted
GuestReceives == \E t \in Threads : Receive(t) /\ Noted
GuestFinishes == \E t \in Threads : Finish(t) /\ UNCHANGED serverVars /\ Noted
HostServes == ServerStep /\ UNCHANGED guestVars /\ Noted

\* The connection breaks.  Bound: only once the guest has begun all its calls; an
\* earlier loss only leaves the rest of them out.
ConnectionBreaks == ops = MaxOps /\ Disconnect /\ UNCHANGED guestVars /\ Noted

Next ==
  \/ GuestBegins \/ GuestSends \/ GuestReceives \/ GuestFinishes
  \/ HostServes \/ ConnectionBreaks

\* The host's goroutine runs, every thread of the guest runs, and the mutex is
\* given to each of them in the end: a Go mutex is starvation-free.
Fairness ==
  /\ WF_vars(HostServes)
  /\ \A t \in Threads : /\ SF_vars(Send(t) /\ Noted)
                        /\ WF_vars(Receive(t) /\ Noted)
                        /\ WF_vars(Finish(t) /\ UNCHANGED serverVars /\ Noted)

Spec == Init /\ [][Next]_vars /\ Fairness

-----------------------------------------------------------------------------
\* An open file of the guest is the host's file.  While the connection is up,
\* every open VFSFileHandle has a handle on the host, no two share one, a file
\* whose path led to its node when it was opened has the file of its node whatever
\* was renamed since, and the host keeps no handle the guest does not know of; nor
\* does it keep a file open, unless a rule blocks closing it (server.go:171-252,
\* fused/main.go:506-515, 666-669).
HandlesFollowFile ==
  conn =>
    /\ \A f \in files : /\ f.fh \in DOMAIN handles
                        /\ \A g \in files : g.fh = f.fh => g = f
                        /\ ~f.raced /\ f.node[1] = "host" => f.node[2] = handles[f.fh].file
    /\ (\A t \in Threads : thread[t] # Nothing => thread[t].op \notin {"open", "create", "release"})
         => /\ DOMAIN handles = {f.fh : f \in files}
            /\ (\A p \in Paths : ~Blocked("close", p)) => hostOpen = DOMAIN handles

\* The tree of nodes agrees with the host.  A node's cached path leads to the very
\* file the node stands for, but for the nodes at or below a path that a call in
\* hand has just moved, replaced or removed on the host.  This ends with a call
\* that tangles the tree (fused/main.go:344-392).
NodePathsFollow ==
  conn /\ ~tangled
    => \A i \in DOMAIN nodes :
         /\ i[1] = "host"
         /\ \A t \in Threads :
              thread[t] # Nothing /\ thread[t].op \in Shifters /\ Effective(t)
                => \A p \in {thread[t].path, thread[t].new} : ~IsPrefix(p, nodes[i].path)
         => nodes[i].path \in Paths /\ Stat(tree, nodes[i].path).id = i[2]

\* fused/main.go:364: "Update cached child/subtree paths so subsequent Open/Read use
\* the new path."  Every node's cached path leads to the node's file, those entered
\* while a rename was under way included.  The code does not meet this (README,
\* Deviations).
RenamedPathsCurrent ==
  conn /\ (\A t \in Threads : thread[t] = Nothing)
    => \A i \in DOMAIN nodes :
         i[1] = "host" => nodes[i].path \in Paths /\ Stat(tree, nodes[i].path).id = i[2]

\* A path is listed by its parent exactly when it can be looked up or is a link that
\* leads nowhere, mounts and the directories only they imply included, as long as no
\* mount's own directory has been removed.  The parent is a directory of the host:
\* the provider in memory moves and removes a directory without what is below it
\* (router.go:49-198, realfs.go:52-80).
ListingMatchesStat ==
  (\A m \in Mounts : HasDir(tree, m))
    => \A p \in Paths \ {<<>>} :
         ~InMemory(Front(p))
           => ((Stat(tree, p) # Absent \/ LeadsNowhere(tree, p))
                 <=> (Last(p) \in ReadDir(tree, Front(p)).names))

\* Every call of the guest returns, with an answer or with an error (fused/main.go:119-152).
CallsReturn ==
  \A t \in Threads : (thread[t] # Nothing) ~> (thread[t] = Nothing)
=============================================================================
