--------------------------- MODULE VFSProviders ---------------------------
(***************************************************************************)
(* What the host keeps for a workspace: the providers of pkg/vfs behind    *)
(* their mount router.                                                     *)
(*                                                                         *)
(* A path is the sequence of its names below the workspace; <<>> is the    *)
(* workspace itself.  A tree gives, for each path, the id of the file and  *)
(* the id of the directory stored there, None when there is none.  The     *)
(* providers of all the mounts share one tree, because the router sends a  *)
(* path to exactly one of them; a directory of the router's own invention  *)
(* is not in the tree.  Modes, times, owners and contents are left out:    *)
(* a file is its id.                                                       *)
(*                                                                         *)
(* The guest makes no links, but a host directory may hold some when the   *)
(* VM starts.  A symbolic link whose target is not there is a file with an *)
(* id in Dangling: package os shows the link itself in a listing and looks *)
(* for the target in every other call but remove and rename.               *)
(***************************************************************************)
EXTENDS Naturals, Sequences, SequencesExt, FiniteSets

CONSTANTS
  Paths,      \* the paths of the instance, closed under Front
  Mounts,     \* the mount points: paths with a provider of their own
  ReadOnly,   \* the mounts whose provider is wrapped read-only
  Memory,     \* the mounts kept in memory; the others are directories of the host
  Dangling    \* the ids of the links of host directories that lead nowhere

None == 0

\* The names of entries.
Name == STRING

ASSUME VFSProvidersAssumption ==
  /\ \A p \in Paths : p \in Seq(Name) /\ (p = <<>> \/ Front(p) \in Paths)
  /\ Mounts \subseteq Paths /\ <<>> \in Mounts
  /\ ReadOnly \subseteq Mounts
  /\ Memory \subseteq Mounts
  /\ Dangling \subseteq Nat \ {None}

\* filepath.Join: the path of an entry of p.
Join(p, n) == Append(p, n)

Below(p, q) == p # q /\ IsPrefix(q, p)

Tree(Ids) == [files : [Paths -> Ids \cup {None}], dirs : [Paths -> Ids \cup {None}]]

Ok(t, id) == [err |-> "ok", tree |-> t, id |-> id]
Fail(t, e) == [err |-> e, tree |-> t, id |-> None]

\* The longest mount path that is a prefix of p: the mounts are sorted by
\* length, and the first one that fits is taken.
MountOf ==
  [p \in Paths |-> CHOOSE m \in Mounts : /\ IsPrefix(m, p)
                                        /\ \A n \in Mounts : IsPrefix(n, p) => Len(n) <= Len(m)]
resolve(p) == MountOf[p]

InMemory(p) == resolve(p) \in Memory

\* Behind the read-only wrapper, every change fails.
Frozen(p) == resolve(p) \in ReadOnly

HasFile(t, p) == t.files[p] # None
HasDir(t, p) == t.dirs[p] # None
Has(t, p) == HasFile(t, p) \/ HasDir(t, p)

\* Is a link stored at p, and nothing where it leads?
LeadsNowhere(t, p) == t.files[p] \in Dangling

\* The paths of p's provider that lie below p, and those with something there.
Under == [p \in Paths |-> {q \in Paths : Below(q, p) /\ resolve(q) = resolve(p)}]
Inside(t, p) == {q \in Under[p] : Has(t, q)}

\* Can p be made?  A host directory's parent is the host's own; the root of the
\* provider in memory is its own parent.
ParentIsDir(t, p) ==
  IF p = resolve(p) THEN ~InMemory(p) \/ HasDir(t, p) ELSE HasDir(t, Front(p))

-----------------------------------------------------------------------------
(* The provider kept in memory: a map of files and a map of directories.   *)

\* Open; create asks for O_CREATE, excl for O_EXCL with it.
MemoryOpen(t, p, create, excl, fresh) ==
  IF HasFile(t, p) THEN IF create /\ excl THEN Fail(t, "EEXIST") ELSE Ok(t, t.files[p])
  ELSE IF create /\ ParentIsDir(t, p) THEN Ok([t EXCEPT !.files[p] = fresh], fresh)
  ELSE Fail(t, "ENOENT")

MemoryMkdir(t, p, fresh) ==
  IF ~ParentIsDir(t, p) THEN Fail(t, "ENOENT")
  ELSE IF HasDir(t, p) THEN Fail(t, "EEXIST")
  ELSE Ok([t EXCEPT !.dirs[p] = fresh], fresh)

\* Only files keep a directory from being removed.
MemoryRemove(t, p) ==
  IF HasDir(t, p)
  THEN IF \E q \in Inside(t, p) : HasFile(t, q) THEN Fail(t, "ENOTEMPTY")
       ELSE Ok([t EXCEPT !.dirs[p] = None], None)
  ELSE IF HasFile(t, p) THEN Ok([t EXCEPT !.files[p] = None], None)
  ELSE Fail(t, "ENOENT")

\* Moves one entry: what lies below a directory stays where it is.
MemoryRename(t, p, q) ==
  LET shift(map) == [map EXCEPT ![p] = None, ![q] = map[p]]
  IN  IF HasFile(t, p) THEN Ok([t EXCEPT !.files = shift(t.files)], None)
      ELSE IF HasDir(t, p) THEN Ok([t EXCEPT !.dirs = shift(t.dirs)], None)
      ELSE Fail(t, "ENOENT")

-----------------------------------------------------------------------------
(* The provider of a host directory: the host's file system, as the calls  *)
(* of package os see it.                                                   *)

\* A directory can be opened for reading.  Not even the directory of a dangling
\* link's target is there, so that O_CREATE does not make the target.
HostOpen(t, p, write, create, excl, fresh) ==
  IF Has(t, p) /\ create /\ excl THEN Fail(t, "EEXIST")
  ELSE IF HasDir(t, p) THEN IF write \/ create THEN Fail(t, "EISDIR") ELSE Ok(t, t.dirs[p])
  ELSE IF LeadsNowhere(t, p) THEN Fail(t, "ENOENT")
  ELSE IF HasFile(t, p) THEN Ok(t, t.files[p])
  ELSE IF create /\ ParentIsDir(t, p) THEN Ok([t EXCEPT !.files[p] = fresh], fresh)
  ELSE Fail(t, "ENOENT")

HostMkdir(t, p, fresh) ==
  IF Has(t, p) THEN Fail(t, "EEXIST")
  ELSE IF ~ParentIsDir(t, p) THEN Fail(t, "ENOENT")
  ELSE Ok([t EXCEPT !.dirs[p] = fresh], fresh)

HostRemove(t, p) ==
  IF ~Has(t, p) THEN Fail(t, "ENOENT")
  ELSE IF HasDir(t, p) /\ Inside(t, p) # {} THEN Fail(t, "ENOTEMPTY")
  ELSE Ok([files |-> [t.files EXCEPT ![p] = None], dirs |-> [t.dirs EXCEPT ![p] = None]], None)

\* rename(2): the subtree moves as one, an empty directory or a file of the
\* same kind is replaced.
Rebase(p, old, new) == new \o SubSeq(p, Len(old) + 1, Len(p))

Moved(map, old, new) ==
  [p \in Paths |->
     IF IsPrefix(new, p) /\ Rebase(p, new, old) \in Paths THEN map[Rebase(p, new, old)]
     ELSE IF IsPrefix(new, p) \/ IsPrefix(old, p) THEN None ELSE map[p]]

HostRename(t, p, q) ==
  LET own(map) == [x \in Paths |-> IF resolve(x) = resolve(p) THEN map[x] ELSE None]
      merge(map) == [x \in Paths |-> IF resolve(x) = resolve(p)
                                     THEN Moved(own(map), p, q)[x] ELSE map[x]]
  IN  IF ~Has(t, p) \/ ~ParentIsDir(t, q) THEN Fail(t, "ENOENT")
      ELSE IF p = q THEN Ok(t, None)
      ELSE IF Below(q, p) THEN Fail(t, "EINVAL")
      ELSE IF HasFile(t, p) /\ HasDir(t, q) THEN Fail(t, "EISDIR")
      ELSE IF HasDir(t, p) /\ HasFile(t, q) THEN Fail(t, "ENOTDIR")
      ELSE IF HasDir(t, q) /\ Inside(t, q) # {} THEN Fail(t, "ENOTEMPTY")
      ELSE Ok([files |-> merge(t.files), dirs |-> merge(t.dirs)], None)

-----------------------------------------------------------------------------
(* The mount router, with the read-only wrapper of a mount applied.        *)

\* Open for reading when write is FALSE; create asks for O_CREATE as well.
RouterOpen(t, p, write, create, excl, fresh) ==
  IF Frozen(p) /\ (write \/ create) THEN Fail(t, "EROFS")
  ELSE IF InMemory(p) THEN MemoryOpen(t, p, create, excl, fresh)
  ELSE HostOpen(t, p, write, create, excl, fresh)

RouterMkdir(t, p, fresh) ==
  IF Frozen(p) THEN Fail(t, "EROFS")
  ELSE IF InMemory(p) THEN MemoryMkdir(t, p, fresh) ELSE HostMkdir(t, p, fresh)

RouterRemove(t, p) ==
  IF Frozen(p) THEN Fail(t, "EROFS")
  ELSE IF InMemory(p) THEN MemoryRemove(t, p) ELSE HostRemove(t, p)

\* Rename inside one mount; across mounts it fails.
RouterRename(t, p, q) ==
  IF resolve(p) # resolve(q) THEN Fail(t, "EXDEV")
  ELSE IF Frozen(p) THEN Fail(t, "EROFS")
  ELSE IF InMemory(p) THEN MemoryRename(t, p, q) ELSE HostRename(t, p, q)

hasDescendantMount(p) == \E m \in Mounts : Below(m, p)

\* A stat's answer: the kind and the id; a directory that only mounts below
\* imply has no id of its own.  A link that leads nowhere has no stat.
Absent == [kind |-> "none", id |-> None]

ProviderStat(t, p) ==
  IF HasDir(t, p) THEN [kind |-> "dir", id |-> t.dirs[p]]
  ELSE IF HasFile(t, p) /\ ~LeadsNowhere(t, p) THEN [kind |-> "file", id |-> t.files[p]]
  ELSE Absent

Stat(t, p) ==
  IF ProviderStat(t, p) = Absent /\ hasDescendantMount(p)
  THEN [kind |-> "dir", id |-> None] ELSE ProviderStat(t, p)

\* The names a provider lists below p, dangling links among them: a name whose
\* entry lies deeper is listed as a directory by the provider in memory.
ProviderReadDir(t, p) ==
  {q[Len(p) + 1] : q \in IF InMemory(p) THEN Inside(t, p)
                         ELSE {x \in Inside(t, p) : Front(x) = p}}

\* Mutant: only the mounts directly in p.
DirectMountEntries(p) == {m[Len(p) + 1] : m \in {n \in Mounts : Below(n, p) /\ Front(n) = p}}

descendantMountEntries(p) == {m[Len(p) + 1] : m \in {n \in Mounts : Below(n, p)}}

\* The listing of p, or an error; a missing directory with mounts below lists
\* the mounts.
ReadDir(t, p) ==
  IF ~HasDir(t, p) /\ descendantMountEntries(p) = {}
  THEN [err |-> "ENOENT", names |-> {}]
  ELSE [err |-> "ok",
        names |-> (IF HasDir(t, p) THEN ProviderReadDir(t, p) ELSE {})
                  \cup descendantMountEntries(p)]
=============================================================================
