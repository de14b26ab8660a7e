----------------------------- MODULE ImageStore -----------------------------
(* The image cache of a host (pkg/image): layer blobs in one directory, the  *)
(* rows of images and image_layers with the reference counts computed from   *)
(* them in metadata.db, and matchlock processes that pull, import, tag,      *)
(* remove and collect images at the same time.  Nothing but SQLite's         *)
(* transactions orders two processes: a blob is on disk before a row refers  *)
(* to it, and every command that writes a row then removes the blobs no row  *)
(* refers to, those of a command that has not written its row included.      *)
(*                                                                           *)
(* Every command uses one cache directory, so a layer is at its target path  *)
(* and copyLayerBlob has nothing to copy.                                    *)
EXTENDS Naturals, Sequences, FiniteSets, Functions

CONSTANTS
    Procs,          \* processes that run matchlock commands
    Tags,           \* image references and local tags
    Images,         \* what a registry or a tarball holds: [layers, squash]
    MaxCommands     \* bound on the commands run

None == "none"
Scopes == {"local", "registry"}
Keys == Scopes \X Tags
Digests == UNION {Range(i.layers) \cup {i.squash} : i \in Images}

(* A layer an image repeats is ingested once and listed again; the images    *)
(* here have none.                                                           *)
ASSUME ImagesAssumption ==
    \A i \in Images : /\ i \in [layers : Seq(Digests), squash : Digests]
                      /\ i.layers # <<>> /\ IsInjective(i.layers)
                      /\ i.squash \notin Range(i.layers)

(* "blob" marks the complete blobs in a listing of the directory.            *)
ASSUME NamesAssumption == IsFiniteSet(Tags) /\ "blob" \notin Procs

VARIABLES
    rows,       \* images and image_layers: key -> [layers, rootfs]
    layerRefs,  \* layer_refs: digest -> ref_count
    blobs,      \* complete blobs in the blobs directory
    tmps,       \* files mkfs.erofs is writing: <<process, digest>>
    proc,       \* what each process is doing
    commands,   \* commands run so far
    held,       \* history: references that exist ever since p's prune began
    quiet       \* history: nobody else changed the cache since p began

storeVars == <<rows, layerRefs, blobs, tmps, proc, commands, held, quiet>>

(* An image without layers reads as no image at all (store.go:371).          *)
NoRow == [layers |-> <<>>, rootfs |-> None]
Idle == [pc |-> "idle", cmd |-> None, tag |-> None, save |-> None,
         scope |-> "local", layers |-> <<>>, rootfs |-> None, lower |-> <<>>,
         todo |-> <<>>, referenced |-> {}, entries |-> {}, ok |-> FALSE]

StoreInit ==
    /\ rows = [k \in Keys |-> NoRow]
    /\ layerRefs = [d \in Digests |-> 0]
    /\ blobs = {}
    /\ tmps = {}
    /\ proc = [p \in Procs |-> Idle]
    /\ commands = 0
    /\ held = [p \in Procs |-> {}]
    /\ quiet = [p \in Procs |-> FALSE]

-----------------------------------------------------------------------------
(* The blobs some row refers to, as a layer or as its runtime rootfs.        *)
LayersOf(r) == UNION {Range(r[k].layers) : k \in Keys}
RootsOf(r) == {r[k].rootfs : k \in Keys}
Referenced(r) == LayersOf(r) \cup RootsOf(r)
References(r) == ({"layer"} \X LayersOf(r)) \cup ({"rootfs"} \X RootsOf(r))

(* syncLayerRefCounts: the counts are rebuilt from image_layers.             *)
syncLayerRefCounts(r) ==
    [d \in Digests |->
        Cardinality({x \in UNION {{k} \X DOMAIN r[k].layers : k \in Keys} :
                        r[x[1]].layers[x[2]] = d})]

(* Mutant: only the first layer is looked for.                               *)
EnsureFirstExists(layers) == Head(layers) \in blobs

(* ensureLayerFilesExist                                                     *)
ensureLayerFilesExist(layers) == Range(layers) \subseteq blobs

(* The lower layers of a stored image: the squashed blob its rootfs_path     *)
(* names, or the layers themselves when that blob is gone or is one of them. *)
runtimeLayers(layers, rootfs) ==
    IF rootfs \in blobs \ Range(layers) THEN <<rootfs>> ELSE layers

(* Everything but the bookkeeping of p's own step.  `changed' says whether   *)
(* the step wrote a row or created or removed a blob.                        *)
Step(p, rec, changed) ==
    /\ proc' = [proc EXCEPT ![p] = rec]
    /\ held' = [q \in Procs |->
                  IF q = p /\ rec.pc = "refs" THEN References(rows')
                  ELSE held[q] \cap References(rows')]
    /\ quiet' = IF changed THEN [q \in Procs |-> q = p /\ quiet[p]] ELSE quiet
    /\ UNCHANGED commands

Files == <<blobs, tmps>>
Tables == <<rows, layerRefs>>

Fails(p) == [proc[p] EXCEPT !.pc = "done", !.ok = FALSE]
Ends(p, lower) == [proc[p] EXCEPT !.pc = "done", !.ok = TRUE, !.lower = lower]

-----------------------------------------------------------------------------
(* A command begins: pull (and run, which pulls), import, image rm, gc.      *)
FirstStep(c, force) ==
    CASE c = "pull" -> IF force THEN "fetch" ELSE "meta"
      [] c = "import" -> "fetch"
      [] c = "rm" -> "delete"
      [] c = "gc" -> "refs"

StartCommand(p) ==
    /\ proc[p].pc = "idle" /\ commands < MaxCommands
    /\ \E t \in Tags, s \in Tags \cup {None}, c \in {"pull", "import", "rm", "gc"},
          force \in BOOLEAN :
         /\ (c # "pull") => (s = None /\ ~force)
         /\ (c = "gc") => (t = CHOOSE x \in Tags : TRUE)
         /\ proc' = [proc EXCEPT ![p] = [Idle EXCEPT !.pc = FirstStep(c, force), !.cmd = c,
                                                    !.tag = t, !.save = s]]
         /\ held' = IF c = "gc" THEN [held EXCEPT ![p] = References(rows)] ELSE held
    /\ commands' = commands + 1
    /\ quiet' = [quiet EXCEPT ![p] = TRUE]
    /\ UNCHANGED <<Tables, Files>>

(* A Get that found no row, no layers or not all files: Build looks in the   *)
(* registry scope next and pulls last; Import has nothing else to try.       *)
GetFails(p) ==
    IF proc[p].cmd = "import" THEN Fails(p)
    ELSE [proc[p] EXCEPT !.pc = IF proc[p].scope = "local" THEN "meta" ELSE "fetch",
                         !.scope = "registry"]

(* Save of the result under a local tag; its rootfs_path is the first lower  *)
(* layer (builder.go:SaveTag).                                               *)
Save(p, layers, lower) ==
    [proc[p] EXCEPT !.pc = "save", !.scope = "local", !.tag = proc[p].save,
                    !.save = None, !.layers = layers, !.rootfs = lower[1],
                    !.lower = lower]

(* Build returned; `pull --tag' goes on to save.                             *)
Built(p, layers, lower) ==
    IF proc[p].save = None THEN [Ends(p, lower) EXCEPT !.layers = layers]
    ELSE Save(p, layers, lower)

(* getImageMeta, then getImageLayers: two queries with no transaction.       *)
GetMeta(p) ==
    /\ proc[p].pc = "meta"
    /\ UNCHANGED <<Tables, Files>>
    /\ LET row == rows[<<proc[p].scope, proc[p].tag>>]
       IN Step(p, IF row = NoRow THEN GetFails(p)
                  ELSE [proc[p] EXCEPT !.pc = "layers", !.rootfs = row.rootfs], FALSE)

GetLayers(p) ==
    /\ proc[p].pc = "layers"
    /\ UNCHANGED <<Tables, Files>>
    /\ LET layers == rows[<<proc[p].scope, proc[p].tag>>].layers
       IN Step(p, IF layers = <<>> \/ ~ensureLayerFilesExist(layers) THEN GetFails(p)
                  ELSE Built(p, layers, runtimeLayers(layers, proc[p].rootfs)), FALSE)

-----------------------------------------------------------------------------
(* The image arrives from the registry or in a tarball, or it does not.      *)
FetchImage(p) ==
    /\ proc[p].pc = "fetch"
    /\ UNCHANGED <<Tables, Files>>
    /\ \/ \E i \in Images :
            Step(p, [proc[p] EXCEPT !.pc = "ingest", !.layers = i.layers,
                        !.rootfs = i.squash, !.lower = <<i.squash>>,
                        !.scope = IF proc[p].cmd = "import" THEN "local" ELSE "registry",
                        !.todo = i.layers \o <<i.squash>>], FALSE)
       \/ Step(p, Fails(p), FALSE)

(* The next blob, or the row once all are there.                             *)
NextBlob(p) ==
    [proc[p] EXCEPT !.todo = Tail(@),
                    !.pc = IF Len(proc[p].todo) = 1 THEN "save" ELSE "ingest"]

(* ensureLayerBlob, ensureSquashedPrefixLayerBlob: a blob that is there is   *)
(* taken as it is, otherwise mkfs.erofs starts writing a temporary file.     *)
ensureLayerBlob(p) ==
    /\ proc[p].pc = "ingest"
    /\ UNCHANGED <<Tables, blobs>>
    /\ LET d == Head(proc[p].todo)
       IN IF d \in blobs
          THEN /\ Step(p, NextBlob(p), FALSE)
               /\ UNCHANGED tmps
          ELSE /\ tmps' = tmps \cup {<<p, d>>}
               /\ Step(p, [proc[p] EXCEPT !.pc = "mkfs"], FALSE)

(* mkfs.erofs ends; the rename fails when somebody removed the file.         *)
createEROFSFromTar(p) ==
    /\ proc[p].pc = "mkfs"
    /\ UNCHANGED Tables
    /\ LET d == Head(proc[p].todo)
       IN /\ tmps' = tmps \ {<<p, d>>}
          /\ \/ /\ <<p, d>> \in tmps
                /\ blobs' = blobs \cup {d}
                /\ Step(p, [proc[p] EXCEPT !.pc = "built"], TRUE)
             \/ /\ UNCHANGED blobs
                /\ Step(p, Fails(p), FALSE)

(* The new blob is looked at once more for its size.                         *)
StatBlob(p) ==
    /\ proc[p].pc = "built"
    /\ UNCHANGED <<Tables, Files>>
    /\ Step(p, IF Head(proc[p].todo) \in blobs THEN NextBlob(p) ELSE Fails(p), FALSE)

-----------------------------------------------------------------------------
(* Save, SaveRegistryCache: the layer files are looked for, the row is       *)
(* written in one transaction, and the unreferenced blobs are removed.       *)
CheckLayers(p) ==
    /\ proc[p].pc = "save"
    /\ UNCHANGED <<Tables, Files>>
    /\ Step(p, IF ensureLayerFilesExist(proc[p].layers)
               THEN [proc[p] EXCEPT !.pc = "commit"] ELSE Fails(p), FALSE)

upsertImageMetaWithLayers(p) ==
    /\ proc[p].pc = "commit"
    /\ \/ /\ rows' = [rows EXCEPT ![<<proc[p].scope, proc[p].tag>>] =
                        [layers |-> proc[p].layers, rootfs |-> proc[p].rootfs]]
          /\ layerRefs' = syncLayerRefCounts(rows')
          /\ Step(p, [proc[p] EXCEPT !.pc = "refs"], TRUE)
       \/ /\ UNCHANGED Tables
          /\ Step(p, Fails(p), FALSE)
    /\ UNCHANGED Files

(* deleteImageWithLayers: `image rm' tries the local store and, on any error *)
(* of it, the registry cache.                                                *)
RemoveFails(p) ==
    IF proc[p].scope = "local" THEN [proc[p] EXCEPT !.pc = "delete", !.scope = "registry"]
    ELSE Fails(p)

deleteImageWithLayers(p) ==
    /\ proc[p].pc = "delete"
    /\ LET key == <<proc[p].scope, proc[p].tag>>
       IN \/ /\ rows[key] # NoRow
             /\ rows' = [rows EXCEPT ![key] = NoRow]
             /\ layerRefs' = syncLayerRefCounts(rows')
             /\ Step(p, [proc[p] EXCEPT !.pc = "refs"], TRUE)
          \/ /\ UNCHANGED Tables
             /\ Step(p, RemoveFails(p), FALSE)
    /\ UNCHANGED Files

-----------------------------------------------------------------------------
(* pruneUnreferencedBlobs: the counts, the rootfs paths, the directory, then *)
(* one file after the other.                                                 *)
QueryRefs(p) ==
    /\ proc[p].pc = "refs"
    /\ UNCHANGED <<Tables, Files>>
    /\ Step(p, [proc[p] EXCEPT !.pc = "roots",
                  !.referenced = {d \in Digests : layerRefs[d] > 0}], FALSE)

(* Mutant: the runtime rootfs paths are forgotten.                           *)
QuerySkipsRootfs(p) ==
    /\ proc[p].pc = "roots"
    /\ UNCHANGED <<Tables, Files>>
    /\ Step(p, [proc[p] EXCEPT !.pc = "dir"], FALSE)

QueryRootfs(p) ==
    /\ proc[p].pc = "roots"
    /\ UNCHANGED <<Tables, Files>>
    /\ Step(p, [proc[p] EXCEPT !.pc = "dir",
                  !.referenced = @ \cup {rows[k].rootfs : k \in Keys}], FALSE)

(* The name of a temporary file has no layer digest; it begins like one of a *)
(* legacy blob and is removed as such.                                       *)
ReadBlobsDir(p) ==
    /\ proc[p].pc = "dir"
    /\ UNCHANGED <<Tables, Files>>
    /\ Step(p, [proc[p] EXCEPT !.pc = "unlink",
                  !.entries = ({"blob"} \X (blobs \ proc[p].referenced)) \cup tmps], FALSE)

(* What follows a command's prune.                                           *)
Pruned(p) ==
    CASE proc[p].cmd = "pull" -> Built(p, proc[p].layers, proc[p].lower)
      [] proc[p].cmd = "import" -> [proc[p] EXCEPT !.pc = "meta"]
      [] OTHER -> Ends(p, <<>>)

PruneFails(p) == IF proc[p].cmd = "rm" THEN RemoveFails(p) ELSE Fails(p)

RemoveBlob(p) ==
    /\ proc[p].pc = "unlink"
    /\ UNCHANGED Tables
    /\ \/ /\ proc[p].entries = {}
          /\ Step(p, Pruned(p), FALSE)
          /\ UNCHANGED Files
       \/ \E e \in proc[p].entries :
            \/ /\ blobs' = {d \in blobs : <<"blob", d>> # e}
               /\ tmps' = tmps \ {e}
               /\ Step(p, [proc[p] EXCEPT !.entries = @ \ {e}], blobs' # blobs)
            \/ /\ Step(p, PruneFails(p), FALSE)
               /\ UNCHANGED Files

-----------------------------------------------------------------------------
(* The caller has its answer.                                                *)
Return(p) ==
    /\ proc[p].pc = "done"
    /\ UNCHANGED <<Tables, Files>>
    /\ Step(p, Idle, FALSE)

(* The process is killed: SQLite rolls its transaction back, its temporary   *)
(* file stays.                                                               *)
Killed(p) ==
    /\ proc[p].pc \notin {"idle", "done"}
    /\ UNCHANGED <<Tables, blobs>>
    /\ tmps' = {IF t[1] = p THEN <<None, t[2]>> ELSE t : t \in tmps}
    /\ Step(p, Idle, FALSE)

StoreNext ==
    \E p \in Procs :
        \/ StartCommand(p) \/ GetMeta(p) \/ GetLayers(p)
        \/ FetchImage(p) \/ ensureLayerBlob(p) \/ createEROFSFromTar(p) \/ StatBlob(p)
        \/ CheckLayers(p) \/ upsertImageMetaWithLayers(p) \/ deleteImageWithLayers(p)
        \/ QueryRefs(p) \/ QueryRootfs(p) \/ ReadBlobsDir(p) \/ RemoveBlob(p)
        \/ Return(p) \/ Killed(p)

StoreSpec == StoreInit /\ [][StoreNext]_storeVars

-----------------------------------------------------------------------------
(* A prune never removes a blob that some image has had as a layer, or that  *)
(* some image has had as its rootfs, ever since the prune began, whatever    *)
(* other processes commit between its two queries, its reading of the        *)
(* directory and its removals (store.go:800-884).  The two queries see two   *)
(* states: a blob whose only reference turns from a rootfs into a layer in   *)
(* between is removed.                                                       *)
PruneKeepsReferenced ==
    [][\A p \in Procs, d \in Digests :
          (proc[p].pc = "unlink" /\ proc'[p] # proc[p] /\ d \in blobs \ blobs')
             => {<<"layer", d>>, <<"rootfs", d>>} \cap held[p] = {}]_storeVars

(* No stored row has the layers of one image and the rootfs of another.      *)
(* (getImageMeta and getImageLayers may read two versions of a row, and      *)
(* SaveTag stores what they read.)                                           *)
RowsAreWhole ==
    \A k \in Keys : rows[k] # NoRow =>
        \E i \in Images : /\ rows[k].layers = i.layers
                          /\ rows[k].rootfs \in {i.squash, i.layers[1]}

(* What a command returns comes from one image.                              *)
FromOneImage(x) ==
    \E i \in Images : x.layers = i.layers /\ x.lower \in {i.layers, <<i.squash>>}

Delivered(x) ==
    IF x.cmd \in {"pull", "import"}
    THEN Range(x.lower) \subseteq blobs /\ (RowsAreWhole => FromOneImage(x))
    ELSE blobs \subseteq Referenced(rows)

(* A command that succeeded while no other process changed the cache has     *)
(* done its work: the lower layers Build, Import or Get returned are on disk *)
(* and, unless the rows mix images, are those of one image (store.go:362-400,*)
(* builder.go:90-137), even when earlier races or kills left rows without    *)
(* files; a gc has left only blobs some image refers to.                     *)
AloneMeansComplete ==
    \A p \in Procs : proc[p].pc = "done" /\ proc[p].ok /\ quiet[p] => Delivered(proc[p])

-----------------------------------------------------------------------------
(* The inductive invariant behind both (proofs in ImageStoreProofs).         *)

(* Where a command has chosen the image it will write or return.             *)
Ingesting == {"ingest", "mkfs", "built"}
Saving == {"save", "commit"}
Pruning == {"refs", "roots", "dir", "unlink"}
Writer == {"pull", "import"}
PCs == Ingesting \cup Saving \cup Pruning
           \cup {"idle", "meta", "layers", "fetch", "delete", "done"}

Commands == [pc : PCs, cmd : Writer \cup {"rm", "gc", None}, tag : Tags \cup {None},
             save : Tags \cup {None}, scope : Scopes, layers : Seq(Digests),
             rootfs : Digests \cup {None}, lower : Seq(Digests), todo : Seq(Digests),
             referenced : SUBSET (Digests \cup {None}),
             entries : SUBSET ((Procs \cup {None, "blob"}) \X Digests), ok : BOOLEAN]

StoreTypeOK ==
    /\ rows \in [Keys -> [layers : Seq(Digests), rootfs : Digests \cup {None}]]
    /\ blobs \subseteq Digests
    /\ tmps \subseteq (Procs \cup {None}) \X Digests
    /\ proc \in [Procs -> Commands]
    /\ held \in [Procs -> SUBSET References(rows)]
    /\ quiet \in [Procs -> BOOLEAN]

(* A row has the layers of some image, and the counts are those of the rows. *)
TablesInv ==
    /\ layerRefs = syncLayerRefCounts(rows)
    /\ \A k \in Keys : rows[k] = NoRow \/ \E i \in Images : rows[k].layers = i.layers

(* Which command is where, and what it has in hand.  A rootfs that is not    *)
(* the first layer is none of the layers.                                    *)
Chosen(x) ==
    /\ \E i \in Images : x.layers = i.layers
    /\ \/ x.lower = x.layers
       \/ \E b \in Digests \ Range(x.layers) : x.lower = <<b>>

CommandInv(p) ==
    LET x == proc[p]
    IN  /\ x.pc # "idle" => x.cmd # None /\ x.tag \in Tags
        /\ x.pc \in Ingesting \cup Saving \cup {"meta", "layers", "fetch"}
              => x.cmd \in Writer
        /\ x.pc = "delete" => x.cmd = "rm"
        /\ x.pc \in Ingesting => x.todo # <<>>
        /\ x.pc \in Ingesting \cup Saving => x.rootfs = x.lower[1]
        /\ x.pc \in Ingesting \cup Saving \cup Pruning /\ x.cmd \in Writer => Chosen(x)

(* What a prune has read covers the references it must respect.              *)
PruneInv(p) ==
    LET x == proc[p]
    IN  \A d \in Digests :
          /\ x.pc \in {"roots", "dir"} /\ <<"layer", d>> \in held[p] => d \in x.referenced
          /\ x.pc = "dir" /\ <<"rootfs", d>> \in held[p] => d \in x.referenced
          /\ x.pc = "unlink" /\ <<"blob", d>> \in x.entries
                => {<<"layer", d>>, <<"rootfs", d>>} \cap held[p] = {}

(* What an undisturbed command knows of the cache.                           *)
AloneInv(p) ==
    LET x == proc[p]
    IN  /\ x.pc = "layers" => x.rootfs = rows[<<x.scope, x.tag>>].rootfs
        /\ x.pc \in Ingesting =>
              Range(x.layers) \cup Range(x.lower) \subseteq blobs \cup Range(x.todo)
        /\ x.pc \in Saving \cup Pruning /\ x.cmd \in Writer => Range(x.lower) \subseteq blobs
        /\ x.pc \in Pruning /\ x.cmd \in Writer =>
              /\ RowsAreWhole => FromOneImage(x)
              /\ \A d \in Range(x.lower) :
                    <<"layer", d>> \in held[p] \/ <<"rootfs", d>> \in held[p]
        /\ x.pc \in {"roots", "dir"} => x.referenced \subseteq Referenced(rows)
        /\ x.pc = "unlink" =>
              \A d \in blobs : d \in Referenced(rows) \/ <<"blob", d>> \in x.entries

StoreInv ==
    /\ StoreTypeOK /\ TablesInv /\ AloneMeansComplete
    /\ \A p \in Procs :
          CommandInv(p) /\ PruneInv(p) /\ (quiet[p] => AloneInv(p))
=============================================================================
