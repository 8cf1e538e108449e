----------------------------- MODULE BuildCache -----------------------------
(***************************************************************************)
(* The cache of build results in a shared directory (FileBasedBuildCache   *)
(* of python/aitemplate/backend/build_cache_base.py) and its client, which *)
(* runs make (_run_make_cmds of python/aitemplate/backend/builder.py).     *)
(*                                                                         *)
(* Processes on one file system look an entry up, copy its files, build    *)
(* and store, and evict what has not been used for long, without a lock.   *)
(* A step is one operation on the file system.                             *)
(***************************************************************************)
EXTENDS Naturals

CONSTANTS
  Procs,
  Keys,          \* hashes of sources and commands, and what is built from them
  Temps,         \* names of temporary directories below the cache directory
  Files,         \* the artifacts of a build
  None,          \* no file, no directory
  CrashesIn,     \* where a process may crash
  MaxBuilds,     \* bound: calls of _run_make_cmds
  MaxCrashes     \* bound: crashes

Steps == {"idle", "check", "touch", "open", "scan", "stat", "remove", "delete",
          "look", "list", "copy", "make", "store", "fill", "done", "failed", "raised"}

Dirs == Keys \cup Temps

ASSUME CacheAssumption ==
  /\ Keys \cap Temps = {} /\ None \notin Dirs
  /\ CrashesIn \subseteq Steps
  /\ MaxBuilds \in Nat /\ MaxCrashes \in Nat

\* What a directory holds: for each file the sources it was built from.
Content == [Files -> Keys \cup {None}]
Empty    == [f \in Files |-> None]
Built(k) == [f \in Files |-> k]
Held(c)  == {f \in Files : c[f] # None}

VARIABLES
  dirs,      \* the directories below the cache directory
  content,   \* what is in them
  old,       \* those whose modification time is past the retention
  due,       \* .last_cleaned is missing or older than cleanup_max_age_seconds
  used,      \* history: stored or retrieved since the retention last ran out
  torn,      \* history: entries of which a cleanup has deleted files
  dir,       \* the build directory of each process
  tmp,       \* the temporary directory that it fills
  pc, key,   \* where a process is, and the sources it builds
  keyed,     \* a cache key was returned (store_cache_key is not None)
  files,     \* the files it has still to copy, or to delete
  scan,      \* the directories its cleanup has still to look at
  victim,    \* the one it looks at or deletes
  lost,      \* the processes whose rmtree has a directory open that has gone
  raced,     \* history: another process has changed what this one looks at
  builds, crashes

disk  == <<dirs, content, old, due, used, torn>>
local == <<dir, tmp, key, keyed, files, scan, victim, lost>>
vars  == <<disk, local, pc, raced, builds, crashes>>

Init ==
  /\ dirs = {} /\ content = [d \in Dirs |-> Empty] /\ old = {}
  /\ due = TRUE /\ used = {} /\ torn = {}
  /\ dir = [p \in Procs |-> Empty] /\ tmp = [p \in Procs |-> None]
  /\ pc = [p \in Procs |-> "idle"] /\ key = [p \in Procs |-> None]
  /\ keyed = [p \in Procs |-> FALSE]
  /\ files = [p \in Procs |-> {}] /\ scan = [p \in Procs |-> {}]
  /\ victim = [p \in Procs |-> None] /\ lost = {}
  /\ raced = [p \in Procs |-> FALSE]
  /\ builds = 0 /\ crashes = 0

Go(p, from, to) == pc[p] = from /\ pc' = [pc EXCEPT ![p] = to]

\* Process p changes what is in these directories, or their names: the others that
\* have looked at one, to delete it or to copy from it, are in a race with p.
Touches(p, ds) ==
  raced' = [q \in Procs |-> \/ raced[q]
                            \/ q # p /\ victim[q] \in ds
                            \/ q # p /\ pc[q] \in {"list", "copy"} /\ key[q] \in ds]

\* The directories of these names are gone for whoever has them open.
Orphans(p, ds) ==
  lost' = lost \cup {q \in Procs \ {p} : pc[q] = "delete" /\ victim[q] \in ds}

----------------------------------------------------------------------------
(* _run_make_cmds, and the first steps of retrieve_build_cache             *)

\* New sources are in the build directory, beside the artifacts of the last
\* build.  should_skip_build_cache may answer yes: no key, no cache.
Start(p, k) ==
  /\ builds < MaxBuilds
  /\ key' = [key EXCEPT ![p] = k]
  /\ \/ Go(p, "idle", "check") /\ keyed' = [keyed EXCEPT ![p] = TRUE]
     \/ Go(p, "idle", "make") /\ keyed' = [keyed EXCEPT ![p] = FALSE]
  /\ builds' = builds + 1
  /\ raced' = [raced EXCEPT ![p] = FALSE]
  /\ UNCHANGED <<disk, dir, tmp, files, scan, victim, lost, crashes>>

----------------------------------------------------------------------------
(* maybe_cleanup and cleanup                                               *)

\* file_age; nothing keeps another process from reading the same age before the
\* file is touched.
CheckAge(p) ==
  /\ Go(p, "check", IF due THEN "touch" ELSE "look")
  /\ UNCHANGED <<disk, local, raced, builds, crashes>>

Touch(p) ==
  /\ Go(p, "touch", "open") /\ due' = FALSE
  /\ UNCHANGED <<dirs, content, old, used, torn, local, raced, builds, crashes>>

\* os.scandir lists the temporary directories too.
ScanDir(p) ==
  /\ Go(p, "open", "scan") /\ scan' = [scan EXCEPT ![p] = dirs]
  /\ UNCHANGED <<disk, dir, tmp, key, keyed, files, victim, lost, raced, builds, crashes>>

\* os.path.isdir
NextDir(p, d) ==
  /\ pc[p] = "scan" /\ d \in scan[p]
  /\ scan' = [scan EXCEPT ![p] = @ \ {d}]
  /\ IF d \in dirs
       THEN Go(p, "scan", "stat") /\ victim' = [victim EXCEPT ![p] = d]
       ELSE UNCHANGED <<pc, victim>>
  /\ UNCHANGED <<disk, dir, tmp, key, keyed, files, lost, raced, builds, crashes>>

\* os.path.getmtime: the directory is kept, or its age decides that it goes.
KeepDir(p) ==
  /\ Go(p, "stat", "scan") /\ victim[p] \in dirs \ old
  /\ victim' = [victim EXCEPT ![p] = None]
  /\ UNCHANGED <<disk, dir, tmp, key, keyed, files, scan, lost, raced, builds, crashes>>

EvictDir(p) ==
  /\ Go(p, "stat", "remove") /\ victim[p] \in dirs \cap old
  /\ UNCHANGED <<disk, local, raced, builds, crashes>>

\* shutil.rmtree opens the directory and lists what is in it, ...
OpenVictim(p) ==
  /\ Go(p, "remove", "delete") /\ victim[p] \in dirs
  /\ files' = [files EXCEPT ![p] = Held(content[victim[p]])]
  /\ UNCHANGED <<disk, dir, tmp, key, keyed, scan, victim, lost, raced, builds, crashes>>

\* ... unlinks one file after the other, which changes the modification time, ...
DeleteFile(p, f) ==
  /\ pc[p] = "delete" /\ f \in files[p]
  /\ p \notin lost /\ content[victim[p]][f] # None
  /\ content' = [content EXCEPT ![victim[p]][f] = None]
  /\ old' = old \ {victim[p]} /\ torn' = torn \cup ({victim[p]} \cap Keys)
  /\ files' = [files EXCEPT ![p] = @ \ {f}]
  /\ Touches(p, {victim[p]})
  /\ UNCHANGED <<dirs, due, used, dir, tmp, key, keyed, scan, victim, lost, pc, builds,
                 crashes>>

\* Mutant: the directory stays marked after its deletion.
RemoveDirKeepingVictim(p) ==
  /\ Go(p, "delete", "scan")
  /\ files[p] = {} /\ p \notin lost
  /\ victim[p] \in dirs /\ Held(content[victim[p]]) = {}
  /\ dirs' = dirs \ {victim[p]} /\ old' = old \ {victim[p]} /\ torn' = torn \ {victim[p]}
  /\ Touches(p, {victim[p]}) /\ Orphans(p, {victim[p]})
  /\ UNCHANGED <<content, due, used, dir, tmp, key, keyed, files, scan, victim, builds,
                 crashes>>

\* ... and removes the directory.
RemoveDir(p) ==
  /\ Go(p, "delete", "scan")
  /\ files[p] = {} /\ p \notin lost
  /\ victim[p] \in dirs /\ Held(content[victim[p]]) = {}
  /\ dirs' = dirs \ {victim[p]} /\ old' = old \ {victim[p]} /\ torn' = torn \ {victim[p]}
  /\ victim' = [victim EXCEPT ![p] = None]
  /\ Touches(p, {victim[p]}) /\ Orphans(p, {victim[p]})
  /\ UNCHANGED <<content, due, used, dir, tmp, key, keyed, files, scan, builds, crashes>>

\* Nothing catches the OSError of getmtime or of rmtree: the directory has gone, a
\* file of it has, or there is something in it again.
CleanupRaises(p) ==
  /\ \/ pc[p] \in {"stat", "remove"} /\ victim[p] \notin dirs
     \/ pc[p] = "delete" /\ p \in lost
     \/ pc[p] = "delete" /\ \E f \in files[p] : content[victim[p]][f] = None
     \/ /\ pc[p] = "delete" /\ files[p] = {}
        /\ victim[p] \notin dirs \/ Held(content[victim[p]]) # {}
  /\ pc' = [pc EXCEPT ![p] = "raised"]
  /\ victim' = [victim EXCEPT ![p] = None] /\ scan' = [scan EXCEPT ![p] = {}]
  /\ files' = [files EXCEPT ![p] = {}] /\ lost' = lost \ {p}
  /\ UNCHANGED <<disk, dir, tmp, key, keyed, raced, builds, crashes>>

CleanupDone(p) ==
  /\ scan[p] = {} /\ Go(p, "scan", "look")
  /\ UNCHANGED <<disk, local, raced, builds, crashes>>

----------------------------------------------------------------------------
(* retrieve_build_cache                                                    *)

Found(p) == key[p] \in dirs

\* os.path.exists, also of an entry that a cleanup has begun to delete.
Look(p) ==
  /\ Go(p, "look", IF Found(p) THEN "list" ELSE "make")
  /\ raced' = [raced EXCEPT ![p] = key[p] \in torn]
  /\ UNCHANGED <<disk, local, builds, crashes>>

\* rglob; of a directory that has gone it lists nothing.
List(p) ==
  /\ Go(p, "list", "copy")
  /\ files' = [files EXCEPT ![p] = IF Found(p) THEN Held(content[key[p]]) ELSE {}]
  /\ UNCHANGED <<disk, dir, tmp, key, keyed, scan, victim, lost, raced, builds, crashes>>

CopyFile(p, f) ==
  /\ pc[p] = "copy" /\ f \in files[p]
  /\ Found(p) /\ content[key[p]][f] # None
  /\ dir' = [dir EXCEPT ![p][f] = content[key[p]][f]]
  /\ files' = [files EXCEPT ![p] = @ \ {f}]
  /\ UNCHANGED <<disk, tmp, key, keyed, scan, victim, lost, pc, raced, builds, crashes>>

\* FileNotFoundError, of a copy or of os.utime.
RetrieveRaises(p) ==
  /\ Go(p, "copy", "raised")
  /\ \/ ~Found(p)
     \/ \E f \in files[p] : content[key[p]][f] = None
  /\ UNCHANGED <<disk, local, raced, builds, crashes>>

\* Mutant: the entry is not marked as used.
HitUnmarked(p) ==
  /\ Go(p, "copy", "done")
  /\ files[p] = {} /\ Found(p)
  /\ used' = used \cup {key[p]}
  /\ UNCHANGED <<dirs, content, old, due, torn, local, raced, builds, crashes>>

\* os.utime, and the build is over.
Hit(p) ==
  /\ Go(p, "copy", "done")
  /\ files[p] = {} /\ Found(p)
  /\ old' = old \ {key[p]} /\ used' = used \cup {key[p]}
  /\ UNCHANGED <<dirs, content, due, torn, local, raced, builds, crashes>>

----------------------------------------------------------------------------
(* make                                                                    *)

Make(p) ==
  /\ Go(p, "make", IF keyed[p] THEN "store" ELSE "done")
  /\ dir' = [dir EXCEPT ![p] = Built(key[p])]
  /\ UNCHANGED <<disk, tmp, key, keyed, files, scan, victim, lost, raced, builds,
                 crashes>>

\* make clean removes the targets, and some of them are made again.
MakeFails(p, done) ==
  /\ Go(p, "make", "failed")
  /\ dir' = [dir EXCEPT ![p] = [f \in Files |-> IF f \in done THEN key[p] ELSE None]]
  /\ UNCHANGED <<disk, tmp, key, keyed, files, scan, victim, lost, raced, builds,
                 crashes>>

----------------------------------------------------------------------------
(* store_build_cache                                                       *)

\* The name has random digits: nobody has seen it before.
MakeTmp(p, t) ==
  /\ t \notin dirs /\ \A q \in Procs : t \notin scan[q] \cup {victim[q]}
  /\ Go(p, "store", "fill")
  /\ tmp' = [tmp EXCEPT ![p] = t]
  /\ dirs' = dirs \cup {t} /\ content' = [content EXCEPT ![t] = Empty]
  /\ files' = [files EXCEPT ![p] = Held(dir[p])]
  /\ UNCHANGED <<old, due, used, torn, dir, key, keyed, scan, victim, lost, raced,
                 builds, crashes>>

\* An OSError of os.makedirs: the build is not stored.
MakeTmpFails(p) ==
  /\ Go(p, "store", "done")
  /\ UNCHANGED <<disk, local, raced, builds, crashes>>

\* Mutant: the last file is left out.
FillTmpButOne(p, f) ==
  /\ pc[p] = "fill" /\ f \in files[p]
  /\ content' = [content EXCEPT ![tmp[p]][f] = IF files[p] = {f} THEN None ELSE dir[p][f]]
  /\ files' = [files EXCEPT ![p] = @ \ {f}]
  /\ UNCHANGED <<dirs, old, due, used, torn, dir, tmp, key, keyed, scan, victim, lost,
                 pc, raced, builds, crashes>>

FillTmp(p, f) ==
  /\ pc[p] = "fill" /\ f \in files[p]
  /\ content' = [content EXCEPT ![tmp[p]][f] = dir[p][f]]
  /\ files' = [files EXCEPT ![p] = @ \ {f}]
  /\ UNCHANGED <<dirs, old, due, used, torn, dir, tmp, key, keyed, scan, victim, lost,
                 pc, raced, builds, crashes>>

\* os.rename replaces a directory that does not exist or is empty.
CanRename(k) == k \notin dirs \/ Held(content[k]) = {}

\* The temporary directory of p is gone from its name.
Leave(p) == /\ tmp' = [tmp EXCEPT ![p] = None]
            /\ UNCHANGED <<due, dir, key, keyed, files, scan, victim, builds, crashes>>

\* Mutant: the entry gets its name before it is filled.
RenameFirst(p) ==
  /\ Go(p, "fill", "done")
  /\ CanRename(key[p])
  /\ dirs' = (dirs \ {tmp[p]}) \cup {key[p]}
  /\ content' = [content EXCEPT ![key[p]] = content[tmp[p]], ![tmp[p]] = Empty]
  /\ old' = old \ {key[p]} /\ used' = used \cup {key[p]} /\ torn' = torn \ {key[p]}
  /\ Touches(p, {key[p], tmp[p]}) /\ Orphans(p, {key[p], tmp[p]}) /\ Leave(p)

Rename(p) ==
  /\ Go(p, "fill", "done")
  /\ files[p] = {} /\ CanRename(key[p])
  /\ dirs' = (dirs \ {tmp[p]}) \cup {key[p]}
  /\ content' = [content EXCEPT ![key[p]] = content[tmp[p]], ![tmp[p]] = Empty]
  /\ old' = old \ {key[p]} /\ used' = used \cup {key[p]} /\ torn' = torn \ {key[p]}
  /\ Touches(p, {key[p], tmp[p]}) /\ Orphans(p, {key[p], tmp[p]}) /\ Leave(p)

\* Mutant: the conflict is not caught.
RenameRaises(p) ==
  /\ Go(p, "fill", "raised")
  /\ files[p] = {} /\ ~CanRename(key[p])
  /\ dirs' = dirs \ {tmp[p]} /\ content' = [content EXCEPT ![tmp[p]] = Empty]
  /\ Touches(p, {tmp[p]}) /\ Orphans(p, {tmp[p]}) /\ Leave(p)
  /\ UNCHANGED <<old, used, torn>>

\* "update race conflict": the temporary directory is removed.
RenameConflict(p) ==
  /\ Go(p, "fill", "done")
  /\ files[p] = {} /\ ~CanRename(key[p])
  /\ dirs' = dirs \ {tmp[p]} /\ content' = [content EXCEPT ![tmp[p]] = Empty]
  /\ Touches(p, {tmp[p]}) /\ Orphans(p, {tmp[p]}) /\ Leave(p)
  /\ UNCHANGED <<old, used, torn>>

----------------------------------------------------------------------------
(* Returns, crashes and time                                               *)

Return(p) ==
  /\ pc[p] \in {"done", "failed", "raised"}
  /\ pc' = [pc EXCEPT ![p] = "idle"]
  /\ UNCHANGED <<disk, local, raced, builds, crashes>>

\* Whatever a crashed process has in the cache directory stays there, until some
\* cleanup finds it past the retention.
Crash(p) ==
  /\ pc[p] # "idle" /\ pc[p] \in CrashesIn /\ crashes < MaxCrashes
  /\ pc' = [pc EXCEPT ![p] = "idle"]
  /\ victim' = [victim EXCEPT ![p] = None] /\ tmp' = [tmp EXCEPT ![p] = None]
  /\ scan' = [scan EXCEPT ![p] = {}] /\ files' = [files EXCEPT ![p] = {}]
  /\ lost' = lost \ {p}
  /\ crashes' = crashes + 1
  /\ UNCHANGED <<disk, dir, key, keyed, raced, builds>>

\* lru_retention_hours pass without a change of the directory; filling one takes
\* less.
RetentionEnds(d) ==
  /\ d \in dirs \ old /\ \A p \in Procs : tmp[p] # d
  /\ old' = old \cup {d} /\ used' = used \ {d}
  /\ UNCHANGED <<dirs, content, due, torn, local, pc, raced, builds, crashes>>

\* cleanup_max_age_seconds pass.
CleanupDue ==
  /\ ~due /\ due' = TRUE
  /\ UNCHANGED <<dirs, content, old, used, torn, local, pc, raced, builds, crashes>>

Step(p) ==
  \/ CheckAge(p) \/ Touch(p) \/ ScanDir(p) \/ \E d \in Dirs : NextDir(p, d)
  \/ KeepDir(p) \/ EvictDir(p) \/ OpenVictim(p) \/ RemoveDir(p)
  \/ CleanupRaises(p) \/ CleanupDone(p)
  \/ \E f \in Files : DeleteFile(p, f) \/ CopyFile(p, f) \/ FillTmp(p, f)
  \/ Look(p) \/ List(p) \/ RetrieveRaises(p) \/ Hit(p)
  \/ Make(p) \/ \E done \in SUBSET Files : MakeFails(p, done)
  \/ \E t \in Temps : MakeTmp(p, t)
  \/ MakeTmpFails(p) \/ Rename(p) \/ RenameConflict(p)
  \/ Return(p)

Next == \/ \E p \in Procs : Step(p) \/ Crash(p) \/ \E k \in Keys : Start(p, k)
        \/ \E d \in Dirs : RetentionEnds(d)
        \/ CleanupDue

Spec == Init /\ [][Next]_vars

----------------------------------------------------------------------------
TypeOK ==
  /\ dirs \subseteq Dirs /\ content \in [Dirs -> Content]
  /\ old \subseteq dirs /\ used \subseteq Keys /\ torn \subseteq dirs \cap Keys
  /\ due \in BOOLEAN
  /\ dir \in [Procs -> Content] /\ tmp \in [Procs -> Temps \cup {None}]
  /\ pc \in [Procs -> Steps]
  /\ key \in [Procs -> Keys \cup {None}]
  /\ keyed \in [Procs -> BOOLEAN]
  /\ files \in [Procs -> SUBSET Files] /\ scan \in [Procs -> SUBSET Dirs]
  /\ victim \in [Procs -> Dirs \cup {None}] /\ lost \subseteq Procs
  /\ raced \in [Procs -> BOOLEAN]
  /\ builds \in Nat /\ crashes \in Nat
  /\ \A p \in Procs : (victim[p] # None) = (pc[p] \in {"stat", "remove", "delete"})
  /\ \A p \in Procs : (tmp[p] # None) = (pc[p] = "fill")
  /\ \A p \in Procs : pc[p] # "idle" => key[p] # None

\* When a build returns without an error, everything in its directory was made
\* from the sources that are there now, although an earlier build has left its
\* artifacts there, and whether they were built or came from another process;
\* unless a cleanup has deleted files of the entry it copied from, before or while
\* it did.
ArtifactsFit ==
  \A p \in Procs : pc[p] = "done" /\ ~raced[p] => dir[p] = Built(key[p])

\* Whoever finds an entry finds all of it, whichever processes store it at the same
\* time and wherever they crash, except for what a cleanup has begun to delete.
EntriesAreWhole ==
  \A k \in (dirs \cap Keys) \ torn : content[k] = Built(k)

\* A cleanup decides to delete only what nobody has stored or retrieved for the
\* whole retention.
EvictsUnusedOnly ==
  [][\A p \in Procs : pc[p] = "stat" /\ pc'[p] = "remove" => victim[p] \notin used]_vars

\* The cache makes a build fail only if another process has deleted from, removed or
\* renamed the very directory that this build was evicting or copying from; never
\* because of entries stored at the same time, nor of what it does alone, whatever
\* crashed processes have left.
CacheRaisesInRacesOnly == \A p \in Procs : pc[p] = "raised" => raced[p]

\* Stronger, and false: the cache makes no build fail.
CacheNeverRaises == \A p \in Procs : pc[p] # "raised"

\* Stronger than EvictsUnusedOnly, and false: what a cleanup deletes was unused until
\* then, and not only when its modification time was read.
DeletesUnusedOnly ==
  [][\A p \in Procs : pc[p] = "delete" /\ files'[p] # files[p] /\ content' # content
                        => victim[p] \notin used]_vars
=============================================================================
