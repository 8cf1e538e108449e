-------------------------- MODULE BuildCacheProofs --------------------------
(***************************************************************************)
(* Proofs about the build cache, for every number of processes, sources,   *)
(* temporary names, files, builds and crashes, wherever processes crash.   *)
(***************************************************************************)
EXTENDS BuildCache, TLAPS

\* The modification time of an entry is past the retention only if nobody has used
\* the entry since.
OldIsUnused == old \cap used = {}

\* A temporary directory that is being filled belongs to one process, is young, and
\* nobody deletes it.
Filling ==
  /\ \A p \in Procs : tmp[p] # None => tmp[p] \in dirs \ old
  /\ \A p, q \in Procs : p # q /\ tmp[p] # None => tmp[p] # tmp[q]
  /\ \A p, q \in Procs : pc[q] \in {"remove", "delete"} /\ tmp[p] # None => victim[q] # tmp[p]

\* EntriesAreWhole, file by file.
Whole ==
  \A k \in (dirs \cap Keys) \ torn : \A f \in Files : content[k][f] = k

\* What is true of a process at each place of a build.  As long as nobody touches the
\* entry that it has found, the entry stays there, and what it has copied is what it
\* builds.
Building(p) ==
  /\ pc[p] \in {"list", "copy"} /\ ~raced[p] => key[p] \in dirs \ torn
  /\ pc[p] = "copy" /\ ~raced[p] =>
       \A f \in Files : f \notin files[p] => dir[p][f] = key[p]
  /\ pc[p] \in {"store", "fill"} => \A f \in Files : dir[p][f] = key[p]
  /\ pc[p] = "fill" => \A f \in Files : f \notin files[p] => content[tmp[p]][f] = key[p]
  /\ pc[p] = "done" /\ ~raced[p] => \A f \in Files : dir[p][f] = key[p]
  /\ pc[p] = "raised" => raced[p]

\* And of a cleanup: as long as nobody touches the directory that it looks at or
\* deletes, what it has not yet deleted is still there.
Cleaning(p) ==
  /\ p \in lost => pc[p] = "delete" /\ raced[p]
  /\ pc[p] \in {"stat", "remove", "delete"} /\ ~raced[p] => victim[p] \in dirs
  /\ pc[p] = "delete" /\ ~raced[p] =>
       \A f \in Files : f \in files[p] <=> content[victim[p]][f] # None

IInv == /\ TypeOK /\ OldIsUnused /\ Filling /\ Whole
        /\ \A p \in Procs : Building(p) /\ Cleaning(p)

USE CacheAssumption DEF Dirs

----------------------------------------------------------------------------
\* Initially there is nothing in the cache and nobody builds.
LEMMA InitIInv == Init => IInv
  BY DEF Init, IInv, TypeOK, OldIsUnused, Filling, Whole, Building, Cleaning, Empty,
         Content, Steps

\* Every step keeps the types.
LEMMA TypeStep ==
  ASSUME TypeOK, Filling, [Next]_vars
  PROVE  TypeOK'
<1> USE DEF TypeOK, Content, Steps, disk, local
<1>1. ASSUME NEW p \in Procs, CheckAge(p) PROVE TypeOK'
  BY <1>1 DEF CheckAge, Go
<1>2. ASSUME NEW p \in Procs, Touch(p) PROVE TypeOK'
  <2>1. /\ pc[p] = "touch" /\ pc' = [pc EXCEPT ![p] = "open"] /\ due' \in BOOLEAN
        /\ UNCHANGED <<dirs, content, old, used, torn, local, raced, builds, crashes>>
    BY <1>2, Zenon DEF Touch, Go
  <2>2. QED BY <2>1
<1>3. ASSUME NEW p \in Procs, ScanDir(p) PROVE TypeOK'
  BY <1>3 DEF ScanDir, Go
<1>4. ASSUME NEW p \in Procs, NEW d \in Dirs, NextDir(p, d) PROVE TypeOK'
  <2>1. /\ pc[p] = "scan" /\ scan' = [scan EXCEPT ![p] = @ \ {d}]
        /\ UNCHANGED <<disk, dir, tmp, key, keyed, files, lost, raced, builds, crashes>>
        /\ \/ /\ pc' = [pc EXCEPT ![p] = "stat"] /\ victim' = [victim EXCEPT ![p] = d]
           \/ UNCHANGED <<pc, victim>>
    BY <1>4 DEF NextDir, Go
  <2>2. scan' \in [Procs -> SUBSET Dirs]
    BY <2>1
  <2>3. CASE UNCHANGED <<pc, victim>>
    BY <2>1, <2>2, <2>3
  <2>4. CASE pc' = [pc EXCEPT ![p] = "stat"] /\ victim' = [victim EXCEPT ![p] = d]
    BY <2>1, <2>2, <2>4
  <2>5. QED BY <2>1, <2>3, <2>4
<1>5. ASSUME NEW p \in Procs, KeepDir(p) PROVE TypeOK'
  BY <1>5 DEF KeepDir, Go
<1>6. ASSUME NEW p \in Procs, EvictDir(p) PROVE TypeOK'
  BY <1>6 DEF EvictDir, Go
<1>7. ASSUME NEW p \in Procs, OpenVictim(p) PROVE TypeOK'
  BY <1>7 DEF OpenVictim, Go, Held
<1>8. ASSUME NEW p \in Procs, NEW f \in Files, DeleteFile(p, f) PROVE TypeOK'
  BY <1>8 DEF DeleteFile, Touches
<1>9. ASSUME NEW p \in Procs, RemoveDir(p) PROVE TypeOK'
  BY <1>9 DEF RemoveDir, Go, Touches, Orphans
<1>10. ASSUME NEW p \in Procs, CleanupRaises(p) PROVE TypeOK'
  BY <1>10 DEF CleanupRaises
<1>11. ASSUME NEW p \in Procs, CleanupDone(p) PROVE TypeOK'
  BY <1>11 DEF CleanupDone, Go
<1>12. ASSUME NEW p \in Procs, NEW f \in Files, CopyFile(p, f) PROVE TypeOK'
  BY <1>12 DEF CopyFile
<1>13. ASSUME NEW p \in Procs, NEW f \in Files, FillTmp(p, f) PROVE TypeOK'
  BY <1>13 DEF FillTmp
<1>14. ASSUME NEW p \in Procs, Look(p) PROVE TypeOK'
  BY <1>14 DEF Look, Go, Found
<1>15. ASSUME NEW p \in Procs, List(p) PROVE TypeOK'
  BY <1>15 DEF List, Go, Held, Found
<1>16. ASSUME NEW p \in Procs, RetrieveRaises(p) PROVE TypeOK'
  BY <1>16 DEF RetrieveRaises, Go
<1>17. ASSUME NEW p \in Procs, Hit(p) PROVE TypeOK'
  BY <1>17 DEF Hit, Go, Found
<1>18. ASSUME NEW p \in Procs, Make(p) PROVE TypeOK'
  BY <1>18 DEF Make, Go, Built
<1>19. ASSUME NEW p \in Procs, NEW done \in SUBSET Files, MakeFails(p, done) PROVE TypeOK'
  BY <1>19 DEF MakeFails, Go
<1>20. ASSUME NEW p \in Procs, NEW t \in Temps, MakeTmp(p, t) PROVE TypeOK'
  <2>1. /\ pc[p] = "store" /\ pc' = [pc EXCEPT ![p] = "fill"]
        /\ tmp' = [tmp EXCEPT ![p] = t] /\ dirs' = dirs \cup {t}
        /\ files' = [files EXCEPT ![p] = Held(dir[p])]
        /\ UNCHANGED <<old, due, used, torn, dir, key, keyed, scan, victim, lost, raced,
                       builds, crashes>>
    BY <1>20 DEF MakeTmp, Go
  <2>2. content' \in [Dirs -> Content]
    BY <1>20 DEF MakeTmp, Empty
  <2>3. files' \in [Procs -> SUBSET Files] /\ t # None
    BY <2>1 DEF Held
  <2>4. \A q \in Procs : /\ (pc'[q] = "fill") = (q = p \/ pc[q] = "fill")
                         /\ (tmp'[q] # None) = (q = p \/ tmp[q] # None)
    BY <2>1, <2>3
  <2>5. \A q \in Procs : (victim'[q] # None) = (pc'[q] \in {"stat", "remove", "delete"})
    BY <2>1
  <2>6. QED BY <2>1, <2>2, <2>3, <2>4, <2>5
<1>21. ASSUME NEW p \in Procs, MakeTmpFails(p) PROVE TypeOK'
  BY <1>21 DEF MakeTmpFails, Go
<1>22. ASSUME NEW p \in Procs, Rename(p) PROVE TypeOK'
  <2>1. /\ pc[p] = "fill" /\ tmp[p] \in Temps /\ key[p] \in Keys
    BY <1>22 DEF Rename, Go
  <2>2. content' \in [Dirs -> Content]
    BY <1>22, <2>1 DEF Rename, Empty
  <2>3. raced' \in [Procs -> BOOLEAN] /\ lost' \subseteq Procs
    BY <1>22 DEF Rename, Touches, Orphans
  <2>4. /\ dirs' \subseteq Dirs /\ old' \subseteq dirs'
        /\ used' \subseteq Keys /\ torn' \subseteq dirs' \cap Keys
    <3>1. tmp[p] \notin old
      BY <2>1 DEF Filling
    <3>2. QED BY <1>22, <2>1, <3>1 DEF Rename
  <2>5. /\ pc' = [pc EXCEPT ![p] = "done"] /\ tmp' = [tmp EXCEPT ![p] = None]
        /\ UNCHANGED <<due, dir, key, keyed, files, scan, victim, builds, crashes>>
    BY <1>22 DEF Rename, Go, Leave
  <2>6. QED BY <2>1, <2>2, <2>3, <2>4, <2>5
<1>23. ASSUME NEW p \in Procs, RenameConflict(p) PROVE TypeOK'
  <2>1. /\ pc[p] = "fill" /\ tmp[p] \in Temps /\ key[p] \in Keys
    BY <1>23 DEF RenameConflict, Go
  <2>2. content' \in [Dirs -> Content]
    BY <1>23, <2>1 DEF RenameConflict, Empty
  <2>3. raced' \in [Procs -> BOOLEAN] /\ lost' \subseteq Procs
    BY <1>23 DEF RenameConflict, Touches, Orphans
  <2>4. /\ dirs' \subseteq Dirs /\ old' \subseteq dirs'
        /\ used' \subseteq Keys /\ torn' \subseteq dirs' \cap Keys
    <3>1. tmp[p] \notin old
      BY <2>1 DEF Filling
    <3>2. QED BY <1>23, <2>1, <3>1 DEF RenameConflict
  <2>5. /\ pc' = [pc EXCEPT ![p] = "done"] /\ tmp' = [tmp EXCEPT ![p] = None]
        /\ UNCHANGED <<due, dir, key, keyed, files, scan, victim, builds, crashes>>
    BY <1>23 DEF RenameConflict, Go, Leave
  <2>6. QED BY <2>1, <2>2, <2>3, <2>4, <2>5
<1>24. ASSUME NEW p \in Procs, Return(p) PROVE TypeOK'
  BY <1>24 DEF Return
<1>25. ASSUME NEW p \in Procs, Crash(p) PROVE TypeOK'
  BY <1>25 DEF Crash
<1>26. ASSUME NEW p \in Procs, NEW k \in Keys, Start(p, k) PROVE TypeOK'
  <2>1. /\ key' = [key EXCEPT ![p] = k] /\ builds' = builds + 1
        /\ raced' = [raced EXCEPT ![p] = FALSE] /\ pc[p] = "idle"
        /\ UNCHANGED <<disk, dir, tmp, files, scan, victim, lost, crashes>>
    BY <1>26, Zenon DEF Start, Go
  <2>2. \/ pc' = [pc EXCEPT ![p] = "check"] /\ keyed' = [keyed EXCEPT ![p] = TRUE]
        \/ pc' = [pc EXCEPT ![p] = "make"] /\ keyed' = [keyed EXCEPT ![p] = FALSE]
    BY <1>26, Zenon DEF Start, Go
  <2>3. keyed' \in [Procs -> BOOLEAN] /\ raced' \in [Procs -> BOOLEAN]
    BY <2>1, <2>2, Zenon
  <2>4. pc' \in [Procs -> Steps] /\ key' \in [Procs -> Keys \cup {None}] /\ builds' \in Nat
    BY <2>1, <2>2
  <2>5. \A q \in Procs : pc'[q] # "idle" => key'[q] # None
    BY <2>1, <2>2
  <2>6. \A q \in Procs : (pc'[q] \in {"stat", "remove", "delete"})
                            = (pc[q] \in {"stat", "remove", "delete"})
    BY <2>1, <2>2
  <2>7. \A q \in Procs : (pc'[q] = "fill") = (pc[q] = "fill")
    BY <2>1, <2>2
  <2>8. QED BY <2>1, <2>3, <2>4, <2>5, <2>6, <2>7
<1>27. ASSUME NEW d \in Dirs, RetentionEnds(d) PROVE TypeOK'
  BY <1>27 DEF RetentionEnds
<1>28. CASE CleanupDue
  BY <1>28 DEF CleanupDue
<1>29. CASE UNCHANGED vars
  BY <1>29 DEF vars
<1>30. QED
  BY <1>1, <1>2, <1>3, <1>4, <1>5, <1>6, <1>7, <1>8, <1>9, <1>10, <1>11, <1>12, <1>13,
     <1>14, <1>15, <1>16, <1>17, <1>18, <1>19, <1>20, <1>21, <1>22, <1>23, <1>24, <1>25,
     <1>26, <1>27, <1>28, <1>29
     DEF Next, Step

\* A directory is marked as old only when it becomes unused, and whoever uses it
\* removes the mark.
LEMMA OldStep ==
  ASSUME TypeOK, OldIsUnused, [Next]_vars
  PROVE  OldIsUnused'
<1> USE DEF OldIsUnused, disk, local
<1>1. ASSUME NEW p \in Procs, Hit(p) PROVE OldIsUnused'
  BY <1>1 DEF Hit
<1>2. ASSUME NEW p \in Procs, Rename(p) PROVE OldIsUnused'
  BY <1>2 DEF Rename
<1>3. ASSUME NEW d \in Dirs, RetentionEnds(d) PROVE OldIsUnused'
  BY <1>3 DEF RetentionEnds
<1>4. ASSUME NEW p \in Procs,
             \/ CheckAge(p) \/ Touch(p) \/ ScanDir(p) \/ KeepDir(p) \/ EvictDir(p)
             \/ OpenVictim(p) \/ RemoveDir(p) \/ CleanupRaises(p) \/ CleanupDone(p)
             \/ \E d \in Dirs : NextDir(p, d)
             \/ \E f \in Files : DeleteFile(p, f)
      PROVE  old' \subseteq old /\ used' = used
  BY <1>4 DEF CheckAge, Touch, ScanDir, KeepDir, EvictDir, OpenVictim, RemoveDir,
              CleanupRaises, CleanupDone, NextDir, DeleteFile
<1>5. ASSUME NEW p \in Procs,
             \/ Look(p) \/ List(p) \/ RetrieveRaises(p) \/ Make(p) \/ MakeTmpFails(p)
             \/ RenameConflict(p) \/ Return(p) \/ Crash(p)
             \/ \E t \in Temps : MakeTmp(p, t)
             \/ \E f \in Files : CopyFile(p, f) \/ FillTmp(p, f)
             \/ \E done \in SUBSET Files : MakeFails(p, done)
             \/ \E k \in Keys : Start(p, k)
      PROVE  old' \subseteq old /\ used' = used
  BY <1>5 DEF Look, List, RetrieveRaises, Make, MakeTmpFails, RenameConflict, Return, Crash,
              MakeTmp, CopyFile, FillTmp, MakeFails, Start
<1>6. CASE CleanupDue \/ UNCHANGED vars
  BY <1>6 DEF CleanupDue, vars
<1>7. QED
  BY <1>1, <1>2, <1>3, <1>4, <1>5, <1>6 DEF Next, Step

----------------------------------------------------------------------------
(* The temporary directories.                                              *)

\* A step that makes, removes and fills no directory, and begins to delete none.
LEMMA FillFrame ==
  ASSUME TypeOK, Filling, UNCHANGED <<tmp, dirs>>, old' \subseteq old,
         \A q \in Procs : pc'[q] \in {"remove", "delete"} =>
                            pc[q] \in {"remove", "delete"} /\ victim'[q] = victim[q]
  PROVE  Filling'
  BY DEF Filling

\* Nobody takes a temporary directory from the process that fills it.
LEMMA FillStep ==
  ASSUME TypeOK, Filling, [Next]_vars
  PROVE  Filling'
<1> USE DEF disk, local
<1>1. ASSUME NEW p \in Procs, CheckAge(p) PROVE Filling'
  BY <1>1, FillFrame DEF CheckAge, Go, TypeOK
<1>2. ASSUME NEW p \in Procs, Touch(p) PROVE Filling'
  BY <1>2, FillFrame DEF Touch, Go, TypeOK
<1>3. ASSUME NEW p \in Procs, ScanDir(p) PROVE Filling'
  BY <1>3, FillFrame DEF ScanDir, Go, TypeOK
<1>4. ASSUME NEW p \in Procs, NEW d \in Dirs, NextDir(p, d) PROVE Filling'
  BY <1>4, FillFrame DEF NextDir, Go, TypeOK
<1>5. ASSUME NEW p \in Procs, KeepDir(p) PROVE Filling'
  BY <1>5, FillFrame DEF KeepDir, Go, TypeOK
<1>6. ASSUME NEW p \in Procs, OpenVictim(p) PROVE Filling'
  BY <1>6, FillFrame DEF OpenVictim, Go, TypeOK
<1>7. ASSUME NEW p \in Procs, NEW f \in Files, DeleteFile(p, f) PROVE Filling'
  BY <1>7, FillFrame DEF DeleteFile, TypeOK
<1>8. ASSUME NEW p \in Procs, CleanupRaises(p) PROVE Filling'
  BY <1>8, FillFrame DEF CleanupRaises, TypeOK
<1>9. ASSUME NEW p \in Procs, CleanupDone(p) PROVE Filling'
  BY <1>9, FillFrame DEF CleanupDone, Go, TypeOK
<1>10. ASSUME NEW p \in Procs, NEW f \in Files, CopyFile(p, f) PROVE Filling'
  BY <1>10, FillFrame DEF CopyFile, TypeOK
<1>11. ASSUME NEW p \in Procs, NEW f \in Files, FillTmp(p, f) PROVE Filling'
  BY <1>11, FillFrame DEF FillTmp, TypeOK
<1>12. ASSUME NEW p \in Procs, Look(p) PROVE Filling'
  BY <1>12, FillFrame DEF Look, Go, TypeOK
<1>13. ASSUME NEW p \in Procs, List(p) PROVE Filling'
  BY <1>13, FillFrame DEF List, Go, TypeOK
<1>14. ASSUME NEW p \in Procs, RetrieveRaises(p) PROVE Filling'
  BY <1>14, FillFrame DEF RetrieveRaises, Go, TypeOK
<1>15. ASSUME NEW p \in Procs, Hit(p) PROVE Filling'
  BY <1>15, FillFrame DEF Hit, Go, TypeOK
<1>16. ASSUME NEW p \in Procs, Make(p) PROVE Filling'
  BY <1>16, FillFrame DEF Make, Go, TypeOK
<1>17. ASSUME NEW p \in Procs, NEW done \in SUBSET Files, MakeFails(p, done) PROVE Filling'
  BY <1>17, FillFrame DEF MakeFails, Go, TypeOK
<1>18. ASSUME NEW p \in Procs, MakeTmpFails(p) PROVE Filling'
  BY <1>18, FillFrame DEF MakeTmpFails, Go, TypeOK
<1>19. ASSUME NEW p \in Procs, Return(p) PROVE Filling'
  BY <1>19, FillFrame DEF Return, TypeOK
<1>20. ASSUME NEW p \in Procs, NEW k \in Keys, Start(p, k) PROVE Filling'
  BY <1>20, FillFrame DEF Start, Go, TypeOK
<1>21. ASSUME NEW p \in Procs, EvictDir(p) PROVE Filling'
  BY <1>21 DEF EvictDir, Go, TypeOK, Filling
<1>22. ASSUME NEW p \in Procs, RemoveDir(p) PROVE Filling'
  BY <1>22 DEF RemoveDir, Go, TypeOK, Filling
<1>23. ASSUME NEW p \in Procs, NEW t \in Temps, MakeTmp(p, t) PROVE Filling'
  <2>1. /\ tmp' = [tmp EXCEPT ![p] = t] /\ pc[p] = "store" /\ pc' = [pc EXCEPT ![p] = "fill"]
        /\ dirs' = dirs \cup {t} /\ UNCHANGED <<old, victim>>
        /\ t \notin dirs /\ \A q \in Procs : t # victim[q]
    BY <1>23 DEF MakeTmp, Go
  <2>2. \A q \in Procs : tmp[q] # t
    BY <2>1 DEF Filling, TypeOK
  <2>3. QED BY <2>1, <2>2 DEF Filling, TypeOK
<1>24. ASSUME NEW p \in Procs, Rename(p) \/ RenameConflict(p) PROVE Filling'
  <2>1. /\ tmp' = [tmp EXCEPT ![p] = None] /\ pc[p] = "fill" /\ pc' = [pc EXCEPT ![p] = "done"]
        /\ dirs \ {tmp[p]} \subseteq dirs' /\ old' \subseteq old /\ UNCHANGED victim
    BY <1>24 DEF Rename, RenameConflict, Leave, Go
  <2>2. QED BY <2>1 DEF Filling, TypeOK
<1>25. ASSUME NEW p \in Procs, Crash(p) PROVE Filling'
  BY <1>25 DEF Crash, TypeOK, Filling
<1>26. ASSUME NEW d \in Dirs, RetentionEnds(d) PROVE Filling'
  BY <1>26 DEF RetentionEnds, Filling
<1>27. CASE CleanupDue \/ UNCHANGED vars
  BY <1>27 DEF CleanupDue, vars, Filling
<1>28. QED
  BY <1>1, <1>2, <1>3, <1>4, <1>5, <1>6, <1>7, <1>8, <1>9, <1>10, <1>11, <1>12, <1>13,
     <1>14, <1>15, <1>16, <1>17, <1>18, <1>19, <1>20, <1>21, <1>22, <1>23, <1>24, <1>25,
     <1>26, <1>27
     DEF Next, Step

----------------------------------------------------------------------------
(* Builds and cleanups.                                                    *)

\* While nobody touches the entry that a process has found, it is whole.
LEMMA FoundIsWhole ==
  ASSUME IInv, NEW p \in Procs, pc[p] \in {"list", "copy"}, ~raced[p]
  PROVE  /\ key[p] \in dirs
         /\ \A f \in Files : content[key[p]][f] = key[p]
<1>1. key[p] \in dirs \ torn /\ key[p] \in Keys
  BY DEF IInv, Building, TypeOK
<1>2. QED
  BY <1>1 DEF IInv, Whole

\* What a process has for itself does not change in this step.
Same(q) == /\ pc'[q] = pc[q] /\ key'[q] = key[q] /\ files'[q] = files[q]
           /\ dir'[q] = dir[q] /\ tmp'[q] = tmp[q] /\ victim'[q] = victim[q]

\* A process that does not take the step keeps what it relies on, unless the step
\* touches the directory that it looks at.
LEMMA Elsewhere ==
  ASSUME NEW q \in Procs, Building(q), Cleaning(q), Same(q),
         raced[q] => raced'[q],
         q \in lost' => q \in lost \/ (pc[q] = "delete" /\ raced'[q]),
         pc[q] \in {"list", "copy"} /\ ~raced'[q] /\ key[q] \in dirs \ torn
           => key[q] \in dirs' \ torn',
         pc[q] = "fill" => content'[tmp[q]] = content[tmp[q]],
         pc[q] \in {"stat", "remove", "delete"} /\ ~raced'[q] /\ victim[q] \in dirs
           => victim[q] \in dirs',
         pc[q] = "delete" /\ ~raced'[q] => content'[victim[q]] = content[victim[q]]
  PROVE  Building(q)' /\ Cleaning(q)'
<1>1. Building(q)'
  BY DEF Building, Same
<1>2. Cleaning(q)'
  BY DEF Cleaning, Same
<1>3. QED BY <1>1, <1>2

\* A step that changes no directory.
LEMMA LocalStep ==
  ASSUME IInv, NEW p \in Procs, UNCHANGED <<dirs, content, torn>>, lost' \subseteq lost,
         \A q \in Procs \ {p} : Same(q) /\ raced'[q] = raced[q],
         Building(p)', Cleaning(p)'
  PROVE  Whole' /\ \A q \in Procs : Building(q)' /\ Cleaning(q)'
<1>1. Whole'
  BY DEF IInv, Whole
<1>2. ASSUME NEW q \in Procs \ {p} PROVE Building(q)' /\ Cleaning(q)'
  <2>1. Building(q) /\ Cleaning(q)
    BY DEF IInv
  <2>2. QED BY <2>1, Elsewhere
<1>3. QED BY <1>1, <1>2

\* Who has looked at a directory that another process touches is in a race; nobody is
\* in a race with himself.
LEMMA Racing ==
  ASSUME NEW p \in Procs, NEW ds, Touches(p, ds)
  PROVE  /\ raced'[p] <=> raced[p]
         /\ \A q \in Procs : /\ raced[q] => raced'[q]
                             /\ q # p /\ victim[q] \in ds => raced'[q]
                             /\ q # p /\ pc[q] \in {"list", "copy"} /\ key[q] \in ds => raced'[q]
<1>1. ASSUME NEW q \in Procs
      PROVE  raced'[q] <=> (\/ raced[q]
                            \/ q # p /\ victim[q] \in ds
                            \/ q # p /\ pc[q] \in {"list", "copy"} /\ key[q] \in ds)
  BY Zenon DEF Touches
<1>2. QED BY <1>1, Zenon

\* Every step keeps entries whole and processes right.
LEMMA BuildStep ==
  ASSUME IInv, TypeOK', [Next]_vars
  PROVE  Whole' /\ \A q \in Procs : Building(q)' /\ Cleaning(q)'
<1> DEFINE Goal == Whole' /\ \A q \in Procs : Building(q)' /\ Cleaning(q)'
<1> USE DEF disk, local
<1>a. /\ \A p \in Procs : Building(p) /\ Cleaning(p) /\ raced[p] \in BOOLEAN
      /\ TypeOK /\ Filling
  BY DEF IInv, TypeOK
<1>1. ASSUME NEW p \in Procs, CheckAge(p) PROVE Goal
  <2>1. Building(p)' BY <1>1, <1>a DEF CheckAge, Go, Building, TypeOK
  <2>2. Cleaning(p)' BY <1>1, <1>a DEF CheckAge, Go, Cleaning, TypeOK
  <2>3. QED BY <1>1, <1>a, <2>1, <2>2, LocalStep DEF CheckAge, Go, Same, TypeOK
<1>2. ASSUME NEW p \in Procs, Touch(p) PROVE Goal
  <2>1. Building(p)' BY <1>2, <1>a DEF Touch, Go, Building, TypeOK
  <2>2. Cleaning(p)' BY <1>2, <1>a DEF Touch, Go, Cleaning, TypeOK
  <2>3. QED BY <1>2, <1>a, <2>1, <2>2, LocalStep DEF Touch, Go, Same, TypeOK
<1>3. ASSUME NEW p \in Procs, ScanDir(p) PROVE Goal
  <2>1. Building(p)' BY <1>3, <1>a DEF ScanDir, Go, Building, TypeOK
  <2>2. Cleaning(p)' BY <1>3, <1>a DEF ScanDir, Go, Cleaning, TypeOK
  <2>3. QED BY <1>3, <1>a, <2>1, <2>2, LocalStep DEF ScanDir, Go, Same, TypeOK
<1>4. ASSUME NEW p \in Procs, NEW d \in Dirs, NextDir(p, d) PROVE Goal
  <2>1. Building(p)' BY <1>4, <1>a DEF NextDir, Go, Building, TypeOK
  <2>2. Cleaning(p)' BY <1>4, <1>a DEF NextDir, Go, Cleaning, TypeOK
  <2>3. QED BY <1>4, <1>a, <2>1, <2>2, LocalStep DEF NextDir, Go, Same, TypeOK
<1>5. ASSUME NEW p \in Procs, KeepDir(p) PROVE Goal
  <2>1. Building(p)' BY <1>5, <1>a DEF KeepDir, Go, Building, TypeOK
  <2>2. Cleaning(p)' BY <1>5, <1>a DEF KeepDir, Go, Cleaning, TypeOK
  <2>3. QED BY <1>5, <1>a, <2>1, <2>2, LocalStep DEF KeepDir, Go, Same, TypeOK
<1>6. ASSUME NEW p \in Procs, EvictDir(p) PROVE Goal
  <2>1. Building(p)' BY <1>6, <1>a DEF EvictDir, Go, Building, TypeOK
  <2>2. Cleaning(p)' BY <1>6, <1>a DEF EvictDir, Go, Cleaning, TypeOK
  <2>3. QED BY <1>6, <1>a, <2>1, <2>2, LocalStep DEF EvictDir, Go, Same, TypeOK
<1>7. ASSUME NEW p \in Procs, OpenVictim(p) PROVE Goal
  <2>1. Building(p)' BY <1>7, <1>a DEF OpenVictim, Go, Held, Building, TypeOK
  <2>2. Cleaning(p)' BY <1>7, <1>a DEF OpenVictim, Go, Held, Cleaning, TypeOK
  <2>3. QED BY <1>7, <1>a, <2>1, <2>2, LocalStep DEF OpenVictim, Go, Same, TypeOK
<1>8. ASSUME NEW p \in Procs, CleanupDone(p) PROVE Goal
  <2>1. Building(p)' BY <1>8, <1>a DEF CleanupDone, Go, Building, TypeOK
  <2>2. Cleaning(p)' BY <1>8, <1>a DEF CleanupDone, Go, Cleaning, TypeOK
  <2>3. QED BY <1>8, <1>a, <2>1, <2>2, LocalStep DEF CleanupDone, Go, Same, TypeOK
<1>9. ASSUME NEW p \in Procs, Look(p) PROVE Goal
  <2>1. /\ pc[p] = "look" /\ pc' = [pc EXCEPT ![p] = IF Found(p) THEN "list" ELSE "make"]
        /\ raced' = [raced EXCEPT ![p] = key[p] \in torn]
        /\ UNCHANGED <<dirs, torn, content, dir, tmp, key, files, victim, lost>>
    BY <1>9, Zenon DEF Look, Go
  <2>2. raced'[p] <=> key[p] \in torn
    BY <2>1, <1>a, Zenon DEF TypeOK
  <2>3. pc'[p] = IF Found(p) THEN "list" ELSE "make"
    BY <2>1, <1>a DEF TypeOK
  <2>4. Building(p)'
    BY <2>1, <2>2, <2>3 DEF Building, Found
  <2>5. Cleaning(p)'
    BY <2>1, <2>3, <1>a DEF Cleaning
  <2>6. ASSUME NEW q \in Procs \ {p} PROVE Same(q) /\ raced'[q] = raced[q]
    <3>1. raced'[q] = raced[q]
      BY <2>1, <1>a, Zenon DEF TypeOK
    <3>2. QED BY <3>1, <2>1, <1>a DEF Same, TypeOK
  <2>7. QED BY <2>1, <2>4, <2>5, <2>6, LocalStep
<1>10. ASSUME NEW p \in Procs, Hit(p) PROVE Goal
  <2>1. Building(p)' BY <1>10, <1>a DEF Hit, Go, Found, Building, TypeOK
  <2>2. Cleaning(p)' BY <1>10, <1>a DEF Hit, Go, Found, Cleaning, TypeOK
  <2>3. QED BY <1>10, <1>a, <2>1, <2>2, LocalStep DEF Hit, Go, Same, TypeOK
<1>11. ASSUME NEW p \in Procs, Make(p) PROVE Goal
  <2>1. Building(p)' BY <1>11, <1>a DEF Make, Go, Built, Building, TypeOK
  <2>2. Cleaning(p)' BY <1>11, <1>a DEF Make, Go, Built, Cleaning, TypeOK
  <2>3. QED BY <1>11, <1>a, <2>1, <2>2, LocalStep DEF Make, Go, Same, TypeOK
<1>12. ASSUME NEW p \in Procs, NEW done \in SUBSET Files, MakeFails(p, done) PROVE Goal
  <2>1. Building(p)' BY <1>12, <1>a DEF MakeFails, Go, Building, TypeOK
  <2>2. Cleaning(p)' BY <1>12, <1>a DEF MakeFails, Go, Cleaning, TypeOK
  <2>3. QED BY <1>12, <1>a, <2>1, <2>2, LocalStep DEF MakeFails, Go, Same, TypeOK
<1>13. ASSUME NEW p \in Procs, MakeTmpFails(p) PROVE Goal
  <2>1. Building(p)' BY <1>13, <1>a DEF MakeTmpFails, Go, Building, TypeOK
  <2>2. Cleaning(p)' BY <1>13, <1>a DEF MakeTmpFails, Go, Cleaning, TypeOK
  <2>3. QED BY <1>13, <1>a, <2>1, <2>2, LocalStep DEF MakeTmpFails, Go, Same, TypeOK
<1>14. ASSUME NEW p \in Procs, Return(p) PROVE Goal
  <2>1. Building(p)' BY <1>14, <1>a DEF Return, Building, TypeOK
  <2>2. Cleaning(p)' BY <1>14, <1>a DEF Return, Cleaning, TypeOK
  <2>3. QED BY <1>14, <1>a, <2>1, <2>2, LocalStep DEF Return, Same, TypeOK
<1>15. ASSUME NEW p \in Procs, Crash(p) PROVE Goal
  <2>1. Building(p)' BY <1>15, <1>a DEF Crash, Building, TypeOK
  <2>2. Cleaning(p)' BY <1>15, <1>a DEF Crash, Cleaning, TypeOK
  <2>3. QED BY <1>15, <1>a, <2>1, <2>2, LocalStep DEF Crash, Same, TypeOK
<1>16. ASSUME NEW p \in Procs, NEW k \in Keys, Start(p, k) PROVE Goal
  <2>1. Building(p)' BY <1>16, <1>a DEF Start, Go, Building, TypeOK
  <2>2. Cleaning(p)' BY <1>16, <1>a DEF Start, Go, Cleaning, TypeOK
  <2>3. QED BY <1>16, <1>a, <2>1, <2>2, LocalStep DEF Start, Go, Same, TypeOK
<1>17. ASSUME NEW p \in Procs, CleanupRaises(p) PROVE Goal
  <2>1. raced[p]
    BY <1>17, <1>a DEF CleanupRaises, Cleaning, Held, TypeOK
  <2>2. Building(p)' BY <1>17, <1>a, <2>1 DEF CleanupRaises, Building, TypeOK
  <2>3. Cleaning(p)' BY <1>17, <1>a DEF CleanupRaises, Cleaning, TypeOK
  <2>4. QED BY <1>17, <1>a, <2>2, <2>3, LocalStep DEF CleanupRaises, Same, TypeOK
<1>18. ASSUME NEW p \in Procs, List(p) PROVE Goal
  <2>1. ~raced[p] => files'[p] = Files
    <3>1. ~raced[p] => key[p] \in dirs /\ \A f \in Files : content[key[p]][f] = key[p]
      BY <1>18, FoundIsWhole DEF List, Go
    <3>2. QED BY <1>18, <3>1, <1>a DEF List, Go, Found, Held, TypeOK
  <2>2. Building(p)' BY <1>18, <1>a, <2>1 DEF List, Go, Building, TypeOK
  <2>3. Cleaning(p)' BY <1>18, <1>a DEF List, Go, Cleaning, TypeOK
  <2>4. QED BY <1>18, <1>a, <2>2, <2>3, LocalStep DEF List, Go, Same, TypeOK
<1>19. ASSUME NEW p \in Procs, NEW f \in Files, CopyFile(p, f) PROVE Goal
  <2>1. ~raced[p] => content[key[p]][f] = key[p]
    BY <1>19, FoundIsWhole DEF CopyFile
  <2>2. /\ dir'[p] = [dir[p] EXCEPT ![f] = content[key[p]][f]] /\ files'[p] = files[p] \ {f}
        /\ UNCHANGED <<dirs, torn, content, victim, lost, raced, key, tmp,
                       pc>> /\ pc[p] = "copy"
    BY <1>19, <1>a DEF CopyFile, TypeOK
  <2>3. ~raced[p] => \A g \in Files : g \notin files'[p] => dir'[p][g] = key[p]
    BY <2>1, <2>2, <1>a DEF TypeOK, Content, Building
  <2>4. Building(p)' BY <1>a, <2>2, <2>3 DEF Building
  <2>5. Cleaning(p)' BY <1>a, <2>2 DEF Cleaning
  <2>6. QED BY <1>19, <1>a, <2>4, <2>5, LocalStep DEF CopyFile, Same, TypeOK
<1>20. ASSUME NEW p \in Procs, RetrieveRaises(p) PROVE Goal
  <2>1. raced[p]
    <3>1. SUFFICES ASSUME ~raced[p] PROVE FALSE
      BY <1>a
    <3>2. key[p] \in dirs /\ \A f \in Files : content[key[p]][f] = key[p]
      BY <1>20, <3>1, FoundIsWhole DEF RetrieveRaises, Go
    <3>3. QED BY <1>20, <3>2, <1>a DEF RetrieveRaises, Go, Found, TypeOK
  <2>2. Building(p)' BY <1>20, <1>a, <2>1 DEF RetrieveRaises, Go, Building, TypeOK
  <2>3. Cleaning(p)' BY <1>20, <1>a DEF RetrieveRaises, Go, Cleaning, TypeOK
  <2>4. QED BY <1>20, <1>a, <2>2, <2>3, LocalStep DEF RetrieveRaises, Go, Same, TypeOK
<1>21. ASSUME NEW p \in Procs, NEW f \in Files, DeleteFile(p, f) PROVE Goal
  <2>1. /\ pc[p] = "delete" /\ victim[p] \in Dirs /\ f \in files[p]
        /\ content' = [content EXCEPT ![victim[p]] = [@ EXCEPT ![f] = None]]
        /\ torn' = torn \cup ({victim[p]} \cap Keys)
        /\ files' = [files EXCEPT ![p] = @ \ {f}]
        /\ UNCHANGED <<dirs, dir, tmp, key, victim, lost, pc>>
    BY <1>21, <1>a DEF DeleteFile, TypeOK
  <2>2. /\ raced'[p] <=> raced[p]
        /\ \A q \in Procs \ {p} : /\ raced[q] => raced'[q]
                                  /\ victim[q] = victim[p] => raced'[q]
                                  /\ pc[q] \in {"list", "copy"} /\ key[q] = victim[p] => raced'[q]
    <3>1. Touches(p, {victim[p]})
      BY <1>21 DEF DeleteFile
    <3>2. \A x : x = victim[p] => x \in {victim[p]}
      OBVIOUS
    <3>3. QED BY <3>1, <3>2, Racing, Zenon
  <2>3. \A d \in Dirs : d # victim[p] => content'[d] = content[d]
    BY <2>1, <1>a DEF TypeOK
  <2>4. Whole'
    BY <2>1, <2>3 DEF IInv, Whole
  <2>5. Building(p)'
    BY <2>1, <2>2, <1>a DEF Building
  <2>6. Cleaning(p)'
    <3>1. content'[victim[p]] = [content[victim[p]] EXCEPT ![f] = None]
      BY <2>1, <1>a DEF TypeOK
    <3>2. \A g \in Files : content'[victim[p]][g] = IF g = f THEN None ELSE content[victim[p]][g]
      BY <3>1, <2>1, <1>a DEF TypeOK, Content
    <3>3. files'[p] = files[p] \ {f}
      BY <2>1, <1>a DEF TypeOK
    <3>4. raced'[p] <=> raced[p]
      BY <2>2
    <3>5. QED BY <2>1, <3>2, <3>3, <3>4, <1>a DEF Cleaning
  <2>7. ASSUME NEW q \in Procs \ {p} PROVE Building(q)' /\ Cleaning(q)'
    <3>1. Same(q) BY <2>1, <1>a DEF Same, TypeOK
    <3>2. raced[q] => raced'[q] BY <2>2, Zenon
    <3>3. pc[q] \in {"list", "copy"} /\ ~raced'[q] => key[q] # victim[p]
      BY <2>2, Zenon
    <3>4. pc[q] = "fill" => content'[tmp[q]] = content[tmp[q]]
      BY <2>1, <2>3, <1>a DEF Filling, TypeOK
    <3>5. pc[q] = "delete" /\ ~raced'[q] => content'[victim[q]] = content[victim[q]]
      <4>1. ~raced'[q] => victim[q] # victim[p]
        BY <2>2, Zenon
      <4>2. pc[q] = "delete" => victim[q] \in Dirs
        BY <1>a DEF TypeOK
      <4>3. QED BY <4>1, <4>2, <2>3
    <3>6. QED BY <2>1, <1>a, <3>1, <3>2, <3>3, <3>4, <3>5, Elsewhere
  <2>8. QED BY <2>4, <2>5, <2>6, <2>7
<1>22. ASSUME NEW p \in Procs, RemoveDir(p) PROVE Goal
  <2>1. /\ pc[p] = "delete" /\ pc' = [pc EXCEPT ![p] = "scan"] /\ victim[p] \in Dirs
        /\ p \notin lost /\ dirs' = dirs \ {victim[p]} /\ torn' = torn \ {victim[p]}
        /\ victim' = [victim EXCEPT ![p] = None]
        /\ lost' = lost \cup {q \in Procs \ {p} : pc[q] = "delete" /\ victim[q] = victim[p]}
        /\ UNCHANGED <<content, dir, tmp, key, files>>
    BY <1>22, <1>a DEF RemoveDir, Go, Orphans, TypeOK
  <2>2. /\ raced'[p] <=> raced[p]
        /\ \A q \in Procs \ {p} : /\ raced[q] => raced'[q]
                                  /\ victim[q] = victim[p] => raced'[q]
                                  /\ pc[q] \in {"list", "copy"} /\ key[q] = victim[p] => raced'[q]
    <3>1. Touches(p, {victim[p]})
      BY <1>22 DEF RemoveDir
    <3>2. \A x : x = victim[p] => x \in {victim[p]}
      OBVIOUS
    <3>3. QED BY <3>1, <3>2, Racing, Zenon
  <2>3. Whole'
    BY <2>1 DEF IInv, Whole
  <2>4. Building(p)' BY <2>1, <1>a DEF Building, TypeOK
  <2>5. Cleaning(p)' BY <2>1, <1>a DEF Cleaning, TypeOK
  <2>6. ASSUME NEW q \in Procs \ {p} PROVE Building(q)' /\ Cleaning(q)'
    <3>1. Same(q) BY <2>1, <1>a DEF Same, TypeOK
    <3>2. raced[q] => raced'[q] BY <2>2, Zenon
    <3>3. q \in lost' => q \in lost \/ (pc[q] = "delete" /\ raced'[q])
      <4>1. q \in lost' => q \in lost \/ (pc[q] = "delete" /\ victim[q] = victim[p])
        BY <2>1
      <4>2. QED BY <4>1, <2>2, Zenon
    <3>4. pc[q] \in {"list", "copy"} /\ ~raced'[q] => key[q] # victim[p]
      BY <2>2, Zenon
    <3>5. ~raced'[q] => victim[q] # victim[p]
      BY <2>2, Zenon
    <3>6. QED BY <2>1, <1>a, <3>1, <3>2, <3>3, <3>4, <3>5, Elsewhere
  <2>7. QED BY <2>3, <2>4, <2>5, <2>6
<1>23. ASSUME NEW p \in Procs, NEW t \in Temps, MakeTmp(p, t) PROVE Goal
  <2>1. /\ pc[p] = "store" /\ pc' = [pc EXCEPT ![p] = "fill"]
        /\ tmp' = [tmp EXCEPT ![p] = t] /\ dirs' = dirs \cup {t}
        /\ content' = [content EXCEPT ![t] = Empty] /\ files' = [files EXCEPT ![p] = Held(dir[p])]
        /\ UNCHANGED <<torn, dir, key, victim, lost, raced>>
        /\ t \notin dirs /\ \A q \in Procs : t # victim[q]
    BY <1>23 DEF MakeTmp, Go
  <2>2. \A d \in Dirs : d # t => content'[d] = content[d]
    BY <2>1, <1>a DEF TypeOK
  <2>3. Whole'
    BY <2>1, <2>2 DEF IInv, Whole
  <2>4. Building(p)'
    <3>1. files'[p] = Files
      BY <2>1, <1>a DEF Held, Building, TypeOK
    <3>2. QED BY <2>1, <3>1, <1>a DEF Building, TypeOK
  <2>5. Cleaning(p)' BY <2>1, <1>a DEF Cleaning, TypeOK
  <2>6. ASSUME NEW q \in Procs \ {p} PROVE Building(q)' /\ Cleaning(q)'
    <3>1. Same(q) BY <2>1, <1>a DEF Same, TypeOK
    <3>2. pc[q] = "fill" => content'[tmp[q]] = content[tmp[q]]
      BY <2>1, <2>2, <1>a DEF Filling, TypeOK
    <3>3. pc[q] = "delete" => content'[victim[q]] = content[victim[q]]
      BY <2>1, <2>2, <1>a DEF TypeOK
    <3>4. QED BY <2>1, <1>a, <3>1, <3>2, <3>3, Elsewhere
  <2>7. QED BY <2>3, <2>4, <2>5, <2>6
<1>24. ASSUME NEW p \in Procs, NEW f \in Files, FillTmp(p, f) PROVE Goal
  <2>1. /\ pc[p] = "fill" /\ tmp[p] \in Temps /\ key[p] \in Keys
        /\ content' = [content EXCEPT ![tmp[p]] = [@ EXCEPT ![f] = dir[p][f]]]
        /\ files' = [files EXCEPT ![p] = @ \ {f}]
        /\ UNCHANGED <<dirs, torn, dir, tmp, key, victim, lost, pc, raced>>
    BY <1>24, <1>a DEF FillTmp, TypeOK
  <2>2. \A d \in Dirs : d # tmp[p] => content'[d] = content[d]
    BY <2>1, <1>a DEF TypeOK
  <2>3. Whole'
    BY <2>1, <2>2 DEF IInv, Whole
  <2>4. Building(p)'
    <3>1. content'[tmp[p]] = [content[tmp[p]] EXCEPT ![f] = dir[p][f]] /\ files'[p] = files[p] \ {f}
      BY <2>1, <1>a DEF TypeOK
    <3>2. \A g \in Files : g \notin files'[p] => content'[tmp[p]][g] = key[p]
      BY <2>1, <3>1, <1>a DEF Building, TypeOK, Content
    <3>3. QED BY <2>1, <3>2, <1>a DEF Building
  <2>5. Cleaning(p)' BY <2>1, <1>a DEF Cleaning
  <2>6. ASSUME NEW q \in Procs \ {p} PROVE Building(q)' /\ Cleaning(q)'
    <3>1. Same(q) BY <2>1, <1>a DEF Same, TypeOK
    <3>2. pc[q] = "fill" => content'[tmp[q]] = content[tmp[q]]
      BY <2>1, <2>2, <1>a DEF Filling, TypeOK
    <3>3. pc[q] = "delete" => content'[victim[q]] = content[victim[q]]
      BY <2>1, <2>2, <1>a DEF Filling, TypeOK
    <3>4. QED BY <2>1, <1>a, <3>1, <3>2, <3>3, Elsewhere
  <2>7. QED BY <2>3, <2>4, <2>5, <2>6
<1>25. ASSUME NEW p \in Procs, Rename(p) \/ RenameConflict(p) PROVE Goal
  <2> DEFINE gone == IF Rename(p) THEN {key[p], tmp[p]} ELSE {tmp[p]}
  <2>1. /\ pc[p] = "fill" /\ pc' = [pc EXCEPT ![p] = "done"] /\ files[p] = {}
        /\ tmp[p] \in Temps /\ key[p] \in Keys
        /\ tmp' = [tmp EXCEPT ![p] = None] /\ UNCHANGED <<dir, key, files, victim>>
    BY <1>25, <1>a DEF Rename, RenameConflict, Go, Leave, TypeOK
  <2>2. \A f \in Files : content[tmp[p]][f] = key[p] /\ dir[p][f] = key[p]
    BY <2>1, <1>a DEF Building
  <2>3. Touches(p, gone) /\ Orphans(p, gone)
    BY <1>25, Zenon DEF Rename, RenameConflict
  <2>a. ASSUME NEW d \in Dirs, d \notin gone
        PROVE  /\ content'[d] = content[d]
               /\ d \in dirs' <=> d \in dirs
               /\ d \in torn' <=> d \in torn
    <3>1. CASE Rename(p)
      BY <3>1, <2>1, <2>a, <1>a DEF Rename, TypeOK
    <3>2. CASE ~Rename(p) /\ RenameConflict(p)
      BY <3>2, <2>1, <2>a, <1>a DEF RenameConflict, TypeOK
    <3>3. QED BY <1>25, <3>1, <3>2
  <2> HIDE DEF gone
  <2>4. \A q \in Procs \ {p} : /\ raced[q] => raced'[q]
                               /\ victim[q] \in gone => raced'[q]
                               /\ pc[q] \in {"list", "copy"} /\ key[q] \in gone => raced'[q]
    BY <2>3, Racing, Zenon
  <2>5. lost' = lost \cup {q \in Procs \ {p} : pc[q] = "delete" /\ victim[q] \in gone}
    BY <2>3, Zenon DEF Orphans
  <2>6. Whole'
    <3>1. CASE Rename(p)
      <4>1. \A k \in Keys : content'[k] = IF k = key[p] THEN content[tmp[p]] ELSE content[k]
        BY <3>1, <2>1, <1>a DEF Rename, TypeOK
      <4>2. dirs' \cap Keys = (dirs \cap Keys) \cup {key[p]} /\ torn' = torn \ {key[p]}
        BY <3>1, <2>1, <1>a DEF Rename, TypeOK
      <4>3. QED BY <4>1, <4>2, <2>2 DEF IInv, Whole
    <3>2. CASE RenameConflict(p)
      <4>1. dirs' \subseteq dirs /\ torn' = torn /\ \A k \in Keys : content'[k] = content[k]
        BY <3>2, <2>1, <1>a DEF RenameConflict, TypeOK
      <4>2. QED BY <4>1 DEF IInv, Whole
    <3>3. QED BY <1>25, <3>1, <3>2
  <2>7. Building(p)' BY <2>1, <2>2, <1>a DEF Building, TypeOK
  <2>8. Cleaning(p)' BY <2>1, <2>5, <1>a DEF Cleaning, TypeOK
  <2>9. ASSUME NEW q \in Procs \ {p} PROVE Building(q)' /\ Cleaning(q)'
    <3>1. Same(q) BY <2>1, <1>a DEF Same, TypeOK
    <3>2. raced[q] => raced'[q] BY <2>4, Zenon
    <3>3. q \in lost' => q \in lost \/ (pc[q] = "delete" /\ raced'[q])
      <4>1. q \in lost' => q \in lost \/ (pc[q] = "delete" /\ victim[q] \in gone)
        BY <2>5
      <4>2. QED BY <4>1, <2>4, Zenon
    <3>4. pc[q] \in {"list", "copy"} /\ ~raced'[q] /\ key[q] \in dirs \ torn
            => key[q] \in dirs' \ torn'
      <4>1. pc[q] \in {"list", "copy"} /\ ~raced'[q] => key[q] \notin gone
        BY <2>4, Zenon
      <4>2. pc[q] \in {"list", "copy"} => key[q] \in Dirs
        BY <1>a DEF TypeOK
      <4>3. QED BY <4>1, <4>2, <2>a
    <3>5. pc[q] = "fill" => content'[tmp[q]] = content[tmp[q]]
      <4>1. pc[q] = "fill" => tmp[q] \in Temps /\ tmp[q] # tmp[p]
        BY <2>1, <1>a DEF Filling, TypeOK
      <4>2. gone \subseteq {key[p], tmp[p]}
        BY DEF gone
      <4>3. QED BY <4>1, <4>2, <2>1, <2>a
    <3>6. victim[q] \in Dirs /\ ~raced'[q] => /\ content'[victim[q]] = content[victim[q]]
                                              /\ victim[q] \in dirs => victim[q] \in dirs'
      <4>1. ~raced'[q] => victim[q] \notin gone
        BY <2>4, Zenon
      <4>2. QED BY <4>1, <2>a
    <3>7. pc[q] \in {"stat", "remove", "delete"} => victim[q] \in Dirs
      BY <1>a DEF TypeOK
    <3>8. QED BY <1>a, <3>1, <3>2, <3>3, <3>4, <3>5, <3>6, <3>7, Elsewhere
  <2>10. QED BY <2>6, <2>7, <2>8, <2>9
<1>26. ASSUME NEW d \in Dirs, RetentionEnds(d) PROVE Goal
  BY <1>26, <1>a DEF RetentionEnds, IInv, Whole, Building, Cleaning
<1>27. CASE CleanupDue \/ UNCHANGED vars
  BY <1>27, <1>a DEF CleanupDue, vars, IInv, Whole, Building, Cleaning
<1>28. QED
  BY <1>1, <1>2, <1>3, <1>4, <1>5, <1>6, <1>7, <1>8, <1>9, <1>10, <1>11, <1>12, <1>13,
     <1>14, <1>15, <1>16, <1>17, <1>18, <1>19, <1>20, <1>21, <1>22, <1>23, <1>24, <1>25,
     <1>26, <1>27
     DEF Next, Step

----------------------------------------------------------------------------
(* The theorems.                                                           *)

\* The invariant that the theorems follow from.
LEMMA Invariance == Spec => []IInv
<1>1. IInv /\ [Next]_vars => IInv'
  BY TypeStep, OldStep, FillStep, BuildStep DEF IInv
<1>2. QED
  BY <1>1, InitIInv, PTL DEF Spec

\* Types, the marks of the processes among them: who cleans up has a victim, who
\* stores has a temporary directory, and who builds has sources.
THEOREM Typed == Spec => []TypeOK
<1>1. IInv => TypeOK
  BY DEF IInv
<1>2. QED
  BY <1>1, Invariance, PTL

\* A cleanup decides to evict only what was unused for the whole retention.
THEOREM EvictionsAreDue == Spec => EvictsUnusedOnly
<1> DEFINE Evicts == \A p \in Procs : pc[p] = "stat" /\ pc'[p] = "remove" =>
                                       victim[p] \notin used
<1>1. IInv /\ [Next]_vars => [Evicts]_vars
  <2> SUFFICES ASSUME IInv, Next, NEW q \in Procs, pc[q] = "stat", pc'[q] = "remove"
               PROVE  victim[q] \notin used
    BY Zenon
  <2> USE DEF disk, local
  <2>1. pc \in [Procs -> Steps]
    BY DEF IInv, TypeOK
  <2>2. ASSUME NEW p \in Procs, EvictDir(p) PROVE victim[q] \notin used
    <3>1. p = q
      BY <2>1, <2>2 DEF EvictDir, Go
    <3>2. QED BY <2>2, <3>1 DEF EvictDir, IInv, OldIsUnused
  <2>3. ASSUME NEW p \in Procs,
               \/ CheckAge(p) \/ Touch(p) \/ ScanDir(p) \/ KeepDir(p) \/ OpenVictim(p)
               \/ RemoveDir(p) \/ CleanupRaises(p) \/ CleanupDone(p)
               \/ \E d \in Dirs : NextDir(p, d)
               \/ \E f \in Files : DeleteFile(p, f)
        PROVE  FALSE
    BY <2>1, <2>3 DEF CheckAge, Touch, ScanDir, KeepDir, OpenVictim, RemoveDir,
                      CleanupRaises, CleanupDone, NextDir, DeleteFile, Go
  <2>4. ASSUME NEW p \in Procs,
               \/ Look(p) \/ List(p) \/ RetrieveRaises(p) \/ Hit(p) \/ Make(p)
               \/ MakeTmpFails(p) \/ Rename(p) \/ RenameConflict(p) \/ Return(p) \/ Crash(p)
               \/ \E t \in Temps : MakeTmp(p, t)
               \/ \E f \in Files : CopyFile(p, f) \/ FillTmp(p, f)
               \/ \E done \in SUBSET Files : MakeFails(p, done)
               \/ \E k \in Keys : Start(p, k)
        PROVE  FALSE
    BY <2>1, <2>4 DEF Look, List, RetrieveRaises, Hit, Make, MakeTmpFails, Rename,
                      RenameConflict, Return, Crash, MakeTmp, CopyFile, FillTmp, MakeFails,
                      Start, Go
  <2>5. ASSUME CleanupDue \/ \E d \in Dirs : RetentionEnds(d) PROVE FALSE
    BY <2>5 DEF CleanupDue, RetentionEnds
  <2>6. QED
    BY <2>2, <2>3, <2>4, <2>5 DEF Next, Step
<1>2. QED
  BY <1>1, Invariance, PTL DEF Spec, EvictsUnusedOnly

\* An entry of which no cleanup has deleted anything is whole, whichever processes
\* store and evict at the same time, and wherever they crash.
THEOREM WholeEntries == Spec => []EntriesAreWhole
<1>1. ASSUME IInv PROVE EntriesAreWhole
  <2> SUFFICES ASSUME NEW k \in (dirs \cap Keys) \ torn
               PROVE  content[k] = Built(k)
    BY DEF EntriesAreWhole
  <2>1. \A f \in Files : content[k][f] = k
    BY <1>1 DEF IInv, Whole
  <2>2. content[k] = [f \in Files |-> content[k][f]]
    BY <1>1 DEF IInv, TypeOK, Content
  <2>3. QED BY <2>1, <2>2 DEF Built
<1>2. QED
  BY <1>1, Invariance, PTL

\* A build that copies from an entry of which nothing was deleted, or that makes its
\* artifacts, ends with artifacts of its own sources.
THEOREM FittingArtifacts == Spec => []ArtifactsFit
<1>1. IInv => ArtifactsFit
  BY DEF IInv, TypeOK, Content, Building, ArtifactsFit, Built
<1>2. QED
  BY <1>1, Invariance, PTL

\* The cache makes a build fail only when another process touches the directory that
\* this one copies from or evicts.
THEOREM RaisesInRacesOnly == Spec => []CacheRaisesInRacesOnly
<1>1. IInv => CacheRaisesInRacesOnly
  BY DEF IInv, Building, CacheRaisesInRacesOnly
<1>2. QED
  BY <1>1, Invariance, PTL
=============================================================================
