---------------------------- MODULE StorageProofs ----------------------------
(* Of the files the program shares.  lists/ipset-all.txt, for any versions of the *)
(* author's list, shipped or not, and with or without failing writes: tests,      *)
(* crashes and the healing after them neither lose the list nor change it.        *)
(* state.json and zgui.lock, for any number of launches that race: one copy owns   *)
(* the program, and the file is never half a save.                                *)
EXTENDS IpsetList, Startup, TLAPS

\* What a mode asks for is a content, or nothing.
LEMMA SyncedKind ==
  ASSUME NEW m \in Modes, NEW v \in Versions \cup {NoFile}, NEW u \in BOOLEAN
  PROVE  Synced(m, v, u) \in Contents \cup {NoFile}
<1>1. Source(v) # NoFile => Source(v) \in Versions
  BY ListAssumption DEF Source, IsFile
<1>2. CASE m = "any"
  BY <1>2 DEF Synced, Contents
<1>3. CASE m = "none"
  BY <1>3 DEF Synced, Contents
<1>4. CASE m = "loaded"
  <2>1. CASE Source(v) = NoFile
    BY <1>4, <2>1 DEF Synced, IsFile
  <2>2. CASE Source(v) # NoFile
    <3>1. Loaded(Source(v), u) \in Contents
      BY <1>1, <2>2 DEF Contents
    <3> QED  BY <1>4, <2>2, <3>1 DEF Synced, IsFile
  <2> QED  BY <2>1, <2>2
<1> QED  BY <1>2, <1>3, <1>4 DEF Modes

\* sync_ipset leaves a content in the list.
LEMMA SyncType ==
  ASSUME ListsTypeOK, NEW m \in Modes, Sync(m)
  PROVE  live' \in Contents /\ base' \in Contents /\ late' \in BOOLEAN
<1>1. Synced(m, service, subnets) \in Contents \cup {NoFile}
  BY SyncedKind DEF ListsTypeOK
<1> QED  BY <1>1 DEF Sync, ListsTypeOK, IsFile, Lent

\* A copy over the list leaves a content, whether it comes to its end or not.
LEMMA Copied ==
  ASSUME ListsTypeOK, IsFile(backup), CopiesBack \/ CutShort
  PROVE  live' \in Contents /\ backup' \in Contents \cup {NoFile} /\ torn' \in BOOLEAN
<1>1. Empty \in Contents /\ Torn \in Contents
  BY DEF Contents
<1> QED  BY <1>1 DEF CopiesBack, CutShort, ListsTypeOK, IsFile

\* Healing moves a content from the backup to the list, or nothing.
LEMMA HealType ==
  ASSUME ListsTypeOK, Heal
  PROVE  live' \in Contents /\ backup' \in Contents \cup {NoFile} /\ torn' \in BOOLEAN
BY Copied DEF Heal, ListsTypeOK

\* The list starts out well-typed.
LEMMA ListsTypeInit == ListsInit => ListsTypeOK
<1> SUFFICES ASSUME ListsInit PROVE ListsTypeOK
  OBVIOUS
<1>1. Synced(mode, service, subnets) \in Contents \cup {NoFile} /\ Own \in Contents
  BY SyncedKind DEF ListsInit, Contents
<1> QED
  BY <1>1 DEF ListsInit, ListsTypeOK, LockInit, LockTypeOK

\* Every step of the list keeps the types.
LEMMA ListsTypeInductive ==
  ListsTypeOK /\ [ListsNext]_<<lockVars, listVars>> => ListsTypeOK'
<1> SUFFICES ASSUME ListsTypeOK, [ListsNext]_<<lockVars, listVars>>
             PROVE  ListsTypeOK'
  OBVIOUS
<1> USE DEF ListsTypeOK, LockTypeOK, lockVars
<1>e. Empty \in Contents /\ Torn \in Contents
  BY DEF Contents
<1>0. CASE UNCHANGED <<lockVars, listVars>>
  BY <1>0 DEF listVars
<1>1. CASE TestBegins
  BY <1>1 DEF TestBegins, TakesOps, Operations, Free
<1>2. CASE TestHeals
  BY <1>2, HealType DEF TestHeals
<1>3. CASE TestBacksUp
  BY <1>3, <1>e DEF TestBacksUp
<1>4. CASE TestEmpties
  BY <1>4, <1>e DEF TestEmpties
<1>5. CASE TestRuns
  BY <1>5 DEF TestRuns
<1>6. CASE TestEnds
  BY <1>6, SyncType DEF TestEnds
<1>7. CASE TestRestores
  <2>1. live' \in Contents /\ backup' \in Contents \cup {NoFile} /\ torn' \in BOOLEAN
    BY <1>7, Copied DEF TestRestores
  <2> QED  BY <1>7, <2>1 DEF TestRestores, DropOps
<1>8. ASSUME NEW m \in Modes, SetMode(m) PROVE ListsTypeOK'
  BY <1>8 DEF SetMode
<1>9. CASE ApplyMode
  BY <1>9, SyncType DEF ApplyMode
<1>10. CASE EditSubnets
  BY <1>10 DEF EditSubnets
<1>11. CASE ListsStart
  BY <1>11, SyncType DEF ListsStart, LockStarts
<1>12. CASE HealAtStart
  BY <1>12, HealType DEF HealAtStart
<1>13. CASE ListsDie
  <2>1. Copying => IsFile(backup)
    BY DEF Copying
  <2>2. CASE Copying /\ CutShort
    <3>1. live' \in Contents /\ backup' \in Contents \cup {NoFile} /\ torn' \in BOOLEAN
      BY <2>2, <1>e DEF CutShort
    <3> QED  BY <1>13, <3>1 DEF ListsDie, LockDies
  <2>3. CASE Copying /\ live' = backup /\ UNCHANGED <<backup, torn>>
    <3>1. backup \in Contents
      BY <2>1, <2>3 DEF IsFile
    <3> QED  BY <1>13, <2>3, <3>1 DEF ListsDie, LockDies
  <2>4. CASE UNCHANGED <<live, backup, torn>>
    BY <1>13, <2>4 DEF ListsDie, LockDies
  <2>5. CASE backup' \in {live, Torn} /\ UNCHANGED <<live, torn>>
    BY <1>13, <2>5, <1>e DEF ListsDie, LockDies
  <2> QED  BY <1>13, <2>2, <2>3, <2>4, <2>5 DEF ListsDie
<1> QED
  BY <1>0, <1>1, <1>2, <1>3, <1>4, <1>5, <1>6, <1>7, <1>8, <1>9, <1>10, <1>11, <1>12, <1>13
  DEF ListsNext, TestSteps, SettingsSteps

\* The list, its backup and the operations about them keep their types.
THEOREM ListsTypeCorrect == ListsSpec => []ListsTypeOK
BY ListsTypeInit, ListsTypeInductive, PTL DEF ListsSpec

----------------------------------------------------------------------------
(* The content owed.  As long as nothing was put into the list while a test had   *)
(* it, what is owed is in the list, or the list is empty and it is in the backup; *)
(* a backup that could be copied over the list is what is owed.                   *)

Kept ==
  /\ live = base \/ (live = Empty /\ backup = base /\ ~Blank(base))
  /\ IsFile(backup) /\ Blank(live) => backup = base
  /\ armed => backup \in {base, NoFile}
  /\ tpc = "empty" => live = base /\ backup = base /\ ~Blank(base)

\* Where the test is, when its guard is armed; a process that is not there
\* carries on nothing.
Placed ==
  /\ armed => tpc \in {"prepare", "run", "restore"}
  /\ ~up => tpc = "idle" /\ ~healing

KeptInv == Placed /\ (late \/ torn \/ Kept)

\* The list is given back by every step that keeps the invariant.
LEMMA KeptImplies == KeptInv => ListKept /\ ListRestored
BY DEF KeptInv, Kept, ListKept, ListRestored, Lent, IsFile, Blank

\* sync_ipset puts its content where it is owed, or makes the list late.
LEMMA SyncKeeps ==
  ASSUME KeptInv, Sync(mode), UNCHANGED <<backup, armed, torn>>,
         tpc' \in {tpc, "restore"}
  PROVE  late' \/ torn' \/ Kept'
<1>1. CASE UNCHANGED <<live, base, late>>
  BY <1>1 DEF KeptInv, Kept, IsFile, Blank
<1>2. CASE ~UNCHANGED <<live, base, late>>
  <2> DEFINE w == Synced(mode, service, subnets)
  <2>1. live' = w /\ base' = w /\ late' = (Lent /\ (late \/ base # w)) /\ IsFile(w)
    BY <1>2 DEF Sync
  <2> HIDE DEF w
  <2>2. CASE ~Lent
    BY <2>1, <2>2 DEF KeptInv, Placed, Kept, Lent, IsFile, Blank
  <2>3. CASE Lent /\ ~late /\ base = w
    BY <2>1, <2>3 DEF KeptInv, Kept, IsFile, Blank
  <2> QED  BY <2>1, <2>2, <2>3
<1> QED  BY <1>1, <1>2

\* A copy of what is owed over the list keeps it, in the list or in the backup.
LEMMA CopyKeeps ==
  ASSUME Kept, IsFile(backup), backup = base, CopiesBack \/ CutShort, UNCHANGED <<base, late>>,
         armed' => armed /\ backup' = backup, tpc' # "empty"
  PROVE  torn' \/ Kept'
BY DEF Kept, CopiesBack, CutShort, IsFile, Blank

\* Healing gives back what is owed.
LEMMA HealKeeps ==
  ASSUME KeptInv, Heal, UNCHANGED <<base, late, armed>>,
         tpc # "empty", tpc' \in {tpc, "read"}, ~armed
  PROVE  late' \/ torn' \/ Kept'
<1>1. torn => torn'
  BY DEF Heal, CopiesBack, CutShort
<1>2. CASE Kept /\ IsFile(backup) /\ Blank(live)
  BY <1>2, CopyKeeps DEF Heal, Kept
<1>3. CASE Kept /\ ~(IsFile(backup) /\ Blank(live))
  BY <1>3 DEF Heal, Kept, IsFile, Blank
<1> QED  BY <1>1, <1>2, <1>3 DEF KeptInv

\* Every step of the list keeps the invariant.
LEMMA KeptStep ==
  ASSUME KeptInv, [ListsNext]_<<lockVars, listVars>>
  PROVE  KeptInv'
<1> USE DEF KeptInv, Placed
<1>0. CASE UNCHANGED <<lockVars, listVars>>
  BY <1>0 DEF lockVars, listVars, Kept, Blank, IsFile
<1>1. CASE TestBegins
  BY <1>1 DEF TestBegins, TakesOps, Kept, Blank, IsFile
<1>2. CASE TestHeals
  <2>1. late' \/ torn' \/ Kept'
    BY <1>2, HealKeeps DEF TestHeals
  <2> QED  BY <1>2, <2>1 DEF TestHeals, lockVars
<1>3. CASE TestBacksUp
  BY <1>3 DEF TestBacksUp, lockVars, Kept, Blank, IsFile
<1>4. CASE TestEmpties
  BY <1>4 DEF TestEmpties, lockVars, Kept, Blank, IsFile
<1>5. CASE TestRuns
  BY <1>5 DEF TestRuns, lockVars, Kept, Blank, IsFile
<1>6. CASE TestEnds
  <2>1. CASE Sync(mode)
    <3>1. late' \/ torn' \/ Kept'
      BY <1>6, <2>1, SyncKeeps DEF TestEnds
    <3> QED  BY <1>6, <3>1 DEF TestEnds, lockVars
  <2>2. CASE UNCHANGED <<live, base, late>>
    BY <1>6, <2>2 DEF TestEnds, lockVars, Kept, Blank, IsFile
  <2> QED  BY <1>6, <2>1, <2>2 DEF TestEnds
<1>7. CASE TestRestores
  <2>1. Placed' /\ UNCHANGED <<base, late>> /\ ~armed' /\ tpc' = "idle" /\ (torn => torn')
    BY <1>7 DEF TestRestores, DropOps, CopiesBack, CutShort
  <2>2. CASE Kept /\ armed /\ IsFile(backup)
    BY <1>7, <2>1, <2>2, CopyKeeps DEF TestRestores, Kept, IsFile
  <2>3. CASE Kept /\ ~(armed /\ IsFile(backup))
    BY <1>7, <2>1, <2>3 DEF TestRestores, Kept, IsFile, Blank
  <2> QED  BY <2>1, <2>2, <2>3
<1>8. ASSUME NEW m \in Modes, SetMode(m) PROVE KeptInv'
  BY <1>8 DEF SetMode, lockVars, Kept, Blank, IsFile
<1>9. CASE ApplyMode
  <2>1. CASE Sync(mode)
    <3>1. late' \/ torn' \/ Kept'
      BY <1>9, <2>1, SyncKeeps DEF ApplyMode
    <3> QED  BY <1>9, <3>1 DEF ApplyMode, lockVars
  <2>2. CASE UNCHANGED <<live, base, late>>
    BY <1>9, <2>2 DEF ApplyMode, lockVars, Kept, Blank, IsFile
  <2> QED  BY <1>9, <2>1, <2>2 DEF ApplyMode
<1>10. CASE EditSubnets
  BY <1>10 DEF EditSubnets, lockVars, Kept, Blank, IsFile
<1>11. CASE ListsStart
  <2>1. late' \/ torn' \/ Kept'
    BY <1>11, SyncKeeps DEF ListsStart
  <2> QED  BY <1>11, <2>1 DEF ListsStart, LockStarts
<1>12. CASE HealAtStart
  <2>1. CASE tpc # "empty" /\ ~armed
    <3>1. late' \/ torn' \/ Kept'
      BY <1>12, <2>1, HealKeeps DEF HealAtStart
    <3> QED  BY <1>12, <3>1 DEF HealAtStart, lockVars
  <2>2. CASE tpc = "empty" \/ armed
    <3>1. Placed' /\ UNCHANGED <<base, late, armed, tpc>> /\ (torn => torn')
      BY <1>12 DEF HealAtStart, Heal, CopiesBack, CutShort, lockVars
    <3>2. CASE Kept /\ ~(IsFile(backup) /\ Blank(live))
      BY <1>12, <3>1, <3>2 DEF HealAtStart, Heal, Kept, IsFile, Blank
    <3>3. CASE Kept /\ IsFile(backup) /\ Blank(live)
      <4>1. tpc # "empty" /\ backup = base
        BY <3>3 DEF Kept, IsFile, Blank
      <4>2. CopiesBack /\ backup' \in {backup, NoFile}
        BY <1>12, <3>3 DEF HealAtStart, Heal, CopiesBack, CutShort
      <4> QED  BY <3>1, <3>3, <4>1, <4>2 DEF CopiesBack, CutShort, Kept, IsFile, Blank
    <3> QED  BY <3>1, <3>2, <3>3
  <2> QED  BY <2>1, <2>2
<1>13. CASE ListsDie
  <2>1. Placed'
    BY <1>13 DEF ListsDie, LockDies
  <2>2. /\ UNCHANGED <<base, late>> /\ ~armed' /\ tpc' = "idle"
    BY <1>13 DEF ListsDie
  <2>3. CASE UNCHANGED <<live, backup, torn>>
    BY <2>1, <2>2, <2>3 DEF Kept, Blank, IsFile
  <2>4. CASE Copying /\ (CutShort \/ (live' = backup /\ UNCHANGED <<backup, torn>>))
    <3>1. IsFile(backup) /\ (torn => torn')
      BY <2>4 DEF Copying, CutShort
    <3>2. Kept => backup = base
      BY <2>4, <3>1 DEF Copying, Kept, IsFile
    <3>3. Kept => torn' \/ Kept'
      BY <2>2, <2>4, <3>1, <3>2 DEF CutShort, Kept, IsFile, Blank
    <3> QED  BY <2>1, <2>2, <3>1, <3>3
  <2>5. CASE tpc = "read" /\ ~Blank(live) /\ backup' \in {live, Torn} /\ UNCHANGED <<live, torn>>
    BY <2>1, <2>2, <2>5 DEF Kept, Blank, IsFile
  <2> QED  BY <1>13, <2>3, <2>4, <2>5 DEF ListsDie
<1> QED
  BY <1>0, <1>1, <1>2, <1>3, <1>4, <1>5, <1>6, <1>7, <1>8, <1>9, <1>10, <1>11, <1>12, <1>13
  DEF ListsNext, TestSteps, SettingsSteps

\* The invariant holds of every behaviour of the list.
LEMMA KeptHolds == ListsSpec => []KeptInv
<1>1. ListsInit => KeptInv
  BY DEF ListsInit, LockInit, KeptInv, Placed, Kept, IsFile, Blank
<1> QED  BY <1>1, KeptStep, PTL DEF ListsSpec

\* A test, a failed write or a crash never costs the user the list.
THEOREM ListKeptHolds == ListsSpec => []ListKept
<1>1. KeptInv => ListKept
  BY KeptImplies
<1> QED  BY <1>1, KeptHolds, PTL

\* With nothing under way the list is what sync_ipset last made it.
THEOREM ListRestoredHolds == ListsSpec => []ListRestored
<1>1. KeptInv => ListRestored
  BY KeptImplies
<1> QED  BY <1>1, KeptHolds, PTL

----------------------------------------------------------------------------
(* Launches that race.                                                          *)

\* Before any launch every process is well-typed.
LEMMA StartupTypeInit == StartupInit => StartupTypeOK
BY StartupAssumption DEF StartupInit, StartupTypeOK, Stages

\* Every step of a launch keeps the types.
LEMMA StartupTypeInductive ==
  StartupTypeOK /\ [StartupNext]_startVars => StartupTypeOK'
<1> USE DEF Ending, Forgets, Made, Step, Alive, others
<1> SUFFICES ASSUME StartupTypeOK, [StartupNext]_startVars
             PROVE  StartupTypeOK'
  OBVIOUS
<1>1. CASE UNCHANGED startVars
  BY <1>1 DEF StartupTypeOK, startVars
<1>2. ASSUME NEW p \in Process, StartupStep(p)
      PROVE  StartupTypeOK'
  <2> USE DEF StartupTypeOK, Stages
  <2>1. CASE Launch(p)
    BY <2>1 DEF Launch
  <2>2. CASE Load(p)
    <3>1. Default \in Values
      BY StartupAssumption
    <3>2. UNCHANGED others /\ UNCHANGED <<file, lock>> /\ pc' \in [Process -> Stages]
      BY <2>2 DEF Load
    <3>3. writing' \in [Process -> {"no", "made", "written"}]
          /\ tmp' \in [Process -> Values \cup {Half, Missing}]
      BY <2>2 DEF Load
    <3>4. \E v \in Values, b \in BOOLEAN :
            mem' = [mem EXCEPT ![p] = v] /\ unread' = [unread EXCEPT ![p] = b]
      <4>1. CASE file \in Values /\ mem' = [mem EXCEPT ![p] = file]
                   /\ unread' = [unread EXCEPT ![p] = FALSE]
        BY <4>1
      <4>2. CASE mem' = [mem EXCEPT ![p] = Default] /\ unread' = [unread EXCEPT ![p] = FALSE]
        BY <4>2, <3>1
      <4>3. CASE mem' = [mem EXCEPT ![p] = Default] /\ unread' = [unread EXCEPT ![p] = TRUE]
        BY <4>3, <3>1
      <4> QED  BY <2>2, <4>1, <4>2, <4>3 DEF Load
    <3>5. mem' \in [Process -> Values] /\ unread' \in [Process -> BOOLEAN]
      BY <3>4
    <3> QED
      BY <3>2, <3>3, <3>5
  <2>3. CASE CardSynced(p)
    BY <2>3 DEF CardSynced
  <2>4. CASE Relaunches(p)
    <3>1. Admin \subseteq Process
      BY StartupAssumption
    <3> QED
      BY <2>4, <3>1 DEF Relaunches
  <2>5. CASE LooksAtLock(p)
    BY <2>5 DEF LooksAtLock
  <2>6. CASE ListsOthers(p)
    BY <2>6 DEF ListsOthers
  <2>7. CASE ClaimsLock(p)
    BY <2>7 DEF ClaimsLock
  <2>8. CASE WritesLock(p)
    BY <2>8 DEF WritesLock
  <2>9. CASE Settles(p)
    BY <2>9 DEF Settles
  <2>10. ASSUME NEW q \in Process, KillsOther(p, q)
         PROVE  StartupTypeOK'
    BY <2>10 DEF KillsOther
  <2>11. CASE SaveBegins(p)
    BY <2>11 DEF SaveBegins
  <2>12. CASE SaveWrites(p)
    BY <2>12 DEF SaveWrites
  <2>13. CASE SaveRenames(p)
    <3>1. tmp[p] \in Values \cup {Half, Missing}
      OBVIOUS
    <3> QED
      BY <2>13, <3>1 DEF SaveRenames
  <2>14. CASE SaveFails(p)
    BY <2>14 DEF SaveFails
  <2>15. CASE ChangesSetting(p)
    BY <2>15 DEF ChangesSetting
  <2>16. CASE Quits(p)
    BY <2>16 DEF Quits
  <2>17. CASE Dies(p)
    BY <2>17 DEF Dies
  <2> QED
    BY <1>2, <2>1, <2>2, <2>3, <2>4, <2>5, <2>6, <2>7, <2>8, <2>9, <2>10, <2>11,
       <2>12, <2>13, <2>14, <2>15, <2>16, <2>17 DEF StartupStep
<1> QED
  BY <1>1, <1>2 DEF StartupNext

\* The state of every process keeps its type through every step of a launch.
THEOREM StartupTypeCorrect == StartupSpec => []StartupTypeOK
BY StartupTypeInit, StartupTypeInductive, PTL DEF StartupSpec

----------------------------------------------------------------------------
(* One copy.  Two processes past the listing of the others: the later one has    *)
(* listed the earlier, or spared it, and goes on only once its list is empty.     *)

Past(p) == pc[p] \in {"kill", "own", "settle", "run"}

Seen == \A p, q \in Process : p # q /\ Past(p) /\ Past(q)
                                => p \in victims[q] \cup spared[q] \/ q \in victims[p] \cup spared[p]
Emptied == \A p \in Process : Owns(p) => victims[p] = {}

OneInv == StartupTypeOK /\ Seen /\ Emptied

\* Two owners, neither of which spared the other, would have to be on an empty list.
LEMMA OneInvImplies == OneInv => OneInstance
<1> SUFFICES ASSUME OneInv, NEW p \in Process, NEW q \in Process, Owns(p), Owns(q), p # q
             PROVE  p \in spared[q] \/ q \in spared[p]
  BY DEF OneInstance
<1>1. Past(p) /\ Past(q)
  BY DEF Owns, Past
<1>2. victims[p] = {} /\ victims[q] = {}
  BY DEF OneInv, Emptied
<1> QED
  BY <1>1, <1>2 DEF OneInv, Seen

\* A step that leaves the lists alone, forgets only who is not past the listing, and
\* brings nobody past the listing who was not, nor anybody to owning the program,
\* keeps both parts.
LEMMA StaysSeen ==
  ASSUME Seen, Emptied, victims' = victims,
         \A q \in Process : Past(q)' => Past(q),
         \A q \in Process : Owns(q)' => Owns(q),
         \A q, r \in Process : Past(q)' /\ Past(r)' /\ r \in spared[q] => r \in spared'[q]
  PROVE  Seen' /\ Emptied'
BY DEF Seen, Emptied

\* Every step of a launch keeps both parts: only the listing brings a process past
\* it, and only an ended list lets it go on.
LEMMA OneStep ==
  ASSUME OneInv, NEW p \in Process, StartupStep(p)
  PROVE  Seen' /\ Emptied'
<1> USE DEF OneInv, Ending, Forgets, Made, Step, Alive, others
<1>t. pc \in [Process -> Stages] /\ victims \in [Process -> SUBSET Process]
      /\ spared \in [Process -> SUBSET Process]
  BY DEF StartupTypeOK
<1> DEFINE Keeps == /\ victims' = victims
                    /\ \A q \in Process : Past(q)' => Past(q)
                    /\ \A q \in Process : Owns(q)' => Owns(q)
                    /\ \A q, r \in Process :
                         Past(q)' /\ Past(r)' /\ r \in spared[q] => r \in spared'[q]
<1>k. Keeps => Seen' /\ Emptied'
  BY StaysSeen
<1> HIDE DEF Keeps
<1>1. CASE Launch(p)
  <2>1. Keeps
    BY <1>1, <1>t DEF Keeps, Launch, Past, Owns
  <2> QED  BY <2>1, <1>k
<1>2. CASE Load(p)
  <2>1. Keeps
    BY <1>2, <1>t DEF Keeps, Load, Past, Owns
  <2> QED  BY <2>1, <1>k
<1>3. CASE CardSynced(p)
  <2>1. Keeps
    BY <1>3, <1>t DEF Keeps, CardSynced, Past, Owns
  <2> QED  BY <2>1, <1>k
<1>4. CASE Relaunches(p)
  <2>1. Keeps
    BY <1>4, <1>t, StartupAssumption DEF Keeps, Relaunches, Past, Owns
  <2> QED  BY <2>1, <1>k
<1>5. CASE LooksAtLock(p)
  <2>1. Keeps
    BY <1>5, <1>t DEF Keeps, LooksAtLock, Past, Owns
  <2> QED  BY <2>1, <1>k
<1>6. CASE ListsOthers(p)
  <2>1. \A q \in Process \ {p} : pc[q] # "off" => q \in victims'[p] \cup spared'[p]
    BY <1>6, <1>t DEF ListsOthers
  <2>2. \A q \in Process \ {p} : (Past(q)' <=> Past(q)) /\ (Owns(q)' <=> Owns(q))
    BY <1>6, <1>t DEF ListsOthers, Past, Owns
  <2>3. ~Owns(p)'
    BY <1>6, <1>t DEF ListsOthers, Owns
  <2>4. \A q \in Process \ {p} : Past(q) => q \in victims'[p] \cup spared'[p]
    BY <2>1 DEF Past
  <2>5. \A q \in Process \ {p} : victims'[q] = victims[q] /\ spared'[q] = spared[q]
    BY <1>6, <1>t DEF ListsOthers
  <2>6. Seen'
    BY <2>2, <2>4, <2>5 DEF Seen
  <2>7. Emptied'
    BY <2>2, <2>3, <2>5 DEF Emptied
  <2> QED  BY <2>6, <2>7
<1>7. CASE ClaimsLock(p)
  <2>1. \A q \in Process : Past(q)' <=> Past(q)
    BY <1>7, <1>t DEF ClaimsLock, Past
  <2>2. \A q \in Process \ {p} : Owns(q)' <=> Owns(q)
    BY <1>7, <1>t DEF ClaimsLock, Owns
  <2>3. victims' = victims /\ spared' = spared /\ victims[p] = {}
    BY <1>7 DEF ClaimsLock
  <2> QED
    BY <2>1, <2>2, <2>3 DEF Seen, Emptied
<1>8. CASE WritesLock(p)
  <2>1. Keeps
    BY <1>8, <1>t DEF Keeps, WritesLock, Past, Owns
  <2> QED  BY <2>1, <1>k
<1>9. CASE Settles(p)
  <2>1. Keeps
    BY <1>9, <1>t DEF Keeps, Settles, Past, Owns
  <2> QED  BY <2>1, <1>k
<1>10. ASSUME NEW r \in Process, KillsOther(p, r)
       PROVE  Seen' /\ Emptied'
  <2>1. \A q \in Process : (Past(q)' => Past(q)) /\ (Owns(q)' => Owns(q))
    BY <1>10, <1>t DEF KillsOther, Past, Owns
  <2>2. \A q \in Process : victims'[q] \subseteq victims[q]
    BY <1>10, <1>t DEF KillsOther
  <2>3. ASSUME NEW q \in Process, Past(q)', NEW s \in Process, Past(s)',
               s \in victims[q] \cup spared[q]
        PROVE  s \in victims'[q] \cup spared'[q]
    BY <1>10, <1>t, <2>3 DEF KillsOther, Past
  <2>4. Seen'
    BY <2>1, <2>3 DEF Seen
  <2>5. Emptied'
    BY <2>1, <2>2 DEF Emptied
  <2> QED  BY <2>4, <2>5
<1>11. CASE SaveBegins(p)
  <2>1. Keeps
    BY <1>11 DEF Keeps, SaveBegins, Past, Owns
  <2> QED  BY <2>1, <1>k
<1>12. CASE SaveWrites(p) \/ SaveRenames(p) \/ SaveFails(p)
  <2>1. Keeps
    BY <1>12 DEF Keeps, SaveWrites, SaveRenames, SaveFails, Past, Owns
  <2> QED  BY <2>1, <1>k
<1>13. CASE ChangesSetting(p)
  <2>1. Keeps
    BY <1>13 DEF Keeps, ChangesSetting, Past, Owns
  <2> QED  BY <2>1, <1>k
<1>14. CASE Quits(p)
  <2>1. Keeps
    BY <1>14, <1>t DEF Keeps, Quits, Past, Owns
  <2> QED  BY <2>1, <1>k
<1>15. CASE Dies(p)
  <2>1. Keeps
    BY <1>15, <1>t DEF Keeps, Dies, Past, Owns
  <2> QED  BY <2>1, <1>k
<1> QED
  BY <1>1, <1>2, <1>3, <1>4, <1>5, <1>6, <1>7, <1>8, <1>9, <1>10, <1>11, <1>12,
     <1>13, <1>14, <1>15 DEF StartupStep

\* However many launches race, of the copies that go on past close_other_instances
\* one has spared the other, because a list or a kill failed (lib.rs run).
THEOREM OneInstanceHolds == StartupSpec => []OneInstance
<1>1. StartupInit => Seen /\ Emptied
  BY DEF StartupInit, Seen, Emptied, Past, Owns
<1>2. StartupTypeOK /\ Seen /\ Emptied /\ [StartupNext]_startVars => (Seen /\ Emptied)'
  <2> SUFFICES ASSUME OneInv, [StartupNext]_startVars
               PROVE  Seen' /\ Emptied'
    BY DEF OneInv
  <2>1. CASE UNCHANGED startVars
    BY <2>1 DEF OneInv, Seen, Emptied, Past, Owns, startVars, others
  <2>2. CASE StartupNext
    BY <2>2, OneStep DEF StartupNext
  <2> QED  BY <2>1, <2>2
<1>3. StartupTypeOK /\ Seen /\ Emptied => OneInstance
  BY OneInvImplies DEF OneInv
<1> QED
  BY <1>1, <1>2, <1>3, StartupTypeCorrect, PTL DEF StartupSpec

----------------------------------------------------------------------------
(* The file.  What is renamed over state.json is a temporary file of the process *)
(* itself, and is whole by then: nobody else writes under its name.              *)

TmpWhole == \A p \in Process : writing[p] = "written" => tmp[p] \in Values

\* state.json holds a whole state or what was there before the first save, and
\* never half of one (atomic_write).
THEOREM FileWholeHolds == StartupSpec => []FileWhole
<1> USE DEF Ending, Forgets, Made, Step, Alive, others
<1>1. StartupInit => TmpWhole /\ FileWhole
  BY StartupAssumption DEF StartupInit, TmpWhole, FileWhole
<1>2. StartupTypeOK /\ TmpWhole /\ FileWhole /\ [StartupNext]_startVars
        => (TmpWhole /\ FileWhole)'
  <2> SUFFICES ASSUME StartupTypeOK, TmpWhole, FileWhole, [StartupNext]_startVars
               PROVE  TmpWhole' /\ FileWhole'
    OBVIOUS
  <2>1. CASE UNCHANGED startVars
    BY <2>1 DEF TmpWhole, FileWhole, startVars
  <2>2. ASSUME NEW p \in Process, StartupStep(p)
        PROVE  TmpWhole' /\ FileWhole'
    <3>t. writing \in [Process -> {"no", "made", "written"}] /\ mem \in [Process -> Values]
          /\ tmp \in [Process -> Values \cup {Half, Missing}]
      BY DEF StartupTypeOK
    <3>1. CASE Load(p) \/ SaveBegins(p) \/ Settles(p) \/ ChangesSetting(p)
      BY <3>1, <3>t DEF Load, SaveBegins, Settles, ChangesSetting, TmpWhole, FileWhole
    <3>2. CASE SaveWrites(p)
      BY <3>2, <3>t DEF SaveWrites, TmpWhole, FileWhole
    <3>3. CASE SaveRenames(p)
      <4>1. tmp[p] \in Values
        BY <3>3 DEF SaveRenames, TmpWhole
      <4>2. FileWhole'
        BY <3>3, <4>1, StartupAssumption DEF SaveRenames, FileWhole
      <4> QED
        BY <3>3, <3>t, <4>2 DEF SaveRenames, TmpWhole
    <3>4. CASE SaveFails(p)
      BY <3>4, <3>t DEF SaveFails, TmpWhole, FileWhole
    <3>5. ASSUME NEW q \in Process, KillsOther(p, q)
          PROVE  TmpWhole' /\ FileWhole'
      BY <3>5, <3>t DEF KillsOther, TmpWhole, FileWhole
    <3>6. CASE Dies(p)
      BY <3>6, <3>t DEF Dies, TmpWhole, FileWhole
    <3>7. CASE Launch(p) \/ CardSynced(p) \/ Relaunches(p) \/ LooksAtLock(p) \/ ListsOthers(p)
               \/ ClaimsLock(p) \/ WritesLock(p) \/ Quits(p)
      BY <3>7 DEF Launch, CardSynced, Relaunches, LooksAtLock, ListsOthers, ClaimsLock,
                  WritesLock, Quits, TmpWhole, FileWhole
    <3> QED
      BY <2>2, <3>1, <3>2, <3>3, <3>4, <3>5, <3>6, <3>7 DEF StartupStep
  <2> QED
    BY <2>1, <2>2 DEF StartupNext
<1> QED
  BY <1>1, <1>2, StartupTypeCorrect, PTL DEF StartupSpec
=============================================================================
