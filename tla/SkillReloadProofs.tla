------------------------- MODULE SkillReloadProofs --------------------------
(***************************************************************************)
(* TypeOK, SkillsCurrent and NamesUnique hold in every behaviour of         *)
(* SkillReload, for any directories, documents, edits and notifications,   *)
(* and its loads implement HotReload.                                       *)
(***************************************************************************)
EXTENDS SkillReloadHistory, SequenceTheorems, TLAPS

\* A load in progress has found, of the directories it is done with, what is
\* on disk, unless an edit of one is missed or still to be heard of.
ReadInv ==
    pc = "read" /\ ~Pending =>
        \A d \in Dir \ (entries \cup missed) : found[d] = Loaded(d, file[d])

\* Once the skills were taken they stay current until an edit is missed or is
\* still to be heard of. SkillsCurrent is the case of an idle watcher.
SettledInv ==
    pc \in {"watch", "add", "idle"} /\ ~Pending /\ missed = {} => Current

Inv == TypeOK /\ ReadInv /\ SettledInv
-----------------------------------------------------------------------------
\* Whatever the file system says, loading it gives a skill or none.
LEMMA LoadedType ==
    \A d \in Dir : \A doc : /\ Loaded(d, doc) \in Valid[d] \cup {None}
                            /\ Valid[d] \subseteq Document
BY DEF Loaded, Valid

\* A notification is queued behind the others and hides none of them.
LEMMA NotifyKeeps ==
    ASSUME TypeOK, NEW d \in Dir \cup {Root}, NEW op \in Op, Notify(d, op)
    PROVE  /\ events' \in Seq((Dir \cup {Root}) \X Op)
           /\ Pending => Pending'
           /\ (Hears(d) /\ op \in Handled) => Pending'
<1> DEFINE E == (Dir \cup {Root}) \X Op
<1>1. events \in Seq(E) /\ <<d, op>> \in E
  BY DEF TypeOK
<1>2. CASE Hears(d)
  <2>1. events' = Append(events, <<d, op>>)
    BY <1>2 DEF Notify
  <2>2. /\ events' \in Seq(E)
        /\ Len(events') = Len(events) + 1
        /\ \A i \in 1..Len(events) : events'[i] = events[i]
        /\ events'[Len(events) + 1] = <<d, op>>
    BY <1>1, <2>1, AppendProperties
  <2>3. /\ DOMAIN events = 1..Len(events)
        /\ DOMAIN events' = 1..(Len(events) + 1)
        /\ Len(events) \in Nat
    BY <1>1, <2>2, LenProperties
  <2>4. Pending => Pending'
    BY <2>2, <2>3 DEF Pending
  <2>5. op \in Handled => Pending'
    <3>1. Len(events) + 1 \in DOMAIN events'
      BY <2>3
    <3> QED BY <3>1, <2>2 DEF Pending
  <2> QED BY <2>2, <2>4, <2>5
<1>3. CASE ~Hears(d)
  BY <1>1, <1>3 DEF Notify, Pending
<1> QED BY <1>2, <1>3

\* Taking an event the watcher does not handle leaves the others pending.
LEMMA TakeKeeps ==
    ASSUME TypeOK, events # <<>>, events' = Tail(events)
    PROVE  /\ events' \in Seq((Dir \cup {Root}) \X Op)
           /\ Head(events) \in (Dir \cup {Root}) \X Op
           /\ (Pending /\ Head(events)[2] \notin Handled) => Pending'
<1> DEFINE E == (Dir \cup {Root}) \X Op
<1>1. events \in Seq(E)
  BY DEF TypeOK
<1>2. /\ Head(events) = events[1] /\ Head(events) \in E
      /\ events' \in Seq(E)
      /\ Len(events') = Len(events) - 1
      /\ \A i \in 1..Len(events') : events'[i] = events[i + 1]
  BY <1>1, HeadTailProperties
<1>3. /\ DOMAIN events = 1..Len(events) /\ DOMAIN events' = 1..Len(events')
      /\ Len(events) \in Nat /\ Len(events') \in Nat
  BY <1>1, <1>2, LenProperties
<1>4. ASSUME Pending, Head(events)[2] \notin Handled PROVE Pending'
  <2>1. PICK i \in DOMAIN events : events[i][2] \in Handled
    BY <1>4 DEF Pending
  <2>2. i # 1
    BY <1>2, <1>4, <2>1
  <2>3. i - 1 \in DOMAIN events' /\ events'[i - 1] = events[i]
    BY <1>2, <1>3, <2>1, <2>2
  <2> QED BY <2>1, <2>3 DEF Pending
<1> QED BY <1>2, <1>4
-----------------------------------------------------------------------------
LEMMA InitInv == Init => Inv
<1> SUFFICES ASSUME Init PROVE Inv
  OBVIOUS
<1>1. Nothing \in Loadable
  BY DEF Nothing, Loadable
<1>2. events \in Seq((Dir \cup {Root}) \X Op)
  BY EmptySeq DEF Init
<1>3. TypeOK
  <2>1. found \in Loadable /\ skills \in Loadable
    BY <1>1 DEF Init
  <2>2. /\ edits \in 0..MaxEdits
        /\ watched \in SUBSET (Dir \cup {Root})
        /\ entries \in SUBSET Dir /\ missed \in SUBSET Dir
    BY BoundsAssumption DEF Init
  <2>3. /\ file \in [Dir -> Document \cup {NoFile, NoDir}]
        /\ serving \in BOOLEAN
        /\ pc \in {"readdir", "read", "watch", "add", "idle", "exited"}
    BY DEF Init
  <2> QED BY <1>2, <2>1, <2>2, <2>3 DEF TypeOK
<1>4. ReadInv /\ SettledInv
  BY DEF Init, ReadInv, SettledInv
<1> QED BY <1>3, <1>4 DEF Inv

\* An edit of d is heard of, and then pending, or missed.
LEMMA EditInv ==
    ASSUME Inv, NEW d \in Dir, NEW op \in Op,
           NEW result \in Document \cup {NoFile}, Edit(d, op, result)
    PROVE  Inv'
<1>1. /\ events' \in Seq((Dir \cup {Root}) \X Op)
      /\ Pending => Pending'
      /\ (Hears(d) /\ op \in Handled) => Pending'
  BY NotifyKeeps DEF Inv, Edit
<1>2. TypeOK'
  BY <1>1, BoundsAssumption DEF Inv, TypeOK, Edit, load
<1>3. CASE Hears(d) /\ op \in Handled
  BY <1>1, <1>2, <1>3 DEF Inv, ReadInv, SettledInv
<1>4. CASE ~(Hears(d) /\ op \in Handled)
  <2>1. missed' = missed \cup {d} /\ UNCHANGED <<pc, entries, found>>
    BY <1>4 DEF Edit, load
  <2>2. \A e \in Dir : e # d => file'[e] = file[e]
    BY DEF Inv, TypeOK, Edit
  <2>3. ReadInv'
    BY <1>1, <2>1, <2>2 DEF Inv, ReadInv
  <2>4. SettledInv'
    BY <2>1 DEF SettledInv
  <2> QED BY <1>2, <2>3, <2>4 DEF Inv
<1> QED BY <1>3, <1>4

\* Making or removing an empty directory changes no skill on disk.
LEMMA DirectoryInv ==
    ASSUME Inv, NEW d \in Dir, MakeDir(d) \/ RemoveDir(d)
    PROVE  Inv'
<1>1. Notify(Root, "Directory")
  BY DEF MakeDir, RemoveDir
<1>2. /\ events' \in Seq((Dir \cup {Root}) \X Op)
      /\ Pending => Pending'
  BY <1>1, NotifyKeeps DEF Inv, Op
<1>3. TypeOK'
  <2>1. /\ edits' \in 0..MaxEdits
        /\ UNCHANGED <<serving, pc, entries, found, skills, missed>>
    BY BoundsAssumption DEF Inv, TypeOK, MakeDir, RemoveDir, load
  <2>2. /\ watched' \in SUBSET (Dir \cup {Root})
        /\ file' \in [Dir -> Document \cup {NoFile, NoDir}]
    BY DEF Inv, TypeOK, MakeDir, RemoveDir
  <2> QED BY <1>2, <2>1, <2>2 DEF Inv, TypeOK
<1>4. \A e \in Dir : Loaded(e, file'[e]) = Loaded(e, file[e])
  BY TextAssumption, LoadedType DEF Inv, TypeOK, MakeDir, RemoveDir, Loaded, Document
<1>5. UNCHANGED <<pc, entries, found, skills, missed>>
  BY DEF MakeDir, RemoveDir, load
<1>6. ReadInv'
  BY <1>2, <1>4, <1>5 DEF Inv, ReadInv
<1>7. OnDisk' = OnDisk
  BY <1>4 DEF OnDisk
<1>8. SettledInv'
  BY <1>2, <1>5, <1>7 DEF Inv, SettledInv, Current, Nothing
<1> QED BY <1>3, <1>6, <1>8 DEF Inv

LEMMA UserInv == ASSUME Inv, User PROVE Inv'
<1> PICK d \in Dir : \/ \E doc \in Document : Write(d, doc) \/ Replace(d, doc)
                     \/ Remove(d) \/ MoveAway(d) \/ MakeDir(d) \/ RemoveDir(d)
  BY DEF User
<1>1. CASE \E doc \in Document : Write(d, doc) \/ Replace(d, doc)
  BY <1>1, EditInv DEF Write, Replace, Op
<1>2. CASE Remove(d) \/ MoveAway(d)
  BY <1>2, EditInv DEF Remove, MoveAway, Op
<1>3. CASE MakeDir(d) \/ RemoveDir(d)
  BY <1>3, DirectoryInv
<1> QED BY <1>1, <1>2, <1>3
-----------------------------------------------------------------------------
\* A load that is done with every directory has found what is on disk.
LEMMA ApplyInv == ASSUME Inv, Apply PROVE Inv'
<1>1. TypeOK'
  BY DEF Inv, TypeOK, Apply, disk, load
<1>2. UNCHANGED <<events, file, missed>> /\ pc = "read" /\ pc' # "read"
  BY DEF Apply, disk
<1>3. ASSUME ~Pending, missed = {} PROVE Current'
  <2>1. \A d \in Dir : found[d] = Loaded(d, file[d])
    BY <1>3 DEF Inv, ReadInv, Apply
  <2>2. found = OnDisk
    BY <2>1 DEF Inv, TypeOK, Loadable, OnDisk
  <2>3. OnDisk' = OnDisk
    BY <1>2 DEF OnDisk
  <2> QED BY <2>2, <2>3 DEF Apply, Current, Nothing
<1>4. SettledInv'
  BY <1>2, <1>3 DEF SettledInv, Pending
<1> QED BY <1>1, <1>2, <1>4 DEF Inv, ReadInv

LEMMA LoadInv == ASSUME Inv, Load PROVE Inv'
<1>1. CASE ReadDir
  <2>1. TypeOK'
    BY <1>1 DEF Inv, TypeOK, ReadDir, Existing, Nothing, Loadable, disk
  <2>2. ReadInv'
    <3>1. \A d \in Dir \ Existing : Loaded(d, file[d]) = None
      BY TextAssumption, LoadedType DEF Existing, Loaded, Document
    <3>2. found' = Nothing /\ entries' = Existing /\ file' = file
      BY <1>1 DEF ReadDir, disk
    <3> QED BY <3>1, <3>2 DEF ReadInv, Nothing
  <2>3. SettledInv'
    BY <1>1 DEF ReadDir, SettledInv
  <2> QED BY <2>1, <2>2, <2>3 DEF Inv
<1>2. CASE ReadDirFails
  <2>1. TypeOK'
    BY <1>2 DEF Inv, TypeOK, ReadDirFails, disk, load
  <2>2. Dir = {} => OnDisk' = Nothing'
    BY DEF OnDisk, Nothing
  <2>3. missed' = Dir /\ pc' # "read"
    BY <1>2 DEF ReadDirFails
  <2> QED BY <2>1, <2>2, <2>3 DEF Inv, ReadInv, SettledInv, Current
<1>3. ASSUME NEW d \in Dir, ReadFile(d) PROVE Inv'
  <2>1. TypeOK'
    BY <1>3, LoadedType DEF Inv, TypeOK, ReadFile, Loadable, disk
  <2>2. ReadInv'
    BY <1>3 DEF Inv, TypeOK, Loadable, ReadInv, ReadFile, Pending, disk
  <2>3. SettledInv'
    BY <1>3 DEF ReadFile, SettledInv
  <2> QED BY <2>1, <2>2, <2>3 DEF Inv
<1>4. ASSUME NEW d \in Dir, ReadFileFails(d) PROVE Inv'
  <2>1. TypeOK'
    BY <1>4 DEF Inv, TypeOK, ReadFileFails, disk
  <2>2. ReadInv'
    BY <1>4 DEF Inv, ReadInv, ReadFileFails, Pending, disk
  <2>3. SettledInv'
    BY <1>4 DEF ReadFileFails, SettledInv
  <2> QED BY <2>1, <2>2, <2>3 DEF Inv
<1> QED BY <1>1, <1>2, <1>3, <1>4, ApplyInv DEF Load

LEMMA WatchInv == ASSUME Inv, Watch PROVE Inv'
<1>1. ASSUME WatchRoot \/ WatchRootFails \/ Serve \/ \E d \in Dir : AddWatch(d)
      PROVE  Inv'
  <2>1. TypeOK'
    BY <1>1 DEF Inv, TypeOK, WatchRoot, WatchRootFails, Serve, AddWatch, AfterAdd,
                Existing, disk, load
  <2>2. /\ UNCHANGED <<file, events, skills, missed>>
        /\ pc \in {"watch", "add"} /\ pc' \in {"add", "idle", "exited"}
    BY <1>1 DEF WatchRoot, WatchRootFails, Serve, AddWatch, disk
  <2>3. OnDisk' = OnDisk /\ (Pending' <=> Pending)
    BY <2>2 DEF OnDisk, Pending
  <2> QED BY <2>1, <2>2, <2>3 DEF Inv, ReadInv, SettledInv, Current, Nothing
<1>2. CASE TakeEvent
  <2>1. /\ events' \in Seq((Dir \cup {Root}) \X Op)
        /\ Head(events) \in (Dir \cup {Root}) \X Op
        /\ (Pending /\ Head(events)[2] \notin Handled) => Pending'
    BY <1>2, TakeKeeps DEF Inv, TakeEvent
  <2>2. /\ watched' \in SUBSET (Dir \cup {Root})
        /\ UNCHANGED <<disk, serving, load, skills, missed>>
        /\ pc = "idle"
        /\ pc' = IF Head(events)[2] \in Handled THEN "readdir" ELSE "idle"
    BY <1>2, <2>1 DEF Inv, TypeOK, TakeEvent, AfterAdd, Existing
  <2>3. TypeOK'
    BY <2>1, <2>2 DEF Inv, TypeOK, disk, load
  <2>4. OnDisk' = OnDisk
    BY <2>2 DEF OnDisk, disk
  <2>5. ReadInv' /\ SettledInv'
    BY <2>1, <2>2, <2>4 DEF Inv, ReadInv, SettledInv, Current, Nothing
  <2> QED BY <2>3, <2>5 DEF Inv
<1> QED BY <1>1, <1>2 DEF Watch

\* The inductive invariant holds throughout.
LEMMA SafetyInv == Safety => []Inv
<1>1. Inv /\ UNCHANGED vars => Inv'
  <2> SUFFICES ASSUME Inv, UNCHANGED vars PROVE Inv'
    OBVIOUS
  <2>1. UNCHANGED <<file, edits, watched, events, serving, pc, entries, found, skills, missed>>
    BY DEF vars, disk, load
  <2>2. TypeOK'
    BY <2>1 DEF Inv, TypeOK
  <2>3. OnDisk' = OnDisk /\ (Pending' <=> Pending)
    BY <2>1 DEF OnDisk, Pending
  <2> QED BY <2>1, <2>2, <2>3 DEF Inv, ReadInv, SettledInv, Current, Nothing
<1>2. Inv /\ [Next]_vars => Inv'
  BY <1>1, UserInv, LoadInv, WatchInv DEF Next
<1> QED BY InitInv, <1>2, PTL DEF Safety
-----------------------------------------------------------------------------
\* Every variable keeps its type: no load, however it is cut by edits, puts a
\* document that fails the lint among the skills.
THEOREM TypeCorrect == Spec => []TypeOK
<1>1. Inv => TypeOK
  BY DEF Inv
<1> QED BY <1>1, SafetyInv, PTL DEF Spec

\* An idle watcher that was told of every change has the skills on disk.
THEOREM SkillsAreCurrent == Spec => []SkillsCurrent
<1>1. Inv => SkillsCurrent
  BY DEF Inv, SettledInv, SkillsCurrent
<1> QED BY <1>1, SafetyInv, PTL DEF Spec

\* The lint accepts a document only in the directory of its name, so no two
\* skills that were ever loaded share one.
THEOREM NamesAreUnique == Spec => []NamesUnique
<1>1. \A d \in Dir : \A doc \in Valid[d] : Names(Text[doc]) = {d}
  BY DEF Valid, Lint, lintL8
<1>2. ASSUME TypeOK PROVE NamesUnique
  <2> SUFFICES ASSUME NEW d \in Dir, NEW e \in Dir, d # e,
                      skills[d] # None, skills[e] # None
               PROVE  Names(Text[skills[d]]) \cap Names(Text[skills[e]]) = {}
    BY DEF NamesUnique
  <2>1. skills[d] \in Valid[d] /\ skills[e] \in Valid[e]
    BY <1>2 DEF TypeOK, Loadable
  <2> QED BY <1>1, <2>1
<1> QED BY <1>2, TypeCorrect, PTL
-----------------------------------------------------------------------------
(* The loads implement HotReload. What a load found it saw on disk since it  *)
(* began, or a read failed; and main's load is the first that is used.       *)

SeenNow == /\ seen \in [Dir -> SUBSET (Document \cup {None})]
           /\ \A d \in Dir : OnDisk[d] \in seen[d]

FoundSeen == pc = "read" => \A d \in Dir :
    IF d \in entries THEN found[d] = None
                     ELSE found[d] \in seen[d] \/ (found[d] = None /\ d \in missed)

FirstLoad == /\ pc \in {"readdir", "read"} /\ ~serving => skills = Nothing
             /\ pc = "idle" => serving

HInv == TypeOK /\ SeenNow /\ FoundSeen /\ FirstLoad

\* What is seen in a step that does not begin a load.
Sees == seen' = [d \in Dir |-> seen[d] \cup {OnDisk'[d]}]

\* What the disk holds for the loads is a skill or none of each directory.
LEMMA OnDiskType ==
    ASSUME TypeOK
    PROVE  /\ OnDisk \in [Dir -> Document \cup {None}]
           /\ \A d \in Dir : OnDisk[d] = Loaded(d, file[d])
BY LoadedType DEF OnDisk

\* Before the first step the disk is what is seen, and nothing is found or used.
LEMMA HInitInv == HInit => HInv
<1> SUFFICES ASSUME HInit PROVE HInv
  OBVIOUS
<1>1. TypeOK
  BY InitInv DEF HInit, Inv
<1>2. SeenNow
  BY <1>1, OnDiskType DEF HInit, SeenNow
<1>3. FoundSeen /\ FirstLoad
  BY DEF HInit, Init, FoundSeen, FirstLoad
<1> QED BY <1>1, <1>2, <1>3 DEF HInv

\* Steps that leave what the disk holds alone see nothing new.
LEMMA SeesNothing ==
    ASSUME SeenNow, OnDisk' = OnDisk, Sees
    PROVE  seen' = seen /\ SeenNow'
BY DEF SeenNow, Sees

\* A document that is written, replaced or removed is a change of its directory.
LEMMA EditChanges ==
    ASSUME HInv, TypeOK', Sees, NEW d \in Dir, NEW op \in Op,
           NEW result \in Document \cup {NoFile}, Edit(d, op, result)
    PROVE  HInv' /\ HR!Change(d)
<1> DEFINE s == Loaded(d, result)
<1>1. /\ file' = [file EXCEPT ![d] = result] /\ missed' \in {missed, missed \cup {d}}
      /\ UNCHANGED <<serving, pc, entries, found, skills>>
  BY DEF Edit, load
<1>2. file \in [Dir -> Document \cup {NoFile, NoDir}] /\ missed \in SUBSET Dir
  BY DEF HInv, TypeOK
<1>3. s \in Document \cup {None}
  BY LoadedType
<1> HIDE DEF s
<1>4. OnDisk' = [OnDisk EXCEPT ![d] = s]
  BY <1>1, <1>2 DEF OnDisk, s
<1>5. SeenNow /\ OnDisk \in [Dir -> Document \cup {None}]
  BY OnDiskType DEF HInv
<1>6. seen' = [seen EXCEPT ![d] = @ \cup {s}]
  <2>1. OnDisk'[d] = s
    BY <1>4, <1>5
  <2>2. \A e \in Dir : e # d => OnDisk'[e] = OnDisk[e] /\ seen[e] \cup {OnDisk'[e]} = seen[e]
    BY <1>4, <1>5 DEF SeenNow
  <2> QED BY <1>5, <2>1, <2>2 DEF Sees, SeenNow
<1>7. SeenNow'
  BY <1>3, <1>4, <1>5, <1>6 DEF SeenNow
<1>8. FoundSeen'
  BY <1>1, <1>5, <1>6 DEF HInv, FoundSeen, SeenNow
<1>9. FirstLoad'
  BY <1>1 DEF HInv, FirstLoad, Nothing
<1> QED BY <1>1, <1>3, <1>4, <1>6, <1>7, <1>8, <1>9 DEF HInv, HR!Change

\* A directory that is made or removed changes nothing.
LEMMA DirectoryStutters ==
    ASSUME HInv, TypeOK', Sees, NEW d \in Dir, MakeDir(d) \/ RemoveDir(d)
    PROVE  HInv' /\ UNCHANGED HR!vars
<1>1. \A e \in Dir : Loaded(e, file'[e]) = Loaded(e, file[e])
  BY TextAssumption, LoadedType DEF HInv, TypeOK, MakeDir, RemoveDir, Loaded, Document
<1>2. OnDisk' = OnDisk
  BY <1>1 DEF OnDisk
<1>3. seen' = seen /\ SeenNow'
  BY <1>2, SeesNothing DEF HInv
<1>4. UNCHANGED <<serving, pc, entries, found, skills, missed>>
  BY DEF MakeDir, RemoveDir, load
<1> QED BY <1>2, <1>3, <1>4 DEF HInv, FoundSeen, FirstLoad, Nothing, HR!vars

\* A load begins with nothing found and the disk as it is.
LEMMA ReadDirBegins ==
    ASSUME HInv, TypeOK', ReadDir, seen' = [d \in Dir |-> {OnDisk[d]}]
    PROVE  HInv' /\ HR!Begin
<1>1. /\ UNCHANGED <<file, serving, skills>> /\ pc = "readdir" /\ pc' = "read"
      /\ entries' = Existing /\ found' = Nothing /\ missed' \in SUBSET missed
  BY DEF ReadDir, disk
<1>2. OnDisk' = OnDisk /\ OnDisk \in [Dir -> Document \cup {None}]
  BY <1>1, OnDiskType DEF OnDisk, HInv
<1>3. SeenNow'
  BY <1>2 DEF SeenNow
<1>4. \A d \in Dir \ Existing : OnDisk[d] = None
  BY TextAssumption, LoadedType, OnDiskType DEF HInv, Existing, Loaded, Document
<1>5. FoundSeen'
  BY <1>1, <1>4 DEF FoundSeen, Nothing
<1>6. FirstLoad'
  BY <1>1 DEF HInv, FirstLoad, Nothing
<1> QED BY <1>1, <1>2, <1>3, <1>5, <1>6 DEF HInv, HR!Begin

\* A file that was read is one seen; one that was not is missed.
LEMMA ReadMisses ==
    ASSUME HInv, TypeOK', Sees, NEW d \in Dir, ReadFile(d) \/ ReadFileFails(d)
    PROVE  HInv' /\ HR!Miss
<1>1. UNCHANGED <<file, serving, pc, skills>> /\ entries' = entries \ {d} /\ d \in entries
  BY DEF ReadFile, ReadFileFails, disk, First
<1>2. OnDisk' = OnDisk
  BY <1>1 DEF OnDisk
<1>3. seen' = seen /\ SeenNow'
  BY <1>2, SeesNothing DEF HInv
<1>4. /\ pc = "read" /\ found \in [Dir -> Document \cup {None}] /\ OnDisk[d] \in seen[d]
      /\ OnDisk[d] = Loaded(d, file[d])
  BY OnDiskType DEF HInv, TypeOK, Loadable, SeenNow, ReadFile, ReadFileFails
<1>5. FoundSeen'
  <2>1. CASE ReadFile(d)
    <3>1. found' = [found EXCEPT ![d] = OnDisk[d]] /\ missed' = missed \ {d}
      BY <1>4, <2>1 DEF ReadFile
    <3> QED BY <1>1, <1>3, <1>4, <3>1 DEF HInv, FoundSeen
  <2>2. CASE ReadFileFails(d)
    BY <1>1, <1>3, <1>4, <2>2 DEF HInv, FoundSeen, ReadFileFails
  <2> QED BY <2>1, <2>2
<1>6. FirstLoad'
  BY <1>1 DEF HInv, FirstLoad, Nothing
<1>7. missed' \in SUBSET Dir
  BY DEF TypeOK
<1> QED BY <1>1, <1>2, <1>3, <1>5, <1>6, <1>7 DEF HInv, HR!Miss

\* What a load has found is put into use, unless it is nothing.
LEMMA ApplyUses ==
    ASSUME HInv, TypeOK', Sees, Apply
    PROVE  HInv' /\ (HR!Use \/ UNCHANGED HR!vars)
<1>1. /\ UNCHANGED <<file, serving, missed>> /\ pc = "read" /\ entries = {}
      /\ pc' = IF serving THEN "idle" ELSE "watch"
      /\ skills' = IF serving /\ found = Nothing THEN skills ELSE found
  BY DEF Apply, disk
<1>2. OnDisk' = OnDisk
  BY <1>1 DEF OnDisk
<1>3. seen' = seen /\ SeenNow'
  BY <1>2, SeesNothing DEF HInv
<1>4. FoundSeen' /\ FirstLoad'
  BY <1>1 DEF FoundSeen, FirstLoad
<1>5. CASE serving /\ found = Nothing
  BY <1>1, <1>2, <1>3, <1>4, <1>5 DEF HInv, HR!vars
<1>6. CASE ~(serving /\ found = Nothing)
  <2>1. found \in HR!Skills
    BY LoadedType DEF HInv, TypeOK, Loadable, HR!Skills
  <2>2. \A d \in Dir : found[d] \in seen[d] \/ (found[d] = None /\ d \in missed)
    BY <1>1 DEF HInv, FoundSeen
  <2>3. skills # HR!Nothing => found # HR!Nothing
    BY <1>1, <1>6 DEF HInv, FirstLoad, Nothing, HR!Nothing
  <2>4. HR!Use
    BY <1>1, <1>2, <1>3, <1>6, <2>1, <2>2, <2>3 DEF HR!Use
  <2> QED BY <1>3, <1>4, <2>4 DEF HInv
<1> QED BY <1>5, <1>6

\* Starting the watcher, taking an event and failing to list the directories use
\* nothing.
LEMMA WatchStutters ==
    ASSUME HInv, TypeOK', Sees, Watch \/ ReadDirFails
    PROVE  HInv' /\ HR!Miss
<1>1. UNCHANGED <<file, skills>>
  BY DEF Watch, WatchRoot, WatchRootFails, Serve, TakeEvent, AddWatch, ReadDirFails, disk
<1>2. OnDisk' = OnDisk
  BY <1>1 DEF OnDisk
<1>3. seen' = seen /\ SeenNow'
  BY <1>2, SeesNothing DEF HInv
<1>4. pc' # "read" /\ FirstLoad'
  BY <1>1 DEF HInv, FirstLoad, Nothing, Watch, WatchRoot, WatchRootFails, Serve, TakeEvent,
     AddWatch, ReadDirFails
<1>5. missed' \in SUBSET Dir
  BY DEF TypeOK
<1> QED BY <1>1, <1>2, <1>3, <1>4, <1>5 DEF HInv, FoundSeen, HR!Miss

\* Every step is one of HotReload, or changes nothing of it.
LEMMA HotReloadStep == HInv /\ TypeOK' /\ [HNext]_hvars => HInv' /\ [HR!Next]_(HR!vars)
<1> SUFFICES ASSUME HInv, TypeOK', [HNext]_hvars PROVE HInv' /\ [HR!Next]_(HR!vars)
  OBVIOUS
<1>1. CASE UNCHANGED hvars
  <2>1. UNCHANGED <<file, serving, pc, entries, found, skills, missed, seen>>
    BY <1>1 DEF hvars, vars, disk, load
  <2>2. OnDisk' = OnDisk
    BY <2>1 DEF OnDisk
  <2> QED BY <2>1, <2>2 DEF HInv, SeenNow, FoundSeen, FirstLoad, Nothing, HR!vars
<1>2. ASSUME HNext, ReadDir PROVE HInv' /\ HR!Next
  <2>1. seen' = [d \in Dir |-> {OnDisk[d]}]
    BY <1>2 DEF HNext, ReadDir
  <2> QED BY <1>2, <2>1, ReadDirBegins DEF HR!Next
<1>3. ASSUME HNext, User \/ (Load /\ ~ReadDir) \/ Watch PROVE HInv' /\ [HR!Next]_(HR!vars)
  <2>1. Sees
    <3>1. ~(pc = "readdir" /\ pc' = "read")
      BY <1>3 DEF User, Write, Replace, Remove, MoveAway, Edit, MakeDir, RemoveDir, Load,
         ReadDirFails, Apply, ReadFile, ReadFileFails, Watch, WatchRoot, WatchRootFails, Serve,
         TakeEvent, AddWatch
    <3> QED BY <1>3, <3>1 DEF HNext, Sees
  <2>2. CASE \E d \in Dir : \/ \E doc \in Document : Write(d, doc) \/ Replace(d, doc)
                            \/ Remove(d) \/ MoveAway(d)
    <3>1. PICK d \in Dir, op \in Op, result \in Document \cup {NoFile} : Edit(d, op, result)
      BY <2>2 DEF Write, Replace, Remove, MoveAway, Op
    <3> QED BY <2>1, <3>1, EditChanges DEF HR!Next
  <2>3. CASE \E d \in Dir : MakeDir(d) \/ RemoveDir(d)
    BY <2>1, <2>3, DirectoryStutters
  <2>4. CASE \E d \in Dir : ReadFile(d) \/ ReadFileFails(d)
    BY <2>1, <2>4, ReadMisses DEF HR!Next
  <2>5. CASE Apply
    BY <2>1, <2>5, ApplyUses DEF HR!Next
  <2>6. CASE Watch \/ ReadDirFails
    BY <2>1, <2>6, WatchStutters DEF HR!Next
  <2> QED BY <1>3, <2>2, <2>3, <2>4, <2>5, <2>6 DEF User, Load
<1> QED BY <1>1, <1>2, <1>3 DEF HNext, Next, Load

\* The start is one of HotReload.
LEMMA HotReloadInit == HInit => HR!Init
<1> SUFFICES ASSUME HInit PROVE HR!Init
  OBVIOUS
<1>1. TypeOK
  BY InitInv DEF HInit, Inv
<1> QED BY <1>1, OnDiskType DEF HInit, Init, HR!Init, HR!Skills, HR!Nothing, Nothing

\* A load that changes the skills leaves some.
LEMMA UseLeavesSome ==
    ASSUME HInv, TypeOK', [HNext]_hvars, skills' # skills
    PROVE  \E d \in Dir : skills'[d] # None
<1>1. [HR!Next]_(HR!vars)
  BY HotReloadStep
<1>2. HR!Use
  BY <1>1 DEF HR!Next, HR!Begin, HR!Miss, HR!Change, HR!vars
<1>3. skills' # HR!Nothing
  BY <1>2 DEF HR!Use
<1>4. skills' \in HR!Skills
  BY <1>2 DEF HR!Use
<1> QED BY <1>3, <1>4 DEF HR!Skills, HR!Nothing

\* The types of SkillReload, with the history.
LEMMA HSafetyInv == HSpec => []HInv
<1>1. HSpec => []TypeOK
  <2>1. HInit /\ [][HNext]_hvars => Safety
    <3>1. HInit => Init
      BY DEF HInit
    <3>2. [HNext]_hvars => [Next]_vars
      BY DEF HNext, hvars
    <3> QED BY <3>1, <3>2, PTL DEF Safety
  <2>2. Inv => TypeOK
    BY DEF Inv
  <2> QED BY <2>1, <2>2, SafetyInv, PTL DEF HSpec
<1> QED BY <1>1, HInitInv, HotReloadStep, PTL DEF HSpec

\* For any directories, documents and edits: a reload uses what was on disk since
\* it began, leaves out a skill only if the file system failed it, and never
\* replaces skills by none.
THEOREM ReloadIsFresh == HSpec => ReloadsAreFresh
<1>1. HInv => TypeOK
  BY DEF HInv
<1> QED BY <1>1, HSafetyInv, HotReloadInit, HotReloadStep, PTL
        DEF HSpec, ReloadsAreFresh, HR!Spec

\* What the event loop assumes of its reloads (UpdateSkills of Dispatcher): skills
\* change to some, never to none.
THEOREM ReloadsAreUpdates == HSpec => [][\E d \in Dir : skills'[d] # None]_skills
<1>1. HInv => TypeOK
  BY DEF HInv
<1>2. HInv /\ TypeOK' /\ [HNext]_hvars => [\E d \in Dir : skills'[d] # None]_skills
  BY UseLeavesSome
<1> QED BY <1>1, <1>2, HSafetyInv, PTL DEF HSpec
=============================================================================
