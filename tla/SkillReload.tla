---------------------------- MODULE SkillReload -----------------------------
(***************************************************************************)
(* The skills on disk and the skills in memory.  main loads every skill    *)
(* directory once and then starts the watcher, whose goroutine loads all   *)
(* of them again whenever the file system tells it of a change to a        *)
(* SKILL.md file.  Load lists the directories and reads their files one    *)
(* after the other, while users go on editing.  Documents are those of     *)
(* module SkillDoc; a directory's number is its name, too.                 *)
(***************************************************************************)
EXTENDS SkillDoc

CONSTANTS Dir,        \* skill directories, numbered in the order ReadDir lists them
          Root,       \* the directory they are in
          Text,       \* the SKILL.md documents users write, some of them half
                      \* of another: a function to their lines
          NoFile,     \* a directory without a SKILL.md
          NoDir,      \* no such directory
          None,       \* no skill of that directory is loaded
          MaxEvents,  \* capacity of the kernel's queue of notifications
          MaxEdits    \* bound on the users' edits

ASSUME DirAssumption     == Dir \subseteq Nat
ASSUME RootAssumption    == Root \notin Dir
ASSUME TextAssumption    == {NoFile, NoDir, None} \cap DOMAIN Text = {} /\ NoFile # NoDir
ASSUME BoundsAssumption  == MaxEvents \in Nat /\ MaxEdits \in Nat

VARIABLES
    file,      \* [Dir -> what is on disk]
    edits,     \* edits so far
    watched,   \* directories the kernel notifies the watcher of
    events,    \* its notifications, as <<directory, operation>>
    serving,   \* the watcher's goroutine runs
    pc,        \* what main, and then that goroutine, is at
    entries,   \* directories still to be read, or to be watched
    found,     \* [Dir -> skill or None], the result of the load so far
    skills,    \* [Dir -> skill or None], the dispatcher's skills
    missed     \* history: directories with an edit no load was told of or has seen

disk == <<file, edits>>
load == <<entries, found>>
vars == <<disk, watched, events, serving, pc, load, skills, missed>>

Document == DOMAIN Text

\* The documents that make a skill of a directory.
Valid    == [d \in Dir |-> {doc \in Document : Parses(Text[doc]) /\ Lint(Text[doc], d)}]
Loadable == {f \in [Dir -> Document \cup {None}] : \A d \in Dir : f[d] \in Valid[d] \cup {None}}
Op       == {"Create", "Write", "Remove", "Rename", "Directory"}
Nothing  == [d \in Dir |-> None]

TypeOK == /\ file \in [Dir -> Document \cup {NoFile, NoDir}]
          /\ edits \in 0..MaxEdits
          /\ watched \in SUBSET (Dir \cup {Root})
          /\ events \in Seq((Dir \cup {Root}) \X Op)
          /\ serving \in BOOLEAN
          /\ pc \in {"readdir", "read", "watch", "add", "idle", "exited"}
          /\ entries \in SUBSET Dir
          /\ found \in Loadable
          /\ skills \in Loadable
          /\ missed \in SUBSET Dir

Init == /\ file \in [Dir -> Document \cup {NoFile, NoDir}]
        /\ edits = 0
        /\ watched = {}
        /\ events = <<>>
        /\ serving = FALSE
        /\ pc = "readdir"
        /\ entries = {}
        /\ found = Nothing
        /\ skills = Nothing
        /\ missed = {}

Existing == {d \in Dir : file[d] # NoDir}

First(d) == d \in entries /\ \A e \in entries : d <= e
-----------------------------------------------------------------------------
(* The users. A save in place is several of these writes, the first of which *)
(* leaves half a document; an editor may also rename a new file into place.  *)

\* Operations on a SKILL.md file that make the watcher load the skills.
Handled == {"Create", "Write", "Remove"}

Hears(d) == d \in watched /\ Len(events) < MaxEvents

Notify(d, op) == events' = IF Hears(d) THEN Append(events, <<d, op>>) ELSE events

Edit(d, op, result) ==
    /\ edits < MaxEdits
    /\ edits' = edits + 1
    /\ file' = [file EXCEPT ![d] = result]
    /\ Notify(d, op)
    /\ missed' = IF Hears(d) /\ op \in Handled THEN missed ELSE missed \cup {d}
    /\ UNCHANGED <<watched, serving, pc, load, skills>>

Write(d, doc)   == /\ file[d] # NoDir
                   /\ Edit(d, IF file[d] = NoFile THEN "Create" ELSE "Write", doc)
Replace(d, doc) == file[d] # NoDir /\ Edit(d, "Create", doc)
Remove(d)       == file[d] \in Document /\ Edit(d, "Remove", NoFile)
MoveAway(d)     == file[d] \in Document /\ Edit(d, "Rename", NoFile)

\* Making and removing an empty directory; the kernel stops watching the latter.
MakeDir(d) == /\ file[d] = NoDir
              /\ edits < MaxEdits
              /\ edits' = edits + 1
              /\ file' = [file EXCEPT ![d] = NoFile]
              /\ Notify(Root, "Directory")
              /\ UNCHANGED <<watched, serving, pc, load, skills, missed>>

RemoveDir(d) == /\ file[d] = NoFile
                /\ edits < MaxEdits
                /\ edits' = edits + 1
                /\ file' = [file EXCEPT ![d] = NoDir]
                /\ watched' = watched \ {d}
                /\ Notify(Root, "Directory")
                /\ UNCHANGED <<serving, pc, load, skills, missed>>

User == \E d \in Dir : \/ \E doc \in Document : Write(d, doc) \/ Replace(d, doc)
                       \/ Remove(d) \/ MoveAway(d) \/ MakeDir(d) \/ RemoveDir(d)
-----------------------------------------------------------------------------
(* Faulty variants of the operations further down, which the properties must *)
(* tell from the code's: a watcher deaf to removals, a reload that replaces   *)
(* the skills only if there are others than before, a load without the lint,  *)
(* a load that starts from what the last one found.                           *)

TakeEventUnlessRemove ==
    /\ pc = "idle"
    /\ events # <<>>
    /\ events' = Tail(events)
    /\ pc' = IF Head(events)[2] \in Handled \ {"Remove"} THEN "readdir" ELSE "idle"
    /\ UNCHANGED <<disk, watched, serving, load, skills, missed>>

ApplyIfOthers ==
    LET Some(f) == {d \in Dir : f[d] # None} IN
    /\ pc = "read"
    /\ entries = {}
    /\ skills' = IF Some(found) = Some(skills) THEN skills ELSE found
    /\ pc' = IF serving THEN "idle" ELSE "watch"
    /\ UNCHANGED <<disk, watched, events, serving, load, missed>>

ReadDirKeepsFound ==
    /\ pc = "readdir"
    /\ pc' = "read"
    /\ entries' = Existing
    /\ missed' = missed \cap Existing
    /\ UNCHANGED <<disk, watched, events, serving, found, skills>>

LoadedUnchecked(d, doc) == IF doc \in Document THEN doc ELSE None
-----------------------------------------------------------------------------
(* Load.                                                                     *)

\* What loadFile, Parse and Lint make of a directory's file: its skill, or none.
Loaded(d, doc) == IF doc \in Valid[d] THEN doc ELSE None

ReadDir == /\ pc = "readdir"
           /\ pc' = "read"
           /\ entries' = Existing
           /\ found' = Nothing
           /\ missed' = missed \cap Existing
           /\ UNCHANGED <<disk, watched, events, serving, skills>>

\* The directory cannot be listed: at the start main exits, later the watcher
\* keeps the skills it has and forgets the event.
ReadDirFails == /\ pc = "readdir"
                /\ pc' = IF serving THEN "idle" ELSE "exited"
                /\ missed' = Dir
                /\ UNCHANGED <<disk, watched, events, serving, load, skills>>

ReadFile(d) == /\ pc = "read"
               /\ First(d)
               /\ entries' = entries \ {d}
               /\ found' = [found EXCEPT ![d] = Loaded(d, file[d])]
               /\ missed' = missed \ {d}
               /\ UNCHANGED <<disk, watched, events, serving, pc, skills>>

\* The file cannot be read: the skill is skipped like one that fails the lint.
ReadFileFails(d) == /\ pc = "read"
                    /\ First(d)
                    /\ entries' = entries \ {d}
                    /\ missed' = missed \cup {d}
                    /\ UNCHANGED <<disk, watched, events, serving, pc, found, skills>>

\* main takes what it loaded; a reload replaces the skills unless it found none.
Apply == /\ pc = "read"
         /\ entries = {}
         /\ skills' = IF serving /\ found = Nothing THEN skills ELSE found
         /\ pc' = IF serving THEN "idle" ELSE "watch"
         /\ UNCHANGED <<disk, watched, events, serving, load, missed>>

Load == \/ ReadDir \/ ReadDirFails \/ Apply
        \/ \E d \in Dir : ReadFile(d) \/ ReadFileFails(d)
-----------------------------------------------------------------------------
(* Watch: it adds the root and the directories there are then, and serves.   *)

WatchRoot == /\ pc = "watch"
             /\ pc' = "add"
             /\ watched' = {Root}
             /\ entries' = Existing
             /\ UNCHANGED <<disk, events, serving, found, skills, missed>>

\* There is no watcher, or it cannot add the root: main exits.
WatchRootFails == /\ pc = "watch"
                  /\ pc' = "exited"
                  /\ UNCHANGED <<disk, watched, events, serving, load, skills, missed>>

\* What fw.Add(d) leaves watched; it may fail, and nobody looks at its error.
AfterAdd(d) == {watched, watched \cup ({d} \cap Existing)}

AddWatch(d) == /\ pc = "add"
               /\ First(d)
               /\ entries' = entries \ {d}
               /\ watched' \in AfterAdd(d)
               /\ UNCHANGED <<disk, events, serving, pc, found, skills, missed>>

Serve == /\ pc = "add"
         /\ entries = {}
         /\ pc' = "idle"
         /\ serving' = TRUE
         /\ UNCHANGED <<disk, watched, events, load, skills, missed>>

\* The goroutine takes the next event; it watches the directory of a SKILL.md
\* that was created, and loads the skills if the operation is one it handles.
TakeEvent ==
    LET d == Head(events)[1]  op == Head(events)[2] IN
    /\ pc = "idle"
    /\ events # <<>>
    /\ events' = Tail(events)
    /\ watched' \in IF op = "Create" THEN AfterAdd(d) ELSE {watched}
    /\ pc' = IF op \in Handled THEN "readdir" ELSE "idle"
    /\ UNCHANGED <<disk, serving, load, skills, missed>>

Watch == WatchRoot \/ WatchRootFails \/ Serve \/ TakeEvent \/ \E d \in Dir : AddWatch(d)

Next == User \/ Load \/ Watch

\* The goroutine is scheduled; the users owe nothing.
Fairness == WF_vars(Load \/ Watch)

Safety == Init /\ [][Next]_vars

Spec == Safety /\ Fairness
-----------------------------------------------------------------------------
(* What hot reload promises.                                                *)

OnDisk == [d \in Dir |-> Loaded(d, file[d])]

Pending == \E i \in DOMAIN events : events[i][2] \in Handled

\* The skills in memory are those on disk whenever the watcher has nothing left
\* to do and was told of every change, however edits and the reads of a load
\* fell together; except that it keeps the last skills when there are none.
Current == OnDisk = Nothing \/ skills = OnDisk

SkillsCurrent == (pc = "idle" /\ ~Pending /\ missed = {}) => Current

\* Two skills never have one name, by which the rate limiter and the session
\* know them, though documents are copied from one directory to another.
NamesUnique == \A d, e \in Dir :
    skills[d] # None /\ skills[e] # None /\ d # e
        => Names(Text[skills[d]]) \cap Names(Text[skills[e]]) = {}

\* When the edits are over, the skills in memory become those on disk for good,
\* unless an edit was missed; a missed one is made up for by the next reload.
SkillsConverge == <>[](missed = {} => Current)
-----------------------------------------------------------------------------
\* "Lint failure on reload: the previous version remains active": no reload
\* takes a skill away whose file fails the lint.
InvalidSkillKeepsPrevious ==
    [][\A d \in Dir : file[d] \in Document \ Valid[d] /\ skills[d] # None
                       => skills'[d] = skills[d]]_vars
=============================================================================
