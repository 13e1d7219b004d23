--------------------------- MODULE CollectorFiles ---------------------------
(***************************************************************************)
(* The collectors' directory (collector/persist.rs): the file each one is  *)
(* saved to, and the load at boot that sets unreadable files and older     *)
(* copies aside and moves every other file to its canonical name, one      *)
(* rename at a time, with a crash possible between any two.                *)
(*                                                                         *)
(* A file is [of, at, id]: the collector it holds (Garbage for one that    *)
(* cannot be read), when it was written, and which writing of it this is.  *)
(***************************************************************************)
EXTENDS Integers, Sequences, FiniteSets, FiniteSetsExt, Functions

CONSTANTS
    Keys,       \* collectors, (owner, name), numbered in their sort order
    Garbage,
    Found,      \* the directories a first boot may find
    FirstSave,  \* the clock at the first save: what is found is older
    MaxBoots,   \* bound: boots
    MaxSaves    \* bound: files written

VARIABLES
    fs,         \* the .json files: path -> file
    aside,      \* what was renamed out of the way, never read again
    boot,       \* where the load is
    loaded,     \* the collectors in memory, and the file each came from
    newest,     \* history: per collector, the file last written for it
    jammed,     \* history: whether the disk ever refused a rename
    boots, saves

fvars == <<fs, aside, boot, loaded, newest, jammed, boots, saves>>

Canonical(k) == <<"canonical", k>>
Staging(k) == <<"moving", k>>

\* Only a load writes under a staging name, and to it only what belongs there.
ASSUME KeysAssumption == Keys \subseteq Nat /\ Garbage \notin Keys
ASSUME FoundAssumption ==
    /\ FirstSave \in Nat
    /\ \A d \in Found : \A p \in DOMAIN d :
         /\ d[p].of \in Keys \cup {Garbage}
         /\ d[p].at \in Nat /\ d[p].at < FirstSave
         /\ \A k \in Keys : p = Staging(k) => d[p].of \in {k, Garbage}

Down == [phase |-> "down"]
CopiesIn(dir, k) == {p \in DOMAIN dir : dir[p].of = k}

FInit ==
    /\ fs \in Found
    /\ aside = {} /\ boot = Down /\ loaded = <<>> /\ jammed = FALSE /\ boots = 0 /\ saves = 0
    /\ newest = [k \in {fs[p].of : p \in DOMAIN fs} \ {Garbage} |->
                   {fs[p] : p \in {q \in CopiesIn(fs, k) :
                       \A r \in CopiesIn(fs, k) : fs[r].at <= fs[q].at}}]

Removed(p) == [q \in DOMAIN fs \ {p} |-> fs[q]]
Renamed(p, to) == [q \in (DOMAIN fs \ {p}) \cup {to} |-> IF q = to THEN fs[p] ELSE fs[q]]

\* Mutant: rename as POSIX has it, replacing what is there.
FreeAlways(to) == TRUE

\* rename_no_clobber.
Free(to) == to \notin DOMAIN fs

\* Mutant: a staged file is not listed, for want of the extension.
ListedUnstaged == [p \in DOMAIN fs \ {Staging(k) : k \in Keys} |-> fs[p]]

\* Listed up front, before anything is renamed.
Listed == fs

ReadDir ==
    /\ boot = Down /\ boots < MaxBoots
    /\ boots' = boots + 1
    /\ boot' = [phase |-> "reading", list |-> Listed, stuck |-> {}]
    /\ UNCHANGED <<fs, aside, loaded, newest, jammed, saves>>

\* Newest first; on a tie the one in place, then by path.
Winner(list, k) ==
    LET copies == CopiesIn(list, k)
        latest == {p \in copies : \A q \in copies : list[q].at <= list[p].at}
    IN  IF Canonical(k) \in latest THEN Canonical(k) ELSE CHOOSE p \in latest : TRUE

Winners(list) == {k \in Keys : CopiesIn(list, k) # {}}
Movable == (DOMAIN boot.list \cap DOMAIN fs) \ boot.stuck
Unread == {p \in Movable : boot.list[p].of = Garbage}
Losers == {p \in Movable : boot.list[p].of # Garbage /\ p # Winner(boot.list, boot.list[p].of)}

\* set_aside, as .corrupt or .superseded, under the first name not taken; a
\* file it cannot move is left where it is.
SetAside(p) ==
    \/ aside' = aside \cup {fs[p]} /\ fs' = Removed(p) /\ UNCHANGED <<boot, jammed>>
    \/ boot' = [boot EXCEPT !.stuck = @ \cup {p}] /\ jammed' = TRUE
       /\ UNCHANGED <<fs, aside>>

Quarantine ==
    /\ boot.phase = "reading"
    /\ \E p \in Unread : SetAside(p)
    /\ UNCHANGED <<loaded, newest, boots, saves>>

Supersede ==
    /\ boot.phase = "reading" /\ Unread = {}
    /\ \E p \in Losers : SetAside(p)
    /\ UNCHANGED <<loaded, newest, boots, saves>>

BeginStaging ==
    /\ boot.phase = "reading" /\ Unread = {} /\ Losers = {}
    /\ boot' = [phase |-> "staging", list |-> boot.list, left |-> Winners(boot.list),
                 staged |-> {}]
    /\ UNCHANGED <<fs, aside, loaded, newest, jammed, boots, saves>>

\* Every winner not at its canonical name, in the order of the keys.  One whose
\* rename the disk refuses, or whose staging name is taken, is left where it is.
Stage ==
    /\ boot.phase = "staging" /\ boot.left # {}
    /\ LET k == Min(boot.left)
           p == Winner(boot.list, k)
           movable == p \notin {Canonical(k), Staging(k)} /\ Free(Staging(k))
       IN  \E moves \in {movable, FALSE} :
             /\ fs' = IF moves THEN Renamed(p, Staging(k)) ELSE fs
             /\ boot' = [boot EXCEPT !.left = @ \ {k},
                   !.staged = IF moves \/ p = Staging(k) THEN @ \cup {k} ELSE @]
             /\ jammed' = (jammed \/ movable # moves)
    /\ UNCHANGED <<aside, loaded, newest, boots, saves>>

BeginPlacing ==
    /\ boot.phase = "staging" /\ boot.left = {}
    /\ boot' = [boot EXCEPT !.phase = "placing", !.left = boot.staged]
    /\ UNCHANGED <<fs, aside, loaded, newest, jammed, boots, saves>>

\* To the canonical name, or back where it was, or left staged.
Place ==
    /\ boot.phase = "placing" /\ boot.left # {}
    /\ LET k == Min(boot.left)
           was == Winner(boot.list, k)
       IN  /\ \/ /\ Free(Canonical(k))
                 /\ fs' = Renamed(Staging(k), Canonical(k))
                 /\ UNCHANGED jammed
              \/ /\ Free(was)
                 /\ fs' = Renamed(Staging(k), was)
                 /\ jammed' = (jammed \/ Free(Canonical(k)))
              \/ /\ fs' = fs
                 /\ jammed' = (jammed \/ Free(Canonical(k)) \/ Free(was))
           /\ boot' = [boot EXCEPT !.left = @ \ {k}]
    /\ UNCHANGED <<aside, loaded, newest, boots, saves>>

Load ==
    /\ boot.phase = "placing" /\ boot.left = {}
    /\ loaded' = [k \in Winners(boot.list) |-> boot.list[Winner(boot.list, k)]]
    /\ boot' = [phase |-> "up"]
    /\ UNCHANGED <<fs, aside, newest, jammed, boots, saves>>

\* save: atomic_write at the canonical path.
Save(k) ==
    /\ boot.phase = "up" /\ saves < MaxSaves
    /\ saves' = saves + 1
    /\ LET file == [of |-> k, at |-> FirstSave + saves, id |-> FirstSave + saves] IN
       /\ fs' = [p \in DOMAIN fs \cup {Canonical(k)} |->
                   IF p = Canonical(k) THEN file ELSE fs[p]]
       /\ loaded' = [j \in DOMAIN loaded \cup {k} |-> IF j = k THEN file ELSE loaded[j]]
       /\ newest' = [j \in DOMAIN newest \cup {k} |-> IF j = k THEN {file} ELSE newest[j]]
    /\ UNCHANGED <<aside, boot, jammed, boots>>

\* delete: the file at the canonical path.
DeleteFile(k) ==
    /\ boot.phase = "up" /\ k \in DOMAIN loaded
    /\ fs' = Removed(Canonical(k))
    /\ loaded' = Restrict(loaded, DOMAIN loaded \ {k})
    /\ newest' = Restrict(newest, DOMAIN newest \ {k})
    /\ UNCHANGED <<aside, boot, jammed, boots, saves>>

Crash ==
    /\ boot # Down
    /\ boot' = Down /\ loaded' = <<>>
    /\ UNCHANGED <<fs, aside, newest, jammed, boots, saves>>

FNext ==
    \/ ReadDir \/ Quarantine \/ Supersede \/ BeginStaging \/ Stage \/ BeginPlacing
    \/ Place \/ Load \/ Crash
    \/ \E k \in Keys : Save(k) \/ DeleteFile(k)

FSpec == FInit /\ [][FNext]_fvars

-----------------------------------------------------------------------------
\* Whatever the directory held and wherever earlier boots crashed, as long as the
\* disk refuses no rename, a boot that completes has every collector that has a
\* readable file, once, from the file written last; and none that was removed
\* comes back (persist.rs:514).
LoadsTheNewest ==
    boot.phase = "up" /\ ~jammed =>
        /\ DOMAIN loaded = DOMAIN newest
        /\ \A k \in DOMAIN newest : loaded[k] \in newest[k]

\* Loading destroys no file: a rename never replaces another file, so what
\* cannot be read and the older copies are kept, aside or where they were; and
\* at every moment, mid-move included, the last file written for a collector
\* is where a boot would read it (persist.rs:458, 482).
NothingDestroyed ==
    [][/\ boot.phase # "up" => Range(fs) \cup aside \subseteq Range(fs') \cup aside'
       /\ ~jammed => \A k \in DOMAIN newest' : Range(fs') \cap newest'[k] # {}]_fvars

\* A boot loads the newest file of every collector, whatever earlier boot died in
\* the middle of its renames, and no rename or save destroys a collector's only
\* copy (persist.rs, load_all, rename_no_clobber).
DirectoryKept == []LoadsTheNewest /\ NothingDestroyed
=============================================================================
