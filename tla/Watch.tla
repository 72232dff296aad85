------------------------------- MODULE Watch -------------------------------
(***************************************************************************)
(* The recursive directory watch of chapter_19/watch.c: inotify events     *)
(* come through a queue and are handled one by one, while the tree that    *)
(* they tell of goes on changing.  The kernel's part (which operation      *)
(* queues which events) is external.                                       *)
(***************************************************************************)
EXTENDS Integers, Sequences, FiniteSets

CONSTANTS
    Objects,     \* files and directories below the watched one
    Dirs,        \* those of them that are directories
    Places,      \* where they are at first
    MaxOps,      \* bound: operations on the tree
    MaxQueue     \* bound: events waiting to be read

Root   == "root"       \* the watched directory
Out    == "elsewhere"  \* a directory that is not watched
Absent == "absent"     \* does not exist
NoInfo == <<>>

VARIABLES
    loc,      \* the directory each object is in
    ver,      \* each object's name: how often it was renamed
    watched,  \* the inodes with a watch; a watch descriptor is its inode's name
    info,     \* path_info_by_wd: the path each watch descriptor stands for
    evq,      \* the events not yet handled
    mv,       \* moved_from_cookie, moved_to_cookie, and delete_wd
    wst,      \* "start", "runs", "SIGSEGV", "exit"
    past      \* what happened: [ops, hasty, dir, out, moved]

watchvars == <<loc, ver, watched, info, evq, mv, wst, past>>

Exists(o) == loc[o] # Absent
Name(o)   == <<o, ver[o]>>
RECURSIVE Path(_)
Path(o) == IF o \in {Root, Out} THEN <<<<o, 0>>>> ELSE Append(Path(loc[o]), Name(o))
InTree == {o \in Objects : Exists(o) /\ Head(Path(o)) = <<Root, 0>>}

WatchInit == /\ loc = Places /\ ver = [o \in Objects |-> 0]
             /\ watched = {} /\ info = [o \in Objects \cup {Root} |-> NoInfo] /\ evq = <<>>
             /\ mv = [from |-> 0, to |-> 0, del |-> "none"] /\ wst = "start"
             /\ past = [ops |-> 0, hasty |-> FALSE, dir |-> FALSE, out |-> FALSE, moved |-> {}]

\* nftw() over the tree, with a watch for everything in it.
watch_files_recursively ==
    /\ wst = "start" /\ wst' = "runs"
    /\ watched' = InTree \cup {Root}
    /\ info' = [o \in DOMAIN info |-> IF o \in watched' THEN Path(o) ELSE NoInfo]
    /\ UNCHANGED <<loc, ver, evq, mv, past>>

-----------------------------------------------------------------------------
(* Operations on the tree and the events they queue *)

Event(what, wd, name, cookie) == [what |-> what, wd |-> wd, name |-> name, cookie |-> cookie]
\* An event reaches the queue if its inode has a watch.
Queue(events) == evq' = evq \o SelectSeq(events, LAMBDA e : e.wd \in watched)
Acts(dir, out, moved) ==
    /\ wst = "runs" /\ past.ops < MaxOps /\ Len(evq) < MaxQueue
    /\ past' = [past EXCEPT !.ops = @ + 1, !.hasty = @ \/ evq # <<>>, !.dir = @ \/ dir,
                            !.out = @ \/ out, !.moved = @ \cup moved]
    /\ UNCHANGED <<info, mv, wst>>

Create(o, d) == /\ Acts(FALSE, FALSE, {}) /\ ~Exists(o) /\ (d \in Dirs => Exists(d))
                /\ loc' = [loc EXCEPT ![o] = d] /\ UNCHANGED <<ver, watched>>
                /\ Queue(<<Event("IN_CREATE", d, Name(o), 0)>>)

Delete(o) == /\ Acts(FALSE, FALSE, {}) /\ Exists(o) /\ \A p \in Objects : loc[p] # o
             /\ loc' = [loc EXCEPT ![o] = Absent] /\ UNCHANGED ver
             /\ Queue(<<Event("IN_DELETE_SELF", o, Name(o), 0), Event("IN_IGNORED", o, Name(o), 0)>>)
             /\ watched' = watched \ {o}

\* rename() into directory d, or within the one it is in.
Move(o, d) ==
    /\ Exists(o) /\ (d \in Dirs => Exists(d)) /\ Acts(o \in Dirs, Head(Path(d)) # <<Root, 0>>, {o})
    /\ d # o /\ (d \in Dirs => \A i \in DOMAIN Path(d) : Path(d)[i] # Name(o))
    /\ loc' = [loc EXCEPT ![o] = d] /\ ver' = [ver EXCEPT ![o] = @ + 1] /\ UNCHANGED watched
    /\ Queue(<<Event("IN_MOVED_FROM", loc[o], Name(o), past'.ops),
               Event("IN_MOVED_TO", d, <<o, ver[o] + 1>>, past'.ops),
               Event("IN_MOVE_SELF", o, Name(o), past'.ops)>>)

-----------------------------------------------------------------------------
(* handle_event() *)

Told(what) == wst = "runs" /\ evq # <<>> /\ Head(evq).what = what
Handled    == evq' = Tail(evq) /\ UNCHANGED <<loc, ver, past>>

\* The watch for a path: without an object there errExit() ends the program.
add_watch(path) ==
    LET found == {o \in Objects : Exists(o) /\ Path(o) = path}
    IN IF found = {} THEN wst' = "exit" /\ UNCHANGED <<watched, info>>
       ELSE LET wd == CHOOSE o \in found : TRUE
            IN /\ watched' = watched \cup {wd} /\ info' = [info EXCEPT ![wd] = path]
               /\ UNCHANGED wst

\* The table's entry goes; the watch itself stays with the kernel.
remove_watch(wd) == info' = [info EXCEPT ![wd] = NoInfo]

\* get_path() of a descriptor without an entry dereferences NULL.
get_path(then) == LET e == Head(evq)
                  IN IF info[e.wd] = NoInfo
                     THEN wst' = "SIGSEGV" /\ UNCHANGED <<watched, info, mv>>
                     ELSE then
compose_path == Append(info[Head(evq).wd], Head(evq).name)

HandleCreate == /\ Told("IN_CREATE") /\ Handled
                /\ get_path(add_watch(compose_path) /\ UNCHANGED mv)

HandleMovedFrom == /\ Told("IN_MOVED_FROM") /\ Handled
                   /\ get_path(/\ mv' = [mv EXCEPT !.from = Head(evq).cookie]
                               /\ UNCHANGED <<watched, info, wst>>)

\* Without the IN_MOVED_FROM of the same cookie it came from elsewhere.
HandleMovedTo ==
    /\ Told("IN_MOVED_TO") /\ Handled
    /\ get_path(/\ mv' = [mv EXCEPT !.to = Head(evq).cookie]
                /\ IF Head(evq).cookie # mv.from THEN add_watch(compose_path)
                   ELSE UNCHANGED <<watched, info, wst>>)

HandleMoveSelf ==
    /\ Told("IN_MOVE_SELF") /\ Handled /\ UNCHANGED watched
    /\ IF mv.from = mv.to \/ mv.from = 0
       THEN mv' = [mv EXCEPT !.from = 0] /\ UNCHANGED <<info, wst>>
       ELSE IF info[Head(evq).wd] = NoInfo THEN wst' = "SIGSEGV" /\ UNCHANGED <<info, mv>>
       ELSE /\ remove_watch(Head(evq).wd) /\ mv' = [mv EXCEPT !.from = 0] /\ UNCHANGED wst

HandleDeleteSelf ==
    /\ Told("IN_DELETE_SELF") /\ Handled
    /\ get_path(/\ remove_watch(Head(evq).wd) /\ mv' = [mv EXCEPT !.del = Head(evq).wd]
                /\ UNCHANGED <<watched, wst>>)

HandleIgnored ==
    /\ Told("IN_IGNORED") /\ Handled /\ UNCHANGED <<watched, mv, wst>>
    /\ IF mv.del # "none" /\ Head(evq).wd # mv.del THEN remove_watch(Head(evq).wd)
       ELSE UNCHANGED info

WatchNext == \/ watch_files_recursively
             \/ \E o \in Objects, d \in Dirs \cup {Root, Out} : Create(o, d) \/ Move(o, d)
             \/ \E o \in Objects : Delete(o)
             \/ HandleCreate \/ HandleMovedFrom \/ HandleMovedTo \/ HandleMoveSelf
             \/ HandleDeleteSelf \/ HandleIgnored
-----------------------------------------------------------------------------
\* The types of the variables of the watch.
WatchTypeOK == /\ loc \in [Objects -> Dirs \cup {Root, Out, Absent}] /\ ver \in [Objects -> Nat]
               /\ watched \subseteq Objects \cup {Root} /\ DOMAIN info = Objects \cup {Root}
               /\ mv.from \in 0 .. MaxOps /\ mv.to \in 0 .. MaxOps
               /\ wst \in {"start", "runs", "SIGSEGV", "exit"}

\* As long as every event is handled before the next operation and no directory
\* is moved: everything in the tree is watched, by its own path if it never was
\* renamed, and the program does not exit.  It dereferences NULL only when
\* something has left the tree, whose watch lives on, or when it is too late.
WatchSafe ==
    /\ wst = "runs" /\ evq = <<>> /\ ~past.hasty /\ ~past.dir =>
         /\ InTree \subseteq watched
         /\ \A o \in InTree : /\ info[o] # NoInfo
                              /\ o \notin past.moved => info[o] = Path(o)
    /\ wst = "exit" => past.hasty \/ past.dir
    /\ wst = "SIGSEGV" => past.out \/ past.hasty \/ past.dir
=============================================================================
