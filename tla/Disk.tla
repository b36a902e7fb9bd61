-------------------------------- MODULE Disk --------------------------------
(***************************************************************************)
(* What the operating system's file functions do to the disk: not          *)
(* BLoader's code.  A place is a sequence of names from the root, and the  *)
(* disk says of every place whether it is absent, a directory, or a file   *)
(* with some content.                                                      *)
(***************************************************************************)
EXTENDS Naturals, SequencesExt

CONSTANTS Places,   \* the places requests may reach
          Contents  \* what a file may contain

Absent == "absent"
Directory == "directory"

ASSUME DiskAssumption ==
    /\ \A p \in Places : Len(p) > 0 /\ (Len(p) > 1 => Front(p) \in Places)
    /\ {Absent, Directory} \cap Contents = {}

Disks == [Places -> Contents \cup {Absent, Directory}]

IsDirectory(disk, p) == p = <<>> \/ disk[p] = Directory
IsFile(disk, p) == disk[p] \in Contents
CanHold(disk, p) == IsDirectory(disk, Front(p))

(* std::fs::create_dir_all, which gets as far as a file in its way and may
   fail before. *)
Passable(disk, p) ==
    {depth \in 0..Len(p) : \A d \in 1..depth : ~IsFile(disk, SubSeq(p, 1, d))}
WithWayTo(disk, p, depth) ==
    [q \in Places |->
       IF IsPrefix(q, p) /\ Len(q) <= depth /\ disk[q] = Absent THEN Directory
       ELSE disk[q]]

Result(disk, answer) == [disk |-> disk, answer |-> answer]
Refused(disk, why) == Result(disk, why)

Put(disk, p, content) ==
    IF ~CanHold(disk, p) THEN Refused(disk, "no path")
    ELSE IF disk[p] = Directory THEN Refused(disk, "denied")
    ELSE Result([disk EXCEPT ![p] = content], "done")

Make(disk, p) ==
    IF ~CanHold(disk, p) THEN Refused(disk, "no path")
    ELSE IF disk[p] # Absent THEN Refused(disk, "denied")
    ELSE Result([disk EXCEPT ![p] = Directory], "done")

Erase(disk, p) ==
    IF IsFile(disk, p) THEN Result([disk EXCEPT ![p] = Absent], "done")
    ELSE Refused(disk, "missing")

(* RemoveDirectory: only an empty one. *)
EraseDirectory(disk, p) ==
    IF disk[p] # Directory THEN Refused(disk, "missing")
    ELSE IF \E q \in Places : IsStrictPrefix(p, q) /\ disk[q] # Absent
    THEN Refused(disk, "denied")
    ELSE Result([disk EXCEPT ![p] = Absent], "done")

Copy(disk, p, q) ==
    IF IsFile(disk, p) THEN Put(disk, q, disk[p]) ELSE Refused(disk, "missing")

MoveOne(disk, p, q) ==
    LET copied == Copy(disk, p, q)
    IN IF copied.answer = "done" /\ p # q
       THEN Result([copied.disk EXCEPT ![p] = Absent], "done") ELSE copied

(* A directory goes with all that is below it, to where there is nothing, and
   not into itself. *)
Carried(disk, p, q) ==
    [r \in Places |->
       LET from == p \o SubSeq(r, Len(q) + 1, Len(r))
       IN IF IsPrefix(p, r) THEN Absent
          ELSE IF IsPrefix(q, r) THEN IF from \in Places THEN disk[from] ELSE Absent
          ELSE disk[r]]
MoveTree(disk, p, q) ==
    IF p = q THEN Result(disk, "done")
    ELSE IF ~CanHold(disk, q) THEN Refused(disk, "no path")
    ELSE IF IsPrefix(p, q) \/ \E r \in Places : IsPrefix(q, r) /\ disk[r] # Absent
    THEN Refused(disk, "denied")
    ELSE Result(Carried(disk, p, q), "done")

Move(disk, p, q) ==
    IF disk[p] = Directory THEN MoveTree(disk, p, q) ELSE MoveOne(disk, p, q)

(* ReplaceFile: the second file takes the first one's place, and the first
   one's content goes to the third. *)
Replace(disk, p, q, backup) ==
    IF IsFile(disk, p) /\ IsFile(disk, q)
    THEN MoveOne(Copy(disk, p, backup).disk, q, p)
    ELSE Refused(disk, "missing")

(* What a request of a kind does at these places. *)
Performed(kind, disk, at, content) ==
    CASE kind = "create" -> Put(disk, at[1], content)
      [] kind = "look" -> Result(disk, disk[at[1]])
      [] kind = "make" -> Make(disk, at[Len(at)])
      [] kind = "remove" -> Erase(disk, at[1])
      [] kind = "rmdir" -> EraseDirectory(disk, at[1])
      [] kind = "copy" -> Copy(disk, at[1], at[2])
      [] kind = "move" -> Move(disk, at[1], at[2])
      [] kind = "replace" -> Replace(disk, at[1], at[2], at[3])
Kinds == {"create", "look", "make", "remove", "rmdir", "copy", "move", "replace"}
NamesFor(kind) == CASE kind = "replace" -> 3 [] kind \in {"copy", "move"} -> 2 [] OTHER -> 1
Answers == Contents \cup {Absent, Directory, "done", "denied", "no path", "missing"}
=============================================================================
