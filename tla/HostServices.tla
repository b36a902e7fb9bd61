---------------------------- MODULE HostServices ----------------------------
(***************************************************************************)
(* The services of HOST_API that answer a mod with text or touch the disk  *)
(* for it: the pure part of src/bl/host.rs.                                *)
(*                                                                         *)
(* A text is a sequence of characters, of which "wide" takes two bytes;    *)
(* "lost" is U+FFFD, whose bytes are taken as one.  What a mod hands over  *)
(* are bytes, and what it is given is written into a buffer of its own.    *)
(***************************************************************************)
EXTENDS Disk

CONSTANTS
  Says,      \* the bytes of each of Contents
  Views,     \* what mods hand over as text
  GameDir,   \* the place of the game's executable
  ModsName, CacheName,  \* "mods" and ".bl-cache"
  MaxRoom    \* bound: how large a buffer is

Octets == {"char", "NUL", "lost", "lead", "trail"}

ASSUME HostServicesAssumption ==
  /\ DOMAIN Says = Contents /\ GameDir \in Places /\ MaxRoom \in Nat
  /\ GameDir \o <<ModsName, CacheName>> \in Places
  /\ Views \subseteq Seq(Octets)

Encoded(text) ==
  LET bytes[i \in 0 .. Len(text)] ==
        IF i = 0 THEN <<>>
        ELSE IF text[i] = "wide" THEN bytes[i - 1] \o <<"lead", "trail">>
        ELSE Append(bytes[i - 1], text[i])
  IN bytes[Len(text)]

(* String::from_utf8_lossy: half a character is lost unless the rest follows *)
Decoded(bytes) ==
  LET Whole(i) == i > 1 /\ bytes[i - 1] = "lead" /\ bytes[i] = "trail"
      text[i \in 0 .. Len(bytes)] ==
        IF i = 0 THEN <<>>
        ELSE IF Whole(i) THEN Append(Front(text[i - 1]), "wide")
        ELSE Append(text[i - 1], IF bytes[i] \in {"lead", "trail"} THEN "lost" ELSE bytes[i])
  IN text[Len(bytes)]
Unicode(bytes) == Encoded(Decoded(bytes)) = bytes

(* view_to_string: what is left between the NULs at its ends *)
ViewToString(bytes) ==
  LET text  == Decoded(bytes)
      shown == {i \in DOMAIN text : text[i] # "NUL"}
  IN IF shown = {} THEN <<>> ELSE SubSeq(text, Min(shown), Max(shown))

(* There is a content for whatever is written. *)
ASSUME ContentsAssumption ==
  \A view \in Views : \E c \in Contents : Says[c] = Encoded(ViewToString(view))

(* Mutant: the end is written behind a text that fills the buffer. *)
CopyTextPast(bytes, buffer) ==
  LET length == Min({Len(bytes), Len(buffer)})
      copied == SubSeq(bytes, 1, length) \o <<"NUL">>
  IN [length |-> Len(bytes),
      buffer |-> IF buffer = <<>> THEN <<>>
                 ELSE copied \o SubSeq(buffer, Len(copied) + 1, Len(buffer))]
(* copy_text: the answer is the length of the whole, without its end *)
CopyText(bytes, buffer) ==
  LET length == Min({Len(bytes), Len(buffer) - 1})
      copied == SubSeq(bytes, 1, length) \o <<"NUL">>
  IN [length |-> Len(bytes),
      buffer |-> IF buffer = <<>> THEN <<>>
                 ELSE copied \o SubSeq(buffer, Len(copied) + 1, Len(buffer))]

(* is_public_runtime_info_key, for the kinds of keys the answers tell apart: *)
(* one that is a constant of this build or of the process, the list of the   *)
(* mods, one below a public prefix that nothing is known of, one of          *)
(* ui.native_hud that is not public, and any other.                          *)
InfoKeys == {"constant", "mod_list", "prefixed", "native_hud", "other"}
IsPublicRuntimeInfoKey(key) == key \notin {"native_hud", "other"}

-----------------------------------------------------------------------------
(* The services that touch the disk; allowed is file_io_policy's answer.     *)

CreateDirAll(disk, p) == WithWayTo(disk, p, Max(Passable(disk, p)))

(* host_get_path: copy_path gives the name of a place, one character for each *)
(* of its parts here                                                         *)
HostGetPath(allowed, disk, kind) ==
  LET place == CASE kind = "game"  -> GameDir
                 [] kind = "mods"  -> Append(GameDir, ModsName)
                 [] kind = "cache" -> GameDir \o <<ModsName, CacheName>>
                 [] OTHER          -> <<>>
  IN Result(IF kind = "cache" /\ allowed THEN CreateDirAll(disk, place) ELSE disk,
            [i \in DOMAIN place |-> "char"])

HostPathExists(disk, p) == disk[p] # Absent

HostCreateDir(allowed, disk, p) ==
  IF ~allowed THEN Result(disk, FALSE)
  ELSE LET made == CreateDirAll(disk, p) IN Result(made, made[p] = Directory)

(* Nothing is read of a file that is not there or is not UTF-8. *)
HostReadTextFile(disk, p, buffer) ==
  IF IsFile(disk, p) /\ Unicode(Says[disk[p]])
  THEN CopyText(Says[disk[p]], buffer)
  ELSE [length |-> 0, buffer |-> buffer]

HostWriteTextFile(allowed, disk, p, view) ==
  LET way  == CreateDirAll(disk, Front(p))
      text == CHOOSE c \in Contents : Says[c] = Encoded(ViewToString(view))
      put  == Put(way, p, text)
  IN IF ~allowed THEN Result(disk, -3)
     ELSE IF ~IsDirectory(way, Front(p)) THEN Result(way, -2)
     ELSE Result(put.disk, IF put.answer = "done" THEN 0 ELSE -1)

-----------------------------------------------------------------------------
Buffer(room) == [i \in 1 .. room |-> "old"]

(* Nothing is written past the buffer, what is written is the beginning of   *)
(* the text, and it ends where the text or the buffer does.                  *)
FitsIn(bytes, room) ==
  LET got == CopyText(bytes, Buffer(room))
      end == Min({Len(bytes), room - 1})
  IN /\ got.length = Len(bytes) /\ Len(got.buffer) = room
     /\ room > 0 => got.buffer = SubSeq(bytes, 1, end) \o <<"NUL">> \o Buffer(room - 1 - end)

ConsistentDisks ==
  {disk \in Disks : \A p \in Places : disk[p] # Absent => CanHold(disk, p)}

(* What a mod has written it can read again, but for the NULs around it, and  *)
(* in that nothing else on the disk is lost, or changed without leave.       *)
WritesAreKept ==
  \A disk \in ConsistentDisks, p \in Places, allowed \in BOOLEAN :
    LET Kept(after) ==
          \A q \in Places :
            after[q] = disk[q] \/ (allowed /\ disk[q] = Absent /\ after[q] = Directory)
    IN /\ \A kind \in {"game", "mods", "cache", "other"} :
            Kept(HostGetPath(allowed, disk, kind).disk)
       /\ LET made == HostCreateDir(allowed, disk, p)
          IN Kept(made.disk) /\ (made.answer => HostPathExists(made.disk, p))
       /\ \A view \in Views :
            LET wrote == HostWriteTextFile(allowed, disk, p, view)
                text  == Encoded(ViewToString(view))
                read  == HostReadTextFile(wrote.disk, p, Buffer(Len(text) + 1))
            IN IF wrote.answer = 0
               THEN /\ allowed /\ read = [length |-> Len(text), buffer |-> Append(text, "NUL")]
                    /\ Kept([wrote.disk EXCEPT ![p] = disk[p]])
               ELSE Kept(wrote.disk)
=============================================================================
