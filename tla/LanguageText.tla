--------------------------- MODULE LanguageText ---------------------------
(***************************************************************************)
(* The text of a language file, line by line, and what it means that the   *)
(* copyright line has been replaced.                                       *)
(***************************************************************************)
EXTENDS Integers, SequencesExt

CONSTANTS Files,  \* the files the program opens
          Text,   \* what is in each on the disk: [Files -> Seq(Line)]
          Values, \* what a line says, its key left out
          Launch  \* the launch text among them

Ends == {"none", "lf", "crlf"}
Line == [bom : BOOLEAN, key : {"copyright", "other"}, value : Values, end : Ends]

(* Only the last line may have no end. *)
ASSUME LanguageTextAssumption ==
    /\ Text \in [Files -> Seq(Line)] /\ Launch \in Values
    /\ \A f \in Files : \A i \in 1..(Len(Text[f]) - 1) : Text[f][i].end # "none"

(* A byte order mark ahead of the key hides it but on the first line. *)
IsCopyright(lines, i) == lines[i].key = "copyright" /\ (lines[i].bom => i = 1)

(* `shown` is `lines` with the launch text as its copyright line: all other
   lines are there, in their order and with their ends; there is a copyright
   line, the last one when there was none, and none bears another text. *)
Launched(lines, shown) ==
    LET kept == Len(lines)
        was == {i \in 1..kept : IsCopyright(lines, i)}
        SameBut(i) == [shown[i] EXCEPT !.value = lines[i].value, !.end = lines[i].end] = lines[i]
    IN /\ Len(shown) = IF was = {} THEN kept + 1 ELSE kept
       /\ \A i \in 1..kept :
            /\ SameBut(i)
            /\ shown[i].value = IF i \in was THEN Launch ELSE lines[i].value
            /\ shown[i].end # lines[i].end =>
                 lines[i].end = "none" /\ was = {} /\ i = kept
       /\ \A i \in 1..(Len(shown) - 1) : shown[i].end # "none"
       /\ was = {} => /\ IsCopyright(shown, kept + 1)
                      /\ shown[kept + 1].value = Launch
                      /\ ~shown[kept + 1].bom
=============================================================================
