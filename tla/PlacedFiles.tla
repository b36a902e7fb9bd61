---------------------------- MODULE PlacedFiles ----------------------------
(***************************************************************************)
(* What file redirection promises: a file system in which every name of a  *)
(* request has one fixed place, the same at every call. Two requests for   *)
(* one file may have two: what the function is and how the name is written *)
(* (a name from the root of the current drive is not redirected, nor is    *)
(* what no hook sees) belongs to the request. The program's threads ask,   *)
(* the request is performed at the places of its names, and the thread     *)
(* goes on with the answer. The only thing that may happen besides is that *)
(* directories are made on the way to a file about to be created.          *)
(***************************************************************************)
EXTENDS Disk

CONSTANTS Threads,   \* the program's threads
          Requests,  \* what they ask: [api, kind, paths]
          Nobody,    \* no request
          NewContent \* what a creation writes

VARIABLES placing,  \* where the files named in each request are
          disk,     \* what is there
          asked,    \* the request a thread waits for
          answer    \* its answer, or "pending"

vars == <<placing, disk, asked, answer>>

Init ==
    /\ placing \in [Requests -> Seq(Places)]
    /\ disk \in Disks
    /\ asked = [t \in Threads |-> Nobody]
    /\ answer = [t \in Threads |-> "pending"]

Ask(t) ==
    /\ asked[t] = Nobody
    /\ \E r \in Requests : asked' = [asked EXCEPT ![t] = r]
    /\ answer' = [answer EXCEPT ![t] = "pending"]
    /\ UNCHANGED <<placing, disk>>

MakeWay(t) ==
    /\ asked[t] # Nobody /\ asked[t].kind = "create" /\ answer[t] = "pending"
    /\ LET way == Front(placing[asked[t]][1])
       IN \E depth \in Passable(disk, way) : disk' = WithWayTo(disk, way, depth)
    /\ UNCHANGED <<placing, asked, answer>>

Perform(t) ==
    /\ asked[t] # Nobody /\ answer[t] = "pending"
    /\ LET r == asked[t]
           performed == Performed(r.kind, disk, placing[r], NewContent)
       IN /\ disk' = performed.disk
          /\ answer' = [answer EXCEPT ![t] = performed.answer]
    /\ UNCHANGED <<placing, asked>>

GoOn(t) ==
    /\ asked[t] # Nobody /\ answer[t] # "pending"
    /\ asked' = [asked EXCEPT ![t] = Nobody]
    /\ answer' = [answer EXCEPT ![t] = "pending"]
    /\ UNCHANGED <<placing, disk>>

Next == \E t \in Threads : Ask(t) \/ MakeWay(t) \/ Perform(t) \/ GoOn(t)
Spec == Init /\ [][Next]_vars
=============================================================================
