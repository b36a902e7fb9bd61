--------------------------- MODULE Logging_proofs ---------------------------
(***************************************************************************)
(* The safety of logging.                                                  *)
(*                                                                         *)
(* LogPipeline, for any threads, messages and queue limits: a message has  *)
(* two ways to go, one to the files and one to the console.  On each it is *)
(* at one place at a time: not logged yet, in one queue, with one thread,  *)
(* or written; a step moves messages from one place to another or drops    *)
(* them.                                                                   *)
(*                                                                         *)
(* SessionLogs, for any lines of other programs, configurations and number *)
(* of sessions: what is split, sifted and read is followed piece by piece, *)
(* and the first piece of a line is at one place at a time.                *)
(***************************************************************************)
EXTENDS LogPipeline, SessionLogs, SequenceTheorems, FiniteSetTheorems, WellFoundedInduction, TLAPS

PreStages   == {"dllmain", "early", "early_replay"}
LateStages  == {"markers", "write_markers", "publish", "replay", "done"}
ReadyStages == {"drain", "write_early"} \cup LateStages
Stages      == PreStages \cup {"natives", "init"} \cup ReadyStages
PcValues    == {"idle", "push", "pending", "marker_push", "marker_write", "mirror",
                "write", "queue", "emit", "save", "activate", "drain", "flush"}
OnMirror    == {"mirror", "write", "queue"}
Carrying    == PcValues \ {"idle", "activate", "drain", "flush"}

FlagTypes ==
  /\ stage \in Stages /\ mode \in Modes /\ level \in {Info, Debug}
  /\ noisy \in Noises /\ console \in BOOLEAN
  /\ ready \in BOOLEAN /\ (ready <=> stage \in ReadyStages)
  /\ configured \in BOOLEAN /\ (configured <=> stage \in LateStages)

QueueTypes ==
  /\ early \in Seq(Msgs) /\ backlog \in Seq(Msgs) /\ pending \in Seq(Msgs)
  /\ markers \in Seq(Msgs) /\ batch \in Seq(Msgs) /\ flushing \subseteq Msgs

CallTypes ==
  /\ pc \in [Procs -> PcValues] /\ msg \in [Procs -> Msgs \cup {NoMsg}]
  /\ emits \in [Procs -> BOOLEAN]
  /\ \A p \in Procs : pc[p] \in Carrying => msg[p] \in Msgs
  /\ pc["io"] \notin Carrying

SinkTypes ==
  /\ stamp \in [Msgs -> Nat] /\ filed \in [Msgs -> Nat] /\ screen \in Seq(Msgs)
  /\ IsFiniteSet(Logged) /\ preloadAt \in Nat

TypeOK == FlagTypes /\ QueueTypes /\ CallTypes /\ SinkTypes

-----------------------------------------------------------------------------
(* Where the messages are.                                                 *)

Q(name) == <<"queue", name>>
T(p)    == <<"thread", p>>

QueueNames == {"new", "early", "pending", "markers", "batch", "backlog", "flushing", "out"}
Places == ({"queue"} \X QueueNames) \cup ({"thread"} \X Procs)

(* What a thread in the middle of a call will take to the files, or to a    *)
(* queue from where it gets there.                                          *)
FileBound(p) ==
  \/ pc[p] \in Carrying \ OnMirror
  \/ pc[p] \in OnMirror /\ (emits[p] \/ msg[p] \in Emergencies)

ScreenBound(p) == pc[p] \in Carrying \ {"emit", "save"}

FileQueues ==
  [new |-> Msgs \ Logged, early |-> Elements(early), pending |-> Elements(pending),
   markers |-> Elements(markers), batch |-> Elements(batch), backlog |-> {},
   flushing |-> {}, out |-> {m \in Msgs : filed[m] # 0}]

FileAt == [x \in Places |->
  IF x[1] = "queue" THEN FileQueues[x[2]]
                    ELSE {m \in Msgs : FileBound(x[2]) /\ msg[x[2]] = m}]

(* The batch of flush_early_events does not go to the console. *)
ScreenQueues ==
  [new |-> Msgs \ Logged, early |-> {}, pending |-> Elements(pending),
   markers |-> Elements(markers),
   batch |-> IF stage = "write_early" THEN {} ELSE Elements(batch),
   backlog |-> Elements(backlog), flushing |-> flushing, out |-> Elements(screen)]

ScreenAt == [x \in Places |->
  IF x[1] = "queue" THEN ScreenQueues[x[2]]
                    ELSE {m \in Msgs : ScreenBound(x[2]) /\ msg[x[2]] = m}]

Apart(at) == \A x, y \in Places : x # y => at[x] \cap at[y] = {}
Distinct(s) == \A i, j \in 1 .. Len(s) : s[i] = s[j] => i = j

QueuesDistinct ==
  /\ Distinct(early) /\ Distinct(pending) /\ Distinct(markers) /\ Distinct(batch)
  /\ Distinct(backlog)

OncePlaced ==
  /\ Apart(FileAt) /\ Apart(ScreenAt)
  /\ QueuesDistinct /\ FiledOnce /\ Distinct(screen)

-----------------------------------------------------------------------------
(* Nothing is lost but what was given up or overtaken.                     *)

KindAt(p) ==
  /\ pc[p] = "push" => msg[p] \in Logs \cup Bridges /\ ~ emits[p]
  /\ pc[p] = "pending" => msg[p] \in Bridges
  /\ pc[p] \in {"marker_push", "marker_write"} => msg[p] \in Markers
  /\ pc[p] = "emit" => msg[p] \notin Emergencies /\ ready
  /\ pc[p] = "save" => msg[p] \in Emergencies
  /\ pc[p] \in OnMirror /\ emits[p] => ready \/ msg[p] \in Emergencies

KindOfCall == \A p \in Procs : KindAt(p)

KindOfQueue ==
  /\ Elements(early) \subseteq Logs \cup Bridges
  /\ Elements(pending) \subseteq Bridges
  /\ Elements(markers) \subseteq Markers
  /\ stage = "write_early" => Elements(batch) \subseteq Logs \cup Bridges
  /\ stage = "write_markers" => Elements(batch) \subseteq Markers
  /\ stage \notin {"write_early", "write_markers"} => Elements(batch) \subseteq Bridges

Asked(m) ==
  \/ m \in Emergencies
  \/ stage \in PreStages \cup {"natives"} \/ Wanted(m)

Somewhere ==
  WritesAllowed =>
    \A m \in Msgs : Asked(m) =>
      \/ m \notin Emergencies /\ m \in dropped \cup overtaken
      \/ \E x \in Places : m \in FileAt[x]

LateCalls(place) == \A p \in Procs : pc[p] = place => msg[p] \in overtaken

LateEarly ==
  stage \in {"write_early"} \cup LateStages =>
    Elements(early) \subseteq overtaken /\ LateCalls("push")
LateMarkers ==
  stage \in LateStages \ {"markers"} =>
    Elements(markers) \subseteq overtaken /\ LateCalls("marker_push")
LatePending ==
  stage \in {"replay", "done"} =>
    Elements(pending) \subseteq overtaken /\ LateCalls("pending")
LateBacklog ==
  console /\ (\A p \in Procs : pc[p] # "drain") =>
    Elements(backlog) \subseteq overtaken /\ LateCalls("queue")
BatchEnds ==
  stage \notin {"early_replay", "write_early", "write_markers", "replay"} => batch = <<>>

(* The post-OEP thread starts last. *)
IoWaits == stage \notin {"publish", "replay", "done"} => pc["io"] = "idle"

NothingLost ==
  /\ KindOfCall /\ KindOfQueue /\ Somewhere
  /\ LateEarly /\ LateMarkers /\ LatePending /\ LateBacklog /\ BatchEnds

-----------------------------------------------------------------------------
(* The bridge's records and the early console.                             *)

Old(m) == stamp[m] # 0 /\ stamp[m] <= preloadAt

EarlyConsole ==
  /\ stage = "early" => pc["boot"] \in {"activate", "drain", "flush", "idle"}
  /\ stage = "early" /\ pc["boot"] # "activate" => console
  /\ stage = "early_replay" =>
       console /\ pc["boot"] \notin {"queue", "pending", "activate"} /\ pending = <<>>
  /\ stage # "early_replay" =>
       (pc["boot"] \in {"push"} \cup OnMirror => msg["boot"] \notin Bridges)
  /\ Elements(backlog) \cap Bridges = {} /\ flushing \cap Bridges = {}

BeforeNatives ==
  stage \in PreStages =>
    /\ \A p \in Procs \ {"boot"} : pc[p] = "idle"
    /\ stage = "dllmain" => mode # "early"
    /\ stage # "dllmain" => mode = "early" /\ \A m \in Logged : Old(m)
    /\ EarlyConsole

NoOldRecordsHeld ==
  mode = "early" /\ stage \notin PreStages =>
    \A x \in Places \ {Q("new"), Q("out")} : \A m \in ScreenAt[x] \cap Bridges : ~ Old(m)

BridgeFirst ==
  /\ preloadAt <= Cardinality(Logged) /\ \A m \in Logged : stamp[m] <= Cardinality(Logged)
  /\ BeforeNatives /\ NoOldRecordsHeld /\ BridgeBeforeNatives

LogInv == TypeOK /\ OncePlaced /\ NothingLost /\ IoWaits /\ BridgeFirst

-----------------------------------------------------------------------------
(* Lists of messages.                                                      *)

LEMMA ElementsTyped ==
    ASSUME NEW s \in Seq(Msgs)
    PROVE  Elements(s) \subseteq Msgs /\ Len(s) \in Nat
  BY DEF Elements

LEMMA EmptyList == Elements(<<>>) = {} /\ Distinct(<<>>) /\ <<>> \in Seq(Msgs)
  BY DEF Elements, Distinct

LEMMA NothingInEmpty ==
    ASSUME NEW s \in Seq(Msgs), s # <<>>
    PROVE  Head(s) \in Elements(s) /\ Head(s) \in Msgs
  BY DEF Elements

LEMMA AppendedList ==
    ASSUME NEW s \in Seq(Msgs), NEW m \in Msgs
    PROVE  /\ Append(s, m) \in Seq(Msgs)
           /\ Elements(Append(s, m)) = Elements(s) \cup {m}
           /\ Distinct(s) /\ m \notin Elements(s) => Distinct(Append(s, m))
  <1>1. /\ Len(Append(s, m)) = Len(s) + 1 /\ Len(s) \in Nat
        /\ \A i \in 1 .. Len(s) : Append(s, m)[i] = s[i]
        /\ Append(s, m)[Len(s) + 1] = m
    OBVIOUS
  <1>2. Elements(Append(s, m)) = Elements(s) \cup {m}
    <2>1. \A i \in 1 .. Len(s) + 1 : i \in 1 .. Len(s) \/ i = Len(s) + 1
      BY <1>1
    <2>2. \A i \in 1 .. Len(s) : i \in 1 .. Len(s) + 1
      BY <1>1
    <2>3. Len(s) + 1 \in 1 .. Len(s) + 1
      BY <1>1
    <2>4. ASSUME NEW e \in Elements(Append(s, m)) PROVE e \in Elements(s) \cup {m}
      <3>1. PICK i \in 1 .. Len(s) + 1 : e = Append(s, m)[i]
        BY <1>1 DEF Elements
      <3> QED
        BY <1>1, <2>1, <3>1 DEF Elements
    <2>5. ASSUME NEW e \in Elements(s) PROVE e \in Elements(Append(s, m))
      <3>1. PICK i \in 1 .. Len(s) : e = s[i]
        BY DEF Elements
      <3> QED
        BY <1>1, <2>2, <3>1 DEF Elements
    <2>6. m \in Elements(Append(s, m))
      BY <1>1, <2>3 DEF Elements
    <2> QED
      BY <2>4, <2>5, <2>6
  <1>3. ASSUME Distinct(s), m \notin Elements(s)
        PROVE  Distinct(Append(s, m))
    <2> SUFFICES ASSUME NEW i \in 1 .. Len(s) + 1, NEW j \in 1 .. Len(s) + 1,
                        Append(s, m)[i] = Append(s, m)[j]
                 PROVE  i = j
      BY <1>1 DEF Distinct
    <2>1. \A k \in 1 .. Len(s) : s[k] # m
      BY <1>3 DEF Elements
    <2>2. CASE i \in 1 .. Len(s) /\ j \in 1 .. Len(s)
      BY <1>1, <1>3, <2>2 DEF Distinct
    <2>3. CASE i \notin 1 .. Len(s) /\ j \in 1 .. Len(s)
      BY <1>1, <2>1, <2>3
    <2>4. CASE i \in 1 .. Len(s) /\ j \notin 1 .. Len(s)
      BY <1>1, <2>1, <2>4
    <2>5. CASE i \notin 1 .. Len(s) /\ j \notin 1 .. Len(s)
      BY <1>1, <2>5
    <2> QED
      BY <2>2, <2>3, <2>4, <2>5
  <1> QED
    BY <1>1, <1>2, <1>3

LEMMA TailOfList ==
    ASSUME NEW s \in Seq(Msgs), s # <<>>, Distinct(s)
    PROVE  /\ Tail(s) \in Seq(Msgs)
           /\ Elements(Tail(s)) = Elements(s) \ {Head(s)}
           /\ Distinct(Tail(s))
  <1>1. /\ Len(Tail(s)) = Len(s) - 1 /\ Len(s) \in Nat \ {0}
        /\ \A i \in 1 .. Len(s) - 1 : Tail(s)[i] = s[i + 1]
        /\ Head(s) = s[1] /\ Tail(s) \in Seq(Msgs)
    OBVIOUS
  <1>2. ASSUME NEW e \in Elements(Tail(s))
        PROVE  e \in Elements(s) /\ e # Head(s)
    <2>1. PICK i \in 1 .. Len(s) - 1 : e = s[i + 1]
      BY <1>1 DEF Elements
    <2>2. i + 1 \in 1 .. Len(s) /\ 1 \in 1 .. Len(s) /\ i + 1 # 1
      BY <1>1
    <2> QED
      BY <1>1, <2>1, <2>2 DEF Elements, Distinct
  <1>3. ASSUME NEW e \in Elements(s), e # Head(s)
        PROVE  e \in Elements(Tail(s))
    <2>1. PICK i \in 1 .. Len(s) : e = s[i]
      BY DEF Elements
    <2>2. i # 1
      BY <1>1, <1>3, <2>1
    <2>3. i - 1 \in 1 .. Len(s) - 1 /\ (i - 1) + 1 = i
      BY <1>1, <2>2
    <2>4. Tail(s)[i - 1] = e
      BY <1>1, <2>1, <2>3
    <2> QED
      BY <1>1, <2>3, <2>4 DEF Elements
  <1>4. Distinct(Tail(s))
    <2> SUFFICES ASSUME NEW i \in 1 .. Len(s) - 1, NEW j \in 1 .. Len(s) - 1,
                        Tail(s)[i] = Tail(s)[j]
                 PROVE  i = j
      BY <1>1 DEF Distinct
    <2>1. i + 1 \in 1 .. Len(s) /\ j + 1 \in 1 .. Len(s)
      BY <1>1
    <2>2. s[i + 1] = s[j + 1]
      BY <1>1
    <2> QED
      BY <2>1, <2>2 DEF Distinct
  <1> QED
    BY <1>1, <1>2, <1>3, <1>4

(* A bounded queue gives up its oldest entry and nothing else. *)
LEMMA PushedList ==
    ASSUME NEW s \in Seq(Msgs), NEW limit \in Nat \ {0}, NEW m \in Msgs,
           Distinct(s), m \notin Elements(s)
    PROVE  /\ PushBounded(s, limit, m) \in Seq(Msgs)
           /\ Distinct(PushBounded(s, limit, m))
           /\ Evicted(s, limit) \subseteq Elements(s)
           /\ Elements(PushBounded(s, limit, m)) =
                (Elements(s) \ Evicted(s, limit)) \cup {m}
  <1>1. CASE Len(s) >= limit
    <2>1. s # <<>>
      BY <1>1
    <2>2. PushBounded(s, limit, m) = Append(Tail(s), m) /\ Evicted(s, limit) = {Head(s)}
      BY <1>1 DEF PushBounded, Evicted
    <2>3. /\ Tail(s) \in Seq(Msgs) /\ Elements(Tail(s)) = Elements(s) \ {Head(s)}
          /\ Distinct(Tail(s)) /\ Head(s) \in Elements(s)
      BY <2>1, TailOfList, NothingInEmpty
    <2>4. m \notin Elements(Tail(s))
      BY <2>3
    <2>5. /\ Append(Tail(s), m) \in Seq(Msgs) /\ Distinct(Append(Tail(s), m))
          /\ Elements(Append(Tail(s), m)) = Elements(Tail(s)) \cup {m}
      BY <2>3, <2>4, AppendedList
    <2>6. Elements(Append(Tail(s), m)) = (Elements(s) \ {Head(s)}) \cup {m}
      BY <2>3, <2>5, Zenon
    <2> QED
      BY <2>2, <2>3, <2>5, <2>6
  <1>2. CASE ~ (Len(s) >= limit)
    <2>1. PushBounded(s, limit, m) = Append(s, m) /\ Evicted(s, limit) = {}
      BY <1>2 DEF PushBounded, Evicted
    <2> QED
      BY <2>1, AppendedList
  <1> QED
    BY <1>1, <1>2

-----------------------------------------------------------------------------
(* Types.                                                                  *)

SameThread(q) == pc'[q] = pc[q] /\ msg'[q] = msg[q] /\ emits'[q] = emits[q]

LEMMA GotoThreads ==
    ASSUME CallTypes, NEW p \in Procs, NEW from, NEW to \in PcValues, Goto(p, from, to)
    PROVE  /\ pc[p] = from /\ pc'[p] = to
           /\ msg'[p] = IF to = "idle" THEN NoMsg ELSE msg[p]
           /\ emits'[p] <=> to # "idle" /\ emits[p]
           /\ \A q \in Procs \ {p} : SameThread(q)
  BY DEF CallTypes, Goto, SameThread

LEMMA GotoTypes ==
    ASSUME CallTypes, NEW p \in Procs, NEW from, NEW to \in PcValues, Goto(p, from, to),
           to \in Carrying => from \in Carrying
    PROVE  CallTypes'
  <1>1. /\ pc' = [pc EXCEPT ![p] = to]
        /\ msg' = [msg EXCEPT ![p] = IF to = "idle" THEN NoMsg ELSE @]
        /\ emits' = [emits EXCEPT ![p] = to # "idle" /\ @]
    BY DEF Goto
  <1>2. pc' \in [Procs -> PcValues] /\ msg' \in [Procs -> Msgs \cup {NoMsg}]
    BY <1>1 DEF CallTypes
  <1>3. emits' \in [Procs -> BOOLEAN]
    BY <1>1 DEF CallTypes
  <1>4. ASSUME NEW q \in Procs, pc'[q] \in Carrying PROVE msg'[q] \in Msgs
    <2>1. CASE q = p
      <3>1. pc[p] = from /\ pc'[p] = to /\ to # "idle" /\ msg'[p] = msg[p]
        BY <1>4, <2>1, GotoThreads DEF Carrying
      <3> QED
        BY <1>4, <2>1, <3>1 DEF CallTypes
    <2>2. CASE q # p
      BY <1>4, <2>2, GotoThreads DEF CallTypes, SameThread
    <2> QED
      BY <2>1, <2>2
  <1>5. pc'["io"] \notin Carrying
    BY GotoThreads DEF CallTypes, SameThread, Procs
  <1> QED
    BY <1>2, <1>3, <1>4, <1>5 DEF CallTypes

LEMMA AfterMirrorPlace ==
    ASSUME NEW p \in Procs
    PROVE  AfterMirror(p) \in {"save", "emit", "idle"}
  BY DEF AfterMirror

LEMMA CalledThreads ==
    ASSUME TypeOK, NEW p \in Procs, NEW m \in Msgs, NEW place \in PcValues, Call(p, m, place)
    PROVE  /\ CallTypes' /\ (stamp \in [Msgs -> Nat])' /\ IsFiniteSet(Logged)'
           /\ stamp'[m] = Cardinality(Logged) + 1 /\ stamp'[m] \in Nat \ {0} /\ stamp[m] = 0
           /\ \A n \in Msgs \ {m} : stamp'[n] = stamp[n]
           /\ Logged' = Logged \cup {m} /\ m \notin Logged
           /\ Cardinality(Logged)' = Cardinality(Logged) + 1
           /\ pc[p] = "idle" /\ pc'[p] = place /\ msg'[p] = m /\ emits'[p] = (place = "mirror")
           /\ \A q \in Procs \ {p} : SameThread(q)
  <1>1. Cardinality(Logged) \in Nat
    BY FS_CardinalityType DEF TypeOK, SinkTypes
  <1>2. /\ stamp' = [stamp EXCEPT ![m] = Cardinality(Logged) + 1] /\ stamp[m] = 0
        /\ pc' = [pc EXCEPT ![p] = place] /\ msg' = [msg EXCEPT ![p] = m]
        /\ emits' = [emits EXCEPT ![p] = place = "mirror"] /\ pc[p] = "idle"
    BY DEF Call, MayLog
  <1>3. /\ stamp' \in [Msgs -> Nat] /\ stamp'[m] = Cardinality(Logged) + 1
        /\ \A n \in Msgs \ {m} : stamp'[n] = stamp[n]
    BY <1>1, <1>2 DEF TypeOK, SinkTypes
  <1>4. Logged' = Logged \cup {m} /\ m \notin Logged
    BY <1>1, <1>2, <1>3 DEF Logged
  <1>5. IsFiniteSet(Logged') /\ Cardinality(Logged') = Cardinality(Logged) + 1
    BY <1>4, FS_AddElement DEF TypeOK, SinkTypes
  <1>6. /\ pc'[p] = place /\ msg'[p] = m /\ emits'[p] = (place = "mirror")
        /\ \A q \in Procs \ {p} : SameThread(q)
    BY <1>2 DEF TypeOK, CallTypes, SameThread
  <1>7. CallTypes'
    <2>1. pc' \in [Procs -> PcValues] /\ msg' \in [Procs -> Msgs \cup {NoMsg}]
      BY <1>2 DEF TypeOK, CallTypes
    <2>2. emits' \in [Procs -> BOOLEAN]
      BY <1>2 DEF TypeOK, CallTypes
    <2>3. \A q \in Procs : pc'[q] \in Carrying => msg'[q] \in Msgs
      BY <1>6 DEF TypeOK, CallTypes, SameThread
    <2>4. p # "io" /\ "io" \in Procs
      BY LoggersAssumption DEF Call, MayLog, Procs
    <2>5. pc'["io"] \notin Carrying
      BY <1>6, <2>4 DEF TypeOK, CallTypes, SameThread
    <2> QED
      BY <2>1, <2>2, <2>3, <2>5 DEF CallTypes
  <1> QED
    BY <1>1, <1>2, <1>3, <1>4, <1>5, <1>6, <1>7

LEMMA StampKept ==
    ASSUME SinkTypes, UNCHANGED stamp
    PROVE  Logged' = Logged /\ IsFiniteSet(Logged)' /\ (stamp \in [Msgs -> Nat])'
  BY DEF SinkTypes, Logged

LEMMA TypesInit == Init => TypeOK
<1> SUFFICES ASSUME Init PROVE TypeOK
  OBVIOUS
<1>1. FlagTypes
  BY ModesAssumption DEF Init, FlagTypes, Stages, PreStages, ReadyStages, LateStages
<1>2. QueueTypes
  BY EmptyList DEF Init, QueueTypes
<1>3. CallTypes
  BY DEF Init, CallTypes, PcValues, Carrying, Procs
<1>4. Logged = {}
  BY DEF Init, Logged
<1>5. SinkTypes
  BY <1>4, EmptyList, FS_EmptySet DEF Init, SinkTypes
<1> QED
  BY <1>1, <1>2, <1>3, <1>5 DEF TypeOK

LEMMA StartTypes ==
    ASSUME TypeOK, NEW p \in Procs, Start(p)
    PROVE  TypeOK'
<1>1. PICK m \in Msgs :
        LogMessage(p, m) \/ BridgeMessage(p, m) \/ Marker(p, m) \/ Emergency(p, m)
  BY DEF Start
<1>2. PICK place \in PcValues : Call(p, m, place)
  BY <1>1 DEF LogMessage, BridgeMessage, Marker, Emergency, PcValues
<1>3. UNCHANGED <<stage, flags, queues, sinks, history>>
  BY <1>2 DEF Call
<1>4. FlagTypes' /\ QueueTypes' /\ (filed \in [Msgs -> Nat])' /\ (screen \in Seq(Msgs))'
      /\ (preloadAt \in Nat)'
  BY <1>3 DEF TypeOK, FlagTypes, QueueTypes, SinkTypes, flags, queues, sinks, history
<1> QED
  BY <1>2, <1>4, CalledThreads DEF TypeOK, SinkTypes

LEMMA StepTypes ==
    ASSUME TypeOK, NEW p \in Procs, Step(p)
    PROVE  TypeOK'
<1> USE DEF flags, queues, sinks, history, calls, Carrying, PcValues
<1>0. FlagTypes /\ QueueTypes /\ CallTypes /\ SinkTypes
  BY DEF TypeOK
<1>m. AfterMirror(p) \in {"save", "emit", "idle"}
  BY AfterMirrorPlace
<1>t. ASSUME UNCHANGED <<stamp, preloadAt>>, (filed \in [Msgs -> Nat])', (screen \in Seq(Msgs))'
      PROVE  SinkTypes'
  BY <1>0, <1>t, StampKept DEF SinkTypes
<1>1. CASE Push(p)
  <2>1. CallTypes' /\ msg[p] \in Msgs
    BY <1>0, <1>1, GotoTypes, GotoThreads DEF Push, CallTypes
  <2>2. early' \in Seq(Msgs)
    BY <1>0, <1>1, <2>1, LimitsAssumption DEF Push, PushBounded, QueueTypes
  <2> QED
    BY <1>0, <1>1, <1>t, <2>1, <2>2 DEF Push, TypeOK, FlagTypes, QueueTypes, SinkTypes
<1>2. CASE QueuePending(p)
  <2>1. CallTypes' /\ msg[p] \in Msgs
    BY <1>0, <1>2, GotoTypes, GotoThreads DEF QueuePending, CallTypes
  <2>2. pending' \in Seq(Msgs)
    BY <1>0, <1>2, <2>1 DEF QueuePending, QueueTypes
  <2> QED
    BY <1>0, <1>2, <1>t, <2>1, <2>2
    DEF QueuePending, TypeOK, FlagTypes, QueueTypes, SinkTypes
<1>3. CASE MarkerPush(p)
  <2>1. CallTypes' /\ msg[p] \in Msgs
    BY <1>0, <1>3, GotoTypes, GotoThreads DEF MarkerPush, CallTypes
  <2>2. markers' \in Seq(Msgs)
    <3>1. markers' \in {markers, Append(markers, msg[p])}
      BY <1>3 DEF MarkerPush
    <3> QED
      BY <1>0, <2>1, <3>1, AppendedList, ZenonT(40) DEF QueueTypes
  <2>3. FlagTypes' /\ SinkTypes'
    BY <1>0, <1>3, <1>t DEF MarkerPush, FlagTypes, SinkTypes
  <2>4. QueueTypes'
    BY <1>0, <1>3, <2>2 DEF MarkerPush, QueueTypes
  <2> QED
    BY <2>1, <2>3, <2>4 DEF TypeOK
<1>4. CASE MarkerWrite(p)
  <2>1. CallTypes' /\ msg[p] \in Msgs
    BY <1>0, <1>4, GotoTypes, GotoThreads DEF MarkerWrite, CallTypes
  <2>2. (filed \in [Msgs -> Nat])' /\ (screen \in Seq(Msgs))'
    BY <1>0, <1>4, <2>1 DEF MarkerWrite, WriteMarkerOut, SinkTypes
  <2> QED
    BY <1>0, <1>4, <1>t, <2>1, <2>2 DEF MarkerWrite, TypeOK, FlagTypes, QueueTypes, SinkTypes
<1>5. CASE Mirror(p)
  <2>1. PICK to \in {"save", "emit", "idle", "write", "queue"} : Goto(p, "mirror", to)
    BY <1>5, <1>m DEF Mirror
  <2>2. CallTypes'
    BY <1>0, <2>1, GotoTypes
  <2> QED
    BY <1>0, <1>5, <1>t, <2>2 DEF Mirror, TypeOK, FlagTypes, QueueTypes, SinkTypes
<1>6. CASE Write(p)
  <2>1. PICK to \in {"save", "emit", "idle"} : Goto(p, "write", to)
    BY <1>6, <1>m DEF Write
  <2>2. CallTypes' /\ msg[p] \in Msgs
    BY <1>0, <2>1, GotoTypes, GotoThreads DEF CallTypes
  <2>3. (screen \in Seq(Msgs))'
    BY <1>0, <1>6, <2>2 DEF Write, SinkTypes
  <2> QED
    BY <1>0, <1>6, <1>t, <2>2, <2>3 DEF Write, TypeOK, FlagTypes, QueueTypes, SinkTypes
<1>7. CASE Queue(p)
  <2>1. PICK to \in {"save", "emit", "idle"} : Goto(p, "queue", to)
    BY <1>7, <1>m DEF Queue
  <2>2. CallTypes' /\ msg[p] \in Msgs
    BY <1>0, <2>1, GotoTypes, GotoThreads DEF CallTypes
  <2>3. backlog' \in Seq(Msgs)
    BY <1>0, <1>7, <2>2, LimitsAssumption DEF Queue, PushBounded, QueueTypes
  <2> QED
    BY <1>0, <1>7, <1>t, <2>2, <2>3 DEF Queue, TypeOK, FlagTypes, QueueTypes, SinkTypes
<1>8. CASE Emit(p)
  <2>1. CallTypes' /\ msg[p] \in Msgs
    BY <1>0, <1>8, GotoTypes, GotoThreads DEF Emit, CallTypes
  <2>2. (filed \in [Msgs -> Nat])'
    BY <1>0, <1>8, <2>1 DEF Emit, SinkTypes
  <2> QED
    BY <1>0, <1>8, <1>t, <2>1, <2>2 DEF Emit, TypeOK, FlagTypes, QueueTypes, SinkTypes
<1>9. CASE Save(p)
  <2>1. CallTypes' /\ msg[p] \in Msgs
    BY <1>0, <1>9, GotoTypes, GotoThreads DEF Save, CallTypes
  <2>2. (filed \in [Msgs -> Nat])'
    BY <1>0, <1>9, <2>1 DEF Save, SinkTypes
  <2> QED
    BY <1>0, <1>9, <1>t, <2>1, <2>2 DEF Save, TypeOK, FlagTypes, QueueTypes, SinkTypes
<1>10. CASE Activate(p)
  <2>1. CallTypes'
    BY <1>0, <1>10, GotoTypes DEF Activate
  <2> QED
    BY <1>0, <1>10, <1>t, <2>1 DEF Activate, TypeOK, FlagTypes, QueueTypes, SinkTypes
<1>11. CASE DrainBacklog(p)
  <2>1. CallTypes'
    BY <1>0, <1>11, GotoTypes DEF DrainBacklog
  <2>2. flushing' \subseteq Msgs /\ backlog' \in Seq(Msgs)
    BY <1>0, <1>11, ElementsTyped, EmptyList DEF DrainBacklog, QueueTypes
  <2> QED
    BY <1>0, <1>11, <1>t, <2>1, <2>2 DEF DrainBacklog, TypeOK, FlagTypes, QueueTypes, SinkTypes
<1>12. CASE FlushRecord(p)
  <2>1. PICK m \in flushing : /\ flushing' = flushing \ {m}
                              /\ screen' = IF Shown(m) THEN Append(screen, m) ELSE screen
    BY <1>12 DEF FlushRecord
  <2>2. flushing' \subseteq Msgs /\ (screen \in Seq(Msgs))'
    BY <1>0, <2>1 DEF QueueTypes, SinkTypes
  <2> QED
    BY <1>0, <1>12, <1>t, <2>2
    DEF FlushRecord, TypeOK, FlagTypes, QueueTypes, CallTypes, SinkTypes
<1>13. CASE FlushEnds(p)
  <2>1. CallTypes'
    BY <1>0, <1>13, GotoTypes DEF FlushEnds
  <2> QED
    BY <1>0, <1>13, <1>t, <2>1 DEF FlushEnds, TypeOK, FlagTypes, QueueTypes, SinkTypes
<1> QED
  BY <1>1, <1>2, <1>3, <1>4, <1>5, <1>6, <1>7, <1>8, <1>9, <1>10, <1>11, <1>12, <1>13
  DEF Step

LEMMA BootTypes ==
    ASSUME TypeOK, Boot
    PROVE  TypeOK'
<1> USE DEF flags, queues, sinks, history, calls, BootAt, Stages, PreStages, ReadyStages,
            LateStages, Procs
<1>0. FlagTypes /\ QueueTypes /\ CallTypes /\ SinkTypes
  BY DEF TypeOK
<1>e. <<>> \in Seq(Msgs)
  BY EmptyList
<1>c. ASSUME UNCHANGED <<msg, emits>>,
             \A q \in Procs : pc'[q] \in {pc[q], "activate"}, pc' \in [Procs -> PcValues]
      PROVE  CallTypes'
  BY <1>0, <1>c DEF CallTypes, Carrying, PcValues
<1>s. ASSUME UNCHANGED <<stamp, preloadAt>>, (filed \in [Msgs -> Nat])', (screen \in Seq(Msgs))'
      PROVE  SinkTypes'
  BY <1>0, <1>s, StampKept DEF SinkTypes
<1>h. ASSUME batch # <<>> PROVE Head(batch) \in Msgs /\ Tail(batch) \in Seq(Msgs)
  BY <1>0, <1>h DEF QueueTypes
<1>1. CASE EnterPreload
  <2>1. Cardinality(Logged) \in Nat /\ UNCHANGED stamp /\ preloadAt' = Cardinality(Logged)
    BY <1>0, <1>1, FS_CardinalityType DEF SinkTypes, EnterPreload
  <2>2. SinkTypes'
    BY <1>0, <1>1, <2>1, StampKept DEF EnterPreload, SinkTypes
  <2>3. pc' \in {pc, [pc EXCEPT !["boot"] = "activate"]} /\ mode' \in Modes
    BY <1>0, <1>1 DEF EnterPreload, FlagTypes
  <2>4. pc' \in [Procs -> PcValues] /\ \A q \in Procs : pc'[q] \in {pc[q], "activate"}
    BY <1>0, <2>3 DEF CallTypes, PcValues
  <2> QED
    BY <1>0, <1>1, <1>c, <2>2, <2>3, <2>4 DEF EnterPreload, TypeOK, FlagTypes, QueueTypes
<1>2. CASE PublishPending
  BY <1>0, <1>2, <1>s, <1>e DEF PublishPending, TypeOK, FlagTypes, QueueTypes, CallTypes, SinkTypes
<1>3. CASE ReplayRecord
  <2>1. /\ pc' = [pc EXCEPT !["boot"] = IF ready THEN "mirror" ELSE "push"]
        /\ msg' = [msg EXCEPT !["boot"] = Head(batch)]
        /\ emits' = [emits EXCEPT !["boot"] = ready] /\ ready \in BOOLEAN
        /\ batch' \in Seq(Msgs) /\ Head(batch) \in Msgs
    BY <1>0, <1>3, <1>h DEF ReplayRecord, FlagTypes
  <2>2. pc' \in [Procs -> PcValues] /\ msg' \in [Procs -> Msgs \cup {NoMsg}]
    BY <1>0, <2>1 DEF CallTypes, PcValues
  <2>3. emits' \in [Procs -> BOOLEAN]
    BY <1>0, <2>1 DEF CallTypes
  <2>4. \A q \in Procs : pc'[q] \in Carrying => msg'[q] \in Msgs
    BY <1>0, <2>1 DEF CallTypes
  <2>5. pc'["io"] \notin Carrying
    BY <1>0, <2>1 DEF CallTypes
  <2> QED
    BY <1>0, <1>3, <1>s, <2>1, <2>2, <2>3, <2>4, <2>5
    DEF ReplayRecord, TypeOK, FlagTypes, QueueTypes, CallTypes, SinkTypes
<1>4. CASE ReplayEnds
  BY <1>0, <1>4, <1>s DEF ReplayEnds, TypeOK, FlagTypes, QueueTypes, CallTypes, SinkTypes
<1>5. CASE InitLevel
  BY <1>0, <1>5, <1>s, LevelsAssumption
  DEF InitLevel, TypeOK, FlagTypes, QueueTypes, CallTypes, SinkTypes
<1>6. CASE SetReady
  BY <1>0, <1>6, <1>s DEF SetReady, TypeOK, FlagTypes, QueueTypes, CallTypes, SinkTypes
<1>7. CASE DrainEarly
  BY <1>0, <1>7, <1>s, <1>e DEF DrainEarly, TypeOK, FlagTypes, QueueTypes, CallTypes, SinkTypes
<1>8. CASE WriteEarly
  <2>1. (filed \in [Msgs -> Nat])' /\ batch' \in Seq(Msgs)
    BY <1>0, <1>8, <1>h DEF WriteEarly, SinkTypes
  <2> QED
    BY <1>0, <1>8, <1>s, <2>1 DEF WriteEarly, TypeOK, FlagTypes, QueueTypes, CallTypes, SinkTypes
<1>9. CASE SetConfigured
  BY <1>0, <1>9, <1>s DEF SetConfigured, TypeOK, FlagTypes, QueueTypes, CallTypes, SinkTypes
<1>10. CASE TakeMarkers
  BY <1>0, <1>10, <1>s, <1>e DEF TakeMarkers, TypeOK, FlagTypes, QueueTypes, CallTypes, SinkTypes
<1>11. CASE WriteMarker
  <2>1. (filed \in [Msgs -> Nat])' /\ (screen \in Seq(Msgs))' /\ batch' \in Seq(Msgs)
    BY <1>0, <1>11, <1>h DEF WriteMarker, WriteMarkerOut, SinkTypes
  <2> QED
    BY <1>0, <1>11, <1>s, <2>1
    DEF WriteMarker, TypeOK, FlagTypes, QueueTypes, CallTypes, SinkTypes
<1>12. CASE BringUpConsole
  <2>1. mode' \in Modes
    BY <1>0, <1>12 DEF BringUpConsole, FlagTypes
  <2>2. pc' \in [Procs -> PcValues] /\ \A q \in Procs : pc'[q] \in {pc[q], "activate"}
    BY <1>0, <1>12 DEF BringUpConsole, CallTypes, PcValues
  <2> QED
    BY <1>0, <1>12, <1>c, <1>s, <2>1, <2>2
    DEF BringUpConsole, TypeOK, FlagTypes, QueueTypes, SinkTypes
<1> QED
  BY <1>1, <1>2, <1>3, <1>4, <1>5, <1>6, <1>7, <1>8, <1>9, <1>10, <1>11, <1>12 DEF Boot

LEMMA TypesStep ==
    ASSUME TypeOK, [Next]_vars
    PROVE  TypeOK'
<1> USE DEF flags, queues, sinks, history, calls
<1>1. CASE IoSkipped
  <2>1. CallTypes'
    BY <1>1, GotoTypes DEF IoSkipped, TypeOK, PcValues, Carrying, Procs
  <2> QED
    BY <1>1, <2>1, StampKept DEF IoSkipped, TypeOK, FlagTypes, QueueTypes, SinkTypes
<1>2. CASE UNCHANGED vars
  BY <1>2, StampKept DEF vars, TypeOK, FlagTypes, QueueTypes, CallTypes, SinkTypes
<1> QED
  BY <1>1, <1>2, BootTypes, StartTypes, StepTypes DEF Next, Done

-----------------------------------------------------------------------------
(* Moving messages.                                                        *)

Moves(at, to, a, b, M, D) ==
  /\ M \subseteq at[a] /\ a # b
  /\ to[a] \subseteq at[a] \ M /\ (at[a] \ M) \ D \subseteq to[a]
  /\ to[b] \subseteq at[b] \cup M /\ (at[b] \cup M) \ D \subseteq to[b]
  /\ \A x \in Places \ {a, b} : to[x] \subseteq at[x] /\ at[x] \ D \subseteq to[x]

(* Some messages go from one place to another, and of D some are dropped. *)
Moved(at, to, D) == \E a, b \in Places : \E M \in SUBSET at[a] : Moves(at, to, a, b, M, D)

LEMMA PlaceOfQueue == \A n \in QueueNames : Q(n) \in Places
  BY DEF Q, Places

LEMMA PlaceOfThread == \A p \in Procs : T(p) \in Places
  BY DEF T, Places

LEMMA PlacesDiffer ==
    /\ \A n \in QueueNames, p \in Procs : Q(n) # T(p)
    /\ \A n, k : n # k => Q(n) # Q(k) /\ T(n) # T(k)
  BY DEF Q, T

LEMMA PlacesByKind ==
    ASSUME NEW x \in Places
    PROVE  \/ \E n \in QueueNames : x = Q(n)
           \/ \E p \in Procs : x = T(p)
  BY DEF Places, Q, T

LEMMA MovedApart ==
    ASSUME NEW at, NEW to, NEW D, Apart(at), Moved(at, to, D)
    PROVE  Apart(to)
<1>1. PICK a \in Places, b \in Places : \E M \in SUBSET at[a] : Moves(at, to, a, b, M, D)
  BY DEF Moved
<1>2. PICK M \in SUBSET at[a] : Moves(at, to, a, b, M, D)
  BY <1>1
<1> SUFFICES ASSUME NEW x \in Places, NEW y \in Places, x # y
             PROVE  to[x] \cap to[y] = {}
  BY DEF Apart
<1>3. at[x] \cap at[y] = {} /\ at[a] \cap at[x] \subseteq (IF x = a THEN at[a] ELSE {})
      /\ at[a] \cap at[y] \subseteq (IF y = a THEN at[a] ELSE {})
  BY DEF Apart
<1>4. to[x] \subseteq (at[x] \ M) \cup (IF x = b THEN M ELSE {})
  BY <1>2, <1>3 DEF Moves
<1>5. to[y] \subseteq (at[y] \ M) \cup (IF y = b THEN M ELSE {})
  BY <1>2, <1>3 DEF Moves
<1> QED
  BY <1>3, <1>4, <1>5

LEMMA MovedKeeps ==
    ASSUME NEW at, NEW to, NEW D, Moved(at, to, D), NEW m, m \notin D,
           \E x \in Places : m \in at[x]
    PROVE  \E x \in Places : m \in to[x]
<1>1. PICK a \in Places, b \in Places : \E M \in SUBSET at[a] : Moves(at, to, a, b, M, D)
  BY DEF Moved
<1>2. PICK M \in SUBSET at[a] : Moves(at, to, a, b, M, D)
  BY <1>1
<1>3. PICK x \in Places : m \in at[x]
  OBVIOUS
<1> QED
  BY <1>2, <1>3 DEF Moves

(* The rest of the places, queue by queue and thread by thread. *)
LEMMA MovedBy ==
    ASSUME NEW at, NEW to, NEW D, NEW a \in Places, NEW b \in Places, a # b,
           NEW M, M \subseteq at[a],
           to[a] = at[a] \ M, (at[b] \cup M) \ D \subseteq to[b], to[b] \subseteq at[b] \cup M,
           \A n \in QueueNames : Q(n) \notin {a, b} => to[Q(n)] = at[Q(n)],
           \A p \in Procs : T(p) \notin {a, b} => to[T(p)] = at[T(p)]
    PROVE  Moved(at, to, D)
<1>1. \A x \in Places \ {a, b} : to[x] = at[x]
  BY PlacesByKind
<1>2. Moves(at, to, a, b, M, D)
  BY <1>1 DEF Moves
<1> QED
  BY <1>2 DEF Moved

LEMMA NothingMoved ==
    ASSUME NEW at, NEW to, NEW D,
           \A n \in QueueNames : to[Q(n)] = at[Q(n)],
           \A p \in Procs : to[T(p)] = at[T(p)]
    PROVE  Moved(at, to, D)
<1>1. Q("new") \in Places /\ Q("out") \in Places /\ Q("new") # Q("out")
  BY PlaceOfQueue DEF QueueNames, Q
<1> DEFINE none == {}
<1>2. /\ none \subseteq at[Q("new")] /\ to[Q("new")] = at[Q("new")] \ none
      /\ (at[Q("out")] \cup none) \ D \subseteq to[Q("out")]
      /\ to[Q("out")] \subseteq at[Q("out")] \cup none
  BY DEF QueueNames
<1> HIDE DEF none
<1> QED
  BY <1>1, <1>2, MovedBy

ContentsAre ==
  /\ \A n \in QueueNames : FileAt[Q(n)] = FileQueues[n] /\ ScreenAt[Q(n)] = ScreenQueues[n]
  /\ \A p \in Procs :
       /\ FileAt[T(p)] = {m \in Msgs : FileBound(p) /\ msg[p] = m}
       /\ ScreenAt[T(p)] = {m \in Msgs : ScreenBound(p) /\ msg[p] = m}

LEMMA Contents == ContentsAre /\ ContentsAre'
<1>1. \A n \in QueueNames : Q(n) \in Places /\ Q(n)[1] = "queue" /\ Q(n)[2] = n
  BY DEF Q, Places
<1>2. \A p \in Procs : T(p) \in Places /\ T(p)[1] # "queue" /\ T(p)[2] = p
  BY DEF T, Places
<1>3. ContentsAre
  BY <1>1, <1>2 DEF ContentsAre, FileAt, ScreenAt
<1>4. ContentsAre'
  BY <1>1, <1>2 DEF ContentsAre, FileAt, ScreenAt
<1> QED
  BY <1>3, <1>4

LEMMA SameThreadPlaces ==
    ASSUME NEW p \in Procs, SameThread(p)
    PROVE  FileAt'[T(p)] = FileAt[T(p)] /\ ScreenAt'[T(p)] = ScreenAt[T(p)]
<1>1. (FileBound(p)' <=> FileBound(p)) /\ (ScreenBound(p)' <=> ScreenBound(p))
  BY DEF SameThread, FileBound, ScreenBound
<1>2. msg'[p] = msg[p]
  BY DEF SameThread
<1>3. /\ FileAt'[T(p)] = {m \in Msgs : FileBound(p)' /\ msg'[p] = m}
      /\ ScreenAt'[T(p)] = {m \in Msgs : ScreenBound(p)' /\ msg'[p] = m}
      /\ FileAt[T(p)] = {m \in Msgs : FileBound(p) /\ msg[p] = m}
      /\ ScreenAt[T(p)] = {m \in Msgs : ScreenBound(p) /\ msg[p] = m}
  BY Contents DEF ContentsAre
<1> QED
  BY <1>1, <1>2, <1>3

LEMMA ThreadToQueue ==
    ASSUME NEW at, NEW to, NEW D, NEW p \in Procs, NEW n \in QueueNames,
           \A k \in QueueNames \ {n} : to[Q(k)] = at[Q(k)],
           \A q \in Procs \ {p} : to[T(q)] = at[T(q)],
           to[T(p)] = {}, to[Q(n)] \subseteq at[Q(n)] \cup at[T(p)],
           (at[Q(n)] \cup at[T(p)]) \ D \subseteq to[Q(n)]
    PROVE  Moved(at, to, D)
<1>1. T(p) \in Places /\ Q(n) \in Places /\ Q(n) # T(p)
  BY PlaceOfQueue, PlaceOfThread, PlacesDiffer
<1>2. \A k \in QueueNames : Q(k) \notin {T(p), Q(n)} => to[Q(k)] = at[Q(k)]
  OBVIOUS
<1>3. \A q \in Procs : T(q) \notin {T(p), Q(n)} => to[T(q)] = at[T(q)]
  OBVIOUS
<1>4. to[T(p)] = at[T(p)] \ at[T(p)]
  OBVIOUS
<1> DEFINE M == at[T(p)]
<1>5. M \subseteq at[T(p)] /\ to[T(p)] = at[T(p)] \ M /\ (at[Q(n)] \cup M) \ D \subseteq to[Q(n)]
      /\ to[Q(n)] \subseteq at[Q(n)] \cup M
  BY <1>4
<1> HIDE DEF M
<1> QED
  BY <1>1, <1>2, <1>3, <1>5, MovedBy

LEMMA QueueToThread ==
    ASSUME NEW at, NEW to, NEW D, NEW p \in Procs, NEW n \in QueueNames,
           NEW M, M \subseteq at[Q(n)],
           \A k \in QueueNames \ {n} : to[Q(k)] = at[Q(k)],
           \A q \in Procs \ {p} : to[T(q)] = at[T(q)],
           to[Q(n)] = at[Q(n)] \ M, to[T(p)] \subseteq at[T(p)] \cup M,
           (at[T(p)] \cup M) \ D \subseteq to[T(p)]
    PROVE  Moved(at, to, D)
<1>1. T(p) \in Places /\ Q(n) \in Places /\ Q(n) # T(p)
  BY PlaceOfQueue, PlaceOfThread, PlacesDiffer
<1>2. \A k \in QueueNames : Q(k) \notin {Q(n), T(p)} => to[Q(k)] = at[Q(k)]
  OBVIOUS
<1>3. \A q \in Procs : T(q) \notin {Q(n), T(p)} => to[T(q)] = at[T(q)]
  OBVIOUS
<1> QED
  BY <1>1, <1>2, <1>3, MovedBy

LEMMA QueueToQueue ==
    ASSUME NEW at, NEW to, NEW D, NEW n \in QueueNames, NEW l \in QueueNames, n # l,
           NEW M, M \subseteq at[Q(n)],
           \A k \in QueueNames \ {n, l} : to[Q(k)] = at[Q(k)],
           \A q \in Procs : to[T(q)] = at[T(q)],
           to[Q(n)] = at[Q(n)] \ M, to[Q(l)] \subseteq at[Q(l)] \cup M,
           (at[Q(l)] \cup M) \ D \subseteq to[Q(l)]
    PROVE  Moved(at, to, D)
<1>1. Q(n) \in Places /\ Q(l) \in Places /\ Q(n) # Q(l)
  BY PlaceOfQueue, PlacesDiffer
<1>2. \A k \in QueueNames : Q(k) \notin {Q(n), Q(l)} => to[Q(k)] = at[Q(k)]
  OBVIOUS
<1> QED
  BY <1>1, <1>2, MovedBy

(* A thread of the system at work. *)
LEMMA ThreadHolds ==
    ASSUME CallTypes, NEW p \in Procs
    PROVE  /\ FileAt[T(p)] = IF FileBound(p) THEN {msg[p]} ELSE {}
           /\ ScreenAt[T(p)] = IF ScreenBound(p) THEN {msg[p]} ELSE {}
           /\ FileBound(p) \/ ScreenBound(p) => msg[p] \in Msgs
<1>1. FileBound(p) \/ ScreenBound(p) => msg[p] \in Msgs
  BY DEF CallTypes, FileBound, ScreenBound, OnMirror, Carrying, PcValues
<1>2. /\ FileAt[T(p)] = {m \in Msgs : FileBound(p) /\ msg[p] = m}
      /\ ScreenAt[T(p)] = {m \in Msgs : ScreenBound(p) /\ msg[p] = m}
  BY Contents DEF ContentsAre
<1> QED
  BY <1>1, <1>2

LEMMA ThreadHoldsNext ==
    ASSUME CallTypes', NEW p \in Procs
    PROVE  /\ FileAt'[T(p)] = IF FileBound(p)' THEN {msg'[p]} ELSE {}
           /\ ScreenAt'[T(p)] = IF ScreenBound(p)' THEN {msg'[p]} ELSE {}
<1>1. FileBound(p)' \/ ScreenBound(p)' => msg'[p] \in Msgs
  BY DEF CallTypes, FileBound, ScreenBound, OnMirror, Carrying, PcValues
<1>2. /\ FileAt'[T(p)] = {m \in Msgs : FileBound(p)' /\ msg'[p] = m}
      /\ ScreenAt'[T(p)] = {m \in Msgs : ScreenBound(p)' /\ msg'[p] = m}
  BY Contents DEF ContentsAre
<1> QED
  BY <1>1, <1>2

(* A step from one place of log_message to a later one on the same way. *)
LEMMA StillFileBound ==
    ASSUME CallTypes, CallTypes', NEW p \in Procs, NEW from \in PcValues,
           NEW to \in PcValues, Goto(p, from, to),
           from \in OnMirror =>
             \/ to \in OnMirror
             \/ to = AfterMirror(p),
           from \notin OnMirror => ~ FileBound(p) /\ to \notin Carrying
    PROVE  FileAt'[T(p)] = FileAt[T(p)]
<1>1. /\ pc[p] = from /\ pc'[p] = to /\ msg'[p] = IF to = "idle" THEN NoMsg ELSE msg[p]
      /\ (emits'[p] <=> to # "idle" /\ emits[p])
  BY GotoThreads
<1>2. CASE from \in OnMirror /\ to \in OnMirror
  <2>1. FileBound(p)' <=> FileBound(p)
    BY <1>1, <1>2 DEF FileBound, OnMirror, Carrying, PcValues
  <2>2. msg'[p] = msg[p]
    BY <1>1, <1>2 DEF OnMirror
  <2> QED
    BY <2>1, <2>2, ThreadHolds, ThreadHoldsNext
<1>3. CASE from \in OnMirror /\ to = AfterMirror(p)
  <2>1. FileBound(p) <=> emits[p] \/ msg[p] \in Emergencies
    BY <1>1, <1>3 DEF FileBound, OnMirror, Carrying, PcValues
  <2>2. FileBound(p)' <=> to \in {"save", "emit"}
    BY <1>1, <1>3 DEF FileBound, OnMirror, Carrying, PcValues, AfterMirror
  <2>3. to \in {"save", "emit"} <=> FileBound(p)
    BY <1>3, <2>1 DEF AfterMirror
  <2>4. FileBound(p) => msg'[p] = msg[p]
    BY <1>1, <2>3
  <2> QED
    BY <2>2, <2>3, <2>4, ThreadHolds, ThreadHoldsNext
<1>4. CASE from \notin OnMirror
  <2>1. ~ FileBound(p) /\ ~ FileBound(p)'
    BY <1>1, <1>4 DEF FileBound, OnMirror, Carrying, PcValues
  <2> QED
    BY <2>1, ThreadHolds, ThreadHoldsNext
<1> QED
  BY <1>2, <1>3, <1>4

OthersKept(p) ==
  \A q \in Procs \ {p} : FileAt'[T(q)] = FileAt[T(q)] /\ ScreenAt'[T(q)] = ScreenAt[T(q)]

LEMMA GotoOthers ==
    ASSUME CallTypes, NEW p \in Procs, NEW from, NEW to \in PcValues, Goto(p, from, to)
    PROVE  OthersKept(p)
  BY GotoThreads, SameThreadPlaces DEF OthersKept

FileKept(S)   == \A k \in QueueNames \ S : FileAt'[Q(k)] = FileAt[Q(k)]
ScreenKept(S) == \A k \in QueueNames \ S : ScreenAt'[Q(k)] = ScreenAt[Q(k)]

LEMMA QueuesAt ==
    /\ FileAt[Q("new")] = Msgs \ Logged /\ ScreenAt[Q("new")] = Msgs \ Logged
    /\ FileAt[Q("early")] = Elements(early) /\ ScreenAt[Q("early")] = {}
    /\ FileAt[Q("pending")] = Elements(pending) /\ ScreenAt[Q("pending")] = Elements(pending)
    /\ FileAt[Q("markers")] = Elements(markers) /\ ScreenAt[Q("markers")] = Elements(markers)
    /\ FileAt[Q("batch")] = Elements(batch)
    /\ ScreenAt[Q("batch")] = IF stage = "write_early" THEN {} ELSE Elements(batch)
    /\ FileAt[Q("backlog")] = {} /\ ScreenAt[Q("backlog")] = Elements(backlog)
    /\ FileAt[Q("flushing")] = {} /\ ScreenAt[Q("flushing")] = flushing
    /\ FileAt[Q("out")] = {m \in Msgs : filed[m] # 0} /\ ScreenAt[Q("out")] = Elements(screen)
<1>1. \A k \in QueueNames : FileAt[Q(k)] = FileQueues[k] /\ ScreenAt[Q(k)] = ScreenQueues[k]
  BY Contents DEF ContentsAre
<1> QED
  BY <1>1 DEF QueueNames, FileQueues, ScreenQueues

LEMMA QueuesAtNext ==
    /\ FileAt'[Q("new")] = Msgs \ Logged' /\ ScreenAt'[Q("new")] = Msgs \ Logged'
    /\ FileAt'[Q("early")] = Elements(early') /\ ScreenAt'[Q("early")] = {}
    /\ FileAt'[Q("pending")] = Elements(pending') /\ ScreenAt'[Q("pending")] = Elements(pending')
    /\ FileAt'[Q("markers")] = Elements(markers') /\ ScreenAt'[Q("markers")] = Elements(markers')
    /\ FileAt'[Q("batch")] = Elements(batch')
    /\ ScreenAt'[Q("batch")] = IF stage' = "write_early" THEN {} ELSE Elements(batch')
    /\ FileAt'[Q("backlog")] = {} /\ ScreenAt'[Q("backlog")] = Elements(backlog')
    /\ FileAt'[Q("flushing")] = {} /\ ScreenAt'[Q("flushing")] = flushing'
    /\ FileAt'[Q("out")] = {m \in Msgs : filed'[m] # 0}
    /\ ScreenAt'[Q("out")] = Elements(screen')
<1>1. \A k \in QueueNames : FileAt'[Q(k)] = FileQueues'[k] /\ ScreenAt'[Q(k)] = ScreenQueues'[k]
  BY Contents DEF ContentsAre
<1> QED
  BY <1>1 DEF QueueNames, FileQueues, ScreenQueues

(* A queue the step does not touch holds what it held. *)
LEMMA UntouchedQueues ==
    /\ stamp' = stamp => FileAt'[Q("new")] = FileAt[Q("new")] /\ ScreenAt'[Q("new")] = ScreenAt[Q("new")]
    /\ ScreenAt'[Q("early")] = ScreenAt[Q("early")]
    /\ early' = early => FileAt'[Q("early")] = FileAt[Q("early")]
    /\ pending' = pending =>
         /\ FileAt'[Q("pending")] = FileAt[Q("pending")]
         /\ ScreenAt'[Q("pending")] = ScreenAt[Q("pending")]
    /\ markers' = markers =>
         /\ FileAt'[Q("markers")] = FileAt[Q("markers")]
         /\ ScreenAt'[Q("markers")] = ScreenAt[Q("markers")]
    /\ batch' = batch =>
         /\ FileAt'[Q("batch")] = FileAt[Q("batch")]
         /\ stage' = stage => ScreenAt'[Q("batch")] = ScreenAt[Q("batch")]
    /\ FileAt'[Q("backlog")] = FileAt[Q("backlog")]
    /\ backlog' = backlog => ScreenAt'[Q("backlog")] = ScreenAt[Q("backlog")]
    /\ FileAt'[Q("flushing")] = FileAt[Q("flushing")]
    /\ flushing' = flushing => ScreenAt'[Q("flushing")] = ScreenAt[Q("flushing")]
    /\ filed' = filed => FileAt'[Q("out")] = FileAt[Q("out")]
    /\ screen' = screen => ScreenAt'[Q("out")] = ScreenAt[Q("out")]
<1>1. stamp' = stamp => Logged' = Logged
  BY DEF Logged
<1> QED
  BY <1>1, QueuesAt, QueuesAtNext

(* On its way out a message leaves its thread for the place given. *)
LEMMA FileOut ==
    ASSUME NEW p \in Procs, NEW n \in QueueNames, NEW D, OthersKept(p), FileKept({n}),
           FileAt'[T(p)] = {}, FileAt'[Q(n)] \subseteq FileAt[Q(n)] \cup FileAt[T(p)],
           (FileAt[Q(n)] \cup FileAt[T(p)]) \ D \subseteq FileAt'[Q(n)]
    PROVE  Moved(FileAt, FileAt', D)
  BY ThreadToQueue DEF OthersKept, FileKept

LEMMA ScreenOut ==
    ASSUME NEW p \in Procs, NEW n \in QueueNames, OthersKept(p), ScreenKept({n}),
           ScreenAt'[T(p)] = {}, ScreenAt'[Q(n)] \subseteq ScreenAt[Q(n)] \cup ScreenAt[T(p)],
           CallTypes, ScreenAt[Q(n)] \subseteq Msgs
    PROVE  Moved(ScreenAt, ScreenAt', Msgs)
<1>1. ScreenAt[T(p)] \subseteq Msgs
  BY ThreadHolds
<1>2. (ScreenAt[Q(n)] \cup ScreenAt[T(p)]) \ Msgs \subseteq ScreenAt'[Q(n)]
  BY <1>1
<1> QED
  BY <1>2, ThreadToQueue DEF OthersKept, ScreenKept

LEMMA FileStill ==
    ASSUME NEW p \in Procs, NEW D, OthersKept(p), FileKept({}), FileAt'[T(p)] = FileAt[T(p)]
    PROVE  Moved(FileAt, FileAt', D)
  BY NothingMoved DEF OthersKept, FileKept

LEMMA ScreenStill ==
    ASSUME NEW p \in Procs, OthersKept(p), ScreenKept({}), ScreenAt'[T(p)] = ScreenAt[T(p)]
    PROVE  Moved(ScreenAt, ScreenAt', Msgs)
  BY NothingMoved DEF OthersKept, ScreenKept

MovesAll(D) == Moved(FileAt, FileAt', D) /\ Moved(ScreenAt, ScreenAt', Msgs)

OnceStep(D) == MovesAll(D) /\ QueuesDistinct' /\ FiledOnce' /\ Distinct(screen')

LEMMA OncePlacedKept ==
    ASSUME OncePlaced, NEW D, OnceStep(D)
    PROVE  OncePlaced'
  BY MovedApart DEF OncePlaced, OnceStep, MovesAll

(* What one thread has to write is not in any queue and not written yet. *)
LEMMA HeldOnce ==
    ASSUME OncePlaced, CallTypes, NEW p \in Procs
    PROVE  /\ FileBound(p) =>
                /\ msg[p] \in Msgs /\ filed[msg[p]] = 0
                /\ msg[p] \notin Elements(early) /\ msg[p] \notin Elements(pending)
                /\ msg[p] \notin Elements(markers)
           /\ ScreenBound(p) =>
                /\ msg[p] \in Msgs /\ msg[p] \notin Elements(screen)
                /\ msg[p] \notin Elements(backlog) /\ msg[p] \notin Elements(pending)
                /\ msg[p] \notin Elements(markers)
<1>1. \A n \in QueueNames :
        FileAt[T(p)] \cap FileAt[Q(n)] = {} /\ ScreenAt[T(p)] \cap ScreenAt[Q(n)] = {}
  BY PlaceOfQueue, PlaceOfThread, PlacesDiffer DEF OncePlaced, Apart
<1>2. /\ FileAt[T(p)] = IF FileBound(p) THEN {msg[p]} ELSE {}
      /\ ScreenAt[T(p)] = IF ScreenBound(p) THEN {msg[p]} ELSE {}
      /\ FileBound(p) \/ ScreenBound(p) => msg[p] \in Msgs
  BY ThreadHolds
<1> QED
  BY <1>1, <1>2, QueuesAt DEF QueueNames

LEMMA WrittenToFiles ==
    ASSUME OncePlaced, SinkTypes, NEW m \in Msgs, filed[m] = 0, NEW n \in {0, 1},
           filed' = [filed EXCEPT ![m] = @ + n]
    PROVE  /\ FiledOnce'
           /\ FileAt'[Q("out")] = FileAt[Q("out")] \cup (IF n = 1 THEN {m} ELSE {})
<1>1. filed'[m] = n /\ \A k \in Msgs \ {m} : filed'[k] = filed[k]
  BY DEF SinkTypes
<1>2. FiledOnce'
  BY <1>1 DEF OncePlaced, FiledOnce
<1>3. {k \in Msgs : filed'[k] # 0} = {k \in Msgs : filed[k] # 0} \cup (IF n = 1 THEN {m} ELSE {})
  BY <1>1
<1> QED
  BY <1>2, <1>3, QueuesAt, QueuesAtNext

LEMMA WrittenToScreen ==
    ASSUME OncePlaced, SinkTypes, NEW m \in Msgs, m \notin Elements(screen),
           screen' \in {screen, Append(screen, m)}
    PROVE  /\ Distinct(screen')
           /\ ScreenAt'[Q("out")] \subseteq ScreenAt[Q("out")] \cup {m}
  BY AppendedList, QueuesAt, QueuesAtNext, ZenonT(40) DEF OncePlaced, SinkTypes

Unwritten == IF WritesAllowed THEN {} ELSE Msgs

LEMMA PushMoves ==
    ASSUME TypeOK, TypeOK', OncePlaced, KindOfCall, NEW p \in Procs, Push(p)
    PROVE  /\ OnceStep(Evicted(early, EarlyLimit))
           /\ Evicted(early, EarlyLimit) \subseteq Elements(early)
           /\ Elements(early') = (Elements(early) \ Evicted(early, EarlyLimit)) \cup {msg[p]}
<1> USE DEF QueueNames
<1>0. CallTypes /\ CallTypes' /\ early \in Seq(Msgs) /\ EarlyLimit \in Nat \ {0}
  BY LimitsAssumption DEF TypeOK, QueueTypes
<1>1. Goto(p, "push", "mirror") /\ "push" \in PcValues /\ "mirror" \in PcValues
  BY DEF Push, PcValues
<1>2. /\ pc[p] = "push" /\ pc'[p] = "mirror" /\ msg'[p] = msg[p] /\ (emits'[p] <=> emits[p])
      /\ OthersKept(p)
  BY <1>0, <1>1, GotoThreads, GotoOthers
<1>3. /\ FileBound(p) /\ ~ FileBound(p)' /\ ScreenBound(p) /\ ScreenBound(p)'
      /\ msg[p] \in Msgs
  BY <1>0, <1>2, ThreadHolds, MsgsAssumption
  DEF FileBound, ScreenBound, Carrying, PcValues, OnMirror, KindOfCall, KindAt
<1>4. /\ FileAt[T(p)] = {msg[p]} /\ FileAt'[T(p)] = {} /\ ScreenAt'[T(p)] = ScreenAt[T(p)]
  BY <1>0, <1>2, <1>3, ThreadHolds, ThreadHoldsNext
<1>5. msg[p] \notin Elements(early) /\ Distinct(early)
  BY <1>0, <1>3, HeldOnce DEF OncePlaced, QueuesDistinct
<1>6. /\ early' = PushBounded(early, EarlyLimit, msg[p])
      /\ UNCHANGED <<stage, backlog, pending, markers, batch, flushing, stamp, filed, screen>>
  BY DEF Push, sinks
<1>7. /\ Distinct(early') /\ Evicted(early, EarlyLimit) \subseteq Elements(early)
      /\ Elements(early') = (Elements(early) \ Evicted(early, EarlyLimit)) \cup {msg[p]}
  BY <1>0, <1>3, <1>5, <1>6, PushedList
<1>8. FileKept({"early"}) /\ ScreenKept({})
  BY <1>6, UntouchedQueues DEF FileKept, ScreenKept
<1>9. /\ FileAt'[Q("early")] \subseteq FileAt[Q("early")] \cup FileAt[T(p)]
      /\ (FileAt[Q("early")] \cup FileAt[T(p)]) \ Evicted(early, EarlyLimit)
           \subseteq FileAt'[Q("early")]
  BY <1>4, <1>7, QueuesAt, QueuesAtNext
<1>10. QueuesDistinct' /\ FiledOnce' /\ Distinct(screen')
  BY <1>6, <1>7 DEF OncePlaced, QueuesDistinct, FiledOnce
<1> QED
  BY <1>2, <1>4, <1>7, <1>8, <1>9, <1>10, FileOut, ScreenStill DEF OnceStep, MovesAll

LEMMA QueuePendingMoves ==
    ASSUME TypeOK, TypeOK', OncePlaced, NEW p \in Procs, QueuePending(p)
    PROVE  /\ OnceStep({})
           /\ Elements(pending') = Elements(pending) \cup {msg[p]}
<1> USE DEF QueueNames
<1>0. CallTypes /\ CallTypes' /\ pending \in Seq(Msgs)
  BY DEF TypeOK, QueueTypes
<1>1. Goto(p, "pending", "idle") /\ "idle" \in PcValues
  BY DEF QueuePending, PcValues
<1>2. pc[p] = "pending" /\ pc'[p] = "idle" /\ OthersKept(p)
  BY <1>0, <1>1, GotoThreads, GotoOthers
<1>3. /\ FileBound(p) /\ ~ FileBound(p)' /\ ScreenBound(p) /\ ~ ScreenBound(p)'
      /\ msg[p] \in Msgs
  BY <1>0, <1>2, ThreadHolds DEF FileBound, ScreenBound, Carrying, PcValues, OnMirror
<1>4. /\ FileAt[T(p)] = {msg[p]} /\ FileAt'[T(p)] = {}
      /\ ScreenAt[T(p)] = {msg[p]} /\ ScreenAt'[T(p)] = {}
  BY <1>0, <1>3, ThreadHolds, ThreadHoldsNext
<1>5. msg[p] \notin Elements(pending) /\ Distinct(pending)
  BY <1>0, <1>3, HeldOnce DEF OncePlaced, QueuesDistinct
<1>6. /\ pending' = Append(pending, msg[p])
      /\ UNCHANGED <<stage, early, backlog, markers, batch, flushing, stamp, filed, screen>>
  BY DEF QueuePending, sinks
<1>7. Distinct(pending') /\ Elements(pending') = Elements(pending) \cup {msg[p]}
  BY <1>0, <1>3, <1>5, <1>6, AppendedList
<1>8. FileKept({"pending"}) /\ ScreenKept({"pending"})
  BY <1>6, UntouchedQueues DEF FileKept, ScreenKept
<1>9. /\ FileAt'[Q("pending")] = FileAt[Q("pending")] \cup FileAt[T(p)]
      /\ ScreenAt'[Q("pending")] = ScreenAt[Q("pending")] \cup ScreenAt[T(p)]
      /\ ScreenAt[Q("pending")] \subseteq Msgs
  BY <1>0, <1>4, <1>7, QueuesAt, QueuesAtNext, ElementsTyped
<1>10. QueuesDistinct' /\ FiledOnce' /\ Distinct(screen')
  BY <1>6, <1>7 DEF OncePlaced, QueuesDistinct, FiledOnce
<1> QED
  BY <1>0, <1>2, <1>4, <1>7, <1>8, <1>9, <1>10, FileOut, ScreenOut DEF OnceStep, MovesAll

LEMMA MarkerPushMoves ==
    ASSUME TypeOK, TypeOK', OncePlaced, NEW p \in Procs, MarkerPush(p)
    PROVE  /\ OnceStep({msg[p]} \cap dropped')
           /\ Elements(markers') \subseteq Elements(markers) \cup {msg[p]}
<1> USE DEF QueueNames
<1>0. CallTypes /\ CallTypes' /\ markers \in Seq(Msgs)
  BY DEF TypeOK, QueueTypes
<1>1. Goto(p, "marker_push", "idle") /\ "idle" \in PcValues
  BY DEF MarkerPush, PcValues
<1>2. pc[p] = "marker_push" /\ pc'[p] = "idle" /\ OthersKept(p)
  BY <1>0, <1>1, GotoThreads, GotoOthers
<1>3. /\ FileBound(p) /\ ~ FileBound(p)' /\ ScreenBound(p) /\ ~ ScreenBound(p)'
      /\ msg[p] \in Msgs
  BY <1>0, <1>2, ThreadHolds DEF FileBound, ScreenBound, Carrying, PcValues, OnMirror
<1>4. /\ FileAt[T(p)] = {msg[p]} /\ FileAt'[T(p)] = {}
      /\ ScreenAt[T(p)] = {msg[p]} /\ ScreenAt'[T(p)] = {}
  BY <1>0, <1>3, ThreadHolds, ThreadHoldsNext
<1>5. msg[p] \notin Elements(markers) /\ Distinct(markers)
  BY <1>0, <1>3, HeldOnce DEF OncePlaced, QueuesDistinct
<1>6. /\ UNCHANGED <<stage, early, backlog, pending, batch, flushing, stamp, filed, screen>>
      /\ \/ markers' = Append(markers, msg[p])
         \/ markers' = markers /\ msg[p] \in dropped'
  BY DEF MarkerPush, sinks
<1>7. /\ Distinct(markers') /\ Elements(markers') \subseteq Elements(markers) \cup {msg[p]}
      /\ (Elements(markers) \cup {msg[p]}) \ ({msg[p]} \cap dropped') \subseteq Elements(markers')
  <2>1. CASE markers' = Append(markers, msg[p])
    BY <1>0, <1>3, <1>5, <2>1, AppendedList
  <2>2. CASE markers' = markers /\ msg[p] \in dropped'
    BY <1>5, <2>2
  <2> QED
    BY <1>6, <2>1, <2>2
<1>8. FileKept({"markers"}) /\ ScreenKept({"markers"})
  BY <1>6, UntouchedQueues DEF FileKept, ScreenKept
<1>9. /\ FileAt'[Q("markers")] \subseteq FileAt[Q("markers")] \cup FileAt[T(p)]
      /\ (FileAt[Q("markers")] \cup FileAt[T(p)]) \ ({msg[p]} \cap dropped')
           \subseteq FileAt'[Q("markers")]
      /\ ScreenAt'[Q("markers")] \subseteq ScreenAt[Q("markers")] \cup ScreenAt[T(p)]
      /\ ScreenAt[Q("markers")] \subseteq Msgs
  BY <1>0, <1>4, <1>7, QueuesAt, QueuesAtNext, ElementsTyped
<1>10. QueuesDistinct' /\ FiledOnce' /\ Distinct(screen')
  BY <1>6, <1>7 DEF OncePlaced, QueuesDistinct, FiledOnce
<1>11. Moved(FileAt, FileAt', {msg[p]} \cap dropped')
  BY <1>2, <1>4, <1>8, <1>9, FileOut
<1> QED
  BY <1>0, <1>2, <1>4, <1>7, <1>8, <1>9, <1>10, <1>11, ScreenOut DEF OnceStep, MovesAll

LEMMA MarkerWriteMoves ==
    ASSUME TypeOK, TypeOK', OncePlaced, NEW p \in Procs, MarkerWrite(p)
    PROVE  OnceStep(Unwritten)
<1> USE DEF QueueNames
<1>0. CallTypes /\ CallTypes' /\ SinkTypes /\ screen \in Seq(Msgs)
  BY DEF TypeOK, SinkTypes
<1>1. Goto(p, "marker_write", "idle") /\ "idle" \in PcValues
  BY DEF MarkerWrite, PcValues
<1>2. pc[p] = "marker_write" /\ pc'[p] = "idle" /\ OthersKept(p)
  BY <1>0, <1>1, GotoThreads, GotoOthers
<1>3. /\ FileBound(p) /\ ~ FileBound(p)' /\ ScreenBound(p) /\ ~ ScreenBound(p)'
      /\ msg[p] \in Msgs
  BY <1>0, <1>2, ThreadHolds DEF FileBound, ScreenBound, Carrying, PcValues, OnMirror
<1>4. /\ FileAt[T(p)] = {msg[p]} /\ FileAt'[T(p)] = {}
      /\ ScreenAt[T(p)] = {msg[p]} /\ ScreenAt'[T(p)] = {}
  BY <1>0, <1>3, ThreadHolds, ThreadHoldsNext
<1>5. msg[p] \notin Elements(screen) /\ filed[msg[p]] = 0
  BY <1>0, <1>3, HeldOnce
<1>6. /\ UNCHANGED <<stage, early, backlog, pending, markers, batch, flushing, stamp>>
      /\ filed' = [filed EXCEPT ![msg[p]] = @ + IF WritesAllowed THEN 1 ELSE 0]
      /\ screen' \in {screen, Append(screen, msg[p])}
  BY DEF MarkerWrite, WriteMarkerOut, queues
<1>7. /\ FiledOnce'
      /\ FileAt'[Q("out")] = FileAt[Q("out")] \cup (IF WritesAllowed THEN {msg[p]} ELSE {})
  <2> DEFINE n == IF WritesAllowed THEN 1 ELSE 0
  <2>1. n \in {0, 1} /\ (n = 1 <=> WritesAllowed)
    OBVIOUS
  <2>2. filed' = [filed EXCEPT ![msg[p]] = @ + n]
    BY <1>6
  <2> HIDE DEF n
  <2> QED
    BY <1>0, <1>3, <1>5, <2>1, <2>2, WrittenToFiles
<1>8. /\ Distinct(screen')
      /\ ScreenAt'[Q("out")] \subseteq ScreenAt[Q("out")] \cup {msg[p]}
  BY <1>0, <1>3, <1>5, <1>6, WrittenToScreen
<1>9. FileKept({"out"}) /\ ScreenKept({"out"}) /\ QueuesDistinct'
  BY <1>6, UntouchedQueues DEF FileKept, ScreenKept, OncePlaced, QueuesDistinct
<1>10. /\ FileAt'[Q("out")] \subseteq FileAt[Q("out")] \cup FileAt[T(p)]
       /\ (FileAt[Q("out")] \cup FileAt[T(p)]) \ Unwritten \subseteq FileAt'[Q("out")]
       /\ ScreenAt[Q("out")] \subseteq Msgs
  BY <1>0, <1>3, <1>4, <1>7, QueuesAt, ElementsTyped DEF Unwritten
<1> QED
  BY <1>0, <1>2, <1>4, <1>7, <1>8, <1>9, <1>10, FileOut, ScreenOut DEF OnceStep, MovesAll

(* The steps that only look, or that change no place of a message. *)
LEMMA QuietMoves ==
    ASSUME TypeOK, TypeOK', OncePlaced, NEW p \in Procs, NEW from \in PcValues \ Carrying,
           NEW to \in PcValues \ Carrying, Goto(p, from, to),
           UNCHANGED <<stage, queues, stamp, sinks>>
    PROVE  OnceStep({})
<1>0. CallTypes /\ CallTypes'
  BY DEF TypeOK
<1>1. pc[p] = from /\ pc'[p] = to /\ OthersKept(p)
  BY <1>0, GotoThreads, GotoOthers
<1>2. ~ FileBound(p) /\ ~ FileBound(p)' /\ ~ ScreenBound(p) /\ ~ ScreenBound(p)'
  BY <1>1 DEF FileBound, ScreenBound, Carrying, OnMirror, PcValues
<1>3. FileAt'[T(p)] = FileAt[T(p)] /\ ScreenAt'[T(p)] = ScreenAt[T(p)]
  BY <1>0, <1>2, ThreadHolds, ThreadHoldsNext
<1>4. FileKept({}) /\ ScreenKept({})
  BY UntouchedQueues DEF FileKept, ScreenKept, queues, sinks, QueueNames
<1>5. QueuesDistinct' /\ FiledOnce' /\ Distinct(screen')
  BY DEF OncePlaced, QueuesDistinct, FiledOnce, queues, sinks
<1> QED
  BY <1>1, <1>3, <1>4, <1>5, FileStill, ScreenStill DEF OnceStep, MovesAll

LEMMA AfterMirrorKind ==
    ASSUME NEW p \in Procs
    PROVE  AfterMirror(p) \in PcValues \ (OnMirror \cup {"push"})
  BY DEF AfterMirror, PcValues, OnMirror

LEMMA MirrorMoves ==
    ASSUME TypeOK, TypeOK', OncePlaced, NEW p \in Procs, Mirror(p)
    PROVE  OnceStep({})
<1> USE DEF QueueNames
<1>0. CallTypes /\ CallTypes' /\ screen \in Seq(Msgs)
  BY DEF TypeOK, SinkTypes
<1>1. PICK to \in PcValues :
        Goto(p, "mirror", to) /\ (to \in {"write", "queue"} \/ to = AfterMirror(p))
  BY AfterMirrorKind DEF Mirror, PcValues
<1>2. pc[p] = "mirror" /\ pc'[p] = to /\ OthersKept(p) /\ msg'[p] = IF to = "idle" THEN NoMsg ELSE msg[p]
  BY <1>0, <1>1, GotoThreads, GotoOthers
<1>3. FileAt'[T(p)] = FileAt[T(p)]
  BY <1>0, <1>1, StillFileBound DEF OnMirror, PcValues
<1>4. UNCHANGED <<stage, early, backlog, pending, markers, batch, flushing, stamp, filed, screen>>
  BY DEF Mirror, queues, sinks
<1>5. FileKept({}) /\ ScreenKept({})
  BY <1>4, UntouchedQueues DEF FileKept, ScreenKept
<1>6. QueuesDistinct' /\ FiledOnce' /\ Distinct(screen')
  BY <1>4 DEF OncePlaced, QueuesDistinct, FiledOnce
<1>7. Moved(ScreenAt, ScreenAt', Msgs)
  <2>1. CASE to \in {"write", "queue"}
    <3>1. ScreenBound(p) /\ ScreenBound(p)' /\ msg'[p] = msg[p]
      BY <1>2, <2>1 DEF ScreenBound, Carrying, PcValues
    <3>2. ScreenAt'[T(p)] = ScreenAt[T(p)]
      BY <1>0, <3>1, ThreadHolds, ThreadHoldsNext
    <3> QED
      BY <1>2, <1>5, <3>2, ScreenStill
  <2>2. CASE to = AfterMirror(p)
    <3>1. ~ ScreenBound(p)'
      BY <1>2, <2>2, AfterMirrorPlace DEF ScreenBound, Carrying, PcValues
    <3>2. ScreenAt'[T(p)] = {}
      BY <1>0, <3>1, ThreadHoldsNext
    <3>3. ScreenAt[Q("out")] \subseteq Msgs /\ ScreenAt'[Q("out")] = ScreenAt[Q("out")]
      BY <1>0, <1>4, QueuesAt, QueuesAtNext, ElementsTyped
    <3>4. ScreenKept({"out"})
      BY <1>5 DEF ScreenKept
    <3> QED
      BY <1>0, <1>2, <3>2, <3>3, <3>4, ScreenOut
  <2> QED
    BY <1>1, <2>1, <2>2
<1> QED
  BY <1>2, <1>3, <1>5, <1>6, <1>7, FileStill DEF OnceStep, MovesAll

LEMMA WriteMoves ==
    ASSUME TypeOK, TypeOK', OncePlaced, NEW p \in Procs, Write(p)
    PROVE  OnceStep({})
<1> USE DEF QueueNames
<1>0. CallTypes /\ CallTypes' /\ SinkTypes /\ screen \in Seq(Msgs)
  BY DEF TypeOK, SinkTypes
<1>1. PICK to \in {"save", "emit", "idle"} : Goto(p, "write", to) /\ to = AfterMirror(p)
  BY AfterMirrorPlace DEF Write
<1>2. pc[p] = "write" /\ pc'[p] = to /\ OthersKept(p)
  BY <1>0, <1>1, GotoThreads, GotoOthers DEF PcValues
<1>3. FileAt'[T(p)] = FileAt[T(p)]
  BY <1>0, <1>1, StillFileBound DEF OnMirror, PcValues
<1>4. /\ UNCHANGED <<stage, early, backlog, pending, markers, batch, flushing, stamp, filed>>
      /\ screen' = Append(screen, msg[p])
  BY DEF Write, queues
<1>5. ScreenBound(p) /\ ~ ScreenBound(p)' /\ msg[p] \in Msgs /\ msg[p] \notin Elements(screen)
  BY <1>0, <1>2, ThreadHolds, HeldOnce DEF ScreenBound, Carrying, PcValues
<1>6. ScreenAt[T(p)] = {msg[p]} /\ ScreenAt'[T(p)] = {}
  BY <1>0, <1>5, ThreadHolds, ThreadHoldsNext
<1>7. /\ Distinct(screen')
      /\ ScreenAt'[Q("out")] \subseteq ScreenAt[Q("out")] \cup {msg[p]}
  BY <1>0, <1>4, <1>5, WrittenToScreen
<1>8. FileKept({}) /\ ScreenKept({"out"}) /\ ScreenAt[Q("out")] \subseteq Msgs
  BY <1>0, <1>4, UntouchedQueues, QueuesAt, ElementsTyped DEF FileKept, ScreenKept
<1>9. QueuesDistinct' /\ FiledOnce'
  BY <1>4 DEF OncePlaced, QueuesDistinct, FiledOnce
<1> QED
  BY <1>0, <1>2, <1>3, <1>6, <1>7, <1>8, <1>9, FileStill, ScreenOut DEF OnceStep, MovesAll

LEMMA QueueMoves ==
    ASSUME TypeOK, TypeOK', OncePlaced, NEW p \in Procs, Queue(p)
    PROVE  /\ OnceStep({})
           /\ Elements(backlog') \subseteq Elements(backlog) \cup {msg[p]}
<1> USE DEF QueueNames
<1>0. CallTypes /\ CallTypes' /\ backlog \in Seq(Msgs) /\ BacklogLimit \in Nat \ {0}
  BY LimitsAssumption DEF TypeOK, QueueTypes
<1>1. PICK to \in {"save", "emit", "idle"} : Goto(p, "queue", to) /\ to = AfterMirror(p)
  BY AfterMirrorPlace DEF Queue
<1>2. pc[p] = "queue" /\ pc'[p] = to /\ OthersKept(p)
  BY <1>0, <1>1, GotoThreads, GotoOthers DEF PcValues
<1>3. FileAt'[T(p)] = FileAt[T(p)]
  BY <1>0, <1>1, StillFileBound DEF OnMirror, PcValues
<1>4. /\ UNCHANGED <<stage, early, pending, markers, batch, flushing, stamp, filed, screen>>
      /\ backlog' = PushBounded(backlog, BacklogLimit, msg[p])
  BY DEF Queue, sinks
<1>5. /\ ScreenBound(p) /\ ~ ScreenBound(p)' /\ msg[p] \in Msgs
      /\ msg[p] \notin Elements(backlog) /\ Distinct(backlog)
  BY <1>0, <1>2, ThreadHolds, HeldOnce
  DEF ScreenBound, Carrying, PcValues, OncePlaced, QueuesDistinct
<1>6. ScreenAt[T(p)] = {msg[p]} /\ ScreenAt'[T(p)] = {}
  BY <1>0, <1>5, ThreadHolds, ThreadHoldsNext
<1>7. Distinct(backlog') /\ Elements(backlog') \subseteq Elements(backlog) \cup {msg[p]}
  BY <1>0, <1>4, <1>5, PushedList
<1>8. /\ ScreenAt'[Q("backlog")] \subseteq ScreenAt[Q("backlog")] \cup ScreenAt[T(p)]
      /\ ScreenAt[Q("backlog")] \subseteq Msgs
  BY <1>0, <1>6, <1>7, QueuesAt, QueuesAtNext, ElementsTyped
<1>9. FileKept({}) /\ ScreenKept({"backlog"})
  BY <1>4, UntouchedQueues DEF FileKept, ScreenKept
<1>10. QueuesDistinct' /\ FiledOnce' /\ Distinct(screen')
  BY <1>4, <1>7 DEF OncePlaced, QueuesDistinct, FiledOnce
<1> QED
  BY <1>0, <1>2, <1>3, <1>6, <1>7, <1>8, <1>9, <1>10, FileStill, ScreenOut
  DEF OnceStep, MovesAll

(* The subscriber's layers and the files of emergency_log_message. *)
LEMMA FiledMoves ==
    ASSUME TypeOK, TypeOK', OncePlaced, NEW p \in Procs, NEW from \in {"emit", "save"},
           Goto(p, from, "idle"), NEW n \in {0, 1},
           filed' = [filed EXCEPT ![msg[p]] = @ + n],
           UNCHANGED <<stage, queues, stamp, screen>>
    PROVE  OnceStep(IF n = 1 THEN {} ELSE {msg[p]})
<1> USE DEF QueueNames
<1>0. CallTypes /\ CallTypes' /\ SinkTypes /\ "idle" \in PcValues
  BY DEF TypeOK, PcValues
<1>1. pc[p] = from /\ pc'[p] = "idle" /\ OthersKept(p)
  BY <1>0, GotoThreads, GotoOthers
<1>2. /\ FileBound(p) /\ ~ FileBound(p)' /\ ~ ScreenBound(p) /\ ~ ScreenBound(p)'
      /\ msg[p] \in Msgs /\ filed[msg[p]] = 0
  BY <1>0, <1>1, HeldOnce DEF FileBound, ScreenBound, Carrying, PcValues, OnMirror
<1>3. /\ FileAt[T(p)] = {msg[p]} /\ FileAt'[T(p)] = {}
      /\ ScreenAt'[T(p)] = ScreenAt[T(p)]
  BY <1>0, <1>2, ThreadHolds, ThreadHoldsNext
<1>4. /\ FiledOnce'
      /\ FileAt'[Q("out")] = FileAt[Q("out")] \cup (IF n = 1 THEN {msg[p]} ELSE {})
  BY <1>0, <1>2, WrittenToFiles
<1>5. FileKept({"out"}) /\ ScreenKept({})
  BY UntouchedQueues DEF FileKept, ScreenKept, queues
<1>6. QueuesDistinct' /\ Distinct(screen')
  BY DEF OncePlaced, QueuesDistinct, queues
<1> DEFINE D == IF n = 1 THEN {} ELSE {msg[p]}
<1>7. /\ FileAt'[Q("out")] \subseteq FileAt[Q("out")] \cup FileAt[T(p)]
      /\ (FileAt[Q("out")] \cup FileAt[T(p)]) \ D \subseteq FileAt'[Q("out")]
  BY <1>3, <1>4
<1> HIDE DEF D
<1>8. Moved(FileAt, FileAt', D)
  BY <1>1, <1>3, <1>5, <1>7, FileOut
<1>9. Moved(ScreenAt, ScreenAt', Msgs)
  BY <1>1, <1>3, <1>5, ScreenStill
<1>10. OnceStep(D)
  BY <1>4, <1>6, <1>8, <1>9 DEF OnceStep, MovesAll
<1> QED
  BY <1>10 DEF D

LEMMA DrainBacklogMoves ==
    ASSUME TypeOK, TypeOK', OncePlaced, NEW p \in Procs, DrainBacklog(p)
    PROVE  OnceStep({})
<1> USE DEF QueueNames
<1>0. CallTypes /\ CallTypes' /\ backlog \in Seq(Msgs)
  BY DEF TypeOK, QueueTypes
<1>1. Goto(p, "drain", "flush") /\ "flush" \in PcValues
  BY DEF DrainBacklog, PcValues
<1>2. pc[p] = "drain" /\ pc'[p] = "flush" /\ OthersKept(p)
  BY <1>0, <1>1, GotoThreads, GotoOthers
<1>3. ~ FileBound(p) /\ ~ FileBound(p)' /\ ~ ScreenBound(p) /\ ~ ScreenBound(p)'
  BY <1>2 DEF FileBound, ScreenBound, Carrying, OnMirror, PcValues
<1>4. FileAt'[T(p)] = FileAt[T(p)] /\ ScreenAt'[T(p)] = ScreenAt[T(p)]
  BY <1>0, <1>3, ThreadHolds, ThreadHoldsNext
<1>5. /\ flushing' = Elements(backlog) /\ backlog' = <<>>
      /\ UNCHANGED <<stage, early, pending, markers, batch, stamp, filed, screen>>
  BY DEF DrainBacklog, sinks
<1>6. FileKept({}) /\ ScreenKept({"backlog", "flushing"})
  BY <1>5, UntouchedQueues DEF FileKept, ScreenKept
<1> DEFINE M == ScreenAt[Q("backlog")]
<1>7. /\ M \subseteq ScreenAt[Q("backlog")] /\ ScreenAt'[Q("backlog")] = ScreenAt[Q("backlog")] \ M
      /\ ScreenAt'[Q("flushing")] \subseteq ScreenAt[Q("flushing")] \cup M
      /\ (ScreenAt[Q("flushing")] \cup M) \ Msgs \subseteq ScreenAt'[Q("flushing")]
  BY <1>0, <1>5, QueuesAt, QueuesAtNext, EmptyList, ElementsTyped DEF TypeOK, QueueTypes
<1>8. \A q \in Procs : ScreenAt'[T(q)] = ScreenAt[T(q)]
  BY <1>2, <1>4 DEF OthersKept
<1> HIDE DEF M
<1>9. Moved(ScreenAt, ScreenAt', Msgs)
  BY <1>6, <1>7, <1>8, QueueToQueue DEF ScreenKept
<1>10. QueuesDistinct' /\ FiledOnce' /\ Distinct(screen')
  BY <1>5, EmptyList DEF OncePlaced, QueuesDistinct, FiledOnce
<1> QED
  BY <1>2, <1>4, <1>6, <1>9, <1>10, FileStill DEF OnceStep, MovesAll

LEMMA FlushRecordMoves ==
    ASSUME TypeOK, TypeOK', OncePlaced, NEW p \in Procs, FlushRecord(p)
    PROVE  OnceStep({})
<1> USE DEF QueueNames
<1>0. CallTypes /\ CallTypes' /\ SinkTypes /\ flushing \subseteq Msgs
  BY DEF TypeOK, QueueTypes
<1>1. PICK m \in flushing : /\ flushing' = flushing \ {m}
                            /\ screen' \in {screen, Append(screen, m)}
  BY DEF FlushRecord
<1>2. /\ UNCHANGED <<stage, early, backlog, pending, markers, batch, stamp, filed>>
      /\ UNCHANGED <<pc, msg, emits>>
  BY DEF FlushRecord, calls
<1>3. \A q \in Procs : FileAt'[T(q)] = FileAt[T(q)] /\ ScreenAt'[T(q)] = ScreenAt[T(q)]
  BY <1>2, SameThreadPlaces DEF SameThread
<1>4. m \in Msgs /\ m \in ScreenAt[Q("flushing")]
  BY <1>0, QueuesAt
<1>5. m \notin Elements(screen)
  BY <1>4, QueuesAt, PlaceOfQueue, PlacesDiffer DEF OncePlaced, Apart
<1>6. /\ Distinct(screen')
      /\ ScreenAt'[Q("out")] \subseteq ScreenAt[Q("out")] \cup {m}
  BY <1>0, <1>1, <1>4, <1>5, WrittenToScreen
<1>7. FileKept({}) /\ ScreenKept({"flushing", "out"})
  BY <1>2, UntouchedQueues DEF FileKept, ScreenKept
<1>8. ScreenAt'[Q("flushing")] = ScreenAt[Q("flushing")] \ {m}
  BY <1>1, QueuesAt, QueuesAtNext
<1>9. (ScreenAt[Q("out")] \cup {m}) \ Msgs \subseteq ScreenAt'[Q("out")]
  BY <1>0, <1>4, QueuesAt, ElementsTyped DEF SinkTypes
<1> DEFINE M == {m}
<1>10. /\ M \subseteq ScreenAt[Q("flushing")]
       /\ ScreenAt'[Q("flushing")] = ScreenAt[Q("flushing")] \ M
       /\ ScreenAt'[Q("out")] \subseteq ScreenAt[Q("out")] \cup M
       /\ (ScreenAt[Q("out")] \cup M) \ Msgs \subseteq ScreenAt'[Q("out")]
  BY <1>4, <1>6, <1>8, <1>9
<1> HIDE DEF M
<1>11. Moved(ScreenAt, ScreenAt', Msgs)
  BY <1>3, <1>7, <1>10, QueueToQueue DEF ScreenKept
<1>12. Moved(FileAt, FileAt', {})
  BY <1>3, <1>7, NothingMoved DEF FileKept
<1>13. QueuesDistinct' /\ FiledOnce'
  BY <1>2 DEF OncePlaced, QueuesDistinct, FiledOnce
<1> QED
  BY <1>6, <1>11, <1>12, <1>13 DEF OnceStep, MovesAll

(* A message is logged: the thread that logs it has it. *)
LEMMA CallMoves ==
    ASSUME TypeOK, TypeOK', OncePlaced, NEW p \in Procs, NEW m \in Msgs,
           NEW place \in {"push", "mirror", "pending", "marker_push", "marker_write", "idle"},
           Call(p, m, place)
    PROVE  OnceStep(IF place = "idle" THEN {m} ELSE {})
<1> USE DEF QueueNames
<1>0. CallTypes /\ CallTypes' /\ place \in PcValues
  BY DEF TypeOK, PcValues
<1>1. /\ pc[p] = "idle" /\ pc'[p] = place /\ msg'[p] = m /\ emits'[p] = (place = "mirror")
      /\ Logged' = Logged \cup {m} /\ m \notin Logged
      /\ \A q \in Procs \ {p} : SameThread(q)
  BY <1>0, CalledThreads
<1>2. OthersKept(p)
  BY <1>1, SameThreadPlaces DEF OthersKept
<1>3. ~ FileBound(p) /\ ~ ScreenBound(p)
  BY <1>1 DEF FileBound, ScreenBound, Carrying, OnMirror, PcValues
<1>4. FileBound(p)' <=> place # "idle"
  <2>1. place = "mirror" => emits'[p]
    BY <1>1
  <2> QED
    BY <1>1, <2>1 DEF FileBound, Carrying, OnMirror, PcValues
<1>5. /\ FileAt[T(p)] = {} /\ FileAt'[T(p)] = IF place = "idle" THEN {} ELSE {m}
      /\ ScreenAt[T(p)] = {} /\ ScreenAt'[T(p)] \subseteq {m}
  BY <1>0, <1>1, <1>3, <1>4, ThreadHolds, ThreadHoldsNext
<1>6. UNCHANGED <<stage, early, backlog, pending, markers, batch, flushing, filed, screen>>
  BY DEF Call, queues, sinks
<1>7. FileKept({"new"}) /\ ScreenKept({"new"})
  BY <1>6, UntouchedQueues DEF FileKept, ScreenKept
<1>8. QueuesDistinct' /\ FiledOnce' /\ Distinct(screen')
  BY <1>6 DEF OncePlaced, QueuesDistinct, FiledOnce
<1> DEFINE M == {m}
           D == IF place = "idle" THEN {m} ELSE {}
<1>9. /\ M \subseteq FileAt[Q("new")] /\ M \subseteq ScreenAt[Q("new")]
      /\ FileAt'[Q("new")] = FileAt[Q("new")] \ M
      /\ ScreenAt'[Q("new")] = ScreenAt[Q("new")] \ M
  BY <1>1, QueuesAt, QueuesAtNext
<1>10. /\ FileAt'[T(p)] \subseteq FileAt[T(p)] \cup M
       /\ (FileAt[T(p)] \cup M) \ D \subseteq FileAt'[T(p)]
       /\ ScreenAt'[T(p)] \subseteq ScreenAt[T(p)] \cup M
       /\ (ScreenAt[T(p)] \cup M) \ Msgs \subseteq ScreenAt'[T(p)]
  BY <1>5
<1> HIDE DEF M, D
<1>11. Moved(FileAt, FileAt', D)
  BY <1>2, <1>7, <1>9, <1>10, QueueToThread DEF OthersKept, FileKept
<1>12. Moved(ScreenAt, ScreenAt', Msgs)
  BY <1>2, <1>7, <1>9, <1>10, QueueToThread DEF OthersKept, ScreenKept
<1>13. OnceStep(D)
  BY <1>8, <1>11, <1>12 DEF OnceStep, MovesAll
<1> QED
  BY <1>13 DEF D

-----------------------------------------------------------------------------
(* The loader's own sequence.                                              *)

ThreadsKept ==
  \A q \in Procs : FileAt'[T(q)] = FileAt[T(q)] /\ ScreenAt'[T(q)] = ScreenAt[T(q)]

LEMMA CallsKept ==
    ASSUME UNCHANGED calls
    PROVE  ThreadsKept
  BY SameThreadPlaces DEF ThreadsKept, SameThread, calls

LEMMA ActivatedThreads ==
    ASSUME CallTypes, CallTypes', UNCHANGED <<msg, emits>>,
           \A q \in Procs : pc'[q] = pc[q] \/ (pc[q] \notin Carrying /\ pc'[q] = "activate")
    PROVE  ThreadsKept
<1> SUFFICES ASSUME NEW q \in Procs
             PROVE  FileAt'[T(q)] = FileAt[T(q)] /\ ScreenAt'[T(q)] = ScreenAt[T(q)]
  BY DEF ThreadsKept
<1>1. CASE pc'[q] = pc[q]
  BY <1>1, SameThreadPlaces DEF SameThread
<1>2. CASE pc[q] \notin Carrying /\ pc'[q] = "activate"
  <2>1. ~ FileBound(q) /\ ~ FileBound(q)' /\ ~ ScreenBound(q) /\ ~ ScreenBound(q)'
    BY <1>2 DEF FileBound, ScreenBound, Carrying, OnMirror, PcValues
  <2> QED
    BY <2>1, ThreadHolds, ThreadHoldsNext
<1> QED
  BY <1>1, <1>2

(* A step of the sequence that moves no message. *)
LEMMA SequenceMoves ==
    ASSUME TypeOK, OncePlaced, ThreadsKept, UNCHANGED <<queues, stamp, sinks>>,
           batch = <<>> \/ (stage' = "write_early" <=> stage = "write_early")
    PROVE  OnceStep({})
<1>1. ScreenAt'[Q("batch")] = ScreenAt[Q("batch")]
  BY QueuesAt, QueuesAtNext, EmptyList DEF queues
<1>2. FileKept({}) /\ ScreenKept({})
  BY <1>1, UntouchedQueues DEF FileKept, ScreenKept, queues, sinks, QueueNames
<1>3. Moved(FileAt, FileAt', {}) /\ Moved(ScreenAt, ScreenAt', Msgs)
  BY <1>2, NothingMoved DEF FileKept, ScreenKept, ThreadsKept
<1>4. QueuesDistinct' /\ FiledOnce' /\ Distinct(screen')
  BY DEF OncePlaced, QueuesDistinct, FiledOnce, queues, sinks
<1> QED
  BY <1>3, <1>4 DEF OnceStep, MovesAll

LEMMA EnterPreloadMoves ==
    ASSUME TypeOK, TypeOK', OncePlaced, EnterPreload
    PROVE  OnceStep({})
<1>1. \A q \in Procs : pc'[q] = pc[q] \/ (pc[q] = "idle" /\ pc'[q] = "activate")
  <2>1. /\ pc["boot"] = "idle"
        /\ pc' = pc \/ pc' = [pc EXCEPT !["boot"] = "activate"]
    BY DEF EnterPreload, BootAt
  <2> QED
    BY <2>1 DEF TypeOK, CallTypes
<1>2. ThreadsKept
  BY <1>1, ActivatedThreads DEF EnterPreload, TypeOK, Carrying
<1>3. /\ UNCHANGED <<queues, stamp, sinks>>
      /\ stage' # "write_early" /\ stage # "write_early"
  BY DEF EnterPreload, BootAt
<1> QED
  BY <1>2, <1>3, SequenceMoves

LEMMA BroughtUpThreads ==
    ASSUME CallTypes, BringUpConsole
    PROVE  \A q \in Procs : pc'[q] = pc[q] \/ (q \in {"boot", "io"} /\ pc'[q] = "activate")
<1>1. pc' = [pc EXCEPT !["boot"] = IF mode' = "late" THEN "activate" ELSE @,
                       !["io"] = IF mode' = "postoep" THEN "activate" ELSE @]
  BY DEF BringUpConsole
<1>2. \A q \in Procs \ {"boot", "io"} : pc'[q] = pc[q]
  BY <1>1 DEF CallTypes
<1>3. pc'["boot"] \in {pc["boot"], "activate"} /\ pc'["io"] \in {pc["io"], "activate"}
  BY <1>1 DEF CallTypes, Procs
<1> QED
  BY <1>2, <1>3

LEMMA BringUpConsoleMoves ==
    ASSUME TypeOK, TypeOK', OncePlaced, BringUpConsole
    PROVE  OnceStep({})
<1>1. pc["boot"] \notin Carrying /\ pc["io"] \notin Carrying
  BY DEF BringUpConsole, BootAt, TypeOK, CallTypes, Carrying
<1>2. \A q \in Procs : pc'[q] = pc[q] \/ (q \in {"boot", "io"} /\ pc'[q] = "activate")
  BY BroughtUpThreads DEF TypeOK
<1>3. ThreadsKept
  BY <1>1, <1>2, ActivatedThreads DEF BringUpConsole, TypeOK
<1>4. UNCHANGED <<queues, stamp, sinks>> /\ batch = <<>>
  BY DEF BringUpConsole
<1> QED
  BY <1>3, <1>4, SequenceMoves

LEMMA PublishPendingMoves ==
    ASSUME TypeOK, TypeOK', OncePlaced, BatchEnds, PublishPending
    PROVE  OnceStep({})
<1> USE DEF QueueNames
<1>0. ThreadsKept /\ pending \in Seq(Msgs)
  BY CallsKept DEF PublishPending, TypeOK, QueueTypes
<1>1. /\ batch = <<>> /\ batch' = pending /\ pending' = <<>>
      /\ stage # "write_early" /\ stage' # "write_early"
      /\ UNCHANGED <<early, backlog, markers, flushing, stamp, filed, screen>>
  BY DEF PublishPending, BootAt, BatchEnds, calls, sinks
<1>2. FileKept({"pending", "batch"}) /\ ScreenKept({"pending", "batch"})
  BY <1>1, UntouchedQueues DEF FileKept, ScreenKept
<1> DEFINE M == Elements(pending)
<1>3. /\ FileAt[Q("pending")] = M /\ FileAt'[Q("pending")] = {}
      /\ ScreenAt[Q("pending")] = M /\ ScreenAt'[Q("pending")] = {}
      /\ FileAt[Q("batch")] = {} /\ FileAt'[Q("batch")] = M
      /\ ScreenAt[Q("batch")] = {} /\ ScreenAt'[Q("batch")] = M /\ M \subseteq Msgs
  BY <1>0, <1>1, QueuesAt, QueuesAtNext, EmptyList, ElementsTyped
<1> HIDE DEF M
<1>3a. /\ M \subseteq FileAt[Q("pending")] /\ FileAt'[Q("pending")] = FileAt[Q("pending")] \ M
      /\ FileAt'[Q("batch")] \subseteq FileAt[Q("batch")] \cup M
      /\ (FileAt[Q("batch")] \cup M) \ {} \subseteq FileAt'[Q("batch")]
      /\ M \subseteq ScreenAt[Q("pending")] /\ ScreenAt'[Q("pending")] = ScreenAt[Q("pending")] \ M
      /\ ScreenAt'[Q("batch")] \subseteq ScreenAt[Q("batch")] \cup M
      /\ (ScreenAt[Q("batch")] \cup M) \ Msgs \subseteq ScreenAt'[Q("batch")]
  BY <1>3
<1>4. Moved(FileAt, FileAt', {})
  BY <1>0, <1>2, <1>3a, QueueToQueue DEF ThreadsKept, FileKept
<1>5. Moved(ScreenAt, ScreenAt', Msgs)
  BY <1>0, <1>2, <1>3a, QueueToQueue DEF ThreadsKept, ScreenKept
<1>6. QueuesDistinct' /\ FiledOnce' /\ Distinct(screen')
  BY <1>1, EmptyList DEF OncePlaced, QueuesDistinct, FiledOnce
<1> QED
  BY <1>4, <1>5, <1>6 DEF OnceStep, MovesAll

LEMMA ReplayRecordMoves ==
    ASSUME TypeOK, TypeOK', OncePlaced, ReplayRecord
    PROVE  OnceStep({})
<1> USE DEF QueueNames
<1> DEFINE p == "boot"
           m == Head(batch)
<1>0. CallTypes /\ CallTypes' /\ batch \in Seq(Msgs) /\ p \in Procs
  BY DEF TypeOK, QueueTypes, Procs
<1>1. /\ stage \in {"early_replay", "replay"} /\ pc[p] = "idle" /\ batch # <<>>
      /\ msg' = [msg EXCEPT ![p] = m] /\ batch' = Tail(batch)
      /\ pc' = [pc EXCEPT ![p] = IF ready THEN "mirror" ELSE "push"]
      /\ emits' = [emits EXCEPT ![p] = ready]
      /\ UNCHANGED <<stage, early, backlog, pending, markers, flushing, stamp, filed, screen>>
  BY DEF ReplayRecord, sinks
<1>2. /\ m \in Elements(batch) /\ m \in Msgs
      /\ Distinct(batch') /\ Elements(batch') = Elements(batch) \ {m}
  BY <1>0, <1>1, NothingInEmpty, TailOfList DEF OncePlaced, QueuesDistinct
<1> HIDE DEF m
<1>3. /\ pc'[p] = (IF ready THEN "mirror" ELSE "push") /\ msg'[p] = m /\ emits'[p] = ready
      /\ \A q \in Procs \ {p} : SameThread(q)
  BY <1>0, <1>1 DEF CallTypes, SameThread
<1>4. OthersKept(p)
  BY <1>3, SameThreadPlaces DEF OthersKept
<1>5. ~ FileBound(p) /\ ~ ScreenBound(p) /\ FileBound(p)' /\ ScreenBound(p)'
  BY <1>1, <1>3 DEF FileBound, ScreenBound, Carrying, OnMirror, PcValues
<1>6. /\ FileAt[T(p)] = {} /\ FileAt'[T(p)] = {m}
      /\ ScreenAt[T(p)] = {} /\ ScreenAt'[T(p)] = {m}
  BY <1>0, <1>3, <1>5, ThreadHolds, ThreadHoldsNext
<1>7. FileKept({"batch"}) /\ ScreenKept({"batch"})
  BY <1>1, UntouchedQueues DEF FileKept, ScreenKept
<1> DEFINE M == {m}
<1>8. /\ M \subseteq FileAt[Q("batch")] /\ FileAt'[Q("batch")] = FileAt[Q("batch")] \ M
      /\ M \subseteq ScreenAt[Q("batch")] /\ ScreenAt'[Q("batch")] = ScreenAt[Q("batch")] \ M
  BY <1>1, <1>2, QueuesAt, QueuesAtNext
<1>9. /\ FileAt'[T(p)] = FileAt[T(p)] \cup M /\ ScreenAt'[T(p)] = ScreenAt[T(p)] \cup M
  BY <1>6
<1> HIDE DEF M, p
<1>10. Moved(FileAt, FileAt', {})
  BY <1>0, <1>4, <1>7, <1>8, <1>9, QueueToThread DEF OthersKept, FileKept
<1>11. Moved(ScreenAt, ScreenAt', Msgs)
  <2>1. M \subseteq Msgs
    BY <1>2 DEF M
  <2>2. (ScreenAt[T(p)] \cup M) \ Msgs \subseteq ScreenAt'[T(p)]
    BY <1>9
  <2> QED
    BY <1>0, <1>4, <1>7, <1>8, <1>9, <2>2, QueueToThread DEF OthersKept, ScreenKept
<1>12. QueuesDistinct' /\ FiledOnce' /\ Distinct(screen')
  BY <1>1, <1>2 DEF OncePlaced, QueuesDistinct, FiledOnce
<1> QED
  BY <1>10, <1>11, <1>12 DEF OnceStep, MovesAll

LEMMA DrainEarlyMoves ==
    ASSUME TypeOK, TypeOK', OncePlaced, BatchEnds, DrainEarly
    PROVE  OnceStep(Unwritten)
<1> USE DEF QueueNames
<1>0. ThreadsKept /\ early \in Seq(Msgs)
  BY CallsKept DEF DrainEarly, TypeOK, QueueTypes
<1>1. /\ batch = <<>> /\ batch' = (IF WritesAllowed THEN early ELSE <<>>) /\ early' = <<>>
      /\ stage # "write_early" /\ stage' = "write_early"
      /\ UNCHANGED <<backlog, pending, markers, flushing, stamp, filed, screen>>
  BY DEF DrainEarly, BootAt, BatchEnds, calls, sinks
<1>2. FileKept({"early", "batch"}) /\ ScreenKept({"batch"})
  BY <1>1, UntouchedQueues DEF FileKept, ScreenKept
<1> DEFINE M == Elements(early)
<1>3. /\ FileAt[Q("early")] = M /\ FileAt'[Q("early")] = {}
      /\ FileAt[Q("batch")] = {} /\ FileAt'[Q("batch")] \subseteq M
      /\ M \ Unwritten \subseteq FileAt'[Q("batch")]
      /\ ScreenAt'[Q("batch")] = ScreenAt[Q("batch")]
  BY <1>0, <1>1, QueuesAt, QueuesAtNext, EmptyList, ElementsTyped DEF Unwritten
<1> HIDE DEF M
<1>3a. /\ M \subseteq FileAt[Q("early")] /\ FileAt'[Q("early")] = FileAt[Q("early")] \ M
      /\ FileAt'[Q("batch")] \subseteq FileAt[Q("batch")] \cup M
      /\ (FileAt[Q("batch")] \cup M) \ Unwritten \subseteq FileAt'[Q("batch")]
  BY <1>3
<1>4. Moved(FileAt, FileAt', Unwritten)
  BY <1>0, <1>2, <1>3a, QueueToQueue DEF ThreadsKept, FileKept
<1>5. Moved(ScreenAt, ScreenAt', Msgs)
  BY <1>0, <1>2, <1>3, NothingMoved DEF ThreadsKept, ScreenKept
<1>6. QueuesDistinct' /\ FiledOnce' /\ Distinct(screen')
  BY <1>1, EmptyList DEF OncePlaced, QueuesDistinct, FiledOnce
<1> QED
  BY <1>4, <1>5, <1>6 DEF OnceStep, MovesAll

LEMMA TakeMarkersMoves ==
    ASSUME TypeOK, TypeOK', OncePlaced, BatchEnds, TakeMarkers
    PROVE  OnceStep(IF level = Debug THEN {} ELSE Elements(markers))
<1> USE DEF QueueNames
<1>0. ThreadsKept /\ markers \in Seq(Msgs)
  BY CallsKept DEF TakeMarkers, TypeOK, QueueTypes
<1>1. /\ batch = <<>> /\ batch' = (IF level = Debug THEN markers ELSE <<>>) /\ markers' = <<>>
      /\ stage # "write_early" /\ stage' # "write_early"
      /\ UNCHANGED <<early, backlog, pending, flushing, stamp, filed, screen>>
  BY DEF TakeMarkers, BootAt, BatchEnds, calls, sinks
<1>2. FileKept({"markers", "batch"}) /\ ScreenKept({"markers", "batch"})
  BY <1>1, UntouchedQueues DEF FileKept, ScreenKept
<1> DEFINE M == Elements(markers)
           D == IF level = Debug THEN {} ELSE Elements(markers)
<1>3. /\ FileAt[Q("markers")] = M /\ FileAt'[Q("markers")] = {}
      /\ FileAt[Q("batch")] = {} /\ FileAt'[Q("batch")] \subseteq M
      /\ M \ D \subseteq FileAt'[Q("batch")]
      /\ ScreenAt[Q("markers")] = M /\ ScreenAt'[Q("markers")] = {}
      /\ ScreenAt[Q("batch")] = {} /\ ScreenAt'[Q("batch")] \subseteq M /\ M \subseteq Msgs
  BY <1>0, <1>1, QueuesAt, QueuesAtNext, EmptyList, ElementsTyped
<1> HIDE DEF M, D
<1>3a. /\ M \subseteq FileAt[Q("markers")] /\ FileAt'[Q("markers")] = FileAt[Q("markers")] \ M
      /\ FileAt'[Q("batch")] \subseteq FileAt[Q("batch")] \cup M
      /\ (FileAt[Q("batch")] \cup M) \ D \subseteq FileAt'[Q("batch")]
      /\ M \subseteq ScreenAt[Q("markers")] /\ ScreenAt'[Q("markers")] = ScreenAt[Q("markers")] \ M
      /\ ScreenAt'[Q("batch")] \subseteq ScreenAt[Q("batch")] \cup M
      /\ (ScreenAt[Q("batch")] \cup M) \ Msgs \subseteq ScreenAt'[Q("batch")]
  BY <1>3
<1>4. Moved(FileAt, FileAt', D)
  BY <1>0, <1>2, <1>3a, QueueToQueue DEF ThreadsKept, FileKept
<1>5. Moved(ScreenAt, ScreenAt', Msgs)
  BY <1>0, <1>2, <1>3a, QueueToQueue DEF ThreadsKept, ScreenKept
<1>6. QueuesDistinct' /\ FiledOnce' /\ Distinct(screen')
  BY <1>1, EmptyList DEF OncePlaced, QueuesDistinct, FiledOnce
<1>7. OnceStep(D)
  BY <1>4, <1>5, <1>6 DEF OnceStep, MovesAll
<1> QED
  BY <1>7 DEF D

(* The head of the batch is written to the files, and perhaps shown. *)
LEMMA WriteHeadMoves ==
    ASSUME TypeOK, TypeOK', OncePlaced, batch # <<>>, batch' = Tail(batch),
           UNCHANGED <<stage, early, backlog, pending, markers, flushing, calls>>,
           NEW n \in {0, 1}, filed' = [filed EXCEPT ![Head(batch)] = @ + n],
           IF stage = "write_early" THEN UNCHANGED screen
                                    ELSE screen' \in {screen, Append(screen, Head(batch))}
    PROVE  OnceStep(IF n = 1 THEN {} ELSE Msgs)
<1> USE DEF QueueNames
<1> DEFINE m == Head(batch)
<1>0. ThreadsKept /\ batch \in Seq(Msgs) /\ SinkTypes /\ UNCHANGED stamp
  BY CallsKept DEF TypeOK, QueueTypes, calls
<1>1. /\ m \in Elements(batch) /\ m \in Msgs
      /\ Distinct(batch') /\ Elements(batch') = Elements(batch) \ {m}
  BY <1>0, NothingInEmpty, TailOfList DEF OncePlaced, QueuesDistinct
<1>2. filed' = [filed EXCEPT ![m] = @ + n]
  OBVIOUS
<1> HIDE DEF m
<1>3. /\ FileAt[Q("batch")] \cap FileAt[Q("out")] = {}
      /\ ScreenAt[Q("batch")] \cap ScreenAt[Q("out")] = {}
  BY PlaceOfQueue, PlacesDiffer DEF OncePlaced, Apart
<1>4. filed[m] = 0 /\ (stage # "write_early" => m \notin Elements(screen))
  BY <1>1, <1>3, QueuesAt
<1>5. /\ FiledOnce'
      /\ FileAt'[Q("out")] = FileAt[Q("out")] \cup (IF n = 1 THEN {m} ELSE {})
  BY <1>0, <1>1, <1>2, <1>4, WrittenToFiles
<1>6. FileKept({"batch", "out"}) /\ ScreenKept({"batch", "out"})
  BY <1>0, UntouchedQueues DEF FileKept, ScreenKept
<1> DEFINE M == {m}
           D == IF n = 1 THEN {} ELSE Msgs
<1>7. /\ M \subseteq FileAt[Q("batch")] /\ FileAt'[Q("batch")] = FileAt[Q("batch")] \ M
      /\ FileAt'[Q("out")] \subseteq FileAt[Q("out")] \cup M
      /\ (FileAt[Q("out")] \cup M) \ D \subseteq FileAt'[Q("out")]
  <2>1. FileAt[Q("out")] \subseteq Msgs
    BY QueuesAt
  <2> QED
    BY <1>1, <1>5, <2>1, QueuesAt, QueuesAtNext
<1>8. CASE stage = "write_early"
  <2>1. ScreenKept({}) /\ UNCHANGED screen
    <3>1. /\ ScreenAt'[Q("out")] = ScreenAt[Q("out")]
          /\ ScreenAt'[Q("batch")] = ScreenAt[Q("batch")]
      BY <1>8, QueuesAt, QueuesAtNext
    <3> QED
      BY <1>6, <1>8, <3>1 DEF ScreenKept
  <2>2. Moved(ScreenAt, ScreenAt', Msgs) /\ Distinct(screen')
    BY <1>0, <2>1, NothingMoved DEF ThreadsKept, ScreenKept, OncePlaced
  <2> QED
    <3> HIDE DEF M, D
    <3>1. Moved(FileAt, FileAt', D)
      BY <1>0, <1>6, <1>7, QueueToQueue DEF ThreadsKept, FileKept
    <3>2. OnceStep(D)
      BY <1>1, <1>5, <2>2, <3>1 DEF OnceStep, MovesAll, OncePlaced, QueuesDistinct
    <3> QED
      BY <3>2 DEF D
<1>9. CASE stage # "write_early"
  <2>0. screen' \in {screen, Append(screen, m)}
    BY <1>9 DEF m
  <2>1. /\ Distinct(screen')
        /\ ScreenAt'[Q("out")] \subseteq ScreenAt[Q("out")] \cup M
    BY <1>0, <1>1, <1>4, <1>9, <2>0, WrittenToScreen
  <2>2. /\ M \subseteq ScreenAt[Q("batch")] /\ ScreenAt'[Q("batch")] = ScreenAt[Q("batch")] \ M
    BY <1>1, <1>9, QueuesAt, QueuesAtNext
  <2>3. (ScreenAt[Q("out")] \cup M) \ Msgs \subseteq ScreenAt'[Q("out")]
    BY <1>0, <1>1, QueuesAt, ElementsTyped DEF SinkTypes
  <2> HIDE DEF M, D
  <2>4. Moved(FileAt, FileAt', D)
    BY <1>0, <1>6, <1>7, QueueToQueue DEF ThreadsKept, FileKept
  <2>5. Moved(ScreenAt, ScreenAt', Msgs)
    BY <1>0, <1>6, <2>1, <2>2, <2>3, QueueToQueue DEF ThreadsKept, ScreenKept
  <2>6. OnceStep(D)
    BY <1>1, <1>5, <2>1, <2>4, <2>5 DEF OnceStep, MovesAll, OncePlaced, QueuesDistinct
  <2> QED
    BY <2>6 DEF D
<1> QED
  BY <1>8, <1>9

-----------------------------------------------------------------------------
(* Nothing is lost.                                                        *)

LEMMA SomewhereKept ==
    ASSUME Somewhere, NEW D, Moved(FileAt, FileAt', D),
           dropped \subseteq dropped', overtaken \subseteq overtaken',
           \A m \in Msgs : Asked(m)' => Asked(m),
           \A m \in D \cap Msgs : WritesAllowed /\ Asked(m)' =>
             m \notin Emergencies /\ m \in dropped' \cup overtaken'
    PROVE  Somewhere'
<1> SUFFICES ASSUME WritesAllowed, NEW m \in Msgs, Asked(m)',
                    ~ (m \notin Emergencies /\ m \in dropped' \cup overtaken')
             PROVE  \E x \in Places : m \in FileAt'[x]
  BY DEF Somewhere
<1>1. m \notin D
  OBVIOUS
<1>2. \E x \in Places : m \in FileAt[x]
  BY DEF Somewhere
<1> QED
  BY <1>1, <1>2, MovedKeeps

LEMMA AskedKept ==
    ASSUME UNCHANGED <<stage, noisy, level>>, NEW m
    PROVE  Asked(m)' <=> Asked(m)
  BY DEF Asked, Wanted, LoggedAsDebug

LEMMA OtherKind ==
    ASSUME KindOfCall, NEW q \in Procs, SameThread(q), ready => ready'
    PROVE  KindAt(q)'
  BY DEF KindOfCall, KindAt, SameThread

(* The queues at a step of one thread: each takes at most what the thread   *)
(* carries to it.                                                           *)
LateStep(p) ==
  /\ UNCHANGED stage /\ overtaken \subseteq overtaken' /\ dropped \subseteq dropped'
  /\ \A q \in Procs \ {p} : SameThread(q)
  /\ Elements(early') \subseteq Elements(early) \cup (IF pc[p] = "push" THEN {msg[p]} ELSE {})
  /\ Elements(pending') \subseteq
       Elements(pending) \cup (IF pc[p] = "pending" THEN {msg[p]} ELSE {})
  /\ Elements(markers') \subseteq
       Elements(markers) \cup (IF pc[p] = "marker_push" THEN {msg[p]} ELSE {})
  /\ pc'[p] \in {"push", "pending"} => ~ ready
  /\ pc'[p] = "marker_push" => ~ configured

LEMMA LateKept ==
    ASSUME FlagTypes, NEW p \in Procs, LateStep(p), LateEarly, LateMarkers, LatePending
    PROVE  LateEarly' /\ LateMarkers' /\ LatePending'
<1> USE DEF LateCalls, LateStep, SameThread, ReadyStages, LateStages
<1>1. LateEarly'
  <2> SUFFICES ASSUME stage \in {"write_early"} \cup LateStages
               PROVE  Elements(early') \subseteq overtaken' /\ LateCalls("push")'
    BY DEF LateEarly
  <2>1. pc'[p] # "push"
    BY DEF FlagTypes
  <2>2. Elements(early) \subseteq overtaken /\ LateCalls("push")
    BY DEF LateEarly
  <2> QED
    BY <2>1, <2>2
<1>2. LateMarkers'
  <2> SUFFICES ASSUME stage \in LateStages \ {"markers"}
               PROVE  Elements(markers') \subseteq overtaken' /\ LateCalls("marker_push")'
    BY DEF LateMarkers
  <2>1. pc'[p] # "marker_push"
    BY DEF FlagTypes
  <2>2. Elements(markers) \subseteq overtaken /\ LateCalls("marker_push")
    BY DEF LateMarkers
  <2> QED
    BY <2>1, <2>2
<1>3. LatePending'
  <2> SUFFICES ASSUME stage \in {"replay", "done"}
               PROVE  Elements(pending') \subseteq overtaken' /\ LateCalls("pending")'
    BY DEF LatePending
  <2>1. pc'[p] # "pending"
    BY DEF FlagTypes
  <2>2. Elements(pending) \subseteq overtaken /\ LateCalls("pending")
    BY DEF LatePending
  <2> QED
    BY <2>1, <2>2
<1> QED
  BY <1>1, <1>2, <1>3

(* The same of the backlog, but for the step that takes it. *)
LEMMA LateBacklogKept ==
    ASSUME LateBacklog, NEW p \in Procs, \A q \in Procs \ {p} : SameThread(q),
           overtaken \subseteq overtaken', pc[p] # "drain",
           Elements(backlog') \subseteq
             Elements(backlog) \cup (IF pc[p] = "queue" THEN {msg[p]} ELSE {}),
           pc'[p] = "queue" => ~ console',
           console' => console \/ pc'[p] = "drain"
    PROVE  LateBacklog'
<1> SUFFICES ASSUME console', \A q \in Procs : pc'[q] # "drain"
             PROVE  Elements(backlog') \subseteq overtaken' /\ LateCalls("queue")'
  BY DEF LateBacklog
<1>1. console /\ \A q \in Procs : pc[q] # "drain"
  BY DEF SameThread
<1>2. Elements(backlog) \subseteq overtaken /\ LateCalls("queue")
  BY <1>1 DEF LateBacklog
<1> QED
  BY <1>2 DEF LateCalls, SameThread

(* What the steps of a thread have in common. *)
LEMMA ThreadStepKeeps ==
    ASSUME TypeOK, NothingLost, NEW p \in Procs, LateStep(p), KindAt(p)',
           UNCHANGED <<batch, noisy, level, ready>>, NEW D, Moved(FileAt, FileAt', D),
           \A m \in D \cap Msgs : WritesAllowed /\ Asked(m) =>
             m \notin Emergencies /\ m \in dropped',
           LateBacklog'
    PROVE  NothingLost'
<1>1. KindOfCall'
  <2> SUFFICES ASSUME NEW q \in Procs PROVE KindAt(q)'
    BY DEF KindOfCall
  <2> QED
    BY OtherKind DEF LateStep, NothingLost
<1>2. KindOfQueue'
  <2>1. KindAt(p) /\ KindOfQueue
    BY DEF NothingLost, KindOfCall
  <2> QED
    BY <2>1 DEF KindOfQueue, KindAt, LateStep
<1>3. Somewhere'
  BY SomewhereKept, AskedKept DEF NothingLost, LateStep
<1>4. LateEarly' /\ LateMarkers' /\ LatePending'
  BY LateKept DEF NothingLost, TypeOK
<1>5. BatchEnds'
  BY DEF NothingLost, BatchEnds, LateStep
<1> QED
  BY <1>1, <1>2, <1>3, <1>4, <1>5 DEF NothingLost

LEMMA StartLosesNothing ==
    ASSUME TypeOK, TypeOK', OncePlaced, NothingLost, NEW p \in Procs, Start(p)
    PROVE  OncePlaced' /\ NothingLost'
<1>1. PICK m \in Msgs :
        LogMessage(p, m) \/ BridgeMessage(p, m) \/ Marker(p, m) \/ Emergency(p, m)
  BY DEF Start
<1>2. PICK place \in {"push", "mirror", "pending", "marker_push", "marker_write", "idle"} :
        /\ Call(p, m, place)
        /\ place = "push" => m \in Logs /\ ~ ready
        /\ place = "pending" => m \in Bridges /\ ~ ready
        /\ place = "mirror" => ready \/ m \in Emergencies
        /\ place \in {"marker_push", "marker_write", "idle"} => m \in Markers
        /\ place = "marker_push" => ~ configured
        /\ place = "idle" => configured /\ level # Debug
  BY <1>1 DEF LogMessage, BridgeMessage, Marker, Emergency, TypeOK, FlagTypes
<1> DEFINE D == IF place = "idle" THEN {m} ELSE {}
<1>3. OnceStep(D)
  BY <1>2, CallMoves
<1>4. /\ pc[p] = "idle" /\ pc'[p] = place /\ msg'[p] = m /\ emits'[p] = (place = "mirror")
      /\ \A q \in Procs \ {p} : SameThread(q)
  BY <1>2, CalledThreads DEF PcValues
<1>5. /\ UNCHANGED <<stage, noisy, level, ready, console>>
      /\ UNCHANGED <<early, pending, markers, batch, backlog, dropped, overtaken>>
  BY <1>2 DEF Call, flags, queues, history
<1>6. LateStep(p)
  BY <1>2, <1>4, <1>5 DEF LateStep
<1>7. KindAt(p)'
  BY <1>2, <1>4, <1>5 DEF KindAt, OnMirror
<1>8. ASSUME place = "idle" PROVE ~ Asked(m)
  <2>1. m \notin Emergencies /\ m \in Verbose /\ level # Debug
    BY <1>2, <1>8, MsgsAssumption
  <2>2. stage \notin PreStages \cup {"natives"}
    BY <1>2, <1>8 DEF TypeOK, FlagTypes, LateStages, PreStages
  <2> QED
    BY <2>1, <2>2 DEF Asked, Wanted, LoggedAsDebug
<1>9. LateBacklog'
  BY <1>2, <1>4, <1>5, LateBacklogKept DEF NothingLost
<1>10. \A n \in D \cap Msgs : WritesAllowed /\ Asked(n) => n \notin Emergencies /\ n \in dropped'
  BY <1>8
<1> HIDE DEF D
<1> QED
  BY <1>3, <1>5, <1>6, <1>7, <1>9, <1>10, OncePlacedKept, ThreadStepKeeps DEF OnceStep, MovesAll

(* The steps that take no queue and drop nothing from the way to the files. *)
LEMMA CleanStepKeeps ==
    ASSUME TypeOK, OncePlaced, NothingLost, NEW p \in Procs,
           \A q \in Procs \ {p} : SameThread(q), pc'[p] \notin {"push", "pending", "marker_push"},
           UNCHANGED <<stage, noisy, level, ready, early, pending, markers, batch, overtaken>>,
           dropped \subseteq dropped', KindAt(p)', LateBacklog',
           NEW D, OnceStep(D),
           \A m \in D \cap Msgs : ~ (WritesAllowed /\ Asked(m))
    PROVE  OncePlaced' /\ NothingLost'
<1>1. LateStep(p)
  BY DEF LateStep
<1> QED
  BY <1>1, OncePlacedKept, ThreadStepKeeps DEF OnceStep, MovesAll

LEMMA StepLosesNothing ==
    ASSUME TypeOK, TypeOK', OncePlaced, NothingLost, NEW p \in Procs, Step(p)
    PROVE  OncePlaced' /\ NothingLost'
<1> USE DEF flags, queues, sinks, history
<1>0. CallTypes /\ KindAt(p) /\ LateBacklog /\ FlagTypes
  BY DEF TypeOK, NothingLost, KindOfCall
<1>u. \A m \in Unwritten \cap Msgs : ~ (WritesAllowed /\ Asked(m))
  BY DEF Unwritten
<1>1. CASE Push(p)
  <2>1. /\ pc[p] = "push" /\ pc'[p] = "mirror" /\ msg'[p] = msg[p] /\ (emits'[p] <=> emits[p])
        /\ \A q \in Procs \ {p} : SameThread(q)
    BY <1>0, <1>1, GotoThreads DEF Push, PcValues
  <2>2. /\ UNCHANGED <<stage, noisy, level, ready, console>>
        /\ UNCHANGED <<pending, markers, batch, backlog, overtaken>>
        /\ dropped' = dropped \cup Evicted(early, EarlyLimit)
    BY <1>1 DEF Push
  <2>3. /\ OnceStep(Evicted(early, EarlyLimit))
        /\ Evicted(early, EarlyLimit) \subseteq Elements(early)
        /\ Elements(early') = (Elements(early) \ Evicted(early, EarlyLimit)) \cup {msg[p]}
    BY <1>1, PushMoves DEF NothingLost
  <2>4. LateStep(p) /\ KindAt(p)'
    BY <1>0, <2>1, <2>2, <2>3 DEF LateStep, KindAt, OnMirror
  <2>5. LateBacklog'
    BY <1>0, <2>1, <2>2, LateBacklogKept
  <2>6. Evicted(early, EarlyLimit) \cap Emergencies = {}
    BY <2>3, MsgsAssumption DEF NothingLost, KindOfQueue
  <2> QED
    BY <2>2, <2>3, <2>4, <2>5, <2>6, OncePlacedKept, ThreadStepKeeps DEF OnceStep, MovesAll
<1>2. CASE QueuePending(p)
  <2>1. /\ pc[p] = "pending" /\ pc'[p] = "idle" /\ \A q \in Procs \ {p} : SameThread(q)
    BY <1>0, <1>2, GotoThreads DEF QueuePending, PcValues
  <2>2. /\ UNCHANGED <<stage, noisy, level, ready, console>>
        /\ UNCHANGED <<early, markers, batch, backlog, overtaken, dropped>>
    BY <1>2 DEF QueuePending
  <2>3. OnceStep({}) /\ Elements(pending') = Elements(pending) \cup {msg[p]}
    BY <1>2, QueuePendingMoves
  <2>4. LateStep(p) /\ KindAt(p)'
    BY <2>1, <2>2, <2>3 DEF LateStep, KindAt, OnMirror
  <2>5. LateBacklog'
    BY <1>0, <2>1, <2>2, LateBacklogKept
  <2> QED
    BY <2>2, <2>3, <2>4, <2>5, OncePlacedKept, ThreadStepKeeps DEF OnceStep, MovesAll
<1>3. CASE MarkerPush(p)
  <2>1. /\ pc[p] = "marker_push" /\ pc'[p] = "idle" /\ \A q \in Procs \ {p} : SameThread(q)
    BY <1>0, <1>3, GotoThreads DEF MarkerPush, PcValues
  <2>2. /\ UNCHANGED <<stage, noisy, level, ready, console>> /\ dropped \subseteq dropped'
        /\ UNCHANGED <<early, pending, batch, backlog, overtaken>>
    BY <1>3 DEF MarkerPush
  <2>3. /\ OnceStep({msg[p]} \cap dropped')
        /\ Elements(markers') \subseteq Elements(markers) \cup {msg[p]}
    BY <1>3, MarkerPushMoves
  <2>4. LateStep(p) /\ KindAt(p)'
    BY <2>1, <2>2, <2>3 DEF LateStep, KindAt, OnMirror
  <2>5. LateBacklog'
    BY <1>0, <2>1, <2>2, LateBacklogKept
  <2>6. msg[p] \notin Emergencies
    BY <1>0, <2>1, MsgsAssumption DEF KindAt
  <2> QED
    BY <2>2, <2>3, <2>4, <2>5, <2>6, OncePlacedKept, ThreadStepKeeps DEF OnceStep, MovesAll
<1>4. CASE MarkerWrite(p)
  <2>1. /\ pc[p] = "marker_write" /\ pc'[p] = "idle" /\ \A q \in Procs \ {p} : SameThread(q)
    BY <1>0, <1>4, GotoThreads DEF MarkerWrite, PcValues
  <2>2. /\ UNCHANGED <<stage, noisy, level, ready, console>>
        /\ UNCHANGED <<early, pending, markers, batch, backlog, overtaken, dropped>>
    BY <1>4 DEF MarkerWrite
  <2>3. KindAt(p)' /\ LateBacklog'
    BY <1>0, <2>1, <2>2, LateBacklogKept DEF KindAt, OnMirror
  <2> QED
    BY <1>4, <1>u, <2>1, <2>2, <2>3, MarkerWriteMoves, CleanStepKeeps
<1>5. CASE Mirror(p)
  <2>1. PICK to \in PcValues :
          /\ Goto(p, "mirror", to)
          /\ \/ to = AfterMirror(p) \/ to = "write" \/ (to = "queue" /\ ~ console)
    BY <1>5, AfterMirrorKind DEF Mirror, PcValues
  <2>2. /\ pc[p] = "mirror" /\ pc'[p] = to /\ msg'[p] = IF to = "idle" THEN NoMsg ELSE msg[p]
        /\ (emits'[p] <=> to # "idle" /\ emits[p]) /\ \A q \in Procs \ {p} : SameThread(q)
    BY <1>0, <2>1, GotoThreads
  <2>3. /\ UNCHANGED <<stage, noisy, level, ready, console>>
        /\ UNCHANGED <<early, pending, markers, batch, backlog, overtaken, dropped>>
    BY <1>5 DEF Mirror
  <2>4. to \in {"write", "queue", "save", "emit", "idle"}
    BY <2>1, AfterMirrorPlace
  <2>5. KindAt(p)'
    BY <1>0, <2>1, <2>2, <2>3, <2>4 DEF KindAt, OnMirror, AfterMirror
  <2>6. LateBacklog'
    BY <1>0, <2>1, <2>2, <2>3, <2>4, AfterMirrorPlace, LateBacklogKept
  <2> QED
    BY <1>5, <2>2, <2>3, <2>4, <2>5, <2>6, MirrorMoves, CleanStepKeeps
<1>6. CASE Write(p)
  <2>1. PICK to \in PcValues : Goto(p, "write", to) /\ to = AfterMirror(p)
    BY <1>6, AfterMirrorKind DEF Write
  <2>2. /\ pc[p] = "write" /\ pc'[p] = to /\ msg'[p] = IF to = "idle" THEN NoMsg ELSE msg[p]
        /\ \A q \in Procs \ {p} : SameThread(q)
    BY <1>0, <2>1, GotoThreads
  <2>3. /\ UNCHANGED <<stage, noisy, level, ready, console>>
        /\ UNCHANGED <<early, pending, markers, batch, backlog, overtaken, dropped>>
    BY <1>6 DEF Write
  <2>4. to \in {"save", "emit", "idle"}
    BY <2>1, AfterMirrorPlace
  <2>5. KindAt(p)'
    BY <1>0, <2>1, <2>2, <2>3, <2>4 DEF KindAt, OnMirror, AfterMirror
  <2>6. LateBacklog'
    BY <1>0, <2>2, <2>3, <2>4, LateBacklogKept
  <2> QED
    BY <1>6, <2>2, <2>3, <2>4, <2>5, <2>6, WriteMoves, CleanStepKeeps
<1>7. CASE Queue(p)
  <2>1. PICK to \in PcValues : Goto(p, "queue", to) /\ to = AfterMirror(p)
    BY <1>7, AfterMirrorKind DEF Queue
  <2>2. /\ pc[p] = "queue" /\ pc'[p] = to /\ msg'[p] = IF to = "idle" THEN NoMsg ELSE msg[p]
        /\ \A q \in Procs \ {p} : SameThread(q)
    BY <1>0, <2>1, GotoThreads
  <2>3. /\ UNCHANGED <<stage, noisy, level, ready, console>> /\ dropped \subseteq dropped'
        /\ UNCHANGED <<early, pending, markers, batch, overtaken>>
    BY <1>7 DEF Queue
  <2>4. to \in {"save", "emit", "idle"}
    BY <2>1, AfterMirrorPlace
  <2>5. KindAt(p)'
    BY <1>0, <2>1, <2>2, <2>3, <2>4 DEF KindAt, OnMirror, AfterMirror
  <2>6. OnceStep({}) /\ Elements(backlog') \subseteq Elements(backlog) \cup {msg[p]}
    BY <1>7, QueueMoves
  <2>7. LateBacklog'
    BY <1>0, <2>2, <2>3, <2>4, <2>6, LateBacklogKept
  <2> QED
    BY <2>2, <2>3, <2>4, <2>5, <2>6, <2>7, CleanStepKeeps
<1>8. CASE Emit(p)
  <2>1. /\ pc[p] = "emit" /\ pc'[p] = "idle" /\ \A q \in Procs \ {p} : SameThread(q)
    BY <1>0, <1>8, GotoThreads DEF Emit, PcValues
  <2>2. /\ UNCHANGED <<stage, noisy, level, ready, console>>
        /\ UNCHANGED <<early, pending, markers, batch, backlog, overtaken, dropped>>
    BY <1>8 DEF Emit
  <2>3. KindAt(p)' /\ LateBacklog'
    BY <1>0, <2>1, <2>2, LateBacklogKept DEF KindAt, OnMirror
  <2> DEFINE n == IF Emitted(p) THEN 1 ELSE 0
             D == IF n = 1 THEN {} ELSE {msg[p]}
  <2>4. n \in {0, 1} /\ filed' = [filed EXCEPT ![msg[p]] = @ + n] /\ Goto(p, "emit", "idle")
    BY <1>8 DEF Emit
  <2>5. UNCHANGED <<stage, queues, stamp, screen>>
    BY <1>8 DEF Emit
  <2>6. OnceStep(D)
    <3> HIDE DEF n
    <3> QED
      BY <2>4, <2>5, FiledMoves
  <2>7. ~ Emitted(p) => ~ (WritesAllowed /\ Asked(msg[p]))
    <3>1. msg[p] \notin Emergencies /\ stage \notin PreStages \cup {"natives"}
      BY <1>0, <2>1 DEF KindAt, FlagTypes, ReadyStages, LateStages, PreStages
    <3> QED
      BY <3>1 DEF Asked, Emitted
  <2>8. \A m \in D \cap Msgs : ~ (WritesAllowed /\ Asked(m))
    BY <2>7
  <2> HIDE DEF D
  <2> QED
    BY <2>1, <2>2, <2>3, <2>6, <2>8, CleanStepKeeps
<1>9. CASE Save(p)
  <2>1. /\ pc[p] = "save" /\ pc'[p] = "idle" /\ \A q \in Procs \ {p} : SameThread(q)
    BY <1>0, <1>9, GotoThreads DEF Save, PcValues
  <2>2. /\ UNCHANGED <<stage, noisy, level, ready, console>>
        /\ UNCHANGED <<early, pending, markers, batch, backlog, overtaken, dropped>>
    BY <1>9 DEF Save
  <2>3. KindAt(p)' /\ LateBacklog'
    BY <1>0, <2>1, <2>2, LateBacklogKept DEF KindAt, OnMirror
  <2> DEFINE n == IF WritesAllowed THEN 1 ELSE 0
             D == IF n = 1 THEN {} ELSE {msg[p]}
  <2>4. n \in {0, 1} /\ filed' = [filed EXCEPT ![msg[p]] = @ + n] /\ Goto(p, "save", "idle")
    BY <1>9 DEF Save
  <2>5. UNCHANGED <<stage, queues, stamp, screen>>
    BY <1>9 DEF Save
  <2>6. OnceStep(D)
    <3> HIDE DEF n
    <3> QED
      BY <2>4, <2>5, FiledMoves
  <2>7. \A m \in D \cap Msgs : ~ (WritesAllowed /\ Asked(m))
    OBVIOUS
  <2> HIDE DEF D
  <2> QED
    BY <2>1, <2>2, <2>3, <2>6, <2>7, CleanStepKeeps
<1>10. CASE Activate(p)
  <2>1. /\ pc[p] = "activate" /\ pc'[p] = "drain" /\ \A q \in Procs \ {p} : SameThread(q)
    BY <1>0, <1>10, GotoThreads DEF Activate, PcValues
  <2>2. /\ UNCHANGED <<stage, noisy, level, ready>>
        /\ UNCHANGED <<early, pending, markers, batch, backlog, overtaken, dropped>>
    BY <1>10 DEF Activate
  <2>3. KindAt(p)' /\ LateBacklog'
    BY <1>0, <2>1, <2>2, LateBacklogKept DEF KindAt, OnMirror
  <2>4. OnceStep({})
    BY <1>10, QuietMoves DEF Activate, PcValues, Carrying
  <2> QED
    BY <2>1, <2>2, <2>3, <2>4, CleanStepKeeps
<1>11. CASE DrainBacklog(p)
  <2>1. /\ pc[p] = "drain" /\ pc'[p] = "flush" /\ \A q \in Procs \ {p} : SameThread(q)
    BY <1>0, <1>11, GotoThreads DEF DrainBacklog, PcValues
  <2>2. /\ UNCHANGED <<stage, noisy, level, ready, console>>
        /\ UNCHANGED <<early, pending, markers, batch, dropped>>
        /\ backlog' = <<>> /\ overtaken' = overtaken \cup OnWay({"queue"})
    BY <1>11 DEF DrainBacklog
  <2>3. \A q \in Procs : pc'[q] = "queue" => msg'[q] \in overtaken'
    <3> SUFFICES ASSUME NEW q \in Procs, pc'[q] = "queue"
                 PROVE  msg'[q] \in overtaken'
      OBVIOUS
    <3>1. pc[q] = "queue" /\ msg'[q] = msg[q]
      BY <2>1 DEF SameThread
    <3>2. msg[q] \in OnWay({"queue"})
      BY <3>1 DEF OnWay
    <3> QED
      BY <2>2, <3>1, <3>2
  <2>4. LateBacklog'
    BY <2>2, <2>3, EmptyList DEF LateBacklog, LateCalls
  <2>5. KindAt(p)' /\ LateStep(p)
    BY <2>1, <2>2 DEF KindAt, OnMirror, LateStep
  <2>6. OnceStep({})
    BY <1>11, DrainBacklogMoves
  <2> QED
    BY <2>2, <2>4, <2>5, <2>6, OncePlacedKept, ThreadStepKeeps DEF OnceStep, MovesAll
<1>12. CASE FlushRecord(p)
  <2>1. pc[p] = "flush" /\ UNCHANGED <<pc, msg, emits>> /\ \A q \in Procs : SameThread(q)
    BY <1>12 DEF FlushRecord, calls, SameThread
  <2>2. /\ UNCHANGED <<stage, noisy, level, ready, console>>
        /\ UNCHANGED <<early, pending, markers, batch, backlog, overtaken, dropped>>
    BY <1>12 DEF FlushRecord
  <2>3. KindAt(p)' /\ LateBacklog'
    BY <1>0, <2>1, <2>2, LateBacklogKept DEF KindAt, OnMirror
  <2>4. OnceStep({})
    BY <1>12, FlushRecordMoves
  <2> QED
    BY <2>1, <2>2, <2>3, <2>4, CleanStepKeeps
<1>13. CASE FlushEnds(p)
  <2>1. /\ pc[p] = "flush" /\ pc'[p] = "idle" /\ \A q \in Procs \ {p} : SameThread(q)
    BY <1>0, <1>13, GotoThreads DEF FlushEnds, PcValues
  <2>2. /\ UNCHANGED <<stage, noisy, level, ready, console>>
        /\ UNCHANGED <<early, pending, markers, batch, backlog, overtaken, dropped>>
    BY <1>13 DEF FlushEnds
  <2>3. KindAt(p)' /\ LateBacklog'
    BY <1>0, <2>1, <2>2, LateBacklogKept DEF KindAt, OnMirror
  <2>4. OnceStep({})
    BY <1>13, QuietMoves DEF FlushEnds, PcValues, Carrying
  <2> QED
    BY <2>1, <2>2, <2>3, <2>4, CleanStepKeeps
<1> QED
  BY <1>1, <1>2, <1>3, <1>4, <1>5, <1>6, <1>7, <1>8, <1>9, <1>10, <1>11, <1>12, <1>13
  DEF Step

LEMMA ActivatedKeeps ==
    ASSUME NothingLost, UNCHANGED <<msg, emits, console, backlog>>, ready => ready',
           overtaken \subseteq overtaken',
           \A q \in Procs : pc'[q] = pc[q] \/ (pc[q] # "drain" /\ pc'[q] = "activate")
    PROVE  /\ KindOfCall' /\ LateBacklog'
           /\ \A place \in {"push", "pending", "marker_push"} :
                LateCalls(place) => LateCalls(place)'
<1>1. KindOfCall'
  <2> SUFFICES ASSUME NEW q \in Procs PROVE KindAt(q)'
    BY DEF KindOfCall
  <2>1. CASE pc'[q] = pc[q]
    BY <2>1, OtherKind DEF NothingLost, SameThread
  <2>2. CASE pc'[q] = "activate"
    BY <2>2 DEF KindAt, OnMirror
  <2> QED
    BY <2>1, <2>2
<1>2. LateBacklog'
  <2> SUFFICES ASSUME console, \A q \in Procs : pc'[q] # "drain"
               PROVE  Elements(backlog) \subseteq overtaken' /\ LateCalls("queue")'
    BY DEF LateBacklog
  <2>1. \A q \in Procs : pc[q] # "drain"
    OBVIOUS
  <2>2. Elements(backlog) \subseteq overtaken /\ LateCalls("queue")
    BY <2>1 DEF LateBacklog, NothingLost
  <2> QED
    BY <2>2 DEF LateCalls
<1>3. ASSUME NEW place \in {"push", "pending", "marker_push"}, LateCalls(place)
      PROVE  LateCalls(place)'
  BY <1>3 DEF LateCalls
<1> QED
  BY <1>1, <1>2, <1>3

LEMMA OvertakenCalls ==
    ASSUME NEW place, UNCHANGED calls, overtaken' = overtaken \cup OnWay({place})
    PROVE  LateCalls(place)'
<1> SUFFICES ASSUME NEW p \in Procs, pc[p] = place
             PROVE  msg[p] \in overtaken'
  BY DEF LateCalls, calls
<1>1. msg[p] \in OnWay({place})
  BY DEF OnWay
<1> QED
  BY <1>1

(* The noise is known from the start, and the level before anything is      *)
(* written.                                                                 *)
LEMMA AskedBefore ==
    ASSUME UNCHANGED noisy, level' = level \/ stage = "natives",
           stage' \in PreStages \cup {"natives"} => stage \in PreStages \cup {"natives"},
           NEW m, Asked(m)'
    PROVE  Asked(m)
<1>1. CASE stage = "natives"
  BY <1>1 DEF Asked
<1>2. CASE level' = level
  BY <1>2 DEF Asked, Wanted, LoggedAsDebug
<1> QED
  BY <1>1, <1>2

LEMMA SequenceStepKeeps ==
    ASSUME TypeOK, OncePlaced, NothingLost, UNCHANGED <<noisy, msg, emits, console, backlog>>,
           ready => ready', overtaken \subseteq overtaken', dropped \subseteq dropped',
           \A q \in Procs : pc'[q] = pc[q] \/ (pc[q] # "drain" /\ pc'[q] = "activate"),
           level' = level \/ stage = "natives",
           stage' \in PreStages \cup {"natives"} => stage \in PreStages \cup {"natives"},
           NEW D, OnceStep(D),
           \A m \in D \cap Msgs : ~ (WritesAllowed /\ Asked(m)'),
           KindOfQueue', BatchEnds', LateEarly', LateMarkers', LatePending'
    PROVE  OncePlaced' /\ NothingLost'
<1>1. KindOfCall' /\ LateBacklog'
  BY ActivatedKeeps
<1>2. Somewhere'
  BY SomewhereKept, AskedBefore DEF NothingLost, OnceStep, MovesAll
<1> QED
  BY <1>1, <1>2, OncePlacedKept DEF NothingLost

LEMMA BootLosesNothing ==
    ASSUME TypeOK, TypeOK', OncePlaced, NothingLost, IoWaits, Boot
    PROVE  OncePlaced' /\ NothingLost'
<1> USE DEF flags, queues, sinks, history, calls, BootAt, PreStages, ReadyStages, LateStages
<1>0. /\ CallTypes /\ FlagTypes /\ BatchEnds /\ KindOfQueue
      /\ LateEarly /\ LateMarkers /\ LatePending
  BY DEF TypeOK, NothingLost
<1>u. \A m \in Unwritten \cap Msgs : ~ (WritesAllowed /\ Asked(m)')
  BY DEF Unwritten
<1>1. CASE EnterPreload
  <2>1. \A q \in Procs : pc'[q] = pc[q] \/ (pc[q] # "drain" /\ pc'[q] = "activate")
    <3>1. /\ pc["boot"] = "idle"
          /\ pc' = pc \/ pc' = [pc EXCEPT !["boot"] = "activate"]
      BY <1>1 DEF EnterPreload
    <3> QED
      BY <1>0, <3>1 DEF CallTypes
  <2>2. /\ UNCHANGED <<noisy, msg, emits, console, backlog, ready, level, overtaken, dropped>>
        /\ UNCHANGED <<early, pending, markers, batch>>
        /\ stage = "dllmain" /\ stage' \in {"early", "natives"}
    BY <1>1 DEF EnterPreload
  <2>3. LateEarly' /\ LateMarkers' /\ LatePending' /\ BatchEnds' /\ KindOfQueue'
    BY <1>0, <2>2 DEF LateEarly, LateMarkers, LatePending, BatchEnds, KindOfQueue
  <2> QED
    BY <1>1, <2>1, <2>2, <2>3, EnterPreloadMoves, SequenceStepKeeps
<1>2. CASE PublishPending
  <2>1. /\ UNCHANGED <<noisy, calls, console, backlog, ready, level, dropped, early, markers>>
        /\ overtaken' = overtaken \cup OnWay({"pending"})
        /\ batch' = pending /\ pending' = <<>>
        /\ \/ stage = "early" /\ stage' = "early_replay"
           \/ stage = "publish" /\ stage' = "replay"
    BY <1>2 DEF PublishPending
  <2>2. KindOfQueue' /\ BatchEnds'
    BY <1>0, <2>1, EmptyList DEF KindOfQueue, BatchEnds
  <2>3. LateCalls("pending")'
    BY <2>1, OvertakenCalls
  <2>4. LateCalls("push") => LateCalls("push")'
    BY <2>1 DEF LateCalls
  <2>5. LateCalls("marker_push") => LateCalls("marker_push")'
    BY <2>1 DEF LateCalls
  <2>6. LateEarly' /\ LateMarkers' /\ LatePending'
    BY <1>0, <2>1, <2>3, <2>4, <2>5, EmptyList DEF LateEarly, LateMarkers, LatePending
  <2> QED
    BY <1>0, <1>2, <2>1, <2>2, <2>6, PublishPendingMoves, SequenceStepKeeps
<1>3. CASE ReplayRecord
  <2> DEFINE p == "boot"
  <2>1. /\ pc[p] = "idle" /\ stage \in {"early_replay", "replay"} /\ p \in Procs
        /\ batch # <<>> /\ batch' = Tail(batch)
        /\ UNCHANGED <<stage, noisy, level, ready, console>>
        /\ UNCHANGED <<early, pending, markers, backlog, overtaken, dropped>>
    BY <1>3 DEF ReplayRecord, Procs
  <2>2. /\ pc'[p] = (IF ready THEN "mirror" ELSE "push") /\ msg'[p] = Head(batch)
        /\ emits'[p] = ready /\ \A q \in Procs \ {p} : SameThread(q)
    BY <1>0, <1>3, <2>1 DEF ReplayRecord, CallTypes, SameThread
  <2> HIDE DEF p
  <2>3. /\ Head(batch) \in Bridges /\ Elements(batch') \subseteq Bridges
    <3>1. batch \in Seq(Msgs) /\ Distinct(batch)
      BY DEF TypeOK, QueueTypes, OncePlaced, QueuesDistinct
    <3>2. Elements(batch) \subseteq Bridges
      BY <1>0, <2>1 DEF KindOfQueue
    <3> QED
      BY <2>1, <3>1, <3>2, NothingInEmpty, TailOfList
  <2>4. KindAt(p)'
    BY <1>0, <2>1, <2>2, <2>3 DEF KindAt, OnMirror, FlagTypes
  <2>5. KindOfCall'
    <3> SUFFICES ASSUME NEW q \in Procs PROVE KindAt(q)'
      BY DEF KindOfCall
    <3> QED
      BY <2>1, <2>2, <2>4, OtherKind DEF NothingLost
  <2>6. LateStep(p)
    BY <2>1, <2>2 DEF LateStep
  <2>7. LateEarly' /\ LateMarkers' /\ LatePending'
    BY <1>0, <2>1, <2>6, LateKept
  <2>8. LateBacklog'
    BY <2>1, <2>2, LateBacklogKept DEF NothingLost
  <2>9. KindOfQueue' /\ BatchEnds'
    BY <1>0, <2>1, <2>3 DEF KindOfQueue, BatchEnds
  <2>10. OnceStep({})
    BY <1>3, ReplayRecordMoves
  <2>11. Somewhere'
    BY <2>1, <2>10, AskedKept, SomewhereKept DEF NothingLost, OnceStep, MovesAll
  <2> QED
    BY <2>5, <2>7, <2>8, <2>9, <2>10, <2>11, OncePlacedKept DEF NothingLost
<1>4. CASE ReplayEnds
  <2>1. /\ UNCHANGED <<noisy, calls, console, backlog, ready, level, dropped, overtaken>>
        /\ UNCHANGED <<early, pending, markers, batch, stamp, filed, screen, flushing>>
        /\ batch = <<>>
        /\ \/ stage = "early_replay" /\ stage' = "natives"
           \/ stage = "replay" /\ stage' = "done"
    BY <1>4 DEF ReplayEnds
  <2>2. OnceStep({})
    BY <2>1, CallsKept, SequenceMoves
  <2>3. KindOfQueue' /\ BatchEnds'
    BY <1>0, <2>1, EmptyList DEF KindOfQueue, BatchEnds
  <2>4. LateEarly' /\ LateMarkers' /\ LatePending'
    BY <1>0, <2>1 DEF LateEarly, LateMarkers, LatePending, LateCalls
  <2> QED
    BY <1>0, <2>1, <2>2, <2>3, <2>4, SequenceStepKeeps
<1>5. CASE InitLevel
  <2>1. /\ UNCHANGED <<noisy, calls, console, backlog, ready, dropped, overtaken>>
        /\ UNCHANGED <<early, pending, markers, batch, stamp, filed, screen, flushing>>
        /\ stage = "natives" /\ stage' = "init" /\ batch = <<>>
    BY <1>0, <1>5 DEF InitLevel, BatchEnds
  <2>2. OnceStep({})
    BY <2>1, CallsKept, SequenceMoves
  <2>3. KindOfQueue' /\ BatchEnds'
    BY <1>0, <2>1, EmptyList DEF KindOfQueue, BatchEnds
  <2>4. LateEarly' /\ LateMarkers' /\ LatePending'
    BY <2>1 DEF LateEarly, LateMarkers, LatePending
  <2> QED
    BY <1>0, <2>1, <2>2, <2>3, <2>4, SequenceStepKeeps
<1>6. CASE SetReady
  <2>1. /\ UNCHANGED <<noisy, calls, console, backlog, level, dropped, overtaken>>
        /\ UNCHANGED <<early, pending, markers, batch, stamp, filed, screen, flushing>>
        /\ stage = "init" /\ stage' = "drain" /\ batch = <<>> /\ ready'
    BY <1>0, <1>6 DEF SetReady, BatchEnds
  <2>2. OnceStep({})
    BY <2>1, CallsKept, SequenceMoves
  <2>3. KindOfQueue' /\ BatchEnds'
    BY <1>0, <2>1, EmptyList DEF KindOfQueue, BatchEnds
  <2>4. LateEarly' /\ LateMarkers' /\ LatePending'
    BY <2>1 DEF LateEarly, LateMarkers, LatePending
  <2> QED
    BY <1>0, <2>1, <2>2, <2>3, <2>4, SequenceStepKeeps
<1>7. CASE DrainEarly
  <2>1. /\ UNCHANGED <<noisy, calls, console, backlog, ready, level, dropped, pending, markers>>
        /\ overtaken' = overtaken \cup OnWay({"push"})
        /\ batch' \in {early, <<>>} /\ early' = <<>>
        /\ stage = "drain" /\ stage' = "write_early"
    BY <1>7 DEF DrainEarly
  <2>2. KindOfQueue' /\ BatchEnds'
    BY <1>0, <2>1, EmptyList DEF KindOfQueue, BatchEnds
  <2>3. LateCalls("push")'
    BY <2>1, OvertakenCalls
  <2>4. LateEarly' /\ LateMarkers' /\ LatePending'
    BY <1>0, <2>1, <2>3, EmptyList DEF LateEarly, LateMarkers, LatePending
  <2>5. OnceStep(Unwritten)
    BY <1>0, <1>7, DrainEarlyMoves
  <2> QED
    BY <1>0, <1>u, <2>1, <2>2, <2>4, <2>5, SequenceStepKeeps
<1>8. CASE WriteEarly
  <2>1. /\ UNCHANGED <<noisy, calls, console, backlog, ready, level, dropped, overtaken>>
        /\ UNCHANGED <<stage, early, pending, markers, flushing, screen>>
        /\ batch # <<>> /\ batch' = Tail(batch) /\ stage = "write_early"
    BY <1>8 DEF WriteEarly
  <2>2. filed' = [filed EXCEPT ![Head(batch)] = @ + 1]
    BY <1>8 DEF WriteEarly
  <2> DEFINE n == 1
  <2>3. OnceStep({})
    <3>1. n \in {0, 1} /\ filed' = [filed EXCEPT ![Head(batch)] = @ + n] /\ n = 1
      BY <2>2
    <3> HIDE DEF n
    <3>2. OnceStep(IF n = 1 THEN {} ELSE Msgs)
      BY <2>1, <3>1, WriteHeadMoves
    <3> QED
      BY <3>1, <3>2
  <2>4. Elements(batch') \subseteq Elements(batch)
    BY <2>1, TailOfList DEF TypeOK, QueueTypes, OncePlaced, QueuesDistinct
  <2>5. KindOfQueue' /\ BatchEnds'
    BY <1>0, <2>1, <2>4 DEF KindOfQueue, BatchEnds
  <2>6. LateEarly' /\ LateMarkers' /\ LatePending'
    BY <1>0, <2>1 DEF LateEarly, LateMarkers, LatePending, LateCalls
  <2> QED
    BY <1>0, <2>1, <2>3, <2>5, <2>6, SequenceStepKeeps
<1>9. CASE SetConfigured
  <2>1. /\ UNCHANGED <<noisy, calls, console, backlog, ready, level, dropped, overtaken>>
        /\ UNCHANGED <<early, pending, markers, batch, stamp, filed, screen, flushing>>
        /\ stage = "write_early" /\ stage' = "markers" /\ batch = <<>>
    BY <1>9 DEF SetConfigured
  <2>2. OnceStep({})
    BY <2>1, CallsKept, SequenceMoves
  <2>3. KindOfQueue' /\ BatchEnds'
    BY <1>0, <2>1, EmptyList DEF KindOfQueue, BatchEnds
  <2>4. LateEarly' /\ LateMarkers' /\ LatePending'
    BY <1>0, <2>1 DEF LateEarly, LateMarkers, LatePending, LateCalls
  <2> QED
    BY <1>0, <2>1, <2>2, <2>3, <2>4, SequenceStepKeeps
<1>10. CASE TakeMarkers
  <2>1. /\ UNCHANGED <<noisy, calls, console, backlog, ready, level, dropped, early, pending>>
        /\ overtaken' = overtaken \cup OnWay({"marker_push"})
        /\ batch' \in {markers, <<>>} /\ markers' = <<>>
        /\ stage = "markers" /\ stage' = "write_markers"
    BY <1>10 DEF TakeMarkers
  <2>2. KindOfQueue' /\ BatchEnds'
    BY <1>0, <2>1, EmptyList DEF KindOfQueue, BatchEnds
  <2>3. LateCalls("marker_push")'
    BY <2>1, OvertakenCalls
  <2>4. LateCalls("push") => LateCalls("push")'
    BY <2>1 DEF LateCalls
  <2>5. LateEarly' /\ LateMarkers' /\ LatePending'
    BY <1>0, <2>1, <2>3, <2>4, EmptyList DEF LateEarly, LateMarkers, LatePending
  <2> DEFINE D == IF level = Debug THEN {} ELSE Elements(markers)
  <2>6. OnceStep(D)
    BY <1>0, <1>10, TakeMarkersMoves
  <2>7. \A m \in D \cap Msgs : ~ (WritesAllowed /\ Asked(m)')
    <3> SUFFICES ASSUME level # Debug, NEW m \in Elements(markers), Asked(m)'
                 PROVE  FALSE
      OBVIOUS
    <3>1. m \in Verbose /\ m \notin Emergencies
      BY <1>0, MsgsAssumption DEF KindOfQueue
    <3> QED
      BY <2>1, <3>1 DEF Asked, Wanted, LoggedAsDebug
  <2> HIDE DEF D
  <2> QED
    BY <1>0, <2>1, <2>2, <2>5, <2>6, <2>7, SequenceStepKeeps
<1>11. CASE WriteMarker
  <2>1. /\ UNCHANGED <<noisy, calls, console, backlog, ready, level, dropped, overtaken>>
        /\ UNCHANGED <<stage, early, pending, markers, flushing>>
        /\ batch # <<>> /\ batch' = Tail(batch) /\ stage = "write_markers"
    BY <1>11 DEF WriteMarker
  <2>2. /\ filed' = [filed EXCEPT ![Head(batch)] = @ + IF WritesAllowed THEN 1 ELSE 0]
        /\ screen' \in {screen, Append(screen, Head(batch))}
    BY <1>11 DEF WriteMarker, WriteMarkerOut
  <2> DEFINE n == IF WritesAllowed THEN 1 ELSE 0
             D == IF n = 1 THEN {} ELSE Msgs
  <2>3. OnceStep(D)
    <3>1. n \in {0, 1} /\ filed' = [filed EXCEPT ![Head(batch)] = @ + n]
      BY <2>2
    <3> HIDE DEF n
    <3> QED
      BY <2>1, <2>2, <3>1, WriteHeadMoves
  <2>4. \A m \in D \cap Msgs : ~ (WritesAllowed /\ Asked(m)')
    OBVIOUS
  <2> HIDE DEF D
  <2>5. Elements(batch') \subseteq Elements(batch)
    BY <2>1, TailOfList DEF TypeOK, QueueTypes, OncePlaced, QueuesDistinct
  <2>6. KindOfQueue' /\ BatchEnds'
    BY <1>0, <2>1, <2>5 DEF KindOfQueue, BatchEnds
  <2>7. LateEarly' /\ LateMarkers' /\ LatePending'
    BY <1>0, <2>1 DEF LateEarly, LateMarkers, LatePending, LateCalls
  <2> QED
    BY <1>0, <2>1, <2>3, <2>4, <2>6, <2>7, SequenceStepKeeps
<1>12. CASE BringUpConsole
  <2>1. \A q \in Procs : pc'[q] = pc[q] \/ (pc[q] # "drain" /\ pc'[q] = "activate")
    <3>1. pc["boot"] = "idle" /\ pc["io"] = "idle"
      BY <1>12 DEF BringUpConsole, IoWaits
    <3>2. \A q \in Procs : pc'[q] = pc[q] \/ (q \in {"boot", "io"} /\ pc'[q] = "activate")
      BY <1>0, <1>12, BroughtUpThreads
    <3> QED
      BY <3>1, <3>2
  <2>2. /\ UNCHANGED <<noisy, msg, emits, console, backlog, ready, level, overtaken, dropped>>
        /\ UNCHANGED <<early, pending, markers, batch>>
        /\ stage = "write_markers" /\ stage' = "publish" /\ batch = <<>>
    BY <1>12 DEF BringUpConsole
  <2>3. OnceStep({})
    BY <1>12, BringUpConsoleMoves
  <2>4. \A place \in {"push", "pending", "marker_push"} : LateCalls(place) => LateCalls(place)'
    BY <2>1, <2>2, ActivatedKeeps
  <2>5. KindOfQueue' /\ BatchEnds'
    BY <1>0, <2>2, EmptyList DEF KindOfQueue, BatchEnds
  <2>6. LateEarly' /\ LateMarkers' /\ LatePending'
    BY <1>0, <2>2, <2>4 DEF LateEarly, LateMarkers, LatePending
  <2> QED
    BY <2>1, <2>2, <2>3, <2>5, <2>6, SequenceStepKeeps
<1> QED
  BY <1>1, <1>2, <1>3, <1>4, <1>5, <1>6, <1>7, <1>8, <1>9, <1>10, <1>11, <1>12 DEF Boot

LEMMA StepThread ==
    ASSUME CallTypes, NEW p \in Procs, Step(p)
    PROVE  /\ pc[p] # "idle" /\ \A q \in Procs \ {p} : SameThread(q)
           /\ UNCHANGED <<stage, mode, stamp, preloadAt, pending, batch>> \/ pc[p] = "pending"
           /\ UNCHANGED <<stage, mode, stamp, preloadAt, batch>>
<1> USE DEF flags, queues, sinks, history
<1>1. ASSUME NEW from, NEW to, Goto(p, from, to), from # "idle"
      PROVE  pc[p] # "idle" /\ \A q \in Procs \ {p} : SameThread(q)
  BY <1>1 DEF CallTypes, Goto, SameThread
<1>2. CASE Push(p) \/ MarkerPush(p)
  BY <1>1, <1>2 DEF Push, MarkerPush
<1>3. CASE QueuePending(p)
  <2>1. Goto(p, "pending", "idle") /\ UNCHANGED <<stage, mode, stamp, preloadAt, batch>>
    BY <1>3 DEF QueuePending
  <2>2. pc[p] = "pending"
    BY <2>1 DEF Goto
  <2> QED
    BY <1>1, <2>1, <2>2
<1>4. CASE MarkerWrite(p) \/ Mirror(p) \/ Write(p) \/ Queue(p) \/ Emit(p) \/ Save(p)
  BY <1>1, <1>4 DEF MarkerWrite, Mirror, Write, Queue, Emit, Save
<1>5. CASE Activate(p) \/ DrainBacklog(p) \/ FlushEnds(p)
  BY <1>1, <1>5 DEF Activate, DrainBacklog, FlushEnds
<1>6. CASE FlushRecord(p)
  BY <1>6 DEF FlushRecord, calls, SameThread
<1> QED
  BY <1>2, <1>3, <1>4, <1>5, <1>6 DEF Step

LEMMA StartThread ==
    ASSUME TypeOK, NEW p \in Procs, Start(p)
    PROVE  /\ MayLog(p) /\ \A q \in Procs \ {p} : SameThread(q)
           /\ UNCHANGED <<stage, mode, preloadAt>> /\ p # "io"
<1>1. PICK m \in Msgs : \E place : Call(p, m, place)
  BY DEF Start, LogMessage, BridgeMessage, Marker, Emergency
<1> QED
  BY <1>1, LoggersAssumption DEF Call, MayLog, TypeOK, CallTypes, SameThread, flags, history

LEMMA IoWaitsStep ==
    ASSUME TypeOK, IoWaits, [Next]_vars
    PROVE  IoWaits'
<1>0. CallTypes /\ "io" \in Procs
  BY DEF TypeOK, Procs
<1>1. CASE Boot
  <2>1. CASE BringUpConsole
    BY <2>1 DEF BringUpConsole, BootAt, IoWaits
  <2>2. CASE EnterPreload
    <3>1. pc' = pc \/ pc' = [pc EXCEPT !["boot"] = "activate"]
      BY <2>2 DEF EnterPreload
    <3>2. pc'["io"] = pc["io"]
      BY <1>0, <3>1 DEF CallTypes
    <3> QED
      BY <2>2, <3>2 DEF EnterPreload, BootAt, IoWaits
  <2>3. CASE ReplayRecord
    <3>1. pc'["io"] = pc["io"] /\ stage' = stage
      BY <1>0, <2>3 DEF ReplayRecord, CallTypes
    <3> QED
      BY <3>1 DEF IoWaits
  <2>4. CASE PublishPending \/ ReplayEnds \/ InitLevel \/ SetReady \/ DrainEarly
    BY <2>4 DEF PublishPending, ReplayEnds, InitLevel, SetReady, DrainEarly, BootAt,
                calls, IoWaits
  <2>5. CASE WriteEarly \/ SetConfigured \/ TakeMarkers \/ WriteMarker
    BY <2>5 DEF WriteEarly, SetConfigured, TakeMarkers, WriteMarker, BootAt, calls, IoWaits
  <2> QED
    BY <1>1, <2>1, <2>2, <2>3, <2>4, <2>5 DEF Boot
<1>2. ASSUME NEW p \in Procs, Start(p) PROVE IoWaits'
  BY <1>0, <1>2, StartThread DEF IoWaits, SameThread
<1>3. ASSUME NEW p \in Procs, Step(p) PROVE IoWaits'
  BY <1>0, <1>3, StepThread DEF IoWaits, SameThread
<1>4. CASE IoSkipped
  <2>1. pc'["io"] = "idle" /\ stage' = stage
    BY <1>0, <1>4 DEF IoSkipped, Goto, CallTypes
  <2> QED
    BY <2>1 DEF IoWaits
<1>5. CASE UNCHANGED vars
  BY <1>5 DEF vars, calls, IoWaits
<1> QED
  BY <1>1, <1>2, <1>3, <1>4, <1>5 DEF Next, Done

LEMMA StillKept ==
    ASSUME OncePlaced, NothingLost, UNCHANGED vars
    PROVE  OncePlaced' /\ NothingLost'
<1> USE DEF vars, flags, queues, calls, sinks, history
<1>1. Logged' = Logged
  BY DEF Logged
<1>2. FileAt' = FileAt /\ ScreenAt' = ScreenAt
  BY <1>1 DEF FileAt, ScreenAt, FileQueues, ScreenQueues, FileBound, ScreenBound
<1>3. OncePlaced'
  BY <1>2 DEF OncePlaced, Apart, QueuesDistinct, Distinct, FiledOnce
<1>4. KindOfCall' /\ KindOfQueue' /\ BatchEnds'
  BY DEF NothingLost, KindOfCall, KindAt, KindOfQueue, Elements, BatchEnds
<1>5. Somewhere'
  BY <1>2 DEF NothingLost, Somewhere, Asked, Wanted, LoggedAsDebug
<1>6. LateEarly' /\ LateMarkers' /\ LatePending' /\ LateBacklog'
  BY DEF NothingLost, LateEarly, LateMarkers, LatePending, LateBacklog, LateCalls, Elements
<1> QED
  BY <1>3, <1>4, <1>5, <1>6 DEF NothingLost

LEMMA NothingLostStep ==
    ASSUME TypeOK, TypeOK', OncePlaced, NothingLost, IoWaits, [Next]_vars
    PROVE  OncePlaced' /\ NothingLost'
<1>1. CASE IoSkipped
  <2>0. "io" \in Procs /\ CallTypes /\ KindOfCall /\ LateBacklog
    BY DEF Procs, TypeOK, NothingLost
  <2>1. /\ pc["io"] = "activate" /\ pc'["io"] = "idle"
        /\ \A q \in Procs \ {"io"} : SameThread(q)
    BY <1>1, <2>0, GotoThreads DEF IoSkipped, PcValues
  <2>2. /\ UNCHANGED <<stage, noisy, level, ready, console>>
        /\ UNCHANGED <<early, pending, markers, batch, backlog, overtaken, dropped>>
    BY <1>1 DEF IoSkipped, flags, queues, history
  <2>3. KindAt("io")' /\ LateBacklog'
    BY <2>0, <2>1, <2>2, LateBacklogKept DEF KindAt, OnMirror
  <2>4. OnceStep({})
    BY <1>1, <2>0, QuietMoves DEF IoSkipped, PcValues, Carrying
  <2> QED
    BY <2>0, <2>1, <2>2, <2>3, <2>4, CleanStepKeeps
<1> QED
  BY <1>1, StartLosesNothing, StepLosesNothing, BootLosesNothing, StillKept DEF Next, Done

LEMMA NothingLostInit == Init => OncePlaced /\ NothingLost /\ IoWaits
<1> SUFFICES ASSUME Init PROVE OncePlaced /\ NothingLost /\ IoWaits
  OBVIOUS
<1>1. Logged = {} /\ {m \in Msgs : filed[m] # 0} = {}
  BY DEF Init, Logged
<1>2. \A p \in Procs : ~ FileBound(p) /\ ~ ScreenBound(p) /\ pc[p] = "idle"
  BY DEF Init, FileBound, ScreenBound, Carrying, PcValues, OnMirror
<1>3. CallTypes
  BY TypesInit DEF TypeOK
<1>4. /\ \A n \in QueueNames \ {"new"} : FileAt[Q(n)] = {} /\ ScreenAt[Q(n)] = {}
      /\ FileAt[Q("new")] = Msgs
  BY <1>1, QueuesAt, EmptyList DEF Init, QueueNames
<1>5. \A p \in Procs : FileAt[T(p)] = {} /\ ScreenAt[T(p)] = {}
  BY <1>2, <1>3, ThreadHolds
<1>6. \A x \in Places : x = Q("new") \/ (FileAt[x] = {} /\ ScreenAt[x] = {})
  BY <1>4, <1>5, PlacesByKind
<1>7. Apart(FileAt) /\ Apart(ScreenAt)
  BY <1>6 DEF Apart
<1>8. OncePlaced
  BY <1>7, EmptyList DEF Init, OncePlaced, QueuesDistinct, FiledOnce
<1>9. Somewhere
  BY <1>4, PlaceOfQueue DEF Somewhere, QueueNames
<1>10. KindOfCall /\ KindOfQueue /\ BatchEnds /\ IoWaits
  BY <1>2, EmptyList DEF Init, KindOfCall, KindAt, OnMirror, KindOfQueue, BatchEnds, IoWaits,
     Procs
<1>11. LateEarly /\ LateMarkers /\ LatePending /\ LateBacklog
  BY DEF Init, LateEarly, LateMarkers, LatePending, LateBacklog, LateStages
<1> QED
  BY <1>8, <1>9, <1>10, <1>11 DEF NothingLost

-----------------------------------------------------------------------------
(* The bridge's records are on an early console first.                     *)

LEMMA ScreenMoves ==
    ASSUME TypeOK, TypeOK', OncePlaced, NothingLost, [Next]_vars
    PROVE  Moved(ScreenAt, ScreenAt', Msgs)
<1> USE DEF OnceStep, MovesAll, flags, queues, sinks, history
<1>1. ASSUME NEW p \in Procs, Start(p)
      PROVE  Moved(ScreenAt, ScreenAt', Msgs)
  <2>1. PICK m \in Msgs :
          LogMessage(p, m) \/ BridgeMessage(p, m) \/ Marker(p, m) \/ Emergency(p, m)
    BY <1>1 DEF Start
  <2>2. PICK place \in {"push", "mirror", "pending", "marker_push", "marker_write", "idle"} :
          Call(p, m, place)
    BY <2>1 DEF LogMessage, BridgeMessage, Marker, Emergency, TypeOK, FlagTypes
  <2> DEFINE D == IF place = "idle" THEN {m} ELSE {}
  <2>3. OnceStep(D)
    BY <2>2, CallMoves
  <2> HIDE DEF D
  <2> QED
    BY <2>3
<1>2. ASSUME NEW p \in Procs, Step(p)
      PROVE  Moved(ScreenAt, ScreenAt', Msgs)
  <2>1. CASE Push(p) \/ QueuePending(p) \/ MarkerPush(p) \/ MarkerWrite(p)
    BY <2>1, PushMoves, QueuePendingMoves, MarkerPushMoves, MarkerWriteMoves DEF NothingLost
  <2>2. CASE Mirror(p) \/ Write(p) \/ Queue(p) \/ DrainBacklog(p) \/ FlushRecord(p)
    BY <2>2, MirrorMoves, WriteMoves, QueueMoves, DrainBacklogMoves, FlushRecordMoves
  <2>3. CASE Emit(p) \/ Save(p)
    <3>1. PICK n \in {0, 1}, from \in {"emit", "save"} :
            Goto(p, from, "idle") /\ filed' = [filed EXCEPT ![msg[p]] = @ + n]
      BY <2>3 DEF Emit, Save
    <3>2. UNCHANGED <<stage, queues, stamp, screen>>
      BY <2>3 DEF Emit, Save
    <3> DEFINE D == IF n = 1 THEN {} ELSE {msg[p]}
    <3>3. OnceStep(D)
      BY <3>1, <3>2, FiledMoves
    <3> HIDE DEF D
    <3> QED
      BY <3>3
  <2>4. CASE Activate(p) \/ FlushEnds(p)
    <3>1. \E from, to \in PcValues \ Carrying : Goto(p, from, to)
      BY <2>4 DEF Activate, FlushEnds, PcValues, Carrying
    <3>2. UNCHANGED <<stage, queues, stamp, sinks>>
      BY <2>4 DEF Activate, FlushEnds
    <3> QED
      BY <3>1, <3>2, QuietMoves
  <2> QED
    BY <1>2, <2>1, <2>2, <2>3, <2>4 DEF Step
<1>3. CASE Boot
  <2>0. BatchEnds
    BY DEF NothingLost
  <2>1. CASE EnterPreload \/ BringUpConsole \/ PublishPending \/ ReplayRecord
    BY <2>0, <2>1, EnterPreloadMoves, BringUpConsoleMoves, PublishPendingMoves, ReplayRecordMoves
  <2>2. CASE ReplayEnds \/ InitLevel \/ SetReady \/ SetConfigured
    <3>1. /\ UNCHANGED <<calls, queues, stamp, sinks>>
          /\ batch = <<>> \/ (stage' = "write_early" <=> stage = "write_early")
      BY <2>2 DEF ReplayEnds, InitLevel, SetReady, SetConfigured, BootAt, calls
    <3> QED
      BY <3>1, CallsKept, SequenceMoves
  <2>3. CASE DrainEarly \/ TakeMarkers
    <3> DEFINE D == IF level = Debug THEN {} ELSE Elements(markers)
    <3>1. OnceStep(Unwritten) \/ OnceStep(D)
      BY <2>0, <2>3, DrainEarlyMoves, TakeMarkersMoves
    <3> HIDE DEF D
    <3> QED
      BY <3>1
  <2>4. CASE WriteEarly \/ WriteMarker
    <3>1. /\ batch # <<>> /\ batch' = Tail(batch)
          /\ UNCHANGED <<stage, early, backlog, pending, markers, flushing, calls>>
          /\ IF stage = "write_early" THEN UNCHANGED screen
                                      ELSE screen' \in {screen, Append(screen, Head(batch))}
      BY <2>4 DEF WriteEarly, WriteMarker, WriteMarkerOut
    <3>2. \E n \in {0, 1} : filed' = [filed EXCEPT ![Head(batch)] = @ + n]
      BY <2>4 DEF WriteEarly, WriteMarker, WriteMarkerOut
    <3>3. PICK n \in {0, 1} : filed' = [filed EXCEPT ![Head(batch)] = @ + n]
      BY <3>2
    <3> DEFINE D == IF n = 1 THEN {} ELSE Msgs
    <3>4. OnceStep(D)
      BY <3>1, <3>3, WriteHeadMoves
    <3> HIDE DEF D
    <3> QED
      BY <3>4
  <2> QED
    BY <1>3, <2>1, <2>2, <2>3, <2>4 DEF Boot
<1>4. CASE IoSkipped
  <2>1. "io" \in Procs /\ Goto("io", "activate", "idle") /\ UNCHANGED <<stage, queues, stamp, sinks>>
    BY <1>4 DEF IoSkipped, Procs
  <2>2. OnceStep({})
    BY <2>1, QuietMoves DEF PcValues, Carrying
  <2> QED
    BY <2>2
<1>5. CASE UNCHANGED vars
  <2>1. UNCHANGED <<calls, queues, stamp, sinks, stage>>
    BY <1>5 DEF vars, calls
  <2> QED
    BY <2>1, CallsKept, SequenceMoves
<1> QED
  BY <1>1, <1>2, <1>3, <1>4, <1>5 DEF Next, Done

(* A step puts at most one line on the console, below the others. *)
LEMMA ScreenGrows ==
    ASSUME TypeOK, TypeOK', [Next]_vars
    PROVE  screen' = screen \/ \E m \in Msgs : screen' = Append(screen, m)
<1> USE DEF sinks
<1>1. ASSUME NEW p \in Procs, Start(p)
      PROVE  screen' = screen
  BY <1>1 DEF Start, LogMessage, BridgeMessage, Marker, Emergency, Call
<1>2. ASSUME NEW p \in Procs, Step(p)
      PROVE  screen' = screen \/ \E m \in Msgs : screen' = Append(screen, m)
  <2>0. pc[p] \in Carrying => msg[p] \in Msgs
    BY DEF TypeOK, CallTypes
  <2>1. CASE MarkerWrite(p) \/ Write(p)
    <3>1. pc[p] \in Carrying
      BY <2>1 DEF MarkerWrite, Write, Goto, Carrying, PcValues
    <3>2. screen' \in {screen, Append(screen, msg[p])}
      BY <2>1 DEF MarkerWrite, Write, WriteMarkerOut
    <3> QED
      BY <2>0, <3>1, <3>2
  <2>2. CASE FlushRecord(p)
    BY <2>2 DEF FlushRecord, TypeOK, QueueTypes
  <2>3. CASE Push(p) \/ QueuePending(p) \/ MarkerPush(p) \/ Mirror(p) \/ Queue(p)
    BY <2>3 DEF Push, QueuePending, MarkerPush, Mirror, Queue
  <2>4. CASE Emit(p) \/ Save(p) \/ Activate(p) \/ DrainBacklog(p) \/ FlushEnds(p)
    BY <2>4 DEF Emit, Save, Activate, DrainBacklog, FlushEnds
  <2> QED
    BY <1>2, <2>1, <2>2, <2>3, <2>4 DEF Step
<1>3. CASE Boot
  <2>1. CASE WriteMarker
    BY <2>1, NothingInEmpty DEF WriteMarker, WriteMarkerOut, TypeOK, QueueTypes
  <2>2. CASE EnterPreload \/ PublishPending \/ ReplayRecord \/ ReplayEnds \/ InitLevel
    BY <2>2 DEF EnterPreload, PublishPending, ReplayRecord, ReplayEnds, InitLevel
  <2>3. CASE SetReady \/ DrainEarly \/ WriteEarly \/ SetConfigured \/ TakeMarkers \/ BringUpConsole
    BY <2>3 DEF SetReady, DrainEarly, WriteEarly, SetConfigured, TakeMarkers, BringUpConsole
  <2> QED
    BY <1>3, <2>1, <2>2, <2>3 DEF Boot
<1>4. CASE IoSkipped \/ UNCHANGED vars
  BY <1>4 DEF IoSkipped, vars
<1> QED
  BY <1>1, <1>2, <1>3, <1>4 DEF Next, Done

(* Messages are numbered as they are logged. *)
StampsKept ==
  /\ Logged \subseteq Logged' /\ \A m \in Logged : stamp'[m] = stamp[m]
  /\ \A m \in Logged' \ Logged : stamp'[m] = Cardinality(Logged) + 1
  /\ Cardinality(Logged)' \in {Cardinality(Logged), Cardinality(Logged) + 1}
  /\ Cardinality(Logged)' = Cardinality(Logged) => Logged' = Logged

LEMMA StampsGrow ==
    ASSUME TypeOK, [Next]_vars
    PROVE  Cardinality(Logged) \in Nat /\ StampsKept
<1>0. Cardinality(Logged) \in Nat
  BY FS_CardinalityType DEF TypeOK, SinkTypes
<1>1. ASSUME NEW p \in Procs, Start(p)
      PROVE  StampsKept
  <2>1. PICK m \in Msgs :
          LogMessage(p, m) \/ BridgeMessage(p, m) \/ Marker(p, m) \/ Emergency(p, m)
    BY <1>1 DEF Start
  <2>2. PICK place \in PcValues : Call(p, m, place)
    BY <2>1 DEF LogMessage, BridgeMessage, Marker, Emergency, TypeOK, FlagTypes, PcValues
  <2>3. /\ Logged' = Logged \cup {m} /\ m \notin Logged /\ stamp'[m] = Cardinality(Logged) + 1
        /\ Cardinality(Logged)' = Cardinality(Logged) + 1
        /\ \A n \in Msgs \ {m} : stamp'[n] = stamp[n]
    BY <2>2, CalledThreads
  <2>4. \A n \in Logged : stamp'[n] = stamp[n]
    BY <2>3 DEF Logged
  <2> QED
    BY <1>0, <2>3, <2>4 DEF StampsKept
<1>2. ASSUME UNCHANGED stamp PROVE StampsKept
  <2>1. Logged' = Logged
    BY <1>2 DEF Logged
  <2> QED
    BY <1>0, <1>2, <2>1 DEF StampsKept
<1>3. ASSUME NEW p \in Procs, Step(p) PROVE StampsKept
  BY <1>2, <1>3, StepThread DEF TypeOK
<1>4. CASE Boot
  <2> USE DEF calls
  <2>1. CASE EnterPreload \/ PublishPending \/ ReplayRecord \/ ReplayEnds \/ InitLevel
    BY <1>0, <1>2, <2>1 DEF EnterPreload, PublishPending, ReplayRecord, ReplayEnds, InitLevel
  <2>2. CASE SetReady \/ DrainEarly \/ WriteEarly \/ SetConfigured
    BY <1>0, <1>2, <2>2 DEF SetReady, DrainEarly, WriteEarly, SetConfigured
  <2>3. CASE TakeMarkers \/ WriteMarker \/ BringUpConsole
    BY <1>0, <1>2, <2>3 DEF TakeMarkers, WriteMarker, BringUpConsole
  <2> QED
    BY <1>4, <2>1, <2>2, <2>3 DEF Boot
<1>5. CASE IoSkipped \/ UNCHANGED vars
  BY <1>0, <1>2, <1>5 DEF IoSkipped, vars, calls
<1> QED
  BY <1>0, <1>1, <1>3, <1>4, <1>5 DEF Next, Done

LEMMA MovedFrom ==
    ASSUME NEW at, NEW to, NEW D, Moved(at, to, D), NEW x \in Places, NEW m \in to[x]
    PROVE  \E y \in Places : m \in at[y]
<1>1. PICK a \in Places, b \in Places : \E M \in SUBSET at[a] : Moves(at, to, a, b, M, D)
  BY DEF Moved
<1>2. PICK M \in SUBSET at[a] : Moves(at, to, a, b, M, D)
  BY <1>1
<1>3. CASE x = b
  BY <1>2, <1>3 DEF Moves
<1>4. CASE x # b
  BY <1>2, <1>4 DEF Moves
<1> QED
  BY <1>3, <1>4

LEMMA ShownIsLogged ==
    ASSUME TypeOK, OncePlaced
    PROVE  Elements(screen) \subseteq Logged
<1>1. ScreenAt[Q("out")] \cap ScreenAt[Q("new")] = {}
  BY PlaceOfQueue, PlacesDiffer DEF OncePlaced, Apart, QueueNames
<1>2. Elements(screen) \subseteq Msgs
  BY ElementsTyped DEF TypeOK, SinkTypes
<1> QED
  BY <1>1, <1>2, QueuesAt

(* A step after the native DLLs are loaded, or before them, takes no record *)
(* of the bridge that is old below a line that is not.                      *)
LEMMA RecordsKept ==
    ASSUME TypeOK, TypeOK', OncePlaced, OncePlaced', NothingLost, BridgeFirst, [Next]_vars,
           preloadAt' = preloadAt, mode' = "early" => mode = "early",
           stage' \notin PreStages /\ mode' = "early" => stage \notin PreStages
    PROVE  NoOldRecordsHeld' /\ BridgeBeforeNatives'
<1>0. Moved(ScreenAt, ScreenAt', Msgs)
  BY ScreenMoves
<1>1. /\ Cardinality(Logged) \in Nat /\ StampsKept /\ preloadAt <= Cardinality(Logged)
      /\ preloadAt \in Nat
  BY StampsGrow DEF BridgeFirst, TypeOK, SinkTypes
<1>2. Elements(screen) \subseteq Logged
  BY ShownIsLogged
<1>3. ASSUME NEW m \in Msgs, Old(m)'
      PROVE  m \in Logged /\ stamp'[m] = stamp[m] /\ Old(m)
  <2>1. m \in Logged'
    BY <1>3 DEF Old, Logged
  <2>2. m \in Logged
    <3> SUFFICES ASSUME m \notin Logged PROVE FALSE
      OBVIOUS
    <3>1. stamp'[m] = Cardinality(Logged) + 1
      BY <1>1, <2>1 DEF StampsKept
    <3> QED
      BY <1>1, <1>3, <3>1 DEF Old
  <2>3. stamp'[m] = stamp[m]
    BY <1>1, <2>2 DEF StampsKept
  <2> QED
    BY <1>3, <2>2, <2>3 DEF Old
<1>4. Elements(screen) \subseteq Elements(screen')
  <2>1. screen' = screen \/ \E m \in Msgs : screen' = Append(screen, m)
    BY ScreenGrows
  <2> QED
    BY <2>1, AppendedList DEF TypeOK, SinkTypes
<1>5. ASSUME NEW y \in Places, NEW m \in Msgs, m \in ScreenAt[y], m \in Bridges, Old(m)',
             m \notin Elements(screen), mode' = "early"
      PROVE  stage \in PreStages
  <2>1. y # Q("out")
    BY <1>5, QueuesAt
  <2>2. y # Q("new")
    BY <1>3, <1>5, QueuesAt
  <2> QED
    BY <1>3, <1>5, <2>1, <2>2 DEF BridgeFirst, NoOldRecordsHeld
<1>6. NoOldRecordsHeld'
  <2> SUFFICES ASSUME mode' = "early", stage' \notin PreStages,
                      NEW x \in Places \ {Q("new"), Q("out")},
                      NEW m \in ScreenAt'[x] \cap Bridges, Old(m)'
               PROVE  FALSE
    BY DEF NoOldRecordsHeld
  <2>1. PICK y \in Places : m \in ScreenAt[y]
    BY <1>0, MovedFrom
  <2>2. m \in Msgs
    BY DEF Msgs
  <2>3. ScreenAt'[x] \cap ScreenAt'[Q("out")] = {}
    BY PlaceOfQueue DEF OncePlaced, Apart, QueueNames
  <2>4. m \notin Elements(screen')
    BY <2>3, QueuesAtNext
  <2> QED
    BY <1>4, <1>5, <2>1, <2>2, <2>4
<1>7. BridgeBeforeNatives'
  <2> SUFFICES ASSUME NEW i \in 1 .. Len(screen'), NEW j \in 1 .. Len(screen'), mode' = "early",
                      i < j, screen'[j] \in Bridges, stamp'[screen'[j]] <= preloadAt
               PROVE  stamp'[screen'[i]] <= preloadAt
    BY DEF BridgeBeforeNatives
  <2>0. screen \in Seq(Msgs) /\ Len(screen) \in Nat
    BY DEF TypeOK, SinkTypes
  <2>1. \A k \in 1 .. Len(screen) : screen[k] \in Logged /\ stamp'[screen[k]] = stamp[screen[k]]
    BY <1>1, <1>2 DEF StampsKept, Elements
  <2>2. CASE i \in 1 .. Len(screen) /\ j \in 1 .. Len(screen)
              /\ screen'[i] = screen[i] /\ screen'[j] = screen[j]
    BY <2>1, <2>2 DEF BridgeFirst, BridgeBeforeNatives
  <2>3. ASSUME NEW m \in Msgs, screen' = Append(screen, m), j \notin 1 .. Len(screen)
        PROVE  stamp'[screen'[i]] <= preloadAt
    <3>1. /\ j = Len(screen) + 1 /\ screen'[j] = m /\ i \in 1 .. Len(screen)
          /\ screen'[i] = screen[i]
      BY <2>0, <2>3
    <3>2. m \in Elements(screen')
      BY <3>1 DEF Elements
    <3>3. m \notin Elements(screen)
      <4> SUFFICES ASSUME NEW k \in 1 .. Len(screen), m = screen[k] PROVE FALSE
        BY DEF Elements
      <4>1. k \in 1 .. Len(screen') /\ screen'[k] = screen'[j] /\ k # j
        BY <2>0, <2>3, <3>1
      <4> QED
        BY <4>1 DEF OncePlaced, Distinct
    <3>4. PICK y \in Places : m \in ScreenAt[y]
      BY <1>0, <3>2, MovedFrom, PlaceOfQueue, QueuesAtNext DEF QueueNames
    <3>5. Old(m)'
      <4>1. ScreenAt'[Q("new")] \cap ScreenAt'[Q("out")] = {}
        BY PlaceOfQueue, PlacesDiffer DEF OncePlaced, Apart, QueueNames
      <4>2. m \in Logged'
        BY <3>2, <4>1, QueuesAtNext
      <4> QED
        BY <3>1, <4>2 DEF Old, Logged
    <3>6. stage \in PreStages /\ stage # "dllmain"
      <4>1. stage \in PreStages
        BY <1>5, <3>1, <3>3, <3>4, <3>5
      <4> QED
        BY <4>1 DEF BridgeFirst, BeforeNatives
    <3>7. Old(screen[i])
      BY <2>1, <3>1, <3>6 DEF BridgeFirst, BeforeNatives
    <3> QED
      BY <2>1, <3>1, <3>7 DEF Old
  <2>4. CASE screen' = screen
    BY <2>2, <2>4
  <2>5. ASSUME NEW m \in Msgs, screen' = Append(screen, m), j \in 1 .. Len(screen)
        PROVE  stamp'[screen'[i]] <= preloadAt
    <3>1. i \in 1 .. Len(screen) /\ screen'[i] = screen[i] /\ screen'[j] = screen[j]
      BY <2>0, <2>5
    <3> QED
      BY <2>2, <2>5, <3>1
  <2> QED
    BY <2>3, <2>4, <2>5, ScreenGrows
<1> QED
  BY <1>6, <1>7

LEMMA EarlyConsoleStep ==
    ASSUME TypeOK, TypeOK', OncePlaced, KindOfCall, EarlyConsole, stage \in PreStages,
           Step("boot")
    PROVE  EarlyConsole'
<1> USE DEF flags, queues, sinks, history, OnMirror, EarlyConsole
<1>0. CallTypes /\ "boot" \in Procs /\ stage' = stage
  BY StepThread DEF TypeOK, Procs
<1>1. CASE Push("boot")
  <2>1. pc["boot"] = "push" /\ pc'["boot"] = "mirror" /\ msg'["boot"] = msg["boot"]
    BY <1>0, <1>1, GotoThreads DEF Push, PcValues
  <2> QED
    BY <1>0, <1>1, <2>1 DEF Push
<1>2. CASE QueuePending("boot")
  <2>1. pc["boot"] = "pending" /\ pc'["boot"] = "idle"
    BY <1>0, <1>2, GotoThreads DEF QueuePending, PcValues
  <2> QED
    BY <1>0, <1>2, <2>1 DEF QueuePending
<1>3. CASE MarkerPush("boot") \/ MarkerWrite("boot") \/ Emit("boot") \/ Save("boot")
  <2>1. pc'["boot"] = "idle" /\ pc["boot"] \in {"marker_push", "marker_write", "emit", "save"}
    BY <1>0, <1>3, GotoThreads DEF MarkerPush, MarkerWrite, Emit, Save, PcValues
  <2>2. UNCHANGED <<console, backlog, flushing, pending>>
    BY <1>3 DEF MarkerPush, MarkerWrite, Emit, Save
  <2> QED
    BY <1>0, <2>1, <2>2
<1>4. CASE Mirror("boot")
  <2>1. PICK to \in {"write", "queue", "save", "emit", "idle"} :
          Goto("boot", "mirror", to) /\ (to = "queue" => ~ console)
    BY <1>4, AfterMirrorPlace, <1>0 DEF Mirror
  <2>2. /\ pc["boot"] = "mirror" /\ pc'["boot"] = to
        /\ to # "idle" => msg'["boot"] = msg["boot"]
    BY <1>0, <2>1, GotoThreads DEF PcValues
  <2>3. UNCHANGED <<console, backlog, flushing, pending>>
    BY <1>4 DEF Mirror
  <2> QED
    BY <1>0, <2>1, <2>2, <2>3
<1>5. CASE Write("boot")
  <2>1. PICK to \in {"save", "emit", "idle"} : Goto("boot", "write", to)
    BY <1>5, <1>0, AfterMirrorPlace DEF Write
  <2>2. pc["boot"] = "write" /\ pc'["boot"] = to
    BY <1>0, <2>1, GotoThreads DEF PcValues
  <2>3. UNCHANGED <<console, backlog, flushing, pending>>
    BY <1>5 DEF Write
  <2> QED
    BY <1>0, <2>2, <2>3
<1>6. CASE Queue("boot")
  <2>1. PICK to \in {"save", "emit", "idle"} : Goto("boot", "queue", to)
    BY <1>6, <1>0, AfterMirrorPlace DEF Queue
  <2>2. pc["boot"] = "queue" /\ pc'["boot"] = to
    BY <1>0, <2>1, GotoThreads DEF PcValues
  <2>3. UNCHANGED <<console, flushing, pending>>
    BY <1>6 DEF Queue
  <2>4. Elements(backlog') \subseteq Elements(backlog) \cup {msg["boot"]}
    BY <1>0, <1>6, QueueMoves
  <2> QED
    BY <1>0, <2>2, <2>3, <2>4
<1>7. CASE Activate("boot")
  <2>1. pc["boot"] = "activate" /\ pc'["boot"] = "drain"
    BY <1>0, <1>7, GotoThreads DEF Activate, PcValues
  <2> QED
    BY <1>0, <1>7, <2>1 DEF Activate
<1>8. CASE DrainBacklog("boot")
  <2>1. pc["boot"] = "drain" /\ pc'["boot"] = "flush"
    BY <1>0, <1>8, GotoThreads DEF DrainBacklog, PcValues
  <2> QED
    BY <1>0, <1>8, <2>1, EmptyList DEF DrainBacklog
<1>9. CASE FlushRecord("boot")
  BY <1>0, <1>9 DEF FlushRecord, calls
<1>10. CASE FlushEnds("boot")
  <2>1. pc["boot"] = "flush" /\ pc'["boot"] = "idle"
    BY <1>0, <1>10, GotoThreads DEF FlushEnds, PcValues
  <2> QED
    BY <1>0, <1>10, <2>1 DEF FlushEnds
<1> QED
  BY <1>1, <1>2, <1>3, <1>4, <1>5, <1>6, <1>7, <1>8, <1>9, <1>10 DEF Step

(* Before the native DLLs are loaded only the loader's own thread runs. *)
LEMMA BeforeNativesStep ==
    ASSUME TypeOK, TypeOK', OncePlaced, NothingLost, BridgeFirst, [Next]_vars
    PROVE  BeforeNatives'
<1> USE DEF flags, queues, sinks, history, PreStages
<1> SUFFICES ASSUME stage' \in PreStages PROVE BeforeNatives'
  BY DEF BeforeNatives
<1>0. /\ CallTypes /\ "boot" \in Procs /\ KindOfCall /\ BeforeNatives
      /\ "io" \in Procs \ {"boot"}
  BY DEF TypeOK, Procs, NothingLost, BridgeFirst
<1>r. stage \in PreStages => ~ ready /\ ~ configured
  BY DEF TypeOK, FlagTypes, ReadyStages, LateStages
<1>1. ASSUME NEW p \in Procs, Start(p)
      PROVE  BeforeNatives'
  <2>1. PICK m \in Msgs :
          LogMessage(p, m) \/ BridgeMessage(p, m) \/ Marker(p, m) \/ Emergency(p, m)
    BY <1>1 DEF Start
  <2>2. PICK place \in PcValues : Call(p, m, place) /\ (m \in Bridges => place = "pending" \/ ready)
    BY <2>1, MsgsAssumption
       DEF LogMessage, BridgeMessage, Marker, Emergency, TypeOK, FlagTypes, PcValues
  <2>3. /\ MayLog(p)
        /\ UNCHANGED <<stage, mode, console, backlog, flushing, pending>>
    BY <2>2 DEF Call
  <2>4. p = "boot" /\ stage = "dllmain"
    BY <2>3 DEF MayLog
  <2>5. /\ pc'["boot"] = place /\ msg'["boot"] = m /\ \A q \in Procs \ {"boot"} : SameThread(q)
    BY <2>2, <2>4, CalledThreads
  <2>6. EarlyConsole'
    BY <1>0, <1>r, <2>2, <2>3, <2>4, <2>5 DEF BeforeNatives, EarlyConsole, OnMirror
  <2> QED
    BY <1>0, <2>3, <2>4, <2>5, <2>6 DEF BeforeNatives, SameThread
<1>2. ASSUME UNCHANGED <<stage, mode, stamp, preloadAt>>, EarlyConsole',
             \A q \in Procs \ {"boot"} : pc'[q] = pc[q]
      PROVE  BeforeNatives'
  <2>1. Logged' = Logged /\ \A m : Old(m)' <=> Old(m)
    BY <1>2 DEF Logged, Old
  <2> QED
    BY <1>0, <1>2, <2>1 DEF BeforeNatives
<1>3. ASSUME NEW p \in Procs, Step(p)
      PROVE  BeforeNatives'
  <2>1. /\ pc[p] # "idle" /\ \A q \in Procs \ {p} : SameThread(q)
        /\ UNCHANGED <<stage, mode, stamp, preloadAt>>
    BY <1>0, <1>3, StepThread
  <2>2. p = "boot"
    BY <1>0, <2>1 DEF BeforeNatives
  <2>3. EarlyConsole'
    BY <1>0, <1>3, <2>1, <2>2, EarlyConsoleStep DEF BeforeNatives
  <2> QED
    BY <1>2, <2>1, <2>2, <2>3 DEF SameThread
<1>4. CASE EnterPreload
  <2>1. /\ stage = "dllmain" /\ stage' = "early" /\ mode' = "early" /\ pc["boot"] = "idle"
        /\ pc' = [pc EXCEPT !["boot"] = "activate"] /\ preloadAt' = Cardinality(Logged)
        /\ UNCHANGED <<console, backlog, flushing, pending, stamp, msg>>
    BY <1>4 DEF EnterPreload, BootAt
  <2>2. pc'["boot"] = "activate" /\ \A q \in Procs \ {"boot"} : pc'[q] = pc[q]
    BY <1>0, <2>1 DEF CallTypes
  <2>3. Logged' = Logged
    BY <2>1 DEF Logged
  <2>4. \A m \in Logged' : Old(m)'
    BY <2>1, <2>3 DEF BridgeFirst, Old, Logged
  <2>5. EarlyConsole'
    BY <1>0, <2>1, <2>2 DEF BeforeNatives, EarlyConsole, OnMirror
  <2> QED
    BY <1>0, <2>1, <2>2, <2>4, <2>5 DEF BeforeNatives
<1>5. CASE PublishPending
  <2>1. /\ stage = "early" /\ stage' = "early_replay" /\ pc["boot"] = "idle" /\ pending' = <<>>
        /\ UNCHANGED <<console, backlog, flushing, pc, msg, stamp, mode, preloadAt>>
    BY <1>5 DEF PublishPending, BootAt, calls
  <2>2. EarlyConsole'
    BY <1>0, <2>1 DEF BeforeNatives, EarlyConsole
  <2>3. Logged' = Logged /\ \A m : Old(m)' <=> Old(m)
    BY <2>1 DEF Logged, Old
  <2> QED
    BY <1>0, <2>1, <2>2, <2>3 DEF BeforeNatives
<1>6. CASE ReplayRecord
  <2>1. /\ UNCHANGED <<console, backlog, flushing, pending, stamp, stage, mode, preloadAt>>
        /\ pc' = [pc EXCEPT !["boot"] = IF ready THEN "mirror" ELSE "push"]
        /\ stage \in {"early_replay", "replay"}
    BY <1>6 DEF ReplayRecord
  <2>2. /\ pc'["boot"] \in {"mirror", "push"} /\ stage = "early_replay"
        /\ \A q \in Procs \ {"boot"} : pc'[q] = pc[q]
    BY <1>0, <2>1 DEF CallTypes
  <2>3. EarlyConsole'
    BY <1>0, <2>1, <2>2 DEF BeforeNatives, EarlyConsole
  <2> QED
    BY <1>2, <2>1, <2>2, <2>3
<1>7. CASE Boot /\ ~ EnterPreload /\ ~ PublishPending /\ ~ ReplayRecord
  <2>1. CASE ReplayEnds \/ InitLevel \/ SetReady \/ DrainEarly \/ SetConfigured \/ TakeMarkers
              \/ BringUpConsole
    BY <2>1 DEF ReplayEnds, InitLevel, SetReady, DrainEarly, SetConfigured, TakeMarkers,
       BringUpConsole, BootAt
  <2>2. CASE WriteEarly \/ WriteMarker
    BY <2>2 DEF WriteEarly, WriteMarker
  <2> QED
    BY <1>7, <2>1, <2>2 DEF Boot
<1>8. CASE IoSkipped
  <2>1. pc["io"] = "activate" /\ stage' = stage
    BY <1>8 DEF IoSkipped, Goto
  <2> QED
    BY <1>0, <2>1 DEF BeforeNatives
<1>9. CASE UNCHANGED vars
  <2>1. UNCHANGED <<stage, mode, stamp, preloadAt, pc, msg, console, backlog, flushing, pending>>
    BY <1>9 DEF vars, calls
  <2>2. EarlyConsole'
    BY <1>0, <2>1 DEF BeforeNatives, EarlyConsole
  <2> QED
    BY <1>2, <2>1, <2>2
<1> QED
  BY <1>1, <1>3, <1>4, <1>5, <1>6, <1>7, <1>8, <1>9 DEF Next, Done

(* Only EnterPreload settles the mode to be early and takes the history's   *)
(* note.                                                                    *)
LEMMA PreloadOnce ==
    ASSUME TypeOK, [Next]_vars, ~ EnterPreload
    PROVE  preloadAt' = preloadAt /\ (mode' = "early" => mode = "early")
<1> USE DEF flags, history
<1>1. ASSUME NEW p \in Procs, Start(p) \/ Step(p)
      PROVE  UNCHANGED <<mode, preloadAt>>
  BY <1>1, StartThread, StepThread DEF TypeOK
<1>2. CASE Boot
  <2>1. CASE PublishPending \/ ReplayRecord \/ ReplayEnds \/ InitLevel
    BY <2>1 DEF PublishPending, ReplayRecord, ReplayEnds, InitLevel
  <2>2. CASE SetReady \/ DrainEarly \/ WriteEarly \/ SetConfigured
    BY <2>2 DEF SetReady, DrainEarly, WriteEarly, SetConfigured
  <2>3. CASE TakeMarkers \/ WriteMarker \/ BringUpConsole
    BY <2>3 DEF TakeMarkers, WriteMarker, BringUpConsole
  <2> QED
    BY <1>2, <2>1, <2>2, <2>3 DEF Boot
<1>3. CASE IoSkipped \/ UNCHANGED vars
  BY <1>3 DEF IoSkipped, vars
<1> QED
  BY <1>1, <1>2, <1>3 DEF Next, Done

(* Only the end of the replay leaves the early stages with an early console. *)
LEMMA PreloadLeft ==
    ASSUME TypeOK, [Next]_vars, ~ EnterPreload, stage \in PreStages, stage' \notin PreStages
    PROVE  ReplayEnds /\ stage = "early_replay"
<1> USE DEF flags, history, PreStages
<1>1. ASSUME NEW p \in Procs, Start(p) \/ Step(p)
      PROVE  FALSE
  BY <1>1, StartThread, StepThread DEF TypeOK
<1>2. CASE Boot
  <2>1. CASE PublishPending \/ ReplayRecord \/ InitLevel \/ SetReady \/ DrainEarly
    BY <2>1 DEF PublishPending, ReplayRecord, InitLevel, SetReady, DrainEarly, BootAt
  <2>2. CASE WriteEarly \/ SetConfigured \/ TakeMarkers \/ WriteMarker \/ BringUpConsole
    BY <2>2 DEF WriteEarly, SetConfigured, TakeMarkers, WriteMarker, BringUpConsole, BootAt
  <2>3. CASE ReplayEnds
    BY <2>3 DEF ReplayEnds, BootAt
  <2> QED
    BY <1>2, <2>1, <2>2, <2>3 DEF Boot
<1>3. CASE IoSkipped \/ UNCHANGED vars
  BY <1>3 DEF IoSkipped, vars
<1> QED
  BY <1>1, <1>2, <1>3 DEF Next, Done

LEMMA BridgeFirstStep ==
    ASSUME TypeOK, TypeOK', OncePlaced, OncePlaced', NothingLost, NothingLost', BridgeFirst,
           [Next]_vars
    PROVE  BridgeFirst'
<1>0. /\ Cardinality(Logged) \in Nat /\ Cardinality(Logged)' \in Nat /\ StampsKept
      /\ preloadAt \in Nat /\ preloadAt <= Cardinality(Logged)
      /\ stamp \in [Msgs -> Nat]
  BY StampsGrow, FS_CardinalityType DEF TypeOK, SinkTypes, BridgeFirst
<1>1. \A m \in Logged' : stamp'[m] <= Cardinality(Logged)'
  <2> SUFFICES ASSUME NEW m \in Logged' PROVE stamp'[m] <= Cardinality(Logged)'
    OBVIOUS
  <2>1. CASE m \in Logged
    <3>1. stamp'[m] = stamp[m] /\ stamp[m] <= Cardinality(Logged) /\ stamp[m] \in Nat
      BY <1>0, <2>1 DEF StampsKept, BridgeFirst, Logged
    <3> QED
      BY <1>0, <3>1 DEF StampsKept
  <2>2. CASE m \notin Logged
    <3>1. stamp'[m] = Cardinality(Logged) + 1
      BY <1>0, <2>2 DEF StampsKept
    <3>2. Cardinality(Logged)' = Cardinality(Logged) + 1
      BY <1>0, <2>2 DEF StampsKept
    <3> QED
      BY <1>0, <3>1, <3>2
  <2> QED
    BY <2>1, <2>2
<1>2. BeforeNatives'
  BY BeforeNativesStep
<1>3. preloadAt' <= Cardinality(Logged)' /\ NoOldRecordsHeld' /\ BridgeBeforeNatives'
  <2>1. CASE EnterPreload
    <3>1. /\ preloadAt' = Cardinality(Logged) /\ UNCHANGED <<stamp, screen>>
          /\ stage = "dllmain" /\ (mode' = "early" => stage' = "early" \/ mode' = mode)
      BY <2>1 DEF EnterPreload, BootAt, sinks
    <3>2. mode' = "early" => stage' \in PreStages
      BY <3>1 DEF BridgeFirst, BeforeNatives, PreStages
    <3>3. preloadAt' <= Cardinality(Logged)'
      BY <1>0, <3>1 DEF StampsKept
    <3>4. NoOldRecordsHeld'
      BY <3>2 DEF NoOldRecordsHeld
    <3>5. \A i \in 1 .. Len(screen) : stamp[screen[i]] <= Cardinality(Logged)
      BY ShownIsLogged DEF Elements, BridgeFirst
    <3>6. BridgeBeforeNatives'
      BY <3>1, <3>5 DEF BridgeBeforeNatives
    <3> QED
      BY <3>3, <3>4, <3>6
  <2>2. CASE ~ EnterPreload
    <3>1. preloadAt' = preloadAt /\ (mode' = "early" => mode = "early")
      BY <2>2, PreloadOnce
    <3>2. preloadAt' <= Cardinality(Logged)'
      BY <1>0, <3>1 DEF StampsKept
    <3>3. CASE stage \in PreStages /\ stage' \notin PreStages
      <4> USE DEF flags, queues, sinks, history, calls
      <4>1. /\ stage = "early_replay" /\ batch = <<>> /\ pc["boot"] = "idle"
            /\ stage' = "natives"
            /\ UNCHANGED <<batch, pending, backlog, flushing, markers, pc, msg, screen, stamp, mode>>
        BY <2>2, <3>3, PreloadLeft DEF ReplayEnds, BootAt
      <4>2. /\ \A p \in Procs : pc[p] = "idle"
            /\ pending = <<>> /\ Elements(backlog) \cap Bridges = {} /\ flushing \cap Bridges = {}
        BY <3>3, <4>1 DEF BridgeFirst, BeforeNatives, EarlyConsole
      <4>3. \A n \in QueueNames \ {"new", "out"} : ScreenAt'[Q(n)] \cap Bridges = {}
        <5>1. Elements(markers) \cap Bridges = {}
          BY MsgsAssumption DEF NothingLost, KindOfQueue
        <5> QED
          BY <4>1, <4>2, <5>1, QueuesAtNext, EmptyList DEF QueueNames
      <4>4. \A p \in Procs : ScreenAt'[T(p)] = {}
        BY <4>1, <4>2, ThreadHoldsNext DEF ScreenBound, Carrying, TypeOK
      <4>5. \A x \in Places \ {Q("new"), Q("out")} : ScreenAt'[x] \cap Bridges = {}
        BY <4>3, <4>4, PlacesByKind
      <4>6. NoOldRecordsHeld'
        BY <4>5 DEF NoOldRecordsHeld
      <4>7. BridgeBeforeNatives'
        BY <3>1, <4>1 DEF BridgeFirst, BridgeBeforeNatives
      <4> QED
        BY <3>2, <4>6, <4>7
    <3>4. CASE ~ (stage \in PreStages /\ stage' \notin PreStages)
      BY <3>1, <3>2, <3>4, RecordsKept
    <3> QED
      BY <3>3, <3>4
  <2> QED
    BY <2>1, <2>2
<1> QED
  BY <1>1, <1>2, <1>3 DEF BridgeFirst

LEMMA BridgeFirstInit == Init => BridgeFirst
<1> SUFFICES ASSUME Init PROVE BridgeFirst
  OBVIOUS
<1>1. Logged = {}
  BY DEF Init, Logged
<1>2. Cardinality(Logged) \in Nat
  BY <1>1, FS_EmptySet
<1>3. \A p \in Procs : pc[p] = "idle"
  BY DEF Init
<1>4. BeforeNatives
  BY <1>3, EmptyList DEF Init, BeforeNatives, EarlyConsole, OnMirror, Procs
<1> QED
  BY <1>1, <1>2, <1>4 DEF Init, BridgeFirst, NoOldRecordsHeld, BridgeBeforeNatives

-----------------------------------------------------------------------------
LEMMA LogInvInit == Init => LogInv
  BY TypesInit, NothingLostInit, BridgeFirstInit DEF LogInv

LEMMA LogInvStep == LogInv /\ [Next]_vars => LogInv'
<1> SUFFICES ASSUME LogInv, [Next]_vars PROVE LogInv'
  OBVIOUS
<1>1. TypeOK'
  BY TypesStep DEF LogInv
<1>2. OncePlaced' /\ NothingLost' /\ IoWaits'
  BY <1>1, NothingLostStep, IoWaitsStep DEF LogInv
<1>3. BridgeFirst'
  BY <1>1, <1>2, BridgeFirstStep DEF LogInv
<1> QED
  BY <1>1, <1>2, <1>3 DEF LogInv

LEMMA LogInvHolds == Spec => []LogInv
  BY LogInvInit, LogInvStep, PTL DEF Spec

LEMMA LogInvShows ==
    ASSUME LogInv
    PROVE  WrittenOnce /\ MissingOnlyOvertaken /\ BridgeBeforeNatives
<1>0. /\ TypeOK /\ OncePlaced /\ NothingLost /\ BridgeFirst /\ CallTypes
  BY DEF LogInv, TypeOK
<1>1. WrittenOnce /\ BridgeBeforeNatives
  BY <1>0 DEF OncePlaced, Distinct, WrittenOnce, BridgeFirst
<1>2. FilesMissOnlyOvertaken
  <2> SUFFICES ASSUME Settled, NEW m \in Logged, Wanted(m), filed[m] = 0,
                      m \notin dropped \cup overtaken
               PROVE  FALSE
    BY DEF FilesMissOnlyOvertaken
  <2>1. m \in Msgs /\ stage = "done" /\ \A p \in Procs : pc[p] = "idle"
    BY DEF Logged, Settled
  <2>2. PICK x \in Places : m \in FileAt[x]
    BY <1>0, <2>1 DEF NothingLost, Somewhere, Wanted, Asked
  <2>3. \A p \in Procs : FileAt[T(p)] = {}
    BY <1>0, <2>1, ThreadHolds DEF FileBound, Carrying, OnMirror
  <2>4. ASSUME NEW n \in QueueNames, m \in FileAt[Q(n)]
        PROVE  FALSE
    <3>1. m \in Elements(early) \cup Elements(pending) \cup Elements(markers) \cup Elements(batch)
      BY <2>4, QueuesAt DEF QueueNames
    <3>2. batch = <<>>
      BY <1>0, <2>1 DEF NothingLost, BatchEnds
    <3>3. Elements(early) \cup Elements(pending) \cup Elements(markers) \subseteq overtaken
      BY <1>0, <2>1 DEF NothingLost, LateEarly, LatePending, LateMarkers, LateStages
    <3> QED
      BY <3>1, <3>2, <3>3, EmptyList
  <2> QED
    BY <2>2, <2>3, <2>4, PlacesByKind
<1>3. BacklogHoldsOnlyOvertaken
  BY <1>0 DEF BacklogHoldsOnlyOvertaken, Settled, NothingLost, LateBacklog
<1>4. ASSUME NEW m \in Logged \cap Emergencies, WritesAllowed, \A p \in Procs : msg[p] # m
      PROVE  filed[m] = 1
  <2>1. m \in Msgs
    BY DEF Logged
  <2>2. PICK x \in Places : m \in FileAt[x]
    BY <1>0, <1>4, <2>1 DEF NothingLost, Somewhere, Asked
  <2>3. \A p \in Procs : m \notin FileAt[T(p)]
    BY <1>4, Contents DEF ContentsAre
  <2>4. ASSUME NEW n \in QueueNames, m \in FileAt[Q(n)]
        PROVE  n = "out"
    <3>1. Elements(early) \cup Elements(pending) \cup Elements(markers) \cup Elements(batch)
            \subseteq Logs \cup Bridges \cup Markers
      BY <1>0 DEF NothingLost, KindOfQueue
    <3> QED
      BY <2>4, <3>1, QueuesAt, MsgsAssumption DEF QueueNames
  <2>5. m \in FileAt[Q("out")]
    BY <2>2, <2>3, <2>4, PlacesByKind
  <2>6. filed[m] # 0 /\ filed[m] \in Nat /\ filed[m] <= 1
    BY <1>0, <2>1, <2>5, QueuesAt DEF TypeOK, SinkTypes, OncePlaced, FiledOnce
  <2> QED
    BY <2>6
<1> QED
  BY <1>1, <1>2, <1>3, <1>4 DEF MissingOnlyOvertaken

(* The variables keep their types; among them, the post-OEP thread only     *)
(* brings up the console and never stands in the middle of a message.       *)
THEOREM TypesHold == Spec => []TypeOK
  BY LogInvHolds, PTL DEF LogInv

(* No duplicate output: through early events, backlog, pending records,     *)
(* markers and their flushes by other threads, a message gets into the      *)
(* files at most once and on the console at most once, for any threads,     *)
(* messages and queue limits.                                               *)
THEOREM MessagesWrittenOnce == Spec => []WrittenOnce
  BY LogInvHolds, LogInvShows, PTL

(* Once everything is up, a message that is asked for is missing from the   *)
(* files only if a full queue gave it up or the flush of its queue overtook *)
(* it; the console's backlog holds nothing else, and no emergency message   *)
(* is ever missing from the files.                                          *)
THEOREM OnlyOvertakenAreMissing == Spec => []MissingOnlyOvertaken
  BY LogInvHolds, LogInvShows, PTL

(* With an early console, the bridge's records from before the native DLLs  *)
(* are loaded come above every line from later on: publish_pending_logs has *)
(* written them all before preloader_proxy goes on.                         *)
THEOREM BridgeRecordsFirst == Spec => []BridgeBeforeNatives
  BY LogInvHolds, LogInvShows, PTL

-----------------------------------------------------------------------------
(* Sequences that are read piece by piece.                                 *)

(* What holds at the beginning, and at each place if at the one before,    *)
(* holds at every place.                                                   *)
LEMMA CountingUp ==
    ASSUME NEW L \in Nat, NEW Reached \in SUBSET (0 .. L), 0 \in Reached,
           \A n \in 1 .. L : n - 1 \in Reached => n \in Reached
    PROVE  Reached = 0 .. L
<1> DEFINE Less == {pair \in Nat \X Nat : pair[1] < pair[2]}
           Missing == (0 .. L) \ Reached
<1> SUFFICES ASSUME Missing # {} PROVE FALSE
  OBVIOUS
<1>1. IsWellFoundedOn(Less, Nat)
  BY NatLessThanWellFounded DEF OpToRel
<1>2. Missing \subseteq Nat
  OBVIOUS
<1> HIDE DEF Less
<1>3. PICK n \in Missing : \A m \in Missing : ~ (<<m, n>> \in Less)
  <2> HIDE DEF Missing
  <2> QED
    BY <1>1, <1>2, WFMin, Zenon
<1>4. n \in 1 .. L /\ n - 1 \in Nat /\ n - 1 < n /\ n - 1 \in Missing
  BY <1>3
<1>5. <<n - 1, n>> \in Less
  BY <1>4 DEF Less
<1> QED
  BY <1>3, <1>4, <1>5

(* A function on 0 .. L may be defined by recursion ...                    *)
StaysIn(step, L, S) == \A i \in 1 .. L : \A x \in S : step[<<i, x>>] \in S
Follows(f, step, L, S, a) ==
  /\ f \in [0 .. L -> S] /\ f[0] = a
  /\ \A i \in 1 .. L : f[i] = step[<<i, f[i - 1]>>]

LEMMA RecursionExists ==
  ASSUME NEW L \in Nat, NEW S, NEW a \in S, NEW step, StaysIn(step, L, S)
  PROVE  \E f : Follows(f, step, L, S, a)
<1> USE DEF StaysIn
<1> DEFINE Good(f, n) == /\ f \in [0 .. n -> S] /\ f[0] = a
                         /\ \A i \in 1 .. n : f[i] = step[<<i, f[i - 1]>>]
           Reached == {n \in 0 .. L : \E f : Good(f, n)}
<1>1. 0 \in Reached
  <2>1. Good([i \in 0 .. 0 |-> a], 0)
    OBVIOUS
  <2>2. 0 \in 0 .. L
    OBVIOUS
  <2> HIDE DEF Good
  <2> QED
    BY <2>1, <2>2
<1>2. ASSUME NEW n \in 1 .. L, n - 1 \in Reached PROVE n \in Reached
  <2>1. PICK f : Good(f, n - 1)
    BY <1>2
  <2>2. f[n - 1] \in S /\ step[<<n, f[n - 1]>>] \in S
    BY <2>1
  <2> DEFINE g == [i \in 0 .. n |-> IF i = n THEN step[<<n, f[n - 1]>>] ELSE f[i]]
  <2>3. g \in [0 .. n -> S] /\ g[0] = a
    BY <2>1, <2>2
  <2>4. ASSUME NEW i \in 1 .. n PROVE g[i] = step[<<i, g[i - 1]>>]
    <3>1. i - 1 \in 0 .. n - 1 /\ g[i - 1] = f[i - 1]
      OBVIOUS
    <3>2. CASE i = n
      <4>1. g[n] = step[<<n, f[n - 1]>>]
        OBVIOUS
      <4> HIDE DEF g
      <4> QED
        BY <3>1, <3>2, <4>1, Zenon
    <3>3. CASE i # n
      <4>1. i \in 1 .. n - 1 /\ g[i] = f[i]
        BY <3>3
      <4>2. f[i] = step[<<i, f[i - 1]>>]
        BY <2>1, <4>1
      <4> HIDE DEF g
      <4> QED
        BY <3>1, <4>1, <4>2, Zenon
    <3> QED
      BY <3>2, <3>3
  <2>5. Good(g, n)
    BY <2>3, <2>4
  <2>6. n \in 0 .. L
    OBVIOUS
  <2> HIDE DEF Good
  <2> QED
    BY <2>5, <2>6
<1>3. L \in Reached
  <2> HIDE DEF Reached
  <2>1. Reached \in SUBSET (0 .. L)
    BY DEF Reached
  <2> QED
    BY <1>1, <1>2, <2>1, CountingUp
<1>4. PICK f : Good(f, L)
  BY <1>3
<1> QED
  BY <1>4 DEF Follows

(* ... and in one way only.                                                *)
LEMMA RecursionOnce ==
  ASSUME NEW L \in Nat, NEW f, NEW g, f[0] = g[0],
         \A i \in 1 .. L : f[i - 1] = g[i - 1] => f[i] = g[i]
  PROVE  \A i \in 0 .. L : f[i] = g[i]
<1> DEFINE Reached == {n \in 0 .. L : f[n] = g[n]}
<1>1. 0 \in Reached /\ \A n \in 1 .. L : n - 1 \in Reached => n \in Reached
  OBVIOUS
<1>2. Reached = 0 .. L
  <2> HIDE DEF Reached
  <2>1. Reached \in SUBSET (0 .. L)
    BY DEF Reached
  <2> QED
    BY <1>1, <2>1, CountingUp
<1> QED
  BY <1>2

-----------------------------------------------------------------------------
Pieces == [line : Foreign \cup ({"own"} \X Nat \X Nat), part : 0 .. 2]
Reads  == [lines : Seq(Seq(Pieces)), left : Seq(Pieces)]
NothingRead == [lines |-> <<>>, left |-> <<>>]

LEMMA ReadOnTypes ==
  ASSUME NEW read \in Reads, NEW piece \in Pieces
  PROVE  ReadOn(read, piece) \in Reads
<1>1. Append(read.left, piece) \in Seq(Pieces)
  BY DEF Reads
<1>2. Append(read.lines, Append(read.left, piece)) \in Seq(Seq(Pieces))
  BY <1>1 DEF Reads
<1>3. [read EXCEPT !.left = Append(@, piece)] \in Reads
  BY <1>1 DEF Reads
<1>4. [lines |-> Append(read.lines, Append(read.left, piece)), left |-> <<>>] \in Reads
  BY <1>2 DEF Reads
<1> QED
  BY <1>3, <1>4 DEF ReadOn

LEMMA ReadingsAre ==
  ASSUME NEW s \in Seq(Pieces)
  PROVE  /\ Readings(s) \in [0 .. Len(s) -> Reads] /\ Readings(s)[0] = NothingRead
         /\ \A i \in 1 .. Len(s) : Readings(s)[i] = ReadOn(Readings(s)[i - 1], s[i])
<1> DEFINE step == [x \in (1 .. Len(s)) \X Reads |-> ReadOn(x[2], s[x[1]])]
           Is(f) == f = [i \in 0 .. Len(s) |->
                           IF i = 0 THEN NothingRead ELSE ReadOn(f[i - 1], s[i])]
<1>1. Len(s) \in Nat /\ NothingRead \in Reads /\ \A i \in 1 .. Len(s) : s[i] \in Pieces
  BY DEF NothingRead, Reads
<1>2. \A i \in 1 .. Len(s) : \A x \in Reads : step[<<i, x>>] = ReadOn(x, s[i])
  OBVIOUS
<1>3. \A i \in 1 .. Len(s) : \A x \in Reads : step[<<i, x>>] \in Reads
  <2> HIDE DEF step
  <2> QED
    BY <1>1, <1>2, ReadOnTypes
<1>4. PICK f : Follows(f, step, Len(s), Reads, NothingRead)
  <2> HIDE DEF step
  <2> QED
    BY <1>1, <1>3, RecursionExists DEF StaysIn
<1>5. Is(f)
  <2> HIDE DEF step
  <2>1. f \in [0 .. Len(s) -> Reads] /\ f[0] = NothingRead
    BY <1>4 DEF Follows
  <2>2. ASSUME NEW i \in 1 .. Len(s) PROVE f[i] = ReadOn(f[i - 1], s[i])
    <3>1. f[i - 1] \in Reads
      BY <1>1, <2>1
    <3>2. f[i] = step[<<i, f[i - 1]>>]
      BY <1>4 DEF Follows
    <3> QED
      BY <1>2, <3>1, <3>2
  <2> QED
    BY <1>1, <2>1, <2>2
<1>6. Readings(s) = CHOOSE g : Is(g)
  BY DEF Readings, NothingRead
<1>7. Is(Readings(s))
  <2> HIDE DEF Is
  <2> QED
    BY <1>5, <1>6
<1>8. \A i \in 1 .. Len(s) : i - 1 \in 0 .. Len(s)
  BY <1>1
<1> DEFINE R == Readings(s)
<1>9. R = [i \in 0 .. Len(s) |-> IF i = 0 THEN NothingRead ELSE ReadOn(R[i - 1], s[i])]
  BY <1>7
<1> HIDE DEF R
<1>10. R[0] = NothingRead /\ \A i \in 1 .. Len(s) : R[i] = ReadOn(R[i - 1], s[i])
  BY <1>1, <1>9
<1> DEFINE Reached == {n \in 0 .. Len(s) : R[n] \in Reads}
<1>11. 0 \in Reached /\ \A n \in 1 .. Len(s) : n - 1 \in Reached => n \in Reached
  BY <1>1, <1>10, ReadOnTypes
<1>12. Reached = 0 .. Len(s)
  <2> HIDE DEF Reached
  <2>1. Reached \in SUBSET (0 .. Len(s))
    BY DEF Reached
  <2> QED
    BY <1>1, <1>11, <2>1, CountingUp
<1>13. R \in [0 .. Len(s) -> Reads]
  BY <1>9, <1>12
<1> QED
  BY <1>10, <1>13 DEF R

LEMMA SplitIs ==
  /\ Split(<<>>) = NothingRead
  /\ \A s \in Seq(Pieces), e \in Pieces :
       Split(s) \in Reads /\ Split(Append(s, e)) = ReadOn(Split(s), e)
<1>1. Split(<<>>) = NothingRead
  <2>1. <<>> \in Seq(Pieces) /\ Len(<<>>) = 0
    OBVIOUS
  <2>2. Readings(<<>>)[0] = NothingRead
    BY <2>1, ReadingsAre, Zenon
  <2> QED
    BY <2>1, <2>2, Zenon DEF Split
<1>2. ASSUME NEW s \in Seq(Pieces), NEW e \in Pieces
      PROVE  Split(s) \in Reads /\ Split(Append(s, e)) = ReadOn(Split(s), e)
  <2> DEFINE t == Append(s, e)
             f == Readings(s)
             g == Readings(t)
  <2>1. t \in Seq(Pieces) /\ Len(t) = Len(s) + 1 /\ Len(s) \in Nat /\ t[Len(t)] = e
        /\ \A i \in 1 .. Len(s) : t[i] = s[i]
    OBVIOUS
  <2>2. /\ f \in [0 .. Len(s) -> Reads] /\ f[0] = NothingRead
        /\ \A i \in 1 .. Len(s) : f[i] = ReadOn(f[i - 1], s[i])
    BY ReadingsAre
  <2> HIDE DEF t
  <2>3. /\ g[0] = NothingRead
        /\ \A i \in 1 .. Len(t) : g[i] = ReadOn(g[i - 1], t[i])
    BY <2>1, ReadingsAre
  <2> HIDE DEF f, g
  <2>4. ASSUME NEW i \in 1 .. Len(s) PROVE f[i - 1] = g[i - 1] => f[i] = g[i]
    <3>1. i \in 1 .. Len(t) /\ t[i] = s[i]
      BY <2>1
    <3>2. f[i] = ReadOn(f[i - 1], s[i])
      BY <2>2
    <3>3. g[i] = ReadOn(g[i - 1], t[i])
      BY <2>3, <3>1
    <3> QED
      BY <3>1, <3>2, <3>3, Zenon
  <2>5. \A i \in 0 .. Len(s) : f[i] = g[i]
    <3>1. Len(s) \in Nat /\ f[0] = g[0]
      BY <2>1, <2>2, <2>3
    <3> QED
      BY <2>4, <3>1, RecursionOnce,ZenonT(40)
  <2>6. f[Len(s)] = g[Len(s)] /\ f[Len(s)] \in Reads /\ g[Len(t)] = ReadOn(g[Len(t) - 1], t[Len(t)])
    BY <2>1, <2>2, <2>3, <2>5
  <2> QED
    BY <2>1, <2>6 DEF Split, f, g, t
<1> QED
  BY <1>1, <1>2
-----------------------------------------------------------------------------
(* External keeps the lines that begin with a header, one after the other. *)
LEMMA ExternalSifts ==
  ASSUME NEW s \in Seq(Seq(Pieces))
  PROVE  LET f == Sifted(s, Parses)
         IN  /\ f \in [0 .. Len(s) -> Seq(Seq(Pieces))] /\ f[0] = <<>>
             /\ \A i \in 1 .. Len(s) :
                  f[i] = IF Parses(s[i]) THEN Append(f[i - 1], s[i]) ELSE f[i - 1]
<1> DEFINE On1(i, x) == IF Parses(s[i]) THEN Append(x, s[i]) ELSE x
           step == [x \in (1 .. Len(s)) \X Seq(Seq(Pieces)) |-> On1(x[1], x[2])]
           Is(f) == f = [i \in 0 .. Len(s) |-> IF i = 0 THEN <<>> ELSE On1(i, f[i - 1])]
<1>1. Len(s) \in Nat /\ <<>> \in Seq(Seq(Pieces)) /\ \A i \in 1 .. Len(s) : s[i] \in Seq(Pieces)
  OBVIOUS
<1>2. \A i \in 1 .. Len(s) : \A x \in Seq(Seq(Pieces)) : step[<<i, x>>] = On1(i, x)
  OBVIOUS
<1>3. \A i \in 1 .. Len(s) : \A x \in Seq(Seq(Pieces)) : step[<<i, x>>] \in Seq(Seq(Pieces))
  <2>1. ASSUME NEW i \in 1 .. Len(s), NEW x \in Seq(Seq(Pieces)) PROVE On1(i, x) \in Seq(Seq(Pieces))
    BY <1>1
  <2> HIDE DEF step, On1
  <2> QED
    BY <1>2, <2>1
<1>4. PICK f : Follows(f, step, Len(s), Seq(Seq(Pieces)), <<>>)
  <2> HIDE DEF step
  <2> QED
    BY <1>1, <1>3, RecursionExists DEF StaysIn
<1>5. f \in [0 .. Len(s) -> Seq(Seq(Pieces))] /\ f[0] = <<>>
  BY <1>4 DEF Follows
<1>6. ASSUME NEW i \in 1 .. Len(s) PROVE f[i] = On1(i, f[i - 1])
  <2> HIDE DEF step
  <2>1. i - 1 \in 0 .. Len(s) /\ f[i - 1] \in Seq(Seq(Pieces))
    <3>1. i - 1 \in 0 .. Len(s)
      BY <1>1
    <3> QED
      BY <1>5, <3>1
  <2>2. f[i] = step[<<i, f[i - 1]>>]
    BY <1>4 DEF Follows
  <2> QED
    BY <1>2, <2>1, <2>2
<1>7. Is(f)
  <2> HIDE DEF On1
  <2> QED
    BY <1>1, <1>5, <1>6
<1> DEFINE F == Sifted(s, Parses)
<1>8. F = CHOOSE g : Is(g)
  BY DEF Sifted
<1>9. Is(F)
  <2> HIDE DEF Is, F
  <2> QED
    BY <1>7, <1>8
<1>10. F[0] = <<>> /\ \A i \in 1 .. Len(s) : F[i] = On1(i, F[i - 1])
  <2> HIDE DEF On1, F
  <2> QED
    BY <1>1, <1>9
<1>11. \A i \in 0 .. Len(s) : F[i] = f[i]
  <2> HIDE DEF On1, F
  <2>1. \A i \in 1 .. Len(s) : F[i - 1] = f[i - 1] => F[i] = f[i]
    BY <1>6, <1>10, Zenon
  <2>2. F[0] = f[0] /\ Len(s) \in Nat
    BY <1>1, <1>5, <1>10
  <2> QED
    BY <2>1, <2>2, RecursionOnce,ZenonT(40)
<1>12. F \in [0 .. Len(s) -> Seq(Seq(Pieces))]
  <2> HIDE DEF On1, F
  <2> QED
    BY <1>5, <1>9, <1>11
<1> QED
  BY <1>10, <1>12

LEMMA ExternalIs ==
  /\ External(<<>>) = <<>>
  /\ \A s \in Seq(Seq(Pieces)), e \in Seq(Pieces) :
       /\ External(s) \in Seq(Seq(Pieces))
       /\ External(Append(s, e)) = IF Parses(e) THEN Append(External(s), e) ELSE External(s)
<1>1. External(<<>>) = <<>>
  <2>1. <<>> \in Seq(Seq(Pieces)) /\ Len(<<>>) = 0
    OBVIOUS
  <2> QED
    BY <2>1, ExternalSifts DEF External
<1>2. ASSUME NEW s \in Seq(Seq(Pieces)), NEW e \in Seq(Pieces)
      PROVE  /\ External(s) \in Seq(Seq(Pieces))
             /\ External(Append(s, e)) = IF Parses(e) THEN Append(External(s), e) ELSE External(s)
  <2> DEFINE t == Append(s, e)
             f == Sifted(s, Parses)
             g == Sifted(t, Parses)
             On1(x, y) == IF Parses(x) THEN Append(y, x) ELSE y
  <2>1. t \in Seq(Seq(Pieces)) /\ Len(t) = Len(s) + 1 /\ Len(s) \in Nat /\ t[Len(t)] = e
        /\ \A i \in 1 .. Len(s) : t[i] = s[i] /\ i \in 1 .. Len(t)
    OBVIOUS
  <2>2. /\ f \in [0 .. Len(s) -> Seq(Seq(Pieces))] /\ f[0] = <<>>
        /\ \A i \in 1 .. Len(s) : f[i] = On1(s[i], f[i - 1])
    BY ExternalSifts
  <2> HIDE DEF t
  <2>3. g[0] = <<>> /\ \A i \in 1 .. Len(t) : g[i] = On1(t[i], g[i - 1])
    BY <2>1, ExternalSifts
  <2> HIDE DEF f, g, On1
  <2>4. \A i \in 1 .. Len(s) : f[i - 1] = g[i - 1] => f[i] = g[i]
    BY <2>1, <2>2, <2>3, Zenon
  <2>5. \A i \in 0 .. Len(s) : f[i] = g[i]
    <3>1. f[0] = g[0] /\ Len(s) \in Nat
      BY <2>1, <2>2, <2>3
    <3> QED
      BY <2>4, <3>1, RecursionOnce,ZenonT(40)
  <2>6. f[Len(s)] = g[Len(s)] /\ f[Len(s)] \in Seq(Seq(Pieces))
        /\ g[Len(t)] = On1(t[Len(t)], g[Len(t) - 1])
    BY <2>1, <2>2, <2>3, <2>5
  <2> QED
    BY <2>1, <2>6 DEF External, f, g, t, On1
<1> QED
  BY <1>1, <1>2

(* Own keeps the pieces of the loader. *)
LEMMA OwnSifts ==
  ASSUME NEW s \in Seq(Pieces)
  PROVE  LET f == Sifted(s, IsOwn)
         IN  /\ f \in [0 .. Len(s) -> Seq(Pieces)] /\ f[0] = <<>>
             /\ \A i \in 1 .. Len(s) :
                  f[i] = IF IsOwn(s[i]) THEN Append(f[i - 1], s[i]) ELSE f[i - 1]
<1> DEFINE On1(i, x) == IF IsOwn(s[i]) THEN Append(x, s[i]) ELSE x
           step == [x \in (1 .. Len(s)) \X Seq(Pieces) |-> On1(x[1], x[2])]
           Is(f) == f = [i \in 0 .. Len(s) |-> IF i = 0 THEN <<>> ELSE On1(i, f[i - 1])]
<1>1. Len(s) \in Nat /\ <<>> \in Seq(Pieces) /\ \A i \in 1 .. Len(s) : s[i] \in Pieces
  OBVIOUS
<1>2. \A i \in 1 .. Len(s) : \A x \in Seq(Pieces) : step[<<i, x>>] = On1(i, x)
  OBVIOUS
<1>3. \A i \in 1 .. Len(s) : \A x \in Seq(Pieces) : step[<<i, x>>] \in Seq(Pieces)
  <2>1. ASSUME NEW i \in 1 .. Len(s), NEW x \in Seq(Pieces) PROVE On1(i, x) \in Seq(Pieces)
    BY <1>1
  <2> HIDE DEF step, On1
  <2> QED
    BY <1>2, <2>1
<1>4. PICK f : Follows(f, step, Len(s), Seq(Pieces), <<>>)
  <2> HIDE DEF step
  <2> QED
    BY <1>1, <1>3, RecursionExists DEF StaysIn
<1>5. f \in [0 .. Len(s) -> Seq(Pieces)] /\ f[0] = <<>>
  BY <1>4 DEF Follows
<1>6. ASSUME NEW i \in 1 .. Len(s) PROVE f[i] = On1(i, f[i - 1])
  <2> HIDE DEF step
  <2>1. i - 1 \in 0 .. Len(s) /\ f[i - 1] \in Seq(Pieces)
    <3>1. i - 1 \in 0 .. Len(s)
      BY <1>1
    <3> QED
      BY <1>5, <3>1
  <2>2. f[i] = step[<<i, f[i - 1]>>]
    BY <1>4 DEF Follows
  <2> QED
    BY <1>2, <2>1, <2>2
<1>7. Is(f)
  <2> HIDE DEF On1
  <2> QED
    BY <1>1, <1>5, <1>6
<1> DEFINE F == Sifted(s, IsOwn)
<1>8. F = CHOOSE g : Is(g)
  BY DEF Sifted
<1>9. Is(F)
  <2> HIDE DEF Is, F
  <2> QED
    BY <1>7, <1>8
<1>10. F[0] = <<>> /\ \A i \in 1 .. Len(s) : F[i] = On1(i, F[i - 1])
  <2> HIDE DEF On1, F
  <2> QED
    BY <1>1, <1>9
<1>11. \A i \in 0 .. Len(s) : F[i] = f[i]
  <2> HIDE DEF On1, F
  <2>1. \A i \in 1 .. Len(s) : F[i - 1] = f[i - 1] => F[i] = f[i]
    BY <1>6, <1>10, Zenon
  <2>2. F[0] = f[0] /\ Len(s) \in Nat
    BY <1>1, <1>5, <1>10
  <2> QED
    BY <2>1, <2>2, RecursionOnce,ZenonT(40)
<1>12. F \in [0 .. Len(s) -> Seq(Pieces)]
  <2> HIDE DEF On1, F
  <2> QED
    BY <1>5, <1>9, <1>11
<1> QED
  BY <1>10, <1>12

LEMMA OwnIs ==
  /\ Own(<<>>) = <<>>
  /\ \A s \in Seq(Pieces), e \in Pieces :
       /\ Own(s) \in Seq(Pieces)
       /\ Own(Append(s, e)) = IF IsOwn(e) THEN Append(Own(s), e) ELSE Own(s)
<1>1. Own(<<>>) = <<>>
  <2>1. <<>> \in Seq(Pieces) /\ Len(<<>>) = 0
    OBVIOUS
  <2> QED
    BY <2>1, OwnSifts DEF Own
<1>2. ASSUME NEW s \in Seq(Pieces), NEW e \in Pieces
      PROVE  /\ Own(s) \in Seq(Pieces)
             /\ Own(Append(s, e)) = IF IsOwn(e) THEN Append(Own(s), e) ELSE Own(s)
  <2> DEFINE t == Append(s, e)
             f == Sifted(s, IsOwn)
             g == Sifted(t, IsOwn)
             On1(x, y) == IF IsOwn(x) THEN Append(y, x) ELSE y
  <2>1. t \in Seq(Pieces) /\ Len(t) = Len(s) + 1 /\ Len(s) \in Nat /\ t[Len(t)] = e
        /\ \A i \in 1 .. Len(s) : t[i] = s[i] /\ i \in 1 .. Len(t)
    OBVIOUS
  <2>2. /\ f \in [0 .. Len(s) -> Seq(Pieces)] /\ f[0] = <<>>
        /\ \A i \in 1 .. Len(s) : f[i] = On1(s[i], f[i - 1])
    BY OwnSifts
  <2> HIDE DEF t
  <2>3. g[0] = <<>> /\ \A i \in 1 .. Len(t) : g[i] = On1(t[i], g[i - 1])
    BY <2>1, OwnSifts
  <2> HIDE DEF f, g, On1
  <2>4. \A i \in 1 .. Len(s) : f[i - 1] = g[i - 1] => f[i] = g[i]
    BY <2>1, <2>2, <2>3, Zenon
  <2>5. \A i \in 0 .. Len(s) : f[i] = g[i]
    <3>1. f[0] = g[0] /\ Len(s) \in Nat
      BY <2>1, <2>2, <2>3
    <3> QED
      BY <2>4, <3>1, RecursionOnce,ZenonT(40)
  <2>6. f[Len(s)] = g[Len(s)] /\ f[Len(s)] \in Seq(Pieces)
        /\ g[Len(t)] = On1(t[Len(t)], g[Len(t) - 1])
    BY <2>1, <2>2, <2>3, <2>5
  <2> QED
    BY <2>1, <2>6 DEF Own, f, g, t, On1
<1> QED
  BY <1>1, <1>2

-----------------------------------------------------------------------------
(* What the variables hold.                                                *)

Early == {<<>>, <<"window", "activate">>, <<"activate">>, <<"history", "show">>, <<"show">>}
Late  == {<<>>, <<"window", "activate", "bind", "capture">>, <<"activate", "bind", "capture">>,
          <<"history", "show", "bind", "capture">>, <<"show", "bind", "capture">>,
          <<"bind", "capture">>, <<"capture">>}

TaskTypes ==
  /\ phase \in {"start", "natives", "init", "up", "done"}
  /\ phase \in {"start", "init", "up"} => task = <<>>
  /\ phase = "natives" => task \in Early
  /\ phase = "done" => task \in Late

Relays    == [at : {"none", "look", "read"}, offset : Nat, pending : Seq(Pieces)]
Terminals == [associated : BOOLEAN, window : BOOLEAN, logging : BOOLEAN, stdio : BOOLEAN]
Outputs   == [std : {"own", "console", "pipe"}, crt : [Descriptors -> {"own", "pipe"}],
              readers : BOOLEAN]
Filed     == [age : Nat, lines : Seq(Pieces)]

ConfigTypes ==
  /\ session \in Nat /\ version \in Versions /\ gated \in BOOLEAN
  /\ wanted \in Configs /\ config \in Configs /\ days \in Nat /\ asked \in SUBSET Nat
ConsoleTypes ==
  /\ terminal \in Terminals /\ output \in Outputs /\ handle \in BOOLEAN
  /\ relay \in Relays /\ queued \in Seq(Seq(Pieces)) /\ display \in Seq(Seq(Pieces))
  /\ stale \in BOOLEAN
FileTypes ==
  /\ latest \in Seq(Pieces) /\ written \in [Foreign -> 0 .. 2]
  /\ DOMAIN archives \in SUBSET Nat
  /\ \A s \in DOMAIN archives : archives[s] \in Filed
  /\ kept \in BOOLEAN
SessionTypes == TaskTypes /\ ConfigTypes /\ ConsoleTypes /\ FileTypes

LEMMA PutTogether ==
  ASSUME NEW S, NEW a \in Seq(S), NEW b \in Seq(S), NEW whole \in Seq(S),
         Len(whole) = Len(a) + Len(b), \A i \in 1 .. Len(a) : whole[i] = a[i],
         \A i \in 1 .. Len(b) : whole[Len(a) + i] = b[i]
  PROVE  a \o b = whole
<1> DEFINE both == a \o b
<1>1. /\ both \in Seq(S) /\ Len(both) = Len(a) + Len(b)
      /\ \A i \in 1 .. Len(a) + Len(b) :
           both[i] = IF i <= Len(a) THEN a[i] ELSE b[i - Len(a)]
  BY ConcatProperties
<1> HIDE DEF both
<1>2. \A i \in 1 .. Len(both) : both[i] = whole[i]
  <2> SUFFICES ASSUME NEW i \in 1 .. Len(both) PROVE both[i] = whole[i]
    OBVIOUS
  <2>1. Len(a) \in Nat /\ Len(b) \in Nat
    OBVIOUS
  <2>2. CASE i <= Len(a)
    BY <1>1, <2>1, <2>2
  <2>3. CASE ~ (i <= Len(a))
    <3>1. i - Len(a) \in 1 .. Len(b) /\ Len(a) + (i - Len(a)) = i
      BY <1>1, <2>1, <2>3
    <3>2. both[i] = b[i - Len(a)]
      BY <1>1, <2>3
    <3> QED
      BY <3>1, <3>2
  <2> QED
    BY <2>2, <2>3
<1>3. both = whole
  BY <1>1, <1>2, SeqEqual
<1> QED
  BY <1>3 DEF both

LEMMA LongTasks ==
  /\ <<"history", "show">> \o <<"bind", "capture">> = <<"history", "show", "bind", "capture">>
  /\ Full \o <<"capture">> = <<"window", "activate", "bind", "capture">>
<1> DEFINE S == {"window", "activate", "history", "show", "bind", "capture"}
<1>1. <<"history", "show">> \o <<"bind", "capture">> = <<"history", "show", "bind", "capture">>
  <2> DEFINE a == <<"history", "show">>
             b == <<"bind", "capture">>
             whole == <<"history", "show", "bind", "capture">>
  <2>1. a \in Seq(S) /\ b \in Seq(S) /\ whole \in Seq(S)
    OBVIOUS
  <2>2. Len(a) = 2 /\ Len(b) = 2 /\ Len(whole) = 4
    OBVIOUS
  <2>3. whole[1] = a[1] /\ whole[2] = a[2] /\ whole[3] = b[1] /\ whole[4] = b[2]
    OBVIOUS
  <2> HIDE DEF a, b, whole, S
  <2>4. \A i \in 1 .. Len(a) : whole[i] = a[i]
    BY <2>2, <2>3
  <2>5. \A i \in 1 .. Len(b) : whole[Len(a) + i] = b[i]
    BY <2>2, <2>3
  <2>6. a \o b = whole
    <3>1. Len(whole) = Len(a) + Len(b)
      BY <2>2
    <3> QED
      BY <2>1, <2>4, <2>5, <3>1, PutTogether, Zenon
  <2> QED
    BY <2>6 DEF a, b, whole
<1>2. Full \o <<"capture">> = <<"window", "activate", "bind", "capture">>
  <2> DEFINE a == Full
             b == <<"capture">>
             whole == <<"window", "activate", "bind", "capture">>
  <2>1. a \in Seq(S) /\ b \in Seq(S) /\ whole \in Seq(S)
    BY DEF Full
  <2>2. Len(a) = 3 /\ Len(b) = 1 /\ Len(whole) = 4
    BY DEF Full
  <2>3. whole[1] = a[1] /\ whole[2] = a[2] /\ whole[3] = a[3] /\ whole[4] = b[1]
    BY DEF Full
  <2> HIDE DEF a, b, whole, S
  <2>4. \A i \in 1 .. Len(a) : whole[i] = a[i]
    BY <2>2, <2>3
  <2>5. \A i \in 1 .. Len(b) : whole[Len(a) + i] = b[i]
    BY <2>2, <2>3
  <2>6. a \o b = whole
    <3>1. Len(whole) = Len(a) + Len(b)
      BY <2>2
    <3> QED
      BY <2>1, <2>4, <2>5, <3>1, PutTogether, Zenon
  <2> QED
    BY <2>6 DEF a, b, whole
<1> QED
  BY <1>1, <1>2

\* What is left of the tasks once their first step is done.
LEMMA TaskGoesOn ==
  ASSUME NEW t \in Early \cup Late, t # <<>>
  PROVE  /\ Head(t) \in {"window", "activate", "history", "show", "bind", "capture"}
         /\ t \in Early => Tail(t) \in Early /\ Head(t) \notin {"bind", "capture"}
         /\ t \in Late => Tail(t) \in Late
         /\ Head(t) = "activate" => /\ t \in Early => <<"history", "show">> \o Tail(t) \in Early
                                    /\ t \in Late => <<"history", "show">> \o Tail(t) \in Late
         /\ Head(t) = "history" => Tail(t) # <<>> /\ Head(Tail(t)) = "show"
         /\ Head(t) = "capture" => Tail(t) = <<>>
         /\ Head(t) = "window" => Tail(t) # <<>> /\ Head(Tail(t)) = "activate"
         /\ Head(t) \in {"show", "bind"} /\ Tail(t) # <<>> => Head(Tail(t)) \in {"bind", "capture"}
<1>1. CASE t = <<"window", "activate">>
  BY <1>1 DEF Early, Late
<1>2. CASE t = <<"activate">>
  BY <1>2 DEF Early, Late
<1>3. CASE t = <<"history", "show">>
  BY <1>3 DEF Early, Late
<1>4. CASE t = <<"show">>
  BY <1>4 DEF Early, Late
<1>5. CASE t = <<"window", "activate", "bind", "capture">>
  BY <1>5 DEF Early, Late
<1>6. CASE t = <<"activate", "bind", "capture">>
  <2>1. Tail(t) = <<"bind", "capture">> /\ Head(t) = "activate" /\ t \notin Early
    BY <1>6 DEF Early
  <2>2. <<"history", "show">> \o <<"bind", "capture">> = <<"history", "show", "bind", "capture">>
    BY LongTasks
  <2>3. <<"history", "show">> \o Tail(t) \in Late
    BY <2>1, <2>2 DEF Late
  <2> QED
    BY <2>1, <2>3 DEF Late
<1>7. CASE t = <<"history", "show", "bind", "capture">>
  BY <1>7 DEF Early, Late
<1>8. CASE t = <<"show", "bind", "capture">>
  BY <1>8 DEF Early, Late
<1>9. CASE t = <<"bind", "capture">>
  BY <1>9 DEF Early, Late
<1>10. CASE t = <<"capture">>
  BY <1>10 DEF Early, Late
<1> QED
  BY <1>1, <1>2, <1>3, <1>4, <1>5, <1>6, <1>7, <1>8, <1>9, <1>10 DEF Early, Late

LEMMA RecordUpdates ==
  /\ NoConsole \in Terminals /\ OwnOutput \in Outputs /\ NoRelay \in Relays
  /\ \A t \in Terminals, v \in BOOLEAN :
       /\ [t EXCEPT !.associated = v] \in Terminals /\ [t EXCEPT !.window = v] \in Terminals
       /\ [t EXCEPT !.window = v, !.associated = v] \in Terminals
       /\ [t EXCEPT !.logging = v] \in Terminals /\ [t EXCEPT !.stdio = v] \in Terminals
  /\ \A o \in Outputs : [o EXCEPT !.std = "console"] \in Outputs
  /\ \A r \in Relays : /\ [r EXCEPT !.at = "read"] \in Relays
                       /\ \A p \in Seq(Pieces) : [r EXCEPT !.at = "look", !.pending = p] \in Relays
                       /\ \A n \in Nat, p \in Seq(Pieces) :
                            [r EXCEPT !.offset = n, !.pending = p] \in Relays
<1>1. NoConsole \in Terminals
  BY DEF NoConsole, Terminals
<1>2. OwnOutput \in Outputs
  BY DEF OwnOutput, Outputs
<1>3. NoRelay \in Relays
  BY DEF NoRelay, Relays
<1>4. ASSUME NEW t \in Terminals, NEW v \in BOOLEAN
      PROVE  /\ [t EXCEPT !.associated = v] \in Terminals /\ [t EXCEPT !.window = v] \in Terminals
             /\ [t EXCEPT !.window = v, !.associated = v] \in Terminals
             /\ [t EXCEPT !.logging = v] \in Terminals /\ [t EXCEPT !.stdio = v] \in Terminals
  BY DEF Terminals
<1>5. ASSUME NEW o \in Outputs PROVE [o EXCEPT !.std = "console"] \in Outputs
  BY DEF Outputs
<1>6. ASSUME NEW r \in Relays
      PROVE  /\ [r EXCEPT !.at = "read"] \in Relays
             /\ \A p \in Seq(Pieces) : [r EXCEPT !.at = "look", !.pending = p] \in Relays
             /\ \A n \in Nat, p \in Seq(Pieces) : [r EXCEPT !.offset = n, !.pending = p] \in Relays
  BY DEF Relays
<1> QED
  BY <1>1, <1>2, <1>3, <1>4, <1>5, <1>6

LEMMA SessionTypesInit == SessionInit => SessionTypes
<1> SUFFICES ASSUME SessionInit PROVE SessionTypes
  OBVIOUS
<1>1. TaskTypes
  BY DEF SessionInit, TaskTypes
<1>2. ConfigTypes
  BY SessionAssumption DEF SessionInit, ConfigTypes
<1>3. ConsoleTypes
  <2>1. terminal \in Terminals
    BY RecordUpdates DEF SessionInit
  <2>2. /\ output = OwnOutput /\ relay = NoRelay /\ handle = FALSE /\ stale = FALSE
        /\ queued = <<>> /\ display = <<>>
    BY DEF SessionInit
  <2>3. output \in Outputs /\ relay \in Relays
    BY <2>2, RecordUpdates
  <2>4. queued \in Seq(Seq(Pieces)) /\ display \in Seq(Seq(Pieces))
    BY <2>2
  <2>5. handle \in BOOLEAN /\ stale \in BOOLEAN
    BY <2>2
  <2> QED
    BY <2>1, <2>3, <2>4, <2>5 DEF ConsoleTypes
<1>4. FileTypes
  BY DEF SessionInit, FileTypes
<1> QED
  BY <1>1, <1>2, <1>3, <1>4 DEF SessionTypes

LEMMA TaskTypesStep ==
  ASSUME TaskTypes, [SessionNext]_sessionVars
  PROVE  TaskTypes'
<1> USE DEF boots, sessionVars
<1>1. CASE BeginPreload
  BY <1>1 DEF BeginPreload, Stage, TaskTypes, Early
<1>2. CASE LoadConfig
  BY <1>2 DEF LoadConfig, Stage, TaskTypes
<1>3. CASE InitLogging
  BY <1>3 DEF InitLogging, Stage, TaskTypes
<1>4. CASE BringUp
  <2>1. <<>> \o <<"capture">> = <<"capture">>
    OBVIOUS
  <2>2. task' \in {Full \o <<"capture">>, <<>> \o <<"capture">>, <<>>}
    BY <1>4 DEF BringUp
  <2>3. task' \in Late
    BY <2>1, <2>2, LongTasks DEF Late
  <2> QED
    BY <1>4, <2>3 DEF BringUp, Stage, TaskTypes
<1>5. ASSUME NEW what, Doing(what), UNCHANGED boots
      PROVE  /\ phase \in {"natives", "done"} /\ task \in Early \cup Late /\ task # <<>>
             /\ phase = "natives" => task \in Early
             /\ phase = "done" => task \in Late
             /\ phase' = phase
  BY <1>5 DEF Doing, TaskTypes
<1>6. ASSUME NEW what, Doing(what), Next1, UNCHANGED boots PROVE TaskTypes'
  BY <1>5, <1>6, TaskGoesOn DEF Next1, TaskTypes
<1>7. CASE OpenWindow
  BY <1>6, <1>7 DEF OpenWindow
<1>8. CASE ActivateLogging
  <2>1. CASE task' = <<"history", "show">> \o Tail(task)
    <3>1. Doing("activate") /\ UNCHANGED boots
      BY <1>8 DEF ActivateLogging
    <3> QED
      BY <1>5, <2>1, <3>1, TaskGoesOn DEF Doing, TaskTypes
  <2>2. CASE Next1
    BY <1>6, <1>8, <2>2 DEF ActivateLogging
  <2> QED
    BY <1>8, <2>1, <2>2 DEF ActivateLogging
<1>9. CASE TakeHistory \/ ShowHistory \/ BindStdio \/ Capture
  BY <1>6, <1>9 DEF TakeHistory, ShowHistory, BindStdio, Capture
<1>10. CASE Restart
  BY <1>10 DEF Restart, FreshProcess, TaskTypes
<1>11. CASE WriteOwn \/ Reload \/ Relay \/ EditConfig \/ DayPasses
            \/ \E l \in Foreign : ForeignWrites(l)
  BY <1>11 DEF WriteOwn, Reload, Relay, RelayLooks, RelayReads, RelaySleeps, RelayStep,
     EditConfig, DayPasses, ForeignWrites, TaskTypes
<1>12. CASE UNCHANGED sessionVars
  BY <1>12 DEF TaskTypes
<1> QED
  BY <1>1, <1>2, <1>3, <1>4, <1>7, <1>8, <1>9, <1>10, <1>11, <1>12
     DEF SessionNext, Loader, Outside

LEMMA Clamped ==
  ASSUME NEW d \in Nat
  PROVE  ClampedDays(d) \in 1 .. MaxDays
BY SessionAssumption DEF ClampedDays

LEMMA ConfigTypesStep ==
  ASSUME ConfigTypes, [SessionNext]_sessionVars
  PROVE  ConfigTypes'
<1> USE DEF boots, configs, sessionVars
<1>1. wanted.days \in Nat /\ DefaultDays \in Nat
  BY SessionAssumption DEF ConfigTypes
<1>2. ClampedDays(wanted.days) \in Nat
  BY <1>1, Clamped, SessionAssumption
<1>3. CASE BeginPreload \/ InitLogging \/ BringUp
  BY <1>3 DEF BeginPreload, InitLogging, BringUp, ConfigTypes
<1>4. CASE LoadConfig \/ Reload
  BY <1>2, <1>4 DEF LoadConfig, Reload, ConfigTypes
<1>5. CASE OpenWindow \/ ActivateLogging \/ TakeHistory \/ ShowHistory \/ BindStdio \/ Capture
  BY <1>5 DEF OpenWindow, ActivateLogging, TakeHistory, ShowHistory, BindStdio, Capture, ConfigTypes
<1>6. CASE WriteOwn \/ Relay \/ DayPasses \/ \E l \in Foreign : ForeignWrites(l)
  BY <1>6 DEF WriteOwn, Relay, RelayLooks, RelayReads, RelaySleeps, RelayStep, DayPasses,
     ForeignWrites, ConfigTypes
<1>7. CASE EditConfig
  <2>1. wanted'.days \in Nat
    BY <1>7, SessionAssumption DEF EditConfig
  <2> QED
    BY <1>7, <2>1 DEF EditConfig, ConfigTypes
<1>8. CASE Restart
  <2>1. session' \in Nat
    BY <1>8 DEF Restart, ConfigTypes
  <2> QED
    BY <1>1, <1>8, <2>1 DEF Restart, FreshProcess, ConfigTypes
<1>9. CASE UNCHANGED sessionVars
  BY <1>9 DEF ConfigTypes
<1> QED
  BY <1>3, <1>4, <1>5, <1>6, <1>7, <1>8, <1>9 DEF SessionNext, Loader, Outside

LEMMA ConsoleTypesStep ==
  ASSUME SessionTypes, [SessionNext]_sessionVars
  PROVE  ConsoleTypes'
<1> USE DEF boots, shown, files, sessionVars
<1>1. ConsoleTypes /\ latest \in Seq(Pieces)
  BY DEF SessionTypes, FileTypes
<1>2. \A s \in Seq(Pieces) : Split(s) \in Reads
  <2>1. [line |-> <<"own", 0, 0>>, part |-> 0] \in Pieces
    BY DEF Pieces
  <2> QED
    BY <2>1, SplitIs
<1>3. \A ls \in Seq(Seq(Pieces)) : External(ls) \in Seq(Seq(Pieces))
  <2>1. <<>> \in Seq(Pieces)
    OBVIOUS
  <2> QED
    BY <2>1, ExternalIs
<1>4. CASE BeginPreload \/ LoadConfig \/ BringUp
  BY <1>1, <1>4 DEF BeginPreload, LoadConfig, BringUp, ConsoleTypes
<1>5. CASE InitLogging
  BY <1>1, <1>5 DEF InitLogging, ConsoleTypes
<1>6. CASE OpenWindow
  <2>1. terminal' \in Terminals
    BY <1>1, <1>6 DEF OpenWindow, ConsoleTypes, Terminals
  <2> QED
    BY <1>1, <1>6, <2>1 DEF OpenWindow, ConsoleTypes
<1>7. CASE ActivateLogging
  <2>1. terminal' \in Terminals
    BY <1>1, <1>7 DEF ActivateLogging, ConsoleTypes, Terminals
  <2> QED
    BY <1>1, <1>7, <2>1 DEF ActivateLogging, ConsoleTypes
<1>8. CASE TakeHistory
  <2> DEFINE read == Split(latest)
  <2>1. read \in Reads
    BY <1>1, <1>2
  <2> HIDE DEF read
  <2>2. Append(read.lines, read.left) \in Seq(Seq(Pieces)) /\ read.lines \in Seq(Seq(Pieces))
    BY <2>1 DEF Reads
  <2>3. queued' \in Seq(Seq(Pieces))
    BY <1>1, <1>3, <1>8, <2>2 DEF TakeHistory, ConsoleTypes, read
  <2>4. Len(latest) \in Nat
    BY <1>1
  <2>5. relay' \in Relays
    <3>1. relay' = relay \/ relay' = [relay EXCEPT !.offset = Len(latest)]
      BY <1>8 DEF TakeHistory
    <3> QED
      BY <1>1, <2>4, <3>1 DEF Relays, ConsoleTypes
  <2> QED
    BY <1>1, <1>8, <2>3, <2>5 DEF TakeHistory, ConsoleTypes
<1>9. CASE ShowHistory
  <2>1. relay' \in Relays
    BY <1>1, <1>9 DEF ShowHistory, ConsoleTypes, Relays
  <2> QED
    BY <1>1, <1>9, <2>1 DEF ShowHistory, ConsoleTypes
<1>10. CASE BindStdio
  <2>1. terminal' \in Terminals /\ output' \in Outputs
    BY <1>1, <1>10, RecordUpdates DEF BindStdio, ConsoleTypes
  <2> QED
    BY <1>1, <1>10, <2>1 DEF BindStdio, ConsoleTypes
<1>11. CASE Capture
  <2>1. output' \in Outputs
    <3>1. \A bound \in SUBSET Descriptors : Redirected(bound) \in [Descriptors -> {"own", "pipe"}]
      BY <1>1 DEF Redirected, ConsoleTypes, Outputs
    <3>2. ASSUME NEW bound \in SUBSET Descriptors
          PROVE  [std |-> IF handle THEN output.std ELSE "pipe", crt |-> Redirected(bound),
                  readers |-> TRUE] \in Outputs
      BY <1>1, <3>1 DEF ConsoleTypes, Outputs
    <3> QED
      BY <1>1, <1>11, <3>2 DEF Capture, ConsoleTypes
  <2> QED
    BY <1>1, <1>11, <2>1 DEF Capture, ConsoleTypes
<1>12. CASE Reload \/ WriteOwn \/ EditConfig \/ DayPasses \/ \E l \in Foreign : ForeignWrites(l)
  BY <1>1, <1>12 DEF Reload, WriteOwn, EditConfig, DayPasses, ForeignWrites, ConsoleTypes
<1>13. CASE RelayLooks
  <2>1. relay' \in Relays
    <3>1. [at |-> "read", offset |-> 0, pending |-> <<>>] \in Relays
      BY DEF Relays
    <3> QED
      BY <1>1, <1>13, <3>1, RecordUpdates DEF RelayLooks, ConsoleTypes
  <2> QED
    BY <1>1, <1>13, <2>1 DEF RelayLooks, RelayStep, ConsoleTypes
<1>14. CASE RelayReads
  <2>1. PICK n \in 1 .. Len(latest) - relay.offset :
          LET read == Split(relay.pending \o SubSeq(latest, relay.offset + 1, relay.offset + n))
          IN /\ relay' = [relay EXCEPT !.offset = @ + n, !.pending = read.left]
             /\ display' = display \o External(read.lines)
    BY <1>14 DEF RelayReads
  <2> DEFINE text == relay.pending \o SubSeq(latest, relay.offset + 1, relay.offset + n)
             read == Split(text)
  <2>2. text \in Seq(Pieces)
    BY <1>1, <2>1 DEF ConsoleTypes, Relays
  <2>3. read \in Reads
    BY <1>2, <2>2
  <2> HIDE DEF text
  <2>4. read.lines \in Seq(Seq(Pieces)) /\ read.left \in Seq(Pieces)
    BY <2>3 DEF Reads
  <2>5. relay' = [relay EXCEPT !.offset = @ + n, !.pending = read.left]
        /\ display' = display \o External(read.lines)
    BY <2>1 DEF text
  <2> HIDE DEF read
  <2>6. relay' \in Relays
    <3>1. relay.offset + n \in Nat
      BY <1>1, <2>1 DEF Relays, ConsoleTypes
    <3>2. relay' = [relay EXCEPT !.offset = relay.offset + n, !.pending = read.left]
      BY <2>5
    <3> QED
      BY <1>1, <2>4, <3>1, <3>2, RecordUpdates DEF ConsoleTypes
  <2>7. display' \in Seq(Seq(Pieces))
    BY <1>1, <1>3, <2>4, <2>5 DEF ConsoleTypes
  <2> QED
    BY <1>1, <1>14, <2>6, <2>7 DEF RelayReads, RelayStep, ConsoleTypes
<1>15. CASE RelaySleeps
  <2>1. relay' \in Relays
    <3>1. relay.pending \in Seq(Pieces) /\ <<>> \in Seq(Pieces)
      BY <1>1 DEF Relays, ConsoleTypes
    <3>2. \E p \in Seq(Pieces) : relay' = [relay EXCEPT !.at = "look", !.pending = p]
      BY <1>15, <3>1 DEF RelaySleeps
    <3> QED
      BY <1>1, <3>2, RecordUpdates, ZenonT(40) DEF ConsoleTypes
  <2> QED
    BY <1>1, <1>15, <2>1 DEF RelaySleeps, RelayStep, ConsoleTypes
<1>16. CASE Restart
  <2>1. terminal' \in Terminals
    <3>1. PICK attached \in BOOLEAN : terminal' = [NoConsole EXCEPT !.associated = attached]
      BY <1>16 DEF Restart, FreshProcess
    <3> QED
      BY <3>1, RecordUpdates
  <2>2. /\ output' = OwnOutput /\ relay' = NoRelay /\ handle' = FALSE /\ stale' = FALSE
        /\ queued' = <<>> /\ display' = <<>>
    BY <1>16 DEF Restart, FreshProcess
  <2>3. output' \in Outputs /\ relay' \in Relays
    BY <2>2, RecordUpdates
  <2>4. queued' \in Seq(Seq(Pieces)) /\ display' \in Seq(Seq(Pieces))
    BY <2>2
  <2>5. handle' \in BOOLEAN /\ stale' \in BOOLEAN
    BY <2>2
  <2> QED
    BY <2>1, <2>3, <2>4, <2>5 DEF ConsoleTypes
<1>17. CASE UNCHANGED sessionVars
  BY <1>1, <1>17 DEF ConsoleTypes
<1> QED
  BY <1>4, <1>5, <1>6, <1>7, <1>8, <1>9, <1>10, <1>11, <1>12, <1>13, <1>14, <1>15, <1>16, <1>17
     DEF SessionNext, Loader, Relay, Outside

LEMMA PrunedTypes ==
  ASSUME NEW d, FileTypes
  PROVE  /\ Pruned(d).kept \in BOOLEAN
         /\ DOMAIN Pruned(d).left \in SUBSET DOMAIN archives
         /\ \A s \in DOMAIN Pruned(d).left : Pruned(d).left[s] = archives[s]
         /\ ~WritingAllowed => DOMAIN Pruned(d).left = DOMAIN archives
BY DEF Pruned

LEMMA FileTypesStep ==
  ASSUME SessionTypes, [SessionNext]_sessionVars
  PROVE  FileTypes'
<1> USE DEF files, sessionVars
<1>1. FileTypes /\ ConfigTypes
  BY DEF SessionTypes
<1>2. CASE UNCHANGED files
  BY <1>1, <1>2 DEF FileTypes
<1>3. CASE InitLogging
  <2> DEFINE left == Pruned(days).left
  <2>1. kept' = (kept /\ Pruned(days).kept) /\ Prepared(left) /\ written' = written
    BY <1>3 DEF InitLogging
  <2>2. /\ DOMAIN left \in SUBSET Nat /\ \A s \in DOMAIN left : left[s] \in Filed
        /\ Pruned(days).kept \in BOOLEAN
    BY <1>1, PrunedTypes DEF FileTypes
  <2> HIDE DEF left
  <2>3. NoFile \in Filed
    BY DEF NoFile, Filed
  <2>4. /\ latest' \in Seq(Pieces) /\ DOMAIN archives' \in SUBSET Nat
        /\ \A s \in DOMAIN archives' : archives'[s] \in Filed
    <3>1. CASE WritingAllowed
      <4>1. /\ latest' = <<>>
            /\ archives' = [s \in DOMAIN left \cup {session} |->
                              IF s = session THEN NoFile ELSE left[s]]
        BY <2>1, <3>1 DEF Prepared
      <4>2. session \in Nat
        BY <1>1 DEF ConfigTypes
      <4> QED
        BY <2>2, <2>3, <4>1, <4>2
    <3>2. CASE ~WritingAllowed
      BY <1>1, <2>1, <2>2, <3>2 DEF Prepared, FileTypes
    <3> QED
      BY <3>1, <3>2
  <2> QED
    BY <1>1, <2>1, <2>2, <2>4 DEF FileTypes
<1>4. CASE WriteOwn
  <2> DEFINE n == Cardinality({i \in DOMAIN latest : latest[i].part = 0}) + 1
             file == IF session \in DOMAIN archives THEN archives[session] ELSE NoFile
  <2>1. /\ n <= MaxOwn /\ latest' = Append(latest, OwnLine(n))
        /\ archives' = [s \in DOMAIN archives \cup {session} |->
                          IF s = session
                          THEN [age |-> 0, lines |-> Append(file.lines, OwnLine(n))]
                          ELSE archives[s]]
        /\ written' = written /\ kept' = kept
    BY <1>4 DEF WriteOwn
  <2>2. n \in Nat
    <3> DEFINE own == {i \in DOMAIN latest : latest[i].part = 0}
    <3>1. IsFiniteSet(DOMAIN latest)
      <4>1. DOMAIN latest = 1 .. Len(latest) /\ Len(latest) \in Nat
        BY <1>1 DEF FileTypes
      <4> QED
        BY <4>1, FS_Interval
    <3>2. IsFiniteSet(own)
      BY <3>1, FS_Subset
    <3>3. Cardinality(own) \in Nat
      BY <3>2, FS_CardinalityType
    <3> QED
      BY <3>3
  <2>3. session \in Nat
    BY <1>1 DEF ConfigTypes
  <2> HIDE DEF n
  <2>4. OwnLine(n) \in Pieces
    BY <2>2, <2>3 DEF OwnLine, Pieces
  <2>5. file \in Filed
    <3>1. NoFile \in Filed
      BY DEF NoFile, Filed
    <3> QED
      BY <1>1, <3>1 DEF FileTypes
  <2> HIDE DEF file
  <2>6. [age |-> 0, lines |-> Append(file.lines, OwnLine(n))] \in Filed
    BY <2>4, <2>5 DEF Filed
  <2>7. latest' \in Seq(Pieces)
    BY <1>1, <2>1, <2>4 DEF FileTypes
  <2>8. DOMAIN archives' \in SUBSET Nat /\ \A s \in DOMAIN archives' : archives'[s] \in Filed
    BY <1>1, <2>1, <2>3, <2>6 DEF FileTypes
  <2> QED
    BY <1>1, <2>1, <2>7, <2>8 DEF FileTypes
<1>5. CASE Reload
  <2> DEFINE d == ClampedDays(wanted.days)
  <2>1. archives' = Pruned(d).left /\ kept' = (kept /\ Pruned(d).kept)
        /\ latest' = latest /\ written' = written
    BY <1>5 DEF Reload
  <2> HIDE DEF d
  <2>2. /\ DOMAIN Pruned(d).left \in SUBSET Nat
        /\ \A s \in DOMAIN Pruned(d).left : Pruned(d).left[s] \in Filed
        /\ Pruned(d).kept \in BOOLEAN
    BY <1>1, PrunedTypes DEF FileTypes
  <2> QED
    BY <1>1, <2>1, <2>2 DEF FileTypes
<1>6. CASE DayPasses
  <2>1. archives' = [s \in DOMAIN archives |->
                    [archives[s] EXCEPT !.age = IF @ < MaxAge THEN @ + 1 ELSE @]]
        /\ latest' = latest /\ written' = written /\ kept' = kept
    BY <1>6 DEF DayPasses
  <2>2. ASSUME NEW f \in Filed
        PROVE  [f EXCEPT !.age = IF f.age < MaxAge THEN f.age + 1 ELSE f.age] \in Filed
    BY SessionAssumption DEF Filed
  <2>3. \A s \in DOMAIN archives : archives'[s] \in Filed
    BY <1>1, <2>1, <2>2 DEF FileTypes
  <2>4. DOMAIN archives' = DOMAIN archives
    BY <2>1
  <2> QED
    BY <1>1, <2>1, <2>3, <2>4 DEF FileTypes
<1>7. ASSUME NEW l \in Foreign, ForeignWrites(l) PROVE FileTypes'
  <2>1. Head1(l) \in Pieces /\ Tail2(l) \in Pieces
    BY DEF Head1, Tail2, Pieces
  <2>2. latest' \in Seq(Pieces)
    BY <1>1, <1>7, <2>1 DEF ForeignWrites, FileTypes
  <2>3. written' \in [Foreign -> 0 .. 2]
    BY <1>1, <1>7 DEF ForeignWrites, FileTypes
  <2> QED
    BY <1>1, <1>7, <2>2, <2>3 DEF ForeignWrites, FileTypes
<1>8. CASE Restart
  BY <1>1, <1>8 DEF Restart, FileTypes
<1>9. CASE BeginPreload \/ LoadConfig \/ BringUp \/ OpenWindow \/ ActivateLogging \/ TakeHistory
           \/ ShowHistory \/ BindStdio \/ Capture \/ Relay \/ EditConfig
  BY <1>2, <1>9 DEF BeginPreload, LoadConfig, BringUp, OpenWindow, ActivateLogging, TakeHistory,
     ShowHistory, BindStdio, Capture, Relay, RelayLooks, RelayReads, RelaySleeps, RelayStep, EditConfig
<1> QED
  BY <1>2, <1>3, <1>4, <1>5, <1>6, <1>7, <1>8, <1>9 DEF SessionNext, Loader, Outside

LEMMA SessionTypesStep ==
  ASSUME SessionTypes, [SessionNext]_sessionVars
  PROVE  SessionTypes'
BY TaskTypesStep, ConfigTypesStep, ConsoleTypesStep, FileTypesStep DEF SessionTypes

-----------------------------------------------------------------------------
(* The process's output.                                                   *)

OutputKnown ==
  /\ terminal.window => terminal.associated
  /\ phase # "done" => output = OwnOutput
  /\ output.std = "console" => terminal.associated
  /\ output.std = "pipe" \/ (\E d \in Descriptors : output.crt[d] = "pipe") => output.readers
  /\ output.readers => phase = "done" /\ task = <<>>
  /\ output.readers /\ ~handle => output.std = "pipe"

LEMMA OutputKnownStep ==
  ASSUME SessionTypes, OutputKnown, [SessionNext]_sessionVars
  PROVE  OutputKnown'
<1> USE DEF boots, shown, sessionVars
<1>0. TaskTypes /\ terminal \in Terminals /\ output \in Outputs /\ handle \in BOOLEAN
  BY DEF SessionTypes, ConsoleTypes
<1>1. CASE BeginPreload \/ LoadConfig \/ InitLogging \/ BringUp
  <2>1. phase # "done" /\ output' = output /\ terminal' = terminal /\ handle' = handle
    BY <1>1 DEF BeginPreload, LoadConfig, InitLogging, BringUp, Stage
  <2>2. output = OwnOutput
    BY <2>1 DEF OutputKnown
  <2> QED
    BY <2>1, <2>2 DEF OutputKnown, OwnOutput
<1>2. ASSUME NEW what, Doing(what) PROVE ~output.readers
  BY <1>2 DEF Doing, OutputKnown
<1>3. CASE OpenWindow
  <2>1. ~output.readers /\ output' = output /\ phase' = phase /\ handle' = handle
    BY <1>2, <1>3 DEF OpenWindow
  <2>2. (terminal.associated => terminal'.associated) /\ (terminal'.window => terminal'.associated)
    BY <1>0, <1>3 DEF OpenWindow, OutputKnown, Terminals
  <2> QED
    BY <2>1, <2>2 DEF OutputKnown
<1>4. CASE ActivateLogging
  <2>1. ~output.readers /\ output' = output /\ phase' = phase /\ handle' = handle
    BY <1>2, <1>4 DEF ActivateLogging
  <2>2. terminal'.associated = terminal.associated /\ terminal'.window = terminal.window
    BY <1>0, <1>4 DEF ActivateLogging, Terminals
  <2> QED
    BY <2>1, <2>2 DEF OutputKnown
<1>5. CASE TakeHistory \/ ShowHistory
  <2>1. ~output.readers /\ output' = output /\ phase' = phase /\ terminal' = terminal
    BY <1>2, <1>5 DEF TakeHistory, ShowHistory
  <2> QED
    BY <2>1 DEF OutputKnown
<1>6. CASE BindStdio
  <2>1. ~output.readers /\ phase' = phase /\ handle' = handle /\ phase = "done"
    BY <1>0, <1>2, <1>6, TaskGoesOn DEF BindStdio, TaskTypes, Doing
  <2>2. terminal'.associated = terminal.associated /\ terminal'.window = terminal.window
    BY <1>0, <1>6 DEF BindStdio, Terminals
  <2>3. output' = output \/ (output' = [output EXCEPT !.std = "console"] /\ terminal.window)
    BY <1>6 DEF BindStdio
  <2>4. /\ output'.readers = output.readers /\ output'.crt = output.crt
        /\ output'.std = output.std \/ (output'.std = "console" /\ terminal.window)
    BY <1>0, <2>3 DEF Outputs
  <2> QED
    BY <2>1, <2>2, <2>4 DEF OutputKnown
<1>7. CASE Capture
  <2>1. ~output.readers /\ phase' = phase /\ handle' = handle /\ terminal' = terminal
    BY <1>2, <1>7 DEF Capture
  <2>2. phase = "done" /\ task' = <<>>
    BY <1>0, <1>7, TaskGoesOn DEF Capture, TaskTypes, Doing, Next1
  <2>3. CASE output' = output
    BY <2>1, <2>2, <2>3 DEF OutputKnown
  <2>4. CASE output' # output
    <3>1. output'.readers /\ output'.std = IF handle THEN output.std ELSE "pipe"
      BY <1>7, <2>4 DEF Capture
    <3> QED
      BY <2>1, <2>2, <3>1 DEF OutputKnown
  <2> QED
    BY <2>3, <2>4
<1>8. CASE Restart
  <2>1. terminal' \in {NoConsole, [NoConsole EXCEPT !.associated = TRUE],
                       [NoConsole EXCEPT !.associated = FALSE]}
    BY <1>8 DEF Restart, FreshProcess
  <2>2. ~terminal'.window
    BY <2>1 DEF NoConsole
  <2>3. phase' # "done" /\ output' = OwnOutput
    BY <1>8 DEF Restart, FreshProcess
  <2> QED
    BY <2>2, <2>3 DEF OutputKnown, OwnOutput
<1>9. CASE WriteOwn \/ Reload \/ Relay \/ EditConfig \/ DayPasses
           \/ \E l \in Foreign : ForeignWrites(l)
  BY <1>9 DEF WriteOwn, Reload, Relay, RelayLooks, RelayReads, RelaySleeps, RelayStep, EditConfig,
     DayPasses, ForeignWrites, OutputKnown
<1>10. CASE UNCHANGED sessionVars
  BY <1>10 DEF OutputKnown
<1> QED
  BY <1>1, <1>3, <1>4, <1>5, <1>6, <1>7, <1>8, <1>9, <1>10 DEF SessionNext, Loader, Outside

(* What the process prints goes where it goes until the entry point is let *)
(* go, and then to a console that is there or into a pipe that is read     *)
(* (BindStdio and Capture, with every failure): for any descriptors, any   *)
(* configuration and any number of sessions.                               *)
THEOREM OutputIsReceived == SessionSpec => []OutputFollows
<1>1. SessionInit => SessionTypes /\ OutputKnown
  <2> SUFFICES ASSUME SessionInit PROVE OutputKnown
    BY SessionTypesInit
  <2>1. ~terminal.window
    BY DEF SessionInit, NoConsole
  <2> QED
    BY <2>1 DEF SessionInit, OutputKnown, OwnOutput
<1>2. SessionTypes /\ OutputKnown /\ [SessionNext]_sessionVars => SessionTypes' /\ OutputKnown'
  BY SessionTypesStep, OutputKnownStep
<1>3. OutputKnown => OutputFollows
  BY DEF OutputKnown, OutputFollows
<1> QED
  BY <1>1, <1>2, <1>3, PTL DEF SessionSpec

-----------------------------------------------------------------------------
(* What the loader has written.                                            *)

OwnPlaces(s) == {i \in DOMAIN s : s[i].part = 0}

LEMMA OneMore ==
  ASSUME NEW s \in Seq(Pieces), NEW e \in Pieces,
         Cardinality(OwnPlaces(s)) = Len(Own(s))
  PROVE  Cardinality(OwnPlaces(Append(s, e))) = Len(Own(Append(s, e)))
<1> DEFINE n == Len(s) + 1
<1>1. Len(s) \in Nat /\ DOMAIN s = 1 .. Len(s) /\ DOMAIN Append(s, e) = 1 .. n
      /\ Append(s, e)[n] = e /\ \A i \in 1 .. Len(s) : Append(s, e)[i] = s[i]
  OBVIOUS
<1>2. IsFiniteSet(OwnPlaces(s)) /\ n \notin OwnPlaces(s)
  <2>1. IsFiniteSet(1 .. Len(s))
    BY <1>1, FS_Interval
  <2>2. OwnPlaces(s) \subseteq 1 .. Len(s)
    BY <1>1 DEF OwnPlaces
  <2> QED
    BY <1>1, <2>1, <2>2, FS_Subset
<1>3. Own(s) \in Seq(Pieces)
  BY OwnIs
<1>4. CASE IsOwn(e)
  <2>1. OwnPlaces(Append(s, e)) = OwnPlaces(s) \cup {n}
    BY <1>1, <1>4 DEF OwnPlaces, IsOwn
  <2>2. Own(Append(s, e)) = Append(Own(s), e)
    BY <1>4, OwnIs
  <2>3. Cardinality(OwnPlaces(s) \cup {n}) = Cardinality(OwnPlaces(s)) + 1
    BY <1>2, FS_AddElement
  <2>4. Len(Append(Own(s), e)) = Len(Own(s)) + 1
    BY <1>3
  <2> QED
    BY <2>1, <2>2, <2>3, <2>4
<1>5. CASE ~IsOwn(e)
  <2>1. OwnPlaces(Append(s, e)) = OwnPlaces(s)
    BY <1>1, <1>5 DEF OwnPlaces, IsOwn
  <2>2. Own(Append(s, e)) = Own(s)
    BY <1>5, OwnIs
  <2> QED
    BY <2>1, <2>2
<1> QED
  BY <1>4, <1>5

LEMMA SuffixGrows ==
  ASSUME NEW own \in Seq(Pieces), NEW part \in Seq(Pieces), NEW e \in Pieces,
         Len(part) <= Len(own), part = SubSeq(own, Len(own) - Len(part) + 1, Len(own))
  PROVE  LET o == Append(own, e)
             p == Append(part, e)
         IN  Len(p) <= Len(o) /\ p = SubSeq(o, Len(o) - Len(p) + 1, Len(o))
<1> DEFINE o == Append(own, e)
           p == Append(part, e)
           d == Len(own) - Len(part)
<1>1. /\ o \in Seq(Pieces) /\ p \in Seq(Pieces) /\ Len(own) \in Nat /\ Len(part) \in Nat
      /\ Len(o) = Len(own) + 1 /\ Len(p) = Len(part) + 1
  OBVIOUS
<1>2. \A i \in 1 .. Len(part) : part[i] = own[d + i] /\ d + i \in 1 .. Len(own)
  <2> SUFFICES ASSUME NEW i \in 1 .. Len(part) PROVE part[i] = own[d + i] /\ d + i \in 1 .. Len(own)
    OBVIOUS
  <2>1. d \in Nat /\ d + i \in 1 .. Len(own)
    BY <1>1
  <2>2. SubSeq(own, d + 1, Len(own))[i] = own[d + i]
    BY <1>1, <2>1
  <2> QED
    BY <2>1, <2>2
<1>3. \A i \in 1 .. Len(p) : p[i] = o[d + i]
  <2> SUFFICES ASSUME NEW i \in 1 .. Len(p) PROVE p[i] = o[d + i]
    OBVIOUS
  <2>1. CASE i = Len(part) + 1
    BY <1>1, <2>1
  <2>2. CASE i # Len(part) + 1
    <3>1. i \in 1 .. Len(part)
      BY <1>1, <2>2
    <3>2. p[i] = part[i] /\ part[i] = own[d + i] /\ d + i \in 1 .. Len(own)
      BY <1>2, <3>1
    <3> QED
      BY <3>2
  <2> QED
    BY <2>1, <2>2
<1> HIDE DEF o, p
<1>4. d \in Nat /\ Len(o) - Len(p) = d /\ Len(p) <= Len(o) /\ Len(o) - d = Len(p)
  BY <1>1
<1>5. p = SubSeq(o, d + 1, Len(o))
  <2> DEFINE q == SubSeq(o, d + 1, Len(o))
  <2>1. q \in Seq(Pieces) /\ Len(q) = Len(p) /\ \A i \in 1 .. Len(q) : q[i] = o[d + i]
    BY <1>1, <1>4
  <2> HIDE DEF q
  <2>2. \A i \in 1 .. Len(p) : p[i] = q[i]
    BY <1>3, <2>1
  <2>3. p = q
    BY <1>1, <2>1, <2>2, SeqEqual
  <2> QED
    BY <2>3 DEF q
<1> QED
  BY <1>4, <1>5 DEF o, p

InFile == Ready /\ WritingAllowed

Retained ==
  /\ kept /\ wanted.days \in asked
  /\ phase \in {"init", "up", "done"} => \E a \in asked : days = ClampedDays(a)

Numbered ==
  /\ Cardinality(OwnPlaces(latest)) = Len(Own(latest))
  /\ InFile => \A n \in 1 .. Len(Own(latest)) : Own(latest)[n] = OwnLine(n)
  /\ \A i \in DOMAIN latest : IsOwn(latest[i]) =>
       \E k \in Nat, n \in Nat : /\ latest[i].line = <<"own", k, n>>
                                 /\ k < session \/ (k = session /\ InFile)

ArchivedAs(own, part) ==
  Len(part) <= Len(own) /\ part = SubSeq(own, Len(own) - Len(part) + 1, Len(own))

Archived ==
  /\ \A s \in DOMAIN archives : s < session \/ (s = session /\ InFile)
  /\ session \in DOMAIN archives => ArchivedAs(Own(latest), archives[session].lines)

LEMMA PrunedAsAsked ==
  ASSUME NEW d, \E a \in asked : d = ClampedDays(a)
  PROVE  Pruned(d).kept
BY DEF Pruned

LEMMA RetainedStep ==
  ASSUME SessionTypes, Retained, [SessionNext]_sessionVars
  PROVE  Retained'
<1> USE DEF boots, files, configs, sessionVars
<1>1. kept \in BOOLEAN /\ wanted \in Configs
  BY DEF SessionTypes, FileTypes, ConfigTypes
<1>2. CASE LoadConfig
  BY <1>2 DEF LoadConfig, Stage, Retained
<1>3. CASE InitLogging
  <2>1. Pruned(days).kept
    BY <1>3, PrunedAsAsked DEF InitLogging, Stage, Retained
  <2> QED
    BY <1>3, <2>1 DEF InitLogging, Stage, Retained
<1>4. CASE Reload
  <2>1. Pruned(ClampedDays(wanted.days)).kept
    BY PrunedAsAsked DEF Retained
  <2> QED
    BY <1>4, <2>1 DEF Reload, Retained
<1>5. CASE EditConfig
  BY <1>5 DEF EditConfig, Retained
<1>6. CASE Restart
  BY <1>6 DEF Restart, FreshProcess, Retained
<1>7. CASE BeginPreload \/ BringUp \/ WriteOwn \/ DayPasses \/ \E l \in Foreign : ForeignWrites(l)
  BY <1>7 DEF BeginPreload, BringUp, WriteOwn, DayPasses, ForeignWrites, Stage, Retained
<1>8. CASE OpenWindow \/ ActivateLogging \/ TakeHistory \/ ShowHistory \/ BindStdio \/ Capture \/ Relay
  BY <1>8 DEF OpenWindow, ActivateLogging, TakeHistory, ShowHistory, BindStdio, Capture,
     Relay, RelayLooks, RelayReads, RelaySleeps, RelayStep, Retained
<1>9. CASE UNCHANGED sessionVars
  BY <1>9 DEF Retained
<1> QED
  BY <1>2, <1>3, <1>4, <1>5, <1>6, <1>7, <1>8, <1>9 DEF SessionNext, Loader, Relay, Outside

\* Most steps touch neither the files nor where the session is.
LEMMA FilesOrNot ==
  ASSUME SessionTypes, [SessionNext]_sessionVars
  PROVE  \/ /\ UNCHANGED <<latest, session, version>>
            /\ (InFile => InFile')
            /\ DOMAIN archives' \subseteq DOMAIN archives
            /\ \A s \in DOMAIN archives' : archives'[s].lines = archives[s].lines
         \/ InitLogging \/ WriteOwn \/ Restart \/ \E l \in Foreign : ForeignWrites(l)
<1> USE DEF boots, files, configs, sessionVars
<1>1. CASE BeginPreload \/ LoadConfig \/ BringUp
  BY <1>1 DEF BeginPreload, LoadConfig, BringUp, Stage, InFile, Ready, WritingAllowed
<1>2. CASE OpenWindow \/ ActivateLogging \/ TakeHistory \/ ShowHistory \/ BindStdio \/ Capture \/ Relay
           \/ EditConfig
  BY <1>2 DEF OpenWindow, ActivateLogging, TakeHistory, ShowHistory, BindStdio, Capture, EditConfig,
     Relay, RelayLooks, RelayReads, RelaySleeps, RelayStep, InFile, Ready, WritingAllowed
<1>3. CASE Reload
  <2>1. archives' = Pruned(ClampedDays(wanted.days)).left /\ UNCHANGED <<boots, latest>>
    BY <1>3 DEF Reload
  <2>2. FileTypes
    BY DEF SessionTypes
  <2> QED
    BY <2>1, <2>2, PrunedTypes DEF InFile, Ready, WritingAllowed
<1>4. CASE DayPasses
  <2>1. /\ archives' = [s \in DOMAIN archives |->
                    [archives[s] EXCEPT !.age = IF @ < MaxAge THEN @ + 1 ELSE @]]
        /\ UNCHANGED <<boots, latest>>
    BY <1>4 DEF DayPasses
  <2>2. ASSUME NEW s \in DOMAIN archives PROVE archives'[s].lines = archives[s].lines
    <3>1. archives[s] \in Filed
      BY DEF SessionTypes, FileTypes
    <3> QED
      BY <2>1, <3>1 DEF Filed
  <2>3. DOMAIN archives' = DOMAIN archives
    BY <2>1
  <2> QED
    BY <2>1, <2>2, <2>3 DEF InFile, Ready, WritingAllowed
<1>5. CASE UNCHANGED sessionVars
  BY <1>5 DEF InFile, Ready, WritingAllowed
<1> QED
  BY <1>1, <1>2, <1>3, <1>4, <1>5 DEF SessionNext, Loader, Outside

LEMMA NumberedStep ==
  ASSUME SessionTypes, Numbered, [SessionNext]_sessionVars
  PROVE  Numbered'
<1> USE DEF boots, files, sessionVars
<1>0. FileTypes /\ session \in Nat /\ latest \in Seq(Pieces) /\ Own(latest) \in Seq(Pieces)
  <2>1. [line |-> <<"own", 0, 0>>, part |-> 0] \in Pieces
    BY DEF Pieces
  <2> QED
    BY <2>1, OwnIs DEF SessionTypes, FileTypes, ConfigTypes
<1>1. CASE UNCHANGED <<latest, session, version>> /\ (InFile => InFile')
  <2>1. Own(latest') = Own(latest) /\ OwnPlaces(latest') = OwnPlaces(latest)
        /\ \A n \in Nat : OwnLine(n)' = OwnLine(n)
    BY <1>1 DEF OwnLine
  <2>2. InFile' => InFile \/ phase' # phase
    BY <1>1 DEF InFile, Ready, WritingAllowed
  <2>3. CASE InFile' => InFile
    BY <1>0, <1>1, <2>1, <2>3 DEF Numbered
  <2>4. CASE InFile' /\ ~InFile
    <3>1. phase \notin {"up", "done"} /\ phase' \in {"up", "done"}
      BY <1>1, <2>4 DEF InFile, Ready, WritingAllowed
    <3>2. InitLogging
      BY <3>1 DEF SessionNext, Loader, Outside, BeginPreload, LoadConfig, BringUp, OpenWindow,
         ActivateLogging, TakeHistory, ShowHistory, BindStdio, Capture, WriteOwn, Reload, Relay,
         RelayLooks, RelayReads, RelaySleeps, RelayStep, Restart, FreshProcess, EditConfig,
         DayPasses, ForeignWrites, Stage
    <3>3. latest' = <<>>
      BY <1>1, <2>4, <3>2 DEF InitLogging, Prepared, InFile, WritingAllowed
    <3>4. OwnPlaces(latest') = {} /\ Cardinality({}) = 0 /\ Own(latest') = <<>>
      BY <3>3, OwnIs, FS_EmptySet DEF OwnPlaces
    <3>5. Len(<<>>) = 0 /\ DOMAIN latest' = {}
      BY <3>3
    <3> QED
      BY <3>4, <3>5 DEF Numbered
  <2> QED
    BY <2>3, <2>4
<1>2. CASE InitLogging
  <2>1. CASE WritingAllowed
    <3>1. latest' = <<>>
      BY <1>2, <2>1 DEF InitLogging, Prepared
    <3>2. OwnPlaces(latest') = {} /\ Cardinality({}) = 0 /\ Own(latest') = <<>>
      BY <3>1, OwnIs, FS_EmptySet DEF OwnPlaces
    <3>3. Len(<<>>) = 0 /\ DOMAIN latest' = {}
      BY <3>1
    <3> QED
      BY <3>2, <3>3 DEF Numbered
  <2>2. CASE ~WritingAllowed
    <3>1. UNCHANGED <<latest, session, version>> /\ (InFile => InFile')
      BY <1>2, <2>2 DEF InitLogging, Prepared, InFile
    <3> QED
      BY <1>1, <3>1
  <2> QED
    BY <2>1, <2>2
<1>3. CASE WriteOwn
  <2> DEFINE n == Cardinality(OwnPlaces(latest)) + 1
  <2>1. /\ latest' = Append(latest, OwnLine(n)) /\ UNCHANGED boots /\ InFile
    BY <1>3 DEF WriteOwn, OwnPlaces, InFile
  <2>2. n = Len(Own(latest)) + 1 /\ n \in Nat
    BY <1>0 DEF Numbered
  <2> HIDE DEF n
  <2>3. OwnLine(n) \in Pieces /\ IsOwn(OwnLine(n)) /\ OwnLine(n).line = <<"own", session, n>>
    BY <1>0, <2>2 DEF OwnLine, Pieces, IsOwn
  <2>4. Own(latest') = Append(Own(latest), OwnLine(n))
    BY <1>0, <2>1, <2>3, OwnIs
  <2>5. Cardinality(OwnPlaces(latest')) = Len(Own(latest'))
    BY <1>0, <2>1, <2>3, OneMore DEF Numbered
  <2>6. InFile' /\ session' = session /\ \A m \in Nat : OwnLine(m)' = OwnLine(m)
    BY <2>1 DEF InFile, Ready, WritingAllowed, OwnLine
  <2>7. \A m \in 1 .. Len(Own(latest')) : Own(latest')[m] = OwnLine(m)
    BY <1>0, <2>1, <2>2, <2>3, <2>4, SMTT(60) DEF Numbered
  <2>8. ASSUME NEW i \in DOMAIN latest', IsOwn(latest'[i])
        PROVE  \E k \in Nat, m \in Nat : /\ latest'[i].line = <<"own", k, m>>
                                         /\ k < session \/ (k = session /\ InFile)
    <3>1. latest'[i] = OwnLine(n) \/ (i \in DOMAIN latest /\ latest'[i] = latest[i])
      BY <1>0, <2>1, <2>3
    <3> QED
      BY <1>0, <2>1, <2>2, <2>3, <2>8, <3>1 DEF Numbered
  <2> QED
    BY <2>5, <2>6, <2>7, <2>8 DEF Numbered
<1>4. CASE Restart
  <2>1. session' = session + 1 /\ latest' = latest /\ ~InFile'
    BY <1>4 DEF Restart, FreshProcess, InFile, Ready
  <2>2. \A k \in Nat : k < session \/ k = session => k < session'
    BY <1>0, <2>1
  <2>3. OwnPlaces(latest') = OwnPlaces(latest) /\ Own(latest') = Own(latest)
    BY <2>1
  <2> QED
    BY <2>1, <2>2, <2>3 DEF Numbered
<1>5. ASSUME NEW l \in Foreign, ForeignWrites(l) PROVE Numbered'
  <2>1. PICK e \in {Head1(l), Tail2(l)} : latest' = Append(latest, e) /\ UNCHANGED boots
    BY <1>5 DEF ForeignWrites
  <2>2. e \in Pieces /\ ~IsOwn(e)
    BY DEF Head1, Tail2, Pieces, IsOwn
  <2>3. Own(latest') = Own(latest)
    BY <1>0, <2>1, <2>2, OwnIs
  <2>4. Cardinality(OwnPlaces(latest')) = Len(Own(latest'))
    BY <1>0, <2>1, <2>2, OneMore DEF Numbered
  <2>5. (InFile' <=> InFile) /\ session' = session /\ \A m \in Nat : OwnLine(m)' = OwnLine(m)
    BY <2>1 DEF InFile, Ready, WritingAllowed, OwnLine
  <2>6. ASSUME NEW i \in DOMAIN latest', IsOwn(latest'[i])
        PROVE  i \in DOMAIN latest /\ latest'[i] = latest[i]
    BY <1>0, <2>1, <2>2, <2>6
  <2>7. \A m \in 1 .. Len(Own(latest')) : m \in Nat
    BY <1>0, <2>3
  <2> QED
    BY <1>0, <2>3, <2>4, <2>5, <2>6, <2>7 DEF Numbered
<1> QED
  BY <1>1, <1>2, <1>3, <1>4, <1>5, FilesOrNot

LEMMA ArchivedStep ==
  ASSUME SessionTypes, Numbered, Archived, [SessionNext]_sessionVars
  PROVE  Archived'
<1> USE DEF boots, files, sessionVars
<1>0. /\ FileTypes /\ session \in Nat /\ latest \in Seq(Pieces) /\ Own(latest) \in Seq(Pieces)
      /\ DOMAIN archives \in SUBSET Nat
  <2>1. [line |-> <<"own", 0, 0>>, part |-> 0] \in Pieces
    BY DEF Pieces
  <2> QED
    BY <2>1, OwnIs DEF SessionTypes, FileTypes, ConfigTypes
<1>1. CASE /\ UNCHANGED <<latest, session, version>>
           /\ (InFile => InFile')
           /\ DOMAIN archives' \subseteq DOMAIN archives
           /\ \A s \in DOMAIN archives' : archives'[s].lines = archives[s].lines
  <2>1. Own(latest') = Own(latest)
    BY <1>1
  <2> QED
    BY <1>1, <2>1 DEF Archived
<1>2. CASE InitLogging
  <2> DEFINE left == Pruned(days).left
  <2>1. /\ DOMAIN left \subseteq DOMAIN archives /\ \A s \in DOMAIN left : left[s] = archives[s]
    BY <1>0, PrunedTypes
  <2>2. Prepared(left) /\ session' = session /\ version' = version /\ phase' = "up" /\ ~InFile
    BY <1>2 DEF InitLogging, Stage, InFile, Ready
  <2> HIDE DEF left
  <2>3. CASE WritingAllowed
    <3>1. latest' = <<>> /\ archives' = [s \in DOMAIN left \cup {session} |->
                                            IF s = session THEN NoFile ELSE left[s]]
      BY <2>2, <2>3 DEF Prepared
    <3>2. InFile'
      BY <2>2, <2>3 DEF InFile, Ready, WritingAllowed
    <3>3. ArchivedAs(<<>>, <<>>)
      BY DEF ArchivedAs
    <3>4. archives'[session].lines = <<>> /\ Own(latest') = <<>>
      BY <3>1, OwnIs DEF NoFile
    <3> QED
      BY <1>0, <2>1, <2>2, <3>1, <3>2, <3>3, <3>4 DEF Archived
  <2>4. CASE ~WritingAllowed
    <3>1. archives' = left /\ latest' = latest /\ ~InFile'
      BY <2>2, <2>4 DEF Prepared, InFile, WritingAllowed
    <3> QED
      BY <2>1, <2>2, <3>1 DEF Archived
  <2> QED
    BY <2>3, <2>4
<1>3. CASE WriteOwn
  <2> DEFINE n == Cardinality(OwnPlaces(latest)) + 1
             file == IF session \in DOMAIN archives THEN archives[session] ELSE NoFile
  <2>1. /\ latest' = Append(latest, OwnLine(n)) /\ UNCHANGED boots /\ InFile
        /\ archives' = [s \in DOMAIN archives \cup {session} |->
                          IF s = session
                          THEN [age |-> 0, lines |-> Append(file.lines, OwnLine(n))]
                          ELSE archives[s]]
    BY <1>3 DEF WriteOwn, OwnPlaces, InFile
  <2>2. n \in Nat
    BY <1>0 DEF Numbered
  <2> HIDE DEF n
  <2>3. OwnLine(n) \in Pieces /\ IsOwn(OwnLine(n))
    BY <1>0, <2>2 DEF OwnLine, Pieces, IsOwn
  <2>4. Own(latest') = Append(Own(latest), OwnLine(n))
    BY <1>0, <2>1, <2>3, OwnIs
  <2>5. file.lines \in Seq(Pieces) /\ ArchivedAs(Own(latest), file.lines)
    <3>1. CASE session \in DOMAIN archives
      BY <1>0, <3>1 DEF Archived, FileTypes, Filed
    <3>2. CASE session \notin DOMAIN archives
      <4>1. file.lines = <<>>
        BY <3>2 DEF NoFile
      <4> HIDE DEF file
      <4>2. Len(<<>>) = 0 /\ <<>> = SubSeq(Own(latest), Len(Own(latest)) - 0 + 1, Len(Own(latest)))
        BY <1>0
      <4> QED
        BY <1>0, <4>1, <4>2 DEF ArchivedAs
    <3> QED
      BY <3>1, <3>2
  <2> HIDE DEF file
  <2>6. ArchivedAs(Append(Own(latest), OwnLine(n)), Append(file.lines, OwnLine(n)))
    BY <1>0, <2>3, <2>5, SuffixGrows DEF ArchivedAs
  <2>7. archives'[session].lines = Append(file.lines, OwnLine(n))
        /\ DOMAIN archives' = DOMAIN archives \cup {session}
    BY <2>1
  <2>8. InFile' /\ session' = session
    BY <2>1 DEF InFile, Ready, WritingAllowed
  <2>9. ArchivedAs(Own(latest'), archives'[session'].lines)
    BY <2>4, <2>6, <2>7, <2>8
  <2>10. \A s \in DOMAIN archives' : s < session' \/ (s = session' /\ InFile')
    BY <2>7, <2>8 DEF Archived
  <2> QED
    BY <2>9, <2>10 DEF Archived
<1>4. CASE Restart
  <2>1. session' = session + 1 /\ archives' = archives
    BY <1>4 DEF Restart
  <2>2. \A s \in DOMAIN archives : s < session'
    BY <1>0, <2>1 DEF Archived
  <2>3. session' \notin DOMAIN archives'
    BY <1>0, <2>1, <2>2
  <2> QED
    BY <2>1, <2>2, <2>3 DEF Archived
<1>5. ASSUME NEW l \in Foreign, ForeignWrites(l) PROVE Archived'
  <2>1. PICK e \in {Head1(l), Tail2(l)} : latest' = Append(latest, e) /\ UNCHANGED boots
                                          /\ archives' = archives
    BY <1>5 DEF ForeignWrites
  <2>2. e \in Pieces /\ ~IsOwn(e)
    BY DEF Head1, Tail2, Pieces, IsOwn
  <2>3. Own(latest') = Own(latest)
    BY <1>0, <2>1, <2>2, OwnIs
  <2>4. InFile' <=> InFile
    BY <2>1 DEF InFile, Ready, WritingAllowed
  <2> QED
    BY <2>1, <2>3, <2>4 DEF Archived
<1> QED
  BY <1>1, <1>2, <1>3, <1>4, <1>5, FilesOrNot

(* What the loader has written in a session is in latest.log, whole and in   *)
(* order, and the archive of the session ends as it does; an archive goes    *)
(* only when it is as old as config.json had asked for, and where files are  *)
(* forbidden none is written (init, write_bytes_to_bootstrap_file,           *)
(* prune_archive_logs, writes_allowed): for any configuration and any number *)
(* of sessions and lines.                                                    *)
THEOREM LogsSurvive == SessionSpec => []LogsKept
<1> DEFINE Inv == SessionTypes /\ Retained /\ Numbered /\ Archived
<1>1. SessionInit => Inv
  <2> SUFFICES ASSUME SessionInit PROVE Retained /\ Numbered /\ Archived
    BY SessionTypesInit
  <2>1. Retained
    BY DEF SessionInit, Retained
  <2>2. latest = <<>> /\ archives = <<>>
    BY DEF SessionInit
  <2>3. OwnPlaces(latest) = {} /\ Cardinality({}) = 0 /\ Own(latest) = <<>>
    BY <2>2, OwnIs, FS_EmptySet DEF OwnPlaces
  <2>4. Numbered
    <3>1. Len(<<>>) = 0 /\ DOMAIN latest = {}
      BY <2>2
    <3> QED
      BY <2>3, <3>1 DEF Numbered
  <2>5. Archived
    BY <2>2 DEF Archived
  <2> QED
    BY <2>1, <2>4, <2>5
<1>2. Inv /\ [SessionNext]_sessionVars => Inv'
  BY SessionTypesStep, RetainedStep, NumberedStep, ArchivedStep
<1>3. Inv => LogsKept
  <2> SUFFICES ASSUME Inv PROVE LogsKept
    OBVIOUS
  <2>0. session \in Nat /\ latest \in Seq(Pieces) /\ Own(latest) \in Seq(Pieces)
    <3>1. [line |-> <<"own", 0, 0>>, part |-> 0] \in Pieces
      BY DEF Pieces
    <3> QED
      BY <3>1, OwnIs DEF SessionTypes, FileTypes, ConfigTypes
  <2>1. kept
    BY DEF Retained
  <2>2. ASSUME Ready /\ WritingAllowed
        PROVE  /\ Own(latest) = [n \in 1 .. Len(Own(latest)) |-> OwnLine(n)]
               /\ session \in DOMAIN archives => ArchivedAs(Own(latest), archives[session].lines)
    BY <2>0, <2>2 DEF Numbered, Archived, InFile
  <2>3. ASSUME ~WritingAllowed
        PROVE  /\ session \notin DOMAIN archives
               /\ \A i \in DOMAIN latest : ~IsOwn(latest[i]) \/ latest[i].line[2] # session
    BY <2>0, <2>3 DEF Numbered, Archived, InFile
  <2> QED
    BY <2>1, <2>2, <2>3 DEF LogsKept, ArchivedAs
<1> QED
  <2> HIDE DEF Inv
  <2> QED
    BY <1>1, <1>2, <1>3, PTL DEF SessionSpec

-----------------------------------------------------------------------------
(* What a text and the lines it is split into have in common.              *)

Meets(s, X)     == \E i \in DOMAIN s : s[i] \in X
MeetsOnce(s, X) == \A i, j \in DOMAIN s : s[i] \in X /\ s[j] \in X => i = j
Holding(p)      == {line \in Seq(Pieces) : Meets(line, {p})}

LEMMA MeetsMore ==
  ASSUME NEW S, NEW s \in Seq(S), NEW e \in S, NEW X
  PROVE  /\ Meets(Append(s, e), X) <=> Meets(s, X) \/ e \in X
         /\ MeetsOnce(s, X) /\ ~(Meets(s, X) /\ e \in X) => MeetsOnce(Append(s, e), X)
<1> DEFINE t == Append(s, e)
           n == Len(s) + 1
<1>1. /\ Len(s) \in Nat /\ DOMAIN s = 1 .. Len(s) /\ DOMAIN t = 1 .. n
      /\ t[n] = e /\ \A i \in 1 .. Len(s) : t[i] = s[i]
  OBVIOUS
<1> HIDE DEF t
<1>2. \A i \in DOMAIN t : i = n \/ (i \in DOMAIN s /\ t[i] = s[i])
  BY <1>1
<1>3. n \in DOMAIN t /\ n \notin DOMAIN s /\ \A i \in DOMAIN s : i \in DOMAIN t /\ t[i] = s[i]
  BY <1>1
<1> HIDE DEF n
<1>4. Meets(t, X) <=> Meets(s, X) \/ e \in X
  BY <1>1, <1>2, <1>3 DEF Meets
<1>5. MeetsOnce(s, X) /\ ~(Meets(s, X) /\ e \in X) => MeetsOnce(t, X)
  BY <1>1, <1>2, <1>3 DEF Meets, MeetsOnce
<1> QED
  BY <1>4, <1>5 DEF t

LEMMA MeetsBoth ==
  ASSUME NEW S, NEW a \in Seq(S), NEW b \in Seq(S), NEW X
  PROVE  /\ Meets(a \o b, X) <=> Meets(a, X) \/ Meets(b, X)
         /\ MeetsOnce(a, X) /\ MeetsOnce(b, X) /\ ~(Meets(a, X) /\ Meets(b, X)) =>
              MeetsOnce(a \o b, X)
<1> DEFINE c == a \o b
<1>1. /\ Len(a) \in Nat /\ Len(b) \in Nat /\ DOMAIN a = 1 .. Len(a) /\ DOMAIN b = 1 .. Len(b)
      /\ DOMAIN c = 1 .. Len(a) + Len(b)
      /\ \A i \in 1 .. Len(a) + Len(b) : c[i] = IF i <= Len(a) THEN a[i] ELSE b[i - Len(a)]
  BY ConcatProperties
<1> HIDE DEF c
<1>2. \A i \in DOMAIN c : \/ i \in DOMAIN a /\ c[i] = a[i]
                          \/ i - Len(a) \in DOMAIN b /\ c[i] = b[i - Len(a)]
  BY <1>1
<1>3. \A i \in DOMAIN a : i \in DOMAIN c /\ c[i] = a[i]
  BY <1>1
<1>4. \A i \in DOMAIN b : i + Len(a) \in DOMAIN c /\ c[i + Len(a)] = b[i]
  BY <1>1
<1>5. Meets(c, X) <=> Meets(a, X) \/ Meets(b, X)
  BY <1>2, <1>3, <1>4 DEF Meets
<1>6. ASSUME MeetsOnce(a, X), MeetsOnce(b, X), ~(Meets(a, X) /\ Meets(b, X))
      PROVE  MeetsOnce(c, X)
  <2> SUFFICES ASSUME NEW i \in DOMAIN c, NEW j \in DOMAIN c, c[i] \in X, c[j] \in X
               PROVE  i = j
    BY DEF MeetsOnce
  <2>1. CASE Meets(a, X)
    <3>1. i \in DOMAIN a /\ c[i] = a[i] /\ j \in DOMAIN a /\ c[j] = a[j]
      BY <1>2, <1>6, <2>1 DEF Meets
    <3> QED
      BY <1>6, <3>1 DEF MeetsOnce
  <2>2. CASE ~Meets(a, X)
    <3>1. /\ i - Len(a) \in DOMAIN b /\ c[i] = b[i - Len(a)]
          /\ j - Len(a) \in DOMAIN b /\ c[j] = b[j - Len(a)]
      BY <1>2, <2>2 DEF Meets
    <3>2. i - Len(a) = j - Len(a)
      BY <1>6, <3>1 DEF MeetsOnce
    <3> QED
      BY <1>1, <3>2
  <2> QED
    BY <2>1, <2>2
<1> QED
  BY <1>5, <1>6 DEF c

LEMMA MeetsNone == \A X : ~Meets(<<>>, X) /\ MeetsOnce(<<>>, X)
BY DEF Meets, MeetsOnce

(* A sequence, place by place. *)
LEMMA PrefixIs ==
  ASSUME NEW S, NEW s \in Seq(S)
  PROVE  /\ Len(s) \in Nat /\ SubSeq(s, 1, 0) = <<>> /\ SubSeq(s, 1, Len(s)) = s
         /\ \A n \in 0 .. Len(s) : SubSeq(s, 1, n) \in Seq(S)
         /\ \A n \in 1 .. Len(s) : /\ s[n] \in S /\ n - 1 \in 0 .. Len(s)
                                   /\ SubSeq(s, 1, n) = Append(SubSeq(s, 1, n - 1), s[n])
<1>1. Len(s) \in Nat /\ SubSeq(s, 1, 0) = <<>> /\ SubSeq(s, 1, Len(s)) = s
  OBVIOUS
<1>2. \A n \in 0 .. Len(s) : SubSeq(s, 1, n) \in Seq(S)
  BY <1>1
<1>3. ASSUME NEW n \in 1 .. Len(s)
      PROVE  /\ s[n] \in S /\ n - 1 \in 0 .. Len(s)
             /\ SubSeq(s, 1, n) = Append(SubSeq(s, 1, n - 1), s[n])
  <2> DEFINE a == SubSeq(s, 1, n)
             b == Append(SubSeq(s, 1, n - 1), s[n])
  <2>1. s[n] \in S /\ n - 1 \in 0 .. Len(s) /\ n \in 0 .. Len(s)
    BY <1>1
  <2>2. a \in Seq(S) /\ Len(a) = n /\ \A i \in 1 .. n : a[i] = s[i]
    BY <1>1, <2>1
  <2>3. b \in Seq(S) /\ Len(b) = n /\ \A i \in 1 .. n : b[i] = s[i]
    <3> DEFINE q == SubSeq(s, 1, n - 1)
    <3>1. q \in Seq(S) /\ Len(q) = n - 1 /\ \A i \in 1 .. n - 1 : q[i] = s[i]
      BY <1>1, <2>1
    <3> HIDE DEF q
    <3>2. Append(q, s[n]) \in Seq(S) /\ Len(Append(q, s[n])) = n
          /\ \A i \in 1 .. n : Append(q, s[n])[i] = s[i]
      BY <2>1, <3>1
    <3> QED
      BY <3>2 DEF q
  <2> HIDE DEF a, b
  <2>4. a = b
    BY <2>2, <2>3, SeqEqual
  <2> QED
    BY <2>1, <2>4 DEF a, b
<1> QED
  BY <1>1, <1>2, <1>3

(* A piece that is in a text once is in what it is split into once.        *)
SplitOnce(s, p) ==
  LET r == Split(s)
  IN  /\ MeetsOnce(s, {p})
      /\ MeetsOnce(r.left, {p}) /\ MeetsOnce(r.lines, Holding(p))
      /\ ~(Meets(r.left, {p}) /\ Meets(r.lines, Holding(p)))
      /\ Meets(r.left, {p}) \/ Meets(r.lines, Holding(p)) => Meets(s, {p})

LEMMA SplitOnceMore ==
  ASSUME NEW s \in Seq(Pieces), NEW e \in Pieces, NEW p,
         SplitOnce(s, p), ~(Meets(s, {p}) /\ e = p)
  PROVE  SplitOnce(Append(s, e), p)
<1> DEFINE r == Split(s)
           t == Append(s, e)
           n == Split(t)
           line == Append(r.left, e)
<1>1. r \in Reads /\ n = ReadOn(r, e)
  BY SplitIs
<1>2. /\ MeetsOnce(s, {p}) /\ MeetsOnce(r.left, {p}) /\ MeetsOnce(r.lines, Holding(p))
      /\ ~(Meets(r.left, {p}) /\ Meets(r.lines, Holding(p)))
      /\ Meets(r.left, {p}) \/ Meets(r.lines, Holding(p)) => Meets(s, {p})
  BY DEF SplitOnce
<1>3. /\ Meets(t, {p}) <=> Meets(s, {p}) \/ e = p
      /\ MeetsOnce(t, {p})
  BY <1>2, MeetsMore
<1> HIDE DEF r, t
<1>4. r.left \in Seq(Pieces) /\ r.lines \in Seq(Seq(Pieces)) /\ line \in Seq(Pieces)
  BY <1>1 DEF Reads
<1>5. /\ Meets(line, {p}) <=> Meets(r.left, {p}) \/ e = p
      /\ MeetsOnce(line, {p})
  BY <1>2, <1>4, MeetsMore
<1> HIDE DEF line
<1>6. CASE Ends(e)
  <2>1. n = [lines |-> Append(r.lines, line), left |-> <<>>]
    BY <1>1, <1>6 DEF ReadOn, line
  <2>2. n.lines = Append(r.lines, line) /\ n.left = <<>>
    BY <2>1
  <2>3. line \in Holding(p) <=> Meets(line, {p})
    BY <1>4 DEF Holding
  <2>4. /\ Meets(n.lines, Holding(p)) <=> Meets(r.lines, Holding(p)) \/ Meets(line, {p})
        /\ MeetsOnce(n.lines, Holding(p))
    <3>1. ~(Meets(r.lines, Holding(p)) /\ line \in Holding(p))
      BY <1>2, <1>5, <2>3
    <3> HIDE DEF n
    <3> QED
      BY <1>2, <1>4, <2>2, <2>3, <3>1, MeetsMore
  <2>5. ~Meets(n.left, {p}) /\ MeetsOnce(n.left, {p})
    BY <2>2, MeetsNone, Zenon
  <2> HIDE DEF n
  <2>6. /\ MeetsOnce(t, {p})
        /\ MeetsOnce(n.left, {p}) /\ MeetsOnce(n.lines, Holding(p))
        /\ ~(Meets(n.left, {p}) /\ Meets(n.lines, Holding(p)))
        /\ Meets(n.left, {p}) \/ Meets(n.lines, Holding(p)) => Meets(t, {p})
    BY <1>2, <1>3, <1>5, <2>4, <2>5
  <2> QED
    BY <2>6, Zenon DEF SplitOnce, n, t
<1>7. CASE ~Ends(e)
  <2>1. n = [r EXCEPT !.left = line]
    BY <1>1, <1>7 DEF ReadOn, line
  <2>2. n.lines = r.lines /\ n.left = line
    BY <1>1, <2>1 DEF Reads
  <2> HIDE DEF n
  <2>3. /\ MeetsOnce(t, {p})
        /\ MeetsOnce(n.left, {p}) /\ MeetsOnce(n.lines, Holding(p))
        /\ ~(Meets(n.left, {p}) /\ Meets(n.lines, Holding(p)))
        /\ Meets(n.left, {p}) \/ Meets(n.lines, Holding(p)) => Meets(t, {p})
    BY <1>2, <1>3, <1>5, <2>2
  <2> QED
    BY <2>3, Zenon DEF SplitOnce, n, t
<1> QED
  BY <1>6, <1>7 DEF t

LEMMA SplitsOnce ==
  ASSUME NEW s \in Seq(Pieces), NEW p, MeetsOnce(s, {p})
  PROVE  SplitOnce(s, p)
<1> DEFINE At(n) == SubSeq(s, 1, n)
           Reached == {n \in 0 .. Len(s) : SplitOnce(At(n), p)}
<1>1. /\ Len(s) \in Nat /\ At(0) = <<>> /\ At(Len(s)) = s
      /\ \A n \in 0 .. Len(s) : At(n) \in Seq(Pieces)
      /\ \A n \in 1 .. Len(s) : /\ s[n] \in Pieces /\ n - 1 \in 0 .. Len(s)
                                /\ At(n) = Append(At(n - 1), s[n])
  BY PrefixIs
<1>2. \A n \in 1 .. Len(s) : Meets(At(n - 1), {p}) => s[n] # p
  <2> SUFFICES ASSUME NEW n \in 1 .. Len(s), Meets(At(n - 1), {p}), s[n] = p PROVE FALSE
    OBVIOUS
  <2>1. PICK i \in DOMAIN At(n - 1) : At(n - 1)[i] = p
    BY DEF Meets
  <2>2. i \in 1 .. n - 1 /\ s[i] = p /\ i \in DOMAIN s /\ n \in DOMAIN s
    BY <2>1
  <2> QED
    BY <2>2 DEF MeetsOnce
<1> HIDE DEF At
<1>3. 0 \in Reached
  <2>1. Split(<<>>).left = <<>> /\ Split(<<>>).lines = <<>>
    BY SplitIs DEF NothingRead
  <2>2. SplitOnce(<<>>, p)
    BY <2>1, MeetsNone, Zenon DEF SplitOnce
  <2> QED
    BY <1>1, <2>2
<1>4. ASSUME NEW n \in 1 .. Len(s), n - 1 \in Reached PROVE n \in Reached
  <2>1. SplitOnce(At(n - 1), p) /\ ~(Meets(At(n - 1), {p}) /\ s[n] = p)
    BY <1>2, <1>4
  <2>2. At(n - 1) \in Seq(Pieces) /\ s[n] \in Pieces
    BY <1>1
  <2>3. SplitOnce(Append(At(n - 1), s[n]), p)
    BY <2>1, <2>2, SplitOnceMore
  <2>4. At(n) = Append(At(n - 1), s[n]) /\ n \in 0 .. Len(s)
    BY <1>1
  <2>5. SplitOnce(At(n), p)
    BY <2>3, <2>4, Zenon
  <2> QED
    BY <2>4, <2>5, Zenon
<1>5. Reached = 0 .. Len(s)
  <2> HIDE DEF Reached
  <2>1. Reached \in SUBSET (0 .. Len(s))
    BY DEF Reached
  <2> QED
    BY <1>1, <1>3, <1>4, <2>1, CountingUp
<1>6. SplitOnce(At(Len(s)), p)
  BY <1>1, <1>5
<1> QED
  BY <1>1, <1>6

(* What is kept of the lines: every one with a header, and nothing twice.  *)
KeptOf(ls) ==
  /\ \A line \in Seq(Pieces) : Meets(ls, {line}) /\ Parses(line) => Meets(External(ls), {line})
  /\ \A k \in DOMAIN External(ls) : /\ Parses(External(ls)[k]) /\ External(ls)[k] \in Seq(Pieces)
                                    /\ Meets(ls, {External(ls)[k]})
  /\ \A X : /\ Meets(External(ls), X) => Meets(ls, X)
            /\ MeetsOnce(ls, X) => MeetsOnce(External(ls), X)

LEMMA KeptOfMore ==
  ASSUME NEW ls \in Seq(Seq(Pieces)), NEW e \in Seq(Pieces), KeptOf(ls)
  PROVE  KeptOf(Append(ls, e))
<1> DEFINE E == External(ls)
           t == Append(ls, e)
           F == External(t)
<1>1. E \in Seq(Seq(Pieces)) /\ F = IF Parses(e) THEN Append(E, e) ELSE E
  BY ExternalIs
<1>2. \A X : /\ Meets(t, X) <=> Meets(ls, X) \/ e \in X
             /\ MeetsOnce(t, X) => MeetsOnce(ls, X) /\ ~(Meets(ls, X) /\ e \in X)
  <2>1. \A X : Meets(t, X) <=> Meets(ls, X) \/ e \in X
    BY MeetsMore
  <2>2. /\ Len(ls) \in Nat /\ DOMAIN ls = 1 .. Len(ls) /\ DOMAIN t = 1 .. Len(ls) + 1
        /\ t[Len(ls) + 1] = e /\ \A i \in 1 .. Len(ls) : t[i] = ls[i]
    OBVIOUS
  <2> HIDE DEF t
  <2>3. \A i \in DOMAIN ls : i \in DOMAIN t /\ t[i] = ls[i] /\ i # Len(ls) + 1
    BY <2>2
  <2>4. Len(ls) + 1 \in DOMAIN t
    BY <2>2
  <2>5. \A X : MeetsOnce(t, X) => MeetsOnce(ls, X) /\ ~(Meets(ls, X) /\ e \in X)
    BY <2>2, <2>3, <2>4, Zenon DEF Meets, MeetsOnce
  <2> QED
    BY <2>1, <2>5
<1>3. /\ \A line \in Seq(Pieces) : Meets(ls, {line}) /\ Parses(line) => Meets(E, {line})
      /\ \A k \in DOMAIN E : Parses(E[k]) /\ E[k] \in Seq(Pieces) /\ Meets(ls, {E[k]})
      /\ \A X : /\ Meets(E, X) => Meets(ls, X)
                /\ MeetsOnce(ls, X) => MeetsOnce(E, X)
  BY DEF KeptOf
<1> HIDE DEF E, t
<1>4. CASE Parses(e)
  <2>1. F = Append(E, e)
    BY <1>1, <1>4
  <2>2. \A X : /\ Meets(F, X) <=> Meets(E, X) \/ e \in X
               /\ MeetsOnce(E, X) /\ ~(Meets(E, X) /\ e \in X) => MeetsOnce(F, X)
    BY <1>1, <2>1, MeetsMore
  <2>3. \A k \in DOMAIN F : F[k] = e \/ (k \in DOMAIN E /\ F[k] = E[k])
    BY <1>1, <2>1
  <2> HIDE DEF F
  <2>4. \A line \in Seq(Pieces) : Meets(t, {line}) /\ Parses(line) => Meets(F, {line})
    <3> SUFFICES ASSUME NEW line \in Seq(Pieces), Meets(t, {line}), Parses(line)
                 PROVE  Meets(F, {line})
      OBVIOUS
    <3>1. Meets(ls, {line}) \/ e \in {line}
      BY <1>2
    <3> QED
      BY <1>3, <2>2, <3>1
  <2>5. \A k \in DOMAIN F : Parses(F[k]) /\ F[k] \in Seq(Pieces) /\ Meets(t, {F[k]})
    <3> SUFFICES ASSUME NEW k \in DOMAIN F
                 PROVE  Parses(F[k]) /\ F[k] \in Seq(Pieces) /\ Meets(t, {F[k]})
      OBVIOUS
    <3>1. CASE F[k] = e
      BY <1>2, <1>4, <3>1
    <3>2. CASE k \in DOMAIN E /\ F[k] = E[k]
      BY <1>2, <1>3, <3>2
    <3> QED
      BY <2>3, <3>1, <3>2
  <2>6. \A X : /\ Meets(F, X) => Meets(t, X)
               /\ MeetsOnce(t, X) => MeetsOnce(F, X)
    BY <1>2, <1>3, <2>2
  <2> QED
    BY <2>4, <2>5, <2>6 DEF KeptOf, t, F
<1>5. CASE ~Parses(e)
  <2>1. F = E
    BY <1>1, <1>5
  <2> HIDE DEF F
  <2>2. \A line \in Seq(Pieces) : Meets(t, {line}) /\ Parses(line) => Meets(F, {line})
    <3> SUFFICES ASSUME NEW line \in Seq(Pieces), Meets(t, {line}), Parses(line)
                 PROVE  Meets(F, {line})
      OBVIOUS
    <3>1. Meets(ls, {line})
      BY <1>2, <1>5
    <3> QED
      BY <1>3, <2>1, <3>1
  <2>3. \A k \in DOMAIN F : Parses(F[k]) /\ F[k] \in Seq(Pieces) /\ Meets(t, {F[k]})
    BY <1>2, <1>3, <2>1
  <2>4. \A X : /\ Meets(F, X) => Meets(t, X)
               /\ MeetsOnce(t, X) => MeetsOnce(F, X)
    BY <1>2, <1>3, <2>1
  <2> QED
    BY <2>2, <2>3, <2>4 DEF KeptOf, t, F
<1> QED
  BY <1>4, <1>5 DEF t

LEMMA KeptOfAll ==
  ASSUME NEW ls \in Seq(Seq(Pieces))
  PROVE  KeptOf(ls)
<1> DEFINE At(n) == SubSeq(ls, 1, n)
           Reached == {n \in 0 .. Len(ls) : KeptOf(At(n))}
<1>1. /\ Len(ls) \in Nat /\ At(0) = <<>> /\ At(Len(ls)) = ls
      /\ \A n \in 0 .. Len(ls) : At(n) \in Seq(Seq(Pieces))
      /\ \A n \in 1 .. Len(ls) : /\ ls[n] \in Seq(Pieces) /\ n - 1 \in 0 .. Len(ls)
                                 /\ At(n) = Append(At(n - 1), ls[n])
  BY PrefixIs
<1> HIDE DEF At
<1>2. 0 \in Reached
  <2>1. External(<<>>) = <<>> /\ DOMAIN <<>> = {}
    BY ExternalIs
  <2>2. KeptOf(<<>>)
    BY <2>1, MeetsNone, Zenon DEF KeptOf
  <2> QED
    BY <1>1, <2>2
<1>3. ASSUME NEW n \in 1 .. Len(ls), n - 1 \in Reached PROVE n \in Reached
  <2>1. KeptOf(Append(At(n - 1), ls[n]))
    BY <1>1, <1>3, KeptOfMore
  <2>2. At(n) = Append(At(n - 1), ls[n]) /\ n \in 0 .. Len(ls)
    BY <1>1
  <2>3. KeptOf(At(n))
    BY <2>1, <2>2, Zenon
  <2> QED
    BY <2>2, <2>3, Zenon
<1>4. Reached = 0 .. Len(ls)
  <2> HIDE DEF Reached
  <2>1. Reached \in SUBSET (0 .. Len(ls))
    BY DEF Reached
  <2> QED
    BY <1>1, <1>2, <1>3, <2>1, CountingUp
<1>5. KeptOf(At(Len(ls)))
  BY <1>1, <1>4
<1> QED
  BY <1>1, <1>5

-----------------------------------------------------------------------------
(* The relay abreast of the file.                                          *)

Plain(s) == \A i \in DOMAIN s : ~Ends(s[i])

LEMMA LeftIsPlain ==
  ASSUME NEW s \in Seq(Pieces)
  PROVE  Plain(Split(s).left) /\ (Plain(s) => Split(s).left = s)
<1> DEFINE At(n) == SubSeq(s, 1, n)
           Fine(t) == Plain(Split(t).left) /\ (Plain(t) => Split(t).left = t)
           Reached == {n \in 0 .. Len(s) : Fine(At(n))}
<1>1. /\ Len(s) \in Nat /\ At(0) = <<>> /\ At(Len(s)) = s
      /\ \A n \in 0 .. Len(s) : At(n) \in Seq(Pieces)
      /\ \A n \in 1 .. Len(s) : /\ s[n] \in Pieces /\ n - 1 \in 0 .. Len(s)
                                /\ At(n) = Append(At(n - 1), s[n])
  BY PrefixIs
<1>2. ASSUME NEW t \in Seq(Pieces), NEW e \in Pieces, Fine(t) PROVE Fine(Append(t, e))
  <2> DEFINE r == Split(t)
             u == Append(t, e)
  <2>1. r \in Reads /\ Split(u) = ReadOn(r, e)
    BY SplitIs
  <2>2. /\ DOMAIN t = 1 .. Len(t) /\ DOMAIN u = 1 .. Len(t) + 1 /\ Len(t) \in Nat
        /\ u[Len(t) + 1] = e /\ \A i \in 1 .. Len(t) : u[i] = t[i]
    OBVIOUS
  <2>3. Plain(u) => Plain(t) /\ ~Ends(e)
    BY <2>2 DEF Plain
  <2> HIDE DEF r
  <2>4. r.left \in Seq(Pieces)
    BY <2>1 DEF Reads
  <2>5. CASE Ends(e)
    <3>1. Split(u).left = <<>>
      BY <2>1, <2>5 DEF ReadOn
    <3>2. Plain(Split(u).left)
      BY <3>1 DEF Plain
    <3> QED
      BY <2>3, <2>5, <3>2
  <2>6. CASE ~Ends(e)
    <3>1. Split(u).left = Append(r.left, e)
      BY <2>1, <2>6 DEF ReadOn, Reads
    <3>2. Plain(r.left) /\ (Plain(t) => r.left = t)
      BY <1>2 DEF r
    <3>3. Plain(Append(r.left, e))
      BY <2>4, <2>6, <3>2 DEF Plain
    <3>4. Plain(u) => Split(u).left = u
      BY <2>3, <3>1, <3>2
    <3> QED
      BY <3>1, <3>3, <3>4
  <2> QED
    BY <2>5, <2>6
<1>3. Fine(<<>>)
  <2>1. Split(<<>>).left = <<>>
    BY SplitIs DEF NothingRead
  <2>2. Plain(<<>>)
    BY DEF Plain
  <2> QED
    BY <2>1, <2>2
<1> HIDE DEF At, Fine
<1>4. 0 \in Reached
  BY <1>1, <1>3
<1>5. ASSUME NEW n \in 1 .. Len(s), n - 1 \in Reached PROVE n \in Reached
  <2>1. Fine(At(n - 1)) /\ At(n - 1) \in Seq(Pieces) /\ s[n] \in Pieces
    BY <1>1, <1>5
  <2>2. Fine(Append(At(n - 1), s[n]))
    BY <1>2, <2>1
  <2>3. At(n) = Append(At(n - 1), s[n]) /\ n \in 0 .. Len(s)
    BY <1>1
  <2>4. Fine(At(n))
    BY <2>2, <2>3, Zenon
  <2> QED
    BY <2>3, <2>4, Zenon
<1>6. Reached = 0 .. Len(s)
  <2> HIDE DEF Reached
  <2>1. Reached \in SUBSET (0 .. Len(s))
    BY DEF Reached
  <2> QED
    BY <1>1, <1>4, <1>5, <2>1, CountingUp
<1>7. Fine(At(Len(s)))
  BY <1>1, <1>6
<1>8. Fine(s)
  BY <1>1, <1>7
<1> QED
  BY <1>8 DEF Fine

LEMMA FirstStays ==
  ASSUME NEW S, NEW s \in Seq(S), NEW e \in S
  PROVE  Append(s, e) # <<>> /\ (s # <<>> => Append(s, e)[1] = s[1])
<1>1. Len(Append(s, e)) = Len(s) + 1 /\ Len(s) \in Nat /\ Len(<<>>) = 0
      /\ \A i \in 1 .. Len(s) : Append(s, e)[i] = s[i]
  OBVIOUS
<1>2. s # <<>> => 1 \in 1 .. Len(s)
  OBVIOUS
<1>3. Append(s, e) # <<>>
  BY <1>1
<1> QED
  BY <1>1, <1>2, <1>3

LeftOff(left, rest, given) == rest = left \/ (left # <<>> /\ left[1].line \in given)

(* Of a text that has been read this much is certain: what is pending is   *)
(* its end, unless that was given up, and its lines were shown or given up. *)
WellRead(text, rest, had, given) ==
  /\ LeftOff(Split(text).left, rest, given)
  /\ \A line \in Seq(Pieces) : Meets(Split(text).lines, {line}) /\ Parses(line) =>
       Meets(had, {line}) \/ line[1].line \in given

Abreast(s, t, had, given) ==
  /\ LeftOff(Split(s).left, Split(t).left, given)
  /\ \A line \in Seq(Pieces) : Meets(Split(s).lines, {line}) /\ Parses(line) =>
       Meets(had, {line}) \/ Meets(Split(t).lines, {line}) \/ line[1].line \in given

LEMMA AbreastOneMore ==
  ASSUME NEW s \in Seq(Pieces), NEW t \in Seq(Pieces), NEW e \in Pieces, NEW had, NEW given,
         Abreast(s, t, had, given)
  PROVE  Abreast(Append(s, e), Append(t, e), had, given)
<1> DEFINE r == Split(s)
           q == Split(t)
           rr == Split(Append(s, e))
           qq == Split(Append(t, e))
           a == Append(r.left, e)
           b == Append(q.left, e)
<1>1. r \in Reads /\ q \in Reads /\ rr = ReadOn(r, e) /\ qq = ReadOn(q, e)
  BY SplitIs
<1>2. /\ LeftOff(r.left, q.left, given)
      /\ \A line \in Seq(Pieces) : Meets(r.lines, {line}) /\ Parses(line) =>
           Meets(had, {line}) \/ Meets(q.lines, {line}) \/ line[1].line \in given
  BY DEF Abreast
<1> SUFFICES /\ LeftOff(rr.left, qq.left, given)
             /\ \A line \in Seq(Pieces) : Meets(rr.lines, {line}) /\ Parses(line) =>
                  Meets(had, {line}) \/ Meets(qq.lines, {line}) \/ line[1].line \in given
  BY DEF Abreast
<1> HIDE DEF r, q, rr, qq
<1>3. r.left \in Seq(Pieces) /\ q.left \in Seq(Pieces) /\ r.lines \in Seq(Seq(Pieces))
      /\ q.lines \in Seq(Seq(Pieces)) /\ a \in Seq(Pieces) /\ b \in Seq(Pieces)
  BY <1>1 DEF Reads
<1>4. a # <<>> /\ (r.left # <<>> => a[1] = r.left[1])
  BY <1>3, FirstStays
<1>5. a = b \/ a[1].line \in given
  <2>1. CASE q.left = r.left
    BY <2>1
  <2>2. CASE r.left # <<>> /\ r.left[1].line \in given
    BY <1>4, <2>2
  <2> QED
    BY <1>2, <2>1, <2>2 DEF LeftOff
<1> HIDE DEF a, b
<1>6. CASE Ends(e)
  <2>1. rr.lines = Append(r.lines, a) /\ rr.left = <<>> /\ qq.lines = Append(q.lines, b) /\ qq.left = <<>>
    BY <1>1, <1>6 DEF ReadOn, a, b
  <2>2. \A X : /\ Meets(rr.lines, X) <=> Meets(r.lines, X) \/ a \in X
               /\ Meets(qq.lines, X) <=> Meets(q.lines, X) \/ b \in X
    BY <1>3, <2>1, MeetsMore
  <2>3. LeftOff(rr.left, qq.left, given)
    BY <2>1 DEF LeftOff
  <2>4. ASSUME NEW line \in Seq(Pieces), Meets(rr.lines, {line}), Parses(line)
        PROVE  Meets(had, {line}) \/ Meets(qq.lines, {line}) \/ line[1].line \in given
    <3>1. Meets(r.lines, {line}) \/ a = line
      BY <2>2, <2>4
    <3>2. Meets(q.lines, {line}) \/ b = line => Meets(qq.lines, {line})
      BY <2>2
    <3> QED
      BY <1>2, <1>5, <2>4, <3>1, <3>2
  <2> QED
    BY <2>3, <2>4
<1>7. CASE ~Ends(e)
  <2>1. rr = [r EXCEPT !.left = a] /\ qq = [q EXCEPT !.left = b]
    BY <1>1, <1>7 DEF ReadOn, a, b
  <2>2. rr.lines = r.lines /\ rr.left = a /\ qq.lines = q.lines /\ qq.left = b
    BY <1>1, <2>1 DEF Reads
  <2>3. LeftOff(rr.left, qq.left, given)
    BY <1>4, <1>5, <2>2 DEF LeftOff
  <2> QED
    BY <1>2, <2>2, <2>3
<1> QED
  BY <1>6, <1>7

LEMMA ChunkIs ==
  ASSUME NEW s \in Seq(Pieces), NEW p \in Seq(Pieces), NEW o \in Nat, NEW n \in Nat,
         o + n + 1 <= Len(s)
  PROVE  /\ SubSeq(s, o + 1, o + n) \in Seq(Pieces) /\ s[o + n + 1] \in Pieces
         /\ p \o SubSeq(s, o + 1, o + n) \in Seq(Pieces)
         /\ p \o SubSeq(s, o + 1, o + n + 1)
              = Append(p \o SubSeq(s, o + 1, o + n), s[o + n + 1])
<1> DEFINE x == SubSeq(s, o + 1, o + n)
           y == SubSeq(s, o + 1, o + n + 1)
           m == o + n + 1
           a == p \o y
           b == Append(p \o x, s[m])
<1>1. Len(s) \in Nat /\ m \in 1 .. Len(s) /\ s[m] \in Pieces
  OBVIOUS
<1>2. x \in Seq(Pieces) /\ Len(x) = n /\ \A i \in 1 .. n : x[i] = s[o + i]
  BY <1>1, SMTT(60)
<1>3. y \in Seq(Pieces) /\ Len(y) = n + 1 /\ \A i \in 1 .. n + 1 : y[i] = s[o + i]
  BY <1>1
<1> HIDE DEF x, y
<1>4. /\ p \o x \in Seq(Pieces) /\ Len(p \o x) = Len(p) + n
      /\ \A i \in 1 .. Len(p) + n : (p \o x)[i] = IF i <= Len(p) THEN p[i] ELSE x[i - Len(p)]
  BY <1>2, ConcatProperties
<1>5. /\ a \in Seq(Pieces) /\ Len(a) = Len(p) + (n + 1)
      /\ \A i \in 1 .. Len(p) + (n + 1) : a[i] = IF i <= Len(p) THEN p[i] ELSE y[i - Len(p)]
  <2>1. /\ a \in Seq(Pieces) /\ Len(a) = Len(p) + Len(y)
        /\ \A i \in 1 .. Len(p) + Len(y) : a[i] = IF i <= Len(p) THEN p[i] ELSE y[i - Len(p)]
    <3>1. y \in Seq(Pieces)
      BY <1>3
    <3> QED
      BY <3>1, ConcatProperties
  <2> HIDE DEF a
  <2> QED
    BY <1>3, <2>1
<1> DEFINE px == p \o x
<1>6. px \in Seq(Pieces) /\ Len(px) = Len(p) + n
      /\ \A i \in 1 .. Len(p) + n : px[i] = IF i <= Len(p) THEN p[i] ELSE x[i - Len(p)]
  BY <1>4
<1> HIDE DEF px, m
<1>7. b = Append(px, s[m])
  BY DEF px
<1>8. /\ b \in Seq(Pieces) /\ Len(b) = Len(p) + n + 1 /\ b[Len(p) + n + 1] = s[m]
      /\ \A i \in 1 .. Len(p) + n : b[i] = px[i]
  BY <1>1, <1>6, <1>7
<1> HIDE DEF a, b
<1>9. \A i \in 1 .. Len(a) : a[i] = b[i]
  <2> SUFFICES ASSUME NEW i \in 1 .. Len(a) PROVE a[i] = b[i]
    OBVIOUS
  <2>0. Len(p) \in Nat /\ i \in 1 .. Len(p) + n + 1
    BY <1>5
  <2>1. CASE i = Len(p) + n + 1
    <3>1. i - Len(p) = n + 1 /\ ~(i <= Len(p)) /\ o + (n + 1) = m /\ n + 1 \in 1 .. n + 1
      BY <2>0, <2>1 DEF m
    <3>2. a[i] = y[n + 1] /\ y[n + 1] = s[m]
      BY <1>3, <1>5, <2>0, <3>1
    <3> QED
      BY <1>8, <2>1, <3>2
  <2>2. CASE i # Len(p) + n + 1
    <3>1. i \in 1 .. Len(p) + n /\ b[i] = px[i]
      BY <1>8, <2>0, <2>2
    <3>2. CASE i <= Len(p)
      BY <1>5, <1>6, <2>0, <3>1, <3>2
    <3>3. CASE ~(i <= Len(p))
      <4>1. i - Len(p) \in 1 .. n /\ i - Len(p) \in 1 .. n + 1
        BY <2>0, <3>1, <3>3
      <4>2. a[i] = y[i - Len(p)] /\ px[i] = x[i - Len(p)]
        BY <1>5, <1>6, <2>0, <3>1, <3>3
      <4> QED
        BY <1>2, <1>3, <3>1, <4>1, <4>2
    <3> QED
      BY <3>2, <3>3
  <2> QED
    BY <2>1, <2>2
<1>10. a = b
  <2>1. Len(a) = Len(b)
    BY <1>5, <1>8
  <2> QED
    BY <1>5, <1>8, <1>9, <2>1, SeqEqual
<1> QED
  BY <1>1, <1>2, <1>4, <1>10 DEF a, b, x, y, m

LEMMA ReadsWell ==
  ASSUME NEW s \in Seq(Pieces), NEW p \in Seq(Pieces), NEW o \in Nat, NEW more \in Nat,
         o + more <= Len(s), Plain(p), NEW had, NEW given,
         WellRead(SubSeq(s, 1, o), p, had, given)
  PROVE  Abreast(SubSeq(s, 1, o + more), p \o SubSeq(s, o + 1, o + more), had, given)
<1> DEFINE Gone(k) == SubSeq(s, 1, o + k)
           Now(k) == p \o SubSeq(s, o + 1, o + k)
           Reached == {k \in 0 .. more : Abreast(Gone(k), Now(k), had, given)}
<1>0. Len(s) \in Nat
  OBVIOUS
<1>1. 0 \in Reached
  <2>1. SubSeq(s, o + 1, o + 0) = <<>> /\ p \o <<>> = p /\ o + 0 = o
    OBVIOUS
  <2>2. Now(0) = p /\ Gone(0) = SubSeq(s, 1, o)
    BY <2>1
  <2>3. Split(p).left = p
    BY LeftIsPlain
  <2>4. Abreast(SubSeq(s, 1, o), p, had, given)
    BY <2>3 DEF Abreast, WellRead
  <2>5. 0 \in 0 .. more
    OBVIOUS
  <2> HIDE DEF Now, Gone
  <2> QED
    BY <2>2, <2>4, <2>5, Zenon
<1>2. ASSUME NEW k \in 1 .. more, k - 1 \in Reached PROVE k \in Reached
  <2> DEFINE j == k - 1
  <2>1. j \in Nat /\ o + j + 1 <= Len(s) /\ o + k \in 1 .. Len(s) /\ o + j + 1 = o + k
    BY <1>0
  <2> HIDE DEF j
  <2>2. s[o + k] \in Pieces /\ Now(j) \in Seq(Pieces) /\ Now(k) = Append(Now(j), s[o + k])
    <3>1. /\ s[o + j + 1] \in Pieces
          /\ p \o SubSeq(s, o + 1, o + j) \in Seq(Pieces)
          /\ p \o SubSeq(s, o + 1, o + j + 1)
               = Append(p \o SubSeq(s, o + 1, o + j), s[o + j + 1])
      BY <2>1, ChunkIs
    <3> QED
      BY <2>1, <3>1
  <2>3. Gone(j) \in Seq(Pieces) /\ Gone(k) = Append(Gone(j), s[o + k])
    <3>1. o + k - 1 = o + j /\ o + j \in 0 .. Len(s)
      BY <1>0, <2>1
    <3>2. SubSeq(s, 1, o + k) = Append(SubSeq(s, 1, o + k - 1), s[o + k])
          /\ SubSeq(s, 1, o + j) \in Seq(Pieces)
      BY <2>1, <3>1, PrefixIs
    <3> QED
      BY <3>1, <3>2
  <2> HIDE DEF Gone, Now
  <2>4. Abreast(Gone(j), Now(j), had, given)
    BY <1>2 DEF j
  <2>5. Abreast(Append(Gone(j), s[o + k]), Append(Now(j), s[o + k]), had, given)
    BY <2>2, <2>3, <2>4, AbreastOneMore
  <2>6. Abreast(Gone(k), Now(k), had, given)
    BY <2>2, <2>3, <2>5
  <2>7. k \in 0 .. more
    OBVIOUS
  <2> QED
    BY <2>6, <2>7
<1>3. Reached = 0 .. more
  <2>1. Reached \in SUBSET (0 .. more)
    OBVIOUS
  <2> HIDE DEF Reached
  <2>2. \A k \in 1 .. more : k - 1 \in Reached => k \in Reached
    BY <1>2
  <2> QED
    BY <1>1, <2>1, <2>2, CountingUp, Zenon
<1>4. more \in 0 .. more
  OBVIOUS
<1>5. Abreast(Gone(more), Now(more), had, given)
  <2> HIDE DEF Gone, Now
  <2> QED
    BY <1>3, <1>4, Zenon
<1> QED
  BY <1>5

-----------------------------------------------------------------------------
(* The relay through a session.                                            *)

Relayed == display \o queued
Taken   == terminal.logging /\ WritingAllowed /\ (task = <<>> \/ Head(task) # "history")
Starting == task # <<>> /\ Head(task) \in {"history", "show"} => terminal.logging

RelayStages ==
  /\ Starting
  /\ ~Taken => relay = NoRelay /\ display = <<>> /\ queued = <<>>
  /\ relay.at # "none" => queued = <<>>
  /\ relay.offset = 0 => relay.pending = <<>>
  /\ Plain(relay.pending)

HeadOnce(h, unwritten) ==
  /\ MeetsOnce(latest, {h}) /\ MeetsOnce(relay.pending, {h}) /\ MeetsOnce(Relayed, Holding(h))
  /\ ~(Meets(relay.pending, {h}) /\ Meets(Relayed, Holding(h)))
  /\ unwritten => /\ ~Meets(latest, {h}) /\ ~Meets(relay.pending, {h})
                  /\ ~Meets(Relayed, Holding(h))
  /\ Meets(relay.pending, {h}) \/ Meets(Relayed, Holding(h)) =>
       \A i \in DOMAIN latest : latest[i] = h => i <= relay.offset /\ relay.offset <= Len(latest)

HeadsOnce == \A l \in Foreign : HeadOnce(Head1(l), written[l] = 0)

Reading ==
  Taken /\ ~stale =>
    /\ relay.offset <= Len(latest)
    /\ WellRead(SubSeq(latest, 1, relay.offset), relay.pending, Relayed, cut)

TheRelay == <<latest, written, relay, display, queued, stale, cut>>

LEMMA TasksLeft ==
  ASSUME NEW t \in Early \cup Late, t # <<>>
  PROVE  /\ Tail(t) = <<>> \/ Head(Tail(t)) # "history"
         /\ Head(t) \notin {"history"} => Tail(t) = <<>> \/ Head(Tail(t)) # "show"
         /\ Head(t) = "activate" => /\ <<"history", "show">> \o Tail(t) # <<>>
                                    /\ Head(<<"history", "show">> \o Tail(t)) = "history"
<1>1. CASE t = <<"activate", "bind", "capture">>
  <2>1. Tail(t) = <<"bind", "capture">> /\ Head(t) = "activate" /\ Head(Tail(t)) = "bind"
    BY <1>1
  <2>2. <<"history", "show">> \o <<"bind", "capture">> = <<"history", "show", "bind", "capture">>
    BY LongTasks
  <2>3. Head(<<"history", "show", "bind", "capture">>) = "history"
        /\ <<"history", "show", "bind", "capture">> # <<>>
    OBVIOUS
  <2> QED
    BY <2>1, <2>2, <2>3
<1>2. CASE t = <<"activate">>
  BY <1>2
<1>3. CASE t # <<"activate">> /\ t # <<"activate", "bind", "capture">>
  BY <1>3 DEF Early, Late
<1> QED
  BY <1>1, <1>2, <1>3

\* Most steps leave the relay and what it reads alone.
LEMMA RelayOrNot ==
  ASSUME SessionTypes, Starting, [SessionNext]_sessionVars
  PROVE  /\ Starting'
         /\ \/ UNCHANGED TheRelay /\ (Taken' <=> Taken)
            \/ TakeHistory /\ WritingAllowed
            \/ ShowHistory \/ Relay \/ InitLogging \/ WriteOwn \/ Restart
            \/ \E l \in Foreign : ForeignWrites(l)
<1> USE DEF boots, files, shown, configs, sessionVars, TheRelay, Taken, Starting, WritingAllowed
<1>0. TaskTypes /\ terminal \in Terminals
  BY DEF SessionTypes, ConsoleTypes
<1>1. ASSUME NEW what, Doing(what)
      PROVE  /\ task # <<>> /\ Head(task) = what /\ task \in Early \cup Late
             /\ Tail(task) = <<>> \/ Head(Tail(task)) # "history"
             /\ Head(task) # "history" => Tail(task) = <<>> \/ Head(Tail(task)) # "show"
             /\ Head(task) = "activate" => /\ <<"history", "show">> \o Tail(task) # <<>>
                                           /\ Head(<<"history", "show">> \o Tail(task)) = "history"
  <2>1. task # <<>> /\ Head(task) = what /\ task \in Early \cup Late
    BY <1>0, <1>1 DEF Doing, TaskTypes
  <2> QED
    BY <2>1, TasksLeft
<1>2. CASE BeginPreload
  <2>1. task = <<>> /\ task' \in {<<"window", "activate">>, <<>>} /\ UNCHANGED <<TheRelay, terminal, version>>
    BY <1>2 DEF BeginPreload, Stage
  <2>2. task' = <<>> \/ Head(task') = "window"
    BY <2>1
  <2> QED
    BY <2>1, <2>2
<1>3. CASE LoadConfig
  BY <1>3 DEF LoadConfig, Stage
<1>4. CASE BringUp
  <2>1. task = <<>> /\ task' \in {Full \o <<"capture">>, <<>> \o <<"capture">>, <<>>}
        /\ UNCHANGED <<TheRelay, terminal, version>>
    BY <1>4 DEF BringUp, Stage
  <2>2. Full \o <<"capture">> = <<"window", "activate", "bind", "capture">>
        /\ <<>> \o <<"capture">> = <<"capture">>
    BY LongTasks
  <2>3. Head(<<"window", "activate", "bind", "capture">>) = "window" /\ Head(<<"capture">>) = "capture"
    OBVIOUS
  <2>4. task' = <<>> \/ Head(task') \in {"window", "capture"}
    BY <2>1, <2>2, <2>3
  <2> QED
    BY <2>1, <2>4
<1>5. CASE OpenWindow
  <2>1. terminal'.logging = terminal.logging
    BY <1>0, <1>5 DEF OpenWindow, Terminals
  <2>2. Doing("window") /\ task' = Tail(task) /\ UNCHANGED <<TheRelay, version>>
    BY <1>5 DEF OpenWindow, Next1
  <2> QED
    BY <1>1, <2>1, <2>2
<1>6. CASE ActivateLogging
  <2>1. Doing("activate") /\ UNCHANGED <<TheRelay, version>>
    BY <1>6 DEF ActivateLogging
  <2>2. CASE task' = Tail(task) /\ terminal' = terminal
    BY <1>1, <2>1, <2>2
  <2>3. CASE ~terminal.logging /\ terminal' = [terminal EXCEPT !.logging = TRUE]
             /\ task' = <<"history", "show">> \o Tail(task)
    <3>1. terminal'.logging
      BY <1>0, <2>3 DEF Terminals
    <3>2. task' # <<>> /\ Head(task') = "history"
      BY <1>1, <2>1, <2>3
    <3> QED
      BY <2>1, <2>3, <3>1, <3>2
  <2> QED
    BY <1>6, <2>2, <2>3 DEF ActivateLogging, Next1
<1>7. CASE BindStdio
  <2>1. terminal'.logging = terminal.logging
    BY <1>0, <1>7 DEF BindStdio, Terminals
  <2>2. Doing("bind") /\ task' = Tail(task) /\ UNCHANGED <<TheRelay, version>>
    BY <1>7 DEF BindStdio, Next1
  <2> QED
    BY <1>1, <2>1, <2>2
<1>8. CASE Capture
  <2>1. Doing("capture") /\ task' = Tail(task) /\ UNCHANGED <<TheRelay, version, terminal>>
    BY <1>8 DEF Capture, Next1
  <2> QED
    BY <1>1, <2>1
<1>9. CASE TakeHistory
  <2>1. Doing("history") /\ task' = Tail(task) /\ UNCHANGED <<version, terminal>>
    BY <1>9 DEF TakeHistory, Next1
  <2>2. Starting'
    BY <1>1, <2>1
  <2>3. CASE ~WritingAllowed
    BY <1>9, <2>1, <2>2, <2>3 DEF TakeHistory
  <2> QED
    BY <1>9, <2>2, <2>3
<1>10. CASE ShowHistory
  <2>1. Doing("show") /\ task' = Tail(task) /\ UNCHANGED <<version, terminal>>
    BY <1>10 DEF ShowHistory, Next1
  <2> QED
    BY <1>1, <1>10, <2>1
<1>11. CASE Reload \/ EditConfig \/ DayPasses
  BY <1>11 DEF Reload, EditConfig, DayPasses
<1>12. CASE Relay
  <2>1. UNCHANGED <<task, terminal>>
    BY <1>12 DEF Relay, RelayLooks, RelayReads, RelaySleeps, RelayStep
  <2> QED
    BY <1>12, <2>1
<1>13. CASE InitLogging \/ WriteOwn \/ \E l \in Foreign : ForeignWrites(l)
  <2>1. UNCHANGED <<task, terminal>>
    BY <1>13 DEF InitLogging, WriteOwn, ForeignWrites
  <2> QED
    BY <1>13, <2>1
<1>14. CASE Restart
  <2>1. task' = <<>>
    BY <1>14 DEF Restart, FreshProcess
  <2> QED
    BY <1>14, <2>1
<1>15. CASE UNCHANGED sessionVars
  BY <1>15
<1> QED
  BY <1>2, <1>3, <1>4, <1>5, <1>6, <1>7, <1>8, <1>9, <1>10, <1>11, <1>12, <1>13, <1>14, <1>15
     DEF SessionNext, Loader, Outside

LEMMA RelayStagesStep ==
  ASSUME SessionTypes, RelayStages, [SessionNext]_sessionVars
  PROVE  RelayStages'
<1> USE DEF boots, files, shown, configs, sessionVars
<1>0. relay \in Relays /\ TaskTypes /\ latest \in Seq(Pieces) /\ Starting /\ Starting'
  BY RelayOrNot DEF SessionTypes, ConsoleTypes, FileTypes, RelayStages
<1>1. CASE UNCHANGED TheRelay /\ (Taken' <=> Taken)
  BY <1>0, <1>1 DEF RelayStages, TheRelay
<1>2. CASE TakeHistory /\ WritingAllowed
  <2>1. Doing("history") /\ task' = Tail(task) /\ UNCHANGED <<version, terminal, display>>
        /\ relay' = [relay EXCEPT !.offset = Len(latest)]
    BY <1>2 DEF TakeHistory, Next1
  <2>2. ~Taken /\ terminal.logging
    BY <1>0, <2>1 DEF Taken, Starting, Doing
  <2>3. relay = NoRelay
    BY <2>2 DEF RelayStages
  <2>4. relay'.at = "none" /\ relay'.pending = <<>>
    BY <2>1, <2>3 DEF NoRelay
  <2>5. Taken'
    <3>1. task # <<>> /\ task \in Early \cup Late
      BY <1>0, <2>1 DEF Doing, TaskTypes
    <3> QED
      BY <1>2, <2>1, <2>2, <3>1, TasksLeft DEF Taken, WritingAllowed
  <2>6. Plain(<<>>)
    BY DEF Plain
  <2> QED
    BY <1>0, <2>4, <2>5, <2>6 DEF RelayStages
<1>3. CASE ShowHistory
  <2>1. /\ Doing("show") /\ task' = Tail(task) /\ UNCHANGED <<version, terminal>>
        /\ queued' = <<>> /\ display' = display \o queued
        /\ relay' = [relay EXCEPT !.at = IF WritingAllowed THEN "look" ELSE "none"]
    BY <1>3 DEF ShowHistory, Next1
  <2>2. task # <<>> /\ task \in Early \cup Late
    BY <1>0, <2>1 DEF Doing, TaskTypes
  <2>3. Taken' <=> Taken
    BY <2>1, <2>2, TasksLeft DEF Taken, WritingAllowed, Doing
  <2>4. relay'.pending = relay.pending /\ relay'.offset = relay.offset
    BY <1>0, <2>1 DEF Relays
  <2>5. ASSUME ~Taken PROVE relay' = NoRelay /\ display' = <<>>
    <3>1. ~WritingAllowed
      BY <1>0, <2>1, <2>5 DEF Taken, Starting, Doing
    <3>2. relay = NoRelay /\ display = <<>> /\ queued = <<>>
      BY <2>5 DEF RelayStages
    <3> QED
      BY <2>1, <3>1, <3>2 DEF NoRelay
  <2> QED
    BY <1>0, <2>1, <2>3, <2>4, <2>5 DEF RelayStages
<1>4. CASE Relay
  <2>1. relay.at # "none" /\ UNCHANGED <<task, version, terminal, queued>>
    BY <1>4 DEF Relay, RelayLooks, RelayReads, RelaySleeps, RelayStep
  <2>2. Taken /\ queued = <<>>
    BY <2>1 DEF RelayStages, NoRelay
  <2>3. Taken'
    BY <2>1, <2>2 DEF Taken, WritingAllowed
  <2>4. Plain(<<>>)
    BY DEF Plain
  <2>5. Plain(relay'.pending) /\ (relay'.offset = 0 => relay'.pending = <<>>)
    <3>1. CASE RelayLooks
      BY <1>0, <2>4, <3>1 DEF RelayLooks, RelayStages, Relays
    <3>2. CASE RelaySleeps
      BY <1>0, <2>4, <3>2 DEF RelaySleeps, RelayStages, Relays
    <3>3. CASE RelayReads
      <4>1. PICK n \in 1 .. Len(latest) - relay.offset :
              relay' = [relay EXCEPT !.offset = @ + n,
                !.pending = Split(relay.pending \o SubSeq(latest, relay.offset + 1, relay.offset + n)).left]
        BY <3>3 DEF RelayReads
      <4> DEFINE text == relay.pending \o SubSeq(latest, relay.offset + 1, relay.offset + n)
      <4>2. text \in Seq(Pieces)
        BY <1>0 DEF Relays
      <4>3. relay' = [relay EXCEPT !.offset = relay.offset + n, !.pending = Split(text).left]
        BY <4>1
      <4> HIDE DEF text
      <4>4. relay'.pending = Split(text).left /\ relay'.offset = relay.offset + n
        BY <1>0, <4>3 DEF Relays
      <4>5. Plain(Split(text).left)
        BY <4>2, LeftIsPlain
      <4>6. relay'.offset # 0
        BY <1>0, <4>1, <4>4 DEF Relays
      <4> QED
        BY <4>4, <4>5, <4>6
    <3> QED
      BY <1>4, <3>1, <3>2, <3>3 DEF Relay
  <2> QED
    BY <1>0, <2>1, <2>2, <2>3, <2>5 DEF RelayStages
<1>5. CASE InitLogging \/ WriteOwn \/ \E l \in Foreign : ForeignWrites(l)
  <2>1. UNCHANGED <<task, version, terminal, relay, display, queued>>
    BY <1>5 DEF InitLogging, WriteOwn, ForeignWrites
  <2> QED
    BY <1>0, <2>1 DEF RelayStages, Taken, WritingAllowed
<1>6. CASE Restart
  <2>1. relay' = NoRelay /\ display' = <<>> /\ queued' = <<>>
    BY <1>6 DEF Restart, FreshProcess
  <2>2. Plain(<<>>)
    BY DEF Plain
  <2> QED
    BY <1>0, <2>1, <2>2 DEF RelayStages, NoRelay
<1> QED
  BY <1>1, <1>2, <1>3, <1>4, <1>5, <1>6, <1>0, RelayOrNot

LEMMA AppendIs ==
  ASSUME NEW S, NEW s \in Seq(S), NEW e \in S
  PROVE  /\ Len(Append(s, e)) = Len(s) + 1 /\ DOMAIN Append(s, e) = 1 .. Len(s) + 1
         /\ Append(s, e)[Len(s) + 1] = e
         /\ \A j \in 1 .. Len(s) : Append(s, e)[j] = s[j]
  OBVIOUS

LEMMA ChunkMeets ==
  ASSUME NEW s \in Seq(Pieces), NEW o \in Nat, NEW n \in Nat, o + n <= Len(s), NEW h
  PROVE  LET chunk == SubSeq(s, o + 1, o + n)
         IN  /\ chunk \in Seq(Pieces)
             /\ Meets(chunk, {h}) => \E i \in DOMAIN s : s[i] = h /\ i > o /\ i <= o + n
             /\ MeetsOnce(s, {h}) => MeetsOnce(chunk, {h})
<1> DEFINE chunk == SubSeq(s, o + 1, o + n)
<1>1. Len(s) \in Nat /\ DOMAIN s = 1 .. Len(s) /\ (n > 0 => o + 1 \in 1 .. Len(s) /\ o + n \in 1 .. Len(s))
  OBVIOUS
<1>2. chunk \in Seq(Pieces) /\ Len(chunk) = n /\ \A i \in 1 .. n : chunk[i] = s[o + i]
  <2> DEFINE m == o + 1
             k == o + n
  <2>1. m \in 1 .. Len(s) + 1 /\ k \in m - 1 .. Len(s)
    BY <1>1
  <2>2. k - m + 1 = n /\ (m <= k => n = k - m + 1) /\ (~(m <= k) => n = 0)
    BY <1>1
  <2>3. \A i \in 1 .. n : m + i - 1 = o + i
    OBVIOUS
  <2> HIDE DEF m, k
  <2>4. /\ SubSeq(s, m, k) \in Seq(Pieces)
        /\ Len(SubSeq(s, m, k)) = IF m <= k THEN k - m + 1 ELSE 0
        /\ \A i \in 1 .. k - m + 1 : SubSeq(s, m, k)[i] = s[m + i - 1]
    BY <2>1, SubSeqProperties
  <2>5. chunk = SubSeq(s, m, k)
    BY DEF m, k
  <2> HIDE DEF chunk
  <2>6. Len(SubSeq(s, m, k)) = n
    BY <2>2, <2>4
  <2>7. \A i \in 1 .. n : SubSeq(s, m, k)[i] = s[o + i]
    BY <2>2, <2>3, <2>4
  <2> QED
    BY <2>4, <2>5, <2>6, <2>7
<1> HIDE DEF chunk
<1>3. DOMAIN chunk = 1 .. n
  BY <1>2
<1>4. \A i \in DOMAIN chunk : o + i \in DOMAIN s /\ o + i > o /\ o + i <= o + n /\ chunk[i] = s[o + i]
  BY <1>1, <1>2, <1>3
<1>5. Meets(chunk, {h}) => \E i \in DOMAIN s : s[i] = h /\ i > o /\ i <= o + n
  BY <1>4 DEF Meets
<1>6. ASSUME MeetsOnce(s, {h}), NEW i \in DOMAIN chunk, NEW j \in DOMAIN chunk,
             chunk[i] = h, chunk[j] = h
      PROVE  i = j
  <2>1. o + i = o + j
    BY <1>4, <1>6 DEF MeetsOnce
  <2> QED
    BY <1>3, <2>1
<1>7. MeetsOnce(s, {h}) => MeetsOnce(chunk, {h})
  BY <1>6 DEF MeetsOnce
<1> QED
  BY <1>2, <1>5, <1>7 DEF chunk

LEMMA ShownOnce ==
  ASSUME NEW text \in Seq(Pieces), NEW h, MeetsOnce(text, {h})
  PROVE  LET r == Split(text)
             all == IF r.left = <<>> THEN r.lines ELSE Append(r.lines, r.left)
         IN  /\ MeetsOnce(r.left, {h}) /\ MeetsOnce(External(r.lines), Holding(h))
             /\ ~(Meets(r.left, {h}) /\ Meets(External(r.lines), Holding(h)))
             /\ Meets(r.left, {h}) \/ Meets(External(r.lines), Holding(h)) => Meets(text, {h})
             /\ MeetsOnce(External(all), Holding(h))
             /\ Meets(External(all), Holding(h)) => Meets(text, {h})
<1> DEFINE r == Split(text)
           more == Append(r.lines, r.left)
<1>1. r.left \in Seq(Pieces) /\ r.lines \in Seq(Seq(Pieces)) /\ more \in Seq(Seq(Pieces))
  <2>1. \A e \in Pieces : r \in Reads
    BY SplitIs
  <2>2. [line |-> <<"own", 0, 0>>, part |-> 0] \in Pieces
    BY DEF Pieces
  <2>3. r \in Reads
    BY <2>1, <2>2
  <2> HIDE DEF r
  <2> QED
    BY <2>3 DEF Reads
<1>2. /\ MeetsOnce(r.left, {h}) /\ MeetsOnce(r.lines, Holding(h))
      /\ ~(Meets(r.left, {h}) /\ Meets(r.lines, Holding(h)))
      /\ Meets(r.left, {h}) \/ Meets(r.lines, Holding(h)) => Meets(text, {h})
  BY SplitsOnce DEF SplitOnce
<1> HIDE DEF r
<1>3. r.left \in Holding(h) <=> Meets(r.left, {h})
  BY <1>1 DEF Holding
<1>4. /\ Meets(more, Holding(h)) <=> Meets(r.lines, Holding(h)) \/ r.left \in Holding(h)
      /\ MeetsOnce(more, Holding(h))
  BY <1>1, <1>2, <1>3, MeetsMore
<1> HIDE DEF more
<1>5. \A ls \in Seq(Seq(Pieces)) :
        /\ Meets(External(ls), Holding(h)) => Meets(ls, Holding(h))
        /\ MeetsOnce(ls, Holding(h)) => MeetsOnce(External(ls), Holding(h))
  BY KeptOfAll DEF KeptOf
<1>6. /\ MeetsOnce(External(r.lines), Holding(h)) /\ MeetsOnce(External(more), Holding(h))
      /\ Meets(External(r.lines), Holding(h)) => Meets(r.lines, Holding(h))
      /\ Meets(External(more), Holding(h)) => Meets(more, Holding(h))
  BY <1>1, <1>2, <1>4, <1>5
<1> QED
  BY <1>2, <1>3, <1>4, <1>6, Zenon DEF r, more

LEMMA HeadsOnceStep ==
  ASSUME SessionTypes, RelayStages, HeadsOnce, [SessionNext]_sessionVars
  PROVE  HeadsOnce'
<1> USE DEF boots, files, shown, configs, sessionVars
<1>0. /\ relay \in Relays /\ TaskTypes /\ latest \in Seq(Pieces) /\ Starting
      /\ display \in Seq(Seq(Pieces)) /\ queued \in Seq(Seq(Pieces))
      /\ written \in [Foreign -> 0 .. 2]
  BY DEF SessionTypes, ConsoleTypes, FileTypes, RelayStages
<1>1. Len(latest) \in Nat /\ DOMAIN latest = 1 .. Len(latest) /\ relay.offset \in Nat
      /\ relay.pending \in Seq(Pieces)
  BY <1>0 DEF Relays
<1> SUFFICES ASSUME NEW l \in Foreign PROVE HeadOnce(Head1(l), written[l] = 0)'
  BY DEF HeadsOnce
<1> DEFINE h == Head1(l)
           H == Holding(h)
<1>2. /\ MeetsOnce(latest, {h}) /\ MeetsOnce(relay.pending, {h}) /\ MeetsOnce(Relayed, H)
      /\ ~(Meets(relay.pending, {h}) /\ Meets(Relayed, H))
      /\ written[l] = 0 => ~Meets(latest, {h}) /\ ~Meets(relay.pending, {h}) /\ ~Meets(Relayed, H)
      /\ Meets(relay.pending, {h}) \/ Meets(Relayed, H) =>
           \A i \in DOMAIN latest : latest[i] = h => i <= relay.offset /\ relay.offset <= Len(latest)
  BY DEF HeadsOnce, HeadOnce
<1> SUFFICES
      /\ MeetsOnce(latest', {h}) /\ MeetsOnce(relay'.pending, {h}) /\ MeetsOnce(Relayed', H)
      /\ ~(Meets(relay'.pending, {h}) /\ Meets(Relayed', H))
      /\ written'[l] = 0 =>
           ~Meets(latest', {h}) /\ ~Meets(relay'.pending, {h}) /\ ~Meets(Relayed', H)
      /\ Meets(relay'.pending, {h}) \/ Meets(Relayed', H) =>
           \A i \in DOMAIN latest' :
             latest'[i] = h => i <= relay'.offset /\ relay'.offset <= Len(latest')
  BY DEF HeadOnce, Head1, Holding, Pieces
<1>3. h \in Pieces /\ \A k \in Foreign : Head1(k) = h => k = l
  BY DEF Head1, Pieces
<1>4. ~Meets(<<>>, {h}) /\ MeetsOnce(<<>>, {h}) /\ ~Meets(<<>>, H) /\ MeetsOnce(<<>>, H)
  BY MeetsNone, Zenon
<1> HIDE DEF h, H
<1>5. CASE UNCHANGED TheRelay
  <2>1. Relayed' = Relayed
    BY <1>5 DEF TheRelay, Relayed
  <2> QED
    BY <1>2, <1>5, <2>1 DEF TheRelay
<1>6. CASE TakeHistory /\ WritingAllowed
  <2> DEFINE r == Split(latest)
             all == IF r.left = <<>> THEN r.lines ELSE Append(r.lines, r.left)
  <2>1. /\ UNCHANGED <<display, latest, written>> /\ relay' = [relay EXCEPT !.offset = Len(latest)]
        /\ queued' = External(all) /\ Doing("history")
    BY <1>6 DEF TakeHistory
  <2>2. relay = NoRelay /\ display = <<>>
    BY <2>1 DEF RelayStages, Taken, Doing
  <2>3. relay'.pending = <<>> /\ relay'.offset = Len(latest)
    BY <2>1, <2>2 DEF NoRelay
  <2>4. MeetsOnce(External(all), H) /\ (Meets(External(all), H) => Meets(latest, {h}))
    BY <1>0, <1>2, ShownOnce DEF H
  <2> HIDE DEF r, all
  <2>5. Relayed' = External(all)
    <3>1. queued' \in Seq(Seq(Pieces))
      BY SessionTypesStep DEF SessionTypes, ConsoleTypes
    <3>2. <<>> \o queued' = queued'
      BY <3>1
    <3> QED
      BY <2>1, <2>2, <3>2 DEF Relayed
  <2>6. ~Meets(relay'.pending, {h}) /\ MeetsOnce(relay'.pending, {h})
    BY <1>4, <2>3
  <2> QED
    BY <1>1, <1>2, <2>1, <2>3, <2>4, <2>5, <2>6
<1>7. CASE ShowHistory
  <2>1. display' = Relayed /\ queued' = <<>> /\ UNCHANGED <<latest, written>>
        /\ \E at : relay' = [relay EXCEPT !.at = at]
    BY <1>7 DEF ShowHistory, Relayed
  <2>2. relay'.pending = relay.pending /\ relay'.offset = relay.offset
    BY <1>0, <2>1 DEF Relays
  <2>3. Relayed' = Relayed
    <3>1. Relayed \in Seq(Seq(Pieces))
      BY <1>0 DEF Relayed
    <3>2. Relayed \o <<>> = Relayed
      BY <3>1
    <3>3. Relayed' = Relayed \o <<>>
      BY <2>1 DEF Relayed
    <3> QED
      BY <3>2, <3>3
  <2> QED
    BY <1>2, <2>1, <2>2, <2>3
<1>8. CASE RelayLooks
  <2>1. UNCHANGED <<latest, written, display, queued>>
    BY <1>8 DEF RelayLooks, RelayStep
  <2>2. Relayed' = Relayed
    BY <2>1 DEF Relayed
  <2>3. CASE Len(latest) < relay.offset
    <3>1. relay'.offset = 0 /\ relay'.pending = <<>>
      BY <1>8, <2>3 DEF RelayLooks
    <3>2. Meets(Relayed, H) => \A i \in DOMAIN latest : latest[i] # h
      BY <1>1, <1>2, <2>3
    <3>3. ~Meets(relay'.pending, {h}) /\ MeetsOnce(relay'.pending, {h})
      BY <1>4, <3>1
    <3> QED
      BY <1>2, <2>1, <2>2, <3>2, <3>3
  <2>4. CASE ~(Len(latest) < relay.offset)
    <3>1. relay'.offset = relay.offset /\ relay'.pending = relay.pending
      BY <1>0, <1>8, <2>4 DEF RelayLooks, Relays
    <3> QED
      BY <1>2, <2>1, <2>2, <3>1
  <2> QED
    BY <2>3, <2>4
<1>9. CASE RelaySleeps
  <2>1. UNCHANGED <<latest, written, display, queued>>
        /\ relay' = [relay EXCEPT !.at = "look",
                            !.pending = IF Len(@) > MaxPending THEN <<>> ELSE @]
    BY <1>9 DEF RelaySleeps, RelayStep
  <2>2. Relayed' = Relayed
    BY <2>1 DEF Relayed
  <2>3. relay'.offset = relay.offset /\ relay'.pending \in {relay.pending, <<>>}
    BY <1>0, <2>1 DEF Relays
  <2>4. CASE relay'.pending = relay.pending
    BY <1>2, <2>1, <2>2, <2>3, <2>4
  <2>5. CASE relay'.pending = <<>>
    <3>1. ~Meets(relay'.pending, {h}) /\ MeetsOnce(relay'.pending, {h})
      BY <1>4, <2>5
    <3> QED
      BY <1>2, <2>1, <2>2, <2>3, <3>1
  <2> QED
    BY <2>3, <2>4, <2>5
<1>10. CASE RelayReads
  <2>1. UNCHANGED <<latest, written, queued>> /\ queued = <<>>
    BY <1>10 DEF RelayReads, RelayStep, RelayStages
  <2>2. PICK n \in 1 .. Len(latest) - relay.offset :
          LET read == Split(relay.pending \o SubSeq(latest, relay.offset + 1, relay.offset + n))
          IN /\ relay' = [relay EXCEPT !.offset = @ + n, !.pending = read.left]
             /\ display' = display \o External(read.lines)
    BY <1>10 DEF RelayReads
  <2> DEFINE chunk == SubSeq(latest, relay.offset + 1, relay.offset + n)
             text == relay.pending \o chunk
             read == Split(text)
             new == External(read.lines)
  <2>3. relay' = [relay EXCEPT !.offset = relay.offset + n, !.pending = read.left]
        /\ display' = display \o new
    BY <2>2
  <2>4. n \in Nat /\ relay.offset + n <= Len(latest) /\ relay.offset < relay.offset + n
    BY <1>1
  <2>5. /\ chunk \in Seq(Pieces) /\ MeetsOnce(chunk, {h})
        /\ Meets(chunk, {h}) => \E i \in DOMAIN latest : /\ latest[i] = h /\ i > relay.offset
                                                         /\ i <= relay.offset + n
    BY <1>0, <1>1, <1>2, <2>4, ChunkMeets
  <2> HIDE DEF chunk
  <2>6. Meets(chunk, {h}) => ~Meets(relay.pending, {h}) /\ ~Meets(Relayed, H)
    BY <1>1, <1>2, <2>4, <2>5
  <2>7. /\ text \in Seq(Pieces) /\ MeetsOnce(text, {h})
        /\ Meets(text, {h}) <=> Meets(relay.pending, {h}) \/ Meets(chunk, {h})
    <3>1. text \in Seq(Pieces)
      BY <1>1, <2>5
    <3>2. /\ Meets(text, {h}) <=> Meets(relay.pending, {h}) \/ Meets(chunk, {h})
          /\ MeetsOnce(relay.pending, {h}) /\ MeetsOnce(chunk, {h})
               /\ ~(Meets(relay.pending, {h}) /\ Meets(chunk, {h})) => MeetsOnce(text, {h})
      BY <1>1, <2>5, MeetsBoth
    <3> QED
      BY <1>2, <2>5, <2>6, <3>1, <3>2
  <2> HIDE DEF text
  <2>8. /\ MeetsOnce(read.left, {h}) /\ MeetsOnce(new, H)
        /\ ~(Meets(read.left, {h}) /\ Meets(new, H))
        /\ Meets(read.left, {h}) \/ Meets(new, H) => Meets(text, {h})
    BY <2>7, ShownOnce DEF H
  <2>9. new \in Seq(Seq(Pieces))
    <3>1. read \in Reads
      BY <1>3, <2>7, SplitIs
    <3>2. read.lines \in Seq(Seq(Pieces)) /\ <<>> \in Seq(Pieces)
      <4> HIDE DEF read
      <4> QED
        BY <3>1 DEF Reads
    <3> HIDE DEF read
    <3> QED
      BY <3>2, ExternalIs
  <2> HIDE DEF read, new
  <2>10. relay'.offset = relay.offset + n /\ relay'.pending = read.left
    BY <1>0, <2>3 DEF Relays
  <2>11. Relayed = display /\ Relayed' = display \o new
    <3>1. display \o <<>> = display /\ (display \o new) \o <<>> = display \o new
      BY <1>0, <2>9
    <3> QED
      BY <2>1, <2>3, <3>1 DEF Relayed
  <2>12. /\ Meets(Relayed', H) <=> Meets(Relayed, H) \/ Meets(new, H)
         /\ MeetsOnce(Relayed, H) /\ MeetsOnce(new, H) /\ ~(Meets(Relayed, H) /\ Meets(new, H)) =>
              MeetsOnce(Relayed', H)
    BY <1>0, <2>9, <2>11, MeetsBoth
  <2>13. MeetsOnce(Relayed', H) /\ ~(Meets(relay'.pending, {h}) /\ Meets(Relayed', H))
    BY <1>2, <2>6, <2>7, <2>8, <2>10, <2>12
  <2>14. written[l] = 0 => ~Meets(text, {h}) /\ ~Meets(Relayed, H)
    <3>1. Meets(chunk, {h}) => Meets(latest, {h})
      BY <2>5 DEF Meets
    <3> QED
      BY <1>2, <2>7, <3>1
  <2>15. ASSUME Meets(relay'.pending, {h}) \/ Meets(Relayed', H), NEW i \in DOMAIN latest, latest[i] = h
         PROVE  i <= relay.offset + n
    <3>1. Meets(relay.pending, {h}) \/ Meets(Relayed, H) \/ Meets(chunk, {h})
      BY <2>7, <2>8, <2>10, <2>12, <2>15
    <3>2. CASE Meets(relay.pending, {h}) \/ Meets(Relayed, H)
      BY <1>1, <1>2, <2>4, <2>15, <3>2
    <3>3. CASE Meets(chunk, {h})
      <4>1. PICK j \in DOMAIN latest : latest[j] = h /\ j <= relay.offset + n
        BY <2>5, <3>3
      <4>2. i = j
        BY <1>2, <2>15, <4>1 DEF MeetsOnce
      <4> QED
        BY <4>1, <4>2
    <3> QED
      BY <3>1, <3>2, <3>3
  <2> QED
    BY <1>2, <2>1, <2>4, <2>8, <2>10, <2>12, <2>13, <2>14, <2>15
<1>11. CASE InitLogging
  <2>1. UNCHANGED <<relay, display, queued, written>> /\ latest' \in {<<>>, latest}
    BY <1>11 DEF InitLogging, Prepared
  <2>2. Relayed' = Relayed
    BY <2>1 DEF Relayed
  <2>3. CASE latest' = <<>>
    <3>1. MeetsOnce(latest', {h}) /\ ~Meets(latest', {h}) /\ DOMAIN latest' = {}
      BY <1>4, <2>3
    <3> QED
      BY <1>2, <2>1, <2>2, <3>1
  <2>4. CASE latest' = latest
    BY <1>2, <2>1, <2>2, <2>4
  <2> QED
    BY <2>1, <2>3, <2>4
<1>12. ASSUME NEW e \in Pieces, latest' = Append(latest, e), UNCHANGED <<relay, display, queued>>,
              e = h => written[l] = 0, written'[l] = 0 => written[l] = 0 /\ e # h
       PROVE  /\ MeetsOnce(latest', {h}) /\ MeetsOnce(relay'.pending, {h}) /\ MeetsOnce(Relayed', H)
              /\ ~(Meets(relay'.pending, {h}) /\ Meets(Relayed', H))
              /\ written'[l] = 0 =>
                   ~Meets(latest', {h}) /\ ~Meets(relay'.pending, {h}) /\ ~Meets(Relayed', H)
              /\ Meets(relay'.pending, {h}) \/ Meets(Relayed', H) =>
                   \A i \in DOMAIN latest' :
                     latest'[i] = h => i <= relay'.offset /\ relay'.offset <= Len(latest')
  <2>1. Relayed' = Relayed
    BY <1>12 DEF Relayed
  <2>2. /\ Meets(latest', {h}) <=> Meets(latest, {h}) \/ e = h
        /\ MeetsOnce(latest', {h})
    BY <1>0, <1>2, <1>12, MeetsMore
  <2>3. ASSUME Meets(relay.pending, {h}) \/ Meets(Relayed, H), NEW i \in DOMAIN latest', latest'[i] = h
        PROVE  i <= relay.offset /\ relay.offset <= Len(latest')
    <3>1. e # h
      BY <1>2, <1>12, <2>3
    <3>2. /\ Len(latest') = Len(latest) + 1 /\ DOMAIN latest' = 1 .. Len(latest) + 1
          /\ latest'[Len(latest) + 1] = e /\ \A j \in 1 .. Len(latest) : latest'[j] = latest[j]
      BY <1>0, <1>12, AppendIs
    <3>3. i \in DOMAIN latest /\ latest[i] = h
      BY <1>1, <2>3, <3>1, <3>2
    <3> QED
      BY <1>1, <1>2, <2>3, <3>2, <3>3
  <2> QED
    BY <1>2, <1>12, <2>1, <2>2, <2>3
<1>13. CASE WriteOwn
  <2> DEFINE n == Cardinality({i \in DOMAIN latest : latest[i].part = 0}) + 1
  <2>1. latest' = Append(latest, OwnLine(n)) /\ UNCHANGED <<relay, display, queued, written>>
    BY <1>13 DEF WriteOwn
  <2>2. OwnLine(n) \in Pieces
    <3>1. IsFiniteSet(1 .. Len(latest))
      BY <1>1, FS_Interval
    <3>2. IsFiniteSet({i \in DOMAIN latest : latest[i].part = 0})
      BY <1>1, <3>1, FS_Subset
    <3>3. n \in Nat
      BY <3>2, FS_CardinalityType
    <3> HIDE DEF n
    <3>4. session \in Nat
      BY DEF SessionTypes, ConfigTypes
    <3> QED
      BY <3>3, <3>4 DEF OwnLine, Pieces
  <2>3. OwnLine(n) # h
    BY DEF OwnLine, h, Head1
  <2> HIDE DEF n
  <2> QED
    BY <1>12, <2>1, <2>2, <2>3
<1>14. CASE \E k \in Foreign : ForeignWrites(k)
  <2>1. PICK k \in Foreign : ForeignWrites(k)
    BY <1>14
  <2>2. /\ written[k] < 2 /\ written' = [written EXCEPT ![k] = @ + 1]
        /\ latest' = Append(latest, IF written[k] = 0 THEN Head1(k) ELSE Tail2(k))
        /\ UNCHANGED <<relay, display, queued>>
    BY <2>1 DEF ForeignWrites
  <2> DEFINE e == IF written[k] = 0 THEN Head1(k) ELSE Tail2(k)
  <2>3. e \in Pieces
    BY DEF Head1, Tail2, Pieces
  <2>4. e = h => written[l] = 0
    <3>1. Tail2(k) # h
      BY DEF Tail2, Head1, h
    <3> QED
      BY <1>3, <3>1
  <2>5. written'[l] = 0 => written[l] = 0 /\ e # h
    <3>1. k # l => Head1(k) # h /\ Tail2(k) # h
      BY DEF Tail2, Head1, h
    <3>2. written'[l] = IF k = l THEN written[l] + 1 ELSE written[l]
      BY <1>0, <2>2
    <3>3. written[l] \in 0 .. 2
      BY <1>0
    <3> QED
      BY <3>1, <3>2, <3>3
  <2> HIDE DEF e
  <2>6. latest' = Append(latest, e)
    BY <2>2 DEF e
  <2> QED
    BY <1>12, <2>2, <2>3, <2>4, <2>5, <2>6
<1>15. CASE Restart
  <2>1. relay' = NoRelay /\ display' = <<>> /\ queued' = <<>> /\ latest' = latest
        /\ written' = [k \in Foreign |-> IF written[k] = 0 THEN 0 ELSE 2]
    BY <1>15 DEF Restart, FreshProcess
  <2>2. relay'.pending = <<>> /\ <<>> \o <<>> = <<>>
    BY <2>1 DEF NoRelay
  <2>3. Relayed' = <<>>
    BY <2>1, <2>2 DEF Relayed
  <2>4. written'[l] = 0 => written[l] = 0
    BY <1>0, <2>1
  <2>5. ~Meets(relay'.pending, {h}) /\ MeetsOnce(relay'.pending, {h})
        /\ ~Meets(Relayed', H) /\ MeetsOnce(Relayed', H)
    BY <1>4, <2>2, <2>3
  <2> QED
    BY <1>2, <2>1, <2>4, <2>5
<1>16. Starting
  BY DEF RelayStages
<1> QED
  BY <1>5, <1>6, <1>7, <1>8, <1>9, <1>10, <1>11, <1>13, <1>14, <1>15, <1>16, RelayOrNot DEF Relay

LEMMA PrefixStays ==
  ASSUME NEW s \in Seq(Pieces), NEW e \in Pieces, NEW o \in Nat, o <= Len(s)
  PROVE  SubSeq(Append(s, e), 1, o) = SubSeq(s, 1, o)
<1> DEFINE t == Append(s, e)
           a == SubSeq(t, 1, o)
           b == SubSeq(s, 1, o)
<1>1. /\ Len(t) = Len(s) + 1 /\ Len(s) \in Nat /\ t \in Seq(Pieces)
      /\ \A j \in 1 .. Len(s) : t[j] = s[j]
  BY AppendIs
<1> HIDE DEF t
<1>2. a \in Seq(Pieces) /\ Len(a) = o /\ \A j \in 1 .. o : a[j] = t[j]
  <2>1. o > 0 => 1 \in 1 .. Len(t) /\ o \in 1 .. Len(t)
    BY <1>1
  <2> QED
    BY <1>1, <2>1
<1>3. b \in Seq(Pieces) /\ Len(b) = o /\ \A j \in 1 .. o : b[j] = s[j]
  <2>1. o > 0 => 1 \in 1 .. Len(s) /\ o \in 1 .. Len(s)
    BY <1>1
  <2> QED
    BY <1>1, <2>1
<1> HIDE DEF a, b
<1>4. \A j \in 1 .. Len(a) : a[j] = b[j]
  BY <1>1, <1>2, <1>3, SMTT(20)
<1>5. a = b
  <2>1. Len(a) = Len(b)
    BY <1>2, <1>3
  <2> QED
    BY <1>2, <1>3, <1>4, <2>1, SeqEqual
<1> QED
  BY <1>5 DEF a, b, t

LEMMA SplitTypes ==
  ASSUME NEW s \in Seq(Pieces)
  PROVE  Split(s).left \in Seq(Pieces) /\ Split(s).lines \in Seq(Seq(Pieces))
<1>1. [line |-> <<"own", 0, 0>>, part |-> 0] \in Pieces
  BY DEF Pieces
<1>2. Split(s) \in Reads
  BY <1>1, SplitIs
<1> QED
  BY <1>2 DEF Reads

LEMMA NothingReadWell ==
  ASSUME NEW had, NEW given
  PROVE  WellRead(<<>>, <<>>, had, given)
<1>1. Split(<<>>).left = <<>> /\ Split(<<>>).lines = <<>>
  BY SplitIs DEF NothingRead
<1>2. LeftOff(<<>>, <<>>, given)
  BY DEF LeftOff
<1>3. \A X : ~Meets(<<>>, X)
  BY MeetsNone
<1> QED
  BY <1>1, <1>2, <1>3, Zenon DEF WellRead

LEMMA ReadingStep ==
  ASSUME SessionTypes, RelayStages, Reading, [SessionNext]_sessionVars
  PROVE  Reading'
<1> USE DEF boots, files, shown, configs, sessionVars
<1>0. /\ relay \in Relays /\ TaskTypes /\ latest \in Seq(Pieces) /\ Starting
      /\ display \in Seq(Seq(Pieces)) /\ queued \in Seq(Seq(Pieces)) /\ terminal \in Terminals
      /\ stale \in BOOLEAN
  BY DEF SessionTypes, ConsoleTypes, FileTypes, RelayStages
<1>1. Len(latest) \in Nat /\ DOMAIN latest = 1 .. Len(latest) /\ relay.offset \in Nat
      /\ relay.pending \in Seq(Pieces)
  BY <1>0 DEF Relays
<1>2. CASE UNCHANGED TheRelay /\ (Taken' <=> Taken)
  <2>1. Relayed' = Relayed
    BY <1>2 DEF TheRelay, Relayed
  <2> QED
    BY <1>2, <2>1 DEF Reading, TheRelay
<1>3. CASE TakeHistory /\ WritingAllowed
  <2> DEFINE r == Split(latest)
             all == IF r.left = <<>> THEN r.lines ELSE Append(r.lines, r.left)
  <2>1. /\ UNCHANGED <<display, latest, stale>> /\ relay' = [relay EXCEPT !.offset = Len(latest)]
        /\ queued' = External(all) /\ cut' = LinesOf(r.left) /\ Doing("history")
    BY <1>3 DEF TakeHistory
  <2>2. relay = NoRelay /\ display = <<>>
    BY <2>1 DEF RelayStages, Taken, Doing
  <2>3. relay'.pending = <<>> /\ relay'.offset = Len(latest)
    BY <2>1, <2>2 DEF NoRelay
  <2>4. r.left \in Seq(Pieces) /\ r.lines \in Seq(Seq(Pieces))
    BY <1>0, SplitTypes
  <2>5. LeftOff(r.left, <<>>, LinesOf(r.left))
    <3> HIDE DEF r
    <3>1. r.left # <<>> => 1 \in DOMAIN r.left
      BY <2>4
    <3> QED
      BY <3>1 DEF LeftOff, LinesOf
  <2>6. all \in Seq(Seq(Pieces))
    <3> HIDE DEF r
    <3> QED
      BY <2>4
  <2>7. \A X : Meets(r.lines, X) => Meets(all, X)
    <3> HIDE DEF r
    <3> QED
      BY <2>4, MeetsMore
  <2>8. KeptOf(all)
    BY <2>6, KeptOfAll
  <2> HIDE DEF r, all
  <2>9. \A line \in Seq(Pieces) : Meets(r.lines, {line}) /\ Parses(line) => Meets(External(all), {line})
    BY <2>7, <2>8 DEF KeptOf
  <2>10. Relayed' = External(all)
    <3>1. queued' \in Seq(Seq(Pieces))
      BY SessionTypesStep DEF SessionTypes, ConsoleTypes
    <3>2. <<>> \o queued' = queued'
      BY <3>1
    <3> QED
      BY <2>1, <2>2, <3>2 DEF Relayed
  <2>11. WellRead(latest, <<>>, External(all), LinesOf(r.left))
    BY <2>5, <2>9 DEF WellRead, r
  <2>12. SubSeq(latest', 1, relay'.offset) = latest
    BY <1>0, <2>1, <2>3
  <2>13. WellRead(SubSeq(latest', 1, relay'.offset), relay'.pending, Relayed', cut')
    BY <2>1, <2>3, <2>10, <2>11, <2>12
  <2>14. relay'.offset <= Len(latest')
    BY <1>1, <2>1, <2>3
  <2> QED
    BY <2>13, <2>14 DEF Reading
<1>4. CASE ShowHistory
  <2>1. /\ display' = Relayed /\ queued' = <<>> /\ UNCHANGED <<latest, stale, cut, version, terminal>>
        /\ Doing("show") /\ task' = Tail(task) /\ \E at : relay' = [relay EXCEPT !.at = at]
    BY <1>4 DEF ShowHistory, Relayed, Next1
  <2>2. relay'.pending = relay.pending /\ relay'.offset = relay.offset
    BY <1>0, <2>1 DEF Relays
  <2>3. Relayed' = Relayed
    <3>1. Relayed \in Seq(Seq(Pieces))
      BY <1>0 DEF Relayed
    <3>2. Relayed \o <<>> = Relayed
      BY <3>1
    <3>3. Relayed' = Relayed \o <<>>
      BY <2>1 DEF Relayed
    <3> QED
      BY <3>2, <3>3
  <2>4. Taken' => Taken
    BY <2>1 DEF Taken, WritingAllowed, Doing
  <2> QED
    BY <2>1, <2>2, <2>3, <2>4 DEF Reading
<1>5. ASSUME relay.at # "none" PROVE Taken /\ queued = <<>>
  BY <1>5 DEF RelayStages, NoRelay
<1>6. CASE RelayLooks
  <2>1. UNCHANGED <<latest, display, queued, cut>> /\ relay.at # "none"
        /\ stale' = (stale /\ Len(latest) >= relay.offset)
    BY <1>6 DEF RelayLooks, RelayStep
  <2>2. Relayed' = Relayed
    BY <2>1 DEF Relayed
  <2>3. CASE Len(latest) < relay.offset
    <3>1. relay'.offset = 0 /\ relay'.pending = <<>>
      BY <1>6, <2>3 DEF RelayLooks
    <3>2. SubSeq(latest', 1, relay'.offset) = <<>>
      BY <1>0, <2>1, <3>1
    <3>3. WellRead(SubSeq(latest', 1, relay'.offset), relay'.pending, Relayed', cut')
      BY <3>1, <3>2, NothingReadWell
    <3>4. relay'.offset <= Len(latest')
      BY <1>1, <2>1, <3>1
    <3> QED
      BY <3>3, <3>4 DEF Reading
  <2>4. CASE ~(Len(latest) < relay.offset)
    <3>1. relay'.offset = relay.offset /\ relay'.pending = relay.pending /\ stale' = stale
      BY <1>0, <1>1, <1>6, <2>1, <2>4 DEF RelayLooks, Relays
    <3> QED
      BY <1>5, <2>1, <2>2, <3>1 DEF Reading
  <2> QED
    BY <2>3, <2>4
<1>7. CASE RelaySleeps
  <2>1. UNCHANGED <<latest, display, queued, stale>> /\ relay.at # "none"
        /\ relay' = [relay EXCEPT !.at = "look",
                            !.pending = IF Len(@) > MaxPending THEN <<>> ELSE @]
        /\ cut' = IF Len(relay.pending) > MaxPending THEN cut \cup LinesOf(relay.pending) ELSE cut
    BY <1>7 DEF RelaySleeps, RelayStep
  <2>2. Relayed' = Relayed
    BY <2>1 DEF Relayed
  <2>3. relay'.offset = relay.offset
        /\ relay'.pending = IF Len(relay.pending) > MaxPending THEN <<>> ELSE relay.pending
    BY <1>0, <2>1 DEF Relays
  <2> SUFFICES ASSUME ~stale PROVE /\ relay'.offset <= Len(latest')
                                   /\ WellRead(SubSeq(latest', 1, relay'.offset), relay'.pending, Relayed', cut')
    BY <2>1 DEF Reading
  <2>4. relay.offset <= Len(latest) /\ WellRead(SubSeq(latest, 1, relay.offset), relay.pending, Relayed, cut)
    BY <1>5, <2>1 DEF Reading
  <2>5. CASE Len(relay.pending) > MaxPending
    <3> DEFINE left == Split(SubSeq(latest, 1, relay.offset)).left
    <3>1. relay.pending # <<>> /\ 1 \in DOMAIN relay.pending
      BY <1>1, <2>5, SessionAssumption
    <3>2. LeftOff(left, relay.pending, cut)
      BY <2>4 DEF WellRead
    <3> HIDE DEF left
    <3>3. left # <<>> /\ left[1].line \in cut'
      BY <2>1, <2>5, <3>1, <3>2 DEF LeftOff, LinesOf
    <3>4. LeftOff(left, relay'.pending, cut')
      BY <3>3 DEF LeftOff
    <3>5. cut \subseteq cut'
      BY <2>1, <2>5
    <3> QED
      BY <2>1, <2>2, <2>3, <2>4, <3>4, <3>5 DEF WellRead, left
  <2>6. CASE ~(Len(relay.pending) > MaxPending)
    BY <2>1, <2>2, <2>3, <2>4, <2>6
  <2> QED
    BY <2>5, <2>6
<1>8. CASE RelayReads
  <2>1. UNCHANGED <<latest, queued, stale, cut>> /\ queued = <<>> /\ relay.at # "none" /\ Taken
    BY <1>5, <1>8 DEF RelayReads, RelayStep
  <2>2. PICK n \in 1 .. Len(latest) - relay.offset :
          LET read == Split(relay.pending \o SubSeq(latest, relay.offset + 1, relay.offset + n))
          IN /\ relay' = [relay EXCEPT !.offset = @ + n, !.pending = read.left]
             /\ display' = display \o External(read.lines)
    BY <1>8 DEF RelayReads
  <2> SUFFICES ASSUME ~stale PROVE /\ relay'.offset <= Len(latest')
                                   /\ WellRead(SubSeq(latest', 1, relay'.offset), relay'.pending, Relayed', cut')
    BY <2>1 DEF Reading
  <2> DEFINE text == relay.pending \o SubSeq(latest, relay.offset + 1, relay.offset + n)
             old == SubSeq(latest, 1, relay.offset + n)
             read == Split(text)
             new == External(read.lines)
  <2>3. relay' = [relay EXCEPT !.offset = relay.offset + n, !.pending = read.left]
        /\ display' = display \o new
    BY <2>2
  <2>4. n \in Nat /\ relay.offset + n <= Len(latest)
    BY <1>1
  <2>5. WellRead(SubSeq(latest, 1, relay.offset), relay.pending, Relayed, cut) /\ Plain(relay.pending)
    BY <2>1 DEF Reading, RelayStages
  <2>6. Abreast(old, text, Relayed, cut)
    BY <1>0, <1>1, <2>4, <2>5, ReadsWell
  <2>7. text \in Seq(Pieces)
    BY <1>0, <1>1
  <2> HIDE DEF text, old
  <2>8. read.lines \in Seq(Seq(Pieces)) /\ read.left \in Seq(Pieces)
    BY <2>7, SplitTypes
  <2>9. new \in Seq(Seq(Pieces)) /\ KeptOf(read.lines)
    <3>1. <<>> \in Seq(Pieces)
      OBVIOUS
    <3> HIDE DEF read
    <3> QED
      BY <2>8, <3>1, ExternalIs, KeptOfAll
  <2>10. /\ LeftOff(Split(old).left, read.left, cut)
         /\ \A line \in Seq(Pieces) : Meets(Split(old).lines, {line}) /\ Parses(line) =>
              Meets(Relayed, {line}) \/ Meets(read.lines, {line}) \/ line[1].line \in cut
    BY <2>6 DEF Abreast
  <2>11. \A line \in Seq(Pieces) : Meets(read.lines, {line}) /\ Parses(line) => Meets(new, {line})
    BY <2>9 DEF KeptOf
  <2> HIDE DEF read, new
  <2>12. relay'.offset = relay.offset + n /\ relay'.pending = read.left
    BY <1>0, <2>3 DEF Relays
  <2>13. Relayed = display /\ Relayed' = display \o new
    <3>1. display \o <<>> = display /\ (display \o new) \o <<>> = display \o new
      BY <1>0, <2>9
    <3> QED
      BY <2>1, <2>3, <3>1 DEF Relayed
  <2>14. \A X : Meets(Relayed', X) <=> Meets(Relayed, X) \/ Meets(new, X)
    BY <1>0, <2>9, <2>13, MeetsBoth
  <2>15. WellRead(old, read.left, Relayed', cut)
    BY <2>10, <2>11, <2>14 DEF WellRead
  <2> QED
    BY <2>1, <2>4, <2>12, <2>15 DEF old
<1>9. CASE InitLogging
  <2>1. UNCHANGED <<relay, display, queued, cut, version, terminal, task>>
        /\ stale' = (WritingAllowed /\ relay.offset > 0)
        /\ (WritingAllowed => latest' = <<>>)
    BY <1>9 DEF InitLogging, Prepared
  <2> SUFFICES ASSUME Taken', ~stale' PROVE /\ relay'.offset <= Len(latest')
                                   /\ WellRead(SubSeq(latest', 1, relay'.offset), relay'.pending, Relayed', cut')
    BY DEF Reading
  <2>2. WritingAllowed
    BY <2>1 DEF Taken, WritingAllowed
  <2>3. latest' = <<>> /\ ~(relay.offset > 0)
    BY <2>1, <2>2
  <2>4. relay.offset = 0
    BY <1>1, <2>3
  <2>5. relay.pending = <<>>
    BY <2>4 DEF RelayStages
  <2>6. SubSeq(latest', 1, relay'.offset) = <<>>
    BY <2>1, <2>3, <2>4
  <2>7. relay'.offset <= Len(latest')
    BY <2>1, <2>3, <2>4
  <2> QED
    BY <2>1, <2>5, <2>6, <2>7, NothingReadWell
<1>10. ASSUME NEW e \in Pieces, latest' = Append(latest, e),
              UNCHANGED <<relay, display, queued, stale, cut, version, terminal, task>>
       PROVE  Reading'
  <2>1. Relayed' = Relayed /\ (Taken' <=> Taken)
    BY <1>10 DEF Relayed, Taken, WritingAllowed
  <2>2. Len(latest') = Len(latest) + 1
    BY <1>0, <1>10, AppendIs
  <2>3. ASSUME relay.offset <= Len(latest)
        PROVE  /\ SubSeq(latest', 1, relay.offset) = SubSeq(latest, 1, relay.offset)
               /\ relay.offset <= Len(latest')
    <3>1. SubSeq(Append(latest, e), 1, relay.offset) = SubSeq(latest, 1, relay.offset)
      BY <1>0, <1>1, <2>3, PrefixStays
    <3>2. relay.offset <= Len(latest')
      BY <1>1, <2>2, <2>3
    <3> QED
      BY <1>10, <3>1, <3>2, Zenon
  <2> QED
    BY <1>10, <2>1, <2>3 DEF Reading
<1>11. CASE WriteOwn
  <2> DEFINE n == Cardinality({i \in DOMAIN latest : latest[i].part = 0}) + 1
  <2>1. latest' = Append(latest, OwnLine(n))
        /\ UNCHANGED <<relay, display, queued, stale, cut, version, terminal, task>>
    BY <1>11 DEF WriteOwn
  <2>2. OwnLine(n) \in Pieces
    <3>1. IsFiniteSet(1 .. Len(latest))
      BY <1>1, FS_Interval
    <3>2. IsFiniteSet({i \in DOMAIN latest : latest[i].part = 0})
      BY <1>1, <3>1, FS_Subset
    <3>3. n \in Nat
      BY <3>2, FS_CardinalityType
    <3> HIDE DEF n
    <3>4. session \in Nat
      BY DEF SessionTypes, ConfigTypes
    <3> QED
      BY <3>3, <3>4 DEF OwnLine, Pieces
  <2> HIDE DEF n
  <2> QED
    BY <1>10, <2>1, <2>2
<1>12. CASE \E k \in Foreign : ForeignWrites(k)
  <2>1. PICK k \in Foreign : ForeignWrites(k)
    BY <1>12
  <2>2. PICK e \in {Head1(k), Tail2(k)} : latest' = Append(latest, e)
    BY <2>1 DEF ForeignWrites
  <2>3. e \in Pieces
    BY DEF Head1, Tail2, Pieces
  <2>4. UNCHANGED <<relay, display, queued, stale, cut, version, terminal, task>>
    BY <2>1 DEF ForeignWrites
  <2> QED
    BY <1>10, <2>2, <2>3, <2>4
<1>13. CASE Restart
  <2>1. PICK attached \in BOOLEAN : terminal' = [NoConsole EXCEPT !.associated = attached]
    BY <1>13 DEF Restart, FreshProcess
  <2>2. ~terminal'.logging
    BY <2>1 DEF NoConsole
  <2> QED
    BY <2>2 DEF Reading, Taken
<1> QED
  BY <1>0, <1>2, <1>3, <1>4, <1>6, <1>7, <1>8, <1>9, <1>11, <1>12, <1>13, RelayOrNot DEF Relay

(* No line of another program comes twice to the console of a session, not *)
(* even in part, and once the relay has caught up each is there that was   *)
(* not taken unended (queue_external_log_history, tail_external_structured_log): *)
(* for any lines of other programs, cut into reads in any way.             *)
THEOREM RelayedAsWritten == SessionSpec => []RelayedOnce
<1> DEFINE Inv == SessionTypes /\ RelayStages /\ HeadsOnce /\ Reading
<1>1. SessionInit => Inv
  <2> SUFFICES ASSUME SessionInit PROVE RelayStages /\ HeadsOnce /\ Reading
    BY SessionTypesInit
  <2>1. /\ relay = NoRelay /\ display = <<>> /\ queued = <<>> /\ task = <<>> /\ latest = <<>>
        /\ terminal \in {NoConsole, [NoConsole EXCEPT !.associated = TRUE]}
    BY DEF SessionInit
  <2>2. ~terminal.logging /\ relay.at = "none" /\ relay.pending = <<>>
    BY <2>1 DEF NoConsole, NoRelay
  <2>3. Plain(<<>>) /\ <<>> \o <<>> = <<>>
    BY DEF Plain
  <2>4. RelayStages
    BY <2>1, <2>2, <2>3 DEF RelayStages, Starting, Taken
  <2>5. Reading
    BY <2>2 DEF Reading, Taken
  <2>6. \A X : ~Meets(<<>>, X) /\ MeetsOnce(<<>>, X)
    BY MeetsNone
  <2>7. HeadsOnce
    BY <2>1, <2>2, <2>3, <2>6 DEF HeadsOnce, HeadOnce, Relayed
  <2> QED
    BY <2>4, <2>5, <2>7
<1>2. Inv /\ [SessionNext]_sessionVars => Inv'
  BY SessionTypesStep, RelayStagesStep, HeadsOnceStep, ReadingStep
<1>3. Inv => RelayedOnce
  <2> SUFFICES ASSUME Inv PROVE RelayedOnce
    OBVIOUS
  <2>0. /\ relay \in Relays /\ latest \in Seq(Pieces)
        /\ display \in Seq(Seq(Pieces)) /\ queued \in Seq(Seq(Pieces))
    BY DEF SessionTypes, ConsoleTypes, FileTypes
  <2>1. ASSUME NEW l \in Foreign PROVE Cardinality(On(display \o queued, l)) <= 1
    <3> DEFINE on == On(display \o queued, l)
               h == Head1(l)
    <3>1. Relayed \in Seq(Seq(Pieces)) /\ MeetsOnce(Relayed, Holding(h))
      <4>1. Relayed \in Seq(Seq(Pieces))
        BY <2>0 DEF Relayed
      <4>2. HeadOnce(h, written[l] = 0)
        BY DEF HeadsOnce
      <4> HIDE DEF h
      <4> QED
        BY <4>1, <4>2 DEF HeadOnce
    <3>2. \A i \in on : i \in DOMAIN Relayed /\ Relayed[i] \in Holding(h)
      <4>1. \A i \in on : i \in DOMAIN Relayed /\ \E k \in DOMAIN Relayed[i] : Relayed[i][k] = h
        BY DEF On, Relayed
      <4>2. \A i \in DOMAIN Relayed : Relayed[i] \in Seq(Pieces)
        BY <3>1
      <4> QED
        BY <4>1, <4>2 DEF Holding, Meets
    <3> HIDE DEF on, h
    <3>3. \A i, j \in on : i = j
      BY <3>1, <3>2 DEF MeetsOnce
    <3>4. on = {} \/ \E i : on = {i}
      BY <3>3
    <3>5. Cardinality(on) <= 1
      <4>1. CASE on = {}
        BY <4>1, FS_EmptySet
      <4>2. ASSUME NEW i, on = {i} PROVE Cardinality(on) <= 1
        <5>1. Cardinality({i}) = 1
          BY FS_Singleton
        <5> QED
          BY <4>2, <5>1
      <4> QED
        BY <3>4, <4>1, <4>2
    <3> QED
      BY <3>5 DEF on
  <2>2. ASSUME relay.at # "none", ~stale, relay.offset = Len(latest)
        PROVE  LET whole == External(Split(latest).lines)
               IN \A i \in DOMAIN whole :
                    whole[i][1].line \in cut \/ \E k \in DOMAIN display : display[k] = whole[i]
    <3> DEFINE lines == Split(latest).lines
               whole == External(lines)
    <3>1. Taken /\ queued = <<>>
      BY <2>2 DEF RelayStages, NoRelay
    <3>2. SubSeq(latest, 1, relay.offset) = latest
      BY <2>0, <2>2
    <3>3. WellRead(latest, relay.pending, Relayed, cut)
      BY <2>2, <3>1, <3>2 DEF Reading
    <3>4. Relayed = display
      <4>1. display \o <<>> = display
        BY <2>0
      <4> QED
        BY <3>1, <4>1 DEF Relayed
    <3>5. KeptOf(lines)
      BY <2>0, SplitTypes, KeptOfAll
    <3>6. \A line \in Seq(Pieces) : Meets(lines, {line}) /\ Parses(line) =>
            Meets(display, {line}) \/ line[1].line \in cut
      BY <3>3, <3>4 DEF WellRead
    <3> HIDE DEF lines
    <3> SUFFICES ASSUME NEW i \in DOMAIN whole
                 PROVE  whole[i][1].line \in cut \/ \E k \in DOMAIN display : display[k] = whole[i]
      BY DEF lines
    <3>7. Parses(whole[i]) /\ whole[i] \in Seq(Pieces) /\ Meets(lines, {whole[i]})
      BY <3>5 DEF KeptOf
    <3> HIDE DEF whole
    <3>8. Meets(display, {whole[i]}) \/ whole[i][1].line \in cut
      BY <3>6, <3>7
    <3> QED
      BY <3>8 DEF Meets
  <2> QED
    BY <2>1, <2>2 DEF RelayedOnce
<1> QED
  <2> HIDE DEF Inv
  <2> QED
    BY <1>1, <1>2, <1>3, PTL DEF SessionSpec
=============================================================================
