------------------------ MODULE Configuration_proofs ------------------------
(***************************************************************************)
(* Proofs about Configuration, for any configurations, peers and           *)
(* destinations and any number of edits of the launcher: the hooks do what *)
(* the settings say, what settles is what the file says, and a save keeps  *)
(* the launcher's fields.                                                  *)
(***************************************************************************)
EXTENDS Configuration, SequenceTheorems, TLAPS

-----------------------------------------------------------------------------
(* What each thread may have left to do, by where it is. *)

BootRest == <<"watch", "apply", "apply", "hooks">>
Storing == {"enabled", "detail", "p2p", "peer"}
Saving == {"existing", "open", "fill"}
Reading == {"exists", "read"}

BootTodo(pc, todo) ==
    \/ pc \in Reading /\ todo = <<"load", "watch", "apply", "apply", "hooks">>
    \/ pc \in Saving \cup Storing /\ todo = <<"save", "watch", "apply", "apply", "hooks">>
    \/ pc = "watch" /\ todo = BootRest
    \/ pc \in Storing /\ todo \in {<<"apply", "apply", "hooks">>, <<"apply", "hooks">>}
    \/ pc = "hooks" /\ todo = <<"hooks">>
    \/ pc = "idle" /\ todo = <<>>
WatcherTodo(pc, todo) ==
    \/ pc \in Reading /\ todo = <<"load", "apply">>
    \/ pc \in Saving \cup Storing /\ todo = <<"save", "apply">>
    \/ pc \in Storing /\ todo = <<"apply">>
    \/ pc = "idle" /\ todo = <<>>
Todo(a, me) == IF a = "boot" THEN BootTodo(me.pc, me.todo) ELSE WatcherTodo(me.pc, me.todo)

Contents == Objects \cup {NoFile, Torn}
Pcs == Reading \cup Saving \cup Storing \cup {"watch", "hooks", "idle"}
Routines == {"load", "save", "watch", "apply", "hooks"}
Threads == [pc : Pcs, todo : Seq(Routines), cfg : Configs, existing : Contents]

Calling == [pc : {"flag", "peer", "original"}, api : Rerouted, to : Destinations,
            via : Addresses, steady : BOOLEAN]

Types ==
    /\ writes \in BOOLEAN /\ file \in Contents
    /\ event \in BOOLEAN /\ watching \in BOOLEAN
    /\ actor \in [Actors -> Threads]
    /\ \A a \in Actors : Todo(a, actor[a])
    /\ launcher \in {"idle", "emptied"}
    /\ live \in Settings /\ installed \in BOOLEAN
    /\ call \in Calling \cup {[pc |-> "none"]}
    /\ past \in [torn : BOOLEAN, overtaken : BOOLEAN, failed : BOOLEAN, stale : BOOLEAN]
    /\ edits \in 0..LauncherEdits

-----------------------------------------------------------------------------
(* The sequences of routines. *)

LEMMA MoreToDo ==
  ASSUME NEW me, NEW rest, Len(me.todo) # 1, Tail(me.todo) = rest
  PROVE  Proceed(me) = Start(rest, me.cfg)
BY Zenon DEF Proceed

LEMMA BootGoesOn ==
  ASSUME NEW me \in Threads
  PROVE  /\ BootTodo(me.pc, me.todo) /\ me.pc \in Reading \cup Saving =>
              Proceed(me) = Start(BootRest, me.cfg)
         /\ me.pc = "watch" /\ me.todo = BootRest =>
              Proceed(me) = Start(<<"apply", "apply", "hooks">>, me.cfg)
         /\ BootTodo(me.pc, me.todo) /\ me.pc = "peer" =>
              \/ Proceed(me) = Start(BootRest, me.cfg)
              \/ Proceed(me) = Start(<<"apply", "hooks">>, me.cfg)
              \/ Proceed(me) = Start(<<"hooks">>, me.cfg)
         /\ me.pc = "hooks" /\ me.todo = <<"hooks">> => Proceed(me) = Idle(me.cfg)
<1>1. ASSUME me.todo = <<"load", "watch", "apply", "apply", "hooks">>
             \/ me.todo = <<"save", "watch", "apply", "apply", "hooks">>
      PROVE  Proceed(me) = Start(BootRest, me.cfg)
  <2>1. Len(me.todo) # 1 /\ Tail(me.todo) = BootRest
    <3>1. CASE me.todo = <<"load", "watch", "apply", "apply", "hooks">>
      BY <3>1 DEF BootRest
    <3>2. CASE me.todo = <<"save", "watch", "apply", "apply", "hooks">>
      BY <3>2 DEF BootRest
    <3> QED
      BY <1>1, <3>1, <3>2
  <2> QED
    BY <2>1, MoreToDo
<1>2. ASSUME me.todo = BootRest
      PROVE  Proceed(me) = Start(<<"apply", "apply", "hooks">>, me.cfg)
  <2>1. Len(me.todo) # 1 /\ Tail(me.todo) = <<"apply", "apply", "hooks">>
    BY <1>2 DEF BootRest
  <2> QED
    BY <2>1, MoreToDo
<1>3. ASSUME me.todo = <<"apply", "apply", "hooks">>
      PROVE  Proceed(me) = Start(<<"apply", "hooks">>, me.cfg)
  <2>1. Len(me.todo) # 1 /\ Tail(me.todo) = <<"apply", "hooks">>
    BY <1>3
  <2> QED
    BY <2>1, MoreToDo
<1>4. ASSUME me.todo = <<"apply", "hooks">>
      PROVE  Proceed(me) = Start(<<"hooks">>, me.cfg)
  <2>1. Len(me.todo) # 1 /\ Tail(me.todo) = <<"hooks">>
    BY <1>4
  <2> QED
    BY <2>1, MoreToDo
<1>5. ASSUME me.todo = <<"hooks">>
      PROVE  Proceed(me) = Idle(me.cfg)
  BY <1>5 DEF Proceed
<1> QED
  BY <1>1, <1>2, <1>3, <1>4, <1>5 DEF BootTodo, Reading, Saving, Storing

LEMMA WatcherGoesOn ==
  ASSUME NEW me \in Threads, WatcherTodo(me.pc, me.todo)
  PROVE  /\ me.pc \in Reading \cup Saving => Proceed(me) = Start(<<"apply">>, me.cfg)
         /\ me.pc = "peer" => \/ Proceed(me) = Start(<<"apply">>, me.cfg)
                              \/ Proceed(me) = Idle(me.cfg)
<1>1. ASSUME me.todo = <<"load", "apply">> \/ me.todo = <<"save", "apply">>
      PROVE  Proceed(me) = Start(<<"apply">>, me.cfg)
  <2>1. Len(me.todo) # 1 /\ Tail(me.todo) = <<"apply">>
    <3>1. CASE me.todo = <<"load", "apply">>
      BY <3>1
    <3>2. CASE me.todo = <<"save", "apply">>
      BY <3>2
    <3> QED
      BY <1>1, <3>1, <3>2
  <2> QED
    BY <2>1, MoreToDo
<1>2. ASSUME me.todo = <<"apply">>
      PROVE  Proceed(me) = Idle(me.cfg)
  BY <1>2 DEF Proceed
<1> QED
  BY <1>1, <1>2 DEF WatcherTodo, Reading, Saving, Storing

LEMMA OneAndThen ==
  ASSUME NEW S, NEW e \in S, NEW rest \in Seq(S), NEW whole \in Seq(S),
         Len(whole) = Len(rest) + 1, whole[1] = e,
         \A i \in 1..Len(rest) : whole[i + 1] = rest[i]
  PROVE  <<e>> \o rest = whole
<1> DEFINE one == <<e>>
           both == one \o rest
<1>1. one \in Seq(S) /\ Len(one) = 1 /\ one[1] = e /\ Len(rest) \in Nat
  BY LenProperties
<1> HIDE DEF one
<1>2. /\ both \in Seq(S) /\ Len(both) = Len(one) + Len(rest)
      /\ \A i \in 1..(Len(one) + Len(rest)) :
           both[i] = IF i <= Len(one) THEN one[i] ELSE rest[i - Len(one)]
  BY <1>1, ConcatProperties
<1> HIDE DEF both
<1>3. Len(both) = Len(whole)
  BY <1>1, <1>2
<1>4. \A i \in 1..Len(both) : both[i] = whole[i]
  <2> SUFFICES ASSUME NEW i \in 1..Len(both) PROVE both[i] = whole[i]
    OBVIOUS
  <2>1. CASE i = 1
    BY <1>1, <1>2, <2>1
  <2>2. CASE i # 1
    <3>1. i - 1 \in 1..Len(rest) /\ (i - 1) + 1 = i
      BY <1>1, <1>2, <2>2
    <3>2. both[i] = rest[i - 1]
      BY <1>1, <1>2, <2>2
    <3> QED
      BY <3>1, <3>2
  <2> QED
    BY <2>1, <2>2
<1>5. both = whole
  BY <1>2, <1>3, <1>4, SeqEqual
<1> QED
  BY <1>5 DEF both, one

LEMMA SaveInstead ==
  /\ <<"save">> \o Tail(<<"load", "watch", "apply", "apply", "hooks">>)
       = <<"save", "watch", "apply", "apply", "hooks">>
  /\ <<"save">> \o Tail(<<"load", "apply">>) = <<"save", "apply">>
<1>1. Tail(<<"load", "watch", "apply", "apply", "hooks">>) = BootRest
  BY DEF BootRest
<1>2. Tail(<<"load", "apply">>) = <<"apply">>
  OBVIOUS
<1>3. <<"save">> \o BootRest = <<"save", "watch", "apply", "apply", "hooks">>
  <2> DEFINE whole == <<"save", "watch", "apply", "apply", "hooks">>
  <2>1. BootRest \in Seq(Routines) /\ whole \in Seq(Routines) /\ "save" \in Routines
    BY DEF BootRest, Routines
  <2>2. Len(BootRest) = 4 /\ Len(whole) = 5 /\ whole[1] = "save"
    BY DEF BootRest
  <2>3. \A i \in 1..4 : whole[i + 1] = BootRest[i]
    <3> SUFFICES ASSUME NEW i \in 1..4 PROVE whole[i + 1] = BootRest[i]
      OBVIOUS
    <3>1. i = 1 \/ i = 2 \/ i = 3 \/ i = 4
      OBVIOUS
    <3> QED
      BY <3>1 DEF BootRest
  <2> HIDE DEF whole
  <2>4. Len(whole) = Len(BootRest) + 1 /\ \A i \in 1..Len(BootRest) : whole[i + 1] = BootRest[i]
    BY <2>2, <2>3
  <2>5. <<"save">> \o BootRest = whole
    BY <2>1, <2>2, <2>4, OneAndThen, Zenon
  <2> QED
    BY <2>5 DEF whole
<1>4. <<"save">> \o <<"apply">> = <<"save", "apply">>
  <2> DEFINE whole == <<"save", "apply">>
             rest == <<"apply">>
  <2>1. rest \in Seq(Routines) /\ whole \in Seq(Routines) /\ "save" \in Routines
    BY DEF Routines
  <2>2. Len(rest) = 1 /\ Len(whole) = 2 /\ whole[1] = "save" /\ whole[2] = rest[1]
    OBVIOUS
  <2> HIDE DEF whole, rest
  <2>3. Len(whole) = Len(rest) + 1 /\ \A i \in 1..Len(rest) : whole[i + 1] = rest[i]
    BY <2>2
  <2>4. <<"save">> \o rest = whole
    BY <2>1, <2>2, <2>3, OneAndThen, Zenon
  <2> QED
    BY <2>4 DEF whole, rest
<1> QED
  BY <1>1, <1>2, <1>3, <1>4

LEMMA Starts ==
  ASSUME NEW cfg
  PROVE  /\ Start(<<"load", "watch", "apply", "apply", "hooks">>, cfg) =
              [pc |-> "exists", todo |-> <<"load", "watch", "apply", "apply", "hooks">>,
               cfg |-> cfg, existing |-> NoFile]
         /\ Start(<<"save", "watch", "apply", "apply", "hooks">>, cfg) =
              [pc |-> "existing", todo |-> <<"save", "watch", "apply", "apply", "hooks">>,
               cfg |-> cfg, existing |-> NoFile]
         /\ Start(BootRest, cfg) =
              [pc |-> "watch", todo |-> BootRest, cfg |-> cfg, existing |-> NoFile]
         /\ Start(<<"apply", "apply", "hooks">>, cfg) =
              [pc |-> "enabled", todo |-> <<"apply", "apply", "hooks">>, cfg |-> cfg,
               existing |-> NoFile]
         /\ Start(<<"apply", "hooks">>, cfg) =
              [pc |-> "enabled", todo |-> <<"apply", "hooks">>, cfg |-> cfg,
               existing |-> NoFile]
         /\ Start(<<"hooks">>, cfg) =
              [pc |-> "hooks", todo |-> <<"hooks">>, cfg |-> cfg, existing |-> NoFile]
         /\ Start(<<"load", "apply">>, cfg) =
              [pc |-> "exists", todo |-> <<"load", "apply">>, cfg |-> cfg,
               existing |-> NoFile]
         /\ Start(<<"save", "apply">>, cfg) =
              [pc |-> "existing", todo |-> <<"save", "apply">>, cfg |-> cfg,
               existing |-> NoFile]
         /\ Start(<<"apply">>, cfg) =
              [pc |-> "enabled", todo |-> <<"apply">>, cfg |-> cfg, existing |-> NoFile]
BY DEF Start, EntryOf, BootRest

(* Where a thread that is done with its routine goes on, and that it keeps *)
(* the configuration it has in hand.                                       *)
GoesTo(a, pc) ==
    IF a = "watcher" THEN IF pc = "peer" THEN {"enabled", "idle"} ELSE {"enabled"}
    ELSE IF pc = "peer" THEN {"watch", "enabled", "hooks"}
    ELSE IF pc = "watch" THEN {"enabled"}
    ELSE IF pc = "hooks" THEN {"idle"} ELSE {"watch"}

LEMMA StartsThread ==
  ASSUME NEW cfg \in Configs
  PROVE  /\ \A todo \in {BootRest, <<"apply", "apply", "hooks">>, <<"apply", "hooks">>,
                         <<"hooks">>, <<"save", "watch", "apply", "apply", "hooks">>,
                         <<"load", "watch", "apply", "apply", "hooks">>} :
              /\ Start(todo, cfg) \in Threads /\ BootTodo(Start(todo, cfg).pc, todo)
              /\ Start(todo, cfg).todo = todo /\ Start(todo, cfg).cfg = cfg
         /\ \A todo \in {<<"apply">>, <<"save", "apply">>, <<"load", "apply">>} :
              /\ Start(todo, cfg) \in Threads /\ WatcherTodo(Start(todo, cfg).pc, todo)
              /\ Start(todo, cfg).todo = todo /\ Start(todo, cfg).cfg = cfg
         /\ Idle(cfg) \in Threads /\ Idle(cfg).todo = <<>> /\ Idle(cfg).cfg = cfg
         /\ Idle(cfg).pc = "idle"
<1>1. /\ BootRest \in Seq(Routines) /\ <<"apply", "apply", "hooks">> \in Seq(Routines)
      /\ <<"apply", "hooks">> \in Seq(Routines) /\ <<"hooks">> \in Seq(Routines)
      /\ <<"save", "watch", "apply", "apply", "hooks">> \in Seq(Routines)
      /\ <<"load", "watch", "apply", "apply", "hooks">> \in Seq(Routines)
      /\ <<"apply">> \in Seq(Routines) /\ <<"save", "apply">> \in Seq(Routines)
      /\ <<"load", "apply">> \in Seq(Routines) /\ <<>> \in Seq(Routines)
  BY EmptySeq DEF BootRest, Routines
<1>2. NoFile \in Contents
  BY DEF Contents
<1>3. \A pc \in Pcs, todo \in Seq(Routines) :
         [pc |-> pc, todo |-> todo, cfg |-> cfg, existing |-> NoFile] \in Threads
  BY <1>2 DEF Threads
<1>4. {"exists", "existing", "watch", "enabled", "hooks", "idle"} \subseteq Pcs
  BY DEF Pcs, Reading, Saving, Storing
<1>5. \A todo \in {BootRest, <<"apply", "apply", "hooks">>, <<"apply", "hooks">>,
                   <<"hooks">>, <<"save", "watch", "apply", "apply", "hooks">>,
                   <<"load", "watch", "apply", "apply", "hooks">>} :
         /\ Start(todo, cfg) \in Threads /\ BootTodo(Start(todo, cfg).pc, todo)
         /\ Start(todo, cfg).todo = todo /\ Start(todo, cfg).cfg = cfg
  <2> SUFFICES ASSUME NEW todo \in {BootRest, <<"apply", "apply", "hooks">>,
                   <<"apply", "hooks">>, <<"hooks">>,
                   <<"save", "watch", "apply", "apply", "hooks">>,
                   <<"load", "watch", "apply", "apply", "hooks">>}
               PROVE  /\ Start(todo, cfg) \in Threads /\ BootTodo(Start(todo, cfg).pc, todo)
                      /\ Start(todo, cfg).todo = todo /\ Start(todo, cfg).cfg = cfg
    OBVIOUS
  <2>1. PICK pc \in {"exists", "existing", "watch", "enabled", "hooks"} :
          /\ Start(todo, cfg) =
               [pc |-> pc, todo |-> todo, cfg |-> cfg, existing |-> NoFile]
          /\ BootTodo(pc, todo)
    BY Starts DEF BootTodo, Reading, Saving, Storing
  <2>2. todo \in Seq(Routines)
    BY <1>1
  <2> QED
    BY <1>3, <1>4, <2>1, <2>2
<1>6. \A todo \in {<<"apply">>, <<"save", "apply">>, <<"load", "apply">>} :
         /\ Start(todo, cfg) \in Threads /\ WatcherTodo(Start(todo, cfg).pc, todo)
         /\ Start(todo, cfg).todo = todo /\ Start(todo, cfg).cfg = cfg
  <2> SUFFICES ASSUME NEW todo \in {<<"apply">>, <<"save", "apply">>, <<"load", "apply">>}
               PROVE  /\ Start(todo, cfg) \in Threads /\ WatcherTodo(Start(todo, cfg).pc, todo)
                      /\ Start(todo, cfg).todo = todo /\ Start(todo, cfg).cfg = cfg
    OBVIOUS
  <2>1. PICK pc \in {"exists", "existing", "enabled"} :
          /\ Start(todo, cfg) =
               [pc |-> pc, todo |-> todo, cfg |-> cfg, existing |-> NoFile]
          /\ WatcherTodo(pc, todo)
    BY Starts DEF WatcherTodo, Reading, Saving, Storing
  <2>2. todo \in Seq(Routines)
    BY <1>1
  <2> QED
    BY <1>3, <1>4, <2>1, <2>2
<1>7. /\ Idle(cfg) \in Threads /\ Idle(cfg).todo = <<>> /\ Idle(cfg).cfg = cfg
      /\ Idle(cfg).pc = "idle"
  BY <1>1, <1>3, <1>4 DEF Idle
<1> QED
  BY <1>5, <1>6, <1>7

LEMMA StartPlaces ==
  ASSUME NEW cfg
  PROVE  /\ Start(BootRest, cfg).pc = "watch"
         /\ Start(<<"apply", "apply", "hooks">>, cfg).pc = "enabled"
         /\ Start(<<"apply", "hooks">>, cfg).pc = "enabled"
         /\ Start(<<"hooks">>, cfg).pc = "hooks"
         /\ Start(<<"save", "watch", "apply", "apply", "hooks">>, cfg).pc = "existing"
         /\ Start(<<"load", "watch", "apply", "apply", "hooks">>, cfg).pc = "exists"
         /\ Start(<<"apply">>, cfg).pc = "enabled"
         /\ Start(<<"save", "apply">>, cfg).pc = "existing"
         /\ Start(<<"load", "apply">>, cfg).pc = "exists"
<1>1. \A todo : Start(todo, cfg).pc = EntryOf(Head(todo))
  BY DEF Start
<1>2. /\ EntryOf("watch") = "watch" /\ EntryOf("apply") = "enabled"
      /\ EntryOf("hooks") = "hooks" /\ EntryOf("save") = "existing"
      /\ EntryOf("load") = "exists"
  BY DEF EntryOf
<1>3. /\ Head(BootRest) = "watch" /\ Head(<<"apply", "apply", "hooks">>) = "apply"
      /\ Head(<<"apply", "hooks">>) = "apply" /\ Head(<<"hooks">>) = "hooks"
      /\ Head(<<"save", "watch", "apply", "apply", "hooks">>) = "save"
      /\ Head(<<"load", "watch", "apply", "apply", "hooks">>) = "load"
      /\ Head(<<"apply">>) = "apply" /\ Head(<<"save", "apply">>) = "save"
      /\ Head(<<"load", "apply">>) = "load"
  BY DEF BootRest
<1>4. \A todo : Head(todo) = "apply" => Start(todo, cfg).pc = "enabled"
  BY <1>1, <1>2
<1>5. \A todo : Head(todo) = "save" => Start(todo, cfg).pc = "existing"
  BY <1>1, <1>2
<1>6. \A todo : Head(todo) = "load" => Start(todo, cfg).pc = "exists"
  BY <1>1, <1>2
<1>7. Start(BootRest, cfg).pc = "watch" /\ Start(<<"hooks">>, cfg).pc = "hooks"
  BY <1>1, <1>2, <1>3
<1>8. /\ Start(<<"apply", "apply", "hooks">>, cfg).pc = "enabled"
      /\ Start(<<"apply", "hooks">>, cfg).pc = "enabled"
      /\ Start(<<"apply">>, cfg).pc = "enabled"
  BY <1>3, <1>4, Zenon
<1>9. /\ Start(<<"save", "watch", "apply", "apply", "hooks">>, cfg).pc = "existing"
      /\ Start(<<"save", "apply">>, cfg).pc = "existing"
  BY <1>3, <1>5, Zenon
<1>10. /\ Start(<<"load", "watch", "apply", "apply", "hooks">>, cfg).pc = "exists"
       /\ Start(<<"load", "apply">>, cfg).pc = "exists"
  BY <1>3, <1>6, Zenon
<1> QED
  BY <1>7, <1>8, <1>9, <1>10

(* The thread a routine is begun for, without its record. *)
LEMMA BootStarts ==
  ASSUME NEW cfg \in Configs, NEW me, NEW todo \in {BootRest, <<"apply", "apply", "hooks">>,
             <<"apply", "hooks">>, <<"hooks">>,
             <<"save", "watch", "apply", "apply", "hooks">>,
             <<"load", "watch", "apply", "apply", "hooks">>},
         me = Start(todo, cfg)
  PROVE  me \in Threads /\ Todo("boot", me) /\ me.cfg = cfg
<1>1. /\ me \in Threads /\ BootTodo(me.pc, todo)
      /\ me.todo = todo /\ me.cfg = cfg
  BY StartsThread, Zenon
<1> QED
  BY <1>1, Zenon DEF Todo

LEMMA WatcherStarts ==
  ASSUME NEW cfg \in Configs, NEW me,
         NEW todo \in {<<"apply">>, <<"save", "apply">>, <<"load", "apply">>},
         me = Start(todo, cfg)
  PROVE  me \in Threads /\ Todo("watcher", me) /\ me.cfg = cfg
<1>1. /\ me \in Threads /\ WatcherTodo(me.pc, todo)
      /\ me.todo = todo /\ me.cfg = cfg
  BY StartsThread, Zenon
<1> QED
  BY <1>1, Zenon DEF Todo

LEMMA Idles ==
  ASSUME NEW cfg \in Configs, NEW me, NEW a \in Actors, me = Idle(cfg)
  PROVE  me \in Threads /\ Todo(a, me) /\ me.cfg = cfg /\ me.pc = "idle"
BY StartsThread DEF Todo, BootTodo, WatcherTodo

LEMMA Proceeds ==
  ASSUME NEW a \in Actors, NEW me \in Threads, Todo(a, me),
         me.pc \in Reading \cup Saving \cup {"peer", "watch", "hooks"}
  PROVE  /\ Proceed(me) \in Threads /\ Todo(a, Proceed(me))
         /\ Proceed(me).cfg = me.cfg /\ Proceed(me).pc \in GoesTo(a, me.pc)
<1>0. me.cfg \in Configs
  BY DEF Threads
<1> DEFINE next == Proceed(me)
<1>1. CASE a = "boot"
  <2>0. BootTodo(me.pc, me.todo)
    BY <1>1 DEF Todo
  <2>1. CASE me.pc \in Reading \cup Saving
    <3>1. next = Start(BootRest, me.cfg)
      BY <2>0, <2>1, BootGoesOn
    <3> HIDE DEF next
    <3>2. next \in Threads /\ Todo("boot", next) /\ next.cfg = me.cfg
      BY <1>0, <3>1, BootStarts
    <3>3. next.pc = "watch"
      BY <3>1, StartPlaces
    <3>4. "watch" \in GoesTo(a, me.pc)
      BY <1>1, <2>1 DEF GoesTo, Reading, Saving
    <3> QED
      BY <1>1, <3>2, <3>3, <3>4 DEF next
  <2>2. CASE me.pc = "watch"
    <3>1. next = Start(<<"apply", "apply", "hooks">>, me.cfg)
      BY <2>0, <2>2, BootGoesOn DEF BootTodo, Reading, Saving, Storing
    <3> HIDE DEF next
    <3>2. next \in Threads /\ Todo("boot", next) /\ next.cfg = me.cfg
      BY <1>0, <3>1, BootStarts
    <3>3. next.pc = "enabled"
      BY <3>1, StartPlaces
    <3> QED
      BY <1>1, <2>2, <3>2, <3>3 DEF next, GoesTo
  <2>3. CASE me.pc = "peer"
    <3>1. \/ next = Start(BootRest, me.cfg)
          \/ next = Start(<<"apply", "hooks">>, me.cfg)
          \/ next = Start(<<"hooks">>, me.cfg)
      BY <2>0, <2>3, BootGoesOn
    <3> HIDE DEF next
    <3>2. next \in Threads /\ Todo("boot", next) /\ next.cfg = me.cfg
      BY <1>0, <3>1, BootStarts
    <3>3. next.pc \in {"watch", "enabled", "hooks"}
      BY <3>1, StartPlaces
    <3> QED
      BY <1>1, <2>3, <3>2, <3>3 DEF next, GoesTo
  <2>4. CASE me.pc = "hooks"
    <3>1. next = Idle(me.cfg)
      BY <2>0, <2>4, BootGoesOn DEF BootTodo, Reading, Saving, Storing
    <3> HIDE DEF next
    <3>2. next \in Threads /\ Todo(a, next) /\ next.cfg = me.cfg /\ next.pc = "idle"
      BY <1>0, <3>1, Idles
    <3> QED
      BY <1>1, <2>4, <3>2 DEF next, GoesTo
  <2> QED
    BY <2>1, <2>2, <2>3, <2>4
<1>2. CASE a = "watcher"
  <2>0. WatcherTodo(me.pc, me.todo)
    BY <1>2 DEF Todo
  <2>1. CASE me.pc \in Reading \cup Saving
    <3>1. next = Start(<<"apply">>, me.cfg)
      BY <2>0, <2>1, WatcherGoesOn
    <3> HIDE DEF next
    <3>2. next \in Threads /\ Todo("watcher", next) /\ next.cfg = me.cfg
      BY <1>0, <3>1, WatcherStarts
    <3>3. next.pc = "enabled"
      BY <3>1, StartPlaces
    <3>4. "enabled" \in GoesTo(a, me.pc)
      BY <1>2, <2>1 DEF GoesTo, Reading, Saving
    <3> QED
      BY <1>2, <3>2, <3>3, <3>4 DEF next
  <2>2. CASE me.pc = "peer"
    <3>1. next = Start(<<"apply">>, me.cfg) \/ next = Idle(me.cfg)
      BY <2>0, <2>2, WatcherGoesOn
    <3> HIDE DEF next
    <3>2. CASE next = Start(<<"apply">>, me.cfg)
      <4>1. next \in Threads /\ Todo("watcher", next) /\ next.cfg = me.cfg
        BY <1>0, <3>2, WatcherStarts
      <4>2. next.pc = "enabled"
        BY <3>2, StartPlaces
      <4> QED
        BY <1>2, <2>2, <4>1, <4>2 DEF next, GoesTo
    <3>3. CASE next = Idle(me.cfg)
      <4>1. next \in Threads /\ Todo(a, next) /\ next.cfg = me.cfg /\ next.pc = "idle"
        BY <1>0, <3>3, Idles
      <4> QED
        BY <1>2, <2>2, <4>1 DEF next, GoesTo
    <3> QED
      BY <3>1, <3>2, <3>3
  <2>3. me.pc \notin {"watch", "hooks"}
    BY <2>0 DEF WatcherTodo, Reading, Saving, Storing
  <2> QED
    BY <2>1, <2>2, <2>3
<1> QED
  BY <1>1, <1>2 DEF Actors

(* Once the watcher is there the bootstrap only stores and installs. *)
Watched == {<<"apply", "apply", "hooks">>, <<"apply", "hooks">>, <<"hooks">>, <<>>}

LEMMA WatchedIsShort ==
  ASSUME NEW todo \in Watched
  PROVE  Len(todo) \in 0..3
<1>1. Len(<<"apply", "apply", "hooks">>) = 3 /\ Len(<<"apply", "hooks">>) = 2
      /\ Len(<<"hooks">>) = 1 /\ Len(<<>>) = 0
  OBVIOUS
<1>2. \/ todo = <<"apply", "apply", "hooks">> \/ todo = <<"apply", "hooks">>
      \/ todo = <<"hooks">> \/ todo = <<>>
  BY Zenon DEF Watched
<1>3. Len(todo) = 3 \/ Len(todo) = 2 \/ Len(todo) = 1 \/ Len(todo) = 0
  BY <1>1, <1>2, Zenon
<1> QED
  BY <1>3

LEMMA NotWatched ==
  /\ <<"load", "watch", "apply", "apply", "hooks">> \notin Watched
  /\ <<"save", "watch", "apply", "apply", "hooks">> \notin Watched
  /\ BootRest \notin Watched
<1> DEFINE l == <<"load", "watch", "apply", "apply", "hooks">>
           s == <<"save", "watch", "apply", "apply", "hooks">>
<1>1. Len(l) = 5 /\ Len(s) = 5 /\ Len(BootRest) = 4
  BY DEF BootRest
<1> HIDE DEF l, s
<1>2. l \notin Watched /\ s \notin Watched /\ BootRest \notin Watched
  BY <1>1, WatchedIsShort
<1> QED
  BY <1>2 DEF l, s

LEMMA StartTodo ==
  ASSUME NEW todo, NEW cfg
  PROVE  Start(todo, cfg).todo = todo
BY DEF Start

LEMMA StaysWatched ==
  ASSUME NEW me \in Threads, Todo("boot", me)
  PROVE  /\ me.pc = "watch" => Proceed(me).todo \in Watched
         /\ me.todo \in Watched /\ me.pc \in {"peer", "hooks"} => Proceed(me).todo \in Watched
         /\ me.todo \in Watched => me.pc \in Storing \cup {"hooks", "idle"}
<1>0. me.cfg \in Configs /\ BootTodo(me.pc, me.todo)
  BY DEF Threads, Todo
<1> DEFINE next == Proceed(me)
<1>1. CASE me.pc = "watch"
  <2>1. me.todo = BootRest
    BY <1>0, <1>1 DEF BootTodo, Reading, Saving, Storing
  <2>2. next = Start(<<"apply", "apply", "hooks">>, me.cfg)
    BY <1>1, <2>1, BootGoesOn
  <2> HIDE DEF next
  <2>3. next.todo = <<"apply", "apply", "hooks">>
    BY <2>2, StartTodo
  <2>4. me.todo \notin Watched
    BY <2>1, NotWatched
  <2> QED
    BY <1>1, <2>3, <2>4 DEF next, Watched
<1>2. CASE me.pc # "watch" /\ me.todo \in Watched
  <2>1. me.pc \in Storing \cup {"hooks", "idle"}
    <3> HIDE DEF next
    <3> QED
      BY <1>0, <1>2, NotWatched DEF BootTodo
  <2>2. CASE me.pc = "peer"
    <3>1. me.todo \in {<<"apply", "apply", "hooks">>, <<"apply", "hooks">>}
      <4>1. me.pc \notin Reading \cup Saving \cup {"watch", "hooks", "idle"}
        BY <2>2 DEF Reading, Saving
      <4> HIDE DEF next
      <4> QED
        BY <1>0, <1>2, <4>1, NotWatched DEF BootTodo
    <3>2. \/ next = Start(<<"apply", "hooks">>, me.cfg)
          \/ next = Start(<<"hooks">>, me.cfg)
      <4>1. CASE me.todo = <<"apply", "apply", "hooks">>
        <5>1. Len(me.todo) # 1 /\ Tail(me.todo) = <<"apply", "hooks">>
          BY <4>1
        <5> QED
          BY <5>1, MoreToDo
      <4>2. CASE me.todo = <<"apply", "hooks">>
        <5>1. Len(me.todo) # 1 /\ Tail(me.todo) = <<"hooks">>
          BY <4>2
        <5> QED
          BY <5>1, MoreToDo
      <4> QED
        BY <3>1, <4>1, <4>2
    <3> HIDE DEF next
    <3>3. next.todo \in Watched
      BY <3>2, StartTodo DEF Watched
    <3> QED
      BY <2>1, <2>2, <3>3 DEF next
  <2>3. CASE me.pc = "hooks"
    <3>1. next = Idle(me.cfg)
      BY <1>0, <2>3, BootGoesOn DEF BootTodo, Reading, Saving, Storing
    <3> HIDE DEF next
    <3>2. next.todo = <<>>
      BY <3>1 DEF Idle
    <3> QED
      BY <2>1, <2>3, <3>2 DEF next, Watched
  <2> QED
    BY <1>2, <2>1, <2>2, <2>3
<1> QED
  BY <1>1, <1>2

-----------------------------------------------------------------------------
(***************************************************************************)
(* The inductive invariant.                                                *)
(***************************************************************************)

(* The watcher comes after the bootstrap's load and save, and has nothing  *)
(* to do before.                                                           *)
WatchedLater ==
    /\ watching => actor["boot"].todo \in Watched
    /\ ~watching => ~event /\ At("watcher", "idle")

(* The configuration in hand is the file's, and what has been stored of it *)
(* is still in force.                                                      *)
InHand(a) == IsObject(file) => file.own = actor[a].cfg
Stored(a) ==
    LET cfg == actor[a].cfg
    IN /\ actor[a].pc \in {"detail", "p2p", "peer"} => live.hooks = cfg.hooks
       /\ actor[a].pc \in {"p2p", "peer"} => live.detail = cfg.detail
       /\ actor[a].pc = "peer" => live.p2p = cfg.p2p

(* Unless the launcher has written since, what the bootstrap has loaded is *)
(* what the file says, and nobody disturbs it.                             *)
BootCurrent ==
    ~past.stale /\ actor["boot"].pc \notin Reading \cup {"hooks", "idle"} =>
        /\ ~event /\ At("watcher", "idle")
        /\ InHand("boot") /\ Stored("boot")

(* Later the same holds of the watcher, as long as no change is announced; *)
(* and while it rests, of the settings.                                    *)
WatcherCurrent ==
    ~past.stale /\ watching /\ ~event /\ actor["boot"].pc \in {"hooks", "idle"} =>
        /\ actor["watcher"].pc \in {"existing", "open"} \cup Storing =>
             InHand("watcher") /\ Stored("watcher")
        /\ At("watcher", "idle") /\ IsObject(file) => live = file.own

(* While nobody has met a file that somebody else had emptied, or written  *)
(* it within another's save: a save under way has read the launcher's last *)
(* edit, and the launcher is not at it.                                    *)
Carries(a) ==
    /\ launcher = "idle" /\ actor[a].existing # Torn
    /\ IsObject(actor[a].existing) => actor[a].existing.launcher = edits
    /\ actor[a].existing = NoFile => edits = 0
LauncherAlone ==
    ~past.torn /\ ~past.overtaken =>
        /\ launcher = "emptied" => file = Torn
        /\ launcher = "idle" /\ IsObject(file) => file.launcher = edits
        /\ file = NoFile => edits = 0
        /\ \A a \in Actors : actor[a].pc \in {"open", "fill"} => Carries(a)

(* A call under way: before it is rerouted it goes where the game sends    *)
(* it, and while the settings do not change it has seen them.              *)
CallKnows ==
    /\ call.pc \in {"flag", "peer"} => call.via = call.to
    /\ call.pc = "peer" /\ call.steady => live.p2p

ConfigInv ==
    /\ Types /\ WatchedLater /\ BootCurrent /\ WatcherCurrent
    /\ LauncherAlone /\ CallKnows /\ HooksAsConfigured

-----------------------------------------------------------------------------
(* What the steps of a thread do. *)

Moved(a, me) == actor' = [actor EXCEPT ![a] = me]

LEMMA Moves ==
  ASSUME Types, NEW a \in Actors, NEW me \in Threads, Todo(a, me), Moved(a, me)
  PROVE  /\ actor' \in [Actors -> Threads] /\ \A b \in Actors : Todo(b, actor'[b])
         /\ actor'[a] = me /\ \A b \in Actors \ {a} : actor'[b] = actor[b]
BY DEF Types, Moved

LEMMA GoesOnIn ==
  ASSUME Types, NEW a \in Actors, NEW where \in Pcs, Goto(a, where),
         \/ actor[a].pc \in Reading /\ where \in Reading
         \/ actor[a].pc \in Saving /\ where \in Saving \cup Storing
         \/ actor[a].pc \in Storing /\ where \in Storing
  PROVE  \E me \in Threads : /\ Moved(a, me) /\ Todo(a, me) /\ me.pc = where
                             /\ me.todo = actor[a].todo /\ me.cfg = actor[a].cfg
                             /\ me.existing = actor[a].existing
<1> DEFINE me == [actor[a] EXCEPT !.pc = where]
<1>1. actor[a] \in Threads /\ Todo(a, actor[a])
  BY DEF Types
<1>2. me \in Threads /\ me.pc = where /\ me.todo = actor[a].todo
      /\ me.cfg = actor[a].cfg /\ me.existing = actor[a].existing
  BY <1>1 DEF Threads
<1>3. Moved(a, me)
  BY DEF Moved, Goto, Types
<1> HIDE DEF me
<1>4. Todo(a, me)
  <2>1. \A pc \in {"watch", "hooks", "idle"} : pc \notin Reading \cup Saving \cup Storing
    BY DEF Reading, Saving, Storing
  <2>2. Reading \cap (Saving \cup Storing) = {} /\ Saving \cap Storing = {}
    BY DEF Reading, Saving, Storing
  <2>3. CASE a = "boot"
    <3>1. BootTodo(actor[a].pc, actor[a].todo)
      BY <1>1, <2>3 DEF Todo
    <3>2. BootTodo(where, actor[a].todo)
      BY <2>1, <2>2, <3>1 DEF BootTodo
    <3> QED
      BY <1>2, <2>3, <3>2 DEF Todo
  <2>4. CASE a # "boot"
    <3>1. WatcherTodo(actor[a].pc, actor[a].todo)
      BY <1>1, <2>4 DEF Todo
    <3>2. WatcherTodo(where, actor[a].todo)
      BY <2>1, <2>2, <3>1 DEF WatcherTodo
    <3> QED
      BY <1>2, <2>4, <3>2 DEF Todo
  <2> QED
    BY <2>3, <2>4
<1> QED
  BY <1>2, <1>3, <1>4

LEMMA Finishes ==
  ASSUME Types, NEW a \in Actors, Finish(a),
         actor[a].pc \in Reading \cup Saving \cup {"peer", "watch", "hooks"}
  PROVE  \E me \in Threads : /\ Moved(a, me) /\ Todo(a, me) /\ me = Proceed(actor[a])
                             /\ me.pc \in GoesTo(a, actor[a].pc) /\ me.cfg = actor[a].cfg
<1>1. actor[a] \in Threads /\ Todo(a, actor[a])
  BY DEF Types
<1>2. Moved(a, Proceed(actor[a]))
  BY DEF Moved, Finish, Types
<1> QED
  BY <1>1, <1>2, Proceeds

(* A thread has read the file: it saves first, or is done. *)
LEMMA ReadingEnds ==
  ASSUME Types, NEW a \in Actors, actor[a].pc \in Reading, NEW cfg \in Configs,
         SaveFirst(a, cfg) \/ LoadDone(a, cfg)
  PROVE  \E me \in Threads : /\ Moved(a, me) /\ Todo(a, me) /\ me.cfg = cfg
                             /\ me.pc \in {"existing"} \cup GoesTo(a, "read")
<1>1. actor[a] \in Threads /\ Todo(a, actor[a])
  BY DEF Types
<1>2. CASE SaveFirst(a, cfg)
  <2> DEFINE me == Start(<<"save">> \o Tail(actor[a].todo), cfg)
  <2>1. Moved(a, me)
    BY <1>2 DEF Moved, SaveFirst
  <2>2. CASE a = "boot"
    <3>1. actor[a].todo = <<"load", "watch", "apply", "apply", "hooks">>
      BY <1>1, <2>2 DEF Todo, BootTodo, Reading, Saving, Storing
    <3>2. me = Start(<<"save", "watch", "apply", "apply", "hooks">>, cfg)
      BY <3>1, SaveInstead
    <3> HIDE DEF me
    <3>3. me \in Threads /\ Todo("boot", me) /\ me.cfg = cfg
      BY <3>2, BootStarts
    <3>4. me.pc = "existing"
      BY <3>2, StartPlaces
    <3> QED
      BY <2>1, <2>2, <3>3, <3>4
  <2>3. CASE a = "watcher"
    <3>1. actor[a].todo = <<"load", "apply">>
      BY <1>1, <2>3 DEF Todo, WatcherTodo, Reading, Saving, Storing
    <3>2. me = Start(<<"save", "apply">>, cfg)
      BY <3>1, SaveInstead
    <3> HIDE DEF me
    <3>3. me \in Threads /\ Todo("watcher", me) /\ me.cfg = cfg
      BY <3>2, WatcherStarts
    <3>4. me.pc = "existing"
      BY <3>2, StartPlaces
    <3> QED
      BY <2>1, <2>3, <3>3, <3>4
  <2> QED
    BY <2>2, <2>3 DEF Actors
<1>3. CASE LoadDone(a, cfg)
  <2> DEFINE read == [actor[a] EXCEPT !.cfg = cfg]
  <2>1. read \in Threads /\ read.pc = actor[a].pc /\ read.todo = actor[a].todo
        /\ read.cfg = cfg
    BY <1>1 DEF Threads
  <2>2. Moved(a, Proceed(read))
    BY <1>3 DEF Moved, LoadDone
  <2> HIDE DEF read
  <2>3. Todo(a, read)
    BY <1>1, <2>1 DEF Todo
  <2>4. /\ Proceed(read) \in Threads /\ Todo(a, Proceed(read))
        /\ Proceed(read).cfg = cfg /\ Proceed(read).pc \in GoesTo(a, read.pc)
    BY <2>1, <2>3, Proceeds
  <2>5. GoesTo(a, read.pc) = GoesTo(a, "read")
    BY <2>1 DEF GoesTo, Reading
  <2> QED
    BY <2>2, <2>4, <2>5
<1> QED
  BY <1>2, <1>3

(* A load reads on, or ends with what the file says. *)
LEMMA Loads ==
  ASSUME Types, NEW a \in Actors, Load(a)
  PROVE  /\ actor[a].pc \in Reading
         /\ \E me \in Threads :
              /\ Moved(a, me) /\ Todo(a, me)
              /\ \/ me.pc = "read"
                 \/ /\ me.pc \in {"existing"} \cup GoesTo(a, "read")
                    /\ IsObject(file) => file.own = me.cfg
         /\ UNCHANGED <<writes, file, event, watching, launcher, netVars, edits>>
         /\ past' \in [torn : BOOLEAN, overtaken : BOOLEAN, failed : BOOLEAN, stale : BOOLEAN]
         /\ past'.stale = past.stale /\ past'.overtaken = past.overtaken
         /\ past.torn => past'.torn
<1>1. CASE LoadExists(a)
  <2>1. actor[a].pc \in Reading /\ actor[a].pc = "exists"
    BY <1>1 DEF LoadExists, At, Reading
  <2>2. CASE file = NoFile
    <3>1. SaveFirst(a, DefaultConfig) \/ LoadDone(a, DefaultConfig)
      BY <1>1, <2>2 DEF LoadExists, UseDefault
    <3>2. \E me \in Threads : /\ Moved(a, me) /\ Todo(a, me) /\ me.cfg = DefaultConfig
                              /\ me.pc \in {"existing"} \cup GoesTo(a, "read")
      BY <2>1, <3>1, ReadingEnds, ConfigurationAssumption
    <3>3. ~IsObject(file)
      BY <2>2 DEF IsObject
    <3> QED
      BY <1>1, <2>1, <3>2, <3>3 DEF LoadExists, fileVars, Types
  <2>3. CASE file # NoFile
    <3>1. Goto(a, "read")
      BY <1>1, <2>3 DEF LoadExists
    <3>2. \E me \in Threads : Moved(a, me) /\ Todo(a, me) /\ me.pc = "read"
      BY <2>1, <3>1, GoesOnIn DEF Pcs, Reading
    <3> QED
      BY <1>1, <2>1, <3>2 DEF LoadExists, fileVars, Types
  <2> QED
    BY <2>2, <2>3
<1>2. CASE LoadRead(a)
  <2>1. actor[a].pc \in Reading
    BY <1>2 DEF LoadRead, At, Reading
  <2>2. /\ past' \in [torn : BOOLEAN, overtaken : BOOLEAN, failed : BOOLEAN, stale : BOOLEAN]
        /\ past'.stale = past.stale /\ past'.overtaken = past.overtaken
        /\ past.torn => past'.torn
    BY <1>2 DEF LoadRead, Types
  <2>3. PICK cfg \in Configs : /\ SaveFirst(a, cfg) \/ LoadDone(a, cfg)
                               /\ IsObject(file) => file.own = cfg
    <3>1. CASE ~IsObject(file)
      BY <1>2, <3>1, ConfigurationAssumption DEF LoadRead, UseDefault
    <3>2. CASE IsObject(file)
      <4>1. file.own \in Configs
        BY <3>2 DEF Types, Contents, IsObject, Objects
      <4> QED
        BY <1>2, <3>2, <4>1 DEF LoadRead
    <3> QED
      BY <3>1, <3>2
  <2>4. \E me \in Threads : /\ Moved(a, me) /\ Todo(a, me) /\ me.cfg = cfg
                            /\ me.pc \in {"existing"} \cup GoesTo(a, "read")
    BY <2>1, <2>3, ReadingEnds
  <2> QED
    BY <1>2, <2>1, <2>2, <2>3, <2>4 DEF LoadRead
<1> QED
  BY <1>1, <1>2 DEF Load

LEMMA Changes ==
  ASSUME Types, NEW by, NEW content \in Contents, Change(by, content)
  PROVE  /\ file' = content /\ file' \in Contents /\ event' = watching
         /\ past' \in [torn : BOOLEAN, overtaken : BOOLEAN, failed : BOOLEAN, stale : BOOLEAN]
         /\ past'.torn = past.torn /\ (past.overtaken => past'.overtaken)
         /\ ~past'.overtaken =>
              \A a \in Actors \ {by} : actor[a].pc \notin {"open", "fill"}
         /\ past'.stale = IF by = "launcher" THEN Missed ELSE past.stale
<1>1. Missed \in BOOLEAN
  BY DEF Missed, Types
<1> QED
  BY <1>1 DEF Change, Types, At

-----------------------------------------------------------------------------
(* Parts of the invariant that a step leaves alone. *)

LEMMA CallsKept ==
  ASSUME CallKnows, HooksAsConfigured, UNCHANGED <<live, call, line, due>>
  PROVE  CallKnows' /\ HooksAsConfigured'
BY DEF CallKnows, HooksAsConfigured, RoutedAsConfigured, SignalsLogged

(* No thread has begun a save, and none has another file in hand. *)
LEMMA AloneKept ==
  ASSUME LauncherAlone, UNCHANGED <<file, launcher, edits>>,
         past.torn => past'.torn, past.overtaken => past'.overtaken,
         \A a \in Actors : actor'[a].pc \in {"open", "fill"} =>
             /\ actor[a].pc \in {"open", "fill"}
             /\ actor'[a].existing = actor[a].existing
  PROVE  LauncherAlone'
BY DEF LauncherAlone, Carries

LEMMA TypesKept ==
  ASSUME Types, UNCHANGED <<writes, launcher, installed, edits, live, call>>,
         file' \in Contents, event' \in BOOLEAN, watching' \in BOOLEAN,
         actor' \in [Actors -> Threads], \A a \in Actors : Todo(a, actor'[a]),
         past' \in [torn : BOOLEAN, overtaken : BOOLEAN, failed : BOOLEAN, stale : BOOLEAN]
  PROVE  Types'
BY DEF Types

LEMMA GoesWhere ==
  ASSUME NEW a \in Actors, NEW pc, pc \in GoesTo(a, "read") \/ pc \in GoesTo(a, "open")
  PROVE  /\ pc \notin {"open", "fill", "detail", "p2p", "peer"}
         /\ a = "boot" => pc = "watch"
         /\ a = "watcher" => pc = "enabled"
BY DEF GoesTo, Actors

(* Before the watcher is there nothing else is under way in BLoader. *)
LEMMA BootAlone ==
  ASSUME Types, WatchedLater, actor["boot"].pc \in Reading \cup Saving \cup {"watch"}
  PROVE  ~watching /\ ~event /\ actor["watcher"].pc = "idle"
<1>1. actor["boot"] \in Threads /\ Todo("boot", actor["boot"])
  BY DEF Types, Actors
<1>2. actor["boot"].pc \notin Storing \cup {"hooks", "idle"}
  BY DEF Reading, Saving, Storing
<1>3. actor["boot"].todo \notin Watched
  BY <1>1, <1>2, StaysWatched
<1> QED
  BY <1>3 DEF WatchedLater, At

LEMMA LoadKeeps ==
  ASSUME ConfigInv, NEW a \in Actors, Load(a)
  PROVE  ConfigInv'
<1> USE DEF ConfigInv
<1>0. /\ actor[a].pc \in Reading
      /\ UNCHANGED <<writes, file, event, watching, launcher, netVars, edits>>
      /\ past' \in [torn : BOOLEAN, overtaken : BOOLEAN, failed : BOOLEAN, stale : BOOLEAN]
      /\ past'.stale = past.stale /\ past'.overtaken = past.overtaken
      /\ past.torn => past'.torn
  BY Loads
<1>1. PICK me \in Threads :
         /\ Moved(a, me) /\ Todo(a, me)
         /\ \/ me.pc = "read"
            \/ /\ me.pc \in {"existing"} \cup GoesTo(a, "read")
               /\ IsObject(file) => file.own = me.cfg
  BY Loads
<1>2. /\ actor' \in [Actors -> Threads] /\ \A b \in Actors : Todo(b, actor'[b])
      /\ actor'[a] = me /\ \A b \in Actors \ {a} : actor'[b] = actor[b]
  BY <1>1, Moves
<1>3. /\ me.pc \notin {"open", "fill", "detail", "p2p", "peer"}
      /\ a = "boot" => me.pc \in {"read", "existing", "watch"}
      /\ a = "watcher" => me.pc \in {"read", "existing", "enabled"}
  BY <1>1, GoesWhere
<1>4. Types'
  BY <1>0, <1>2, TypesKept DEF netVars, Types
<1>5. CallKnows' /\ HooksAsConfigured'
  BY <1>0, CallsKept DEF netVars
<1>6. LauncherAlone'
  BY <1>0, <1>2, <1>3, AloneKept
<1>7. CASE a = "boot"
  <2>1. ~watching /\ ~event /\ actor["watcher"].pc = "idle"
    BY <1>0, <1>7, BootAlone
  <2>2. actor'["boot"] = me /\ actor'["watcher"] = actor["watcher"]
    BY <1>2, <1>7 DEF Actors
  <2>3. WatchedLater'
    BY <1>0, <2>1, <2>2 DEF WatchedLater, At
  <2>4. BootCurrent'
    <3>1. CASE me.pc = "read"
      BY <2>2, <3>1 DEF BootCurrent, Reading
    <3>2. CASE me.pc # "read"
      BY <1>0, <1>1, <1>3, <2>1, <2>2, <3>2 DEF BootCurrent, At, InHand, Stored, IsObject
    <3> QED
      BY <3>1, <3>2
  <2>5. WatcherCurrent'
    BY <1>3, <1>7, <2>2 DEF WatcherCurrent
  <2> QED
    BY <1>4, <1>5, <1>6, <2>3, <2>4, <2>5
<1>8. CASE a = "watcher"
  <2>1. actor'["boot"] = actor["boot"] /\ actor'["watcher"] = me
        /\ actor["watcher"].pc # "idle"
    BY <1>0, <1>2, <1>8 DEF Actors, Reading
  <2>2. watching
    BY <2>1 DEF WatchedLater, At
  <2>3. WatchedLater'
    BY <1>0, <2>1, <2>2 DEF WatchedLater
  <2>4. BootCurrent'
    BY <1>0, <2>1 DEF BootCurrent, At
  <2>5. WatcherCurrent'
    BY <1>0, <1>1, <1>3, <1>8, <2>1, <2>2
       DEF WatcherCurrent, At, InHand, Stored, IsObject, Storing
  <2> QED
    BY <1>4, <1>5, <1>6, <2>3, <2>4, <2>5
<1> QED
  BY <1>7, <1>8 DEF Actors

(* A save that has read the file carries the launcher's fields. *)
LEMMA SaveExistingKeeps ==
  ASSUME ConfigInv, NEW a \in Actors, SaveExisting(a)
  PROVE  ConfigInv'
<1> USE DEF ConfigInv
<1> DEFINE me == [actor[a] EXCEPT !.existing = IF writes THEN file ELSE @,
                                  !.pc = IF writes THEN "open" ELSE "enabled"]
<1>0. /\ actor[a].pc = "existing" /\ actor[a] \in Threads /\ Todo(a, actor[a])
      /\ UNCHANGED <<writes, file, event, watching, launcher, netVars, edits>>
  BY DEF SaveExisting, At, Types
<1>1. /\ past' \in [torn : BOOLEAN, overtaken : BOOLEAN, failed : BOOLEAN, stale : BOOLEAN]
      /\ past'.stale = past.stale /\ past'.overtaken = past.overtaken
      /\ past.torn => past'.torn
      /\ ~past'.torn /\ writes => file # Torn
  BY DEF SaveExisting, Types
<1>2. /\ me \in Threads /\ me.cfg = actor[a].cfg /\ me.todo = actor[a].todo
      /\ me.pc = IF writes THEN "open" ELSE "enabled"
      /\ writes => me.existing = file
  BY <1>0 DEF Threads, Types, Pcs, Saving, Storing
<1>3. Moved(a, me)
  BY DEF SaveExisting, Moved, Types
<1> HIDE DEF me
<1>4. Todo(a, me)
  <2>1. me.pc \in Saving \cup Storing
    BY <1>2 DEF Saving, Storing
  <2> QED
    BY <1>0, <1>2, <2>1 DEF Todo, BootTodo, WatcherTodo, Reading, Storing
<1>5. /\ actor' \in [Actors -> Threads] /\ \A b \in Actors : Todo(b, actor'[b])
      /\ actor'[a] = me /\ \A b \in Actors \ {a} : actor'[b] = actor[b]
  BY <1>2, <1>3, <1>4, Moves
<1>6. Types'
  BY <1>0, <1>1, <1>5, TypesKept DEF netVars, Types
<1>7. CallKnows' /\ HooksAsConfigured'
  BY <1>0, CallsKept DEF netVars
<1>8. LauncherAlone'
  <2>1. CASE ~writes
    BY <1>0, <1>1, <1>2, <1>5, <2>1, AloneKept
  <2>2. CASE writes
    <3> SUFFICES ASSUME ~past'.torn, ~past'.overtaken PROVE LauncherAlone'
      BY DEF LauncherAlone
    <3>1. ~past.torn /\ ~past.overtaken /\ file # Torn /\ launcher = "idle"
      BY <1>1, <2>2 DEF LauncherAlone, Types
    <3>2. me.existing # Torn /\ (IsObject(me.existing) => me.existing.launcher = edits)
          /\ (me.existing = NoFile => edits = 0)
      BY <1>2, <2>2, <3>1 DEF LauncherAlone
    <3>3. \A b \in Actors : actor'[b].pc \in {"open", "fill"} => Carries(b)'
      BY <1>0, <1>5, <3>1, <3>2 DEF LauncherAlone, Carries, IsObject
    <3> QED
      BY <1>0, <3>1, <3>3 DEF LauncherAlone, IsObject
  <2> QED
    BY <2>1, <2>2
<1>9. CASE a = "boot"
  <2>1. ~watching /\ ~event /\ actor["watcher"].pc = "idle"
    BY <1>0, <1>9, BootAlone DEF Saving
  <2>2. actor'["boot"] = me /\ actor'["watcher"] = actor["watcher"]
    BY <1>5, <1>9 DEF Actors
  <2>3. WatchedLater'
    BY <1>0, <2>1, <2>2 DEF WatchedLater, At
  <2>4. BootCurrent'
    BY <1>0, <1>1, <1>2, <1>9, <2>2
       DEF BootCurrent, At, InHand, Stored, IsObject, Reading
  <2>5. WatcherCurrent'
    BY <1>2, <2>2 DEF WatcherCurrent
  <2> QED
    BY <1>6, <1>7, <1>8, <2>3, <2>4, <2>5
<1>10. CASE a = "watcher"
  <2>1. actor'["boot"] = actor["boot"] /\ actor'["watcher"] = me
        /\ actor["watcher"].pc # "idle"
    BY <1>0, <1>5, <1>10 DEF Actors
  <2>2. watching
    BY <2>1 DEF WatchedLater, At
  <2>3. WatchedLater'
    BY <1>0, <2>1, <2>2 DEF WatchedLater
  <2>4. BootCurrent'
    BY <1>0, <1>1, <2>1 DEF BootCurrent, At
  <2>5. WatcherCurrent'
    BY <1>0, <1>1, <1>2, <1>10, <2>1
       DEF WatcherCurrent, At, InHand, Stored, IsObject, Storing
  <2> QED
    BY <1>6, <1>7, <1>8, <2>3, <2>4, <2>5
<1> QED
  BY <1>9, <1>10 DEF Actors

(* A save empties the file and fills it.  Nobody may have been within      *)
(* another save then.                                                      *)
LEMMA WriteKeeps ==
  ASSUME ConfigInv, NEW a \in Actors, NEW content \in Contents, NEW where \in {"fill", "enabled"},
         actor[a].pc \in {"open", "fill"}, where = "fill" => content = Torn,
         IsObject(content) => /\ content.own = actor[a].cfg
                              /\ Carries(a) => content.launcher = edits,
         content # NoFile, Change(a, content), Goto(a, where),
         UNCHANGED <<writes, watching, launcher, netVars, edits>>
  PROVE  ConfigInv'
<1> USE DEF ConfigInv
<1>1. /\ file' = content /\ file' \in Contents /\ event' = watching
      /\ past' \in [torn : BOOLEAN, overtaken : BOOLEAN, failed : BOOLEAN, stale : BOOLEAN]
      /\ past'.torn = past.torn /\ (past.overtaken => past'.overtaken)
      /\ ~past'.overtaken =>
           \A b \in Actors \ {a} : actor[b].pc \notin {"open", "fill"}
      /\ past'.stale = past.stale
  BY Changes DEF Actors
<1>2. where \in Pcs /\ actor[a].pc \in Saving /\ where \in Saving \cup Storing
  BY DEF Pcs, Saving, Storing
<1>3. PICK me \in Threads : /\ Moved(a, me) /\ Todo(a, me) /\ me.pc = where
                            /\ me.todo = actor[a].todo /\ me.cfg = actor[a].cfg
                            /\ me.existing = actor[a].existing
  BY <1>2, GoesOnIn
<1>4. /\ actor' \in [Actors -> Threads] /\ \A b \in Actors : Todo(b, actor'[b])
      /\ actor'[a] = me /\ \A b \in Actors \ {a} : actor'[b] = actor[b]
  BY <1>3, Moves
<1>5. Types'
  BY <1>1, <1>4, TypesKept DEF netVars, Types
<1>6. CallKnows' /\ HooksAsConfigured'
  BY CallsKept DEF netVars
<1>7. LauncherAlone'
  <2> SUFFICES ASSUME ~past'.torn, ~past'.overtaken PROVE LauncherAlone'
    BY DEF LauncherAlone
  <2>1. ~past.torn /\ ~past.overtaken
    BY <1>1
  <2>2. Carries(a) /\ launcher = "idle"
    BY <2>1 DEF LauncherAlone, Carries
  <2>3. \A b \in Actors : actor'[b].pc \in {"open", "fill"} => Carries(b)'
    BY <1>1, <1>3, <1>4, <2>2 DEF Carries
  <2>4. IsObject(content) => content.launcher = edits
    BY <2>2
  <2> QED
    BY <1>1, <2>2, <2>3, <2>4 DEF LauncherAlone, IsObject
<1>8. CASE a = "boot"
  <2>1. ~watching /\ ~event /\ actor["watcher"].pc = "idle"
    BY <1>2, <1>8, BootAlone
  <2>2. actor'["boot"] = me /\ actor'["watcher"] = actor["watcher"]
    BY <1>4, <1>8 DEF Actors
  <2>3. WatchedLater'
    BY <1>1, <2>1, <2>2 DEF WatchedLater, At
  <2>4. BootCurrent'
    BY <1>1, <1>3, <1>8, <2>1, <2>2 DEF BootCurrent, At, InHand, Stored, IsObject
  <2>5. WatcherCurrent'
    BY <1>3, <2>2 DEF WatcherCurrent
  <2> QED
    BY <1>5, <1>6, <1>7, <2>3, <2>4, <2>5
<1>9. CASE a = "watcher"
  <2>1. actor'["boot"] = actor["boot"] /\ actor'["watcher"] = me
        /\ actor["watcher"].pc # "idle"
    BY <1>4, <1>9 DEF Actors
  <2>2. watching /\ event'
    BY <1>1, <2>1 DEF WatchedLater, At
  <2>3. WatchedLater'
    BY <2>1, <2>2 DEF WatchedLater
  <2>4. BootCurrent'
    BY <1>1, <2>1 DEF BootCurrent, At
  <2>5. WatcherCurrent'
    BY <2>2 DEF WatcherCurrent
  <2> QED
    BY <1>5, <1>6, <1>7, <2>3, <2>4, <2>5
<1> QED
  BY <1>8, <1>9 DEF Actors

LEMMA SaveOpenKeeps ==
  ASSUME ConfigInv, NEW a \in Actors, SaveOpen(a)
  PROVE  ConfigInv'
<1>1. Torn \in Contents /\ ~IsObject(Torn) /\ Torn # NoFile
  BY ConfigurationAssumption DEF Contents, IsObject
<1> QED
  BY <1>1, WriteKeeps DEF SaveOpen, At

LEMMA SaveFillKeeps ==
  ASSUME ConfigInv, NEW a \in Actors, SaveFill(a)
  PROVE  ConfigInv'
<1> DEFINE content == Merged(actor[a].existing, actor[a].cfg)
<1>0. actor[a] \in Threads
  BY DEF ConfigInv, Types
<1>1. /\ content \in Objects /\ content.own = actor[a].cfg
      /\ content.launcher = IF IsObject(actor[a].existing) THEN actor[a].existing.launcher ELSE 0
  BY <1>0, ConfigurationAssumption DEF Merged, Object, Objects, Threads, Contents, IsObject
<1> HIDE DEF content
<1>2. content \in Contents /\ content # NoFile
  BY <1>1, ContentAssumption DEF Contents
<1>3. Carries(a) => content.launcher = edits
  BY <1>0, <1>1 DEF Carries, IsObject, Threads, Contents
<1>4. Torn \in Contents /\ ~IsObject(Torn) /\ Torn # NoFile
  BY ConfigurationAssumption DEF Contents, IsObject
<1>5. /\ Change(a, content) \/ Change(a, Torn)
      /\ actor[a].pc = "fill" /\ Goto(a, "enabled")
      /\ UNCHANGED <<writes, watching, launcher, netVars, edits>>
  BY DEF SaveFill, At, content
<1>6. CASE Change(a, content)
  BY <1>1, <1>2, <1>3, <1>5, <1>6, WriteKeeps
<1>7. CASE Change(a, Torn)
  BY <1>4, <1>5, <1>7, WriteKeeps
<1> QED
  BY <1>5, <1>6, <1>7

(* A save that fails leaves the file, and what the thread has in hand.     *)
LEMMA SaveFailsKeeps ==
  ASSUME ConfigInv, NEW a \in Actors, SaveFails(a)
  PROVE  ConfigInv'
<1> USE DEF ConfigInv
<1>0. /\ actor[a].pc = "open" /\ Finish(a)
      /\ UNCHANGED <<writes, file, event, watching, launcher, netVars, edits>>
      /\ past' \in [torn : BOOLEAN, overtaken : BOOLEAN, failed : BOOLEAN, stale : BOOLEAN]
      /\ past'.stale = past.stale /\ past'.overtaken = past.overtaken
      /\ past'.torn = past.torn
  BY DEF SaveFails, At, Types
<1>1. PICK me \in Threads : /\ Moved(a, me) /\ Todo(a, me) /\ me = Proceed(actor[a])
                            /\ me.pc \in GoesTo(a, actor[a].pc) /\ me.cfg = actor[a].cfg
  BY <1>0, Finishes DEF Saving
<1>2. /\ actor' \in [Actors -> Threads] /\ \A b \in Actors : Todo(b, actor'[b])
      /\ actor'[a] = me /\ \A b \in Actors \ {a} : actor'[b] = actor[b]
  BY <1>1, Moves
<1>3. /\ me.pc \notin {"open", "fill", "detail", "p2p", "peer"}
      /\ a = "boot" => me.pc = "watch"
      /\ a = "watcher" => me.pc = "enabled"
  BY <1>0, <1>1, GoesWhere
<1>4. Types'
  BY <1>0, <1>2, TypesKept DEF netVars, Types
<1>5. CallKnows' /\ HooksAsConfigured'
  BY <1>0, CallsKept DEF netVars
<1>6. LauncherAlone'
  BY <1>0, <1>2, <1>3, AloneKept
<1>7. CASE a = "boot"
  <2>1. ~watching /\ ~event /\ actor["watcher"].pc = "idle"
    BY <1>0, <1>7, BootAlone DEF Saving
  <2>2. actor'["boot"] = me /\ actor'["watcher"] = actor["watcher"]
    BY <1>2, <1>7 DEF Actors
  <2>3. WatchedLater'
    BY <1>0, <2>1, <2>2 DEF WatchedLater, At
  <2>4. BootCurrent'
    BY <1>0, <1>1, <1>3, <1>7, <2>1, <2>2
       DEF BootCurrent, At, InHand, Stored, IsObject, Reading
  <2>5. WatcherCurrent'
    BY <1>3, <1>7, <2>2 DEF WatcherCurrent
  <2> QED
    BY <1>4, <1>5, <1>6, <2>3, <2>4, <2>5
<1>8. CASE a = "watcher"
  <2>1. actor'["boot"] = actor["boot"] /\ actor'["watcher"] = me
        /\ actor["watcher"].pc # "idle"
    BY <1>0, <1>2, <1>8 DEF Actors
  <2>2. watching
    BY <2>1 DEF WatchedLater, At
  <2>3. WatchedLater'
    BY <1>0, <2>1, <2>2 DEF WatchedLater
  <2>4. BootCurrent'
    BY <1>0, <2>1 DEF BootCurrent, At
  <2>5. WatcherCurrent'
    BY <1>0, <1>1, <1>3, <1>8, <2>1
       DEF WatcherCurrent, At, InHand, Stored, IsObject
  <2> QED
    BY <1>4, <1>5, <1>6, <2>3, <2>4, <2>5
<1> QED
  BY <1>7, <1>8 DEF Actors

-----------------------------------------------------------------------------
(* The stores.                                                             *)

(* What a store leaves alone, and that it spoils the calls under way.      *)
LEMMA StoreFrame ==
  ASSUME ConfigInv, NEW a \in Actors, NEW where, NEW settings \in Settings,
         Store(a, where, settings)
  PROVE  /\ CallKnows' /\ HooksAsConfigured' /\ live' = settings
         /\ call' \in Calling \cup {[pc |-> "none"]}
         /\ actor[a].pc = where
         /\ UNCHANGED <<writes, file, event, past, watching, launcher, installed, edits>>
<1>1. /\ actor[a].pc = where /\ live' = settings
      /\ UNCHANGED <<writes, file, event, past, watching, launcher, installed, line, due, edits>>
      /\ call' = IF call.pc = "none" \/ settings = live THEN call
                 ELSE [call EXCEPT !.steady = FALSE]
  BY DEF Store, fileVars, At
<1>2. call \in Calling \cup {[pc |-> "none"]}
  BY DEF ConfigInv, Types
<1>3. SignalsLogged'
  BY <1>1 DEF ConfigInv, HooksAsConfigured, SignalsLogged
<1>4. CASE call.pc = "none"
  BY <1>1, <1>2, <1>3, <1>4 DEF CallKnows, HooksAsConfigured, RoutedAsConfigured
<1>5. CASE call.pc # "none" /\ settings = live
  BY <1>1, <1>2, <1>3, <1>5
     DEF ConfigInv, CallKnows, HooksAsConfigured, RoutedAsConfigured
<1>6. CASE call.pc # "none" /\ settings # live
  <2>1. call \in Calling
    BY <1>2, <1>6
  <2>2. /\ call' \in Calling /\ call'.steady = FALSE /\ call'.pc = call.pc
        /\ call'.via = call.via /\ call'.to = call.to
    BY <1>1, <1>6, <2>1 DEF Calling
  <2>3. CallKnows'
    BY <2>2 DEF ConfigInv, CallKnows
  <2>4. RoutedAsConfigured'
    BY <2>2 DEF ConfigInv, HooksAsConfigured, RoutedAsConfigured
  <2> QED
    BY <1>1, <1>3, <2>2, <2>3, <2>4 DEF HooksAsConfigured
<1> QED
  BY <1>4, <1>5, <1>6

(* A store other than the last: it adds to what is stored.                 *)
LEMMA StoreKeeps ==
  ASSUME ConfigInv, NEW a \in Actors, NEW where \in {"enabled", "detail", "p2p"},
         NEW settings \in Settings, Store(a, where, settings),
         NEW to \in {"detail", "p2p", "peer"}, Goto(a, to),
         NEW me \in Threads, me.pc = to, me.cfg = actor[a].cfg, me.todo = actor[a].todo,
         me.existing = actor[a].existing, Moved(a, me), Todo(a, me),
         Stored(a) => Stored(a)'
  PROVE  ConfigInv'
<1> USE DEF ConfigInv
<1>1. /\ CallKnows' /\ HooksAsConfigured' /\ live' = settings
      /\ call' \in Calling \cup {[pc |-> "none"]}
      /\ actor[a].pc = where
      /\ UNCHANGED <<writes, file, event, past, watching, launcher, installed, edits>>
  BY StoreFrame
<1>2. /\ actor' \in [Actors -> Threads] /\ \A b \in Actors : Todo(b, actor'[b])
      /\ actor'[a] = me /\ \A b \in Actors \ {a} : actor'[b] = actor[b]
  BY Moves
<1>3. Types'
  BY <1>1, <1>2 DEF Types
<1>4. LauncherAlone'
  BY <1>1, <1>2, AloneKept
<1>5. CASE a = "boot"
  <2>1. actor'["boot"] = me /\ actor'["watcher"] = actor["watcher"]
    BY <1>2, <1>5 DEF Actors
  <2>2. WatchedLater'
    BY <1>1, <1>5, <2>1 DEF WatchedLater, At
  <2>3. BootCurrent'
    BY <1>1, <1>5, <2>1 DEF BootCurrent, At, InHand, IsObject, Reading
  <2>4. WatcherCurrent'
    BY <2>1 DEF WatcherCurrent
  <2> QED
    BY <1>1, <1>3, <1>4, <2>2, <2>3, <2>4
<1>6. CASE a = "watcher"
  <2>1. actor'["boot"] = actor["boot"] /\ actor'["watcher"] = me
        /\ actor["watcher"].pc # "idle"
    BY <1>1, <1>2, <1>6 DEF Actors
  <2>2. watching
    BY <2>1 DEF WatchedLater, At
  <2>3. WatchedLater'
    BY <1>1, <2>1, <2>2 DEF WatchedLater
  <2>4. BootCurrent'
    BY <1>1, <2>1 DEF BootCurrent, At
  <2>5. WatcherCurrent'
    BY <1>1, <1>6, <2>1 DEF WatcherCurrent, At, InHand, IsObject, Storing
  <2> QED
    BY <1>1, <1>3, <1>4, <2>3, <2>4, <2>5
<1> QED
  BY <1>5, <1>6 DEF Actors

LEMMA StoreEnabledKeeps ==
  ASSUME ConfigInv, NEW a \in Actors, StoreEnabled(a)
  PROVE  ConfigInv'
<1> DEFINE settings == [live EXCEPT !.hooks = actor[a].cfg.hooks]
<1>0. /\ actor[a] \in Threads /\ actor[a].cfg \in Settings /\ live \in Settings
      /\ actor[a].pc = "enabled" /\ Types
  BY ConfigurationAssumption DEF ConfigInv, Types, Threads, StoreEnabled, Store, At
<1>1. settings \in Settings /\ settings.hooks = actor[a].cfg.hooks
  BY <1>0 DEF Settings
<1>2. Store(a, "enabled", settings) /\ Goto(a, "detail") /\ live' = settings
  BY DEF StoreEnabled, Store
<1> HIDE DEF settings
<1>3. PICK me \in Threads : /\ Moved(a, me) /\ Todo(a, me) /\ me.pc = "detail"
                            /\ me.todo = actor[a].todo /\ me.cfg = actor[a].cfg
                            /\ me.existing = actor[a].existing
  BY <1>0, <1>2, GoesOnIn DEF Pcs, Storing
<1>4. actor'[a] = me
  BY <1>0, <1>3, Moves
<1>5. Stored(a)'
  BY <1>1, <1>2, <1>3, <1>4 DEF Stored
<1> QED
  BY <1>1, <1>2, <1>3, <1>5, StoreKeeps

LEMMA StoreDetailKeeps ==
  ASSUME ConfigInv, NEW a \in Actors, StoreDetail(a)
  PROVE  ConfigInv'
<1> DEFINE settings == [live EXCEPT !.detail = actor[a].cfg.detail]
<1>0. /\ actor[a] \in Threads /\ actor[a].cfg \in Settings /\ live \in Settings
      /\ actor[a].pc = "detail" /\ Types
  BY ConfigurationAssumption DEF ConfigInv, Types, Threads, StoreDetail, Store, At
<1>1. /\ settings \in Settings /\ settings.detail = actor[a].cfg.detail
      /\ settings.hooks = live.hooks
  BY <1>0 DEF Settings
<1>2. Store(a, "detail", settings) /\ Goto(a, "p2p") /\ live' = settings
  BY DEF StoreDetail, Store
<1> HIDE DEF settings
<1>3. PICK me \in Threads : /\ Moved(a, me) /\ Todo(a, me) /\ me.pc = "p2p"
                            /\ me.todo = actor[a].todo /\ me.cfg = actor[a].cfg
                            /\ me.existing = actor[a].existing
  BY <1>0, <1>2, GoesOnIn DEF Pcs, Storing
<1>4. actor'[a] = me
  BY <1>0, <1>3, Moves
<1>5. Stored(a) => Stored(a)'
  BY <1>0, <1>1, <1>2, <1>3, <1>4 DEF Stored
<1> QED
  BY <1>1, <1>2, <1>3, <1>5, StoreKeeps

LEMMA StoreRedirectionKeeps ==
  ASSUME ConfigInv, NEW a \in Actors, StoreRedirection(a)
  PROVE  ConfigInv'
<1> DEFINE settings == [live EXCEPT !.p2p = actor[a].cfg.p2p]
<1>0. /\ actor[a] \in Threads /\ actor[a].cfg \in Settings /\ live \in Settings
      /\ actor[a].pc = "p2p" /\ Types
  BY ConfigurationAssumption DEF ConfigInv, Types, Threads, StoreRedirection, Store, At
<1>1. /\ settings \in Settings /\ settings.p2p = actor[a].cfg.p2p
      /\ settings.hooks = live.hooks /\ settings.detail = live.detail
  BY <1>0 DEF Settings
<1>2. Store(a, "p2p", settings) /\ Goto(a, "peer") /\ live' = settings
  BY DEF StoreRedirection, Store
<1> HIDE DEF settings
<1>3. PICK me \in Threads : /\ Moved(a, me) /\ Todo(a, me) /\ me.pc = "peer"
                            /\ me.todo = actor[a].todo /\ me.cfg = actor[a].cfg
                            /\ me.existing = actor[a].existing
  BY <1>0, <1>2, GoesOnIn DEF Pcs, Storing
<1>4. actor'[a] = me
  BY <1>0, <1>3, Moves
<1>5. Stored(a) => Stored(a)'
  BY <1>0, <1>1, <1>2, <1>3, <1>4 DEF Stored
<1> QED
  BY <1>1, <1>2, <1>3, <1>5, StoreKeeps

(* With the last store the settings are the configuration in hand.         *)
LEMMA StorePeerKeeps ==
  ASSUME ConfigInv, NEW a \in Actors, StorePeer(a)
  PROVE  ConfigInv'
<1> USE DEF ConfigInv
<1> DEFINE settings == [live EXCEPT !.peer = actor[a].cfg.peer]
<1>0. /\ actor[a] \in Threads /\ actor[a].cfg \in Settings /\ live \in Settings
      /\ actor[a].pc = "peer" /\ Todo(a, actor[a])
  BY ConfigurationAssumption DEF Types, Threads, StorePeer, Store, At
<1>1. settings \in Settings /\ (Stored(a) => settings = actor[a].cfg)
  BY <1>0 DEF Settings, Stored
<1>2. Store(a, "peer", settings) /\ Finish(a)
  BY DEF StorePeer
<1> HIDE DEF settings
<1>3. /\ CallKnows' /\ HooksAsConfigured' /\ live' = settings
      /\ call' \in Calling \cup {[pc |-> "none"]}
      /\ UNCHANGED <<writes, file, event, past, watching, launcher, installed, edits>>
  BY <1>1, <1>2, StoreFrame
<1>4. PICK me \in Threads : /\ Moved(a, me) /\ Todo(a, me) /\ me = Proceed(actor[a])
                            /\ me.pc \in GoesTo(a, actor[a].pc) /\ me.cfg = actor[a].cfg
  BY <1>0, <1>2, Finishes
<1>5. /\ actor' \in [Actors -> Threads] /\ \A b \in Actors : Todo(b, actor'[b])
      /\ actor'[a] = me /\ \A b \in Actors \ {a} : actor'[b] = actor[b]
  BY <1>4, Moves
<1>6. /\ a = "boot" => me.pc \in {"watch", "enabled", "hooks"}
      /\ a = "watcher" => me.pc \in {"enabled", "idle"}
  BY <1>0, <1>4 DEF GoesTo
<1>7. Types'
  BY <1>1, <1>3, <1>5 DEF Types
<1>8. LauncherAlone'
  BY <1>3, <1>5, <1>6, AloneKept DEF Actors
<1>9. CASE a = "boot"
  <2>1. actor'["boot"] = me /\ actor'["watcher"] = actor["watcher"]
    BY <1>5, <1>9 DEF Actors
  <2>2. WatchedLater'
    BY <1>0, <1>3, <1>4, <1>9, <2>1, StaysWatched DEF WatchedLater, At
  <2>3. ~past.stale => /\ ~event /\ At("watcher", "idle")
                       /\ InHand("boot") /\ Stored("boot")
    BY <1>0, <1>9 DEF BootCurrent, Reading
  <2>4. BootCurrent'
    BY <1>3, <1>4, <1>6, <1>9, <2>1, <2>3 DEF BootCurrent, At, InHand, Stored, IsObject
  <2>5. WatcherCurrent'
    BY <1>1, <1>3, <1>9, <2>1, <2>3
       DEF WatcherCurrent, At, InHand, IsObject, Storing
  <2> QED
    BY <1>3, <1>7, <1>8, <2>2, <2>4, <2>5
<1>10. CASE a = "watcher"
  <2>1. actor'["boot"] = actor["boot"] /\ actor'["watcher"] = me
        /\ actor["watcher"].pc # "idle"
    BY <1>0, <1>5, <1>10 DEF Actors
  <2>2. watching
    BY <2>1 DEF WatchedLater, At
  <2>3. WatchedLater'
    BY <1>3, <2>1, <2>2 DEF WatchedLater
  <2>4. BootCurrent'
    BY <1>3, <2>1 DEF BootCurrent, At
  <2>5. WatcherCurrent'
    <3> SUFFICES ASSUME ~past.stale, ~event, actor["boot"].pc \in {"hooks", "idle"}
                 PROVE  WatcherCurrent'
      BY <1>3, <2>1 DEF WatcherCurrent
    <3>1. InHand("watcher") /\ Stored("watcher")
      BY <1>0, <1>10, <2>2 DEF WatcherCurrent, Storing
    <3>2. live' = actor["watcher"].cfg
      BY <1>1, <1>3, <1>10, <3>1
    <3> QED
      BY <1>3, <1>4, <1>6, <1>10, <2>1, <3>1, <3>2
         DEF WatcherCurrent, At, InHand, Stored, IsObject
  <2> QED
    BY <1>3, <1>7, <1>8, <2>3, <2>4, <2>5
<1> QED
  BY <1>9, <1>10 DEF Actors

-----------------------------------------------------------------------------
(* The bootstrap, the watcher and the launcher.                            *)

LEMMA EnsureWatcherKeeps ==
  ASSUME ConfigInv, EnsureWatcher
  PROVE  ConfigInv'
<1> USE DEF ConfigInv
<1>0. /\ actor["boot"].pc = "watch" /\ Finish("boot") /\ watching' \in BOOLEAN
      /\ UNCHANGED <<writes, file, event, past, launcher, netVars, edits>>
      /\ actor["boot"] \in Threads /\ Todo("boot", actor["boot"]) /\ "boot" \in Actors
  BY DEF EnsureWatcher, At, fileVars, Types, Actors
<1>1. PICK me \in Threads : /\ Moved("boot", me) /\ Todo("boot", me)
                            /\ me = Proceed(actor["boot"])
                            /\ me.pc \in GoesTo("boot", actor["boot"].pc)
                            /\ me.cfg = actor["boot"].cfg
  BY <1>0, Finishes
<1>2. /\ actor' \in [Actors -> Threads] /\ \A b \in Actors : Todo(b, actor'[b])
      /\ actor'["boot"] = me /\ \A b \in Actors \ {"boot"} : actor'[b] = actor[b]
  BY <1>0, <1>1, Moves
<1>3. me.pc = "enabled"
  BY <1>0, <1>1 DEF GoesTo
<1>4. me.todo \in Watched
  BY <1>0, <1>1, StaysWatched
<1>5. ~watching /\ ~event /\ actor["watcher"].pc = "idle"
  BY <1>0, BootAlone
<1>6. actor'["watcher"] = actor["watcher"]
  BY <1>2 DEF Actors
<1>7. Types'
  BY <1>0, <1>2, TypesKept DEF netVars, Types
<1>8. CallKnows' /\ HooksAsConfigured'
  BY <1>0, CallsKept DEF netVars
<1>9. LauncherAlone'
  BY <1>0, <1>2, <1>3, AloneKept
<1>10. WatchedLater'
  BY <1>0, <1>2, <1>4, <1>5, <1>6 DEF WatchedLater, At
<1>11. BootCurrent'
  BY <1>0, <1>1, <1>2, <1>3, <1>5, <1>6
     DEF BootCurrent, At, InHand, Stored, IsObject, Reading
<1>12. WatcherCurrent'
  BY <1>2, <1>3 DEF WatcherCurrent
<1> QED
  BY <1>7, <1>8, <1>9, <1>10, <1>11, <1>12

LEMMA InstallHooksKeeps ==
  ASSUME ConfigInv, InstallHooks
  PROVE  ConfigInv'
<1> USE DEF ConfigInv
<1>0. /\ actor["boot"].pc = "hooks" /\ Finish("boot") /\ installed' \in BOOLEAN
      /\ UNCHANGED <<writes, file, event, past, watching, launcher, live, call,
                     line, due, edits>>
      /\ actor["boot"] \in Threads /\ Todo("boot", actor["boot"]) /\ "boot" \in Actors
  BY DEF InstallHooks, At, fileVars, Types, Actors
<1>1. PICK me \in Threads : /\ Moved("boot", me) /\ Todo("boot", me)
                            /\ me = Proceed(actor["boot"])
                            /\ me.pc \in GoesTo("boot", actor["boot"].pc)
                            /\ me.cfg = actor["boot"].cfg
  BY <1>0, Finishes
<1>2. /\ actor' \in [Actors -> Threads] /\ \A b \in Actors : Todo(b, actor'[b])
      /\ actor'["boot"] = me /\ \A b \in Actors \ {"boot"} : actor'[b] = actor[b]
  BY <1>0, <1>1, Moves
<1>3. me.pc = "idle"
  BY <1>0, <1>1 DEF GoesTo
<1>4. watching => me.todo \in Watched
  BY <1>0, <1>1, StaysWatched DEF WatchedLater
<1>5. actor'["watcher"] = actor["watcher"]
  BY <1>2 DEF Actors
<1>6. Types'
  BY <1>0, <1>2 DEF Types
<1>7. CallKnows' /\ HooksAsConfigured'
  BY <1>0, CallsKept
<1>8. LauncherAlone'
  BY <1>0, <1>2, <1>3, AloneKept
<1>9. WatchedLater'
  BY <1>0, <1>2, <1>4, <1>5 DEF WatchedLater, At
<1>10. BootCurrent'
  BY <1>2, <1>3 DEF BootCurrent
<1>11. WatcherCurrent'
  BY <1>0, <1>2, <1>3, <1>5 DEF WatcherCurrent, At, InHand, Stored, IsObject
<1> QED
  BY <1>6, <1>7, <1>8, <1>9, <1>10, <1>11

LEMMA WatcherWakesKeeps ==
  ASSUME ConfigInv, WatcherWakes
  PROVE  ConfigInv'
<1> USE DEF ConfigInv
<1> DEFINE me == Start(<<"load", "apply">>, DefaultConfig)
<1>0. /\ event /\ event' = FALSE /\ actor["watcher"].pc = "idle" /\ Moved("watcher", me)
      /\ UNCHANGED <<writes, file, past, watching, launcher, netVars, edits>>
      /\ "watcher" \in Actors /\ "boot" \in Actors /\ DefaultConfig \in Configs
  BY ConfigurationAssumption DEF WatcherWakes, At, Moved, Actors
<1>1. me \in Threads /\ Todo("watcher", me) /\ me.pc = "exists"
  BY <1>0, WatcherStarts, StartPlaces
<1> HIDE DEF me
<1>2. /\ actor' \in [Actors -> Threads] /\ \A b \in Actors : Todo(b, actor'[b])
      /\ actor'["watcher"] = me /\ \A b \in Actors \ {"watcher"} : actor'[b] = actor[b]
  BY <1>0, <1>1, Moves
<1>3. actor'["boot"] = actor["boot"] /\ watching
  BY <1>0, <1>2 DEF WatchedLater, Actors
<1>4. Types'
  BY <1>0, <1>2, TypesKept DEF netVars, Types
<1>5. CallKnows' /\ HooksAsConfigured'
  BY <1>0, CallsKept DEF netVars
<1>6. LauncherAlone'
  BY <1>0, <1>1, <1>2, AloneKept
<1>7. WatchedLater'
  BY <1>0, <1>3 DEF WatchedLater
<1>8. BootCurrent'
  BY <1>0, <1>3 DEF BootCurrent, At
<1>9. WatcherCurrent'
  BY <1>1, <1>2 DEF WatcherCurrent, At, Storing
<1> QED
  BY <1>4, <1>5, <1>6, <1>7, <1>8, <1>9

(* The launcher's write makes stale what the bootstrap has read, or is      *)
(* announced to the watcher.                                               *)
LEMMA LauncherKeeps ==
  ASSUME ConfigInv, NEW content \in Contents, NEW to \in {"idle", "emptied"},
         Change("launcher", content), UNCHANGED <<writes, watching, actor, netVars>>,
         edits' \in 0..LauncherEdits, launcher' = to,
         IsObject(content) => content.launcher = edits',
         to = "emptied" => content = Torn, content # NoFile
  PROVE  ConfigInv'
<1> USE DEF ConfigInv
<1>1. /\ file' = content /\ file' \in Contents /\ event' = watching
      /\ past' \in [torn : BOOLEAN, overtaken : BOOLEAN, failed : BOOLEAN, stale : BOOLEAN]
      /\ past'.torn = past.torn /\ (past.overtaken => past'.overtaken)
      /\ ~past'.overtaken => \A a \in Actors : actor[a].pc \notin {"open", "fill"}
      /\ past'.stale = Missed
  <2>1. \A a \in Actors : a \in Actors \ {"launcher"}
    BY DEF Actors
  <2> QED
    BY <2>1, Changes
<1>2. ~past'.stale => \/ actor["boot"].pc \in Reading
                      \/ actor["boot"].pc \in {"hooks", "idle"}
  BY <1>1 DEF Missed, Reading
<1>3. Types'
  BY <1>1 DEF Types, netVars
<1>4. CallKnows' /\ HooksAsConfigured'
  BY CallsKept DEF netVars
<1>5. LauncherAlone'
  BY <1>1 DEF LauncherAlone, IsObject, Carries
<1>6. WatchedLater'
  BY <1>1 DEF WatchedLater, At
<1>7. BootCurrent'
  BY <1>2 DEF BootCurrent
<1>8. WatcherCurrent'
  <2>1. ~(watching' /\ ~event')
    BY <1>1
  <2> QED
    BY <2>1 DEF WatcherCurrent
<1> QED
  BY <1>3, <1>4, <1>5, <1>6, <1>7, <1>8

LEMMA LauncherStepKeeps ==
  ASSUME ConfigInv, Launcher
  PROVE  ConfigInv'
<1>0. Torn \in Contents /\ ~IsObject(Torn) /\ Torn # NoFile
      /\ edits \in 0..LauncherEdits /\ LauncherEdits \in Nat
  BY ConfigurationAssumption DEF Contents, IsObject, ConfigInv, Types
<1>1. \A own \in Configs, n \in 0..LauncherEdits, tidy \in BOOLEAN :
        /\ Object(own, n, tidy) \in Contents /\ Object(own, n, tidy) # NoFile
        /\ Object(own, n, tidy).launcher = n
  BY ContentAssumption DEF Object, Objects, Contents
<1>2. CASE LauncherReplaces
  <2>1. PICK own \in Configs : \E tidy \in BOOLEAN :
          LauncherWrites("idle", Object(own, edits + 1, tidy), "idle")
    BY <1>2 DEF LauncherReplaces
  <2>2. PICK tidy \in BOOLEAN : LauncherWrites("idle", Object(own, edits + 1, tidy), "idle")
    BY <2>1
  <2> DEFINE content == Object(own, edits + 1, tidy)
  <2>3. /\ edits' = edits + 1 /\ edits' \in 0..LauncherEdits /\ launcher' = "idle"
        /\ UNCHANGED <<writes, watching, actor, netVars>>
        /\ Change("launcher", content)
    BY <1>0, <2>2 DEF LauncherWrites
  <2>4. content \in Contents /\ content # NoFile /\ content.launcher = edits'
    BY <1>1, <2>3
  <2> HIDE DEF content
  <2> QED
    BY <2>3, <2>4, LauncherKeeps
<1>3. CASE LauncherEmpties
  <2>1. /\ edits' = edits + 1 /\ edits' \in 0..LauncherEdits /\ launcher' = "emptied"
        /\ UNCHANGED <<writes, watching, actor, netVars>>
        /\ Change("launcher", Torn)
    BY <1>0, <1>3 DEF LauncherEmpties, LauncherWrites
  <2> QED
    BY <1>0, <2>1, LauncherKeeps
<1>4. CASE LauncherFills
  <2>1. PICK own \in Configs : \E tidy \in BOOLEAN :
          LauncherWrites("emptied", Object(own, edits, tidy), "idle")
    BY <1>4 DEF LauncherFills
  <2>2. PICK tidy \in BOOLEAN : LauncherWrites("emptied", Object(own, edits, tidy), "idle")
    BY <2>1
  <2> DEFINE content == Object(own, edits, tidy)
  <2>3. /\ edits' = edits /\ launcher' = "idle"
        /\ UNCHANGED <<writes, watching, actor, netVars>>
        /\ Change("launcher", content)
    BY <2>2 DEF LauncherWrites
  <2>4. content \in Contents /\ content # NoFile /\ content.launcher = edits'
    BY <1>0, <1>1, <2>3
  <2> HIDE DEF content
  <2> QED
    BY <1>0, <2>3, <2>4, LauncherKeeps
<1> QED
  BY <1>2, <1>3, <1>4 DEF Launcher

-----------------------------------------------------------------------------
(* The hooked calls.                                                       *)

(* Nothing but the call changes.                                           *)
LEMMA CallFrame ==
  ASSUME ConfigInv, UNCHANGED <<writes, fileVars, watching, actor, launcher, live,
                                installed, edits>>,
         call' \in Calling \cup {[pc |-> "none"]}, CallKnows', HooksAsConfigured'
  PROVE  ConfigInv'
<1> USE DEF ConfigInv, fileVars
<1>1. Types'
  BY DEF Types
<1>2. WatchedLater' /\ BootCurrent' /\ WatcherCurrent'
  BY DEF WatchedLater, BootCurrent, WatcherCurrent, At, InHand, Stored, IsObject
<1>3. LauncherAlone'
  BY AloneKept
<1> QED
  BY <1>1, <1>2, <1>3

(* Whatever the hooks log of a call, they log a signal they have to.       *)
LEMMA DueIsLogged ==
  ASSUME NEW api \in Apis, NEW to, NEW outcome, SignalDue(api, to, outcome)
  PROVE  Logs(api, to, outcome) = "signal"
<1>1. live.hooks /\ outcome.ok /\ outcome.signal
  BY DEF SignalDue
<1>2. api \notin Creating \cup Connecting \cup Serving
  BY DEF SignalDue, Creating, Connecting, Serving, Streams, Datagrams
<1>3. CASE api \in {"send", "recv"}
  BY <1>1, <1>2, <1>3 DEF Logs, StreamLogs, Packet
<1>4. CASE api \in {"WSASend", "WSARecv"}
  BY <1>1, <1>2, <1>4 DEF Logs, OverlappedStreamLogs, Packet, SignalDue
<1>5. CASE api \in {"sendto", "recvfrom"}
  BY <1>1, <1>2, <1>5
     DEF Logs, DatagramLogs, Packet, SignalDue, Streams, Datagrams
<1>6. CASE api \in {"WSASendTo", "WSARecvFrom"}
  BY <1>1, <1>2, <1>6
     DEF Logs, OverlappedDatagramLogs, DatagramLogs, Packet, SignalDue, Streams, Datagrams
<1> QED
  BY <1>2, <1>3, <1>4, <1>5, <1>6 DEF Apis, Streams, Datagrams

LEMMA CallStepKeeps ==
  ASSUME ConfigInv, Call
  PROVE  ConfigInv'
<1>0. /\ call \in Calling \cup {[pc |-> "none"]} /\ live \in Settings
      /\ CallKnows /\ RoutedAsConfigured /\ SignalsLogged
  BY DEF ConfigInv, Types, HooksAsConfigured
<1>1. ASSUME NEW api \in Apis, NEW to \in Destinations, NEW outcome \in Outcomes,
             PlainCall(api, to, outcome)
      PROVE  ConfigInv'
  <2>1. SignalsLogged'
    BY <1>1, DueIsLogged DEF PlainCall, SignalsLogged
  <2>2. CallKnows' /\ RoutedAsConfigured'
    BY <1>0, <1>1 DEF PlainCall, CallKnows, RoutedAsConfigured
  <2> QED
    BY <1>0, <1>1, <2>1, <2>2, CallFrame DEF PlainCall, HooksAsConfigured
<1>2. ASSUME NEW api \in Rerouted, NEW to \in Destinations, BeginCall(api, to)
      PROVE  ConfigInv'
  <2>1. /\ call' = [pc |-> "flag", api |-> api, to |-> to, via |-> to, steady |-> TRUE]
        /\ due' = FALSE
    BY <1>2 DEF BeginCall
  <2>2. call' \in Calling /\ call'.pc = "flag" /\ call'.via = call'.to
    BY <2>1, ConfigurationAssumption DEF Calling
  <2>3. CallKnows' /\ HooksAsConfigured'
    BY <2>1, <2>2 DEF CallKnows, HooksAsConfigured, RoutedAsConfigured, SignalsLogged
  <2> QED
    BY <1>2, <2>2, <2>3, CallFrame DEF BeginCall
<1>3. CASE ReadFlag
  <2>1. call.pc = "flag" /\ call \in Calling
    BY <1>0, <1>3 DEF ReadFlag
  <2>2. call' = [call EXCEPT !.pc = IF live.p2p THEN "peer" ELSE "original"]
    BY <1>3 DEF ReadFlag
  <2>3. /\ call' \in Calling /\ call'.via = call'.to /\ call'.to = call.to
        /\ call'.pc = IF live.p2p THEN "peer" ELSE "original"
        /\ call'.to \in Addresses
    BY <1>0, <2>1, <2>2 DEF Calling, CallKnows
  <2>4. UNCHANGED <<live, line, due>>
    BY <1>3 DEF ReadFlag
  <2>5. CallKnows' /\ RoutedAsConfigured' /\ SignalsLogged'
    BY <1>0, <2>3, <2>4 DEF CallKnows, RoutedAsConfigured, SignalsLogged
  <2> QED
    BY <1>3, <2>3, <2>5, CallFrame DEF ReadFlag, HooksAsConfigured
<1>4. CASE ReadPeer
  <2>1. call.pc = "peer" /\ call \in Calling /\ call.to \in Addresses
    BY <1>0, <1>4 DEF ReadPeer, Calling, CallKnows
  <2> DEFINE via == Redirect(call.to, live.peer)
  <2>2. /\ via \in Addresses /\ via.port = call.to.port
        /\ via # call.to <=> /\ live.peer # NoPeer /\ call.to.port # "system"
                             /\ call.to.ip \notin Exempt \cup {live.peer}
        /\ via # call.to => via.ip = live.peer
    BY <1>0, <2>1 DEF Redirect, Addresses, Settings
  <2>3. call' = [call EXCEPT !.pc = "original", !.via = via]
    BY <1>4 DEF ReadPeer
  <2> HIDE DEF via
  <2>4. /\ call' \in Calling /\ call'.via = via /\ call'.to = call.to
        /\ call'.pc = "original" /\ call'.steady = call.steady
    BY <2>1, <2>2, <2>3 DEF Calling
  <2>5. UNCHANGED <<live, line, due>>
    BY <1>4 DEF ReadPeer
  <2>6. call.steady => live.p2p
    BY <1>0, <2>1 DEF CallKnows
  <2>7. live.peer \in Peers <=> live.peer # NoPeer
    BY <1>0, ConfigurationAssumption DEF Settings
  <2>8. CallKnows' /\ RoutedAsConfigured' /\ SignalsLogged'
    BY <1>0, <2>2, <2>4, <2>5, <2>6, <2>7
       DEF CallKnows, RoutedAsConfigured, SignalsLogged
  <2> QED
    BY <1>4, <2>4, <2>8, CallFrame DEF ReadPeer, HooksAsConfigured
<1>5. ASSUME NEW outcome \in Outcomes, EndCall(outcome)
      PROVE  ConfigInv'
  <2>1. call.api \in Apis
    BY <1>0, <1>5 DEF EndCall, Calling, Rerouted, Apis, Datagrams
  <2>2. SignalsLogged'
    BY <1>5, <2>1, DueIsLogged DEF EndCall, SignalsLogged
  <2>3. call' = [pc |-> "none"] /\ call'.pc = "none"
    BY <1>5 DEF EndCall
  <2>4. CallKnows' /\ RoutedAsConfigured'
    BY <2>3 DEF CallKnows, RoutedAsConfigured
  <2> QED
    BY <1>5, <2>2, <2>3, <2>4, CallFrame DEF EndCall, HooksAsConfigured
<1> QED
  BY <1>1, <1>2, <1>3, <1>4, <1>5 DEF Call

-----------------------------------------------------------------------------
LEMMA ConfigInit == Init => ConfigInv
<1> SUFFICES ASSUME Init PROVE ConfigInv
  OBVIOUS
<1> DEFINE me == Start(<<"load", "watch", "apply", "apply", "hooks">>, DefaultConfig)
<1>0. DefaultConfig \in Configs /\ LauncherEdits \in Nat
  BY ConfigurationAssumption
<1>1. /\ me \in Threads /\ Todo("boot", me) /\ me.pc = "exists"
      /\ Idle(DefaultConfig) \in Threads /\ Todo("watcher", Idle(DefaultConfig))
      /\ Idle(DefaultConfig).pc = "idle"
  BY <1>0, BootStarts, StartPlaces, Idles DEF Actors
<1>2. actor = [a \in Actors |-> IF a = "boot" THEN me ELSE Idle(DefaultConfig)]
  BY DEF Init
<1> HIDE DEF me
<1>3. /\ actor \in [Actors -> Threads] /\ \A a \in Actors : Todo(a, actor[a])
      /\ actor["boot"].pc = "exists" /\ actor["watcher"].pc = "idle"
  BY <1>1, <1>2 DEF Actors
<1>4. /\ writes \in BOOLEAN /\ file \in Contents
      /\ IsObject(file) => file.launcher = 0
  <2>1. \A own \in Configs, tidy \in BOOLEAN :
          Object(own, 0, tidy) \in Objects /\ Object(own, 0, tidy).launcher = 0
    BY <1>0 DEF Object, Objects
  <2> QED
    BY <2>1, ConfigurationAssumption DEF Init, Contents, IsObject
<1>5. Types
  <2>1. live \in Settings
    BY DEF Init, Settings
  <2>2. past \in [torn : BOOLEAN, overtaken : BOOLEAN, failed : BOOLEAN, stale : BOOLEAN]
    BY DEF Init
  <2>3. call \in Calling \cup {[pc |-> "none"]}
    BY DEF Init
  <2>4. edits \in 0..LauncherEdits
    BY <1>0 DEF Init
  <2>5. /\ launcher \in {"idle", "emptied"} /\ event \in BOOLEAN
        /\ watching \in BOOLEAN /\ installed \in BOOLEAN
    BY DEF Init
  <2> QED
    BY <1>3, <1>4, <2>1, <2>2, <2>3, <2>4, <2>5 DEF Types
<1>6. WatchedLater /\ BootCurrent /\ WatcherCurrent
  BY <1>3 DEF Init, WatchedLater, BootCurrent, WatcherCurrent, At, Reading
<1>7. LauncherAlone
  BY <1>3, <1>4 DEF Init, LauncherAlone, Actors
<1>8. CallKnows /\ HooksAsConfigured
  BY DEF Init, CallKnows, HooksAsConfigured, RoutedAsConfigured, SignalsLogged
<1> QED
  BY <1>5, <1>6, <1>7, <1>8 DEF ConfigInv

LEMMA ConfigStep == ConfigInv /\ [Next \/ Rest]_vars => ConfigInv'
<1> SUFFICES ASSUME ConfigInv, [Next \/ Rest]_vars PROVE ConfigInv'
  OBVIOUS
<1>1. ASSUME NEW a \in Actors, Load(a) PROVE ConfigInv'
  BY <1>1, LoadKeeps
<1>2. ASSUME NEW a \in Actors, Save(a) PROVE ConfigInv'
  BY <1>2, SaveExistingKeeps, SaveOpenKeeps, SaveFailsKeeps, SaveFillKeeps DEF Save
<1>3. ASSUME NEW a \in Actors, Apply(a) PROVE ConfigInv'
  BY <1>3, StoreEnabledKeeps, StoreDetailKeeps, StoreRedirectionKeeps, StorePeerKeeps
     DEF Apply
<1>4. CASE Boot
  BY <1>4, EnsureWatcherKeeps, InstallHooksKeeps DEF Boot
<1>5. CASE WatcherWakes
  BY <1>5, WatcherWakesKeeps
<1>6. CASE Launcher
  BY <1>6, LauncherStepKeeps
<1>7. CASE Call
  BY <1>7, CallStepKeeps
<1>8. CASE UNCHANGED vars
  <2>1. UNCHANGED <<writes, fileVars, watching, actor, launcher, live, installed, edits>>
        /\ UNCHANGED <<call, line, due>>
    BY <1>8 DEF vars, netVars, fileVars
  <2>2. CallKnows' /\ HooksAsConfigured' /\ call' \in Calling \cup {[pc |-> "none"]}
    BY <2>1, CallsKept DEF ConfigInv, Types
  <2> QED
    BY <2>1, <2>2, CallFrame
<1> QED
  BY <1>1, <1>2, <1>3, <1>4, <1>5, <1>6, <1>7, <1>8 DEF Next, Routine, Rest

(* The inductive invariant. *)
THEOREM ConfigInvariant == Spec => []ConfigInv
BY ConfigInit, ConfigStep, PTL DEF Spec

(* Whatever is stored while a hooked call runs, where its datagram goes    *)
(* and what is logged of it is what the settings say.                      *)
THEOREM HooksFollowSettings == Spec => []HooksAsConfigured
<1>1. ConfigInv => HooksAsConfigured
  BY DEF ConfigInv
<1> QED
  BY <1>1, ConfigInvariant, PTL

(* merged_config_json keeps the launcher's fields in every save that did   *)
(* not meet a file somebody else was writing.                              *)
THEOREM LauncherIsKept == Spec => []LauncherFieldsKept
<1>1. ConfigInv => LauncherFieldsKept
  BY DEF ConfigInv, LauncherAlone, LauncherFieldsKept
<1> QED
  BY <1>1, ConfigInvariant, PTL

(* When the bootstrap, the watcher and the launcher are done, the network  *)
(* hooks go by the configuration in the file.                              *)
THEOREM SettledIsApplied == Spec => []SettledMeansApplied
<1>1. ConfigInv => SettledMeansApplied
  BY DEF ConfigInv, WatcherCurrent, SettledMeansApplied, Quiet, At, Actors
<1> QED
  BY <1>1, ConfigInvariant, PTL
=============================================================================
