--------------------------- MODULE ControlProofs ---------------------------
(***************************************************************************)
(* Proofs about Control, for every set of streams, every video and every   *)
(* sequence of requests.                                                   *)
(***************************************************************************)
EXTENDS Control, SequenceTheorems, TLAPS

-----------------------------------------------------------------------------
(* The operators *)

\* A slot is followed by a slot.
LEMMA FollowingSlot ==
  ASSUME NEW slot \in Slot
  PROVE  Following(slot) \in Slot
BY ConfigAssumption DEF Following, Slot

\* A manager goes to the next slot and to the bitrate of its version.
LEMMA NextManager ==
  ASSUME NEW vm \in VersionManager, ~NextPanics(vm)
  PROVE  /\ next(vm) \in VersionManager
         /\ next(vm).current_version = vm.current_version
         /\ next(vm).current_slot = Following(vm.current_slot)
         /\ next(vm).actual_bitrate = bitrates_bps[vm.current_version + 1]
<1>1. vm.current_version \in Nat /\ vm.current_slot \in Slot
  BY DEF VersionManager
<1>2. Following(vm.current_slot) \in Slot
  BY <1>1, FollowingSlot
<1>3. vm.current_version + 1 \in 1 .. Len(bitrates_bps)
  BY <1>1, ConfigAssumption DEF NextPanics
<1>4. bitrates_bps[vm.current_version + 1] \in Nat
  BY <1>3, ConfigAssumption
<1>. QED
  BY <1>2, <1>4 DEF next, VersionManager

\* A version has a bitrate and files.
LEMMA VersionType ==
  ASSUME NEW i \in 1 .. Len(versions)
  PROVE  /\ versions[i].bitrate_bps \in Nat
         /\ versions[i].files \in Seq(Nat \cup {Missing})
<1>. DEFINE Version ==
       [bitrate_bps : Nat, files : Seq(Nat \cup {Missing})]
<1>1. versions \in Seq(Version)
  BY ConfigAssumption
<1>2. versions[i] \in Version
  <2>. HIDE DEF Version
  <2>. QED
    BY <1>1, ElementOfSeq
<1>. QED
  BY <1>2

\* The trace it goes on with exists and comes from its slot and version.
LEMMA NextTraceExists ==
  ASSUME NEW vm \in VersionManager, ~NextPanics(vm)
  PROVE  /\ NextTrace(vm) \in Trace
         /\ NextTrace(vm).version = vm.current_version
         /\ NextTrace(vm).slot = vm.current_slot
         /\ Content(NextTrace(vm)) \in Nat \cup {Missing}
<1>1. vm.current_version \in Nat /\ vm.current_slot \in Slot
  BY DEF VersionManager
<1>2. vm.current_slot \in Nat
  BY <1>1 DEF Slot
<1>3. vm.current_version + 1 \in 1 .. Len(versions)
  BY <1>1, ConfigAssumption DEF NextPanics
<1>4. versions[vm.current_version + 1].files \in Seq(Nat \cup {Missing})
  BY <1>3, VersionType
<1>5. vm.current_slot + 1 \in
        1 .. Len(versions[vm.current_version + 1].files)
  BY <1>2, <1>4 DEF NextPanics
<1>6. versions[vm.current_version + 1].files[vm.current_slot + 1]
        \in Nat \cup {Missing}
  BY <1>4, <1>5, ElementOfSeq
<1>. QED
  BY <1>1, <1>6 DEF NextTrace, Content, Trace

\* A request sets the version of a manager and nothing that is in use.
LEMMA SetManager ==
  ASSUME NEW vm \in VersionManager, NEW v \in Nat
  PROVE  /\ set_version(vm, v) \in VersionManager
         /\ set_version(vm, v).current_slot = vm.current_slot
         /\ set_version(vm, v).actual_bitrate = vm.actual_bitrate
         /\ set_version(vm, v).current_version =
              IF v < Len(versions) THEN v ELSE vm.current_version
<1>1. CASE v < Len(versions)
  <2>1. v + 1 \in 1 .. Len(versions)
    BY <1>1, ConfigAssumption
  <2>2. versions[v + 1].bitrate_bps \in Nat
    BY <2>1, VersionType
  <2>. QED
    BY <1>1, <2>2 DEF set_version, VersionManager
<1>2. CASE ~(v < Len(versions))
  BY <1>2 DEF set_version
<1>. QED
  BY <1>1, <1>2

\* A manager whose version exists finds its next trace.
LEMMA ConsistentNext ==
  ASSUME Consistent, NEW vm \in VersionManager,
         vm.current_version < Len(versions)
  PROVE  ~NextPanics(vm)
<1>1. /\ vm.current_version \in Nat /\ vm.current_slot \in Slot
      /\ Len(versions) \in Nat /\ Len(bitrates_bps) \in Nat
  BY ConfigAssumption DEF VersionManager
<1>2. vm.current_version + 1 \in DOMAIN versions
  BY <1>1, ConfigAssumption
<1>3. /\ vm.current_slot < Len(versions[vm.current_version + 1].files)
      /\ vm.current_version < Len(bitrates_bps)
  BY <1>1, <1>2 DEF Consistent
<1>4. vm.current_slot \in Nat
  BY <1>1 DEF Slot
<1>5. Len(versions[vm.current_version + 1].files) \in Nat
  BY <1>2, ConfigAssumption, VersionType
<1>. QED
  BY <1>1, <1>3, <1>4, <1>5 DEF NextPanics

-----------------------------------------------------------------------------
(* Type correctness *)

\* The values of a request fit its command.
ValuesFit ==
  cmd \in {"Version", "Control"} =>
    \A n \in DOMAIN todo : todo[n] \in VersionIndices

TypeInv == TypeOK /\ ValuesFit

\* The initial states are well typed.
LEMMA InitType == Init => TypeInv
<1>. SUFFICES ASSUME Init PROVE TypeInv
  OBVIOUS
<1>1. VersionManager_new \in VersionManager
  <2>1. bitrates_bps[initial_version + 1] \in Nat
    BY ConfigAssumption
  <2>2. 0 \in Slot
    BY DEF Slot
  <2>. QED
    BY <2>1, <2>2, ConfigAssumption DEF VersionManager_new, VersionManager
<1>2. version_manager \in [Streams -> VersionManager \cup {None}]
  BY <1>1 DEF Init
<1>3. idx \in [Videos -> Nat] /\ asked \in [Streams -> Nat]
  BY ControlAssumption, ConfigAssumption DEF Init
<1>4. DOMAIN todo = {} /\ DOMAIN flow_stat = {}
  BY DEF Init
<1>5. todo \in [{} -> VersionIndices \cup {NoValue}]
  BY DEF Init
<1>. QED
  BY <1>2, <1>3, <1>4, <1>5 DEF Init, TypeInv, TypeOK, ValuesFit, Commands,
                              Datagrams

\* Every value that is still to be taken up stays as it was.
LEMMA WithoutType ==
  ASSUME NEW n
  PROVE  /\ DOMAIN Without(todo, n) = DOMAIN todo \ {n}
         /\ \A m \in DOMAIN todo \ {n} : Without(todo, n)[m] = todo[m]
BY DEF Without

\* A video thread that loads a trace keeps the types.
LEMMA LoadType ==
  ASSUME TypeInv, NEW s \in Videos, Load(s)
  PROVE  /\ version_manager' \in [Streams -> VersionManager \cup {None}]
         /\ trace' \in [Videos -> Trace \cup {None}]
         /\ idx' \in [Videos -> Nat]
         /\ reload' \in [Videos -> BOOLEAN]
         /\ poisoned' = poisoned
<1>1. s \in Streams
  BY DEF Videos
<1>2. /\ version_manager[s] \in VersionManager
      /\ ~NextPanics(version_manager[s])
  BY <1>1 DEF TypeInv, TypeOK, Load, Loadable
<1>3. /\ next(version_manager[s]) \in VersionManager
      /\ NextTrace(version_manager[s]) \in Trace
  BY <1>2, NextManager, NextTraceExists
<1>4. start_offset \in Nat
  BY ControlAssumption
<1>. QED
  BY <1>3, <1>4 DEF TypeInv, TypeOK, Load

\* So does every step of a video thread.
LEMMA ThreadType ==
  ASSUME TypeInv, NEW s \in Videos, VideoThread(s)
  PROVE  TypeInv'
<1>. USE DEF TypeInv, TypeOK, ValuesFit
<1>1. CASE Start(s) \/ StartFails(s)
  BY <1>1, LoadType DEF Start, StartFails, Goes, mainVars
<1>2. CASE Reload(s)
  BY <1>2, LoadType DEF Reload, Goes, mainVars
<1>3. CASE LoadPanics(s)
  BY <1>3 DEF LoadPanics, Goes, mainVars
<1>4. CASE Wake(s)
  BY <1>4 DEF Wake, Goes, mainVars
<1>5. CASE Turn(s)
  BY <1>5 DEF Turn, Goes, mainVars
<1>6. CASE Play(s) \/ PlayFails(s) \/ SendPanics(s)
  <2>1. AtEnd(s, idx[s] + 1) \in BOOLEAN
    BY DEF AtEnd
  <2>2. idx' \in [Videos -> Nat] /\ reload' \in [Videos -> BOOLEAN]
    BY <1>6, <2>1 DEF Play, PlayFails, SendPanics, TakesFrame
  <2>. QED
    BY <1>6, <2>2 DEF Play, PlayFails, SendPanics, TakesFrame, Goes, mainVars,
                      Videos
<1>7. CASE PlayPanics(s)
  BY <1>7 DEF PlayPanics, Goes, mainVars
<1>. QED
  BY <1>1, <1>2, <1>3, <1>4, <1>5, <1>6, <1>7 DEF VideoThread

\* What is left of a request is a request.
LEMMA TodoType ==
  ASSUME TypeInv, NEW n, todo' = Without(todo, n), cmd' = cmd
  PROVE  /\ todo' \in UNION {[N -> VersionIndices \cup {NoValue}] :
                               N \in SUBSET (Names \cup Streams)}
         /\ ValuesFit'
<1>1. PICK N \in SUBSET (Names \cup Streams) :
        todo \in [N -> VersionIndices \cup {NoValue}]
  BY DEF TypeInv, TypeOK
<1>2. todo' \in [N \ {n} -> VersionIndices \cup {NoValue}]
  BY <1>1 DEF Without
<1>3. N \ {n} \in SUBSET (Names \cup Streams)
  OBVIOUS
<1>4. ValuesFit'
  BY WithoutType DEF TypeInv, ValuesFit
<1>. QED
  BY <1>2, <1>3, <1>4

\* A request that has come in is one.
LEMMA ReceiveType ==
  ASSUME TypeInv, NEW c \in Datagrams, NEW data \in Requests(c),
         NEW len \in Lengths, ReceiveRequest(c, data, len)
  PROVE  TypeInv'
<1>1. /\ \E N \in SUBSET (Names \cup Streams) :
           data \in [N -> VersionIndices \cup {NoValue}]
      /\ c \in {"Version", "Control"} =>
           \A n \in DOMAIN data : data[n] \in VersionIndices
  <2>1. CASE c \in {"Throttle", "PolicyParameters"}
    <3>1. PICK N \in SUBSET Names : data \in [N -> {NoValue}]
      BY <2>1 DEF Requests
    <3>. QED
      BY <2>1, <3>1
  <2>2. CASE c \in {"Version", "Control"}
    <3>1. PICK N \in SUBSET VersionNames : data \in [N -> VersionIndices]
      BY <2>2 DEF Requests
    <3>2. N \in SUBSET (Names \cup Streams)
      BY ControlAssumption
    <3>. QED
      BY <3>1, <3>2
  <2>3. CASE c = "Statistics"
    <3>1. data \in [Streams -> {NoValue}]
      BY <2>3 DEF Requests
    <3>. QED
      BY <2>3, <3>1
  <2>4. CASE c = "Unreadable"
    <3>1. data \in [{} -> {NoValue}]
      BY <2>4 DEF Requests
    <3>. QED
      BY <2>4, <3>1
  <2>. QED
    BY <2>1, <2>2, <2>3, <2>4 DEF Commands, Datagrams
<1>2. DOMAIN flow_stat' = {} /\ length' \in Nat
  BY ControlAssumption DEF ReceiveRequest
<1>. QED
  BY <1>1, <1>2 DEF ReceiveRequest, TypeInv, TypeOK, ValuesFit, threadVars

\* The main thread keeps the types while it handles a request.
LEMMA HandleType ==
  ASSUME TypeInv, Handle
  PROVE  TypeInv'
<1>. USE DEF TypeInv, TypeOK, ValuesFit
<1>1. CASE \E s \in Streams : Set(s)
  BY <1>1, TodoType DEF Set, TakesUp, threadVars
<1>2. CASE \E s \in Streams : SetVersion(s)
  <2>. PICK s \in Streams : SetVersion(s)
    BY <1>2
  <2>1. todo[s] \in Nat
    BY ControlAssumption DEF SetVersion, TakesUp
  <2>2. CASE s \in poisoned
    BY <2>2, TodoType DEF SetVersion, TakesUp, threadVars
  <2>3. CASE s \notin poisoned
    <3>1. version_manager[s] \in VersionManager
      BY <2>3 DEF SetVersion
    <3>2. set_version(version_manager[s], todo[s]) \in VersionManager
      BY <2>1, <3>1, SetManager
    <3>3. /\ version_manager' \in [Streams -> VersionManager \cup {None}]
          /\ asked' \in [Streams -> Nat]
      BY <2>1, <2>3, <3>2 DEF SetVersion
    <3>. QED
      BY <3>3, TodoType DEF SetVersion, TakesUp, threadVars
  <2>. QED
    BY <2>2, <2>3
<1>3. CASE \E s \in Streams : SetVersionPanics(s)
  BY <1>3 DEF SetVersionPanics, TakesUp, threadVars
<1>4. CASE \E s \in Streams : Poll(s)
  <2>. PICK s \in Streams : Poll(s)
    BY <1>4
  <2>1. CASE Reports(s)
    <3>1. version_manager[s] \in VersionManager
      BY <2>1 DEF Reports
    <3>2. version_manager[s].actual_bitrate \in Nat
      BY <3>1 DEF VersionManager
    <3>3. /\ DOMAIN flow_stat' = DOMAIN flow_stat \cup {s}
          /\ \A t \in DOMAIN flow_stat' : flow_stat'[t] \in Nat
      BY <2>1, <3>2 DEF Poll
    <3>. QED
      BY <3>3, TodoType DEF Poll, TakesUp, threadVars
  <2>2. CASE ~Reports(s)
    BY <2>2, TodoType DEF Poll, TakesUp, threadVars
  <2>. QED
    BY <2>1, <2>2
<1>5. CASE \E name \in Names : UnknownName(name)
  BY <1>5 DEF UnknownName, TakesUp, threadVars
<1>6. CASE Finish
  BY <1>6 DEF Finish, threadVars
<1>7. CASE ReplyFails
  BY <1>7 DEF ReplyFails, threadVars
<1>. QED
  BY <1>1, <1>2, <1>3, <1>4, <1>5, <1>6, <1>7 DEF Handle

\* Every step keeps the types.
LEMMA StepType == TypeInv /\ [Next]_vars => TypeInv'
<1>. SUFFICES ASSUME TypeInv, [Next]_vars PROVE TypeInv'
  OBVIOUS
<1>1. CASE \E s \in Videos : VideoThread(s)
  BY <1>1, ThreadType
<1>2. CASE \E s \in Streams : Clock(s)
  BY <1>2 DEF Clock, Begin, Expire, TypeInv, TypeOK, ValuesFit, threadVars,
              mainVars
<1>3. CASE \E c \in Datagrams : \E data \in Requests(c) :
             \E len \in Lengths : ReceiveRequest(c, data, len)
  BY <1>3, ReceiveType
<1>4. CASE Handle
  BY <1>4, HandleType
<1>5. CASE Exit
  BY <1>5 DEF Exit, TypeInv, TypeOK, ValuesFit, threadVars
<1>6. CASE UNCHANGED vars
  BY <1>6 DEF vars, threadVars, mainVars, TypeInv, TypeOK, ValuesFit
<1>7. CASE \E s \in Streams : PongPanics(s)
  BY <1>7 DEF PongPanics, TypeInv, TypeOK, ValuesFit, mainVars
<1>. QED
  BY <1>1, <1>2, <1>3, <1>4, <1>5, <1>6, <1>7 DEF Next

\* Every variable keeps its type: a manager stays in the slots of its video,
\* whatever versions it is set (version_manager.rs:70-90).
THEOREM TypeCorrect == Spec => []TypeOK
<1>1. TypeInv => TypeOK
  BY DEF TypeInv
<1>. QED
  BY <1>1, InitType, StepType, PTL DEF Spec

-----------------------------------------------------------------------------
(* What a video thread and its manager agree upon *)

\* A thread without a trace has just been started, or has failed to load its
\* first one; the manager is then in the first slot.
NotLoaded(s) ==
  trace[s] = None =>
    /\ pc[s] = "start" \/ (pc[s] = "panicked" /\ s \in poisoned)
    /\ s \notin poisoned /\ version_manager[s] # None =>
         version_manager[s].current_slot = 0

\* Otherwise the manager, if nobody has panicked with it, is one slot ahead
\* of the thread and has the bitrate of its trace; the trace can be read.
Loaded(s) ==
  trace[s] # None =>
    /\ pc[s] # "start"
    /\ version_manager[s] # None
    /\ Content(trace[s]) \in Nat
    /\ s \notin poisoned =>
         /\ version_manager[s].current_slot = Following(trace[s].slot)
         /\ version_manager[s].actual_bitrate =
              bitrates_bps[trace[s].version + 1]

\* A thread loads a trace only at the end of the one before.
Reloading(s) ==
  /\ pc[s] = "reload" => reload[s]
  /\ reload[s] => trace[s] # None /\ idx[s] = Content(trace[s])

\* A thread plays a frame that is there, or the first one.
Playing(s) ==
  /\ pc[s] = "play" => ~reload[s]
  /\ trace[s] # None /\ ~reload[s] =>
       idx[s] = start_offset \/ idx[s] < Content(trace[s])

\* The lock is poisoned only by a panic of the thread itself, and not by one
\* that has nothing to do with it.
Poisoned(s) ==
  /\ s \in poisoned \cup failed => pc[s] = "panicked"
  /\ s \notin poisoned \/ s \notin failed

Agrees(s) ==
  NotLoaded(s) /\ Loaded(s) /\ Reloading(s) /\ Playing(s) /\ Poisoned(s)

Agreed == \A s \in Videos : Agrees(s)

ReplayInv == TypeInv /\ Agreed

\* In the beginning there is no trace.
LEMMA InitAgreed == Init => Agreed
<1>. SUFFICES ASSUME Init, NEW s \in Videos
              PROVE  Agrees(s)
  BY DEF Agreed
<1>1. s \in Streams
  BY DEF Videos
<1>2. VersionManager_new.current_slot = 0
  BY DEF VersionManager_new
<1>3. /\ version_manager[s] # None => version_manager[s].current_slot = 0
      /\ poisoned = {} /\ failed = {} /\ pc[s] = "start" /\ trace[s] = None
      /\ reload[s] = FALSE /\ idx[s] = start_offset
  BY <1>1, <1>2 DEF Init
<1>. QED
  BY <1>3 DEF NotLoaded, Loaded, Reloading, Playing, Poisoned, Agrees

\* A thread that has loaded a trace agrees with its manager.
LEMMA LoadAgreed ==
  ASSUME ReplayInv, NEW s \in Videos, Load(s),
         pc[s] \in {"start", "reload"},
         \/ /\ \/ pc' = [pc EXCEPT ![s] = "sleep"]
               \/ pc' = [pc EXCEPT ![s] = "play"]
            /\ failed' = failed
         \/ /\ pc' = [pc EXCEPT ![s] = "panicked"]
            /\ failed' = failed \cup {s}
  PROVE  Agrees(s)'
<1>1. s \in Streams
  BY DEF Videos
<1>2. /\ version_manager[s] \in VersionManager
      /\ ~NextPanics(version_manager[s])
      /\ Content(NextTrace(version_manager[s])) # Missing
  BY <1>1 DEF ReplayInv, TypeInv, TypeOK, Load, Loadable
<1>3. /\ version_manager'[s] = next(version_manager[s])
      /\ trace'[s] = NextTrace(version_manager[s])
      /\ reload'[s] = FALSE /\ idx'[s] = start_offset
      /\ poisoned' = poisoned
  BY <1>1 DEF ReplayInv, TypeInv, TypeOK, Load
<1>4. /\ trace'[s] # None /\ version_manager'[s] # None
  BY <1>2, <1>3, NextManager, NextTraceExists, NoneAssumption
<1>5. /\ Content(trace'[s]) \in Nat
      /\ version_manager'[s].current_slot = Following(trace'[s].slot)
      /\ version_manager'[s].actual_bitrate =
           bitrates_bps[trace'[s].version + 1]
  BY <1>2, <1>3, NextManager, NextTraceExists
<1>6. /\ pc'[s] \in {"sleep", "play", "panicked"}
      /\ s \in failed' \ failed => pc'[s] = "panicked"
  BY DEF ReplayInv, TypeInv, TypeOK
<1>7. s \notin poisoned \cup failed
  BY DEF ReplayInv, Agreed, Agrees, Poisoned
<1>8. Content(trace[s])' = Content(trace'[s])
  BY DEF Content
<1>. QED
  BY <1>3, <1>4, <1>5, <1>6, <1>7, <1>8
     DEF NotLoaded, Loaded, Reloading, Playing, Poisoned, Agrees

\* The steps of a video thread keep it in agreement with its manager.
LEMMA ThreadAgreed ==
  ASSUME ReplayInv, NEW s \in Videos, VideoThread(s)
  PROVE  Agrees(s)'
<1>. USE DEF ReplayInv, TypeInv, TypeOK
<1>1. Agrees(s)
  BY DEF Agreed
<1>2. CASE Start(s) \/ StartFails(s) \/ Reload(s)
  BY <1>2, LoadAgreed DEF Start, StartFails, Reload, Goes
<1>3. CASE LoadPanics(s)
  <2>1. /\ pc'[s] = "panicked" /\ s \in poisoned' /\ pc[s] # "panicked"
        /\ UNCHANGED <<version_manager, trace, idx, reload, failed>>
    BY <1>3 DEF LoadPanics, Goes
  <2>. QED
    BY <1>1, <2>1 DEF NotLoaded, Loaded, Reloading, Playing, Poisoned,
                      Agrees, Content
<1>4. CASE Wake(s) \/ Turn(s) \/ PlayPanics(s)
  <2>1. /\ UNCHANGED <<version_manager, trace, idx, reload, poisoned, failed>>
        /\ pc[s] \in {"sleep", "loop", "play"}
        /\ pc'[s] # "start"
        /\ pc'[s] = "reload" => reload[s]
        /\ pc'[s] = "play" => ~reload[s]
    BY <1>4 DEF Wake, Turn, PlayPanics, Goes
  <2>. QED
    BY <1>1, <2>1 DEF NotLoaded, Loaded, Reloading, Playing, Poisoned,
                      Agrees, Content
<1>5. CASE Play(s) \/ PlayFails(s) \/ SendPanics(s)
  <2>1. /\ UNCHANGED <<version_manager, trace, poisoned>>
        /\ pc[s] = "play"
        /\ \/ pc'[s] = "loop" /\ failed' = failed
           \/ pc'[s] = "panicked"
        /\ idx[s] < Content(trace[s]) /\ idx[s] \in Nat
        /\ idx'[s] = idx[s] + 1
        /\ reload'[s] = (idx[s] + 1 = Content(trace[s]))
    BY <1>5 DEF Play, PlayFails, SendPanics, TakesFrame, Goes, AtEnd
  <2>2. trace[s] # None /\ Content(trace[s]) \in Nat
    BY <1>1, <2>1 DEF Agrees, NotLoaded, Loaded
  <2>3. ~reload'[s] => idx'[s] < Content(trace[s])
    <3>1. ~reload'[s] => idx[s] + 1 # Content(trace[s])
      BY <2>1
    <3>. HIDE DEF ReplayInv, TypeInv, TypeOK
    <3>2. idx[s] \in Nat /\ idx[s] < Content(trace[s]) /\ idx'[s] = idx[s] + 1
      BY <2>1
    <3>. QED
      BY <2>2, <3>1, <3>2
  <2>. QED
    BY <1>1, <2>1, <2>2, <2>3
    DEF NotLoaded, Loaded, Reloading, Playing, Poisoned, Agrees, Content
<1>. QED
  BY <1>2, <1>3, <1>4, <1>5 DEF VideoThread

\* It disturbs no other thread.
LEMMA OthersAgreed ==
  ASSUME ReplayInv, NEW s \in Videos, VideoThread(s), NEW t \in Videos \ {s}
  PROVE  Agrees(t)'
<1>1. Agrees(t)
  BY DEF ReplayInv, Agreed
<1>2. /\ version_manager'[t] = version_manager[t]
      /\ pc'[t] = pc[t] /\ trace'[t] = trace[t]
      /\ idx'[t] = idx[t] /\ reload'[t] = reload[t]
      /\ t \in poisoned' <=> t \in poisoned
      /\ t \in failed' <=> t \in failed
  BY DEF VideoThread, Start, StartFails, Reload, Load, LoadPanics, Wake, Turn,
         TakesFrame, Play, PlayFails, SendPanics, PlayPanics, Goes, ReplayInv, TypeInv, TypeOK, Videos
<1>. QED
  BY <1>1, <1>2 DEF NotLoaded, Loaded, Reloading, Playing, Poisoned,
                      Agrees, Content

\* Only a step of its thread changes what a video thread has.
LEMMA ThreadsOnly ==
  ASSUME ReplayInv, [Next]_vars, NEW s \in Videos
  PROVE  \/ VideoThread(s)
         \/ /\ pc'[s] = pc[s] /\ trace'[s] = trace[s]
            /\ s \in failed' <=> s \in failed
<1>1. CASE \E t \in Videos : VideoThread(t)
  <2>. PICK t \in Videos : VideoThread(t)
    BY <1>1
  <2>1. CASE t # s
    BY <2>1 DEF VideoThread, Start, StartFails, Reload, Load, LoadPanics,
                Wake, Turn, TakesFrame, Play, PlayFails, SendPanics,
                PlayPanics, Goes, ReplayInv, TypeInv, TypeOK
  <2>. QED
    BY <2>1
<1>2. CASE UNCHANGED <<pc, trace, failed>>
  BY <1>2
<1>. QED
  BY <1>1, <1>2 DEF Next, PongPanics, Clock, Begin, Expire, ReceiveRequest,
       Handle, Set, SetVersion, SetVersionPanics, Poll, UnknownName, Finish,
       ReplyFails, TakesUp, Exit, vars, threadVars

\* A request changes nothing that is in use.
LEMMA HandleAgreed ==
  ASSUME ReplayInv, Handle
  PROVE  Agreed'
<1>. USE DEF ReplayInv, TypeInv, TypeOK
<1>1. CASE UNCHANGED <<version_manager, poisoned, threadVars>>
  BY <1>1 DEF threadVars, Agreed, NotLoaded, Loaded, Reloading, Playing,
              Poisoned, Agrees, Content
<1>2. CASE \E s \in Streams : SetVersion(s) /\ s \notin poisoned
  <2>. PICK s \in Streams : SetVersion(s) /\ s \notin poisoned
    BY <1>2
  <2>1. todo[s] \in Nat /\ version_manager[s] \in VersionManager
    BY ControlAssumption DEF SetVersion, TakesUp, ValuesFit
  <2>2. UNCHANGED <<poisoned, threadVars>>
    BY DEF SetVersion, TakesUp
  <2>5. version_manager' =
          [version_manager EXCEPT ![s] = set_version(@, todo[s])]
    BY DEF SetVersion
  <2>3. /\ set_version(version_manager[s], todo[s]) # None
        /\ set_version(version_manager[s], todo[s]).current_slot =
             version_manager[s].current_slot
        /\ set_version(version_manager[s], todo[s]).actual_bitrate =
             version_manager[s].actual_bitrate
    <3>1. set_version(version_manager[s], todo[s]) \in VersionManager
      BY <2>1, SetManager
    <3>2. set_version(version_manager[s], todo[s]) # None
      BY <3>1, NoneAssumption
    <3>. HIDE DEF ReplayInv, TypeInv, TypeOK
    <3>. QED
      BY <2>1, <3>2, SetManager
  <2>4. \A t \in Streams :
          /\ version_manager'[t] = None <=> version_manager[t] = None
          /\ version_manager[t] # None =>
               /\ version_manager'[t].current_slot =
                    version_manager[t].current_slot
               /\ version_manager'[t].actual_bitrate =
                    version_manager[t].actual_bitrate
    BY <2>1, <2>3, <2>5, NoneAssumption
  <2>. QED
    BY <2>2, <2>4 DEF threadVars, Agreed, NotLoaded, Loaded, Reloading,
                      Playing, Poisoned, Agrees, Content, Videos
<1>. QED
  BY <1>1, <1>2 DEF Handle, Set, SetVersion, SetVersionPanics, Poll,
                    UnknownName, Finish, ReplyFails, TakesUp

\* The invariant holds for ever.
LEMMA ReplayInvariant == Spec => []ReplayInv
<1>1. Init => ReplayInv
  BY InitType, InitAgreed DEF ReplayInv
<1>2. ReplayInv /\ [Next]_vars => ReplayInv'
  <2>. SUFFICES ASSUME ReplayInv, [Next]_vars PROVE Agreed'
    BY StepType DEF ReplayInv
  <2>1. CASE \E s \in Videos : VideoThread(s)
    BY <2>1, ThreadAgreed, OthersAgreed DEF Agreed
  <2>2. CASE Handle
    BY <2>2, HandleAgreed
  <2>3. CASE UNCHANGED <<version_manager, poisoned, pc, trace, idx, reload,
                         failed>>
    BY <2>3 DEF ReplayInv, Agreed, NotLoaded, Loaded, Reloading,
                Playing, Poisoned, Agrees, Content
  <2>. QED
    BY <2>1, <2>2, <2>3 DEF Next, Clock, Begin, Expire, PongPanics,
                            ReceiveRequest, Exit, vars, threadVars
<1>. QED
  BY <1>1, <1>2, PTL DEF Spec

\* The bitrate that a poll reports is that of the trace being replayed,
\* whatever versions are set meanwhile (version_manager.rs:77).
THEOREM BitrateReported == Spec => []BitrateHonest
<1>1. ReplayInv => BitrateHonest
  BY DEF ReplayInv, Agreed, Agrees, Loaded, BitrateHonest
<1>. QED
  BY <1>1, ReplayInvariant, PTL

\* A video is replayed slot by slot, each to its end, whatever versions are
\* set meanwhile (source.rs:184-199).
THEOREM ReplayedInOrder == Spec => SlotsReplayed
<1>1. ASSUME ReplayInv, ReplayInv', [Next]_vars, NEW s \in Videos,
             trace'[s] # trace[s]
      PROVE  IF trace[s] = None THEN trace'[s].slot = 0
             ELSE /\ idx[s] = Content(trace[s])
                  /\ trace'[s].slot = Following(trace[s].slot)
  <2>1. Start(s) \/ StartFails(s) \/ Reload(s)
    BY <1>1, ThreadsOnly
       DEF VideoThread, LoadPanics, Wake, Turn, TakesFrame, Play, PlayFails,
           SendPanics, PlayPanics
  <2>2. /\ pc[s] \in {"start", "reload"}
        /\ version_manager[s] # None
        /\ trace'[s] = NextTrace(version_manager[s])
    BY <2>1, <1>1 DEF Start, StartFails, Reload, Goes, Load, Loadable, ReplayInv, TypeInv,
                      TypeOK
  <2>3. trace'[s].slot = version_manager[s].current_slot
    BY <2>2 DEF NextTrace
  <2>4. Agrees(s)
    BY <1>1 DEF ReplayInv, Agreed
  <2>. QED
    BY <2>2, <2>3, <2>4
    DEF NotLoaded, Loaded, Reloading, Playing, Poisoned, Agrees
<1>2. ReplayInv /\ ReplayInv' /\ [Next]_vars =>
        [\A s \in Videos :
           trace'[s] # trace[s] =>
             IF trace[s] = None THEN trace'[s].slot = 0
             ELSE /\ idx[s] = Content(trace[s])
                  /\ trace'[s].slot = Following(trace[s].slot)]_vars
  BY <1>1
<1>. QED
  BY <1>2, ReplayInvariant, PTL DEF Spec, SlotsReplayed

-----------------------------------------------------------------------------
(* Panics of the video threads *)

\* A manager is in a version that exists, and every .json file has one.
VersionsExist ==
  \A s \in Streams :
    /\ kind[s] = "json" => version_manager[s] # None
    /\ version_manager[s] # None =>
         version_manager[s].current_version < Len(versions)

PanicInv == ReplayInv /\ VersionsExist /\ NoIndexPanics

\* No request puts a manager into a version that does not exist.
LEMMA VersionsExistStep ==
  ASSUME ReplayInv, VersionsExist, [Next]_vars
  PROVE  VersionsExist'
<1>. SUFFICES ASSUME NEW s \in Streams
     PROVE  /\ kind[s] = "json" => version_manager'[s] # None
            /\ version_manager'[s] # None =>
                 version_manager'[s].current_version < Len(versions)
  BY DEF VersionsExist
<1>. USE DEF ReplayInv, TypeInv, TypeOK
<1>1. CASE version_manager'[s] = version_manager[s]
  BY <1>1 DEF VersionsExist
<1>2. CASE s \in Videos /\ Load(s)
  <2>1. /\ version_manager[s] \in VersionManager
        /\ ~NextPanics(version_manager[s])
        /\ version_manager'[s] = next(version_manager[s])
    BY <1>2 DEF Load, Loadable
  <2>2. /\ version_manager'[s] \in VersionManager
        /\ version_manager'[s].current_version =
             version_manager[s].current_version
    BY <2>1, NextManager
  <2>. QED
    BY <2>1, <2>2, NoneAssumption DEF VersionsExist
<1>3. CASE SetVersion(s) /\ s \notin poisoned
  <2>1. todo[s] \in Nat /\ version_manager[s] \in VersionManager
    BY <1>3, ControlAssumption DEF SetVersion, TakesUp, ValuesFit
  <2>2. version_manager'[s] = set_version(version_manager[s], todo[s])
    BY <1>3 DEF SetVersion
  <2>3. /\ version_manager'[s] \in VersionManager
        /\ version_manager'[s].current_version =
             IF todo[s] < Len(versions) THEN todo[s]
             ELSE version_manager[s].current_version
    <3>. HIDE DEF ReplayInv, TypeInv, TypeOK
    <3>1. /\ set_version(version_manager[s], todo[s]) \in VersionManager
          /\ set_version(version_manager[s], todo[s]).current_version =
               IF todo[s] < Len(versions) THEN todo[s]
               ELSE version_manager[s].current_version
      BY <2>1, SetManager
    <3>. QED
      BY <2>2, <3>1
  <2>. QED
    BY <2>1, <2>3, NoneAssumption DEF VersionsExist
<1>4. \/ version_manager'[s] = version_manager[s]
      \/ s \in Videos /\ Load(s)
      \/ SetVersion(s) /\ s \notin poisoned
  <2>1. CASE \E t \in Videos : VideoThread(t)
    BY <2>1 DEF VideoThread, Start, StartFails, Reload, LoadPanics, Wake,
                Turn, TakesFrame, Play, PlayFails, SendPanics, PlayPanics,
                Goes, Load
  <2>2. CASE Handle
    BY <2>2 DEF Handle, Set, SetVersion, SetVersionPanics, Poll, UnknownName,
                Finish, ReplyFails, TakesUp
  <2>3. CASE UNCHANGED version_manager
    BY <2>3
  <2>. QED
    BY <2>1, <2>2, <2>3 DEF Next, Clock, Begin, Expire, PongPanics,
                            ReceiveRequest, Exit, vars
<1>. QED
  BY <1>1, <1>2, <1>3, <1>4

\* A thread that panics has a reason in a file, or outside.
LEMMA PanicStep ==
  ASSUME Consistent, PanicInv, [Next]_vars
  PROVE  NoIndexPanics'
<1>. DEFINE Excused(s) ==
       \/ kind[s] = "other"
       \/ /\ s \in poisoned \ failed
          /\ ~NextPanics(version_manager[s])
          /\ Content(NextTrace(version_manager[s])) = Missing
       \/ /\ s \notin poisoned
          /\ s \in failed \/ Content(trace[s]) <= start_offset
<1>. SUFFICES ASSUME NEW s \in Videos, pc'[s] = "panicked"
              PROVE  Excused(s)'
  BY DEF NoIndexPanics
<1>. USE DEF PanicInv, ReplayInv, TypeInv, TypeOK
<1>1. CASE pc[s] = "panicked"
  <2>1. Excused(s)
    BY <1>1 DEF NoIndexPanics
  <2>2. s \in poisoned' <=> s \in poisoned
    BY <1>1 DEF Next, VideoThread, Start, StartFails, Reload, Load,
                LoadPanics, Wake, Turn, TakesFrame, Play, PlayFails,
                SendPanics, PlayPanics, PongPanics, Goes, Clock, Begin, Expire,
                ReceiveRequest, Handle, Set, SetVersion, SetVersionPanics,
                Poll, UnknownName, Finish, ReplyFails, TakesUp, Exit, vars
  <2>3. /\ trace'[s] = trace[s]
        /\ s \in failed' <=> s \in failed
    BY <1>1, ThreadsOnly DEF VideoThread, Start, StartFails, Reload,
         LoadPanics, Wake, Turn, Play, PlayFails, SendPanics, PlayPanics, Goes
  <2>4. s \in poisoned => version_manager'[s] = version_manager[s]
    <3>1. ASSUME NEW t \in Videos, VideoThread(t)
          PROVE  version_manager'[s] = version_manager[s]
      <4>1. t # s
        BY <1>1, <3>1 DEF VideoThread, Start, StartFails, Reload, LoadPanics,
                          Wake, Turn, Play, PlayFails, SendPanics, PlayPanics,
                          Goes
      <4>2. \/ UNCHANGED version_manager
            \/ version_manager' =
                 [version_manager EXCEPT ![t] = next(version_manager[t])]
        BY <3>1 DEF VideoThread, Start, StartFails, Reload, Load, LoadPanics,
                    Wake, Turn, TakesFrame, Play, PlayFails, SendPanics,
                    PlayPanics
      <4>. QED
        BY <4>1, <4>2 DEF Videos
    <3>2. ASSUME NEW t \in Streams, SetVersion(t), s \in poisoned
          PROVE  version_manager'[s] = version_manager[s]
      <4>1. \/ UNCHANGED version_manager
            \/ /\ t # s
               /\ version_manager' = [version_manager EXCEPT
                                        ![t] = set_version(@, todo[t])]
        BY <3>2 DEF SetVersion
      <4>. QED
        BY <4>1 DEF Videos
    <3>3. CASE UNCHANGED version_manager
      BY <3>3
    <3>. QED
      <4>1. \/ \E t \in Videos : VideoThread(t)
            \/ \E t \in Streams : SetVersion(t)
            \/ UNCHANGED version_manager
        BY DEF Next, Clock, Begin, Expire, PongPanics, ReceiveRequest,
               Handle, Set, SetVersionPanics, Poll, UnknownName, Finish,
               ReplyFails, TakesUp, Exit, vars
      <4>. QED
        BY <3>1, <3>2, <3>3, <4>1
  <2>. QED
    BY <2>1, <2>2, <2>3, <2>4 DEF NextPanics, NextTrace, Content
<1>2. CASE pc[s] # "panicked"
  <2>1. \/ LoadPanics(s) \/ PlayPanics(s)
        \/ StartFails(s) \/ PlayFails(s) \/ SendPanics(s)
    <3>1. VideoThread(s)
      BY <1>2, ThreadsOnly
    <3>. QED
      BY <1>2, <3>1 DEF VideoThread, Start, Reload, Wake, Turn, Play, Goes
  <2>2. CASE LoadPanics(s) /\ kind[s] = "json"
    <3>1. /\ version_manager[s] \in VersionManager
          /\ version_manager[s].current_version < Len(versions)
      BY <2>2 DEF VersionsExist, Videos
    <3>2. ~NextPanics(version_manager[s])
      BY <3>1, ConsistentNext
    <3>3. /\ s \in poisoned' /\ version_manager' = version_manager
          /\ Content(NextTrace(version_manager[s])) = Missing
          /\ failed' = failed
      BY <2>2, <3>1, <3>2, NoneAssumption DEF LoadPanics, Loadable
    <3>4. s \notin failed
      BY <1>2 DEF Agreed, Agrees, Poisoned
    <3>. QED
      BY <3>2, <3>3, <3>4 DEF NextPanics, NextTrace, Content
  <2>3. CASE kind[s] # "json"
    BY <2>3, ControlAssumption DEF Videos
  <2>4. CASE PlayPanics(s)
    <3>1. Agrees(s) /\ pc[s] = "play" /\ pc'[s] = "panicked"
      BY <2>4 DEF Agreed, PlayPanics, Goes
    <3>2. /\ trace[s] # None /\ Content(trace[s]) \in Nat
          /\ s \notin poisoned
          /\ idx[s] = start_offset \/ idx[s] < Content(trace[s])
      BY <3>1 DEF Agrees, NotLoaded, Loaded, Playing, Poisoned
    <3>3. /\ idx[s] >= Content(trace[s])
          /\ UNCHANGED <<trace, poisoned>>
      BY <2>4 DEF PlayPanics
    <3>4. Content(trace[s]) <= start_offset
      BY <3>2, <3>3, ControlAssumption
    <3>. QED
      BY <3>2, <3>3, <3>4 DEF Content
  <2>5. CASE StartFails(s) \/ PlayFails(s) \/ SendPanics(s)
    <3>1. s \in failed' /\ poisoned' = poisoned
      BY <2>5 DEF StartFails, PlayFails, SendPanics, TakesFrame, Load
    <3>2. s \notin poisoned
      BY <1>2 DEF Agreed, Agrees, Poisoned
    <3>. QED
      BY <3>1, <3>2
  <2>. QED
    BY <2>1, <2>2, <2>3, <2>4, <2>5
<1>. QED
  BY <1>1, <1>2

\* If the manifest of a video is consistent, a video thread that panics over
\* its version manager or its trace does so for a file that cannot be read or
\* has no frame at start_offset, whatever versions the clients ask for and
\* whenever they do (version_manager.rs:77-86); and whatever else it dies of,
\* it does not hold the version manager then (source.rs:175-232).
THEOREM NoRequestPanics == Consistent => (Spec => []NoIndexPanics)
<1>. SUFFICES ASSUME Consistent PROVE Spec => []NoIndexPanics
  OBVIOUS
<1>1. Init => PanicInv
  <2>. SUFFICES ASSUME Init PROVE PanicInv
    OBVIOUS
  <2>1. ReplayInv
    BY InitType, InitAgreed DEF ReplayInv
  <2>2. VersionManager_new.current_version = initial_version
    BY DEF VersionManager_new
  <2>3. \A s \in Streams : version_manager[s] # None =>
          version_manager[s] = VersionManager_new
    BY DEF Init
  <2>4. VersionsExist
    <3>1. VersionManager_new # None
      <4>1. VersionManager_new \in VersionManager
        <5>1. bitrates_bps[initial_version + 1] \in Nat
          BY ConfigAssumption
        <5>2. 0 \in Slot
          BY DEF Slot
        <5>. QED
          BY <5>1, <5>2, ConfigAssumption
             DEF VersionManager_new, VersionManager
      <4>. QED
        BY <4>1, NoneAssumption
    <3>2. initial_version < Len(versions)
      BY DEF Consistent
    <3>. QED
      BY <2>2, <2>3, <3>1, <3>2 DEF Init, VersionsExist
  <2>5. NoIndexPanics
    BY DEF Init, NoIndexPanics
  <2>. QED
    BY <2>1, <2>4, <2>5 DEF PanicInv
<1>2. PanicInv /\ ReplayInv' /\ [Next]_vars => PanicInv'
  BY VersionsExistStep, PanicStep DEF PanicInv
<1>3. PanicInv => NoIndexPanics
  BY DEF PanicInv
<1>. QED
  BY <1>1, <1>2, <1>3, ReplayInvariant, PTL DEF Spec

-----------------------------------------------------------------------------
(* Panics of the main thread *)

\* Every video of versions has a manager.
HasManager == \A s \in Streams : kind[s] = "json" => version_manager[s] # None

MainInv == HasManager /\ OnlyBadRequestsPanic

\* No step takes a manager away.
LEMMA HasManagerStep ==
  ASSUME TypeInv, HasManager, [Next]_vars
  PROVE  HasManager'
<1>. USE DEF HasManager, TypeInv, TypeOK
<1>1. ASSUME NEW t \in Videos, Load(t) PROVE HasManager'
  <2>1. /\ version_manager[t] \in VersionManager
        /\ ~NextPanics(version_manager[t])
        /\ version_manager' =
             [version_manager EXCEPT ![t] = next(version_manager[t])]
    BY <1>1 DEF Load, Loadable, Videos
  <2>2. next(version_manager[t]) # None
    BY <2>1, NextManager, NoneAssumption
  <2>. QED
    BY <2>1, <2>2
<1>2. ASSUME NEW t \in Streams, SetVersion(t) PROVE HasManager'
  <2>1. CASE t \in poisoned
    BY <1>2, <2>1 DEF SetVersion
  <2>2. CASE t \notin poisoned
    <3>1. todo[t] \in Nat /\ version_manager[t] \in VersionManager
      BY <1>2, <2>2, ControlAssumption DEF SetVersion, TakesUp, ValuesFit
    <3>2. set_version(version_manager[t], todo[t]) # None
      BY <3>1, SetManager, NoneAssumption
    <3>3. version_manager' =
            [version_manager EXCEPT ![t] = set_version(@, todo[t])]
      BY <1>2, <2>2 DEF SetVersion
    <3>. QED
      BY <3>2, <3>3
  <2>. QED
    BY <2>1, <2>2
<1>3. CASE UNCHANGED version_manager
  BY <1>3
<1>4. \/ \E t \in Videos : Load(t)
      \/ \E t \in Streams : SetVersion(t)
      \/ UNCHANGED version_manager
  BY DEF Next, VideoThread, Start, StartFails, Reload, LoadPanics, Wake, Turn,
         TakesFrame, Play, PlayFails, SendPanics, PlayPanics, PongPanics,
         Clock, Begin, Expire, ReceiveRequest, Handle, Set,
         SetVersionPanics, Poll, UnknownName, Finish, ReplyFails, TakesUp,
         Exit, vars
<1>. QED
  BY <1>1, <1>2, <1>3, <1>4

\* A main thread that panics has been asked for what there is not, or could
\* not answer; and it stops with the name it was at.
LEMMA MainStep ==
  ASSUME TypeInv, MainInv, [Next]_vars
  PROVE  OnlyBadRequestsPanic'
<1>. USE DEF MainInv, OnlyBadRequestsPanic
<1>1. CASE \E t \in Videos : VideoThread(t)
  BY <1>1 DEF VideoThread, Start, StartFails, Reload, Load, LoadPanics, Wake,
              Turn, TakesFrame, Play, PlayFails, SendPanics, PlayPanics,
              mainVars
<1>2. CASE \E t \in Streams : Clock(t)
  BY <1>2 DEF Clock, Begin, Expire, mainVars
<1>3. CASE \E c \in Datagrams : \E data \in Requests(c) :
             \E len \in Lengths : ReceiveRequest(c, data, len)
  BY <1>3, ControlAssumption DEF ReceiveRequest, Readable, Datagrams
<1>4. CASE Handle
  <2>1. CASE \E t \in Streams : Set(t) \/ SetVersion(t) \/ Poll(t)
    BY <2>1 DEF Set, SetVersion, Poll, TakesUp
  <2>2. ASSUME NEW t \in Streams, SetVersionPanics(t)
        PROVE  OnlyBadRequestsPanic'
    <3>1. /\ t \in DOMAIN todo' \cap Streams
          /\ cmd' \in {"Version", "Control"}
          /\ kind[t] # "json"
      BY <2>2 DEF SetVersionPanics, TakesUp, HasManager
    <3>. QED
      BY <3>1
  <2>3. ASSUME NEW name \in Names, UnknownName(name)
        PROVE  OnlyBadRequestsPanic'
    <3>1. name \in DOMAIN todo' \ Streams
      BY <2>3 DEF UnknownName, TakesUp
    <3>. QED
      BY <3>1
  <2>4. CASE ReplyFails
    BY <2>4 DEF ReplyFails
  <2>5. CASE Finish
    BY <2>5 DEF Finish
  <2>. QED
    BY <1>4, <2>1, <2>2, <2>3, <2>4, <2>5 DEF Handle
<1>5. CASE Exit
  BY <1>5 DEF Exit
<1>6. CASE UNCHANGED vars
  BY <1>6 DEF vars, mainVars
<1>7. CASE \E t \in Streams : PongPanics(t)
  BY <1>7 DEF PongPanics, mainVars
<1>. QED
  BY <1>1, <1>2, <1>3, <1>4, <1>5, <1>6, <1>7 DEF Next

\* The sender as a whole is ended by a datagram only if it is no request, does
\* not fit into the buffer, or names what there is not, or if its answer
\* cannot be sent: never because another thread panicked with a lock that a
\* request takes (ipc.rs:118-126, source.rs:357-388).
THEOREM GoodRequestsSurvived == Spec => []OnlyBadRequestsPanic
<1>1. Init => MainInv
  <2>. SUFFICES ASSUME Init PROVE MainInv
    OBVIOUS
  <2>1. HasManager
    <3>1. bitrates_bps[initial_version + 1] \in Nat /\ 0 \in Slot
      BY ConfigAssumption DEF Slot
    <3>2. VersionManager_new \in VersionManager
      BY <3>1, ConfigAssumption DEF VersionManager_new, VersionManager
    <3>. QED
      BY <3>2, NoneAssumption DEF Init, HasManager
  <2>. QED
    BY <2>1 DEF Init, MainInv, OnlyBadRequestsPanic
<1>2. TypeInv /\ MainInv /\ [Next]_vars => MainInv'
  BY HasManagerStep, MainStep DEF MainInv
<1>3. MainInv => OnlyBadRequestsPanic
  BY DEF MainInv
<1>. QED
  BY <1>1, <1>2, <1>3, InitType, StepType, PTL DEF Spec
=============================================================================
