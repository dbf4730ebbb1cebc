--------------------------- MODULE StartUpProofs ---------------------------
(***************************************************************************)
(* Proofs about StartUp, for every set of manifests, any ports, durations  *)
(* and versions.                                                           *)
(***************************************************************************)
EXTENDS StartUp, SequenceTheorems, TLAPS

-----------------------------------------------------------------------------
(* The streams *)

\* A stream that stays is one of the manifest, with its duration capped.
LEMMA StreamType ==
  ASSUME manifest \in Manifests, NEW i \in Kept
  PROVE  /\ i \in Nat \ {0}
         /\ stream(i) \in Stream
         /\ stream(i).duration[1] \in Int
         /\ stream(i).duration[2] \in Int
         /\ stream(i).duration[2] <= Duration
<1>1. i \in 1 .. Len(manifest) /\ manifest \in Seq(Stream)
  BY StartUpAssumption DEF Kept
<1>2. manifest[i] \in Stream
  BY <1>1, ElementOfSeq
<1> DEFINE s == manifest[i]
           d == s.duration
           capped == IF d[2] > Duration THEN Duration ELSE d[2]
<1>3. d \in Int \X Int
  BY <1>2 DEF Stream
<1>4. d[1] \in Int /\ d[2] \in Int /\ d = <<d[1], d[2]>>
  BY <1>3
<1>5. capped \in Int /\ capped <= Duration
  BY <1>4, StartUpAssumption
<1>6. [d EXCEPT ![2] = capped] = <<d[1], capped>>
  BY <1>4
<1>7. stream(i) = [s EXCEPT !.duration = <<d[1], capped>>]
  BY <1>6, <1>2 DEF stream, validate, Stream
<1>8. stream(i) \in Stream /\ stream(i).duration = <<d[1], capped>>
  <2>1. <<d[1], capped>> \in Int \X Int
    BY <1>4, <1>5
  <2> HIDE DEF s, capped
  <2>2. ASSUME NEW e \in Int \X Int
        PROVE  [s EXCEPT !.duration = e] \in Stream
               /\ [s EXCEPT !.duration = e].duration = e
    BY <1>2 DEF Stream, s
  <2> QED
    BY <1>7, <2>1, <2>2
<1> QED
  BY <1>1, <1>4, <1>5, <1>8

-----------------------------------------------------------------------------
(* The managers *)

\* A manager is made of a stream, at the time of the clock.
LEMMA ManagerType ==
  ASSUME NEW s \in Stream, clock \in Nat
  PROVE  /\ SourceManager_new(s) \in SourceManager
         /\ SourceManager_new(s).stream = s
         /\ SourceManager_new(s).stop_timestamp = clock
<1>1. s.links \in Seq(BOOLEAN)
  BY DEF Stream
<1>2. dispatch(s.links) \in SUBSET Nat
  BY <1>1 DEF dispatch
<1> QED
  BY <1>2 DEF SourceManager_new, SourceManager

\* Build adds the manager of a stream, and takes away none but that of a
\* stream of the same name.
LEMMA BuildEffect ==
  ASSUME TypeOK, NEW i \in Kept, Build(i), main' # "panicked"
  PROVE  /\ built' = i
         /\ name(stream(i)) \in Names
         /\ sources' \in [DOMAIN sources' -> SourceManager]
         /\ DOMAIN sources' = DOMAIN sources \cup {name(stream(i))}
         /\ sources'[name(stream(i))] = SourceManager_new(stream(i))
         /\ \A n \in DOMAIN sources :
              n # name(stream(i)) => sources'[n] = sources[n]
<1>1. stream(i) \in Stream
  BY StreamType DEF TypeOK
<1>2. SourceManager_new(stream(i)) \in SourceManager
  BY <1>1, ManagerType DEF TypeOK
<1>3. /\ built' = i
      /\ sources' = [n \in DOMAIN sources \cup {name(stream(i))} |->
                       IF n = name(stream(i)) THEN SourceManager_new(stream(i))
                       ELSE sources[n]]
  BY DEF Build
<1>4. \A n \in DOMAIN sources : sources[n] \in SourceManager
  BY DEF TypeOK
<1>5. name(stream(i)) \in Names
  BY DEF Names
<1> QED
  BY <1>2, <1>3, <1>4, <1>5

\* Start sets the two times of a manager that has not been started, unless it
\* panics of one of them.
LEMMA StartEffect ==
  ASSUME TypeOK, NEW n \in DOMAIN sources, Start(n), main' # "panicked"
  PROVE  /\ sources' \in [DOMAIN sources -> SourceManager]
         /\ DOMAIN sources' = DOMAIN sources
         /\ \A m \in DOMAIN sources : sources'[m].stream = sources[m].stream
         /\ \A m \in DOMAIN sources : m # n => sources'[m] = sources[m]
         /\ sources'[n].stop_timestamp = clock + sources[n].stream.duration[2]
<1> DEFINE d == sources[n].stream.duration
<1>1. sources \in [DOMAIN sources -> SourceManager] /\ clock \in Nat
  BY DEF TypeOK
<1>3. /\ Representable(d[1]) /\ Representable(d[2])
      /\ sources' = [sources EXCEPT
                       ![n].start_timestamp = clock + d[1],
                       ![n].stop_timestamp = clock + d[2]]
  BY DEF Start
<1>2. d[1] \in Nat /\ d[2] \in Nat
  <2>1. sources[n].stream \in Stream
    BY <1>1 DEF SourceManager
  <2>2. d \in Int \X Int
    BY <2>1 DEF Stream
  <2>3. d[1] \in Int /\ d[2] \in Int
    BY <2>2
  <2> QED
    BY <1>3, <2>3 DEF Representable
<1>4. clock + d[1] \in Nat /\ clock + d[2] \in Nat
  BY <1>1, <1>2
<1> HIDE DEF d
<1>5. sources' = [sources EXCEPT
                    ![n] = [@ EXCEPT !.start_timestamp = clock + d[1],
                                     !.stop_timestamp = clock + d[2]]]
  BY <1>3
<1> DEFINE new == [sources[n] EXCEPT !.start_timestamp = clock + d[1],
                                     !.stop_timestamp = clock + d[2]]
<1>6. /\ new \in SourceManager
      /\ new.stream = sources[n].stream
      /\ new.stop_timestamp = clock + d[2]
  BY <1>1, <1>4 DEF SourceManager
<1>7. sources' = [sources EXCEPT ![n] = new]
  BY <1>5
<1> HIDE DEF new
<1> QED
  BY <1>1, <1>6, <1>7 DEF d

\* The stream of a manager is a stream, with a duration.
LEMMA ManagedStream ==
  ASSUME TypeOK, NEW n \in DOMAIN sources
  PROVE  /\ n \in Names
         /\ sources[n] \in SourceManager
         /\ sources[n].stream \in Stream
         /\ sources[n].stream.duration[1] \in Int
         /\ sources[n].stream.duration[2] \in Int
         /\ sources[n].stop_timestamp \in Nat
<1>1. n \in Names /\ sources[n] \in SourceManager
  BY DEF TypeOK
<1>2. sources[n].stream \in Stream /\ sources[n].stop_timestamp \in Nat
  BY <1>1 DEF SourceManager
<1>3. sources[n].stream.duration \in Int \X Int
  BY <1>2 DEF Stream
<1> QED
  BY <1>1, <1>2, <1>3

-----------------------------------------------------------------------------
(* Type correctness *)

\* The manifest is read once.
LEMMA ManifestStays ==
  ASSUME [Next]_vars
  PROVE  /\ manifest' = manifest /\ Kept' = Kept /\ Names' = Names
         /\ others' = others
         /\ \A i : stream(i)' = stream(i)
<1>1. manifest' = manifest /\ others' = others
  BY DEF Next, vars, threads, Validate, Build, BuildingDone, StartingDone, BindIpc,
         PollPanics, Exit, Start, BindPong, Begin, Wake, End, ThreadStep, Tick
<1> QED
  BY <1>1 DEF Kept, Names, stream

\* The initial states are well typed.
LEMMA InitType == Init => TypeOK
<1> SUFFICES ASSUME Init PROVE TypeOK
  OBVIOUS
<1>1. DOMAIN sources = {} /\ sources \in [DOMAIN sources -> SourceManager]
  BY DEF Init
<1>2. /\ source \in [Names -> {"none", "spawned", "sleeping", "playing",
                              "ended", "panicked"}]
      /\ stop_time \in [Names -> Nat]
      /\ pong \in [Names -> {"none", "spawned", "bound", "panicked"}]
  BY DEF Init
<1>3. /\ manifest \in Manifests /\ others \in Others
      /\ main = "validating" /\ clock \in 0 .. MaxTime /\ deadline \in Nat
  BY StartUpAssumption DEF Init
<1>5. built \in Kept \cup {0} /\ monitor \in BOOLEAN
  BY DEF Init
<1>4. /\ DOMAIN sources \subseteq Names
      /\ \A n \in DOMAIN sources : name(sources[n].stream) = n
  BY <1>1
<1> QED
  BY <1>1, <1>2, <1>3, <1>4, <1>5 DEF TypeOK

\* Every step keeps the types.
LEMMA StepType == TypeOK /\ [Next]_vars => TypeOK'
<1> SUFFICES ASSUME TypeOK, [Next]_vars PROVE TypeOK'
  OBVIOUS
<1>0. /\ manifest' = manifest /\ Kept' = Kept /\ Names' = Names
      /\ others' = others
      /\ clock \in Nat /\ MaxTime \in Nat /\ Duration \in Int
  BY ManifestStays, StartUpAssumption DEF TypeOK
<1>1. ASSUME NEW i \in Kept, Build(i) PROVE TypeOK'
  <2>1. CASE main' = "panicked"
    BY <1>0, <1>1, <2>1 DEF Build, TypeOK, threads
  <2>2. CASE main' # "panicked"
    <3>1. /\ sources' \in [DOMAIN sources' -> SourceManager]
          /\ DOMAIN sources' \subseteq Names
          /\ built' \in Kept
      BY <1>1, <2>2, BuildEffect DEF TypeOK
    <3>2. stream(i) \in Stream
      BY StreamType DEF TypeOK
    <3>3. \A n \in DOMAIN sources' : name(sources'[n].stream) = n
      <4>1. name(sources'[name(stream(i))].stream) = name(stream(i))
        BY <1>0, <1>1, <2>2, <3>2, BuildEffect, ManagerType
      <4>2. /\ DOMAIN sources' = DOMAIN sources \cup {name(stream(i))}
            /\ \A n \in DOMAIN sources :
                 n # name(stream(i)) => sources'[n] = sources[n]
        BY <1>1, <2>2, BuildEffect
      <4>3. \A n \in DOMAIN sources : name(sources[n].stream) = n
        BY DEF TypeOK
      <4> QED
        BY <4>1, <4>2, <4>3
    <3>4. /\ main' = main
          /\ UNCHANGED <<clock, deadline, monitor, source, stop_time, pong>>
      BY <1>1, <2>2 DEF Build, threads
    <3> QED
      BY <1>0, <3>1, <3>3, <3>4 DEF TypeOK
  <2> QED
    BY <2>1, <2>2
<1>2. CASE Validate \/ BuildingDone
  BY <1>0, <1>2 DEF Validate, BuildingDone, TypeOK, threads
<1>13. ASSUME NEW n \in DOMAIN sources, Start(n), main' = "panicked"
       PROVE  TypeOK'
  <2>1. n \in Names
    BY DEF TypeOK
  <2>2. pong' \in [Names -> {"none", "spawned", "bound", "panicked"}]
    BY <1>13, <2>1 DEF Start, TypeOK
  <2>3. UNCHANGED <<sources, source>>
    BY <1>13 DEF Start
  <2> QED
    BY <1>0, <1>13, <2>2, <2>3 DEF Start, TypeOK
<1>3. ASSUME NEW n \in DOMAIN sources, Start(n), main' # "panicked"
      PROVE  TypeOK'
  <2>1. /\ sources' \in [DOMAIN sources' -> SourceManager]
        /\ DOMAIN sources' = DOMAIN sources
        /\ \A m \in DOMAIN sources : sources'[m].stream = sources[m].stream
    BY <1>3, StartEffect
  <2>2. n \in Names
    BY DEF TypeOK
  <2> QED
    BY <1>0, <1>3, <2>1, <2>2 DEF Start, TypeOK
<1>4. CASE StartingDone
  BY <1>0, <1>4, StartUpAssumption DEF StartingDone, TypeOK, threads
<1>5. CASE BindIpc
  BY <1>0, <1>5 DEF BindIpc, Representable, TypeOK, threads
<1>6. CASE PollPanics
  BY <1>0, <1>6 DEF PollPanics, TypeOK, threads
<1>7. CASE Exit
  BY <1>0, <1>7 DEF Exit, TypeOK, threads
<1>8. ASSUME NEW n \in DOMAIN sources, BindPong(n) PROVE TypeOK'
  <2>1. pong' \in [Names -> {"none", "spawned", "bound", "panicked"}]
    BY <1>8 DEF BindPong, TypeOK
  <2> QED
    BY <1>0, <1>8, <2>1 DEF BindPong, ThreadStep, TypeOK
<1>9. ASSUME NEW n \in DOMAIN sources, Begin(n) PROVE TypeOK'
  <2>1. BeginPanics(sources[n].stream) \/ thread_stop(sources[n].stream) \in Nat
    BY <1>0, ManagedStream DEF thread_stop, BeginPanics, Representable
  <2>2. /\ stop_time' \in [Names -> Nat]
        /\ source' \in [Names -> {"none", "spawned", "sleeping", "playing",
                                  "ended", "panicked"}]
    BY <1>9, <2>1 DEF Begin, TypeOK
  <2> QED
    BY <1>0, <1>9, <2>2 DEF Begin, ThreadStep, TypeOK
<1>10. ASSUME NEW n \in DOMAIN sources, Wake(n) \/ End(n) PROVE TypeOK'
  <2>1. source' \in [Names -> {"none", "spawned", "sleeping", "playing",
                               "ended", "panicked"}]
    BY <1>10 DEF Wake, End, TypeOK
  <2> QED
    BY <1>0, <1>10, <2>1 DEF Wake, End, ThreadStep, TypeOK
<1>11. CASE Tick
  BY <1>0, <1>11 DEF Tick, TypeOK, threads
<1>12. CASE UNCHANGED vars
  BY <1>0, <1>12 DEF TypeOK, vars, threads
<1> QED
  BY <1>1, <1>2, <1>3, <1>4, <1>5, <1>6, <1>7, <1>8, <1>9, <1>10, <1>11,
     <1>12, <1>13 DEF Next

\* Every variable keeps its type: above all, a manager goes by the name of
\* its stream, and every time is a natural number.
THEOREM TypeCorrect == Spec => []TypeOK
BY InitType, StepType, PTL DEF Spec

-----------------------------------------------------------------------------
(* The managers are those of the manifest *)

\* Every manager is one of a stream that stays; and every stream whose turn
\* it was has the manager of its name, or a later stream has taken it.
ManagersBuilt ==
  /\ \A n \in DOMAIN sources :
       \E i \in Kept : sources[n].stream = stream(i)
  /\ \A i \in Kept :
       i <= built =>
         /\ name(stream(i)) \in DOMAIN sources
         /\ \/ sources[name(stream(i))].stream = stream(i)
            \/ \E j \in Kept : j > i /\ name(stream(j)) = name(stream(i))
  /\ main \notin {"validating", "building", "panicked"} => \A i \in Kept : i <= built

\* No thread runs before its manager is made and started, and the pong
\* thread of a stream only if it measures round-trip times.
ThreadsStarted ==
  /\ main \in {"validating", "building"} =>
       \A n \in Names : source[n] = "none" /\ pong[n] = "none"
  /\ \A n \in Names :
       /\ pong[n] # "none" =>
            n \in DOMAIN sources /\ sources[n].stream.calc_rtt
       /\ source[n] # "none" =>
            n \in DOMAIN sources /\ (sources[n].stream.calc_rtt => pong[n] # "none")
  /\ main \in {"started", "polling", "exited"} =>
       \A n \in DOMAIN sources : source[n] # "none"

\* The stop time of a manager is not after that of its thread, which it is
\* worked out before, nor after the deadline, which is worked out later.
TimesOrdered ==
  \A n \in DOMAIN sources :
    /\ source[n] # "none" =>
         sources[n].stop_timestamp <= clock + sources[n].stream.duration[2]
    /\ source[n] \in {"sleeping", "playing", "ended"} =>
         sources[n].stop_timestamp <= stop_time[n]
    /\ source[n] = "ended" => stop_time[n] < clock
    /\ main \in {"starting", "started"} /\ source[n] # "none" =>
         sources[n].stop_timestamp <= clock + Duration
    /\ main \in {"polling", "exited"} => sources[n].stop_timestamp <= deadline
    /\ main = "exited" => deadline <= clock

\* What holds of every state, by steps that rely on one another.
StartInv == TypeOK /\ ManagersBuilt /\ ThreadsStarted /\ TimesOrdered

\* The manifest, the manager table and the main thread, step by step.
LEMMA StepCases ==
  ASSUME TypeOK, [Next]_vars
  PROVE  \/ \E i \in Kept : Build(i) /\ main' # "panicked"
         \/ /\ \E n \in DOMAIN sources : Start(n) /\ main' # "panicked"
            /\ built' = built
         \/ sources' = sources /\ built' = built
BY DEF Next, vars, threads, Validate, Build, BuildingDone, StartingDone, BindIpc,
       PollPanics, Exit, Start, BindPong, Begin, Wake, End, ThreadStep, Tick

\* The main thread goes on in one direction.
LEMMA MainMoves ==
  ASSUME TypeOK, [Next]_vars
  PROVE  \/ main' = main
         \/ main' = "panicked"
         \/ Validate /\ main = "validating" /\ main' = "building"
         \/ BuildingDone /\ main' = "starting"
         \/ StartingDone /\ main = "starting" /\ main' = "started"
         \/ BindIpc /\ main = "started" /\ main' = "polling"
         \/ Exit /\ main = "polling" /\ main' = "exited"
BY DEF Next, vars, threads, Validate, Build, BuildingDone, StartingDone, BindIpc,
       PollPanics, Exit, Start, BindPong, Begin, Wake, End, ThreadStep, Tick

\* The streams of the managers change only when one is built.
LEMMA StreamsStay ==
  ASSUME TypeOK,
         \/ \E n \in DOMAIN sources : Start(n) /\ main' # "panicked"
         \/ sources' = sources
  PROVE  /\ DOMAIN sources' = DOMAIN sources
         /\ \A m \in DOMAIN sources : sources'[m].stream = sources[m].stream
<1>1. ASSUME NEW n \in DOMAIN sources, Start(n), main' # "panicked"
      PROVE  /\ DOMAIN sources' = DOMAIN sources
             /\ \A m \in DOMAIN sources : sources'[m].stream = sources[m].stream
  BY <1>1, StartEffect
<1> QED
  BY <1>1

\* What Build does to the streams of the managers.
LEMMA StreamsBuilt ==
  ASSUME TypeOK, NEW i \in Kept, Build(i), main' # "panicked"
  PROVE  /\ main = "building" /\ main' = "building"
         /\ built' = i /\ built < i /\ \A j \in Kept : j <= i => j <= built \/ j = i
         /\ DOMAIN sources' = DOMAIN sources \cup {name(stream(i))}
         /\ sources'[name(stream(i))].stream = stream(i)
         /\ \A n \in DOMAIN sources :
              n # name(stream(i)) => sources'[n] = sources[n]
<1>1. stream(i) \in Stream /\ clock \in Nat
  BY StreamType DEF TypeOK
<1>2. SourceManager_new(stream(i)).stream = stream(i)
  BY <1>1, ManagerType
<1>3. Kept \subseteq Nat /\ built \in Nat
  <2>1. \A j \in Kept : j \in Nat
    BY StreamType DEF TypeOK
  <2> QED
    BY <2>1 DEF TypeOK
<1>4. /\ main = "building" /\ main' = main
      /\ built < i /\ \A j \in Kept : built < j => i <= j
  BY DEF Build
<1>5. \A j \in Kept : j <= i => j <= built \/ j = i
  BY <1>3, <1>4
<1> QED
  BY <1>2, <1>4, <1>5, BuildEffect

\* The managers stay those of the manifest.
LEMMA StepManagers == TypeOK /\ ManagersBuilt /\ [Next]_vars => ManagersBuilt'
<1> SUFFICES ASSUME TypeOK, ManagersBuilt, [Next]_vars PROVE ManagersBuilt'
  OBVIOUS
<1>1. /\ Kept' = Kept /\ \A i : stream(i)' = stream(i)
  BY ManifestStays
<1>2. Kept \subseteq Nat /\ built \in Nat
  <2>1. \A j \in Kept : j \in Nat
    BY StreamType DEF TypeOK
  <2> QED
    BY <2>1 DEF TypeOK
<1>3. ASSUME NEW i \in Kept, Build(i), main' # "panicked" PROVE ManagersBuilt'
  <2>1. /\ main' = "building"
        /\ built' = i /\ built < i
        /\ \A j \in Kept : j <= i => j <= built \/ j = i
        /\ DOMAIN sources' = DOMAIN sources \cup {name(stream(i))}
        /\ sources'[name(stream(i))].stream = stream(i)
        /\ \A n \in DOMAIN sources :
              n # name(stream(i)) => sources'[n] = sources[n]
    BY <1>3, StreamsBuilt
  <2>2. \A n \in DOMAIN sources' : \E k \in Kept : sources'[n].stream = stream(k)
    BY <2>1 DEF ManagersBuilt
  <2>3. ASSUME NEW k \in Kept, k <= i
        PROVE  /\ name(stream(k)) \in DOMAIN sources'
               /\ \/ sources'[name(stream(k))].stream = stream(k)
                  \/ \E j \in Kept : j > k /\ name(stream(j)) = name(stream(k))
    <3>1. CASE k = i
      BY <2>1, <3>1
    <3>2. CASE k <= built
      <4>1. CASE name(stream(k)) = name(stream(i))
        BY <1>2, <2>1, <3>2, <4>1
      <4>2. CASE name(stream(k)) # name(stream(i))
        BY <2>1, <3>2, <4>2 DEF ManagersBuilt
      <4> QED
        BY <4>1, <4>2
    <3> QED
      BY <2>1, <2>3, <3>1, <3>2
  <2> QED
    BY <1>1, <2>1, <2>2, <2>3 DEF ManagersBuilt
<1>4. CASE /\ \/ \E n \in DOMAIN sources : Start(n) /\ main' # "panicked"
              \/ sources' = sources
           /\ built' = built
  <2>1. /\ DOMAIN sources' = DOMAIN sources
        /\ \A m \in DOMAIN sources : sources'[m].stream = sources[m].stream
    BY <1>4, StreamsStay
  <2>2. /\ \A n \in DOMAIN sources' : \E k \in Kept : sources'[n].stream = stream(k)
        /\ \A k \in Kept :
             k <= built =>
               /\ name(stream(k)) \in DOMAIN sources'
               /\ \/ sources'[name(stream(k))].stream = stream(k)
                  \/ \E j \in Kept : j > k /\ name(stream(j)) = name(stream(k))
    BY <2>1 DEF ManagersBuilt
  <2>3. main' \notin {"validating", "building", "panicked"} =>
          \A k \in Kept : k <= built
    BY MainMoves DEF ManagersBuilt, BuildingDone
  <2> QED
    BY <1>1, <1>4, <2>2, <2>3 DEF ManagersBuilt
<1> QED
  BY <1>3, <1>4, StepCases

-----------------------------------------------------------------------------
(* Every stream is started *)

\* A thread that was started stays started, whatever becomes of it.
LEMMA ThreadCases ==
  ASSUME TypeOK, [Next]_vars
  PROVE  \/ \E n \in DOMAIN sources : Start(n)
         \/ \A n \in Names : /\ source'[n] = "none" <=> source[n] = "none"
                             /\ pong'[n] = "none" <=> pong[n] = "none"
<1>1. ASSUME NEW n \in DOMAIN sources, BindPong(n)
      PROVE  /\ source' = source
             /\ pong[n] # "none" /\ pong'[n] # "none"
             /\ \A m \in Names : m # n => pong'[m] = pong[m]
  <2>1. n \in Names
    BY DEF TypeOK
  <2> QED
    BY <1>1, <2>1 DEF BindPong, TypeOK
<1>2. ASSUME NEW n \in DOMAIN sources, Begin(n) \/ Wake(n) \/ End(n)
      PROVE  /\ pong' = pong
             /\ source[n] # "none" /\ source'[n] # "none"
             /\ \A m \in Names : m # n => source'[m] = source[m]
  <2>1. n \in Names
    BY DEF TypeOK
  <2> QED
    BY <1>2, <2>1 DEF Begin, Wake, End, TypeOK
<1>3. \/ \E n \in DOMAIN sources : Start(n) \/ BindPong(n)
      \/ \E n \in DOMAIN sources : Begin(n) \/ Wake(n) \/ End(n)
      \/ source' = source /\ pong' = pong
  BY DEF Next, vars, threads, Validate, Build, BuildingDone, StartingDone, BindIpc,
         PollPanics, Exit, Tick
<1> QED
  BY <1>1, <1>2, <1>3

\* What Start does to the threads: it starts that of the pongs in any case.
LEMMA ThreadsStart ==
  ASSUME TypeOK, NEW n \in DOMAIN sources, Start(n)
  PROVE  /\ main = "starting" /\ main' \in {main, "panicked"} /\ n \in Names
         /\ source[n] = "none"
         /\ source'[n] = IF main' = "panicked" THEN "none" ELSE "spawned"
         /\ main' = "panicked" => sources' = sources
         /\ pong'[n] = IF sources[n].stream.calc_rtt THEN "spawned" ELSE pong[n]
         /\ \A m \in Names : m # n => source'[m] = source[m] /\ pong'[m] = pong[m]
         /\ clock' = clock /\ stop_time' = stop_time /\ deadline' = deadline
<1>1. n \in Names
  BY DEF TypeOK
<1> QED
  BY <1>1 DEF Start, TypeOK

\* A thread is started with its manager, and all of them before main goes on.
LEMMA StepThreads == TypeOK /\ ThreadsStarted /\ [Next]_vars => ThreadsStarted'
<1> SUFFICES ASSUME TypeOK, ThreadsStarted, [Next]_vars PROVE ThreadsStarted'
  OBVIOUS
<1>1. Names' = Names
  BY ManifestStays
<1>2. ASSUME NEW n \in DOMAIN sources, Start(n) PROVE ThreadsStarted'
  <2>1. /\ DOMAIN sources' = DOMAIN sources
        /\ \A m \in DOMAIN sources : sources'[m].stream = sources[m].stream
    BY <1>2, ThreadsStart, StreamsStay
  <2>2. /\ main' \in {"starting", "panicked"} /\ n \in Names
        /\ source[n] = "none" /\ source'[n] \in {"none", "spawned"}
        /\ pong'[n] = IF sources[n].stream.calc_rtt THEN "spawned" ELSE pong[n]
        /\ \A m \in Names : m # n => source'[m] = source[m] /\ pong'[m] = pong[m]
    BY <1>2, ThreadsStart
  <2>3. ASSUME NEW m \in Names
        PROVE  /\ pong'[m] # "none" =>
                    m \in DOMAIN sources' /\ sources'[m].stream.calc_rtt
               /\ source'[m] # "none" =>
                    /\ m \in DOMAIN sources'
                    /\ sources'[m].stream.calc_rtt => pong'[m] # "none"
    <3>1. CASE m = n
      BY <2>1, <2>2, <3>1 DEF ThreadsStarted
    <3>2. CASE m # n
      BY <2>1, <2>2, <3>2 DEF ThreadsStarted
    <3> QED
      BY <3>1, <3>2
  <2> QED
    BY <1>1, <2>2, <2>3 DEF ThreadsStarted
<1>3. CASE \A n \in Names : /\ source'[n] = "none" <=> source[n] = "none"
                            /\ pong'[n] = "none" <=> pong[n] = "none"
  <2>1. main' \in {"validating", "building"} =>
          main \in {"validating", "building"}
    BY MainMoves
  <2>2. ASSUME NEW i \in Kept, Build(i), main' # "panicked" PROVE ThreadsStarted'
    <3>1. main = "building" /\ main' = "building"
      BY <2>2, StreamsBuilt
    <3> QED
      BY <1>1, <1>3, <3>1 DEF ThreadsStarted
  <2>3. CASE \/ \E n \in DOMAIN sources : Start(n) /\ main' # "panicked"
             \/ sources' = sources
    <3>1. /\ DOMAIN sources' = DOMAIN sources
          /\ \A m \in DOMAIN sources : sources'[m].stream = sources[m].stream
      BY <2>3, StreamsStay
    <3>2. DOMAIN sources \subseteq Names
      BY DEF TypeOK
    <3>3. \/ main' \notin {"started", "polling", "exited"}
          \/ \A n \in DOMAIN sources : source[n] # "none"
      BY MainMoves DEF StartingDone, ThreadsStarted
    <3>4. ASSUME NEW n \in Names
          PROVE  /\ pong'[n] # "none" =>
                      n \in DOMAIN sources' /\ sources'[n].stream.calc_rtt
                 /\ source'[n] # "none" =>
                      /\ n \in DOMAIN sources'
                      /\ sources'[n].stream.calc_rtt => pong'[n] # "none"
      <4>1. /\ pong[n] # "none" =>
                 n \in DOMAIN sources /\ sources[n].stream.calc_rtt
            /\ source[n] # "none" =>
                 n \in DOMAIN sources /\ (sources[n].stream.calc_rtt => pong[n] # "none")
        BY DEF ThreadsStarted
      <4>2. /\ n \in DOMAIN sources' <=> n \in DOMAIN sources
            /\ n \in DOMAIN sources => sources'[n].stream = sources[n].stream
        BY <3>1
      <4> QED
        BY <1>3, <4>1, <4>2
    <3>5. main' \in {"validating", "building"} =>
            \A n \in Names : source'[n] = "none" /\ pong'[n] = "none"
      BY <1>3, <2>1 DEF ThreadsStarted
    <3>6. main' \in {"started", "polling", "exited"} =>
            \A n \in DOMAIN sources' : source'[n] # "none"
      <4> SUFFICES ASSUME main' \in {"started", "polling", "exited"},
                          NEW n \in DOMAIN sources'
                   PROVE  source'[n] # "none"
        OBVIOUS
      <4>1. n \in DOMAIN sources /\ n \in Names
        BY <3>1, <3>2
      <4>2. source[n] # "none"
        BY <3>3, <4>1
      <4> QED
        BY <1>3, <4>1, <4>2
    <3> QED
      BY <1>1, <3>4, <3>5, <3>6 DEF ThreadsStarted
  <2> QED
    BY <2>2, <2>3, StepCases
<1> QED
  BY <1>2, <1>3, ThreadCases

\* Two streams of one name are homonyms.
LEMMA SameName ==
  ASSUME NEW s, NEW t, name(s) = name(t)
  PROVE  Homonyms(s, t)
<1>1. \A a, b, c : <<a>> # <<b, c>>
  OBVIOUS
<1>2. (s.kind = "live") <=> (t.kind = "live")
  BY <1>1 DEF name
<1> QED
  BY <1>2 DEF name, Homonyms

\* The invariant of the main thread gives what it is for.
LEMMA AllStarted ==
  ASSUME TypeOK, ManagersBuilt, ThreadsStarted
  PROVE  EveryStreamStarted
<1> SUFFICES ASSUME main = "polling", NEW i \in Kept
             PROVE  \/ \E n \in DOMAIN sources :
                         /\ sources[n].stream = stream(i)
                         /\ source[n] # "none"
                         /\ stream(i).calc_rtt => pong[n] # "none"
                    \/ \E j \in Kept : j > i /\ Homonyms(stream(i), stream(j))
  BY DEF EveryStreamStarted
<1> DEFINE n == name(stream(i))
<1>1. /\ n \in DOMAIN sources
      /\ \/ sources[n].stream = stream(i)
         \/ \E j \in Kept : j > i /\ name(stream(j)) = n
  BY DEF ManagersBuilt
<1>2. CASE sources[n].stream = stream(i)
  <2>1. source[n] # "none" /\ n \in Names
    BY <1>1 DEF ThreadsStarted, TypeOK
  <2> QED
    BY <1>1, <1>2, <2>1 DEF ThreadsStarted
<1>3. ASSUME NEW j \in Kept, j > i, name(stream(j)) = n
      PROVE  Homonyms(stream(i), stream(j))
  BY <1>3, SameName
<1> QED
  BY <1>1, <1>2, <1>3

-----------------------------------------------------------------------------
(* Panics *)

\* The reasons that OnlyManifestPanics gives for a panic of the main thread.
MainBlamed ==
  \/ Kept = {} \/ \E i \in Kept : StreamPanics(stream(i))
  \/ ~Representable(Duration) \/ ipc_port \in others

\* The main thread panics of nothing but the manifest, the duration and the
\* port of the daemon.
LEMMA MainPanics ==
  ASSUME TypeOK, ManagersBuilt, ThreadsStarted, [Next]_vars,
         main # "panicked", main' = "panicked"
  PROVE  MainBlamed
<1>1. ASSUME NEW i \in Kept, Build(i)
      PROVE  StreamPanics(stream(i))
  <2>1. NewPanics(stream(i))
    BY <1>1 DEF Build
  <2>2. stream(i) \in Stream /\ initial_version \in Int
    BY StreamType, StartUpAssumption DEF TypeOK
  <2>3. stream(i).bitrates \in Int
    BY <2>2 DEF Stream
  <2> QED
    BY <2>1, <2>2, <2>3
    DEF NewPanics, ManagerPanics, pong_port, StreamPanics
<1>2. ASSUME BindIpc, Taken(ipc_port), ipc_port \notin others
      PROVE  \E i \in Kept : StreamPanics(stream(i))
  <2>1. PICK n \in DOMAIN sources : pong[n] = "bound" /\ Bound(n) = ipc_port
    BY <1>2 DEF Taken
  <2>2. n \in Names /\ sources[n].stream.calc_rtt
    BY <2>1 DEF TypeOK, ThreadsStarted
  <2>3. PICK i \in Kept : sources[n].stream = stream(i)
    BY DEF ManagersBuilt
  <2> QED
    BY <2>1, <2>2, <2>3 DEF Bound, pong_port, StreamPanics
<1>3. ASSUME BindIpc PROVE ~Representable(Duration) \/ Taken(ipc_port)
  BY <1>3 DEF BindIpc
<1>4. PollPanics => Kept = {}
  BY DEF PollPanics, ManagersBuilt
<1>5. ASSUME Validate PROVE \E i \in Kept : StreamPanics(stream(i))
  <2>1. PICK i \in DOMAIN manifest : ValidatePanics(manifest[i])
    BY <1>5 DEF Validate
  <2>2. i \in Kept
    BY <2>1 DEF ValidatePanics, Kept, Valid
  <2>3. manifest[i] \in Stream
    BY <2>1, StartUpAssumption, ElementOfSeq DEF TypeOK
  <2>4. stream(i).kind = manifest[i].kind /\ stream(i).unicode = manifest[i].unicode
    BY <2>3 DEF stream, validate, Stream
  <2> QED
    BY <2>1, <2>2, <2>4 DEF ValidatePanics, StreamPanics
<1>6. ASSUME NEW n \in DOMAIN sources, Start(n)
      PROVE  \E i \in Kept : StreamPanics(stream(i))
  <2>1. PICK i \in Kept : sources[n].stream = stream(i)
    BY DEF ManagersBuilt
  <2> QED
    BY <1>6, <2>1 DEF Start, StreamPanics
<1>7. \/ Validate \/ \E i \in Kept : Build(i)
      \/ \E n \in DOMAIN sources : Start(n)
      \/ BindIpc \/ PollPanics
  BY DEF Next, vars, threads, BuildingDone, StartingDone, Exit,
         BindPong, Begin, Wake, End, ThreadStep, Tick
<1> QED
  BY <1>1, <1>2, <1>3, <1>4, <1>5, <1>6, <1>7 DEF MainBlamed

\* A panic of the main thread stops the clock, and leaves all it was for.
LEMMA BlameStays ==
  ASSUME TypeOK, [Next]_vars, main = "panicked" \/ main' = "panicked", MainBlamed
  PROVE  MainBlamed'
<1>1. clock' = clock
  BY DEF Next, vars, threads, Validate, Build, BuildingDone, StartingDone,
         BindIpc, PollPanics, Exit, Start, BindPong, Begin, Wake, End,
         ThreadStep, Tick, Ended
<1>2. /\ Kept' = Kept /\ others' = others
      /\ \A i : stream(i)' = stream(i)
  BY ManifestStays
<1> QED
  BY <1>1, <1>2 DEF MainBlamed, StreamPanics, Representable

\* A pong thread panics of the port of another stream, of the daemon or of
\* another program.
LEMMA PongPanics ==
  ASSUME TypeOK, ThreadsStarted, NEW n \in DOMAIN sources, BindPong(n),
         pong'[n] = "panicked"
  PROVE  \/ sources[n].stream.port + PONG_PORT_INC \in others \cup {ipc_port}
         \/ \E m \in DOMAIN sources \ {n} :
              /\ sources[m].stream.calc_rtt
              /\ sources[m].stream.port = sources[n].stream.port
<1>1. n \in Names /\ pong[n] = "spawned"
  BY DEF BindPong, TypeOK
<1>2. Taken(Bound(n)) \/ Bound(n) = ipc_port
  BY <1>1 DEF BindPong, TypeOK
<1>3. CASE Taken(Bound(n)) /\ Bound(n) \notin others
  <2>1. PICK m \in DOMAIN sources : pong[m] = "bound" /\ Bound(m) = Bound(n)
    BY <1>3 DEF Taken
  <2>2. m # n
    BY <1>1, <2>1
  <2>3. m \in Names /\ sources[m].stream.calc_rtt
    BY <2>1 DEF TypeOK, ThreadsStarted
  <2>4. sources[m].stream \in Stream /\ sources[n].stream \in Stream
    BY ManagedStream
  <2>5. sources[m].stream.port \in Int /\ sources[n].stream.port \in Int
    <3>1. \A s \in Stream : s.port \in 0 .. U16 - 1
      BY DEF Stream
    <3>2. \A p \in 0 .. U16 - 1 : p \in Int
      OBVIOUS
    <3> QED
      BY <2>4, <3>1, <3>2
  <2>6. sources[m].stream.port = sources[n].stream.port
    BY <2>1, <2>5, StartUpAssumption DEF Bound, pong_port
  <2> QED
    BY <2>2, <2>3, <2>6
<1> QED
  BY <1>2, <1>3 DEF Bound, pong_port

\* Once it is the manifest that panics, it stays so.
LEMMA StepPanics ==
  TypeOK /\ ManagersBuilt /\ ThreadsStarted /\ OnlyManifestPanics /\ [Next]_vars
    => OnlyManifestPanics'
<1> SUFFICES ASSUME TypeOK, ManagersBuilt, ThreadsStarted, OnlyManifestPanics,
                    [Next]_vars
             PROVE  OnlyManifestPanics'
  OBVIOUS
<1>1. others' = others
  BY ManifestStays
<1>2. main' = "panicked" => MainBlamed'
  <2>1. main' = "panicked" => MainBlamed
    BY MainPanics DEF OnlyManifestPanics, MainBlamed
  <2> QED
    BY <2>1, BlameStays
<1> DEFINE Blamed(n) ==
             \/ sources[n].stream.port + PONG_PORT_INC \in others \cup {ipc_port}
             \/ \E m \in DOMAIN sources \ {n} :
                  /\ sources[m].stream.calc_rtt
                  /\ sources[m].stream.port = sources[n].stream.port
<1>3. ASSUME NEW i \in Kept, Build(i), main' # "panicked"
      PROVE  \A n \in DOMAIN sources' : pong'[n] = "none"
  <2>1. main = "building" /\ pong' = pong
    BY <1>3 DEF Build, threads
  <2>2. DOMAIN sources' \subseteq Names
    BY <1>3, BuildEffect DEF TypeOK
  <2> QED
    BY <2>1, <2>2 DEF ThreadsStarted
<1>4. ASSUME \/ \E n \in DOMAIN sources : Start(n) /\ main' # "panicked"
             \/ sources' = sources,
             NEW n \in DOMAIN sources', pong'[n] = "panicked"
      PROVE  Blamed(n)'
  <2>1. /\ DOMAIN sources' = DOMAIN sources
        /\ \A m \in DOMAIN sources : sources'[m].stream = sources[m].stream
    BY <1>4, StreamsStay
  <2>2. n \in DOMAIN sources /\ n \in Names
    BY <2>1 DEF TypeOK
  <2>3. CASE pong[n] = "panicked"
    BY <1>1, <2>1, <2>2, <2>3 DEF OnlyManifestPanics
  <2>4. CASE pong[n] # "panicked"
    <3>1. BindPong(n)
      <4>1. ASSUME NEW m \in DOMAIN sources, BindPong(m)
            PROVE  m = n
        BY <1>4, <2>2, <2>4, <4>1 DEF BindPong, TypeOK
      <4>2. ASSUME NEW m \in DOMAIN sources, Start(m)
            PROVE  FALSE
        <5>1. pong' = [pong EXCEPT ![m] = IF sources[m].stream.calc_rtt
                                          THEN "spawned" ELSE @]
          BY <4>2 DEF Start
        <5> QED
          BY <1>4, <2>2, <2>4, <5>1 DEF TypeOK
      <4>3. \/ \E m \in DOMAIN sources : Start(m) \/ BindPong(m)
            \/ pong' = pong
        BY DEF Next, vars, threads, Validate, Build, BuildingDone, StartingDone, BindIpc,
               PollPanics, Exit, Begin, Wake, End, Tick
      <4> QED
        BY <1>4, <2>4, <4>1, <4>2, <4>3
    <3>2. Blamed(n)
      BY <1>4, <2>2, <3>1, PongPanics
    <3> QED
      BY <1>1, <2>1, <2>2, <3>2
  <2> QED
    BY <2>3, <2>4
<1>5. \A n \in DOMAIN sources' : pong'[n] = "panicked" => Blamed(n)'
  BY <1>3, <1>4, StepCases
<1> QED
  BY <1>2, <1>5 DEF OnlyManifestPanics, MainBlamed

-----------------------------------------------------------------------------
(* The times *)

\* The stream of a manager has a duration that is capped.
LEMMA ManagedDuration ==
  ASSUME TypeOK, ManagersBuilt, NEW n \in DOMAIN sources
  PROVE  /\ sources[n].stream.duration[2] \in Int
         /\ sources[n].stream.duration[2] <= Duration
<1>1. PICK i \in Kept : sources[n].stream = stream(i)
  BY DEF ManagersBuilt
<1> QED
  BY <1>1, StreamType DEF TypeOK

\* What a thread does to its stop time, and when it ends.
LEMMA ThreadTimes ==
  ASSUME TypeOK, NEW n \in DOMAIN sources, Begin(n) \/ Wake(n) \/ End(n)
  PROVE  /\ sources' = sources /\ clock' = clock /\ main' = main
         /\ deadline' = deadline /\ source[n] # "none"
         /\ \A m \in Names :
              m # n => source'[m] = source[m] /\ stop_time'[m] = stop_time[m]
         /\ \/ source'[n] = "panicked"
            \/ /\ source'[n] \in {"sleeping", "playing"}
               /\ stop_time'[n] = clock + sources[n].stream.duration[2]
            \/ /\ source[n] \in {"sleeping", "playing"}
               /\ stop_time'[n] = stop_time[n]
               /\ \/ source'[n] = "playing"
                  \/ source'[n] = "ended" /\ clock > stop_time[n]
<1>1. n \in Names
  BY DEF TypeOK
<1>2. CASE Begin(n)
  BY <1>1, <1>2 DEF Begin, ThreadStep, thread_stop, TypeOK
<1>3. CASE Wake(n) \/ End(n)
  BY <1>1, <1>3 DEF Wake, End, ThreadStep, TypeOK
<1> QED
  BY <1>2, <1>3

\* The order of the times stays.
LEMMA StepTimes ==
  TypeOK /\ ManagersBuilt /\ ThreadsStarted /\ TimesOrdered /\ [Next]_vars
    => TimesOrdered'
<1> SUFFICES ASSUME TypeOK, ManagersBuilt, ThreadsStarted, TimesOrdered,
                    [Next]_vars
             PROVE  TimesOrdered'
  OBVIOUS
<1>0. clock \in Nat /\ deadline \in Nat /\ Duration \in Int
  BY StartUpAssumption DEF TypeOK
<1>1. ASSUME NEW i \in Kept, Build(i), main' # "panicked" PROVE TimesOrdered'
  <2>1. /\ main = "building" /\ main' = main
        /\ UNCHANGED <<clock, deadline, source, stop_time>>
    BY <1>1 DEF Build, threads
  <2>2. /\ DOMAIN sources' = DOMAIN sources \cup {name(stream(i))}
        /\ name(stream(i)) \in Names
        /\ sources'[name(stream(i))] = SourceManager_new(stream(i))
        /\ \A n \in DOMAIN sources :
             n # name(stream(i)) => sources'[n] = sources[n]
    BY <1>1, BuildEffect
  <2>3. ASSUME NEW n \in DOMAIN sources'
        PROVE  source'[n] = "none"
    BY <2>1, <2>2 DEF ThreadsStarted, TypeOK
  <2> QED
    BY <2>1, <2>3 DEF TimesOrdered
<1>8. ASSUME NEW n \in DOMAIN sources, Start(n), main' = "panicked"
      PROVE  TimesOrdered'
  <2>1. /\ n \in Names /\ source[n] = "none" /\ sources' = sources
        /\ \A m \in Names : source'[m] = source[m]
        /\ clock' = clock /\ stop_time' = stop_time
    BY <1>8, ThreadsStart
  <2>2. \A m \in DOMAIN sources : source'[m] = source[m]
    BY <2>1 DEF TypeOK
  <2> QED
    BY <1>8, <2>1, <2>2 DEF TimesOrdered
<1>2. ASSUME NEW n \in DOMAIN sources, Start(n), main' # "panicked"
      PROVE  TimesOrdered'
  <2>1. /\ main' = "starting" /\ main = "starting" /\ n \in Names
        /\ source'[n] = "spawned"
        /\ \A m \in Names : m # n => source'[m] = source[m]
        /\ clock' = clock /\ stop_time' = stop_time /\ deadline' = deadline
    BY <1>2, ThreadsStart
  <2>2. /\ DOMAIN sources' = DOMAIN sources
        /\ \A m \in DOMAIN sources : sources'[m].stream = sources[m].stream
        /\ \A m \in DOMAIN sources : m # n => sources'[m] = sources[m]
        /\ sources'[n].stop_timestamp = clock + sources[n].stream.duration[2]
    BY <1>2, StartEffect
  <2>3. ASSUME NEW m \in DOMAIN sources
        PROVE  /\ source'[m] # "none" =>
                    sources'[m].stop_timestamp
                      <= clock + sources'[m].stream.duration[2]
               /\ source'[m] \in {"sleeping", "playing", "ended"} =>
                    sources'[m].stop_timestamp <= stop_time[m]
               /\ source'[m] = "ended" => stop_time[m] < clock
               /\ source'[m] # "none" =>
                    sources'[m].stop_timestamp <= clock + Duration
    <3>1. CASE m = n
      BY <1>0, <2>1, <2>2, <3>1, ManagedDuration
    <3>2. CASE m # n
      <4>1. m \in Names /\ source'[m] = source[m] /\ sources'[m] = sources[m]
        BY <2>1, <2>2, <3>2 DEF TypeOK
      <4> QED
        BY <2>1, <4>1 DEF TimesOrdered
    <3> QED
      BY <3>1, <3>2
  <2> QED
    BY <2>1, <2>2, <2>3 DEF TimesOrdered
<1>3. ASSUME NEW n \in DOMAIN sources, Begin(n) \/ Wake(n) \/ End(n)
      PROVE  TimesOrdered'
  <2>1. /\ sources' = sources /\ clock' = clock /\ main' = main
        /\ deadline' = deadline /\ source[n] # "none"
        /\ \A m \in Names :
             m # n => source'[m] = source[m] /\ stop_time'[m] = stop_time[m]
        /\ \/ source'[n] = "panicked"
           \/ /\ source'[n] \in {"sleeping", "playing"}
              /\ stop_time'[n] = clock + sources[n].stream.duration[2]
           \/ /\ source[n] \in {"sleeping", "playing"}
              /\ stop_time'[n] = stop_time[n]
              /\ \/ source'[n] = "playing"
                 \/ source'[n] = "ended" /\ clock > stop_time[n]
    BY <1>3, ThreadTimes
  <2>2. ASSUME NEW m \in DOMAIN sources
        PROVE  /\ source'[m] # "none" =>
                    /\ source[m] # "none"
                    /\ sources[m].stop_timestamp
                         <= clock + sources[m].stream.duration[2]
               /\ source'[m] \in {"sleeping", "playing", "ended"} =>
                    sources[m].stop_timestamp <= stop_time'[m]
               /\ source'[m] = "ended" => stop_time'[m] < clock
    <3>1. CASE m = n
      <4>1. sources[n].stop_timestamp <= clock + sources[n].stream.duration[2]
        BY <2>1 DEF TimesOrdered
      <4>2. source[n] \in {"sleeping", "playing"} =>
              sources[n].stop_timestamp <= stop_time[n]
        BY DEF TimesOrdered
      <4>3. stop_time[n] \in Nat
        BY DEF TypeOK
      <4> QED
        BY <1>0, <2>1, <3>1, <4>1, <4>2, <4>3
    <3>2. CASE m # n
      <4>1. source'[m] = source[m] /\ stop_time'[m] = stop_time[m]
        BY <2>1, <3>2 DEF TypeOK
      <4> QED
        BY <4>1 DEF TimesOrdered
    <3> QED
      BY <3>1, <3>2
  <2> QED
    BY <2>1, <2>2 DEF TimesOrdered
<1>4. ASSUME Tick PROVE TimesOrdered'
  <2>1. /\ clock' = clock + 1 /\ main # "exited" /\ main' = main
        /\ UNCHANGED <<sources, source, stop_time, deadline>>
    BY <1>4 DEF Tick, Ended, threads
  <2>2. ASSUME NEW n \in DOMAIN sources
        PROVE  /\ sources[n].stop_timestamp \in Nat /\ stop_time[n] \in Nat
               /\ sources[n].stream.duration[2] \in Int
    BY ManagedStream DEF TypeOK
  <2> QED
    BY <1>0, <2>1, <2>2 DEF TimesOrdered
<1>5. ASSUME BindIpc PROVE TimesOrdered'
  <2>1. /\ main = "started"
        /\ \/ main' = "panicked"
           \/ main' = "polling" /\ deadline' = clock + Duration
        /\ UNCHANGED <<sources, source, stop_time, clock>>
    BY <1>5 DEF BindIpc, threads
  <2>2. \A n \in DOMAIN sources : source[n] # "none"
    BY <2>1 DEF ThreadsStarted
  <2> QED
    BY <2>1, <2>2 DEF TimesOrdered
<1>6. ASSUME /\ UNCHANGED <<sources, source, stop_time, clock, deadline>>
             /\ \/ main' = main \/ main' = "panicked"
                \/ main = "validating" /\ main' = "building"
                \/ main = "building" /\ main' = "starting"
                \/ main = "starting" /\ main' = "started"
                \/ main = "polling" /\ main' = "exited" /\ clock >= deadline
      PROVE  TimesOrdered'
  <2>1. main = "building" => \A n \in DOMAIN sources : source[n] = "none"
    BY DEF ThreadsStarted, TypeOK
  <2> QED
    BY <1>0, <1>6, <2>1 DEF TimesOrdered
<1>7. CASE /\ Validate \/ BuildingDone \/ StartingDone \/ PollPanics \/ Exit
              \/ (\E n \in DOMAIN sources : BindPong(n)) \/ UNCHANGED vars
              \/ (\E i \in Kept : Build(i) /\ main' = "panicked")
  <2>1. /\ UNCHANGED <<sources, source, stop_time, clock, deadline>>
        /\ \/ main' = main \/ main' = "panicked"
           \/ main = "validating" /\ main' = "building"
           \/ main = "building" /\ main' = "starting"
           \/ main = "starting" /\ main' = "started"
           \/ main = "polling" /\ main' = "exited" /\ clock >= deadline
    BY <1>7 DEF Validate, BuildingDone, StartingDone, PollPanics, Exit, BindPong, Build,
                ThreadStep, threads, vars
  <2> QED
    BY <1>6, <2>1
<1> QED
  BY <1>1, <1>2, <1>3, <1>4, <1>5, <1>7, <1>8 DEF Next

\* The order of the times is what TimesAgree is for.
LEMMA OrderAgrees ==
  ASSUME TypeOK, TimesOrdered
  PROVE  TimesAgree
<1> SUFFICES ASSUME NEW n \in DOMAIN sources
             PROVE  /\ source[n] = "ended" => ~Reported(n)
                    /\ main = "exited" => clock >= sources[n].stop_timestamp
  BY DEF TimesAgree
<1>1. /\ sources[n].stop_timestamp \in Nat /\ stop_time[n] \in Nat
      /\ clock \in Nat /\ deadline \in Nat
  BY ManagedStream DEF TypeOK
<1>2. /\ source[n] = "ended" =>
           sources[n].stop_timestamp <= stop_time[n] /\ stop_time[n] < clock
      /\ main = "exited" =>
           sources[n].stop_timestamp <= deadline /\ deadline <= clock
  BY DEF TimesOrdered
<1> QED
  BY <1>1, <1>2 DEF Reported

-----------------------------------------------------------------------------
(* The invariant *)

LEMMA StartInvariant == Spec => []StartInv
<1>1. Init => StartInv
  <2> SUFFICES ASSUME Init PROVE StartInv
    OBVIOUS
  <2>1. DOMAIN sources = {} /\ main = "validating" /\ built = 0
    BY DEF Init
  <2>2. \A i \in Kept : ~(i <= 0)
    BY StreamType, InitType DEF TypeOK
  <2>3. \A n \in Names : source[n] = "none" /\ pong[n] = "none"
    BY DEF Init
  <2>4. ManagersBuilt
    BY <2>1, <2>2 DEF ManagersBuilt
  <2>5. ThreadsStarted /\ TimesOrdered
    BY <2>1, <2>3 DEF ThreadsStarted, TimesOrdered
  <2> QED
    BY <2>4, <2>5, InitType DEF StartInv
<1>2. StartInv /\ [Next]_vars => StartInv'
  BY StepType, StepManagers, StepThreads, StepTimes DEF StartInv
<1> QED
  BY <1>1, <1>2, PTL DEF Spec

\* By the time the daemon listens every stream that could be found has its
\* threads, in whatever order the hash map gives them, but for one that
\* shares its name with a later one.
THEOREM AllStreamsStarted == Spec => []EveryStreamStarted
<1>1. StartInv => EveryStreamStarted
  BY AllStarted DEF StartInv
<1> QED
  BY <1>1, StartInvariant, PTL

\* No stream is reported that has ended, and the sender does not exit while
\* one is still to be reported, however late its threads begin.
THEOREM TimesAgreed == Spec => []TimesAgree
<1>1. StartInv => TimesAgree
  BY OrderAgrees DEF StartInv
<1> QED
  BY <1>1, StartInvariant, PTL

\* Up to the requests of its clients the main thread panics only of a manifest
\* or a duration it cannot carry out or of a port that is held, and a pong
\* thread at its start only of a port that is held, whatever the interleaving.
THEOREM PanicsBlamed == Spec => []OnlyManifestPanics
<1>1. Init => OnlyManifestPanics
  <2> SUFFICES ASSUME Init PROVE OnlyManifestPanics
    OBVIOUS
  <2>1. DOMAIN sources = {} /\ main = "validating"
    BY DEF Init
  <2> QED
    BY <2>1 DEF OnlyManifestPanics
<1>2. StartInv /\ OnlyManifestPanics /\ [Next]_vars => OnlyManifestPanics'
  BY StepPanics DEF StartInv
<1> QED
  BY <1>1, <1>2, StartInvariant, PTL DEF Spec
=============================================================================
