------------------------------ MODULE StartUp ------------------------------
(***************************************************************************)
(* The sender from its manifest to its end: main (tx/src/main.rs), the     *)
(* validation of the streams (tx/src/conf.rs), their sockets               *)
(* (tx/src/dispatcher.rs, core/src/socket.rs), SourceManager::new and      *)
(* start (tx/src/source.rs), RttRecorder (tx/src/rtt.rs), and the bind and *)
(* the deadline of IPCDaemon::start_loop (tx/src/ipc.rs).  The threads     *)
(* main has started run while it starts others; a panic of the main thread *)
(* and its exit end them all.  What a thread does with its frames is the   *)
(* subject of the other modules.                                           *)
(*                                                                         *)
(* The manifest, which main has read and parsed, the files, the addresses  *)
(* of the links and the ports that other programs hold are external.  The  *)
(* system has the threads and sockets that main asks for.                  *)
(***************************************************************************)
EXTENDS Integers, Sequences

CONSTANTS
  Manifests,        \* the streams of the manifests there may be
  Duration,         \* args.duration, which may be any number
  Others,           \* the sets of ports that other programs may hold
  ipc_port,         \* manifest.ipc_port
  is_mon,           \* --mon-mac
  PONG_PORT_INC,    \* 1024
  U16,              \* 2^16
  initial_version,  \* 10
  TIME_MAX,         \* the last time that a SystemTime can be
  MaxTime           \* bound of the model: the clock

\* What start-up reads of a stream, and of what it names: whether the name of
\* the file ends in .json, whether the file is there, its path is Unicode, it
\* parses as the Config of a video and with how many bitrates, whether the
\* trace can be loaded and logs/recorder.txt written, whether the buffers of
\* its throttler can be allocated, and for each link whether a socket with the
\* tos can be bound to its address.  Nothing bounds the durations.
Stream ==
  [kind : {"npy", "video", "live"}, json : BOOLEAN, file : Nat,
   port : 0 .. U16 - 1, tos : Nat, duration : Int \X Int, calc_rtt : BOOLEAN,
   links : Seq(BOOLEAN), found : BOOLEAN, unicode : BOOLEAN, parses : BOOLEAN,
   bitrates : Nat, loads : BOOLEAN, records : BOOLEAN, fits : BOOLEAN]

ASSUME StartUpAssumption ==
  /\ U16 \in Nat /\ PONG_PORT_INC \in Nat /\ ipc_port \in 0 .. U16 - 1
  /\ Manifests \subseteq Seq(Stream)
  /\ Duration \in Int /\ initial_version \in Nat
  /\ MaxTime \in Nat /\ TIME_MAX \in Int
  /\ is_mon \in BOOLEAN

VARIABLES
  manifest,   \* its streams
  others,     \* the ports that other programs hold
  clock,      \* SystemTime
  main,       \* where the main thread is
  built,      \* the last stream of the manifest that has a SourceManager
  sources,    \* the hash map of the SourceManagers, by name
  deadline,   \* that of the IPC daemon
  monitor,    \* the monitor thread has been started
  source,     \* where the source thread of each stream is, by name
  stop_time,  \* the stop time each source thread has worked out, by name
  pong        \* where the pong thread of each stream is, by name

threads == <<source, stop_time, pong>>
vars == <<manifest, others, clock, main, built, sources, deadline, monitor,
          threads>>

-----------------------------------------------------------------------------
(* The streams *)

\* A mutant of name: streams to one port are taken for one.
name_PortOnly(s) == IF s.kind = "live" THEN <<s.file>> ELSE <<s.port>>

\* StreamParam::name; a live stream goes by its file.
name(s) == IF s.kind = "live" THEN <<s.file>> ELSE <<s.port, s.tos>>

\* A mutant of validate: the duration is not capped.
validate_NoCap(s) == s

\* A stream stops when the sender does: the upper bound alone is checked.
validate(s) ==
  [s EXCEPT !.duration[2] = IF @ > Duration THEN Duration ELSE @]

Valid(s) == s.kind = "live" \/ s.found

\* filter_map over the streams of the manifest keeps these.
Kept == {i \in DOMAIN manifest : Valid(manifest[i])}

stream(i) == validate(manifest[i])

Names == {name(stream(i)) : i \in Kept}

\* `to_str().unwrap()`, of the path of a file that is there.
ValidatePanics(s) == s.kind # "live" /\ s.found /\ ~s.unicode

\* Duration::from_secs_f64 takes no negative number, and what is added to the
\* time must not go beyond its end; otherwise each of them panics.
Representable(d) == d >= 0 /\ clock + d <= TIME_MAX

\* dispatch stops at the first link without a socket, so that a stream has
\* those of its first links: Scheduling relies on it.
dispatch(links) ==
  {i - 1 : i \in {j \in DOMAIN links : \A k \in 1 .. j : links[k]}}

\* A mutant of pong_port: all the pongs come to one port.
pong_port_Fixed(s) == PONG_PORT_INC

pong_port(s) == s.port + PONG_PORT_INC

\* VersionManager::new is called for every name in .json, of a video or not.
\* It unwraps the file and what it parses; the first version is a constant.
ManagerPanics(s) == s.json /\ (~s.parses \/ initial_version >= s.bitrates)

\* The throttler is made first, the port of the pongs, a u16, is added last.
NewPanics(s) ==
  \/ ~s.fits
  \/ ManagerPanics(s)
  \/ s.calc_rtt /\ pong_port(s) >= U16

SourceManager_new(s) ==
  [stream |-> s, sockets |-> dispatch(s.links),
   start_timestamp |-> clock, stop_timestamp |-> clock]

SourceManager ==
  [stream : Stream, sockets : SUBSET Nat,
   start_timestamp : Nat, stop_timestamp : Nat]

TypeOK ==
  /\ manifest \in Manifests /\ others \in Others
  /\ clock \in 0 .. MaxTime /\ deadline \in Nat
  /\ main \in {"validating", "building", "starting", "started", "polling",
               "exited", "panicked"}
  /\ built \in Kept \cup {0}
  /\ sources \in [DOMAIN sources -> SourceManager]
  /\ DOMAIN sources \subseteq Names
  /\ \A n \in DOMAIN sources : name(sources[n].stream) = n
  /\ monitor \in BOOLEAN
  /\ source \in [Names -> {"none", "spawned", "sleeping", "playing", "ended",
                           "panicked"}]
  /\ stop_time \in [Names -> Nat]
  /\ pong \in [Names -> {"none", "spawned", "bound", "panicked"}]

Init ==
  /\ manifest \in Manifests /\ others \in Others
  /\ clock = 0 /\ deadline = 0
  /\ main = "validating"
  /\ built = 0
  /\ sources = <<>>
  /\ monitor = FALSE
  /\ source = [n \in Names |-> "none"]
  /\ stop_time = [n \in Names |-> 0]
  /\ pong = [n \in Names |-> "none"]

Ended == main \in {"exited", "panicked"}

\* The ports bound on 0.0.0.0 by the pong threads and by the IPC daemon.
Bound(n) == pong_port(sources[n].stream)

Taken(port) ==
  \/ port \in others
  \/ \E n \in DOMAIN sources : pong[n] = "bound" /\ Bound(n) = port

-----------------------------------------------------------------------------
(* The main thread *)

\* All the streams are validated before the first manager is made.
Validate ==
  /\ main = "validating"
  /\ main' = IF \E i \in DOMAIN manifest : ValidatePanics(manifest[i])
             THEN "panicked" ELSE "building"
  /\ UNCHANGED <<manifest, others, clock, built, sources, deadline, monitor,
                 threads>>

\* One manager is made after the other, before any of them is started; the
\* hash map keeps the last one of a name.
Build(i) ==
  /\ main = "building"
  /\ built < i /\ \A j \in Kept : built < j => i <= j
  /\ LET s == stream(i)
     IN  IF NewPanics(s)
         THEN main' = "panicked" /\ UNCHANGED <<built, sources>>
         ELSE /\ built' = i
              /\ sources' = [n \in DOMAIN sources \cup {name(s)} |->
                               IF n = name(s) THEN SourceManager_new(s)
                               ELSE sources[n]]
              /\ UNCHANGED main
  /\ UNCHANGED <<manifest, others, clock, deadline, monitor, threads>>

BuildingDone ==
  /\ main = "building"
  /\ \A i \in Kept : i <= built
  /\ main' = "starting"
  /\ UNCHANGED <<manifest, others, clock, built, sources, deadline, monitor,
                 threads>>

\* SourceManager::start, in the order of the hash map: the pong thread, the
\* two times, the source thread.
Start(n) ==
  /\ main = "starting"
  /\ source[n] = "none"
  /\ LET s == sources[n].stream
     IN  /\ pong' = [pong EXCEPT ![n] = IF s.calc_rtt THEN "spawned" ELSE @]
         /\ IF Representable(s.duration[1]) /\ Representable(s.duration[2])
            THEN /\ sources' = [sources EXCEPT
                                  ![n].start_timestamp = clock + s.duration[1],
                                  ![n].stop_timestamp = clock + s.duration[2]]
                 /\ source' = [source EXCEPT ![n] = "spawned"]
                 /\ UNCHANGED main
            ELSE main' = "panicked" /\ UNCHANGED <<sources, source>>
  /\ UNCHANGED <<manifest, others, clock, built, deadline, monitor, stop_time>>

StartingDone ==
  /\ main = "starting"
  /\ \A n \in DOMAIN sources : source[n] # "none"
  /\ main' = "started"
  /\ monitor' = is_mon
  /\ UNCHANGED <<manifest, others, clock, built, sources, deadline, threads>>

\* The deadline, and `bind(&addr).unwrap()`.
BindIpc ==
  /\ main = "started"
  /\ IF Representable(Duration) /\ ~Taken(ipc_port)
     THEN main' = "polling" /\ deadline' = clock + Duration
     ELSE main' = "panicked" /\ UNCHANGED deadline
  /\ UNCHANGED <<manifest, others, clock, built, sources, monitor, threads>>

\* `sources.values().next().unwrap()`: a poll, and there is no stream.
PollPanics ==
  /\ main = "polling"
  /\ DOMAIN sources = {}
  /\ main' = "panicked"
  /\ UNCHANGED <<manifest, others, clock, built, sources, deadline, monitor,
                 threads>>

\* start_loop returns, and main exits.
Exit ==
  /\ main = "polling"
  /\ clock >= deadline
  /\ main' = "exited"
  /\ UNCHANGED <<manifest, others, clock, built, sources, deadline, monitor,
                 threads>>

-----------------------------------------------------------------------------
(* The threads of a stream *)

ThreadStep ==
  /\ ~Ended
  /\ UNCHANGED <<manifest, others, clock, main, built, sources, deadline,
                 monitor>>

\* `bind(..).unwrap()` of pong_recv_thread.
BindPong(n) ==
  /\ ThreadStep
  /\ pong[n] = "spawned"
  /\ pong' = [pong EXCEPT
                ![n] = IF Taken(Bound(n)) \/ (main = "polling" /\ Bound(n) = ipc_port)
                       THEN "panicked" ELSE "bound"]
  /\ UNCHANGED <<source, stop_time>>

\* A mutant of thread_stop: the duration counts as if the offset were over.
thread_stop_LessOffset(s) == clock + s.duration[2] - s.duration[1]

\* The thread takes the time anew.
thread_stop(s) == clock + s.duration[2]

\* The thread of a live stream begins with its stop time.  That of an .npy
\* file loads its trace before, and that of a video, which any other name is
\* taken for, has its version manager name a trace, and afterwards makes the
\* recorder's file.
BeginPanics(s) ==
  \/ s.kind # "live" /\ ~s.loads
  \/ s.kind = "video" /\ ~(s.json /\ s.records)
  \/ ~Representable(s.duration[2])

\* A thread that has begun sleeps through its start offset, but for a live one.
Begin(n) ==
  LET s == sources[n].stream
  IN  /\ ThreadStep
      /\ source[n] = "spawned"
      /\ IF BeginPanics(s)
         THEN source' = [source EXCEPT ![n] = "panicked"] /\ UNCHANGED stop_time
         ELSE /\ source' = [source EXCEPT
                              ![n] = IF s.kind = "live" THEN "playing" ELSE "sleeping"]
              /\ stop_time' = [stop_time EXCEPT ![n] = thread_stop(s)]
      /\ UNCHANGED pong

\* The offset has passed since the thread began.
Wake(n) ==
  LET s == sources[n].stream
  IN  /\ ThreadStep
      /\ source[n] = "sleeping"
      /\ clock + s.duration[2] >= stop_time[n] + s.duration[1]
      /\ source' = [source EXCEPT ![n] = "playing"]
      /\ UNCHANGED <<stop_time, pong>>

\* `while SystemTime::now() <= stop_time`.  No one in this program feeds a
\* live stream: its thread waits for a frame until the program ends.
End(n) ==
  /\ ThreadStep
  /\ source[n] = "playing"
  /\ sources[n].stream.kind # "live"
  /\ clock > stop_time[n]
  /\ source' = [source EXCEPT ![n] = "ended"]
  /\ UNCHANGED <<stop_time, pong>>

Tick ==
  /\ ~Ended
  /\ clock < MaxTime
  /\ clock' = clock + 1
  /\ UNCHANGED <<manifest, others, main, built, sources, deadline, monitor,
                 threads>>

-----------------------------------------------------------------------------
Next ==
  \/ Validate
  \/ \E i \in Kept : Build(i)
  \/ BuildingDone \/ StartingDone
  \/ BindIpc \/ PollPanics \/ Exit
  \/ \E n \in DOMAIN sources :
       Start(n) \/ BindPong(n) \/ Begin(n) \/ Wake(n) \/ End(n)
  \/ Tick

Spec == Init /\ [][Next]_vars

-----------------------------------------------------------------------------
(* Safety *)

\* What the main thread may panic of on account of one stream that stays: its
\* path, its buffers, its Config, a duration, or a port for its pongs that does
\* not fit a u16 or is the daemon's.
StreamPanics(s) ==
  \/ s.kind # "live" /\ ~s.unicode
  \/ ~s.fits
  \/ s.json /\ ~(s.parses /\ initial_version < s.bitrates)
  \/ s.calc_rtt /\ (s.port + PONG_PORT_INC >= U16
                    \/ s.port + PONG_PORT_INC = ipc_port)
  \/ ~Representable(s.duration[1]) \/ ~Representable(s.duration[2])

\* Up to the requests of its clients, the main thread panics only for a stream
\* of the manifest, for its own duration, for a port of the daemon that is
\* held elsewhere, or at a poll that finds no stream.  A pong thread dies at
\* its start only of a port that another stream, the daemon or another program
\* has as well.
OnlyManifestPanics ==
  /\ main = "panicked" =>
       \/ Kept = {} \/ \E i \in Kept : StreamPanics(stream(i))
       \/ ~Representable(Duration) \/ ipc_port \in others
  /\ \A n \in DOMAIN sources :
       pong[n] = "panicked" =>
         \/ sources[n].stream.port + PONG_PORT_INC \in others \cup {ipc_port}
         \/ \E m \in DOMAIN sources \ {n} :
              /\ sources[m].stream.calc_rtt
              /\ sources[m].stream.port = sources[n].stream.port

\* The streams go by one name: the same port and tos, or one live file.
Homonyms(s, t) ==
  IF s.kind = "live" \/ t.kind = "live"
  THEN s.kind = t.kind /\ s.file = t.file
  ELSE s.port = t.port /\ s.tos = t.tos

\* By the time the daemon listens every stream that could be found has its
\* threads, but for one that shares its name with a later one (main.rs:70
\* collects them by name).
EveryStreamStarted ==
  main = "polling" =>
    \A i \in Kept :
      \/ \E n \in DOMAIN sources :
           /\ sources[n].stream = stream(i)
           /\ source[n] # "none"
           /\ stream(i).calc_rtt => pong[n] # "none"
      \/ \E j \in Kept : j > i /\ Homonyms(stream(i), stream(j))

\* A poll is told of a stream within these times.
Reported(n) ==
  clock \in sources[n].start_timestamp .. sources[n].stop_timestamp

\* The times main works out and those the threads do, later, agree in that
\* no stream is reported that has ended, and that the sender does not exit
\* while one is still to be reported.
TimesAgree ==
  \A n \in DOMAIN sources :
    /\ source[n] = "ended" => ~Reported(n)
    /\ main = "exited" => clock >= sources[n].stop_timestamp
=============================================================================
