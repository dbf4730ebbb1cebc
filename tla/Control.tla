------------------------------ MODULE Control ------------------------------
(***************************************************************************)
(* The IPC daemon of tx/src/ipc.rs, which is the main thread of the        *)
(* sender, and the video threads of tx/src/source.rs, which share a        *)
(* version manager with it.  A request is taken up name by name, in the    *)
(* order of a hash map, and the threads run in between.  A panic of the    *)
(* main thread ends the program; a panic of a video thread ends the stream *)
(* and poisons the locks it holds.                                         *)
(*                                                                         *)
(* Clients are external, and send what they like.  What the throttle and   *)
(* the policy parameters of a request do to a stream is modelled in        *)
(* Throttle and in Scheduling, and what a video thread does with a frame   *)
(* in Throttle, RttPath and Scheduling: here it may die of it.             *)
(***************************************************************************)
EXTENDS Versions

CONSTANTS
  Streams,        \* the streams of the manifest, by name
  kind,           \* what each of them replays, by the name of its file
  start_offset,   \* params.start_offset
  Names,          \* the names a request may hold
  VersionNames,   \* the names a Version or Control request may hold
  VersionIndices, \* the versions it may ask for
  Lengths,        \* the lengths of a request, without a blank at its end
  BUF_LEN,        \* those of which the buffer holds the whole (2048)
  calc_rtt,       \* the streams that have a pong thread
  NoValue         \* a value that does not matter here

ASSUME ControlAssumption ==
  /\ Streams # {}
  /\ kind \in [Streams -> {"json", "npy", "live", "other"}]
  /\ start_offset \in Nat
  /\ VersionNames \subseteq Names
  /\ VersionIndices \subseteq Nat
  /\ Lengths \subseteq Nat /\ BUF_LEN \in Nat
  /\ calc_rtt \subseteq Streams

VARIABLES
  version_manager,  \* of every stream
  poisoned,         \* the streams whose version manager is poisoned
  silent,           \* those whose throttler or RTT records are poisoned
  pc,               \* the video threads
  trace,            \* the trace a video thread has loaded
  idx,              \* and its index
  reload,           \* and whether it is at the end
  failed,           \* history: the videos that died of something else than
                    \* their version manager and their traces
  period,           \* the time, relative to params.duration
  main,             \* the main thread
  cmd,              \* the request it handles
  length,           \* and its length
  todo,             \* the names it has still to take up, with their values
  flow_stat,        \* the bitrates gathered so far
  asked             \* history: the last existing version each stream was set

threadVars == <<pc, trace, idx, reload, failed, silent>>
mainVars   == <<main, cmd, length, todo, flow_stat, asked>>
vars == <<version_manager, poisoned, threadVars, period, mainVars>>

\* SourceManager::start: a file that is no stream, .npy or .json is replayed
\* as a video as well.
Videos == {s \in Streams : kind[s] \in {"json", "other"}}

Trace == [version : Nat, slot : Slot]

ASSUME NoneAssumption == None \notin VersionManager \cup Trace

\* What a request maps its names to.  The names of a poll are not looked at.
Requests(c) ==
  CASE c \in {"Throttle", "PolicyParameters"} ->
         UNION {[N -> {NoValue}] : N \in SUBSET Names}
    [] c \in {"Version", "Control"} ->
         UNION {[N -> VersionIndices] : N \in SUBSET VersionNames}
    [] c = "Statistics" -> {[s \in Streams |-> NoValue]}
    [] c = "Unreadable" -> {[name \in {} |-> NoValue]}

Commands ==
  {"Throttle", "PolicyParameters", "Version", "Control", "Statistics"}

\* A datagram need not be a request: text, JSON, and a command with its map.
Datagrams == Commands \cup {"Unreadable"}

\* Every variable keeps its type: above all, a slot stays a slot.
TypeOK ==
  /\ version_manager \in [Streams -> VersionManager \cup {None}]
  /\ poisoned \subseteq Videos
  /\ silent \subseteq Streams
  /\ failed \subseteq Videos
  /\ pc \in [Videos -> {"start", "sleep", "loop", "reload", "play",
                        "stopped", "panicked"}]
  /\ trace \in [Videos -> Trace \cup {None}]
  /\ idx \in [Videos -> Nat]
  /\ reload \in [Videos -> BOOLEAN]
  /\ period \in [Streams -> {"before", "during", "after"}]
  /\ main \in {"idle", "busy", "ended", "panicked"}
  /\ cmd \in Datagrams
  /\ length \in Nat
  /\ todo \in UNION {[N -> VersionIndices \cup {NoValue}] :
                       N \in SUBSET (Names \cup Streams)}
  /\ DOMAIN flow_stat \subseteq Streams
  /\ \A s \in DOMAIN flow_stat : flow_stat[s] \in Nat
  /\ asked \in [Streams -> Nat]

Init ==
  /\ version_manager = [s \in Streams |->
       IF kind[s] = "json" THEN VersionManager_new ELSE None]
  /\ poisoned = {}
  /\ silent = {}
  /\ failed = {}
  /\ pc = [s \in Videos |-> "start"]
  /\ trace = [s \in Videos |-> None]
  /\ idx = [s \in Videos |-> start_offset]
  /\ reload = [s \in Videos |-> FALSE]
  /\ period = [s \in Streams |-> "before"]
  /\ main = "idle"
  /\ cmd = "Statistics"
  /\ length = 0
  /\ todo = [name \in {} |-> NoValue]
  /\ flow_stat = <<>>
  /\ asked = [s \in Streams |-> initial_version]

Running == main \notin {"ended", "panicked"}

-----------------------------------------------------------------------------
(* The video threads *)

Goes(s, from, to) == Running /\ pc[s] = from /\ pc' = [pc EXCEPT ![s] = to]

\* `read_packets(version_manager.lock()...next()).expect(..)`: the lock is
\* held until the file has been read.  What next() has changed before a panic
\* is left out, since nobody reads a poisoned manager.
Loadable(s) ==
  LET vm == version_manager[s]
  IN  vm # None /\ ~NextPanics(vm) /\ Content(NextTrace(vm)) # Missing

Load(s) ==
  /\ Loadable(s)
  /\ trace' = [trace EXCEPT ![s] = NextTrace(version_manager[s])]
  /\ version_manager' = [version_manager EXCEPT ![s] = next(@)]
  /\ idx' = [idx EXCEPT ![s] = start_offset]
  /\ reload' = [reload EXCEPT ![s] = FALSE]
  /\ UNCHANGED poisoned

Start(s) ==
  /\ Goes(s, "start", "sleep")
  /\ Load(s)
  /\ UNCHANGED <<silent, failed, period, mainVars>>

\* The stop time cannot be represented, logs/recorder.txt cannot be made, or
\* the time to sleep is none: the first trace has been loaded, and nothing
\* is held.
StartFails(s) ==
  /\ Goes(s, "start", "panicked")
  /\ Load(s)
  /\ failed' = failed \cup {s}
  /\ UNCHANGED <<silent, period, mainVars>>

Reload(s) ==
  /\ Goes(s, "reload", "play")
  /\ Load(s)
  /\ UNCHANGED <<silent, failed, period, mainVars>>

LoadPanics(s) ==
  /\ ~Loadable(s)
  /\ Goes(s, "start", "panicked") \/ Goes(s, "reload", "panicked")
  /\ poisoned' = poisoned \cup {s}
  /\ UNCHANGED <<version_manager, trace, idx, reload, silent, failed, period,
                 mainVars>>

\* The thread has slept for duration[0].
Wake(s) ==
  /\ period[s] # "before"
  /\ Goes(s, "sleep", "loop")
  /\ UNCHANGED <<version_manager, poisoned, trace, idx, reload, silent,
                 failed, period, mainVars>>

\* `while SystemTime::now() <= stop_time`
Turn(s) ==
  /\ Goes(s, "loop", IF period[s] = "after" THEN "stopped"
                     ELSE IF reload[s] THEN "reload" ELSE "play")
  /\ UNCHANGED <<version_manager, poisoned, trace, idx, reload, silent,
                 failed, period, mainVars>>

\* A mutant of AtEnd: the last frame is left out.
AtEnd_OneEarly(s, i) == i + 1 >= Content(trace[s])

AtEnd(s, i) == i = Content(trace[s])

\* The next frame of the trace is taken.
TakesFrame(s) ==
  /\ idx[s] < Content(trace[s])
  /\ idx' = [idx EXCEPT ![s] = @ + 1]
  /\ reload' = [reload EXCEPT ![s] = AtEnd(s, idx[s] + 1)]
  /\ UNCHANGED <<version_manager, poisoned, trace, period, mainVars>>

\* It is prepared, and the queue processed until the next is due.
Play(s) ==
  /\ Goes(s, "play", "loop")
  /\ TakesFrame(s)
  /\ UNCHANGED <<silent, failed>>

\* The recorder cannot be written, or the deadline cannot be represented: of
\* the locks at most that of the policy is held, which every request passes
\* over when it is poisoned.
PlayFails(s) ==
  /\ Goes(s, "play", "panicked")
  /\ TakesFrame(s)
  /\ failed' = failed \cup {s}
  /\ UNCHANGED silent

\* The throttler panics, or the callback that it sends a packet with, and
\* holds its lock (Scheduling has what the callback panics of).
SendPanics(s) ==
  /\ Goes(s, "play", "panicked")
  /\ TakesFrame(s)
  /\ failed' = failed \cup {s}
  /\ silent' = silent \cup {s}

\* `trace[idx]` is out of range; no lock is held.
PlayPanics(s) ==
  /\ Goes(s, "play", "panicked")
  /\ idx[s] >= Content(trace[s])
  /\ UNCHANGED <<version_manager, poisoned, trace, idx, reload, silent,
                 failed, period, mainVars>>

\* The pong thread of a stream panics with its RTT records locked, which the
\* threads of the stream pass over and a poll does not (RttPath has when).
PongPanics(s) ==
  /\ Running
  /\ s \in calc_rtt
  /\ silent' = silent \cup {s}
  /\ UNCHANGED <<version_manager, poisoned, pc, trace, idx, reload, failed,
                 period, mainVars>>

-----------------------------------------------------------------------------
(* The clock *)

Begin(s) ==
  /\ Running
  /\ period[s] = "before"
  /\ period' = [period EXCEPT ![s] = "during"]
  /\ UNCHANGED <<version_manager, poisoned, threadVars, mainVars>>

Expire(s) ==
  /\ Running
  /\ period[s] = "during"
  /\ period' = [period EXCEPT ![s] = "after"]
  /\ UNCHANGED <<version_manager, poisoned, threadVars, mainVars>>

-----------------------------------------------------------------------------
(* The main thread *)

\* A request can be parsed if the buffer holds the whole of it.
Readable(c, len) == c \in Commands /\ len <= BUF_LEN

\* A datagram is cut to the buffer, and has to be a request then: the results
\* of from_utf8() and from_str() are unwrapped.
ReceiveRequest(c, data, len) ==
  /\ main = "idle"
  /\ main' = IF Readable(c, len) THEN "busy" ELSE "panicked"
  /\ cmd' = c
  /\ length' = len
  /\ todo' = data
  /\ flow_stat' = <<>>
  /\ UNCHANGED <<version_manager, poisoned, threadVars, period, asked>>

Without(data, name) == [n \in DOMAIN data \ {name} |-> data[n]]

TakesUp(name, cmds) ==
  /\ main = "busy"
  /\ cmd \in cmds
  /\ name \in DOMAIN todo
  /\ UNCHANGED <<poisoned, threadVars, period, cmd, length>>

\* The throttle or the policy parameters of a stream are set.
Set(s) ==
  /\ TakesUp(s, {"Throttle", "PolicyParameters"})
  /\ s \in Streams
  /\ todo' = Without(todo, s)
  /\ UNCHANGED <<version_manager, main, flow_stat, asked>>

\* SourceManager::set_version: nothing happens when the lock is poisoned.  A
\* Control request sets the policy parameters as well.
SetVersion(s) ==
  /\ TakesUp(s, {"Version", "Control"})
  /\ s \in Streams
  /\ s \in poisoned \/ version_manager[s] # None
  /\ IF s \in poisoned THEN UNCHANGED <<version_manager, asked>>
     ELSE /\ version_manager' =
               [version_manager EXCEPT ![s] = set_version(@, todo[s])]
          /\ asked' = [asked EXCEPT ![s] = IF todo[s] < Len(versions)
                                           THEN todo[s] ELSE @]
  /\ todo' = Without(todo, s)
  /\ UNCHANGED <<main, flow_stat>>

\* A mutant of SetVersionPanics: set_version unwraps the lock as well.
SetVersionPanics_Poisoned(s) ==
  /\ TakesUp(s, {"Version", "Control"})
  /\ s \in Streams
  /\ s \in poisoned \/ version_manager[s] = None
  /\ main' = "panicked"
  /\ UNCHANGED <<version_manager, todo, flow_stat, asked>>

\* `version_manager.as_mut().unwrap()` for a stream that has none.
SetVersionPanics(s) ==
  /\ TakesUp(s, {"Version", "Control"})
  /\ s \in Streams \ poisoned
  /\ version_manager[s] = None
  /\ main' = "panicked"
  /\ UNCHANGED <<version_manager, todo, flow_stat, asked>>

\* `self.sources[name]` for a name that is not there.
UnknownName(name) ==
  /\ TakesUp(name, Commands \ {"Statistics"})
  /\ name \notin Streams
  /\ main' = "panicked"
  /\ UNCHANGED <<version_manager, todo, flow_stat, asked>>

\* SourceManager::statistics has something to say: no lock it takes is
\* poisoned.
Reports(s) ==
  /\ period[s] = "during"
  /\ s \notin silent \cup poisoned
  /\ version_manager[s] # None

Poll(s) ==
  /\ TakesUp(s, {"Statistics"})
  /\ todo' = Without(todo, s)
  /\ flow_stat' =
       IF Reports(s)
       THEN [t \in DOMAIN flow_stat \cup {s} |->
              IF t = s THEN version_manager[s].actual_bitrate
                       ELSE flow_stat[t]]
       ELSE flow_stat
  /\ UNCHANGED <<version_manager, main, asked>>

\* The answer to a poll cannot be written or sent: both are unwrapped.
ReplyFails ==
  /\ main = "busy"
  /\ cmd = "Statistics"
  /\ DOMAIN todo = {}
  /\ main' = "panicked"
  /\ UNCHANGED <<version_manager, poisoned, threadVars, period, cmd, length,
                 todo, flow_stat, asked>>

\* The answer to a poll is sent, and the loop goes on.
Finish ==
  /\ main = "busy"
  /\ DOMAIN todo = {}
  /\ main' = "idle"
  /\ UNCHANGED <<version_manager, poisoned, threadVars, period, cmd, length,
                 todo, flow_stat, asked>>

\* The duration of the program is over: main() exits.
Exit ==
  /\ main = "idle"
  /\ main' = "ended"
  /\ UNCHANGED <<version_manager, poisoned, threadVars, period, cmd, length,
                 todo, flow_stat, asked>>

-----------------------------------------------------------------------------
VideoThread(s) ==
  \/ Start(s)
  \/ StartFails(s)
  \/ Reload(s)
  \/ LoadPanics(s)
  \/ Wake(s)
  \/ Turn(s)
  \/ Play(s)
  \/ PlayFails(s)
  \/ SendPanics(s)
  \/ PlayPanics(s)

Clock(s) == Begin(s) \/ Expire(s)

Handle ==
  \/ \E s \in Streams :
       Set(s) \/ SetVersion(s) \/ SetVersionPanics(s) \/ Poll(s)
  \/ \E name \in Names : UnknownName(name)
  \/ ReplyFails
  \/ Finish

Next ==
  \/ \E s \in Videos : VideoThread(s)
  \/ \E s \in Streams : PongPanics(s)
  \/ \E s \in Streams : Clock(s)
  \/ \E c \in Datagrams : \E data \in Requests(c) : \E len \in Lengths :
       ReceiveRequest(c, data, len)
  \/ Handle
  \/ Exit

Spec == Init /\ [][Next]_vars

\* The threads are scheduled, and the time of a stream comes.
FairSpec ==
  /\ Spec
  /\ \A s \in Videos : WF_vars(VideoThread(s)) /\ WF_vars(Begin(s))
  /\ WF_vars(Handle)

-----------------------------------------------------------------------------
(* Properties *)

\* While a video is replayed the reported bitrate is that of the trace that
\* is replayed, whatever version has been asked for meanwhile
\* (version_manager.rs:47 has `actual_bitrate` for this).
BitrateHonest ==
  \A s \in Videos \ poisoned :
    trace[s] # None =>
      version_manager[s].actual_bitrate = bitrates_bps[trace[s].version + 1]

\* A video thread leaves a trace only at its end, and goes on with the next
\* slot, after the last one with the first, in whichever versions the
\* requests of the meantime have put it (source.rs:184-199).
SlotsReplayed ==
  [][\A s \in Videos :
       trace'[s] # trace[s] =>
         IF trace[s] = None THEN trace'[s].slot = 0
         ELSE /\ idx[s] = Content(trace[s])
              /\ trace'[s].slot = Following(trace[s].slot)]_vars

\* The manifest of a video lists as many bitrates as versions, and a file for
\* every slot of every version, the first version among them.
Consistent ==
  /\ initial_version < Len(versions)
  /\ Len(versions) <= Len(bitrates_bps)
  /\ \A v \in DOMAIN versions : \A slot \in Slot :
       slot < Len(versions[v].files)

\* Whatever versions the requests ask for, a video thread that panics over its
\* version manager or its trace does so for a file: one that is no video,
\* cannot be read, or has no frame at start_offset.  No index of
\* version_manager.rs:77-86 and no trace[idx] is ever out of range.  A thread
\* that dies of something else leaves its version manager unpoisoned.
NoIndexPanics ==
  \A s \in Videos :
    pc[s] = "panicked" =>
      \/ kind[s] = "other"
      \/ /\ s \in poisoned \ failed
         /\ ~NextPanics(version_manager[s])
         /\ Content(NextTrace(version_manager[s])) = Missing
      \/ /\ s \notin poisoned
         /\ s \in failed \/ Content(trace[s]) <= start_offset

\* The main thread panics only for a datagram that is no request or is longer
\* than the buffer, a name that no stream has, a version for a stream that has
\* none, or an answer that cannot be sent: not because another thread has
\* panicked with a lock that a request takes (ipc.rs:67-104,
\* source.rs:357-388).
OnlyBadRequestsPanic ==
  main = "panicked" =>
    \/ cmd = "Unreadable" \/ length > BUF_LEN
    \/ DOMAIN todo \ Streams # {}
    \/ /\ cmd \in {"Version", "Control"}
       /\ \E s \in DOMAIN todo \cap Streams : kind[s] # "json"
    \/ cmd = "Statistics" /\ DOMAIN todo = {}

\* The version that a stream was last set is replayed in the end, unless the
\* stream or the program ends or a panic intervenes.
VersionTakesEffect ==
  \A s \in Videos : \A v \in VersionIndices :
    asked[s] = v ~>
      \/ trace[s] # None /\ trace[s].version = v
      \/ asked[s] # v
      \/ period[s] = "after" \/ pc[s] = "panicked" \/ ~Running

\* A poll reports every stream that is running and of which no thread has
\* panicked with a lock that it takes (ipc.rs:94-104).
StatisticsComplete ==
  [][\A s \in Streams :
       /\ cmd = "Statistics"
       /\ s \in DOMAIN todo /\ s \notin DOMAIN todo'
       /\ period[s] = "during" /\ s \notin silent \cup poisoned
       => s \in DOMAIN flow_stat']_vars
=============================================================================
