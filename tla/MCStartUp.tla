----------------------------- MODULE MCStartUp -----------------------------
(***************************************************************************)
(* StartUp for TLC: the manifests, which a configuration file cannot       *)
(* write.  With pongs 2 ports up and 8 ports, port 6 has no port for them, *)
(* those of port 3 come to the port of the IPC daemon, 5, and those of     *)
(* port 4 to a port that another program may hold, 6.                      *)
(***************************************************************************)
EXTENDS StartUp

Of(kind, file, port, tos, rtt, duration) ==
  [kind |-> kind, json |-> kind = "video", file |-> file, port |-> port,
   tos |-> tos, duration |-> duration, calc_rtt |-> rtt, links |-> <<TRUE>>,
   found |-> TRUE, unicode |-> TRUE, parses |-> kind = "video",
   bitrates |-> IF kind = "video" THEN 2 ELSE 0, loads |-> TRUE,
   records |-> kind = "video", fits |-> TRUE]

Trace == Of("npy", 1, 1, 0, TRUE, <<0, 1>>)

\* Streams that get on, or in the way of another.
ExampleStreams ==
  {Trace,
   Of("npy", 2, 1, 0, FALSE, <<1, 4>>),
   [Of("npy", 1, 1, 1, TRUE, <<0, 4>>) EXCEPT !.links = <<FALSE, TRUE>>],
   [Trace EXCEPT !.found = FALSE],
   [Of("npy", 3, 6, 0, TRUE, <<0, 1>>) EXCEPT !.loads = FALSE],
   Of("npy", 1, 3, 0, TRUE, <<2, 1>>),
   [Of("video", 4, 2, 0, FALSE, <<0, 2>>) EXCEPT !.links = <<TRUE, TRUE>>],
   [Of("video", 5, 2, 1, FALSE, <<0, 2>>) EXCEPT !.bitrates = 1],
   [Of("npy", 1, 4, 0, FALSE, <<0, 1>>) EXCEPT !.loads = FALSE],
   Of("live", 6, 1, 0, FALSE, <<0, 1>>),
   Of("live", 6, 4, 0, TRUE, <<0, 4>>)}

\* Streams that end the sender, or their thread, at once.
BadStreams ==
  {[Of("video", 7, 2, 0, FALSE, <<0, 1>>) EXCEPT !.parses = FALSE],
   [Of("live", 7, 2, 0, FALSE, <<0, 1>>) EXCEPT !.json = TRUE],
   [Of("video", 8, 4, 1, TRUE, <<0, 1>>) EXCEPT !.records = FALSE],
   [Of("npy", 1, 2, 0, FALSE, <<0, 1>>) EXCEPT !.unicode = FALSE],
   [Of("npy", 1, 2, 0, FALSE, <<0, 1>>) EXCEPT !.fits = FALSE],
   Of("npy", 1, 2, 0, TRUE, <<-1, 1>>),
   Of("npy", 1, 2, 0, TRUE, <<9, 1>>)}

\* No stream, one, any two good ones, or a bad one beside a good one, in
\* either order.
ExampleManifests ==
  {<<>>} \cup {<<s>> : s \in ExampleStreams \cup BadStreams}
    \cup {<<s, t>> : s \in ExampleStreams, t \in ExampleStreams}
    \cup {<<s, Trace>> : s \in BadStreams} \cup {<<Trace, s>> : s \in BadStreams}

\* Other programs hold no port, the daemon's, or one that pongs are to come to.
ExampleOthers == {{}, {5}, {6}}
=============================================================================
