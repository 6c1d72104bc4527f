------------------------------ MODULE AudioPlayer --------------------------------
(***************************************************************************)
(* Playing a recording: the decoder of farewell_audio behind its FFI, and  *)
(* AudioPlayer, which feeds what it decodes to an audio node of the system *)
(* three buffers ahead.  The decoder and the bookkeeping live on a serial  *)
(* queue; the user's requests and the node's reports that a buffer has     *)
(* been consumed are tasks on it, and reports of buffers scheduled before  *)
(* a seek arrive after it.                                                 *)
(*                                                                         *)
(* Frames are numbers.  What is published for the main thread is shown in  *)
(* the order it was published, so the last value stands for it.            *)
(***************************************************************************)
EXTENDS Integers, Sequences, FiniteSets, SequencesExt

CONSTANTS
  Recordings,   \* what may be opened: packets, and the number of frames declared
  Cap,          \* framesPerBuffer
  MaxOps        \* bound: requests of the user

Outcomes == {"decoded", "corrupt", "fatal", "panic"}

ASSUME AudioAssumption ==
  /\ \A r \in Recordings : /\ r.total \in Nat
                           /\ r.packets \in Seq([outcome : Outcomes, frames : Seq(Nat)])
  /\ Cap \in Nat \ {0} /\ MaxOps \in Nat

VARIABLES
  recording,  \* the bytes given to load
  dec,        \* the decoder: open or not, the next packet, leftover
  node,       \* AVAudioPlayerNode: playing or not, buffers scheduled
  feed,       \* generation, inFlight, atEnd
  shown,      \* isPlaying
  engine,     \* AVAudioEngine: off, running, or raised and the process gone
  tasks,      \* the serial queue
  ops,        \* number of requests
  \* history
  heard,      \* frames the node has consumed since the last seek
  start,      \* the packet last sought; 0 if that failed
  starved     \* the node was last started with nothing scheduled

player == <<dec, node, feed, shown>>
vars == <<recording, player, engine, tasks, ops, heard, start, starved>>

Packets == recording.packets

(***************************************************************************)
(* The decoder                                                             *)
(***************************************************************************)
Closed == [open |-> FALSE, next |-> 1, leftover |-> <<>>]

FramesOf(p) == IF p.outcome = "decoded" THEN p.frames ELSE <<>>

\* The frames of packets i to j, those that cannot be decoded being skipped.
Frames(i, j) == FlattenSeq([k \in 1..j - i + 1 |-> FramesOf(Packets[i - 1 + k])])

\* The packet at which reading from packet i on stops short; one past the last
\* packet if it does not.
StopsAt(i) ==
  CHOOSE s \in i..Len(Packets) + 1 :
    /\ s = Len(Packets) + 1 \/ Packets[s].outcome \in {"fatal", "panic"}
    /\ \A k \in i..s - 1 : Packets[k].outcome \in {"decoded", "corrupt"}

\* AudioDecoder::read: leftover and further packets until the buffer is full; at
\* the end and at an error what there is; at a panic nothing, what had been
\* copied being lost.
Read(d) ==
  LET s == StopsAt(d.next)
      all(j) == d.leftover \o Frames(d.next, j)
      enough == {j \in d.next - 1..s - 1 : Len(all(j)) >= Cap} IN
  IF enough # {}
    THEN LET j == CHOOSE j \in enough : \A i \in enough : j <= i IN
         [out |-> SubSeq(all(j), 1, Cap),
          dec |-> [d EXCEPT !.next = j + 1, !.leftover = SubSeq(all(j), Cap + 1, Len(all(j)))]]
    ELSE [out |-> IF s <= Len(Packets) /\ Packets[s].outcome = "panic" THEN <<>> ELSE all(s - 1),
          dec |-> [d EXCEPT !.next = IF s <= Len(Packets) THEN s + 1 ELSE s, !.leftover = <<>>]]

\* A mutant: what is left of the last packet is kept.
SeekKeepsLeftover(d, k, ok) == IF ok THEN [d EXCEPT !.next = k] ELSE d

\* AudioDecoder::seek.
Seek(d, k, ok) == IF ok THEN [d EXCEPT !.next = k, !.leftover = <<>>] ELSE d

(***************************************************************************)
(* The player                                                              *)
(***************************************************************************)
\* Its state as a record, which the steps of one task hand on.
Now == [dec |-> dec, node |-> node, feed |-> feed, shown |-> shown, start |-> start]
Becomes(a) == dec' = a.dec /\ node' = a.node /\ feed' = a.feed /\ shown' = a.shown /\ start' = a.start

StopNode(a) == [a EXCEPT !.node = [playing |-> FALSE, queue |-> <<>>]]

finishPlayback(a) == [StopNode(a) EXCEPT !.shown = FALSE]

\* The end of the stream is known: playback is over with the last buffer.
Drained(a) == IF a.feed.inFlight = 0 THEN finishPlayback(a) ELSE a

scheduleNext(a) ==
  IF a.feed.atEnd THEN Drained(a)
  ELSE LET r == Read(a.dec)
           b == [a EXCEPT !.dec = r.dec] IN
       IF r.out = <<>> THEN Drained([b EXCEPT !.feed.atEnd = TRUE])
       ELSE [b EXCEPT !.feed.inFlight = @ + 1, !.node.queue = Append(@, r.out)]

\* What the states S become when three buffers are asked for.
Primed(S) == {scheduleNext(c) : c \in {scheduleNext(b) : b \in {scheduleNext(a) : a \in S}}}

Plays(a) == [a EXCEPT !.node.playing = TRUE, !.shown = TRUE]

\* A mutant: the generation stays, and reports of before the seek count.
SoughtSame(a, k) ==
  LET cleared == StopNode([a EXCEPT !.feed = [@ EXCEPT !.inFlight = 0, !.atEnd = FALSE]]) IN
  Primed({[cleared EXCEPT !.dec = Seek(@, k, ok), !.start = IF ok THEN k ELSE 0] : ok \in BOOLEAN})

\* The schedule is cleared, and primed from packet k on, or from wherever the
\* decoder is if it cannot seek.
Sought(a, k) ==
  LET cleared == StopNode([a EXCEPT !.feed = [generation |-> @.generation + 1, inFlight |-> 0, atEnd |-> FALSE]]) IN
  Primed({[cleared EXCEPT !.dec = Seek(@, k, ok), !.start = IF ok THEN k ELSE 0] : ok \in BOOLEAN})

\* A mutant: it plays when it had been paused, too.
SeekAndPlay(a, k) == {Plays(b) : b \in Sought(a, k)}

seekTo(a, k) == IF a.node.playing THEN {Plays(b) : b \in Sought(a, k)} ELSE Sought(a, k)

\* The node reports every buffer it drops when it is stopped.
Report(g) == [do |-> "consumed", generation |-> g]
Dropped == [k \in 1..Len(node.queue) |-> Report(feed.generation)]

Init ==
  /\ recording \in Recordings
  /\ dec = Closed
  /\ node = [playing |-> FALSE, queue |-> <<>>]
  /\ feed = [generation |-> 0, inFlight |-> 0, atEnd |-> FALSE]
  /\ shown = FALSE /\ engine = "off"
  /\ tasks = <<[do |-> "load"]>>   \* onAppear
  /\ ops = 0
  /\ heard = <<>> /\ start = 0 /\ starved = FALSE

(***************************************************************************)
(* The main thread and the node                                            *)
(***************************************************************************)
\* A request; after stop, which is onDisappear, there are none.
Asks(task) ==
  /\ ops < MaxOps /\ ops' = ops + 1
  /\ engine # "raised"
  /\ \A k \in DOMAIN tasks : tasks[k].do # "stop"
  /\ tasks' = Append(tasks, task)
  /\ UNCHANGED <<recording, player, engine, heard, start, starved>>

Toggle == Asks([do |-> "toggle"])
Scrub(k) == recording.total > 0 /\ Asks([do |-> "seek", to |-> k])
Leave == Asks([do |-> "stop"])

\* The node has consumed a buffer.
Consumes ==
  /\ engine = "running" /\ node.playing /\ node.queue # <<>>
  /\ heard' = heard \o Head(node.queue)
  /\ node' = [node EXCEPT !.queue = Tail(@)]
  /\ tasks' = Append(tasks, Report(feed.generation))
  /\ UNCHANGED <<recording, dec, feed, shown, engine, ops, start, starved>>

(***************************************************************************)
(* The serial queue                                                        *)
(***************************************************************************)
Takes(what) == tasks # <<>> /\ engine # "raised" /\ Head(tasks).do = what

\* teardown: the decoder is closed, the node stopped.
TornDown == [StopNode(Now) EXCEPT !.dec = Closed, !.shown = FALSE,
               !.feed = [generation |-> @.generation + 1, inFlight |-> 0, atEnd |-> FALSE]]

\* doLoad: it does not play.  The recording may be refused, or the engine fail to
\* start.
Load ==
  LET opened == [TornDown EXCEPT !.dec.open = TRUE] IN
  /\ Takes("load")
  /\ tasks' = Tail(tasks)
  /\ \/ \E a \in {TornDown, opened} : Becomes(a) /\ UNCHANGED engine
     \/ /\ \E a \in Primed({[opened EXCEPT !.start = 1]}) : Becomes(a)
        /\ engine' = "running"
  /\ UNCHANGED <<recording, ops, heard, starved>>

\* doToggle: playing from the end starts over.  The system's node raises when it
\* is started while the engine is off.
DoToggle ==
  /\ Takes("toggle")
  /\ \/ /\ ~dec.open
        /\ UNCHANGED <<player, engine, heard, start, starved>>
     \/ /\ dec.open /\ node.playing
        /\ node' = [node EXCEPT !.playing = FALSE] /\ shown' = FALSE
        /\ UNCHANGED <<dec, feed, engine, heard, start, starved>>
     \/ /\ dec.open /\ ~node.playing /\ engine = "off"
        /\ engine' = "raised"
        /\ UNCHANGED <<player, heard, start, starved>>
     \/ /\ dec.open /\ ~node.playing /\ engine = "running"
        /\ \E a \in IF feed.atEnd THEN seekTo(Now, 1) ELSE {Now} :
             Becomes(Plays(a)) /\ starved' = (a.feed.inFlight = 0)
        /\ heard' = IF feed.atEnd THEN <<>> ELSE heard
        /\ UNCHANGED engine
  /\ tasks' = Tail(tasks) \o IF feed'.generation # feed.generation THEN Dropped ELSE <<>>
  /\ UNCHANGED <<recording, ops>>

\* seek(toFraction:), to the packet that holds the place, or past the last.
DoSeek ==
  /\ Takes("seek")
  /\ \/ /\ ~dec.open
        /\ tasks' = Tail(tasks)
        /\ UNCHANGED <<player, heard, start, starved>>
     \/ /\ dec.open
        /\ \E a \in seekTo(Now, Head(tasks).to) :
             Becomes(a) /\ starved' = (a.node.playing /\ a.feed.inFlight = 0)
        /\ tasks' = Tail(tasks) \o Dropped
        /\ heard' = <<>>
  /\ UNCHANGED <<recording, engine, ops>>

\* A mutant: the next buffer is not asked for.
ConsumedOnly ==
  /\ Takes("consumed")
  /\ IF Head(tasks).generation = feed.generation
       THEN Becomes([Now EXCEPT !.feed.inFlight = @ - 1])
       ELSE UNCHANGED <<player, start>>
  /\ tasks' = Tail(tasks)
  /\ UNCHANGED <<recording, engine, ops, heard, starved>>

Consumed ==
  /\ Takes("consumed")
  /\ IF Head(tasks).generation = feed.generation
       THEN \E a \in {scheduleNext([Now EXCEPT !.feed.inFlight = @ - 1])} : Becomes(a)
       ELSE UNCHANGED <<player, start>>
  /\ tasks' = Tail(tasks)
  /\ UNCHANGED <<recording, engine, ops, heard, starved>>

Stop ==
  /\ Takes("stop")
  /\ Becomes(TornDown)
  /\ engine' = "off"
  /\ tasks' = Tail(tasks) \o Dropped
  /\ UNCHANGED <<recording, ops, heard, starved>>

Serial == Load \/ DoToggle \/ DoSeek \/ Consumed \/ Stop

Next ==
  \/ Toggle \/ Leave \/ \E k \in 1..Len(Packets) + 1 : Scrub(k)
  \/ Consumes \/ Serial

\* The queue runs its tasks, and a node that plays consumes.
Fairness == WF_vars(Serial) /\ WF_vars(Consumes)

Spec == Init /\ [][Next]_vars /\ Fairness

(***************************************************************************)
(* Properties                                                              *)
(***************************************************************************)
Decoders == [open : BOOLEAN, next : 1..Len(Packets) + 1, leftover : Seq(Nat)]
Nodes == [playing : BOOLEAN, queue : Seq(Seq(Nat))]
Feeds == [generation : Nat, inFlight : 0..3, atEnd : BOOLEAN]
Tasks == [do : {"load", "toggle", "stop"}] \cup [do : {"seek"}, to : 1..Len(Packets) + 1]
         \cup [do : {"consumed"}, generation : Nat]

\* Types of the variables; never are more than three buffers in flight, and a
\* buffer that is scheduled is neither empty nor larger than it may be.
TypeOK ==
  /\ recording \in Recordings
  /\ dec \in Decoders /\ node \in Nodes /\ feed \in Feeds
  /\ \A k \in DOMAIN node.queue : Len(node.queue[k]) \in 1..Cap
  /\ tasks \in Seq(Tasks)
  /\ shown \in BOOLEAN /\ starved \in BOOLEAN
  /\ engine \in {"off", "running", "raised"}
  /\ ops \in 0..MaxOps /\ heard \in Seq(Nat) /\ start \in 0..Len(Packets) + 1

\* The count of buffers in flight, on which the end of playback hangs, is that
\* of the buffers the node holds and of the reports to come: never those of
\* before a seek or a stop, though their reports arrive later.
InFlightExact ==
  feed.inFlight = Len(node.queue) +
    Cardinality({k \in DOMAIN tasks : tasks[k] = Report(feed.generation)})

\* What is heard after a seek and what is scheduled is one piece of the
\* recording, in order, with nothing twice, from before the seek or left out but
\* what cannot be decoded, and it begins where it was sought.
HeardInOrder ==
  LET sound == heard \o FlattenSeq(node.queue)
      n == Len(sound)
      first == IF start = 0 THEN 1 ELSE start
      rest == Frames(first, Len(Packets)) IN
  IF start # 0 THEN sound = SubSeq(rest, 1, n)
  ELSE \E i \in 0..Len(rest) : sound = SubSeq(rest, i + 1, i + n)

\* Sound begins only when the user asks for it, never with a load or a seek.
SilentUntilAsked == [][~node.playing /\ node'.playing => Takes("toggle")]_vars

\* Playback that has begun ends, and is shown to have: unless the user pauses,
\* it was started with nothing to play, or the view is left.
PlaybackEnds == node.playing /\ feed.inFlight > 0 ~> ~shown \/ starved

\* The end of the stream stops the clock: main.swift's finishPlayback.
EndStops == dec.open /\ feed.atEnd /\ feed.inFlight = 0 => ~shown
=============================================================================
