-------------------------------- MODULE Session --------------------------------
(***************************************************************************)
(* A tracing session: what main.c and collector.c do around handle_event.  *)
(* The collector acquires its resources, attaches, polls the ring buffer   *)
(* until it is told to stop, writes the CSV file and releases everything;  *)
(* the traced processes produce events, exit, and signals arrive, at any   *)
(* moment.  An event is abstracted to the process it comes from, the       *)
(* allocation table to the number of the recorded processes' events in it. *)
(***************************************************************************)
EXTENDS Integers, Sequences

CONSTANTS Targeted,     \* --pid was given
          HasDuration,  \* --duration was given
          RingCap,      \* events the ring buffer holds
          MaxEmits      \* bound: events each process causes

ASSUME SessionAssumption ==
  Targeted \in BOOLEAN /\ HasDuration \in BOOLEAN /\ RingCap \in Nat /\ MaxEmits \in Nat

Sources == {"target", "other"}
DrainPolls == 5

VARIABLES pc,        \* where main is
          nextInit,  \* the next step of collector_init
          held,      \* resources acquired and not released
          running,   \* g_running
          alive,     \* the target exists
          timeUp,    \* the duration is over
          ring,      \* events of the ring buffer, by source
          emits,     \* events each process has caused, up to MaxEmits
          accepted,  \* events of recorded processes that entered the ring
          recorded,  \* events of recorded processes handled
          polled,    \* the sign of the poll's result: -1 an error, 0 nothing, 1 events
          drains,    \* 0 in the main loop, else the number of the drain poll
          reason,    \* why the loop ended
          csv        \* recorded when the file was written, or -1

vars == <<pc, nextInit, held, running, alive, timeUp, ring, emits, accepted, recorded,
          polled, drains, reason, csv>>

world == <<running, alive, timeUp>>
events == <<ring, emits, accepted, recorded>>
poll == <<polled, drains>>

Init ==
  /\ pc = "init" /\ nextInit = 1 /\ held = {}
  /\ running = TRUE /\ alive = TRUE /\ timeUp = FALSE
  /\ ring = <<>> /\ emits = [s \in Sources |-> 0] /\ accepted = 0 /\ recorded = 0
  /\ polled = 0 /\ drains = 0 /\ reason = "none" /\ csv = -1

\* handle_event's filter.
Accepts(s) == ~Targeted \/ s = "target"
Counted(s) == IF Accepts(s) THEN 1 ELSE 0
------------------------------------------------------------------------------
(***************************************************************************)
(* collector_init and collector_start                                      *)
(***************************************************************************)
\* What each step of collector_init acquires: calloc, alloc_table_init, open,
\* load, the events map, ring_buffer__new.
Acquires == << {"ctx"}, {"table"}, {"obj"}, {}, {}, {"ringbuf"} >>

\* Mutant: the path of a failed load does not close the object.
ReleasesLoadLeak(i) ==
  IF i = 4 THEN {"table", "ctx"}
  ELSE IF i > 3 THEN {"obj", "table", "ctx"} ELSE IF i = 3 THEN {"table", "ctx"}
  ELSE IF i = 2 THEN {"ctx"} ELSE {}

\* What its error path releases before it returns NULL.
Releases(i) ==
  CASE i = 1 -> {}
    [] i = 2 -> {"ctx"}
    [] i = 3 -> {"table", "ctx"}
    [] OTHER -> {"obj", "table", "ctx"}

InitStep ==
  /\ pc = "init"
  /\ \/ /\ held' = held \cup Acquires[nextInit]
        /\ nextInit' = nextInit + 1
        /\ pc' = IF nextInit = Len(Acquires) THEN "attach" ELSE "init"
     \/ /\ held' = held \ Releases(nextInit)
        /\ pc' = "exited" /\ UNCHANGED nextInit
  /\ UNCHANGED <<world, events, poll, reason, csv>>

\* attach_uprobes attaches some programs, from the first of which events may come...
AttachSome ==
  /\ pc = "attach" /\ "links" \notin held
  /\ held' = held \cup {"links"}
  /\ UNCHANGED <<pc, nextInit, world, events, poll, reason, csv>>

\* ... or none, and collector_start fails.
AttachDone ==
  /\ pc = "attach"
  /\ pc' = IF "links" \in held THEN "loop" ELSE "destroy"
  /\ UNCHANGED <<nextInit, held, world, events, poll, reason, csv>>
------------------------------------------------------------------------------
(***************************************************************************)
(* The main loop                                                           *)
(***************************************************************************)
\* Mutant: while (1).
LoopForever ==
  /\ pc = "loop" /\ pc' = "poll" /\ UNCHANGED reason
  /\ UNCHANGED <<nextInit, held, world, events, poll, csv>>

Loop ==
  /\ pc = "loop"
  /\ \/ running /\ pc' = "poll" /\ UNCHANGED reason
     \/ ~running /\ pc' = "stop" /\ reason' = "signal"
  /\ UNCHANGED <<nextInit, held, world, events, poll, csv>>

\* ring_buffer__poll: 10 ms without an event, or events to consume.
PollWait ==
  /\ pc = "poll"
  /\ \/ ring = <<>> /\ polled' = 0 /\ pc' = "polled"
     \/ ring # <<>> /\ polled' = 1 /\ pc' = "consume"
  /\ UNCHANGED <<nextInit, held, world, events, drains, reason, csv>>

\* It calls handle_event until the ring is empty, also on events that arrive meanwhile.
Consume ==
  /\ pc = "consume"
  /\ \/ /\ ring # <<>>
        /\ ring' = Tail(ring)
        /\ recorded' = recorded + Counted(Head(ring))
        /\ UNCHANGED pc
     \/ /\ ring = <<>> /\ pc' = "polled"
        /\ UNCHANGED <<ring, recorded>>
  /\ UNCHANGED <<nextInit, held, world, emits, accepted, poll, reason, csv>>

\* Mutant: the exit of the target ends the loop at once.
CheckNoDrain ==
  /\ pc = "polled" /\ drains = 0
  /\ \/ HasDuration /\ timeUp /\ pc' = "stop" /\ reason' = "duration"
     \/ ~(HasDuration /\ timeUp) /\ Targeted /\ ~alive /\ pc' = "stop" /\ reason' = "exit"
     \/ ~(HasDuration /\ timeUp) /\ (alive \/ ~Targeted) /\ pc' = "loop" /\ UNCHANGED reason
  /\ UNCHANGED <<nextInit, held, world, events, poll, csv>>

\* After the loop's poll: the duration, then /proc/<pid>/status.
Check ==
  /\ pc = "polled" /\ drains = 0
  /\ \/ /\ HasDuration /\ timeUp
        /\ pc' = "stop" /\ reason' = "duration" /\ UNCHANGED drains
     \/ /\ ~(HasDuration /\ timeUp) /\ Targeted /\ ~alive
        /\ pc' = "poll" /\ drains' = 1 /\ UNCHANGED reason
     \/ /\ ~(HasDuration /\ timeUp) /\ (alive \/ ~Targeted)
        /\ pc' = "loop" /\ UNCHANGED <<drains, reason>>
  /\ UNCHANGED <<nextInit, held, world, events, polled, csv>>

\* Mutant: i <= 5.
DrainSix ==
  /\ pc = "polled" /\ drains > 0
  /\ \/ /\ polled > 0 /\ drains <= DrainPolls
        /\ drains' = drains + 1 /\ pc' = "poll" /\ UNCHANGED reason
     \/ /\ polled <= 0 \/ drains > DrainPolls
        /\ pc' = "stop" /\ reason' = "exit" /\ UNCHANGED drains
  /\ UNCHANGED <<nextInit, held, world, events, polled, csv>>

\* The target is gone: up to five polls, until one returns no events.
Drain ==
  /\ pc = "polled" /\ drains > 0
  /\ \/ /\ polled > 0 /\ drains < DrainPolls
        /\ drains' = drains + 1 /\ pc' = "poll" /\ UNCHANGED reason
     \/ /\ polled <= 0 \/ drains = DrainPolls
        /\ pc' = "stop" /\ reason' = "exit" /\ UNCHANGED drains
  /\ UNCHANGED <<nextInit, held, world, events, polled, csv>>

\* The output file, when it can be opened.
Stop ==
  /\ pc = "stop" /\ pc' = "destroy"
  /\ csv' \in {-1, recorded}
  /\ UNCHANGED <<nextInit, held, world, events, poll, reason>>

\* collector_destroy.
Destroy ==
  /\ pc = "destroy" /\ pc' = "exited"
  /\ held' = held \ {"links", "ringbuf", "obj", "table", "ctx"}
  /\ UNCHANGED <<nextInit, world, events, poll, reason, csv>>

Main ==
  InitStep \/ AttachSome \/ AttachDone \/ Loop \/ PollWait \/ Consume \/ Check \/ Drain
  \/ Stop \/ Destroy
------------------------------------------------------------------------------
(***************************************************************************)
(* The traced processes, signals and the clock                             *)
(***************************************************************************)
\* The programs are attached in every process (pid -1); a full ring drops the event.
EmitEvent(s) ==
  /\ "links" \in held /\ (s = "target" => alive)
  /\ emits[s] < MaxEmits
  /\ emits' = [emits EXCEPT ![s] = @ + 1]
  /\ \/ Len(ring) < RingCap /\ ring' = Append(ring, s) /\ accepted' = accepted + Counted(s)
     \/ Len(ring) >= RingCap /\ UNCHANGED <<ring, accepted>>
  /\ UNCHANGED <<pc, nextInit, held, world, recorded, poll, reason, csv>>

TargetExits ==
  /\ alive /\ alive' = FALSE
  /\ UNCHANGED <<pc, nextInit, held, running, timeUp, events, poll, reason, csv>>

\* SIGINT or SIGTERM: the flag, and an error from a poll that is waiting.
Signal ==
  /\ running /\ running' = FALSE
  /\ \/ pc = "poll" /\ pc' = "polled" /\ polled' = -1
     \/ UNCHANGED <<pc, polled>>
  /\ UNCHANGED <<nextInit, held, alive, timeUp, events, drains, reason, csv>>

TimePasses ==
  /\ HasDuration /\ ~timeUp /\ pc \notin {"init", "attach"}
  /\ timeUp' = TRUE
  /\ UNCHANGED <<pc, nextInit, held, running, alive, events, poll, reason, csv>>

Next ==
  \/ Main
  \/ \E s \in Sources : EmitEvent(s)
  \/ TargetExits \/ Signal \/ TimePasses

\* The collector is scheduled; nothing makes processes exit or signals come.
Spec == Init /\ [][Next]_vars /\ WF_vars(Main)
------------------------------------------------------------------------------
Resources == {"ctx", "table", "obj", "ringbuf", "links"}

\* Every variable keeps its type.
TypeOK ==
  /\ pc \in {"init", "attach", "loop", "poll", "consume", "polled", "stop", "destroy", "exited"}
  /\ nextInit \in 1 .. Len(Acquires) + 1 /\ held \subseteq Resources
  /\ running \in BOOLEAN /\ alive \in BOOLEAN /\ timeUp \in BOOLEAN
  /\ ring \in Seq(Sources) /\ Len(ring) <= RingCap
  /\ emits \in [Sources -> 0 .. MaxEmits]
  /\ accepted \in Nat /\ recorded \in Nat
  /\ polled \in {-1, 0, 1} /\ drains \in 0 .. DrainPolls
  /\ reason \in {"none", "signal", "duration", "exit"}
  /\ csv \in Nat \cup {-1}

(***************************************************************************)
(* Whatever fails, and whenever a signal comes, a session that has ended   *)
(* holds nothing: no probe stays attached, no map loaded                   *)
(* (collector.c:321-411, main.c:101-111).                                  *)
(***************************************************************************)
NothingHeld == pc = "exited" => held = {}

(***************************************************************************)
(* A session that ends because its target exited misses none of the        *)
(* events that entered the ring: those the target emitted between the last *)
(* poll and the look at /proc are drained first, even while other          *)
(* processes keep producing (main.c:124-133).  Only a signal cuts it short.*)
(***************************************************************************)
ExitComplete == reason = "exit" /\ running /\ csv # -1 => csv = accepted

(***************************************************************************)
(* Told to stop, by a signal, the duration or the exit of the target, the  *)
(* collector ends.                                                         *)
(***************************************************************************)
Terminates == ~running \/ timeUp \/ (Targeted /\ ~alive) ~> pc = "exited"
==============================================================================
