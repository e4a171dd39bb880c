------------------------------- MODULE Server -------------------------------
(***************************************************************************)
(* exg-server: what happens to a command between the HTTP request that     *)
(* carries it and the write-ahead log, through graceful shutdown, crashes  *)
(* and boots (crates/exg-server/src/lib.rs, with the gateway's handlers    *)
(* and the writer of exg-wal).                                             *)
(*                                                                         *)
(* Three parties run concurrently: the handlers of the main and of the     *)
(* admin HTTP server, the matching thread, and the task that shuts them    *)
(* down.  They share the ring, here the queue BoundedFifo that RingBuffer  *)
(* implements, and the shutdown flag.  What a command does to the books is *)
(* the subject of MatchingEngine; here it is a number of events to log.    *)
(***************************************************************************)
EXTENDS Naturals, Sequences, SequencesExt

CONSTANTS
    Requests,       \* HTTP requests that carry a command
    AdminRequests,  \* those sent to the admin port
    Coid,           \* Coid[r]: the (user, clientOrderId) r names, or None
    None,
    RingSlots,      \* slots of the ring
    EventCounts,    \* how many events a command may give rise to
    FlushEvery,     \* wal.flush_every_n
    MaxBoots        \* bound: times the server is started

ASSUME ServerAssumption ==
    /\ None \notin Requests
    /\ AdminRequests \subseteq Requests
    /\ DOMAIN Coid = Requests
    /\ \A r \in AdminRequests : Coid[r] = None
    /\ RingSlots \in Nat \ {0}
    /\ FlushEvery \in Nat \ {0}
    /\ MaxBoots \in Nat \ {0}
    /\ EventCounts \subseteq Nat

VARIABLES
    status,     \* per request: where its handler is, or how it was answered
    clientIds,  \* table user_client_order_ids, which outlives the process
    phase,      \* of the process: serving, a step of shutdown(), or ended
    ring,       \* commands pushed and not yet popped
    taken,      \* commands popped since boot
    mpc,        \* where the matching thread's loop is
    emitted,    \* per request: how many events its command gave rise to
    pending,    \* events of the command in hand still to be appended
    file,       \* the log: its whole records, and a torn one a crash left
    durable,    \* how many records a completed fsync covers
    unflushed,  \* records_since_flush
    base,       \* records the log held at boot
    ioError,    \* the flush before the thread's exit failed
    boots       \* how often the server has been started

handlerVars == <<status, clientIds>>
matchingVars == <<taken, mpc, emitted, pending>>
logVars == <<file, durable, unflushed, base, ioError>>
vars == <<phase, ring, boots, handlerVars, matchingVars, logVars>>

Ring == INSTANCE BoundedFifo WITH Messages <- Requests, Capacity <- RingSlots,
                                  queue <- ring, delivered <- taken

Record(r, k) == [request |-> r, part |-> k]
Torn == [request |-> None, part |-> 0]    \* a record cut short by a crash
Records == {Record(r, k) : r \in Requests, k \in UNION {1 .. n : n \in EventCounts}}

InFlight == {"inserting", "building", "pushed"}
Answered == {"ok", "badRequest", "duplicate", "rateLimited", "unavailable", "cut"}

Up == phase \notin {"stopped", "crashed"}
ShutdownFlag == phase = "join"

\* A server whose stop() was called accepts no connection.
Accepts(r) == phase \in (IF r \in AdminRequests THEN {"serving"} ELSE {"serving", "stopAdmin"})

\* stop(true) resolves when no handler of that server is running.
Idle(requests) == \A r \in requests : status[r] \notin InFlight

Init ==
    /\ status = [r \in Requests |-> "unsent"]
    /\ clientIds = {}
    /\ phase = "serving"
    /\ ring = << >>
    /\ taken = << >>
    /\ mpc = "pop"
    /\ emitted = [r \in Requests |-> 0]
    /\ pending = << >>
    /\ file = << >>
    /\ durable = 0
    /\ unflushed = 0
    /\ base = 0
    /\ ioError = FALSE
    /\ boots = 1

-----------------------------------------------------------------------------
(* The handlers.  Checks that answer 4xx before the INSERT touch nothing   *)
(* and are not steps here.                                                 *)

Becomes(r, s) == status' = [status EXCEPT ![r] = s]

Arrive(r) ==
    /\ Up /\ Accepts(r) /\ status[r] = "unsent"
    /\ Becomes(r, IF Coid[r] = None THEN "building" ELSE "inserting")
    /\ UNCHANGED <<clientIds, phase, ring, boots, matchingVars, logVars>>

\* Mutant: the dedup gate asks whether the id is there and stores it later.
LookUpOnlyMutant(r) ==
    /\ Up /\ status[r] = "inserting"
    /\ Becomes(r, IF Coid[r] \in clientIds THEN "duplicate" ELSE "building")
    /\ UNCHANGED <<clientIds, phase, ring, boots, matchingVars, logVars>>

\* INSERT ... ON CONFLICT DO NOTHING, and what rows_affected() says of it.
InsertClientId(r) ==
    /\ Up /\ status[r] = "inserting"
    /\ Becomes(r, IF Coid[r] \in clientIds THEN "duplicate" ELSE "building")
    /\ clientIds' = clientIds \cup {Coid[r]}
    /\ UNCHANGED <<phase, ring, boots, matchingVars, logVars>>

\* The query fails; or the handler is dropped at its only await, because the
\* client left or a graceful stop ran out of time.  Either way the row may
\* have been stored.
AbandonInsert(r) ==
    /\ Up /\ status[r] = "inserting"
    /\ \E answer \in {"unavailable", "cut"} : Becomes(r, answer)
    /\ clientIds' \in {clientIds, clientIds \cup {Coid[r]}}
    /\ UNCHANGED <<phase, ring, boots, matchingVars, logVars>>

\* An unknown symbol or an unparsable order, noticed after the INSERT.
RejectBody(r) ==
    /\ Up /\ status[r] = "building"
    /\ Becomes(r, "badRequest")
    /\ UNCHANGED <<clientIds, phase, ring, boots, matchingVars, logVars>>

\* enqueue: try_push under the producer's mutex.
Enqueue(r) ==
    /\ Up /\ status[r] = "building"
    /\ \/ Ring!Enqueue(r) /\ Becomes(r, "pushed")
       \/ Len(ring) = RingSlots /\ Becomes(r, "rateLimited") /\ UNCHANGED <<ring, taken>>
    /\ UNCHANGED <<clientIds, phase, boots, mpc, emitted, pending, logVars>>

Respond(r) ==
    /\ Up /\ status[r] = "pushed"
    /\ Becomes(r, "ok")
    /\ UNCHANGED <<clientIds, phase, ring, boots, matchingVars, logVars>>

Handle(r) ==
    \/ InsertClientId(r)
    \/ AbandonInsert(r)
    \/ RejectBody(r)
    \/ Enqueue(r)
    \/ Respond(r)

-----------------------------------------------------------------------------
(* The matching thread. *)

\* try_pop, and process_one up to the first append.
Pop ==
    /\ Up /\ mpc = "pop"
    /\ Ring!Dequeue
    /\ \E n \in EventCounts :
           /\ emitted' = [emitted EXCEPT ![Head(ring)] = n]
           /\ pending' = [k \in 1 .. n |-> Record(Head(ring), k)]
           /\ mpc' = IF n = 0 THEN "pop" ELSE "append"
    /\ UNCHANGED <<handlerVars, phase, boots, logVars>>

\* Mutant: a batch handed to fsync is taken for the end of the command.
FlushEndsCommandMutant ==
    LET flushed == unflushed + 1 = FlushEvery IN
    /\ Up /\ mpc = "append"
    /\ file' = Append(file, Head(pending))
    /\ pending' = IF flushed THEN << >> ELSE Tail(pending)
    /\ unflushed' = IF flushed THEN 0 ELSE unflushed + 1
    /\ durable' = IF flushed THEN Len(file') ELSE durable
    /\ mpc' = IF pending' = << >> THEN "pop" ELSE "append"
    /\ UNCHANGED <<handlerVars, phase, ring, boots, taken, emitted, base, ioError>>

\* WalWriter::append of one event.  A segment with no room for the record is
\* flushed and rotated first; then flush_every_n may be reached.
AppendEvent ==
    \E rotate \in BOOLEAN :
        LET since == IF rotate THEN 1 ELSE unflushed + 1 IN
        /\ Up /\ mpc = "append"
        /\ file' = Append(file, Head(pending))
        /\ pending' = Tail(pending)
        /\ unflushed' = IF since >= FlushEvery THEN 0 ELSE since
        /\ durable' = IF since >= FlushEvery THEN Len(file')
                      ELSE IF rotate THEN Len(file) ELSE durable
        /\ mpc' = IF Len(pending) = 1 THEN "pop" ELSE "append"
        /\ UNCHANGED <<handlerVars, phase, ring, boots, taken, emitted, base, ioError>>

SeeEmpty ==
    /\ Up /\ mpc = "pop" /\ ring = << >>
    /\ mpc' = "empty"
    /\ UNCHANGED <<handlerVars, phase, ring, boots, taken, emitted, pending, logVars>>

\* Mutant: an empty ring ends the loop whatever the flag says.
EagerExitMutant ==
    /\ Up /\ mpc = "empty" /\ ~ShutdownFlag
    /\ mpc' = "exited"
    /\ UNCHANGED <<handlerVars, phase, ring, boots, taken, emitted, pending, logVars>>

KeepSpinning ==
    /\ Up /\ mpc = "empty" /\ ~ShutdownFlag
    /\ mpc' = "pop"
    /\ UNCHANGED <<handlerVars, phase, ring, boots, taken, emitted, pending, logVars>>

\* Mutant: the thread returns and leaves the flush to the writer's drop.
UnflushedExitMutant ==
    /\ Up /\ mpc = "empty" /\ ShutdownFlag
    /\ mpc' = "exited"
    /\ UNCHANGED <<handlerVars, phase, ring, boots, taken, emitted, pending, logVars>>

\* The flag was loaded after the ring was seen empty: flush and return.  A
\* flush that fails is logged and otherwise ignored.
ExitThread ==
    /\ Up /\ mpc = "empty" /\ ShutdownFlag
    /\ mpc' = "exited"
    /\ \/ durable' = Len(file) /\ unflushed' = 0 /\ UNCHANGED ioError
       \/ ioError' = TRUE /\ UNCHANGED <<durable, unflushed>>
    /\ UNCHANGED <<handlerVars, phase, ring, boots, taken, emitted, pending, file, base>>

MatchingThread ==
    \/ Pop
    \/ AppendEvent
    \/ SeeEmpty
    \/ KeepSpinning
    \/ ExitThread

-----------------------------------------------------------------------------
(* ServerHandle::shutdown. *)

MovePhase(from, to) ==
    /\ phase = from
    /\ phase' = to
    /\ UNCHANGED <<handlerVars, ring, boots, matchingVars, logVars>>

BeginShutdown == MovePhase("serving", "stopAdmin")

AdminStopped == Idle(AdminRequests) /\ MovePhase("stopAdmin", "stopMain")

\* Mutant: the thread is joined before it is told to stop.
JoinFirstMutant == mpc = "exited" /\ MovePhase("stopMain", "join")

\* The main server has stopped as well and the flag is stored.
SignalMatching == Idle(Requests) /\ MovePhase("stopMain", "join")

\* Mutant: append does not wait for fsync, so what it flushed may be lost.
LossyFlushMutant(n) == n \in 0 .. Len(file)
\* The first n records outlive the end of the process.
Survive(n) == n \in durable .. Len(file)

\* What the log then holds: those records and perhaps part of the next.
LeaveOnDisk ==
    \E n \in 0 .. Len(file) :
        /\ Survive(n)
        /\ \/ file' = SubSeq(file, 1, n)
           \/ n < Len(file) /\ file' = Append(SubSeq(file, 1, n), Torn)

\* The thread is joined and the process ends.
Join ==
    /\ phase = "join" /\ mpc = "exited"
    /\ phase' = "stopped"
    /\ LeaveOnDisk
    /\ UNCHANGED <<handlerVars, ring, boots, matchingVars, durable, unflushed, base, ioError>>

Shutdown == AdminStopped \/ SignalMatching \/ Join

-----------------------------------------------------------------------------
(* Crash and boot. *)

\* The process or the machine dies (a panic of the matching thread aborts
\* the process in release builds).
Crash ==
    /\ Up
    /\ phase' = "crashed"
    /\ status' = [r \in Requests |-> IF status[r] \in InFlight THEN "cut" ELSE status[r]]
    /\ LeaveOnDisk
    /\ UNCHANGED <<clientIds, ring, boots, matchingVars, durable, unflushed, base, ioError>>

\* Mutant: the torn tail is left where it is, and is appended to.
KeepTornMutant(f) == f
\* recover_state: a record cut short at the end of the log is truncated.
Recovered(f) == IF f # << >> /\ f[Len(f)] = Torn THEN SubSeq(f, 1, Len(f) - 1) ELSE f

\* run_with_config: open the log, replay it, start the matching thread,
\* bind both servers.  Truncation fsyncs the file, opening it does not.
Boot ==
    /\ ~Up /\ boots < MaxBoots
    /\ boots' = boots + 1
    /\ file' = Recovered(file)
    /\ durable' = IF file' = file THEN durable ELSE Len(file')
    /\ base' = Len(file')
    /\ unflushed' = 0
    /\ ioError' = FALSE
    /\ phase' = "serving"
    /\ ring' = << >>
    /\ taken' = << >>
    /\ mpc' = "pop"
    /\ pending' = << >>
    /\ UNCHANGED <<handlerVars, emitted>>

Next ==
    \/ \E r \in Requests : Arrive(r) \/ Handle(r)
    \/ MatchingThread
    \/ BeginShutdown
    \/ Shutdown
    \/ Crash
    \/ Boot

Spec == Init /\ [][Next]_vars

\* The matching thread has a core and spins; a handler's task is scheduled
\* and its query is answered or fails; shutdown() awaits and joins.  Nothing
\* makes a client send, an operator stop or start the server, or it crash.
Fairness ==
    /\ WF_vars(MatchingThread)
    /\ \A r \in Requests : WF_vars(Handle(r))
    /\ WF_vars(Shutdown)

FairSpec == Spec /\ Fairness

-----------------------------------------------------------------------------
(* Properties. *)

Reached(r) ==
    \/ status[r] \in {"pushed", "ok"}
    \/ \E i \in 1 .. Len(ring) : ring[i] = r
    \/ \E i \in 1 .. Len(taken) : taken[i] = r
    \/ \E i \in 1 .. Len(file) : file[i].request = r

\* The events of the commands in s, one command after the other.
EventsOf(s) ==
    FlattenSeq([i \in 1 .. Len(s) |-> [k \in 1 .. emitted[s[i]] |-> Record(s[i], k)]])

\* Types of the variables; durable never runs ahead of the log.
TypeOK ==
    /\ status \in [Requests -> {"unsent"} \cup InFlight \cup Answered]
    /\ clientIds \subseteq {Coid[r] : r \in Requests} \ {None}
    /\ phase \in {"serving", "stopAdmin", "stopMain", "join", "stopped", "crashed"}
    /\ ring \in Seq(Requests) /\ Len(ring) <= RingSlots
    /\ taken \in Seq(Requests)
    /\ mpc \in {"pop", "append", "empty", "exited"}
    /\ emitted \in [Requests -> EventCounts \cup {0}]
    /\ pending \in Seq(Records) /\ (Up => (mpc = "append" <=> pending # << >>))
    /\ file \in Seq(Records \cup {Torn})
    /\ durable \in 0 .. Len(file)
    /\ unflushed \in 0 .. FlushEvery - 1
    /\ base \in Nat
    /\ ioError \in BOOLEAN
    /\ boots \in 1 .. MaxBoots

\* Of the requests that name one clientOrderId at most one is answered 200,
\* waits in the ring, or has been executed, over all crashes, retries and
\* boots: the gate is the INSERT, made before the push and never undone.
ClientIdOnce ==
    \A r, s \in Requests :
        r # s /\ Coid[r] = Coid[s] /\ Coid[r] # None => ~(Reached(r) /\ Reached(s))

\* What this boot has logged, with what process_one still holds, is exactly
\* the events of the commands popped, in the order of the ring: nothing is
\* dropped at a flush, reordered or logged twice.  A graceful shutdown whose
\* last flush succeeded leaves all of it on disk, and no handler unanswered.
LogFollowsQueue ==
    /\ Up => SubSeq(file, base + 1, Len(file)) \o pending = EventsOf(taken)
    /\ phase = "stopped" /\ ~ioError =>
          /\ durable = Len(file)
          /\ SubSeq(file, base + 1, Len(file)) = EventsOf(taken)
          /\ Idle(Requests)

\* A torn record is only ever the last thing in the log of a server that is
\* down: no boot appends behind one, which would make the log unreadable.
TornOnlyAtTheEnd ==
    \A i \in 1 .. Len(file) : file[i] = Torn => ~Up /\ i = Len(file)

\* Records an fsync covered are there for good, whatever crashes and boots
\* follow.
DurableKept ==
    [][durable' >= durable /\ IsPrefix(SubSeq(file, 1, durable), file')]_vars

\* Once the flag is up no handler pushes any more (the order admin stop, main
\* stop, signal of ServerHandle::shutdown).
QuietAfterSignal == [][ShutdownFlag => Len(ring') <= Len(ring)]_vars

\* A command in the ring is popped and all its events are logged, unless the
\* server ends first.
AckedIsProcessed ==
    \A r \in Requests :
        (\E i \in 1 .. Len(ring) : ring[i] = r) ~>
            \/ ~Up
            \/ /\ \E i \in 1 .. Len(taken) : taken[i] = r
               /\ pending = << >> \/ Head(pending).request # r

\* shutdown() returns: no stage waits for something that cannot come.
ShutdownTerminates == phase = "stopAdmin" ~> ~Up
=============================================================================
