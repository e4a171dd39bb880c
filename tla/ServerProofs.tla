----------------------------- MODULE ServerProofs -----------------------------
(***************************************************************************)
(* What holds of the server's life for any number of requests, ring slots, *)
(* events per command, flush batches and boots.                            *)
(***************************************************************************)
EXTENDS Server, CollectionLaws

\* A client order id is taken up at most once: r has passed the gate.
Passed(r) == Reached(r) \/ status[r] = "building"

LogInv ==
    /\ \A i \in 1 .. Len(file) : file[i] = Torn => ~Up /\ i = Len(file)
    /\ \A i \in 1 .. durable : file[i] # Torn

\* Every event still to be logged is of a command that was popped.
PendingInv ==
    \A k \in 1 .. Len(pending) : \E i \in 1 .. Len(taken) : taken[i] = pending[k].request

GateInv ==
    /\ \A r \in Requests : status[r] = "inserting" => Coid[r] # None
    /\ \A r \in Requests : Coid[r] # None /\ Passed(r) => Coid[r] \in clientIds
    /\ \A r, s \in Requests :
          r # s /\ Coid[r] = Coid[s] /\ Coid[r] # None => ~(Passed(r) /\ Passed(s))

\* The flag is stored after both servers have stopped.
StopInv == phase = "join" => Idle(Requests)

\* A command is pushed once, and a request that got that far is past its
\* push for good: what a command gave rise to is settled when it is popped.
PushedOnceInv ==
    /\ \A i, j \in 1 .. Len(ring) : ring[i] = ring[j] => i = j
    /\ \A i \in 1 .. Len(ring), j \in 1 .. Len(taken) : ring[i] # taken[j]
    /\ \A i \in 1 .. Len(ring) : status[ring[i]] \notin {"unsent", "inserting", "building"}
    /\ \A i \in 1 .. Len(taken) : status[taken[i]] \notin {"unsent", "inserting", "building"}

\* The records of this boot, with what is still to be appended.
Written == SubSeq(file, base + 1, Len(file))

\* LogFollowsQueue, with what makes it survive the end of the thread and of
\* the process: a flush that succeeded covers the whole log, and nothing of a
\* command is left to append when the thread returns.
WrittenInv ==
    /\ Up => base <= Len(file) /\ Written \o pending = EventsOf(taken)
    /\ Up /\ mpc = "exited" /\ ~ioError => durable = Len(file)
    /\ phase = "stopped" /\ ~ioError =>
          durable = Len(file) /\ Written = EventsOf(taken) /\ Idle(Requests)

Inv == TypeOK /\ LogInv /\ PendingInv /\ GateInv /\ StopInv

-----------------------------------------------------------------------------
(* TypeOK by the party a variable belongs to.                              *)

HandlerTypes ==
    /\ status \in [Requests -> {"unsent"} \cup InFlight \cup Answered]
    /\ clientIds \subseteq {Coid[r] : r \in Requests} \ {None}

QueueTypes ==
    /\ ring \in Seq(Requests) /\ Len(ring) <= RingSlots
    /\ taken \in Seq(Requests)
    /\ emitted \in [Requests -> EventCounts \cup {0}]
    /\ pending \in Seq(Records)

LoopTypes ==
    /\ phase \in {"serving", "stopAdmin", "stopMain", "join", "stopped", "crashed"}
    /\ mpc \in {"pop", "append", "empty", "exited"}
    /\ Up => (mpc = "append" <=> pending # << >>)
    /\ boots \in 1 .. MaxBoots
    /\ ioError \in BOOLEAN

LogTypes ==
    /\ file \in Seq(Records \cup {Torn})
    /\ durable \in 0 .. Len(file)
    /\ unflushed \in 0 .. FlushEvery - 1
    /\ base \in Nat

\* The type invariant, by the part of the server it speaks of.
LEMMA Types == TypeOK <=> HandlerTypes /\ QueueTypes /\ LoopTypes /\ LogTypes
  BY DEF TypeOK, HandlerTypes, QueueTypes, LoopTypes, LogTypes

\* A boot on an empty log satisfies the invariant.
LEMMA InitInv == Init => Inv
  <1> SUFFICES ASSUME Init PROVE Inv OBVIOUS
  <1> USE ServerAssumption DEF Init
  <1>1. HandlerTypes BY DEF HandlerTypes
  <1>2. QueueTypes BY DEF QueueTypes
  <1>3. LoopTypes
    <2>1. ioError \in BOOLEAN OBVIOUS
    <2>2. boots \in 1 .. MaxBoots OBVIOUS
    <2>3. QED BY <2>1, <2>2 DEF LoopTypes
  <1>4. LogTypes
    <2>1. file \in Seq(Records \cup {Torn}) /\ durable \in 0 .. Len(file) OBVIOUS
    <2>2. unflushed \in 0 .. FlushEvery - 1 /\ base \in Nat OBVIOUS
    <2>3. QED BY <2>1, <2>2 DEF LogTypes
  <1>5. LogInv BY DEF LogInv
  <1>6. PendingInv BY DEF PendingInv
  <1>7. GateInv BY DEF GateInv, Passed, Reached
  <1>8. StopInv BY DEF StopInv
  <1>9. QED BY <1>1, <1>2, <1>3, <1>4, <1>5, <1>6, <1>7, <1>8, Types DEF Inv

\* A step of Next is one of these.
LEMMA Steps ==
    ASSUME [Next]_vars
    PROVE  \/ \E r \in Requests : \/ Arrive(r) \/ InsertClientId(r) \/ AbandonInsert(r)
                                  \/ RejectBody(r) \/ Enqueue(r) \/ Respond(r)
           \/ Pop \/ AppendEvent \/ SeeEmpty \/ KeepSpinning \/ ExitThread
           \/ BeginShutdown \/ AdminStopped \/ SignalMatching \/ Join
           \/ Crash \/ Boot \/ UNCHANGED vars
  BY DEF Next, Handle, MatchingThread, Shutdown

-----------------------------------------------------------------------------
(* Every step keeps the types.                                             *)

LEMMA HandlerStep == Inv /\ [Next]_vars => HandlerTypes'
  <1> SUFFICES ASSUME Inv, [Next]_vars PROVE HandlerTypes' OBVIOUS
  <1>1. HandlerTypes /\ GateInv BY Types DEF Inv
  <1>2. CASE UNCHANGED handlerVars
    BY <1>1, <1>2 DEF handlerVars, HandlerTypes
  <1>3. ASSUME NEW r \in Requests, NEW s \in {"unsent"} \cup InFlight \cup Answered,
               Becomes(r, s), clientIds' = clientIds
        PROVE  HandlerTypes'
    BY <1>1, <1>3 DEF HandlerTypes, Becomes
  <1>4. ASSUME NEW r \in Requests, status[r] = "inserting",
               NEW s \in {"unsent"} \cup InFlight \cup Answered, Becomes(r, s),
               clientIds' \in {clientIds, clientIds \cup {Coid[r]}}
        PROVE  HandlerTypes'
    <2>1. Coid[r] # None BY <1>1, <1>4 DEF GateInv
    <2>2. QED BY <1>1, <1>4, <2>1 DEF HandlerTypes, Becomes
  <1>5. ASSUME NEW r \in Requests, Arrive(r) PROVE HandlerTypes'
    <2>1. CASE Coid[r] = None
      BY <1>3, <1>5, <2>1 DEF Arrive, InFlight
    <2>2. CASE Coid[r] # None
      BY <1>3, <1>5, <2>2 DEF Arrive, InFlight
    <2>3. QED BY <2>1, <2>2
  <1>6. ASSUME NEW r \in Requests, InsertClientId(r) PROVE HandlerTypes'
    <2>1. CASE Coid[r] \in clientIds
      BY <1>4, <1>6, <2>1 DEF InsertClientId, Answered
    <2>2. CASE Coid[r] \notin clientIds
      BY <1>4, <1>6, <2>2 DEF InsertClientId, InFlight
    <2>3. QED BY <2>1, <2>2
  <1>7. ASSUME NEW r \in Requests, AbandonInsert(r) PROVE HandlerTypes'
    BY <1>4, <1>7 DEF AbandonInsert, Answered
  <1>8. ASSUME NEW r \in Requests, RejectBody(r) PROVE HandlerTypes'
    BY <1>3, <1>8 DEF RejectBody, Answered
  <1>9. ASSUME NEW r \in Requests, Enqueue(r) PROVE HandlerTypes'
    BY <1>3, <1>9 DEF Enqueue, InFlight, Answered
  <1>10. ASSUME NEW r \in Requests, Respond(r) PROVE HandlerTypes'
    BY <1>3, <1>10 DEF Respond, Answered
  <1>11. CASE Crash
    BY <1>1, <1>11 DEF Crash, HandlerTypes, Answered
  <1>12. CASE ~(\E r \in Requests : \/ Arrive(r) \/ InsertClientId(r) \/ AbandonInsert(r)
                                    \/ RejectBody(r) \/ Enqueue(r) \/ Respond(r)) /\ ~Crash
    <2>1. UNCHANGED handlerVars
      BY <1>12, Steps DEF Pop, AppendEvent, SeeEmpty, KeepSpinning, ExitThread, MovePhase,
         BeginShutdown, AdminStopped, SignalMatching, Join, Boot, vars
    <2>2. QED BY <1>2, <2>1
  <1>13. QED BY <1>5, <1>6, <1>7, <1>8, <1>9, <1>10, <1>11, <1>12

\* The events of a command, as a sequence of records.
LEMMA EventRecords ==
    ASSUME NEW r \in Requests, NEW n \in EventCounts
    PROVE  /\ [k \in 1 .. n |-> Record(r, k)] \in Seq(Records)
           /\ Len([k \in 1 .. n |-> Record(r, k)]) = n
  <1>1. n \in Nat BY ServerAssumption
  <1>2. \A k \in 1 .. n : Record(r, k) \in Records BY DEF Records
  <1>3. QED BY <1>1, <1>2

\* Every step keeps the types of the queue.
LEMMA QueueStep == Inv /\ [Next]_vars => QueueTypes'
  <1> SUFFICES ASSUME Inv, [Next]_vars PROVE QueueTypes' OBVIOUS
  <1>1. QueueTypes /\ LoopTypes BY Types DEF Inv
  <1>2. ASSUME NEW r \in Requests, Enqueue(r) PROVE QueueTypes'
    <2>1. UNCHANGED <<taken, emitted, pending>> BY <1>2 DEF Enqueue, Ring!Enqueue
    <2>2. CASE UNCHANGED ring BY <1>1, <2>1, <2>2 DEF QueueTypes
    <2>3. CASE Ring!Enqueue(r)
      <3>1. Len(ring) < RingSlots /\ ring' = Append(ring, r) BY <2>3 DEF Ring!Enqueue
      <3>2. ring' \in Seq(Requests) /\ Len(ring') <= RingSlots
        BY <1>1, <3>1, ServerAssumption DEF QueueTypes
      <3>3. QED BY <1>1, <2>1, <3>2 DEF QueueTypes
    <2>4. QED BY <1>2, <2>2, <2>3 DEF Enqueue
  <1>3. CASE Pop
    <2>1. ring # << >> /\ ring' = Tail(ring) /\ taken' = Append(taken, Head(ring))
      BY <1>3 DEF Pop, Ring!Dequeue
    <2>2. Head(ring) \in Requests BY <1>1, <2>1 DEF QueueTypes
    <2>3. ring' \in Seq(Requests) /\ Len(ring') <= RingSlots /\ taken' \in Seq(Requests)
      BY <1>1, <2>1, <2>2, ServerAssumption DEF QueueTypes
    <2>4. PICK n \in EventCounts :
             /\ emitted' = [emitted EXCEPT ![Head(ring)] = n]
             /\ pending' = [k \in 1 .. n |-> Record(Head(ring), k)]
      BY <1>3 DEF Pop
    <2>5. pending' \in Seq(Records) BY <2>2, <2>4, EventRecords
    <2>6. emitted' \in [Requests -> EventCounts \cup {0}]
      BY <1>1, <2>2, <2>4 DEF QueueTypes
    <2>7. QED BY <2>3, <2>5, <2>6 DEF QueueTypes
  <1>4. CASE AppendEvent
    <2>1. pending # << >> BY <1>1, <1>4 DEF AppendEvent, LoopTypes
    <2>2. pending' = Tail(pending) /\ UNCHANGED <<ring, taken, emitted>>
      BY <1>4 DEF AppendEvent
    <2>3. QED BY <1>1, <2>1, <2>2 DEF QueueTypes
  <1>5. CASE Boot
    BY <1>1, <1>5, ServerAssumption DEF Boot, QueueTypes
  <1>6. CASE UNCHANGED <<ring, taken, emitted, pending>>
    BY <1>1, <1>6 DEF QueueTypes
  <1>7. CASE ~(\E r \in Requests : Enqueue(r)) /\ ~Pop /\ ~AppendEvent /\ ~Boot
    <2>1. UNCHANGED <<ring, taken, emitted, pending>>
      BY <1>7, Steps DEF Arrive, InsertClientId, AbandonInsert, RejectBody, Respond,
         SeeEmpty, KeepSpinning, ExitThread, MovePhase, BeginShutdown, AdminStopped,
         SignalMatching, Join, Crash, matchingVars, vars
    <2>2. QED BY <1>6, <2>1
  <1>8. QED BY <1>2, <1>3, <1>4, <1>5, <1>7

\* Every step keeps the types of the matching loop.
LEMMA LoopStep == Inv /\ [Next]_vars => LoopTypes'
  <1> SUFFICES ASSUME Inv, [Next]_vars PROVE LoopTypes' OBVIOUS
  <1>1. LoopTypes /\ QueueTypes BY Types DEF Inv
  <1>2. CASE UNCHANGED <<phase, mpc, pending, boots, ioError>>
    BY <1>1, <1>2 DEF LoopTypes, Up
  <1>3. ASSUME NEW r \in Requests,
               \/ Arrive(r) \/ InsertClientId(r) \/ AbandonInsert(r)
               \/ RejectBody(r) \/ Enqueue(r) \/ Respond(r)
        PROVE  LoopTypes'
    BY <1>2, <1>3 DEF Arrive, InsertClientId, AbandonInsert, RejectBody, Enqueue, Respond,
       matchingVars, logVars
  <1>4. CASE Pop
    <2>1. ring # << >> BY <1>4 DEF Pop, Ring!Dequeue
    <2>2. PICK n \in EventCounts :
             /\ pending' = [k \in 1 .. n |-> Record(Head(ring), k)]
             /\ mpc' = IF n = 0 THEN "pop" ELSE "append"
      BY <1>4 DEF Pop
    <2>3. Head(ring) \in Requests BY <1>1, <2>1 DEF QueueTypes
    <2>4. Len(pending') = n /\ pending' \in Seq(Records) BY <2>2, <2>3, EventRecords
    <2>5. mpc' = "append" <=> pending' # << >> BY <2>2, <2>4, ServerAssumption
    <2>6. UNCHANGED <<phase, boots, ioError>> BY <1>4 DEF Pop, logVars
    <2>7. QED BY <1>1, <2>2, <2>5, <2>6 DEF LoopTypes
  <1>5. CASE AppendEvent
    <2>1. Up /\ mpc = "append" /\ UNCHANGED <<phase, boots, ioError>> BY <1>5 DEF AppendEvent
    <2>2. pending # << >> /\ pending \in Seq(Records)
      BY <1>1, <2>1 DEF LoopTypes, QueueTypes
    <2>3. pending' = Tail(pending) /\ mpc' = IF Len(pending) = 1 THEN "pop" ELSE "append"
      BY <1>5 DEF AppendEvent
    <2>4. pending' \in Seq(Records) /\ Len(pending') = Len(pending) - 1
      BY <2>2, <2>3, HeadTailProperties
    <2>5. Len(pending') = 0 <=> pending' = << >> BY <2>4, EmptySeq
    <2>6. Len(pending) = 1 <=> pending' = << >> BY <2>2, <2>4, <2>5
    <2>7. mpc' = "append" <=> pending' # << >> BY <2>3, <2>6
    <2>8. QED BY <1>1, <2>1, <2>3, <2>7 DEF LoopTypes
  <1>6. ASSUME mpc # "append", mpc' \in {"pop", "empty", "exited"}, Up,
               UNCHANGED <<phase, pending, boots>>, ioError' \in BOOLEAN
        PROVE  LoopTypes'
    BY <1>1, <1>6 DEF LoopTypes
  <1>7. CASE SeeEmpty BY <1>1, <1>6, <1>7 DEF SeeEmpty, LoopTypes, logVars
  <1>8. CASE KeepSpinning BY <1>1, <1>6, <1>8 DEF KeepSpinning, LoopTypes, logVars
  <1>9. CASE ExitThread BY <1>1, <1>6, <1>9 DEF ExitThread, LoopTypes
  <1>10. ASSUME Up, phase' \in {"stopAdmin", "stopMain", "join", "stopped", "crashed"},
                UNCHANGED <<mpc, pending, boots, ioError>>
         PROVE  LoopTypes'
    BY <1>1, <1>10 DEF LoopTypes
  <1>11. CASE BeginShutdown \/ AdminStopped \/ SignalMatching
    BY <1>10, <1>11 DEF BeginShutdown, AdminStopped, SignalMatching, MovePhase, Up,
       matchingVars, logVars
  <1>12. CASE Join BY <1>10, <1>12 DEF Join, Up, matchingVars
  <1>13. CASE Crash BY <1>10, <1>13 DEF Crash, matchingVars
  <1>14. CASE Boot
    <2>1. boots' \in 1 .. MaxBoots BY <1>1, <1>14, ServerAssumption DEF Boot, LoopTypes
    <2>2. QED BY <1>14, <2>1 DEF Boot, LoopTypes
  <1>15. CASE UNCHANGED vars BY <1>2, <1>15 DEF vars, matchingVars, logVars
  <1>16. QED
    BY <1>3, <1>4, <1>5, <1>7, <1>8, <1>9, <1>11, <1>12, <1>13, <1>14, <1>15, Steps

-----------------------------------------------------------------------------
(* The log.                                                                *)

\* A sequence cut after n elements.
LEMMA Cut ==
    ASSUME NEW S, NEW s \in Seq(S), NEW n \in 0 .. Len(s)
    PROVE  /\ SubSeq(s, 1, n) \in Seq(S)
           /\ Len(SubSeq(s, 1, n)) = n
           /\ \A i \in 1 .. n : SubSeq(s, 1, n)[i] = s[i]
  OBVIOUS

\* What is left on disk when the process ends: all that was flushed.
LEMMA OnDisk ==
    ASSUME LogTypes, LogInv, Up, LeaveOnDisk, phase' \in {"stopped", "crashed"},
           UNCHANGED <<durable, unflushed, base>>
    PROVE  /\ LogTypes' /\ LogInv'
           /\ \A i \in 1 .. durable : file'[i] = file[i]
  <1> DEFINE R == Records \cup {Torn}
  <1>1. file \in Seq(R) /\ durable \in 0 .. Len(file) BY DEF LogTypes
  <1>2. \A i \in 1 .. Len(file) : file[i] # Torn BY DEF LogInv
  <1>3. PICK n \in durable .. Len(file) :
           \/ file' = SubSeq(file, 1, n)
           \/ n < Len(file) /\ file' = Append(SubSeq(file, 1, n), Torn)
    BY DEF LeaveOnDisk, Survive
  <1> DEFINE cut == SubSeq(file, 1, n)
  <1>4. n \in 0 .. Len(file) /\ n >= durable BY <1>1
  <1>5. cut \in Seq(R) /\ Len(cut) = n /\ \A i \in 1 .. n : cut[i] = file[i]
    BY <1>1, <1>4, Cut
  <1> HIDE DEF cut
  <1>6. /\ file' \in Seq(R) /\ Len(file') >= durable
        /\ \A i \in 1 .. n : file'[i] = file[i]
        /\ \A i \in 1 .. Len(file') : file'[i] = Torn => i = Len(file')
    <2>1. CASE file' = cut
      BY <1>1, <1>2, <1>4, <1>5, <2>1
    <2>2. CASE file' = Append(cut, Torn)
      <3>1. Torn \in R OBVIOUS
      <3> HIDE DEF R
      <3>2. /\ file' \in Seq(R) /\ Len(file') = n + 1 /\ file'[n + 1] = Torn
            /\ \A i \in 1 .. n : file'[i] = cut[i]
        BY <1>5, <2>2, <3>1, AppendProperties
      <3>3. QED BY <1>1, <1>2, <1>4, <1>5, <3>2, SMTT(30)
    <2>3. QED BY <1>3, <2>1, <2>2 DEF cut
  <1>7. \A i \in 1 .. durable : file'[i] = file[i] BY <1>1, <1>4, <1>6
  <1>8. LogTypes' BY <1>1, <1>6 DEF LogTypes
  <1>9. LogInv' BY <1>1, <1>2, <1>6, <1>7 DEF LogInv, Up
  <1>10. QED BY <1>7, <1>8, <1>9

\* What one step does to the log, and that it keeps the flushed records.
LEMMA LogStep ==
    Inv /\ [Next]_vars =>
        /\ LogTypes' /\ LogInv'
        /\ durable' >= durable
        /\ durable <= Len(file')
        /\ \A i \in 1 .. durable : file'[i] = file[i]
  <1> DEFINE Goal == /\ LogTypes' /\ LogInv'
                     /\ durable' >= durable
                     /\ durable <= Len(file')
                     /\ \A i \in 1 .. durable : file'[i] = file[i]
  <1> SUFFICES ASSUME Inv, [Next]_vars PROVE Goal OBVIOUS
  <1>1. LogTypes /\ LogInv /\ LoopTypes /\ QueueTypes BY Types DEF Inv
  <1>2. durable \in Nat /\ durable <= Len(file) /\ Len(file) \in Nat BY <1>1 DEF LogTypes
  <1>3. ASSUME UNCHANGED <<file, durable, unflushed, base>>, Up' = Up PROVE Goal
    <2>1. LogTypes' BY <1>1, <1>3 DEF LogTypes
    <2>2. LogInv' BY <1>1, <1>3 DEF LogInv
    <2>3. QED BY <1>2, <1>3, <2>1, <2>2
  <1>4. ASSUME NEW r \in Requests,
               \/ Arrive(r) \/ InsertClientId(r) \/ AbandonInsert(r)
               \/ RejectBody(r) \/ Enqueue(r) \/ Respond(r)
        PROVE  Goal
    BY <1>3, <1>4 DEF Arrive, InsertClientId, AbandonInsert, RejectBody, Enqueue, Respond,
       logVars, Up
  <1>5. CASE Pop \/ SeeEmpty \/ KeepSpinning
    BY <1>3, <1>5 DEF Pop, SeeEmpty, KeepSpinning, logVars, Up
  <1>6. CASE AppendEvent
    <2>1. Up /\ mpc = "append" /\ phase' = phase BY <1>6 DEF AppendEvent
    <2>2. pending # << >> /\ pending \in Seq(Records)
      BY <1>1, <2>1 DEF LoopTypes, QueueTypes
    <2>3. Head(pending) \in Records /\ Head(pending) # Torn
      BY <2>2 DEF Records, Record, Torn
    <2>4. file' = Append(file, Head(pending)) /\ base' = base BY <1>6 DEF AppendEvent
    <2>5. /\ file' \in Seq(Records \cup {Torn}) /\ Len(file') = Len(file) + 1
          /\ \A i \in 1 .. Len(file) : file'[i] = file[i]
          /\ file'[Len(file) + 1] # Torn
      BY <1>1, <2>3, <2>4, AppendProperties DEF LogTypes
    <2>6. durable' \in {Len(file'), Len(file), durable} /\ unflushed' \in 0 .. FlushEvery - 1
      <3>1. PICK rotate \in BOOLEAN :
               LET since == IF rotate THEN 1 ELSE unflushed + 1 IN
               /\ unflushed' = IF since >= FlushEvery THEN 0 ELSE since
               /\ durable' = IF since >= FlushEvery THEN Len(file')
                             ELSE IF rotate THEN Len(file) ELSE durable
        BY <1>6 DEF AppendEvent
      <3>2. CASE rotate = TRUE BY <1>1, <3>1, <3>2, ServerAssumption DEF LogTypes
      <3>3. CASE rotate = FALSE BY <1>1, <3>1, <3>3, ServerAssumption DEF LogTypes
      <3>4. QED BY <3>1, <3>2, <3>3
    <2>7. LogTypes' BY <1>1, <1>2, <2>4, <2>5, <2>6 DEF LogTypes
    <2>8. \A i \in 1 .. Len(file) + 1 : file'[i] # Torn
      BY <1>1, <1>2, <2>1, <2>5 DEF LogInv
    <2>9. LogInv' BY <1>2, <2>5, <2>6, <2>8 DEF LogInv
    <2>10. durable' >= durable /\ durable <= Len(file') BY <1>2, <2>5, <2>6
    <2>11. QED BY <1>2, <2>5, <2>7, <2>9, <2>10
  <1>7. CASE ExitThread
    <2>1. UNCHANGED <<file, base, phase>> BY <1>7 DEF ExitThread
    <2>2. \/ durable' = Len(file) /\ unflushed' = 0
          \/ UNCHANGED <<durable, unflushed>>
      BY <1>7 DEF ExitThread
    <2>3. Up BY <1>7 DEF ExitThread
    <2>4. LogTypes' BY <1>1, <1>2, <2>1, <2>2, ServerAssumption DEF LogTypes
    <2>5. LogInv' BY <1>1, <1>2, <2>1, <2>2, <2>3 DEF LogInv, Up
    <2>6. QED BY <1>2, <2>1, <2>2, <2>4, <2>5
  <1>8. CASE BeginShutdown \/ AdminStopped \/ SignalMatching
    BY <1>3, <1>8 DEF BeginShutdown, AdminStopped, SignalMatching, MovePhase, Up, logVars
  <1>9. CASE Join \/ Crash
    <2>1. Up /\ LeaveOnDisk /\ phase' \in {"stopped", "crashed"}
          /\ UNCHANGED <<durable, unflushed, base>>
      BY <1>9 DEF Join, Crash, Up
    <2>2. /\ LogTypes' /\ LogInv'
          /\ \A i \in 1 .. durable : file'[i] = file[i]
      BY <1>1, <2>1, OnDisk
    <2>3. durable' = durable /\ durable' <= Len(file') BY <2>1, <2>2 DEF LogTypes
    <2>4. QED BY <1>2, <2>2, <2>3
  <1>10. CASE Boot
    <2>1. /\ ~Up /\ phase' = "serving" /\ file' = Recovered(file) /\ base' = Len(file')
          /\ durable' = IF file' = file THEN durable ELSE Len(file')
          /\ unflushed' = 0
      BY <1>10 DEF Boot
    <2>2. CASE file # << >> /\ file[Len(file)] = Torn
      <3>1. file' = SubSeq(file, 1, Len(file) - 1) BY <2>1, <2>2 DEF Recovered
      <3>2. Len(file) - 1 \in 0 .. Len(file) BY <1>1, <2>2 DEF LogTypes
      <3>3. /\ file' \in Seq(Records \cup {Torn}) /\ Len(file') = Len(file) - 1
            /\ \A i \in 1 .. Len(file) - 1 : file'[i] = file[i]
        BY <1>1, <3>1, <3>2, Cut DEF LogTypes
      <3>4. durable <= Len(file) - 1 BY <1>1, <1>2, <2>2, <3>2 DEF LogInv
      <3>5. durable' = Len(file) - 1
        <4>1. file' # file BY <1>2, <3>3
        <4>2. QED BY <2>1, <3>3, <4>1
      <3>6. LogTypes' BY <1>2, <2>1, <3>2, <3>3, <3>5, ServerAssumption DEF LogTypes
      <3>7. \A i \in 1 .. Len(file') : file'[i] # Torn BY <1>1, <1>2, <3>3 DEF LogInv
      <3>8. LogInv' BY <3>3, <3>5, <3>7 DEF LogInv
      <3>9. QED BY <1>2, <3>3, <3>4, <3>5, <3>6, <3>8
    <2>3. CASE ~(file # << >> /\ file[Len(file)] = Torn)
      <3>1. file' = file /\ durable' = durable BY <2>1, <2>3 DEF Recovered
      <3>2. \A i \in 1 .. Len(file) : file[i] # Torn BY <1>1, <1>2, <2>3 DEF LogInv
      <3>3. LogTypes' BY <1>1, <1>2, <2>1, <3>1, ServerAssumption DEF LogTypes
      <3>4. LogInv' BY <1>2, <3>1, <3>2 DEF LogInv
      <3>5. QED BY <1>2, <3>1, <3>3, <3>4
    <2>4. QED BY <2>2, <2>3
  <1>11. CASE UNCHANGED vars BY <1>3, <1>11 DEF vars, logVars, Up
  <1>12. QED BY <1>4, <1>5, <1>6, <1>7, <1>8, <1>9, <1>10, <1>11, Steps

-----------------------------------------------------------------------------
(* The dedup gate.                                                         *)

LEMMA PendingStep == Inv /\ [Next]_vars => PendingInv'
  <1> SUFFICES ASSUME Inv, [Next]_vars PROVE PendingInv' OBVIOUS
  <1>1. PendingInv /\ QueueTypes /\ LoopTypes BY Types DEF Inv
  <1>2. CASE UNCHANGED <<pending, taken>> BY <1>1, <1>2 DEF PendingInv
  <1>3. CASE Pop
    <2>1. ring # << >> /\ taken' = Append(taken, Head(ring)) BY <1>3 DEF Pop, Ring!Dequeue
    <2>2. PICK n \in EventCounts : pending' = [k \in 1 .. n |-> Record(Head(ring), k)]
      BY <1>3 DEF Pop
    <2>3. Head(ring) \in Requests BY <1>1, <2>1 DEF QueueTypes
    <2>4. Len(pending') = n BY <2>2, <2>3, EventRecords
    <2>5. taken'[Len(taken) + 1] = Head(ring) /\ Len(taken) + 1 \in 1 .. Len(taken')
      BY <1>1, <2>1, <2>3, AppendProperties DEF QueueTypes
    <2>6. \A k \in 1 .. Len(pending') : pending'[k].request = Head(ring)
      BY <2>2, <2>4 DEF Record
    <2>7. QED BY <2>5, <2>6 DEF PendingInv
  <1>4. CASE AppendEvent
    <2>1. pending # << >> /\ pending' = Tail(pending) /\ taken' = taken
      BY <1>1, <1>4 DEF AppendEvent, LoopTypes
    <2>2. /\ Len(pending') = Len(pending) - 1 /\ Len(pending) \in Nat
          /\ \A k \in 1 .. Len(pending') : pending'[k] = pending[k + 1]
      BY <1>1, <2>1, HeadTailProperties DEF QueueTypes
    <2>3. QED BY <1>1, <2>1, <2>2 DEF PendingInv
  <1>5. CASE Boot BY <1>5 DEF Boot, PendingInv
  <1>6. CASE ~Pop /\ ~AppendEvent /\ ~Boot
    <2>1. UNCHANGED <<pending, taken>>
      BY <1>6, Steps DEF Arrive, InsertClientId, AbandonInsert, RejectBody, Enqueue, Respond,
         Ring!Enqueue, SeeEmpty, KeepSpinning, ExitThread, MovePhase, BeginShutdown,
         AdminStopped, SignalMatching, Join, Crash, matchingVars, vars
    <2>2. QED BY <1>2, <2>1
  <1>7. QED BY <1>3, <1>4, <1>5, <1>6

\* A step that lets nobody through the gate keeps it shut.
LEMMA GateKept ==
    ASSUME GateInv, clientIds \subseteq clientIds',
           \A r \in Requests : status'[r] = "inserting" => Coid[r] # None,
           \A r \in Requests : Passed(r)' /\ Coid[r] # None => Passed(r)
    PROVE  GateInv'
  BY DEF GateInv

\* Every step keeps at most one request past the check of a client id (place_order).
LEMMA GateStep == Inv /\ [Next]_vars => GateInv'
  <1> SUFFICES ASSUME Inv, [Next]_vars PROVE GateInv' OBVIOUS
  <1>1. HandlerTypes /\ QueueTypes /\ LoopTypes /\ LogTypes /\ GateInv /\ PendingInv
    BY Types DEF Inv
  \* An answer, or a first step past no gate.
  <1>2. ASSUME NEW r \in Requests, NEW s, Becomes(r, s), UNCHANGED <<ring, taken, file>>,
               clientIds \subseteq clientIds', s = "inserting" => Coid[r] # None,
               s \in {"pushed", "ok", "building"} /\ Coid[r] # None => Passed(r)
        PROVE  GateInv'
    <2>1. \A q \in Requests : status'[q] = IF q = r THEN s ELSE status[q]
      BY <1>1, <1>2 DEF HandlerTypes, Becomes
    <2>2. \A q \in Requests : status'[q] = "inserting" => Coid[q] # None
      BY <1>1, <1>2, <2>1 DEF GateInv
    <2>3. \A q \in Requests : Passed(q)' /\ Coid[q] # None => Passed(q)
      BY <1>2, <2>1 DEF Passed, Reached
    <2>4. QED BY <1>1, <1>2, <2>2, <2>3, GateKept
  <1>3. ASSUME NEW r \in Requests, Arrive(r) PROVE GateInv'
    <2>1. Becomes(r, IF Coid[r] = None THEN "building" ELSE "inserting")
          /\ UNCHANGED <<ring, taken, file, clientIds>>
      BY <1>3 DEF Arrive, matchingVars, logVars
    <2>2. CASE Coid[r] = None BY <1>2, <2>1, <2>2
    <2>3. CASE Coid[r] # None BY <1>2, <2>1, <2>3
    <2>4. QED BY <2>2, <2>3
  <1>4. ASSUME NEW r \in Requests, InsertClientId(r) PROVE GateInv'
    <2>1. /\ status[r] = "inserting" /\ UNCHANGED <<ring, taken, file>>
          /\ Becomes(r, IF Coid[r] \in clientIds THEN "duplicate" ELSE "building")
          /\ clientIds' = clientIds \cup {Coid[r]}
      BY <1>4 DEF InsertClientId, matchingVars, logVars
    <2>2. CASE Coid[r] \in clientIds BY <1>2, <2>1, <2>2
    <2>3. CASE Coid[r] \notin clientIds
      <3>1. Coid[r] # None BY <1>1, <2>1 DEF GateInv
      <3>2. \A q \in Requests : status'[q] = IF q = r THEN "building" ELSE status[q]
        BY <1>1, <2>1, <2>3 DEF HandlerTypes, Becomes
      <3>3. \A q \in Requests : q # r /\ Passed(q)' => Passed(q)
        BY <2>1, <3>2 DEF Passed, Reached
      <3>4. \A q \in Requests : Passed(q) /\ Coid[q] # None => Coid[q] # Coid[r]
        BY <1>1, <2>3 DEF GateInv
      <3>5. \A q \in Requests : status'[q] = "inserting" => Coid[q] # None
        BY <1>1, <3>2 DEF GateInv
      <3>6. \A q \in Requests : Coid[q] # None /\ Passed(q)' => Coid[q] \in clientIds'
        BY <1>1, <2>1, <3>3 DEF GateInv
      <3>7. \A p, q \in Requests :
               p # q /\ Coid[p] = Coid[q] /\ Coid[p] # None => ~(Passed(p)' /\ Passed(q)')
        BY <1>1, <3>3, <3>4 DEF GateInv
      <3>8. QED BY <3>5, <3>6, <3>7 DEF GateInv
    <2>4. QED BY <2>2, <2>3
  <1>5. ASSUME NEW r \in Requests, AbandonInsert(r) PROVE GateInv'
    <2>1. PICK answer \in {"unavailable", "cut"} : Becomes(r, answer)
      BY <1>5 DEF AbandonInsert
    <2>2. UNCHANGED <<ring, taken, file>> /\ clientIds \subseteq clientIds'
      BY <1>5 DEF AbandonInsert, matchingVars, logVars
    <2>3. QED BY <1>2, <2>1, <2>2
  <1>6. ASSUME NEW r \in Requests, RejectBody(r) PROVE GateInv'
    BY <1>2, <1>6 DEF RejectBody, matchingVars, logVars
  <1>7. ASSUME NEW r \in Requests, Enqueue(r) PROVE GateInv'
    <2>1. Passed(r) /\ UNCHANGED <<file, clientIds>> BY <1>7 DEF Enqueue, Passed, logVars
    <2>2. CASE Ring!Enqueue(r) /\ Becomes(r, "pushed")
      <3>1. ring' = Append(ring, r) /\ taken' = taken BY <2>2 DEF Ring!Enqueue
      <3>2. /\ Len(ring') = Len(ring) + 1 /\ Len(ring) \in Nat /\ ring'[Len(ring) + 1] = r
            /\ \A i \in 1 .. Len(ring) : ring'[i] = ring[i]
        BY <1>1, <3>1, AppendProperties DEF QueueTypes
      <3>3. \A q \in Requests : status'[q] = IF q = r THEN "pushed" ELSE status[q]
        BY <1>1, <2>2 DEF HandlerTypes, Becomes
      <3>4. \A q \in Requests : Passed(q)' => Passed(q)
        <4>1. \A q : (\E i \in 1 .. Len(ring') : ring'[i] = q)
                        => q = r \/ \E i \in 1 .. Len(ring) : ring[i] = q
          BY <3>2
        <4>2. QED BY <2>1, <3>1, <3>3, <4>1 DEF Passed, Reached
      <3>5. \A q \in Requests : status'[q] = "inserting" => Coid[q] # None
        BY <1>1, <3>3 DEF GateInv
      <3>6. QED BY <1>1, <2>1, <3>4, <3>5, GateKept
    <2>3. CASE Becomes(r, "rateLimited") /\ UNCHANGED <<ring, taken>>
      BY <1>2, <2>1, <2>3
    <2>4. QED BY <1>7, <2>2, <2>3 DEF Enqueue
  <1>8. ASSUME NEW r \in Requests, Respond(r) PROVE GateInv'
    BY <1>2, <1>8 DEF Respond, Passed, Reached, matchingVars, logVars
  \* A step of somebody else moves a command from the ring to the log at most.
  <1>9. ASSUME UNCHANGED handlerVars, \A r \in Requests : Reached(r)' => Reached(r)
        PROVE  GateInv'
    BY <1>1, <1>9, GateKept DEF handlerVars, Passed, GateInv
  <1>10. CASE Pop
    <2>1. /\ ring # << >> /\ ring' = Tail(ring) /\ taken' = Append(taken, Head(ring))
          /\ UNCHANGED handlerVars /\ file' = file /\ status' = status
      BY <1>10 DEF Pop, Ring!Dequeue, logVars, handlerVars
    <2>2. /\ Len(ring') = Len(ring) - 1 /\ Len(ring) \in Nat \ {0}
          /\ \A i \in 1 .. Len(ring') : ring'[i] = ring[i + 1]
          /\ Head(ring) = ring[1] /\ Head(ring) \in Requests
      BY <1>1, <2>1, HeadTailProperties, EmptySeq DEF QueueTypes
    <2>3. /\ Len(taken') = Len(taken) + 1 /\ Len(taken) \in Nat
          /\ taken'[Len(taken) + 1] = ring[1]
          /\ \A i \in 1 .. Len(taken) : taken'[i] = taken[i]
      BY <1>1, <2>1, <2>2, AppendProperties DEF QueueTypes
    <2>4. \A r : (\E i \in 1 .. Len(ring') : ring'[i] = r)
                    => \E i \in 1 .. Len(ring) : ring[i] = r
      BY <2>2
    <2>5. \A r : (\E i \in 1 .. Len(taken') : taken'[i] = r)
                    => (\E i \in 1 .. Len(ring) : ring[i] = r)
                       \/ \E i \in 1 .. Len(taken) : taken[i] = r
      BY <2>2, <2>3
    <2>6. \A r \in Requests : Reached(r)' => Reached(r) BY <2>1, <2>4, <2>5 DEF Reached
    <2>7. QED BY <1>9, <2>1, <2>6
  <1>11. CASE AppendEvent
    <2>1. /\ Up /\ mpc = "append" /\ file' = Append(file, Head(pending))
          /\ UNCHANGED handlerVars /\ status' = status /\ ring' = ring /\ taken' = taken
      BY <1>11 DEF AppendEvent, handlerVars
    <2>2. pending # << >> /\ pending \in Seq(Records)
      BY <1>1, <2>1 DEF LoopTypes, QueueTypes
    <2>3. Head(pending) = pending[1] /\ Head(pending) \in Records /\ 1 \in 1 .. Len(pending)
      BY <2>2, HeadTailProperties, EmptySeq
    <2>4. \E i \in 1 .. Len(taken) : taken[i] = Head(pending).request
      BY <1>1, <2>3 DEF PendingInv
    <2>5. /\ Len(file') = Len(file) + 1 /\ Len(file) \in Nat
          /\ file'[Len(file) + 1] = Head(pending)
          /\ \A i \in 1 .. Len(file) : file'[i] = file[i]
      BY <1>1, <2>1, <2>3, AppendProperties DEF LogTypes
    <2>6. \A r \in Requests : Reached(r)' => Reached(r) BY <2>1, <2>4, <2>5 DEF Reached
    <2>7. QED BY <1>9, <2>1, <2>6
  <1>12. CASE SeeEmpty \/ KeepSpinning \/ ExitThread \/ BeginShutdown \/ AdminStopped
              \/ SignalMatching \/ UNCHANGED vars
    <2>1. UNCHANGED <<status, clientIds, ring, taken, file>>
      BY <1>12 DEF SeeEmpty, KeepSpinning, ExitThread, BeginShutdown, AdminStopped,
         SignalMatching, MovePhase, handlerVars, matchingVars, logVars, vars
    <2>2. QED BY <1>9, <2>1 DEF Reached, handlerVars
  \* Nor does a crash or a boot put a command into the log.
  <1>13. ASSUME \A i \in 1 .. Len(file') : file'[i] = Torn \/ (i \in 1 .. Len(file) /\ file'[i] = file[i]),
                status' = [r \in Requests |-> IF status[r] \in InFlight THEN "cut" ELSE status[r]]
                    \/ status' = status,
                clientIds' = clientIds,
                UNCHANGED <<ring, taken>> \/ (ring' = << >> /\ taken' = << >>)
         PROVE  GateInv'
    <2>1. \A r \in Requests : (\E i \in 1 .. Len(file') : file'[i].request = r)
                                => \E i \in 1 .. Len(file) : file[i].request = r
      BY <1>13, ServerAssumption DEF Torn
    <2>2. \A r \in Requests : status'[r] \in {"cut", status[r]}
      BY <1>13
    <2>3. \A r \in Requests : Passed(r)' => Passed(r)
      BY <1>13, <2>1, <2>2 DEF Passed, Reached
    <2>4. \A r \in Requests : status'[r] = "inserting" => Coid[r] # None
      BY <1>1, <2>2 DEF GateInv
    <2>5. QED BY <1>1, <1>13, <2>3, <2>4, GateKept
  <1>14. ASSUME Up, LeaveOnDisk
         PROVE  \A i \in 1 .. Len(file') :
                   file'[i] = Torn \/ (i \in 1 .. Len(file) /\ file'[i] = file[i])
    <2>1. PICK n \in 0 .. Len(file) :
             \/ file' = SubSeq(file, 1, n)
             \/ n < Len(file) /\ file' = Append(SubSeq(file, 1, n), Torn)
      BY <1>14 DEF LeaveOnDisk
    <2> DEFINE cut == SubSeq(file, 1, n)
    <2>2. cut \in Seq(Records \cup {Torn}) /\ Len(cut) = n /\ \A i \in 1 .. n : cut[i] = file[i]
      BY <1>1, Cut DEF LogTypes
    <2>3. Len(file) \in Nat BY <1>1 DEF LogTypes
    <2> HIDE DEF cut
    <2>4. CASE file' = cut BY <2>2, <2>3, <2>4
    <2>5. CASE file' = Append(cut, Torn)
      <3> DEFINE R == Records \cup {Torn}
      <3>1. cut \in Seq(R) /\ Torn \in R BY <2>2
      <3> HIDE DEF R
      <3>2. /\ Len(file') = n + 1 /\ file'[n + 1] = Torn
            /\ \A i \in 1 .. n : file'[i] = cut[i]
        BY <2>2, <2>5, <3>1, AppendProperties
      <3>3. QED BY <2>2, <2>3, <3>2
    <2>6. QED BY <2>1, <2>4, <2>5 DEF cut
  <1>15. CASE Join \/ Crash
    BY <1>13, <1>14, <1>15 DEF Join, Crash, Up, handlerVars, matchingVars
  <1>16. CASE Boot
    <2>1. file' = Recovered(file) /\ ring' = << >> /\ taken' = << >> /\ UNCHANGED handlerVars
      BY <1>16 DEF Boot
    <2>2. \A i \in 1 .. Len(file') :
             file'[i] = Torn \/ (i \in 1 .. Len(file) /\ file'[i] = file[i])
      <3>1. CASE file # << >> /\ file[Len(file)] = Torn
        <4>1. file' = SubSeq(file, 1, Len(file) - 1) BY <2>1, <3>1 DEF Recovered
        <4>2. Len(file) - 1 \in 0 .. Len(file) BY <1>1, <3>1 DEF LogTypes
        <4>3. QED BY <1>1, <4>1, <4>2, Cut DEF LogTypes
      <3>2. CASE ~(file # << >> /\ file[Len(file)] = Torn)
        BY <2>1, <3>2 DEF Recovered
      <3>3. QED BY <3>1, <3>2
    <2>3. QED BY <1>13, <2>1, <2>2 DEF handlerVars
  <1>17. QED
    BY <1>3, <1>4, <1>5, <1>6, <1>7, <1>8, <1>10, <1>11, <1>12, <1>15, <1>16, Steps

-----------------------------------------------------------------------------
(* Shutdown.                                                               *)

LEMMA StopStep == Inv /\ [Next]_vars => StopInv'
  <1> SUFFICES ASSUME Inv, [Next]_vars, phase' = "join" PROVE Idle(Requests)'
    BY DEF StopInv
  <1>1. StopInv /\ HandlerTypes BY Types DEF Inv
  <1>2. CASE phase = "join"
    <2>1. \A r \in Requests : status[r] \notin InFlight BY <1>1, <1>2 DEF StopInv, Idle
    <2>2. status' = status
      <3>1. \A r \in Requests : ~Arrive(r) BY <1>2 DEF Arrive, Accepts
      <3>2. \A r \in Requests : ~(\/ InsertClientId(r) \/ AbandonInsert(r) \/ RejectBody(r)
                                  \/ Enqueue(r) \/ Respond(r))
        BY <2>1 DEF InsertClientId, AbandonInsert, RejectBody, Enqueue, Respond, InFlight
      <3>3. ~Crash BY DEF Crash
      <3>4. QED
        BY <3>1, <3>2, <3>3, Steps DEF Pop, AppendEvent, SeeEmpty, KeepSpinning, ExitThread,
           MovePhase, BeginShutdown, AdminStopped, SignalMatching, Join, Boot, handlerVars, vars
    <2>3. QED BY <2>1, <2>2 DEF Idle
  <1>3. CASE phase # "join"
    <2>1. SignalMatching
      BY <1>3, Steps DEF Arrive, InsertClientId, AbandonInsert, RejectBody, Enqueue, Respond,
         Pop, AppendEvent, SeeEmpty, KeepSpinning, ExitThread, MovePhase, BeginShutdown,
         AdminStopped, Join, Crash, Boot, vars
    <2>2. Idle(Requests) /\ status' = status
      BY <2>1 DEF SignalMatching, MovePhase, handlerVars
    <2>3. QED BY <2>2 DEF Idle
  <1>4. QED BY <1>2, <1>3

\* Once the flag is up the ring is only read: what could push is not running.
LEMMA QuietStep == Inv /\ [Next]_vars => (ShutdownFlag => Len(ring') <= Len(ring))
  <1> SUFFICES ASSUME Inv, [Next]_vars, phase = "join" PROVE Len(ring') <= Len(ring)
    BY DEF ShutdownFlag
  <1>1. QueueTypes /\ StopInv BY Types DEF Inv
  <1>2. Len(ring) \in Nat BY <1>1 DEF QueueTypes
  <1>3. CASE Pop
    BY <1>1, <1>3 DEF Pop, Ring!Dequeue, QueueTypes
  <1>4. CASE ~Pop
    <2>1. \A r \in Requests : ~Enqueue(r)
      BY <1>1 DEF StopInv, Idle, Enqueue, InFlight
    <2>2. ~Boot BY DEF Boot, Up
    <2>3. ring' = ring
      BY <1>4, <2>1, <2>2, Steps DEF Arrive, InsertClientId, AbandonInsert, RejectBody, Respond,
         AppendEvent, SeeEmpty, KeepSpinning, ExitThread, MovePhase, BeginShutdown,
         AdminStopped, SignalMatching, Join, Crash, vars
    <2>4. QED BY <1>2, <2>3
  <1>5. QED BY <1>3, <1>4

-----------------------------------------------------------------------------
(* What the log follows: the commands popped.                              *)

Unpushed == {"unsent", "inserting", "building"}

\* Every step keeps commands pushed at most once.
LEMMA PushedOnceStep == Inv /\ PushedOnceInv /\ [Next]_vars => PushedOnceInv'
  <1> SUFFICES ASSUME Inv, PushedOnceInv, [Next]_vars PROVE PushedOnceInv' OBVIOUS
  <1> USE DEF Unpushed
  <1>1. HandlerTypes /\ QueueTypes BY Types DEF Inv
  <1>2. /\ Len(ring) \in Nat /\ \A i \in 1 .. Len(ring) : ring[i] \in Requests
        /\ Len(taken) \in Nat /\ \A i \in 1 .. Len(taken) : taken[i] \in Requests
    BY <1>1 DEF QueueTypes
  \* A handler that moves on, other than by a push.
  <1>3. ASSUME \A q \in Requests : status[q] \notin Unpushed => status'[q] \notin Unpushed,
               UNCHANGED <<ring, taken>>
        PROVE  PushedOnceInv'
    BY <1>2, <1>3 DEF PushedOnceInv
  <1>4. ASSUME NEW r \in Requests, NEW s, Becomes(r, s), UNCHANGED <<ring, taken>>,
               status[r] \in Unpushed \/ s \notin Unpushed
        PROVE  PushedOnceInv'
    <2>1. \A q \in Requests : status'[q] = IF q = r THEN s ELSE status[q]
      BY <1>1, <1>4 DEF HandlerTypes, Becomes
    <2>2. QED BY <1>3, <1>4, <2>1
  <1>5. ASSUME NEW r \in Requests,
               \/ Arrive(r) \/ InsertClientId(r) \/ AbandonInsert(r)
               \/ RejectBody(r) \/ Respond(r)
        PROVE  PushedOnceInv'
    <2>1. PICK s : Becomes(r, s) /\ (status[r] \in Unpushed \/ s \notin Unpushed)
      BY <1>5 DEF Arrive, InsertClientId, AbandonInsert, RejectBody, Respond
    <2>2. UNCHANGED <<ring, taken>>
      BY <1>5 DEF Arrive, InsertClientId, AbandonInsert, RejectBody, Respond, matchingVars
    <2>3. QED BY <1>4, <2>1, <2>2
  <1>6. ASSUME NEW r \in Requests, Enqueue(r) PROVE PushedOnceInv'
    <2>1. status[r] = "building" BY <1>6 DEF Enqueue
    <2>2. CASE Ring!Enqueue(r) /\ Becomes(r, "pushed")
      <3>1. ring' = Append(ring, r) /\ taken' = taken BY <2>2 DEF Ring!Enqueue
      <3>2. /\ Len(ring') = Len(ring) + 1 /\ ring'[Len(ring) + 1] = r
            /\ \A i \in 1 .. Len(ring) : ring'[i] = ring[i]
        BY <1>1, <3>1, AppendProperties DEF QueueTypes
      <3>3. \A q \in Requests : status'[q] = IF q = r THEN "pushed" ELSE status[q]
        BY <1>1, <2>2 DEF HandlerTypes, Becomes
      <3>4. /\ \A i \in 1 .. Len(ring) : ring[i] # r
            /\ \A i \in 1 .. Len(taken) : taken[i] # r
        BY <2>1 DEF PushedOnceInv
      <3>5. \A i \in 1 .. Len(ring') : i = Len(ring) + 1 \/ i \in 1 .. Len(ring)
        BY <1>2, <3>2
      <3>6. \A i, j \in 1 .. Len(ring') : ring'[i] = ring'[j] => i = j
        BY <3>2, <3>4, <3>5 DEF PushedOnceInv
      <3>7. \A i \in 1 .. Len(ring'), j \in 1 .. Len(taken) : ring'[i] # taken[j]
        BY <3>2, <3>4, <3>5 DEF PushedOnceInv
      <3>8. \A i \in 1 .. Len(ring') : status'[ring'[i]] \notin Unpushed
        BY <1>2, <3>2, <3>3, <3>5 DEF PushedOnceInv
      <3>9. \A i \in 1 .. Len(taken) : status'[taken[i]] \notin Unpushed
        BY <1>2, <3>3 DEF PushedOnceInv
      <3>10. QED BY <3>1, <3>6, <3>7, <3>8, <3>9 DEF PushedOnceInv
    <2>3. CASE Becomes(r, "rateLimited") /\ UNCHANGED <<ring, taken>>
      BY <1>4, <2>3
    <2>4. QED BY <1>6, <2>2, <2>3 DEF Enqueue
  <1>7. CASE Pop
    <2>1. /\ ring # << >> /\ ring' = Tail(ring) /\ taken' = Append(taken, Head(ring))
          /\ status' = status
      BY <1>7 DEF Pop, Ring!Dequeue, handlerVars
    <2>2. /\ Len(ring') = Len(ring) - 1 /\ Len(ring) \in Nat \ {0}
          /\ \A i \in 1 .. Len(ring') : ring'[i] = ring[i + 1]
          /\ Head(ring) = ring[1] /\ Head(ring) \in Requests
      BY <1>1, <2>1, HeadTailProperties, EmptySeq DEF QueueTypes
    <2>3. /\ Len(taken') = Len(taken) + 1
          /\ taken'[Len(taken) + 1] = ring[1]
          /\ \A i \in 1 .. Len(taken) : taken'[i] = taken[i]
      BY <1>1, <2>1, <2>2, AppendProperties DEF QueueTypes
    <2>4. /\ 1 \in 1 .. Len(ring)
          /\ \A i \in 1 .. Len(ring') : i + 1 \in 1 .. Len(ring) /\ i + 1 # 1
      BY <2>2
    <2>5. \A i \in 1 .. Len(taken') : i = Len(taken) + 1 \/ i \in 1 .. Len(taken)
      BY <1>2, <2>3
    <2>6. \A i, j \in 1 .. Len(ring') : ring'[i] = ring'[j] => i = j
      <3>1. SUFFICES ASSUME NEW i \in 1 .. Len(ring'), NEW j \in 1 .. Len(ring'),
                            ring'[i] = ring'[j]
                     PROVE  i = j
        OBVIOUS
      <3>2. i + 1 = j + 1 BY <2>2, <2>4, <3>1 DEF PushedOnceInv
      <3>3. QED BY <3>2
    <2>7. \A i \in 1 .. Len(ring'), j \in 1 .. Len(taken') : ring'[i] # taken'[j]
      <3>1. SUFFICES ASSUME NEW i \in 1 .. Len(ring'), NEW j \in 1 .. Len(taken')
                     PROVE  ring'[i] # taken'[j]
        OBVIOUS
      <3>2. CASE j = Len(taken) + 1
        BY <2>2, <2>3, <2>4, <3>2 DEF PushedOnceInv
      <3>3. CASE j \in 1 .. Len(taken)
        BY <2>2, <2>3, <2>4, <3>3 DEF PushedOnceInv
      <3>4. QED BY <2>5, <3>2, <3>3
    <2>8. \A i \in 1 .. Len(ring') : status'[ring'[i]] \notin Unpushed
      BY <2>1, <2>2, <2>4 DEF PushedOnceInv
    <2>9. \A i \in 1 .. Len(taken') : status'[taken'[i]] \notin Unpushed
      BY <2>1, <2>3, <2>4, <2>5 DEF PushedOnceInv
    <2>10. QED BY <2>6, <2>7, <2>8, <2>9 DEF PushedOnceInv
  <1>8. CASE Crash
    <2>1. \A q \in Requests : status'[q] \in {"cut", status[q]} BY <1>8 DEF Crash
    <2>2. UNCHANGED <<ring, taken>> BY <1>8 DEF Crash, matchingVars
    <2>3. QED BY <1>3, <2>1, <2>2
  <1>9. CASE Boot BY <1>9 DEF Boot, PushedOnceInv
  <1>10. CASE AppendEvent \/ SeeEmpty \/ KeepSpinning \/ ExitThread \/ BeginShutdown
              \/ AdminStopped \/ SignalMatching \/ Join \/ UNCHANGED vars
    <2>1. UNCHANGED <<status, ring, taken>>
      BY <1>10 DEF AppendEvent, SeeEmpty, KeepSpinning, ExitThread, BeginShutdown,
         AdminStopped, SignalMatching, MovePhase, Join, handlerVars, matchingVars, vars
    <2>2. QED BY <1>3, <2>1
  <1>11. QED BY <1>5, <1>6, <1>7, <1>8, <1>9, <1>10, Steps

\* The events of the commands popped, with one more command.
LEMMA EventsOfPopped ==
    ASSUME QueueTypes, NEW r \in Requests, NEW n \in EventCounts,
           \A i \in 1 .. Len(taken) : taken[i] # r,
           taken' = Append(taken, r), emitted' = [emitted EXCEPT ![r] = n]
    PROVE  EventsOf(taken)' = EventsOf(taken) \o [k \in 1 .. n |-> Record(r, k)]
  <1> DEFINE Parts == [i \in 1 .. Len(taken) |->
                          [k \in 1 .. emitted[taken[i]] |-> Record(taken[i], k)]]
             part == [k \in 1 .. n |-> Record(r, k)]
             Longer == [i \in 1 .. Len(taken') |->
                          [k \in 1 .. emitted'[taken'[i]] |-> Record(taken'[i], k)]]
             all == Append(Parts, part)
  <1>1. /\ taken \in Seq(Requests) /\ Len(taken) \in Nat
        /\ \A i \in 1 .. Len(taken) : taken[i] \in Requests
        /\ emitted \in [Requests -> EventCounts \cup {0}]
    BY DEF QueueTypes
  <1>2. /\ Len(taken') = Len(taken) + 1 /\ taken'[Len(taken) + 1] = r
        /\ \A i \in 1 .. Len(taken) : taken'[i] = taken[i]
    BY <1>1, AppendProperties
  <1>3. part \in Seq(Records) BY EventRecords
  <1>4. ASSUME NEW i \in 1 .. Len(taken) PROVE Parts[i] \in Seq(Records)
    <2>1. CASE emitted[taken[i]] \in EventCounts BY <1>1, <2>1, EventRecords
    <2>2. CASE emitted[taken[i]] = 0 BY <2>2
    <2>3. QED BY <1>1, <2>1, <2>2
  <1>5. Parts \in Seq(Seq(Records)) /\ Len(Parts) = Len(taken) BY <1>1, <1>4
  <1>6. Longer = all
    <2>1. all \in Seq(Seq(Records)) /\ Len(all) = Len(taken) + 1
          /\ all[Len(taken) + 1] = part
          /\ \A i \in 1 .. Len(taken) : all[i] = Parts[i]
      <3> HIDE DEF Parts, part
      <3>1. QED BY <1>3, <1>5, AppendProperties
    <2>2. /\ emitted'[r] = n
          /\ \A i \in 1 .. Len(taken) : emitted'[taken[i]] = emitted[taken[i]]
      BY <1>1
    <2>3. ASSUME NEW i \in 1 .. Len(taken) PROVE Longer[i] = all[i]
      <3>1. Longer[i] = [k \in 1 .. emitted'[taken'[i]] |-> Record(taken'[i], k)]
        <4>1. i \in 1 .. Len(taken') BY <1>1, <1>2
        <4>2. QED BY <4>1
      <3>2. taken'[i] = taken[i] /\ emitted'[taken[i]] = emitted[taken[i]] BY <1>2, <2>2
      <3>3. all[i] = Parts[i] BY <2>1
      <3>4. QED BY <3>1, <3>2, <3>3
    <2>4. Longer[Len(taken) + 1] = all[Len(taken) + 1]
      <3>1. Longer[Len(taken) + 1]
               = [k \in 1 .. emitted'[taken'[Len(taken) + 1]] |->
                    Record(taken'[Len(taken) + 1], k)]
        <4>1. Len(taken) + 1 \in 1 .. Len(taken') BY <1>1, <1>2
        <4>2. QED BY <4>1
      <3>2. taken'[Len(taken) + 1] = r /\ emitted'[r] = n BY <1>2, <2>2
      <3>3. QED BY <2>1, <3>1, <3>2
    <2>5. \A i \in 1 .. Len(taken) + 1 : Longer[i] = all[i]
      <3> HIDE DEF Longer, all, Parts, part
      <3>1. QED BY <1>1, <2>3, <2>4
    <2>6. Longer = [i \in 1 .. Len(taken) + 1 |-> Longer[i]] BY <1>2
    <2>7. all = [i \in 1 .. Len(taken) + 1 |-> all[i]]
      <3> HIDE DEF Longer, all, Parts, part
      <3>1. QED BY <2>1
    <2> HIDE DEF Longer, all, Parts, part
    <2>8. QED BY <2>5, <2>6, <2>7
  <1>7. EventsOf(taken)' = FlattenSeq(Longer) BY DEF EventsOf
  <1>8. FlattenSeq(all) = FlattenSeq(Parts) \o part
    <2> HIDE DEF Parts, part
    <2>1. QED BY <1>3, <1>5, FlattenAppend
  <1>9. EventsOf(taken) = FlattenSeq(Parts) BY DEF EventsOf
  <1> HIDE DEF Longer, all, Parts
  <1>10. QED BY <1>6, <1>7, <1>8, <1>9

\* Every step keeps the log, with what is still to be appended, the events of
\* the commands popped, in their order (matching_loop).
LEMMA WrittenStep == Inv /\ PushedOnceInv /\ WrittenInv /\ [Next]_vars => WrittenInv'
  <1> SUFFICES ASSUME Inv, PushedOnceInv, WrittenInv, [Next]_vars PROVE WrittenInv' OBVIOUS
  <1>1. QueueTypes /\ LoopTypes /\ LogTypes /\ StopInv BY Types DEF Inv
  \* Steps of the handlers and of shutdown(), which touch none of this.
  <1>2. ASSUME UNCHANGED <<file, base, pending, taken, emitted, mpc, durable, ioError>>,
               Up, phase' \notin {"stopped", "crashed"}
        PROVE  WrittenInv'
    <2>1. EventsOf(taken)' = EventsOf(taken) BY <1>2 DEF EventsOf
    <2>2. QED BY <1>2, <2>1 DEF WrittenInv, Written, Up
  <1>3. ASSUME NEW r \in Requests,
               \/ Arrive(r) \/ InsertClientId(r) \/ AbandonInsert(r)
               \/ RejectBody(r) \/ Enqueue(r) \/ Respond(r)
        PROVE  WrittenInv'
    <2>1. /\ Up /\ phase' = phase
          /\ UNCHANGED <<file, base, pending, taken, emitted, mpc, durable, ioError>>
      BY <1>3 DEF Arrive, InsertClientId, AbandonInsert, RejectBody, Enqueue, Respond,
         Ring!Enqueue, matchingVars, logVars
    <2>2. QED BY <1>2, <2>1 DEF Up
  <1>4. CASE BeginShutdown \/ AdminStopped \/ SignalMatching
    <2>1. /\ Up /\ phase' \notin {"stopped", "crashed"}
          /\ UNCHANGED <<file, base, pending, taken, emitted, mpc, durable, ioError>>
      BY <1>4 DEF BeginShutdown, AdminStopped, SignalMatching, MovePhase, Up,
         matchingVars, logVars
    <2>2. QED BY <1>2, <2>1
  <1>5. CASE SeeEmpty \/ KeepSpinning
    <2>1. /\ Up /\ phase' = phase /\ mpc' \in {"empty", "pop"}
          /\ UNCHANGED <<file, base, pending, taken, emitted, durable, ioError>>
      BY <1>5 DEF SeeEmpty, KeepSpinning, logVars
    <2>2. EventsOf(taken)' = EventsOf(taken) BY <2>1 DEF EventsOf
    <2>3. QED BY <2>1, <2>2 DEF WrittenInv, Written, Up
  <1>6. CASE ExitThread
    <2>1. /\ Up /\ phase' = phase /\ UNCHANGED <<file, base, pending, taken, emitted>>
          /\ durable' = Len(file) \/ ioError' = TRUE
      BY <1>6 DEF ExitThread
    <2>2. EventsOf(taken)' = EventsOf(taken) BY <2>1 DEF EventsOf
    <2>3. QED BY <2>1, <2>2 DEF WrittenInv, Written, Up
  <1>7. CASE Pop
    <2>1. /\ Up /\ phase' = phase /\ mpc = "pop" /\ UNCHANGED <<file, base, durable, ioError>>
          /\ ring # << >> /\ taken' = Append(taken, Head(ring))
      BY <1>7 DEF Pop, Ring!Dequeue, logVars
    <2>2. PICK n \in EventCounts :
             /\ emitted' = [emitted EXCEPT ![Head(ring)] = n]
             /\ pending' = [k \in 1 .. n |-> Record(Head(ring), k)]
             /\ mpc' = IF n = 0 THEN "pop" ELSE "append"
      BY <1>7 DEF Pop
    <2>3. Head(ring) \in Requests /\ Head(ring) = ring[1] /\ 1 \in 1 .. Len(ring)
      BY <1>1, <2>1, EmptySeq DEF QueueTypes
    <2>4. \A i \in 1 .. Len(taken) : taken[i] # Head(ring) BY <2>3 DEF PushedOnceInv
    <2>5. EventsOf(taken)' = EventsOf(taken) \o pending'
      BY <1>1, <2>1, <2>2, <2>3, <2>4, EventsOfPopped
    <2>6. pending = << >> BY <1>1, <2>1 DEF LoopTypes
    <2>7. Written \in Seq(Records \cup {Torn})
      <3>1. base \in Nat /\ base <= Len(file) BY <1>1, <2>1 DEF LogTypes, WrittenInv
      <3>2. QED BY <1>1, <3>1 DEF LogTypes, Written
    <2>8. Written = EventsOf(taken) BY <2>1, <2>6, <2>7, ConcatEmptySeq DEF WrittenInv
    <2>9. Written' \o pending' = EventsOf(taken)' BY <2>1, <2>5, <2>8 DEF Written
    <2>10. QED BY <2>1, <2>2, <2>9 DEF WrittenInv, Up
  <1>8. CASE AppendEvent
    <2>1. /\ Up /\ phase' = phase /\ mpc = "append" /\ UNCHANGED <<base, taken, emitted, ioError>>
          /\ file' = Append(file, Head(pending)) /\ pending' = Tail(pending)
          /\ mpc' \in {"pop", "append"}
      BY <1>8 DEF AppendEvent
    <2>2. pending # << >> /\ pending \in Seq(Records \cup {Torn}) /\ Head(pending) \in Records
      BY <1>1, <2>1 DEF LoopTypes, QueueTypes
    <2>3. file \in Seq(Records \cup {Torn}) /\ base \in Nat /\ base <= Len(file)
      BY <1>1, <2>1 DEF LogTypes, WrittenInv
    <2>4. EventsOf(taken)' = EventsOf(taken) BY <2>1 DEF EventsOf
    <2>5. Written' \o pending' = Written \o pending
      <3>1. SubSeq(file', base + 1, Len(file')) \o Tail(pending)
               = SubSeq(file, base + 1, Len(file)) \o pending
        BY <2>1, <2>2, <2>3, HeadMoves
      <3>2. QED BY <2>1, <3>1 DEF Written
    <2>6. base <= Len(file') BY <2>1, <2>2, <2>3, AppendProperties
    <2>7. QED BY <2>1, <2>4, <2>5, <2>6 DEF WrittenInv, Up
  <1>9. CASE Crash
    <2>1. phase' = "crashed" BY <1>9 DEF Crash
    <2>2. QED BY <2>1 DEF WrittenInv, Up
  <1>10. CASE Join
    <2>1. /\ phase = "join" /\ mpc = "exited" /\ phase' = "stopped" /\ LeaveOnDisk
          /\ UNCHANGED <<status, taken, emitted, pending, durable, base, ioError>>
      BY <1>10 DEF Join, handlerVars, matchingVars
    <2>2. Up /\ ~Up' /\ Idle(Requests)' BY <1>1, <2>1 DEF Up, StopInv, Idle
    <2>3. ASSUME ~ioError PROVE durable' = Len(file') /\ Written' = EventsOf(taken)'
      <3>1. durable = Len(file) /\ Written \o pending = EventsOf(taken)
            /\ base \in Nat /\ base <= Len(file)
        BY <1>1, <2>1, <2>2, <2>3 DEF WrittenInv, LogTypes
      <3>2. pending = << >> BY <1>1, <2>1, <2>2 DEF LoopTypes
      <3>3. Written \in Seq(Records \cup {Torn}) BY <1>1, <3>1 DEF LogTypes, Written
      <3>4. Written = EventsOf(taken) BY <3>1, <3>2, <3>3, ConcatEmptySeq
      <3>5. file' = file
        <4>1. Len(file) \in Nat /\ file \in Seq(Records \cup {Torn}) BY <1>1 DEF LogTypes
        <4>2. PICK n \in 0 .. Len(file) :
                 /\ n >= durable
                 /\ \/ file' = SubSeq(file, 1, n)
                    \/ n < Len(file) /\ file' = Append(SubSeq(file, 1, n), Torn)
          BY <2>1, <3>1, <4>1 DEF LeaveOnDisk, Survive
        <4>3. n = Len(file) BY <3>1, <4>1, <4>2
        <4>4. SubSeq(file, 1, Len(file)) = file BY <4>1, SubSeqFull
        <4>5. QED BY <4>1, <4>2, <4>3, <4>4
      <3>6. EventsOf(taken)' = EventsOf(taken) BY <2>1 DEF EventsOf
      <3>7. QED BY <2>1, <3>1, <3>4, <3>5, <3>6 DEF Written
    <2>4. QED BY <2>1, <2>2, <2>3 DEF WrittenInv
  <1>11. CASE Boot
    <2>1. /\ phase' = "serving" /\ mpc' = "pop" /\ base' = Len(file') /\ taken' = << >>
          /\ pending' = << >>
      BY <1>11 DEF Boot
    <2>2. file' \in Seq(Records \cup {Torn}) /\ Len(file') \in Nat
      <3>1. LogTypes' BY LogStep
      <3>2. QED BY <3>1 DEF LogTypes
    <2>3. Written' = << >>
      <3>1. SubSeq(file', Len(file') + 1, Len(file')) = << >> BY <2>2, SubSeqEmpty
      <3>2. QED BY <2>1, <3>1 DEF Written
    <2>4. EventsOf(taken)' = << >>
      <3>1. EventsOf(taken)'
               = FlattenSeq([i \in 1 .. Len(taken') |->
                    [k \in 1 .. emitted'[taken'[i]] |-> Record(taken'[i], k)]])
        BY DEF EventsOf
      <3>2. [i \in 1 .. Len(taken') |->
                    [k \in 1 .. emitted'[taken'[i]] |-> Record(taken'[i], k)]] = << >>
        BY <2>1
      <3>3. QED BY <3>1, <3>2, FlattenEmpty
    <2>5. Written' \o pending' = << >> BY <2>1, <2>3
    <2>6. QED BY <2>1, <2>2, <2>4, <2>5 DEF WrittenInv, Up
  <1>12. CASE UNCHANGED vars
    <2>1. UNCHANGED <<status, phase, file, base, pending, taken, emitted, mpc, durable, ioError>>
      BY <1>12 DEF vars, handlerVars, matchingVars, logVars
    <2>2. EventsOf(taken)' = EventsOf(taken) BY <2>1 DEF EventsOf
    <2>3. QED BY <2>1, <2>2 DEF WrittenInv, Written, Up, Idle
  <1>13. QED
    BY <1>3, <1>4, <1>5, <1>6, <1>7, <1>8, <1>9, <1>10, <1>11, <1>12, Steps

-----------------------------------------------------------------------------
(* The theorems.                                                           *)

LEMMA InvStep == Inv /\ [Next]_vars => Inv'
  BY HandlerStep, QueueStep, LoopStep, LogStep, PendingStep, GateStep, StopStep, Types DEF Inv, HandlerTypes, QueueTypes, LoopTypes, LogTypes, TypeOK

\* The invariant holds in every reachable state.
LEMMA Invariance == Spec => []Inv
  BY InitInv, InvStep, PTL DEF Spec

\* Types of the server's variables (exg-server/src/lib.rs and exg-wal), the
\* bound of the ring and of the batch among them.
THEOREM TypeCorrect == Spec => []TypeOK
  <1>1. Inv => TypeOK BY DEF Inv
  <1>2. QED BY <1>1, Invariance, PTL

\* place_order's INSERT gate: however many requests name a clientOrderId, over
\* any number of crashes and boots at most one of them reaches the ring, the
\* engine, the log or a 200 answer.
THEOREM ClientIdTakenOnce == Spec => []ClientIdOnce
  <1>1. Inv => ClientIdOnce BY DEF Inv, GateInv, Passed, ClientIdOnce
  <1>2. QED BY <1>1, Invariance, PTL

\* A boot on an empty log has pushed and written nothing.
LEMMA WrittenInit == Init => PushedOnceInv /\ WrittenInv
  <1> SUFFICES ASSUME Init PROVE PushedOnceInv /\ WrittenInv OBVIOUS
  <1> USE DEF Init
  <1>1. PushedOnceInv BY DEF PushedOnceInv
  <1>2. Written = << >> /\ base <= Len(file) BY DEF Written
  <1>3. EventsOf(taken) = << >>
    <2>1. [i \in 1 .. Len(taken) |-> [k \in 1 .. emitted[taken[i]] |-> Record(taken[i], k)]]
             = << >>
      OBVIOUS
    <2>2. QED BY <2>1, FlattenEmpty DEF EventsOf
  <1>4. QED BY <1>1, <1>2, <1>3 DEF WrittenInv

\* The matching thread and the log (exg-server/src/lib.rs, exg-wal/src/writer.rs):
\* whatever is pushed, flushed or rotated when, each boot logs the events of
\* the commands it popped, all of them, once and in the ring's order, and a
\* shutdown whose last flush succeeded leaves all of that on disk.
THEOREM LogHoldsWhatWasPopped == Spec => []LogFollowsQueue
  <1> DEFINE IInv == Inv /\ PushedOnceInv /\ WrittenInv
  <1>1. Init => IInv BY InitInv, WrittenInit
  <1>2. IInv /\ [Next]_vars => IInv' BY InvStep, PushedOnceStep, WrittenStep
  <1>3. IInv => LogFollowsQueue
    BY DEF WrittenInv, Written, LogFollowsQueue
  <1>4. QED BY <1>1, <1>2, <1>3, PTL DEF Spec

\* recover_state: no boot appends behind a torn record.
THEOREM TornTailCut == Spec => []TornOnlyAtTheEnd
  <1>1. Inv => TornOnlyAtTheEnd BY DEF Inv, LogInv, TornOnlyAtTheEnd
  <1>2. QED BY <1>1, Invariance, PTL

\* WalWriter::flush: the records it covered are in the log ever after.
THEOREM FlushedForGood == Spec => DurableKept
  <1>1. Inv /\ [Next]_vars =>
           [durable' >= durable /\ IsPrefix(SubSeq(file, 1, durable), file')]_vars
    <2> SUFFICES ASSUME Inv, [Next]_vars
                 PROVE  durable' >= durable /\ IsPrefix(SubSeq(file, 1, durable), file')
      OBVIOUS
    <2>1. LogTypes BY Types DEF Inv
    <2>2. /\ LogTypes' /\ durable' >= durable /\ durable <= Len(file')
          /\ \A i \in 1 .. durable : file'[i] = file[i]
      BY LogStep
    <2> DEFINE old == SubSeq(file, 1, durable)  new == SubSeq(file', 1, durable)
    <2>3. /\ old \in Seq(Records \cup {Torn}) /\ Len(old) = durable
          /\ \A i \in 1 .. durable : old[i] = file[i]
      BY <2>1, Cut DEF LogTypes
    <2>4. /\ new \in Seq(Records \cup {Torn}) /\ Len(new) = durable
          /\ \A i \in 1 .. durable : new[i] = file'[i]
      <3>1. durable \in 0 .. Len(file') BY <2>1, <2>2 DEF LogTypes
      <3>2. QED BY <2>2, <3>1, Cut DEF LogTypes
    <2> HIDE DEF old, new
    <2>5. old = new BY <2>2, <2>3, <2>4, SeqEqual
    <2>6. SubSeq(old, 1, Len(old)) = old BY <2>3, SubSeqFull
    <2>7. IsPrefix(old, file') BY <2>2, <2>3, <2>5, <2>6 DEF IsPrefix, new
    <2>8. QED BY <2>2, <2>7 DEF old
  <1>2. QED BY <1>1, Invariance, PTL DEF Spec, DurableKept

\* ServerHandle::shutdown: with both servers stopped before the flag is
\* stored, nothing is pushed behind the matching thread's back.
THEOREM NothingPushedAfterSignal == Spec => QuietAfterSignal
  <1>1. Inv /\ [Next]_vars => [ShutdownFlag => Len(ring') <= Len(ring)]_vars
    BY QuietStep
  <1>2. QED BY <1>1, Invariance, PTL DEF Spec, QuietAfterSignal
=============================================================================
