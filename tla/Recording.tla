------------------------------ MODULE Recording ------------------------------
(***************************************************************************)
(* class Recording of src/recording.cpp over the captures of one process:  *)
(* producers that submit records, the worker thread that writes them, and  *)
(* the capture thread that constructs and closes a recording per capture.  *)
(* A worker stuck in a file operation outlives its recording.              *)
(*                                                                         *)
(* A block under State::mutex is one step; an access to an atomic outside  *)
(* of it, a file operation, and a wait on a condition variable are steps   *)
(* of their own.  A thread asleep on a condition variable moves only when  *)
(* it is notified, times out, or wakes spuriously.  X_Slip just before X   *)
(* is X with one slip put in, which TLC has to detect.                     *)
(***************************************************************************)
EXTENDS Naturals, Sequences, FiniteSets, SequencesExt

CONSTANTS
    Stream,         \* RecordingStream; each stream has one producer thread
    Size,           \* sizes a record may have
    ByteLimit,      \* byte_limit (32 MiB)
    RecordLimit,    \* record_limit (1024)
    MaxRecords,     \* bound: records submitted in all captures
    Captures        \* bound: captures of the process

ASSUME RecordingAssumption ==
    /\ Size \subseteq Nat \ {0}
    /\ ByteLimit \in Nat \ {0} /\ RecordLimit \in Nat \ {0}
    /\ MaxRecords \in Nat /\ Captures \in Nat \ {0}

VARIABLES
    writerBusy,     \* the process-wide single-writer slot
    current,        \* the capture the capture thread is in
    owner,          \* where the capture thread is
    state,          \* State of each capture's recording
    status,         \* RecordingStatus of each capture
    worker,         \* where each capture's worker thread is
    producer,       \* the record each stream's producer is submitting
    disk            \* the files of each capture

vars == <<writerBusy, current, owner, state, status, worker, producer, disk>>

Capture == 1..Captures
Failure == {"None", "Backlog", "Storage", "ShutdownTimeout", "WriterBusy"}

\* A record, numbered within its stream.
Record == [stream : Stream, size : Size, number : Nat]

State == [queue : Seq(Record), bytes : Nat, closing : BOOLEAN, done : BOOLEAN]
NewState == [queue |-> <<>>, bytes |-> 0, closing |-> FALSE, done |-> FALSE]

Status == [failure : Failure, finished : BOOLEAN, submitted : [Stream -> Nat],
           written : [Stream -> Nat], rejected : [Stream -> Nat]]
Zero == [s \in Stream |-> 0]
NewStatus == [failure |-> "None", finished |-> FALSE, submitted |-> Zero,
              written |-> Zero, rejected |-> Zero]

\* The worker and the record it has taken from the queue.
WorkerStep == {"none", "take", "asleepTake", "write", "drain", "asleepDrain", "finish",
               "destroy", "publish", "release", "notify", "exited"}
NoRecord == [size |-> 0]
Worker == [at : WorkerStep, taken : Record \cup {NoRecord}, stuck : BOOLEAN]
NewWorker == [at |-> "none", taken |-> NoRecord, stuck |-> FALSE]

OwnerStep == {"constructing", "capturing", "waiting", "woken", "joining", "closed",
              "ended"}

\* What a capture left on disk: the numbers of the records written whole, in
\* order, the report of finish(), and the application's completion marker.
Disk == [records : [Stream -> Seq(Nat)],
         report : {"absent", "unfinished", "failed", "drained"}, marker : BOOLEAN]
NewDisk == [records |-> [s \in Stream |-> <<>>], report |-> "absent", marker |-> FALSE]

Producer == [at : {"idle", "offered", "locking"}, record : Record \cup {NoRecord}]
IdleProducer == [at |-> "idle", record |-> NoRecord]

TypeOK ==
    /\ writerBusy \in BOOLEAN
    /\ current \in Capture
    /\ owner \in OwnerStep
    /\ state \in [Capture -> State]
    /\ status \in [Capture -> Status]
    /\ worker \in [Capture -> Worker]
    /\ producer \in [Stream -> Producer]
    /\ disk \in [Capture -> Disk]

Init ==
    /\ writerBusy = FALSE
    /\ current = 1
    /\ owner = "constructing"
    /\ state = [c \in Capture |-> NewState]
    /\ status = [c \in Capture |-> NewStatus]
    /\ worker = [c \in Capture |-> NewWorker]
    /\ producer = [s \in Stream |-> IdleProducer]
    /\ disk = [c \in Capture |-> NewDisk]

-----------------------------------------------------------------------------
(* The status *)

\* fail(): the first reason wins.
Failed(st, reason) == IF st.failure = "None" THEN [st EXCEPT !.failure = reason] ELSE st

Active(c) == status[c].failure = "None" /\ ~status[c].finished

Complete(c) == status[c].finished /\ status[c].failure = "None"

\* A worker asleep on State::ready, after notify_one.
ReadyNotified(w) ==
    CASE w.at = "asleepTake"  -> [w EXCEPT !.at = "take"]
      [] w.at = "asleepDrain" -> [w EXCEPT !.at = "drain"]
      [] OTHER -> w

-----------------------------------------------------------------------------
(* The capture thread *)

SlotTaken_Unchecked == FALSE

SlotTaken == writerBusy

Construct ==
    /\ owner = "constructing"
    /\ owner' = "capturing"
    /\ IF SlotTaken
       THEN /\ status' = [status EXCEPT ![current] =
                             [Failed(@, "WriterBusy") EXCEPT !.finished = TRUE]]
            /\ state' = [state EXCEPT ![current].done = TRUE]
            /\ UNCHANGED <<writerBusy, worker>>
       ELSE /\ writerBusy' = TRUE
            /\ worker' = [worker EXCEPT ![current].at = "take"]
            /\ UNCHANGED <<status, state>>
    /\ UNCHANGED <<current, producer, disk>>

Joinable == worker[current].at # "none"

CloseBegin_Silent ==
    /\ owner = "capturing"
    /\ \A s \in Stream : producer[s].at = "idle"
    /\ Joinable
    /\ state' = [state EXCEPT ![current].closing = TRUE]
    /\ owner' = "woken"
    /\ UNCHANGED <<writerBusy, current, status, worker, producer, disk>>

\* The producers have been joined; then close(), up to its wait.
CloseBegin ==
    /\ owner = "capturing"
    /\ \A s \in Stream : producer[s].at = "idle"
    /\ Joinable
    /\ state' = [state EXCEPT ![current].closing = TRUE]
    /\ worker' = [worker EXCEPT ![current] = ReadyNotified(@)]
    /\ owner' = "woken"
    /\ UNCHANGED <<writerBusy, current, status, producer, disk>>

\* close() of a recording that never had a writer.
CloseUnstarted ==
    /\ owner = "capturing"
    /\ \A s \in Stream : producer[s].at = "idle"
    /\ ~Joinable
    /\ owner' = "closed"
    /\ UNCHANGED <<writerBusy, current, state, status, worker, producer, disk>>

\* The predicate of wait_for, evaluated under the mutex on entry and on waking.
CloseCheck ==
    /\ owner = "woken"
    /\ owner' = IF state[current].done THEN "joining" ELSE "waiting"
    /\ UNCHANGED <<writerBusy, current, state, status, worker, producer, disk>>

CloseTimeout_Forgiving ==
    /\ owner = "waiting"
    /\ owner' = IF state[current].done THEN "joining" ELSE "closed"
    /\ UNCHANGED <<writerBusy, current, state, status, worker, producer, disk>>

CloseTimeout_WaitsForDone ==
    /\ owner = "waiting"
    /\ state[current].done
    /\ owner' = "joining"
    /\ UNCHANGED <<writerBusy, current, state, status, worker, producer, disk>>

\* wait_for times out and evaluates its predicate once more; a worker that is
\* not done is detached and the recording disqualified.
CloseTimeout ==
    /\ owner = "waiting"
    /\ IF state[current].done
       THEN owner' = "joining" /\ UNCHANGED status
       ELSE /\ owner' = "closed"
            /\ status' = [status EXCEPT ![current] = Failed(@, "ShutdownTimeout")]
    /\ UNCHANGED <<writerBusy, current, state, worker, producer, disk>>

SpuriousOwner ==
    /\ owner = "waiting"
    /\ owner' = "woken"
    /\ UNCHANGED <<writerBusy, current, state, status, worker, producer, disk>>

Join ==
    /\ owner = "joining"
    /\ worker[current].at = "exited"
    /\ owner' = "closed"
    /\ UNCHANGED <<writerBusy, current, state, status, worker, producer, disk>>

\* run_capture writes the marker after a clean requested stop; run_flight goes
\* on to the next capture, up to the bound.
NextCapture ==
    /\ owner = "closed"
    /\ \E requested \in BOOLEAN :
          disk' = [disk EXCEPT ![current].marker = requested /\ Complete(current)]
    /\ IF current < Captures
       THEN current' = current + 1 /\ owner' = "constructing"
       ELSE owner' = "ended" /\ UNCHANGED current
    /\ UNCHANGED <<writerBusy, state, status, worker, producer>>

-----------------------------------------------------------------------------
(* The producers *)

\* Of all the captures.
Submitted ==
    FoldFunction(+, 0, [c \in Capture |-> FoldFunction(+, 0, status[c].submitted)])

\* A sensor thread finds the recording active and calls submit().
Offer(s, size) ==
    LET number == status[current].submitted[s] + 1
    IN  /\ owner = "capturing"
        /\ producer[s].at = "idle"
        /\ Submitted < MaxRecords
        /\ Active(current)
        /\ status' = [status EXCEPT ![current].submitted[s] = number]
        /\ producer' = [producer EXCEPT ![s] =
              [at |-> "offered", record |-> [stream |-> s, size |-> size, number |-> number]]]
        /\ UNCHANGED <<writerBusy, current, owner, state, worker, disk>>

Rejected(st, s) == [st EXCEPT !.rejected[s] = @ + 1]

\* The checks before the lock.
CheckOffer(s) ==
    /\ producer[s].at = "offered"
    /\ IF Active(current) /\ producer[s].record.size <= ByteLimit
       THEN /\ producer' = [producer EXCEPT ![s].at = "locking"]
            /\ UNCHANGED status
       ELSE /\ producer' = [producer EXCEPT ![s] = IdleProducer]
            /\ status' = [status EXCEPT ![current] =
                  Rejected(IF Active(current) THEN Failed(@, "Backlog") ELSE @, s)]
    /\ UNCHANGED <<writerBusy, current, owner, state, worker, disk>>

Full(st, size) ==
    \/ st.closing
    \/ Len(st.queue) >= RecordLimit
    \/ size > ByteLimit - st.bytes

Enqueue_Gapped(s) ==
    LET record == producer[s].record
    IN  /\ producer[s].at = "locking"
        /\ producer' = [producer EXCEPT ![s] = IdleProducer]
        /\ IF ~Full(state[current], record.size)
           THEN /\ state' = [state EXCEPT ![current].queue = Append(@, record),
                                          ![current].bytes = @ + record.size]
                /\ worker' = [worker EXCEPT ![current] = ReadyNotified(@)]
                /\ UNCHANGED status
           ELSE /\ status' = [status EXCEPT ![current] = Rejected(@, s)]
                /\ UNCHANGED <<state, worker>>
        /\ UNCHANGED <<writerBusy, current, owner, disk>>

\* The part of submit() under the mutex.
Enqueue(s) ==
    LET record == producer[s].record
    IN  /\ producer[s].at = "locking"
        /\ producer' = [producer EXCEPT ![s] = IdleProducer]
        /\ IF Active(current) /\ ~Full(state[current], record.size)
           THEN /\ state' = [state EXCEPT ![current].queue = Append(@, record),
                                          ![current].bytes = @ + record.size]
                /\ worker' = [worker EXCEPT ![current] = ReadyNotified(@)]
                /\ UNCHANGED status
           ELSE /\ status' = [status EXCEPT ![current] =
                      Rejected(IF Active(current) THEN Failed(@, "Backlog") ELSE @, s)]
                /\ UNCHANGED <<state, worker>>
        /\ UNCHANGED <<writerBusy, current, owner, disk>>

-----------------------------------------------------------------------------
(* The worker thread of capture c *)

Runs(c, step) == worker[c].at = step /\ ~worker[c].stuck

\* The wait for a record or for close(), and the pop, under the mutex.
Take(c) ==
    LET st == state[c]
    IN  /\ Runs(c, "take")
        /\ IF st.queue # <<>>
           THEN /\ state' = [state EXCEPT ![c].queue = Tail(@),
                                          ![c].bytes = @ - Head(st.queue).size]
                /\ worker' = [worker EXCEPT ![c].at = "write", ![c].taken = Head(st.queue)]
           ELSE /\ worker' = [worker EXCEPT ![c].at =
                                 IF st.closing THEN "drain" ELSE "asleepTake"]
                /\ UNCHANGED state
        /\ UNCHANGED <<writerBusy, current, owner, status, producer, disk>>

SpuriousWorker(c) ==
    /\ worker[c].at \in {"asleepTake", "asleepDrain"}
    /\ worker' = [worker EXCEPT ![c] = ReadyNotified(@)]
    /\ UNCHANGED <<writerBusy, current, owner, state, status, producer, disk>>

\* sink->write: FileSink opens its files first, which leaves an unfinished report.
Write(c) ==
    LET record == worker[c].taken
    IN  /\ Runs(c, "write")
        /\ worker' = [worker EXCEPT ![c].at = "take", ![c].taken = NoRecord]
        /\ disk' = [disk EXCEPT ![c].records[record.stream] = Append(@, record.number),
                                ![c].report = "unfinished"]
        /\ status' = [status EXCEPT ![c].written[record.stream] = @ + 1]
        /\ UNCHANGED <<writerBusy, current, owner, state, producer>>

WriteFails_CarriesOn(c) ==
    /\ Runs(c, "write")
    /\ worker' = [worker EXCEPT ![c].at = "take", ![c].taken = NoRecord]
    /\ status' = [status EXCEPT ![c] = Failed(@, "Storage")]
    /\ UNCHANGED <<writerBusy, current, owner, state, producer, disk>>

WriteFails(c) ==
    /\ Runs(c, "write")
    /\ worker' = [worker EXCEPT ![c].at = "drain", ![c].taken = NoRecord]
    /\ status' = [status EXCEPT ![c] = Failed(@, "Storage")]
    /\ \E opened \in {disk[c].report, "unfinished"} :
          disk' = [disk EXCEPT ![c].report = opened]
    /\ UNCHANGED <<writerBusy, current, owner, state, producer>>

\* The wait for the producers to have stopped.
Drain(c) ==
    /\ Runs(c, "drain")
    /\ worker' = [worker EXCEPT ![c].at =
                     IF state[c].closing THEN "finish" ELSE "asleepDrain"]
    /\ UNCHANGED <<writerBusy, current, owner, state, status, producer, disk>>

\* sink->finish: the footers may fail, and then the report says so.
Finish(c) ==
    /\ Runs(c, "finish")
    /\ worker' = [worker EXCEPT ![c].at = "destroy"]
    /\ \E good \in BOOLEAN :
          status' = [status EXCEPT ![c] = IF good THEN @ ELSE Failed(@, "Storage")]
    /\ disk' = [disk EXCEPT ![c].report =
                   IF status'[c].failure = "None" THEN "drained" ELSE "failed"]
    /\ UNCHANGED <<writerBusy, current, owner, state, producer>>

\* finish() throws before its report is in place.
FinishFails(c) ==
    /\ Runs(c, "finish")
    /\ worker' = [worker EXCEPT ![c].at = "destroy"]
    /\ status' = [status EXCEPT ![c] = Failed(@, "Storage")]
    /\ \E opened \in {disk[c].report, "unfinished"} :
          disk' = [disk EXCEPT ![c].report = opened]
    /\ UNCHANGED <<writerBusy, current, owner, state, producer>>

\* sink.reset() closes the files.
Destroy(c) ==
    /\ Runs(c, "destroy")
    /\ worker' = [worker EXCEPT ![c].at = "publish"]
    /\ UNCHANGED <<writerBusy, current, owner, state, status, producer, disk>>

PublishDone(c) ==
    /\ Runs(c, "publish")
    /\ worker' = [worker EXCEPT ![c].at = "release"]
    /\ state' = [state EXCEPT ![c].queue = <<>>, ![c].done = TRUE]
    /\ status' = [status EXCEPT ![c].finished = TRUE]
    /\ UNCHANGED <<writerBusy, current, owner, producer, disk>>

Release(c) ==
    /\ Runs(c, "release")
    /\ writerBusy' = FALSE
    /\ worker' = [worker EXCEPT ![c].at = "notify"]
    /\ UNCHANGED <<current, owner, state, status, producer, disk>>

Notify(c) ==
    /\ Runs(c, "notify")
    /\ worker' = [worker EXCEPT ![c].at = "exited"]
    /\ owner' = IF owner = "waiting" /\ c = current THEN "woken" ELSE owner
    /\ UNCHANGED <<writerBusy, current, state, status, producer, disk>>

\* A file operation blocks in the kernel, for ever or for a while.
GetStuck(c) ==
    /\ worker[c].at \in {"write", "finish", "destroy"}
    /\ ~worker[c].stuck
    /\ worker' = [worker EXCEPT ![c].stuck = TRUE]
    /\ UNCHANGED <<writerBusy, current, owner, state, status, producer, disk>>

GetUnstuck(c) ==
    /\ worker[c].stuck
    /\ worker' = [worker EXCEPT ![c].stuck = FALSE]
    /\ UNCHANGED <<writerBusy, current, owner, state, status, producer, disk>>

-----------------------------------------------------------------------------
OwnerNext ==
    Construct \/ CloseBegin \/ CloseUnstarted \/ CloseCheck \/ CloseTimeout \/ Join
        \/ NextCapture

ProducerNext(s) == (\E size \in Size : Offer(s, size)) \/ CheckOffer(s) \/ Enqueue(s)

WorkerNext(c) ==
    \/ Take(c) \/ Write(c) \/ WriteFails(c) \/ Drain(c) \/ Finish(c) \/ FinishFails(c)
    \/ Destroy(c) \/ PublishDone(c) \/ Release(c) \/ Notify(c)

Next ==
    \/ OwnerNext
    \/ SpuriousOwner
    \/ \E s \in Stream : ProducerNext(s)
    \/ \E c \in Capture :
          WorkerNext(c) \/ SpuriousWorker(c) \/ GetStuck(c) \/ GetUnstuck(c)

(***************************************************************************)
(* Every thread is scheduled; nothing makes a stuck file operation return, *)
(* a producer submit, or a thread wake spuriously.  The timeout of close() *)
(* is strongly fair: wait_for with a predicate waits until one deadline,   *)
(* which wakeups in between do not move.                                   *)
(***************************************************************************)
Fairness ==
    /\ WF_vars(OwnerNext) /\ SF_vars(CloseTimeout)
    /\ \A s \in Stream : WF_vars(CheckOffer(s)) /\ WF_vars(Enqueue(s))
    /\ \A c \in Capture : WF_vars(WorkerNext(c))

Spec == Init /\ [][Next]_vars /\ Fairness

-----------------------------------------------------------------------------
(* Safety *)

Owned(c) == c = current /\ owner \notin {"closed", "ended"}

\* A recording that counts as complete, or that the application marks so, has
\* every submitted record on disk, and in order; and a report that says the
\* writer drained is true, even of a recording that close() gave up on.
\* (submit, close, worker, finish)
CompleteMeansAllWritten ==
    \A c \in Capture : Complete(c) \/ disk[c].marker \/ disk[c].report = "drained" =>
        /\ status[c].rejected = Zero
        /\ \A s \in Stream :
              disk[c].records[s] = [n \in 1..status[c].submitted[s] |-> n]

\* The running totals of the sizes in a queue within the limit.
RunningTotals(queue) ==
    {total \in [0..Len(queue) -> 0..ByteLimit] :
        /\ total[0] = 0
        /\ \A i \in 1..Len(queue) : total[i] = total[i - 1] + queue[i].size}

\* The byte count matches the queue while the recording accepts records, so
\* the limits that make a gap are tested on true numbers.  (submit, worker)
BytesMatchQueue ==
    \A c \in Capture : ~state[c].done =>
        \E total \in RunningTotals(state[c].queue) :
            state[c].bytes = total[Len(state[c].queue)]

\* What is on disk of a stream is a prefix of what was submitted: recording
\* stops at its first gap and never joins data across one.  (submit, worker)
NoHoleOnDisk ==
    \A c \in Capture, s \in Stream :
        \A i \in DOMAIN disk[c].records[s] : disk[c].records[s][i] = i

\* The slot is taken exactly while one worker of the process may hold a sink,
\* and never two, however many captures were restarted over a stuck disk.
\* (writer_busy)
OneLiveWriter ==
    LET live == {c \in Capture : worker[c].at \notin {"none", "notify", "exited"}}
    IN  Cardinality(live) = IF writerBusy THEN 1 ELSE 0

-----------------------------------------------------------------------------
(* The inductive invariant *)

OnDisk(c, s) == Len(disk[c].records[s])

\* Record n of stream s has left its producer and may still reach the disk.
Kept(c, s, n) ==
    \/ /\ worker[c].at = "write"
       /\ worker[c].taken.stream = s /\ worker[c].taken.number = n
    \/ \E i \in DOMAIN state[c].queue :
          state[c].queue[i].stream = s /\ state[c].queue[i].number = n

Offering(c, s) == c = current /\ producer[s].at # "idle"

\* The records of a stream are ahead of one another: those on disk, the one the
\* worker has taken, those in the queue, the one its producer is submitting.
InOrder(c) ==
    LET queue == state[c].queue
        taken == worker[c].taken
    IN  /\ \A s \in Stream : OnDisk(c, s) <= status[c].submitted[s]
        /\ \A i \in DOMAIN queue :
              /\ queue[i].number > OnDisk(c, queue[i].stream)
              /\ queue[i].number <= status[c].submitted[queue[i].stream]
        /\ \A i, j \in DOMAIN queue :
              i < j /\ queue[i].stream = queue[j].stream => queue[i].number < queue[j].number
        /\ worker[c].at = "write" =>
              /\ taken.number = OnDisk(c, taken.stream) + 1
              /\ taken.number <= status[c].submitted[taken.stream]
              /\ \A i \in DOMAIN queue :
                    queue[i].stream = taken.stream => taken.number < queue[i].number
        /\ \A s \in Stream : Offering(c, s) =>
              LET record == producer[s].record
              IN  /\ record.stream = s /\ record.number = status[c].submitted[s]
                  /\ OnDisk(c, s) < record.number
                  /\ \A i \in DOMAIN queue :
                        queue[i].stream = s => queue[i].number < record.number
                  /\ worker[c].at = "write" /\ taken.stream = s => taken.number < record.number

\* While the worker writes, no record before one in the queue is missing; and
\* until the recording fails, none that was submitted is.
NothingMissing(c) ==
    /\ worker[c].at \in {"take", "asleepTake", "write"} =>
          \A i \in DOMAIN state[c].queue :
              LET record == state[c].queue[i]
              IN  \A n \in (OnDisk(c, record.stream) + 1)..(record.number - 1) :
                      Kept(c, record.stream, n)
    /\ status[c].failure = "None" =>
          /\ status[c].rejected = Zero
          /\ \A s \in Stream : \A n \in (OnDisk(c, s) + 1)..status[c].submitted[s] :
                Kept(c, s, n) \/ (Offering(c, s) /\ producer[s].record.number = n)

Ahead(c) == c > current \/ (c = current /\ owner = "constructing")

\* The worker, close() and what the capture leaves agree on how far it is.
StagesAgree(c) ==
    LET at == worker[c].at
        clean == status[c].failure = "None"
        drained == disk[c].report = "drained"
    IN  /\ Ahead(c) => at = "none" /\ clean /\ ~status[c].finished
        /\ at = "none" =>
              /\ state[c].queue = <<>> /\ ~state[c].closing
              /\ status[c].submitted = Zero /\ ~drained
              /\ clean => Ahead(c)
        /\ state[c].closing /\ c = current => owner \notin {"constructing", "capturing"}
        /\ at \in {"finish", "destroy", "publish", "release", "notify", "exited"} =>
              state[c].closing
        /\ at = "asleepDrain" => ~clean
        /\ at \in {"drain", "finish"} /\ clean => state[c].closing /\ state[c].queue = <<>>
        /\ at \in {"destroy", "publish", "release", "notify", "exited"} /\ clean => drained
        /\ at \in {"release", "notify", "exited"} => status[c].finished
        /\ status[c].finished /\ clean => at \in {"release", "notify", "exited"}
        /\ disk[c].marker => drained
        /\ drained =>
              /\ at \in {"destroy", "publish", "release", "notify", "exited"}
              /\ status[c].rejected = Zero
              /\ \A s \in Stream : OnDisk(c, s) = status[c].submitted[s]
        /\ ~Owned(c) /\ c <= current => at = "exited" \/ ~clean

ProducersIdle == owner # "capturing" => \A s \in Stream : producer[s].at = "idle"

\* How the threads, the queue, the status and the files of every capture agree:
\* from here it follows that a complete recording is whole, and that recording
\* stops at its first gap.
RecordingInv ==
    /\ TypeOK /\ BytesMatchQueue
    /\ NoHoleOnDisk /\ OneLiveWriter /\ ProducersIdle
    /\ \A c \in Capture : InOrder(c) /\ NothingMissing(c) /\ StagesAgree(c)

(* Action properties *)

\* A recording that close() gave up on is never complete later, though its
\* detached worker may still finish.  (close, complete)
LateFinishNeverCompletes ==
    [][\A c \in Capture : ~Owned(c) /\ c <= current /\ ~Complete(c) => ~Complete(c)']_vars

(* Liveness *)

\* close() returns, whatever the disk does.  (close)
CloseReturns ==
    (owner \in {"woken", "waiting", "joining"}) ~> (owner = "closed")

\* A closed recording's writer ends unless a file operation holds it: no
\* wakeup is lost between submit, close and the worker.  (worker, close)
WriterEnds ==
    \A c \in Capture : state[c].closing ~> (worker[c].stuck \/ worker[c].at = "exited")
=============================================================================
