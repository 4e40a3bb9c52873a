---------------------------- MODULE RecordingProofs ----------------------------
(***************************************************************************)
(* The safety of Recording, for any streams, sizes, limits and number of   *)
(* captures, and without a bound on the records submitted.  The byte count *)
(* comes last: it rests on the rest, and nothing else rests on it, because *)
(* the recording fails wherever the queue is found full.                   *)
(***************************************************************************)
EXTENDS Recording, FiniteSetTheorems, TLAPS

Held == Record \cup {NoRecord}

\* State before it is known that the byte count is not negative.
StateType == [queue : Seq(Record), bytes : Int, closing : BOOLEAN, done : BOOLEAN]

Types ==
    /\ writerBusy \in BOOLEAN
    /\ current \in Capture
    /\ owner \in OwnerStep
    /\ state \in [Capture -> StateType]
    /\ status \in [Capture -> Status]
    /\ worker \in [Capture -> Worker]
    /\ producer \in [Stream -> Producer]
    /\ disk \in [Capture -> Disk]
    /\ \A c \in Capture : worker[c].at = "write" => worker[c].taken \in Record
    /\ \A s \in Stream : producer[s].at # "idle" => producer[s].record \in Record

Live(c) == worker[c].at \notin {"none", "notify", "exited"}

\* OneLiveWriter without cardinalities.
SlotInv ==
    /\ writerBusy <=> \E c \in Capture : Live(c)
    /\ \A c, d \in Capture : Live(c) /\ Live(d) => c = d

Inv ==
    /\ Types /\ NoHoleOnDisk /\ SlotInv /\ ProducersIdle
    /\ \A c \in Capture : InOrder(c) /\ NothingMissing(c) /\ StagesAgree(c)

-----------------------------------------------------------------------------
(* The parts as predicates of values, so that a step that leaves the values *)
(* alone leaves the part alone.                                             *)

Going == {"take", "asleepTake", "write"}

KeptIn(q, writing, taken, s, n) ==
    \/ writing /\ taken.stream = s /\ taken.number = n
    \/ \E i \in DOMAIN q : q[i].stream = s /\ q[i].number = n

Ordered(q, writing, taken, records, submitted) ==
    /\ \A s \in Stream : Len(records[s]) <= submitted[s]
    /\ \A i \in DOMAIN q : /\ q[i].number > Len(records[q[i].stream])
                           /\ q[i].number <= submitted[q[i].stream]
    /\ \A i, j \in DOMAIN q : i < j /\ q[i].stream = q[j].stream => q[i].number < q[j].number
    /\ writing =>
          /\ taken.number = Len(records[taken.stream]) + 1
          /\ taken.number <= submitted[taken.stream]
          /\ \A i \in DOMAIN q : q[i].stream = taken.stream => taken.number < q[i].number

\* The producer's record is ahead of all.
Offered(s, record, q, writing, taken, records, submitted) ==
    /\ record.stream = s /\ record.number = submitted[s]
    /\ Len(records[s]) < record.number
    /\ \A i \in DOMAIN q : q[i].stream = s => q[i].number < record.number
    /\ writing /\ taken.stream = s => taken.number < record.number

Gapless(q, writing, taken, records) ==
    \A i \in DOMAIN q : \A n \in (Len(records[q[i].stream]) + 1)..(q[i].number - 1) :
        KeptIn(q, writing, taken, q[i].stream, n)

Whole(q, writing, taken, records, submitted, mine, p) ==
    \A s \in Stream : \A n \in (Len(records[s]) + 1)..submitted[s] :
        \/ KeptIn(q, writing, taken, s, n)
        \/ mine /\ p[s].at # "idle" /\ p[s].record.number = n

LEMMA ByValues ==
    ASSUME NEW c \in Capture
    PROVE  LET q == state[c].queue
               writing == worker[c].at = "write"
               taken == worker[c].taken
               records == disk[c].records
               submitted == status[c].submitted
           IN  /\ InOrder(c) <=>
                    /\ Ordered(q, writing, taken, records, submitted)
                    /\ \A s \in Stream : c = current /\ producer[s].at # "idle" =>
                          Offered(s, producer[s].record, q, writing, taken, records, submitted)
               /\ NothingMissing(c) <=>
                    /\ worker[c].at \in Going => Gapless(q, writing, taken, records)
                    /\ status[c].failure = "None" =>
                          /\ status[c].rejected = Zero
                          /\ Whole(q, writing, taken, records, submitted, c = current, producer)
  BY DEF InOrder, NothingMissing, OnDisk, Offering, Kept, KeptIn, Ordered, Offered, Gapless,
         Whole, Going

\* The same of the state after a step.
LEMMA ByValuesNext ==
    ASSUME NEW c \in Capture
    PROVE  LET q == state'[c].queue
               writing == worker'[c].at = "write"
               taken == worker'[c].taken
               records == disk'[c].records
               submitted == status'[c].submitted
           IN  /\ InOrder(c)' <=>
                    /\ Ordered(q, writing, taken, records, submitted)
                    /\ \A s \in Stream : c = current' /\ producer'[s].at # "idle" =>
                          Offered(s, producer'[s].record, q, writing, taken, records, submitted)
               /\ NothingMissing(c)' <=>
                    /\ worker'[c].at \in Going => Gapless(q, writing, taken, records)
                    /\ status'[c].failure = "None" =>
                          /\ status'[c].rejected = Zero
                          /\ Whole(q, writing, taken, records, submitted, c = current', producer')
  BY DEF InOrder, NothingMissing, OnDisk, Offering, Kept, KeptIn, Ordered, Offered, Gapless,
         Whole, Going

\* A step in which the records of capture c stay where they are.
Calm(c) ==
    /\ state'[c].queue = state[c].queue
    /\ worker'[c].at = "write" <=> worker[c].at = "write"
    /\ worker'[c].taken = worker[c].taken
    /\ disk'[c].records = disk[c].records
    /\ status'[c].submitted = status[c].submitted
    /\ worker'[c].at \in Going => worker[c].at \in Going \/ state[c].queue = <<>>
    /\ status'[c].failure = "None" =>
          status[c].failure = "None" /\ status'[c].rejected = status[c].rejected
    /\ producer' = producer
    /\ (c = current' <=> c = current) \/ \A s \in Stream : producer[s].at = "idle"

LEMMA CalmStep ==
    ASSUME Inv, NEW c \in Capture, Calm(c)
    PROVE  InOrder(c)' /\ NothingMissing(c)'
<1>. DEFINE q == state[c].queue
            writing == worker[c].at = "write"
            taken == worker[c].taken
            records == disk[c].records
            submitted == status[c].submitted
<1>1. InOrder(c) /\ NothingMissing(c)
  BY DEF Inv
<1>2. /\ Ordered(q, writing, taken, records, submitted)
      /\ \A s \in Stream : c = current /\ producer[s].at # "idle" =>
            Offered(s, producer[s].record, q, writing, taken, records, submitted)
      /\ worker[c].at \in Going => Gapless(q, writing, taken, records)
      /\ status[c].failure = "None" =>
            /\ status[c].rejected = Zero
            /\ Whole(q, writing, taken, records, submitted, c = current, producer)
  BY <1>1, ByValues
<1>3. (worker'[c].at = "write") = writing
  BY DEF Calm
<1>4. /\ state'[c].queue = q /\ worker'[c].taken = taken /\ disk'[c].records = records
      /\ status'[c].submitted = submitted /\ producer' = producer
  BY DEF Calm
<1>5. q = <<>> => Gapless(q, writing, taken, records)
  BY DEF Gapless
<1>6. Whole(q, writing, taken, records, submitted, c = current, producer) =>
        Whole(q, writing, taken, records, submitted, c = current', producer)
  BY DEF Whole, Calm
<1>7. /\ worker'[c].at \in Going => worker[c].at \in Going \/ q = <<>>
      /\ (c = current' <=> c = current) \/ \A s \in Stream : producer[s].at = "idle"
      /\ status'[c].failure = "None" =>
            status[c].failure = "None" /\ status'[c].rejected = status[c].rejected
  BY DEF Calm
<1>. HIDE DEF q, writing, taken, records, submitted
<1>. QED BY <1>2, <1>3, <1>4, <1>5, <1>6, <1>7, ByValuesNext

\* A step that leaves capture c alone, and the capture thread where it was or in close().
Elsewhere(c) ==
    /\ state'[c] = state[c] /\ status'[c] = status[c] /\ worker'[c] = worker[c]
    /\ disk'[c] = disk[c]
    /\ UNCHANGED <<current, producer>>
    /\ owner' = owner \/ {owner, owner'} \subseteq {"waiting", "woken"}

LEMMA ElsewhereStep ==
    ASSUME Inv, NEW c \in Capture, Elsewhere(c)
    PROVE  InOrder(c)' /\ NothingMissing(c)' /\ StagesAgree(c)'
<1>1. Calm(c)
  BY DEF Elsewhere, Calm
<1>2. StagesAgree(c)
  BY DEF Inv
<1>3. StagesAgree(c)'
  BY <1>2 DEF StagesAgree, Ahead, Owned, OnDisk, Elsewhere
<1>. QED BY <1>1, <1>3, CalmStep

LEMMA SlotKept ==
    ASSUME SlotInv, writerBusy' = writerBusy, \A c \in Capture : Live(c)' <=> Live(c)
    PROVE  SlotInv'
  BY DEF SlotInv

-----------------------------------------------------------------------------
(* The capture thread.                                                      *)

LEMMA ConstructStep == Inv /\ Construct => Inv'
<1>. SUFFICES ASSUME Inv, Construct PROVE Inv'
  OBVIOUS
<1>0. Types /\ current \in Capture /\ owner = "constructing" /\ StagesAgree(current)
  BY DEF Inv, Types, Construct
<1>1. /\ worker[current].at = "none" /\ status[current].failure = "None"
      /\ ~status[current].finished /\ state[current].queue = <<>> /\ ~state[current].closing
      /\ disk[current].report # "drained"
  BY <1>0 DEF StagesAgree, Ahead
<1>2. owner' = "capturing" /\ UNCHANGED <<current, producer, disk>>
  BY DEF Construct
<1>3. CASE writerBusy
  <2>1. /\ status' = [status EXCEPT ![current] =
                         [Failed(status[current], "WriterBusy") EXCEPT !.finished = TRUE]]
        /\ state' = [state EXCEPT ![current].done = TRUE]
        /\ UNCHANGED <<writerBusy, worker>>
    BY <1>3 DEF Construct, SlotTaken
  <2>2. /\ status'[current] \in Status /\ status'[current].failure = "WriterBusy"
        /\ status'[current].submitted = status[current].submitted
        /\ status'[current].rejected = status[current].rejected
        /\ \A c \in Capture \ {current} : status'[c] = status[c]
        /\ status' \in [Capture -> Status]
    BY <1>0, <1>1, <2>1 DEF Types, Failed, Status, Failure
  <2>3. /\ state' \in [Capture -> StateType]
        /\ \A c \in Capture : /\ state'[c].queue = state[c].queue
                              /\ state'[c].closing = state[c].closing
    BY <1>0, <2>1 DEF Types, StateType
  <2>4. Types'
    BY <1>0, <1>2, <2>1, <2>2, <2>3 DEF Types, OwnerStep
  <2>5. ASSUME NEW c \in Capture
        PROVE  InOrder(c)' /\ NothingMissing(c)' /\ StagesAgree(c)'
    <3>1. Calm(c)
      BY <1>0, <1>2, <2>1, <2>2, <2>3 DEF Calm
    <3>2. StagesAgree(c) /\ c \in Nat /\ current \in Nat
      BY <1>0 DEF Inv, Capture
    <3>3. StagesAgree(c)'
      BY <1>0, <1>1, <1>2, <2>1, <2>2, <2>3, <3>2 DEF StagesAgree, Ahead, Owned, OnDisk
    <3>. QED BY <3>1, <3>3, CalmStep
  <2>6. SlotInv'
    BY <2>1, SlotKept DEF Inv, Live
  <2>. QED BY <1>0, <1>2, <2>4, <2>5, <2>6 DEF Inv, NoHoleOnDisk, ProducersIdle
<1>4. CASE ~writerBusy
  <2>1. /\ writerBusy' = TRUE
        /\ worker' = [worker EXCEPT ![current].at = "take"]
        /\ UNCHANGED <<status, state>>
    BY <1>4 DEF Construct, SlotTaken
  <2>2. /\ worker' \in [Capture -> Worker] /\ worker'[current].at = "take"
        /\ worker'[current].taken = worker[current].taken
        /\ \A c \in Capture \ {current} : worker'[c] = worker[c]
    BY <1>0, <2>1 DEF Types, Worker, WorkerStep
  <2>3. Types'
    BY <1>0, <1>2, <2>1, <2>2 DEF Types, OwnerStep
  <2>4. ASSUME NEW c \in Capture
        PROVE  InOrder(c)' /\ NothingMissing(c)' /\ StagesAgree(c)'
    <3>1. Calm(c)
      BY <1>0, <1>1, <1>2, <2>1, <2>2 DEF Calm
    <3>2. StagesAgree(c) /\ c \in Nat /\ current \in Nat
      BY <1>0 DEF Inv, Capture
    <3>3. StagesAgree(c)'
      BY <1>0, <1>1, <1>2, <2>1, <2>2, <3>2 DEF StagesAgree, Ahead, Owned, OnDisk
    <3>. QED BY <3>1, <3>3, CalmStep
  <2>5. SlotInv'
    BY <1>0, <1>4, <2>1, <2>2 DEF Inv, SlotInv, Live
  <2>. QED BY <1>0, <1>2, <2>3, <2>4, <2>5 DEF Inv, NoHoleOnDisk, ProducersIdle
<1>. QED BY <1>3, <1>4

\* Notifying a worker wakes it, and does no more.
LEMMA Notified ==
    ASSUME NEW w \in Worker
    PROVE  LET r == ReadyNotified(w)
           IN  /\ r \in Worker /\ r.taken = w.taken /\ r.stuck = w.stuck
               /\ r.at = CASE w.at = "asleepTake"  -> "take"
                           [] w.at = "asleepDrain" -> "drain"
                           [] OTHER -> w.at
  BY DEF ReadyNotified, Worker, WorkerStep

LEMMA CloseBeginStep == Inv /\ CloseBegin => Inv'
<1>. SUFFICES ASSUME Inv, CloseBegin PROVE Inv'
  OBVIOUS
<1>0. /\ Types /\ current \in Capture /\ owner = "capturing" /\ worker[current].at # "none"
      /\ \A s \in Stream : producer[s].at = "idle"
  BY DEF Inv, Types, CloseBegin, Joinable
<1>1. /\ state' = [state EXCEPT ![current].closing = TRUE]
      /\ worker' = [worker EXCEPT ![current] = ReadyNotified(worker[current])]
      /\ owner' = "woken" /\ UNCHANGED <<writerBusy, current, status, producer, disk>>
  BY DEF CloseBegin
<1>2. /\ state' \in [Capture -> StateType] /\ state'[current].closing
      /\ \A c \in Capture : state'[c].queue = state[c].queue
      /\ \A c \in Capture \ {current} : state'[c] = state[c]
  BY <1>0, <1>1 DEF Types, StateType
<1>. DEFINE r == ReadyNotified(worker[current])
<1>3. /\ r \in Worker /\ r.taken = worker[current].taken
      /\ r.at = CASE worker[current].at = "asleepTake"  -> "take"
                  [] worker[current].at = "asleepDrain" -> "drain"
                  [] OTHER -> worker[current].at
  BY <1>0, Notified DEF Types
<1>. HIDE DEF r
<1>4. /\ worker' \in [Capture -> Worker] /\ worker'[current] = r
      /\ \A c \in Capture \ {current} : worker'[c] = worker[c]
  BY <1>0, <1>1, <1>3 DEF Types, r
<1>5. Types'
  BY <1>0, <1>1, <1>2, <1>3, <1>4 DEF Types, OwnerStep
<1>6. ASSUME NEW c \in Capture
      PROVE  InOrder(c)' /\ NothingMissing(c)' /\ StagesAgree(c)'
  <2>1. Calm(c)
    BY <1>0, <1>1, <1>2, <1>3, <1>4 DEF Calm, Going
  <2>2. StagesAgree(c) /\ c \in Nat /\ current \in Nat
    BY <1>0 DEF Inv, Capture
  <2>3. StagesAgree(c)'
    BY <1>0, <1>1, <1>2, <1>3, <1>4, <2>2 DEF StagesAgree, Ahead, Owned, OnDisk
  <2>. QED BY <2>1, <2>3, CalmStep
<1>7. SlotInv'
  BY <1>0, <1>1, <1>3, <1>4, SlotKept DEF Inv, Live
<1>. QED BY <1>0, <1>1, <1>5, <1>6, <1>7 DEF Inv, NoHoleOnDisk, ProducersIdle

\* The rest of close().
LEMMA CloseStep ==
    Inv /\ (CloseUnstarted \/ CloseCheck \/ CloseTimeout \/ SpuriousOwner \/ Join) => Inv'
<1>. SUFFICES ASSUME Inv, CloseUnstarted \/ CloseCheck \/ CloseTimeout \/ SpuriousOwner \/ Join
              PROVE  Inv'
  OBVIOUS
<1>0. Types /\ current \in Capture /\ ProducersIdle /\ StagesAgree(current)
  BY DEF Inv, Types
<1>1. /\ UNCHANGED <<writerBusy, current, state, worker, producer, disk>>
      /\ owner \in {"capturing", "waiting", "woken", "joining"}
      /\ owner' \in {"waiting", "woken", "joining", "closed"}
      /\ \A s \in Stream : producer[s].at = "idle"
  BY <1>0 DEF CloseUnstarted, CloseCheck, CloseTimeout, SpuriousOwner, Join, ProducersIdle
<1>2. /\ status' \in [Capture -> Status]
      /\ \A c \in Capture : /\ status'[c].submitted = status[c].submitted
                            /\ status'[c].rejected = status[c].rejected
                            /\ status'[c].finished = status[c].finished
                            /\ status'[c].failure = "None" => status[c].failure = "None"
      /\ \A c \in Capture \ {current} : status'[c] = status[c]
      /\ status[current].failure # "None" => status'[current].failure # "None"
  <2>1. \/ status' = status
        \/ status' = [status EXCEPT ![current] = Failed(status[current], "ShutdownTimeout")]
    BY DEF CloseUnstarted, CloseCheck, CloseTimeout, SpuriousOwner, Join
  <2>2. /\ Failed(status[current], "ShutdownTimeout") \in Status
        /\ Failed(status[current], "ShutdownTimeout").submitted = status[current].submitted
        /\ Failed(status[current], "ShutdownTimeout").rejected = status[current].rejected
        /\ Failed(status[current], "ShutdownTimeout").finished = status[current].finished
        /\ Failed(status[current], "ShutdownTimeout").failure # "None"
    BY <1>0 DEF Types, Failed, Status, Failure
  <2>. HIDE DEF Failed
  <2>. QED BY <1>0, <2>1, <2>2 DEF Types
<1>3. owner' = "closed" => worker[current].at = "exited" \/ status'[current].failure # "None"
  <2>1. CASE CloseUnstarted
    BY <1>0, <2>1 DEF CloseUnstarted, Joinable, StagesAgree, Ahead, Capture
  <2>2. CASE CloseTimeout /\ owner' = "closed"
    BY <1>0, <2>2 DEF CloseTimeout, Types, Failed, Status, Failure
  <2>. QED BY <2>1, <2>2 DEF CloseCheck, SpuriousOwner, Join, CloseTimeout
<1>4. Types'
  BY <1>0, <1>1, <1>2 DEF Types, OwnerStep
<1>5. ASSUME NEW c \in Capture
      PROVE  InOrder(c)' /\ NothingMissing(c)' /\ StagesAgree(c)'
  <2>1. Calm(c)
    BY <1>1, <1>2 DEF Calm
  <2>2. StagesAgree(c) /\ c \in Nat /\ current \in Nat
    BY <1>0 DEF Inv, Capture
  <2>3. StagesAgree(c)'
    BY <1>0, <1>1, <1>2, <1>3, <2>2 DEF StagesAgree, Ahead, Owned, OnDisk
  <2>. QED BY <2>1, <2>3, CalmStep
<1>6. SlotInv'
  BY <1>1, SlotKept DEF Inv, Live
<1>. QED BY <1>0, <1>1, <1>4, <1>5, <1>6 DEF Inv, NoHoleOnDisk, ProducersIdle

LEMMA NextCaptureStep == Inv /\ NextCapture => Inv'
<1>. SUFFICES ASSUME Inv, NextCapture PROVE Inv'
  OBVIOUS
<1>0. /\ Types /\ current \in Capture /\ owner = "closed" /\ StagesAgree(current)
      /\ \A s \in Stream : producer[s].at = "idle"
  BY DEF Inv, Types, NextCapture, ProducersIdle
<1>1. UNCHANGED <<writerBusy, state, status, worker, producer>>
  BY DEF NextCapture
<1>2. /\ disk' \in [Capture -> Disk]
      /\ \A c \in Capture : /\ disk'[c].records = disk[c].records
                            /\ disk'[c].report = disk[c].report
                            /\ disk'[c].marker => disk[c].marker \/ (c = current /\ Complete(c))
  <2>1. PICK requested \in BOOLEAN :
           disk' = [disk EXCEPT ![current].marker = requested /\ Complete(current)]
    BY DEF NextCapture
  <2>2. (requested /\ Complete(current)) \in BOOLEAN
    OBVIOUS
  <2>. QED BY <1>0, <2>1, <2>2 DEF Types, Disk
<1>3. /\ current \in Nat /\ Captures \in Nat
      /\ \/ current < Captures /\ current' = current + 1 /\ owner' = "constructing"
         \/ current = Captures /\ current' = current /\ owner' = "ended"
  BY <1>0, RecordingAssumption DEF NextCapture, Capture
<1>4. Types'
  BY <1>0, <1>1, <1>2, <1>3 DEF Types, OwnerStep, Capture
<1>5. ASSUME NEW c \in Capture
      PROVE  InOrder(c)' /\ NothingMissing(c)' /\ StagesAgree(c)'
  <2>1. Calm(c)
    BY <1>0, <1>1, <1>2 DEF Calm
  <2>2. StagesAgree(c) /\ c \in Nat
    BY <1>0 DEF Inv, Capture
  <2>3. StagesAgree(c)'
    BY <1>0, <1>1, <1>2, <1>3, <2>2 DEF StagesAgree, Ahead, Owned, OnDisk, Complete, Capture
  <2>. QED BY <2>1, <2>3, CalmStep
<1>6. SlotInv'
  BY <1>1, SlotKept DEF Inv, Live
<1>7. NoHoleOnDisk'
  BY <1>2 DEF Inv, NoHoleOnDisk
<1>. QED BY <1>0, <1>1, <1>4, <1>5, <1>6, <1>7 DEF Inv, ProducersIdle

-----------------------------------------------------------------------------
(* The worker thread, where no record moves.                                *)

\* Nothing of the other captures is touched by capture x.
Only(x) ==
    /\ \A c \in Capture \ {x} : /\ state'[c] = state[c] /\ status'[c] = status[c]
                                /\ worker'[c] = worker[c] /\ disk'[c] = disk[c]
    /\ UNCHANGED <<current, producer>>
    /\ owner' = owner \/ {owner, owner'} \subseteq {"waiting", "woken"}

\* What is left to prove of a step of capture x.
LEMMA OneCapture ==
    ASSUME Inv, NEW x \in Capture, Only(x), Types', SlotInv',
           InOrder(x)', NothingMissing(x)', StagesAgree(x)',
           \A s \in Stream : \A i \in DOMAIN disk'[x].records[s] : disk'[x].records[s][i] = i
    PROVE  Inv'
<1>1. ASSUME NEW c \in Capture
      PROVE  InOrder(c)' /\ NothingMissing(c)' /\ StagesAgree(c)'
  <2>1. c # x => Elsewhere(c)
    BY DEF Only, Elsewhere
  <2>. QED BY <2>1, ElsewhereStep
<1>2. NoHoleOnDisk'
  BY DEF Inv, NoHoleOnDisk, Only
<1>3. ProducersIdle'
  BY DEF Inv, ProducersIdle, Only
<1>. QED BY <1>1, <1>2, <1>3 DEF Inv

LEMMA OneCalmCapture ==
    ASSUME Inv, NEW x \in Capture, Only(x), Types', SlotInv', Calm(x), StagesAgree(x)'
    PROVE  Inv'
<1>1. InOrder(x)' /\ NothingMissing(x)'
  BY CalmStep
<1>2. \A s \in Stream : \A i \in DOMAIN disk'[x].records[s] : disk'[x].records[s][i] = i
  BY DEF Inv, NoHoleOnDisk, Calm
<1>. QED BY <1>1, <1>2, OneCapture

\* The worker of x goes from one place to another, and only that.
Moves(x, from, to) ==
    /\ worker[x].at = from
    /\ worker' = [worker EXCEPT ![x].at = to]

LEMMA Moved ==
    ASSUME Types, NEW x \in Capture, NEW from, NEW to \in WorkerStep \ {"write"}, Moves(x, from, to)
    PROVE  /\ worker' \in [Capture -> Worker] /\ worker'[x].at = to
           /\ worker'[x].taken = worker[x].taken
           /\ \A c \in Capture \ {x} : worker'[c] = worker[c]
           /\ \A c \in Capture : worker'[c].at = "write" => worker'[c].taken \in Record
  BY DEF Types, Worker, Moves

LEMMA DrainStep == ASSUME Inv, NEW x \in Capture, Drain(x) PROVE Inv'
<1>. DEFINE to == IF state[x].closing THEN "finish" ELSE "asleepDrain"
<1>0. Types /\ StagesAgree(x) /\ Moves(x, "drain", to) /\ to \in WorkerStep \ {"write"}
  BY DEF Inv, Drain, Runs, Moves, WorkerStep
<1>1. UNCHANGED <<writerBusy, current, owner, state, status, producer, disk>>
  BY DEF Drain
<1>2. /\ worker' \in [Capture -> Worker] /\ worker'[x].at = to
      /\ worker'[x].taken = worker[x].taken
      /\ \A c \in Capture \ {x} : worker'[c] = worker[c]
      /\ \A c \in Capture : worker'[c].at = "write" => worker'[c].taken \in Record
  BY <1>0, Moved
<1>3. Types' /\ Only(x) /\ Calm(x)
  BY <1>0, <1>1, <1>2 DEF Types, Only, Calm, Moves, Going
<1>4. SlotInv'
  BY <1>0, <1>1, <1>2, SlotKept DEF Inv, Live, Moves
<1>5. StagesAgree(x)'
  BY <1>0, <1>1, <1>2 DEF StagesAgree, Ahead, Owned, OnDisk, Moves
<1>. QED BY <1>3, <1>4, <1>5, OneCalmCapture

LEMMA DestroyStep == ASSUME Inv, NEW x \in Capture, Destroy(x) PROVE Inv'
<1>0. Types /\ StagesAgree(x) /\ Moves(x, "destroy", "publish")
  BY DEF Inv, Destroy, Runs, Moves
<1>1. UNCHANGED <<writerBusy, current, owner, state, status, producer, disk>>
  BY DEF Destroy
<1>2. /\ worker' \in [Capture -> Worker] /\ worker'[x].at = "publish"
      /\ worker'[x].taken = worker[x].taken
      /\ \A c \in Capture \ {x} : worker'[c] = worker[c]
      /\ \A c \in Capture : worker'[c].at = "write" => worker'[c].taken \in Record
  BY <1>0, Moved DEF WorkerStep
<1>3. Types' /\ Only(x) /\ Calm(x)
  BY <1>0, <1>1, <1>2 DEF Types, Only, Calm, Moves, Going
<1>4. SlotInv'
  BY <1>0, <1>1, <1>2, SlotKept DEF Inv, Live, Moves
<1>5. StagesAgree(x)'
  BY <1>0, <1>1, <1>2 DEF StagesAgree, Ahead, Owned, OnDisk, Moves
<1>. QED BY <1>3, <1>4, <1>5, OneCalmCapture

\* The slot is given back by the worker that holds it.
LEMMA ReleaseStep == ASSUME Inv, NEW x \in Capture, Release(x) PROVE Inv'
<1>0. Types /\ StagesAgree(x) /\ Moves(x, "release", "notify")
  BY DEF Inv, Release, Runs, Moves
<1>1. writerBusy' = FALSE /\ UNCHANGED <<current, owner, state, status, producer, disk>>
  BY DEF Release
<1>2. /\ worker' \in [Capture -> Worker] /\ worker'[x].at = "notify"
      /\ worker'[x].taken = worker[x].taken
      /\ \A c \in Capture \ {x} : worker'[c] = worker[c]
      /\ \A c \in Capture : worker'[c].at = "write" => worker'[c].taken \in Record
  BY <1>0, Moved DEF WorkerStep
<1>3. Types' /\ Only(x) /\ Calm(x)
  BY <1>0, <1>1, <1>2 DEF Types, Only, Calm, Moves, Going
<1>4. SlotInv'
  BY <1>0, <1>1, <1>2 DEF Inv, SlotInv, Live, Moves
<1>5. StagesAgree(x)'
  BY <1>0, <1>1, <1>2 DEF StagesAgree, Ahead, Owned, OnDisk, Moves
<1>. QED BY <1>3, <1>4, <1>5, OneCalmCapture

LEMMA NotifyStep == ASSUME Inv, NEW x \in Capture, Notify(x) PROVE Inv'
<1>0. Types /\ StagesAgree(x) /\ Moves(x, "notify", "exited")
  BY DEF Inv, Notify, Runs, Moves
<1>1. /\ UNCHANGED <<writerBusy, current, state, status, producer, disk>>
      /\ owner' = owner \/ (owner = "waiting" /\ owner' = "woken")
  BY DEF Notify
<1>2. /\ worker' \in [Capture -> Worker] /\ worker'[x].at = "exited"
      /\ worker'[x].taken = worker[x].taken
      /\ \A c \in Capture \ {x} : worker'[c] = worker[c]
      /\ \A c \in Capture : worker'[c].at = "write" => worker'[c].taken \in Record
  BY <1>0, Moved DEF WorkerStep
<1>3. Types' /\ Only(x) /\ Calm(x)
  BY <1>0, <1>1, <1>2 DEF Types, Only, Calm, Moves, Going, OwnerStep
<1>4. SlotInv'
  BY <1>0, <1>1, <1>2, SlotKept DEF Inv, Live, Moves
<1>5. StagesAgree(x)'
  BY <1>0, <1>1, <1>2 DEF StagesAgree, Ahead, Owned, OnDisk, Moves
<1>. QED BY <1>3, <1>4, <1>5, OneCalmCapture

\* A worker that wakes, or is held by a file operation, is where it was.
LEMMA IdleStep ==
    ASSUME Inv, NEW x \in Capture, SpuriousWorker(x) \/ GetStuck(x) \/ GetUnstuck(x)
    PROVE  Inv'
<1>0. Types /\ StagesAgree(x)
  BY DEF Inv
<1>1. UNCHANGED <<writerBusy, current, owner, state, status, producer, disk>>
  BY DEF SpuriousWorker, GetStuck, GetUnstuck
<1>2. /\ worker' \in [Capture -> Worker] /\ worker'[x].taken = worker[x].taken
      /\ \A c \in Capture \ {x} : worker'[c] = worker[c]
      /\ worker'[x].at = worker[x].at \/ (worker[x].at = "asleepTake" /\ worker'[x].at = "take")
            \/ (worker[x].at = "asleepDrain" /\ worker'[x].at = "drain")
  <2>1. CASE GetStuck(x) \/ GetUnstuck(x)
    <3>1. PICK b \in BOOLEAN : worker' = [worker EXCEPT ![x].stuck = b]
      BY <2>1 DEF GetStuck, GetUnstuck
    <3>2. worker \in [Capture -> Worker] /\ worker[x] \in Worker
      BY <1>0 DEF Types
    <3>. DEFINE r == [worker[x] EXCEPT !.stuck = b]
    <3>3. r \in Worker /\ r.taken = worker[x].taken /\ r.at = worker[x].at
      BY <3>2 DEF Worker
    <3>4. worker' = [worker EXCEPT ![x] = r]
      BY <3>1
    <3>. HIDE DEF r
    <3>. QED BY <3>2, <3>3, <3>4
  <2>2. CASE SpuriousWorker(x)
    <3>. DEFINE r == ReadyNotified(worker[x])
    <3>1. /\ r \in Worker /\ r.taken = worker[x].taken
          /\ r.at = CASE worker[x].at = "asleepTake"  -> "take"
                      [] worker[x].at = "asleepDrain" -> "drain"
                      [] OTHER -> worker[x].at
      BY <1>0, Notified DEF Types
    <3>2. worker' = [worker EXCEPT ![x] = r]
      BY <2>2 DEF SpuriousWorker
    <3>. HIDE DEF r
    <3>3. worker \in [Capture -> Worker]
      BY <1>0 DEF Types
    <3>4. worker' \in [Capture -> Worker] /\ worker'[x] = r
          /\ \A c \in Capture \ {x} : worker'[c] = worker[c]
      BY <3>1, <3>2, <3>3
    <3>. QED BY <3>1, <3>4
  <2>. QED BY <2>1, <2>2
<1>3. Types' /\ Only(x) /\ Calm(x)
  BY <1>0, <1>1, <1>2 DEF Types, Only, Calm, Going
<1>4. SlotInv'
  BY <1>0, <1>1, <1>2, SlotKept DEF Inv, Live
<1>5. StagesAgree(x)'
  BY <1>0, <1>1, <1>2 DEF StagesAgree, Ahead, Owned, OnDisk
<1>. QED BY <1>3, <1>4, <1>5, OneCalmCapture

\* fail() keeps the first reason, and all else.
LEMMA FailedFields ==
    ASSUME NEW st \in Status, NEW reason \in Failure \ {"None"}
    PROVE  LET r == Failed(st, reason)
           IN  /\ r \in Status /\ r.failure # "None" /\ r.finished = st.finished
               /\ r.submitted = st.submitted /\ r.written = st.written
               /\ r.rejected = st.rejected
  BY DEF Failed, Status, Failure

\* A drained queue whose files are in place is all that was submitted.
LEMMA FinishStep == ASSUME Inv, NEW x \in Capture, Finish(x) \/ FinishFails(x) PROVE Inv'
<1>0. /\ Types /\ StagesAgree(x) /\ Moves(x, "finish", "destroy")
      /\ InOrder(x) /\ NothingMissing(x) /\ ProducersIdle
  BY DEF Inv, Finish, FinishFails, Runs, Moves
<1>1. UNCHANGED <<writerBusy, current, owner, state, producer>>
  BY DEF Finish, FinishFails
<1>2. /\ worker' \in [Capture -> Worker] /\ worker'[x].at = "destroy"
      /\ worker'[x].taken = worker[x].taken
      /\ \A c \in Capture \ {x} : worker'[c] = worker[c]
      /\ \A c \in Capture : worker'[c].at = "write" => worker'[c].taken \in Record
  BY <1>0, Moved DEF WorkerStep
<1>. DEFINE f == Failed(status[x], "Storage")
<1>3. /\ status[x] \in Status /\ f \in Status /\ f.failure # "None"
      /\ f.finished = status[x].finished /\ f.submitted = status[x].submitted
      /\ f.rejected = status[x].rejected
  BY <1>0, FailedFields DEF Types, Failure
<1>. HIDE DEF f
<1>4. \E st \in {status[x], f} : status' = [status EXCEPT ![x] = st]
  BY DEF Finish, FinishFails, f
<1>5. /\ status' \in [Capture -> Status] /\ (status'[x] = status[x] \/ status'[x] = f)
      /\ \A c \in Capture \ {x} : status'[c] = status[c]
  BY <1>0, <1>3, <1>4 DEF Types
<1>6. \E r \in {"unfinished", "failed", "drained", disk[x].report} :
          /\ disk' = [disk EXCEPT ![x].report = r]
          /\ r = "drained" => status'[x].failure = "None" \/ r = disk[x].report
          /\ status'[x].failure = "None" => r = "drained"
  BY <1>3, <1>4, <1>5 DEF Finish, FinishFails, f
<1>7. /\ disk' \in [Capture -> Disk]
      /\ disk'[x].records = disk[x].records /\ disk'[x].marker = disk[x].marker
      /\ disk'[x].report = "drained" =>
            status'[x].failure = "None" \/ disk[x].report = "drained"
      /\ status'[x].failure = "None" => disk'[x].report = "drained"
      /\ \A c \in Capture \ {x} : disk'[c] = disk[c]
  <2>1. PICK r \in {"unfinished", "failed", "drained", disk[x].report} :
          /\ disk' = [disk EXCEPT ![x].report = r]
          /\ r = "drained" => status'[x].failure = "None" \/ r = disk[x].report
          /\ status'[x].failure = "None" => r = "drained"
    BY <1>6
  <2>2. disk[x] \in Disk /\ disk \in [Capture -> Disk]
    BY <1>0 DEF Types
  <2>3. r \in {"absent", "unfinished", "failed", "drained"}
    BY <2>2 DEF Disk
  <2>. DEFINE d == [disk[x] EXCEPT !.report = r]
  <2>4. /\ d \in Disk /\ d.records = disk[x].records /\ d.marker = disk[x].marker
        /\ d.report = r
    BY <2>2, <2>3 DEF Disk
  <2>5. disk' = [disk EXCEPT ![x] = d]
    BY <2>1
  <2>. HIDE DEF d
  <2>. QED BY <2>1, <2>2, <2>4, <2>5
<1>8. Types' /\ Only(x) /\ Calm(x)
  <2>1. Types'
    BY <1>0, <1>1, <1>2, <1>5, <1>7 DEF Types
  <2>2. Only(x)
    BY <1>1, <1>2, <1>5, <1>7 DEF Only
  <2>3. Calm(x)
    BY <1>0, <1>1, <1>2, <1>3, <1>5, <1>7 DEF Calm, Moves, Going
  <2>. QED BY <2>1, <2>2, <2>3
<1>9. SlotInv'
  BY <1>0, <1>1, <1>2, SlotKept DEF Inv, Live, Moves
<1>10. ASSUME status[x].failure = "None"
       PROVE  /\ status[x].rejected = Zero
              /\ \A s \in Stream : OnDisk(x, s) = status[x].submitted[s]
  <2>1. state[x].closing /\ state[x].queue = <<>> /\ worker[x].at = "finish"
    BY <1>0, <1>10 DEF StagesAgree, Moves
  <2>2. x = current => \A s \in Stream : producer[s].at = "idle"
    BY <1>0, <2>1 DEF StagesAgree, ProducersIdle
  <2>3. \A s \in Stream : \A n \in (OnDisk(x, s) + 1)..status[x].submitted[s] : FALSE
    BY <1>0, <1>10, <2>1, <2>2 DEF NothingMissing, Kept, Offering
  <2>4. ASSUME NEW s \in Stream PROVE OnDisk(x, s) = status[x].submitted[s]
    <3>1. OnDisk(x, s) \in Nat /\ status[x].submitted[s] \in Nat
      BY <1>0 DEF Types, Disk, Status, OnDisk
    <3>2. OnDisk(x, s) <= status[x].submitted[s]
      BY <1>0 DEF InOrder
    <3>3. OnDisk(x, s) < status[x].submitted[s] =>
             status[x].submitted[s] \in (OnDisk(x, s) + 1)..status[x].submitted[s]
      BY <3>1
    <3>. QED BY <2>3, <3>1, <3>2, <3>3
  <2>. QED BY <1>0, <1>10, <2>4 DEF NothingMissing
<1>11. StagesAgree(x)'
  BY <1>0, <1>1, <1>2, <1>3, <1>5, <1>7, <1>10 DEF StagesAgree, Ahead, Owned, OnDisk, Moves
<1>. QED BY <1>8, <1>9, <1>11, OneCalmCapture

-----------------------------------------------------------------------------
(* The worker thread, where records move.                                   *)

\* What the worker left in the queue when it stopped writing is thrown away.
LEMMA PublishDoneStep == ASSUME Inv, NEW x \in Capture, PublishDone(x) PROVE Inv'
<1>0. /\ Types /\ StagesAgree(x) /\ Moves(x, "publish", "release")
      /\ InOrder(x) /\ NothingMissing(x)
  BY DEF Inv, PublishDone, Runs, Moves
<1>1. /\ UNCHANGED <<writerBusy, current, owner, producer, disk>>
      /\ state' = [state EXCEPT ![x].queue = <<>>, ![x].done = TRUE]
      /\ status' = [status EXCEPT ![x].finished = TRUE]
  BY DEF PublishDone
<1>2. /\ worker' \in [Capture -> Worker] /\ worker'[x].at = "release"
      /\ worker'[x].taken = worker[x].taken
      /\ \A c \in Capture \ {x} : worker'[c] = worker[c]
      /\ \A c \in Capture : worker'[c].at = "write" => worker'[c].taken \in Record
  BY <1>0, Moved DEF WorkerStep
<1>3. /\ state' \in [Capture -> StateType] /\ state'[x].queue = <<>>
      /\ state'[x].closing = state[x].closing
      /\ \A c \in Capture \ {x} : state'[c] = state[c]
  <2>. DEFINE r == [state[x] EXCEPT !.queue = <<>>, !.done = TRUE]
  <2>1. state[x] \in StateType /\ <<>> \in Seq(Record)
    BY <1>0 DEF Types
  <2>2. r \in StateType /\ r.queue = <<>> /\ r.closing = state[x].closing
    BY <2>1 DEF StateType
  <2>3. state' = [state EXCEPT ![x] = r]
    BY <1>1
  <2>. HIDE DEF r
  <2>. QED BY <1>0, <2>2, <2>3 DEF Types
<1>4. /\ status' \in [Capture -> Status] /\ status'[x].finished
      /\ status'[x].failure = status[x].failure /\ status'[x].rejected = status[x].rejected
      /\ status'[x].submitted = status[x].submitted
      /\ \A c \in Capture \ {x} : status'[c] = status[c]
  BY <1>0, <1>1 DEF Types, Status
<1>5. Types' /\ Only(x)
  BY <1>0, <1>1, <1>2, <1>3, <1>4 DEF Types, Only
<1>6. SlotInv'
  BY <1>0, <1>1, <1>2, SlotKept DEF Inv, Live, Moves
<1>7. InOrder(x)'
  BY <1>0, <1>1, <1>2, <1>3, <1>4 DEF InOrder, OnDisk, Offering
<1>8. NothingMissing(x)'
  <2>1. status[x].failure = "None" =>
           \A s \in Stream : \A n \in (OnDisk(x, s) + 1)..status[x].submitted[s] : FALSE
    <3>1. status[x].failure = "None" =>
             \A s \in Stream : OnDisk(x, s) = status[x].submitted[s]
      BY <1>0 DEF StagesAgree, Moves
    <3>2. \A s \in Stream : status[x].submitted[s] \in Nat
      BY <1>0 DEF Types, Status
    <3>. QED BY <3>1, <3>2
  <2>. QED BY <1>0, <1>1, <1>2, <1>4, <2>1 DEF NothingMissing, OnDisk
<1>9. StagesAgree(x)'
  BY <1>0, <1>1, <1>2, <1>3, <1>4 DEF StagesAgree, Ahead, Owned, OnDisk, Moves
<1>10. \A s \in Stream : \A i \in DOMAIN disk'[x].records[s] : disk'[x].records[s][i] = i
  BY <1>1 DEF Inv, NoHoleOnDisk
<1>. QED BY <1>5, <1>6, <1>7, <1>8, <1>9, <1>10, OneCapture

\* The record that could not be written is lost, and so is what comes after it.
LEMMA WriteFailsStep == ASSUME Inv, NEW x \in Capture, WriteFails(x) PROVE Inv'
<1>0. Types /\ StagesAgree(x) /\ InOrder(x) /\ worker[x].at = "write"
  BY DEF Inv, WriteFails, Runs
<1>1. UNCHANGED <<writerBusy, current, owner, state, producer>>
  BY DEF WriteFails
<1>2. /\ worker' \in [Capture -> Worker] /\ worker'[x].at = "drain"
      /\ \A c \in Capture \ {x} : worker'[c] = worker[c]
  <2>1. worker' = [worker EXCEPT ![x].at = "drain", ![x].taken = NoRecord]
    BY DEF WriteFails
  <2>. QED BY <1>0, <2>1 DEF Types, Worker, WorkerStep, Held
<1>. DEFINE f == Failed(status[x], "Storage")
<1>3. /\ f \in Status /\ f.failure # "None" /\ f.finished = status[x].finished
      /\ f.submitted = status[x].submitted /\ f.rejected = status[x].rejected
  BY <1>0, FailedFields DEF Types, Failure
<1>4. status' = [status EXCEPT ![x] = f]
  BY DEF WriteFails
<1>. HIDE DEF f
<1>5. /\ status' \in [Capture -> Status] /\ status'[x] = f
      /\ \A c \in Capture \ {x} : status'[c] = status[c]
  BY <1>0, <1>3, <1>4 DEF Types
<1>6. /\ disk' \in [Capture -> Disk]
      /\ disk'[x].records = disk[x].records /\ disk'[x].marker = disk[x].marker
      /\ disk'[x].report \in {disk[x].report, "unfinished"}
      /\ \A c \in Capture \ {x} : disk'[c] = disk[c]
  <2>1. PICK r \in {disk[x].report, "unfinished"} : disk' = [disk EXCEPT ![x].report = r]
    BY DEF WriteFails
  <2>. QED BY <1>0, <2>1 DEF Types, Disk
<1>7. Types' /\ Only(x)
  BY <1>0, <1>1, <1>2, <1>5, <1>6 DEF Types, Only
<1>8. SlotInv'
  BY <1>0, <1>1, <1>2, SlotKept DEF Inv, Live
<1>9. InOrder(x)'
  BY <1>0, <1>1, <1>2, <1>3, <1>5, <1>6 DEF InOrder, OnDisk, Offering
<1>10. NothingMissing(x)'
  BY <1>2, <1>3, <1>5 DEF NothingMissing
<1>11. StagesAgree(x)'
  BY <1>0, <1>1, <1>2, <1>3, <1>5, <1>6 DEF StagesAgree, Ahead, Owned, OnDisk
<1>12. \A s \in Stream : \A i \in DOMAIN disk'[x].records[s] : disk'[x].records[s][i] = i
  BY <1>6 DEF Inv, NoHoleOnDisk
<1>. QED BY <1>7, <1>8, <1>9, <1>10, <1>11, <1>12, OneCapture

\* The first record of the queue is the next one of its stream, for none before it is
\* missing and none is ahead of it.
LEMMA TakeStep == ASSUME Inv, NEW x \in Capture, Take(x) PROVE Inv'
<1>0. /\ Types /\ StagesAgree(x) /\ InOrder(x) /\ NothingMissing(x) /\ worker[x].at = "take"
      /\ state[x] \in StateType /\ worker[x] \in Worker
  BY DEF Inv, Take, Runs, Types
<1>1. UNCHANGED <<writerBusy, current, owner, status, producer, disk>>
  BY DEF Take
<1>2. CASE state[x].queue = <<>>
  <2>. DEFINE to == IF state[x].closing THEN "drain" ELSE "asleepTake"
  <2>0. Moves(x, "take", to) /\ to \in WorkerStep \ {"write"} /\ state' = state
    BY <1>0, <1>2 DEF Take, Moves, WorkerStep
  <2>1. /\ worker' \in [Capture -> Worker] /\ worker'[x].at = to
        /\ worker'[x].taken = worker[x].taken
        /\ \A c \in Capture \ {x} : worker'[c] = worker[c]
        /\ \A c \in Capture : worker'[c].at = "write" => worker'[c].taken \in Record
    BY <1>0, <2>0, Moved
  <2>2. Types' /\ Only(x) /\ Calm(x)
    BY <1>0, <1>1, <1>2, <2>0, <2>1 DEF Types, Only, Calm, Going
  <2>3. SlotInv'
    BY <1>0, <1>1, <2>1, SlotKept DEF Inv, Live
  <2>4. StagesAgree(x)'
    BY <1>0, <1>1, <1>2, <2>0, <2>1 DEF StagesAgree, Ahead, Owned, OnDisk
  <2>. QED BY <2>2, <2>3, <2>4, OneCalmCapture
<1>3. CASE state[x].queue # <<>>
  <2>. DEFINE q == state[x].queue
              h == Head(q)
              t == Tail(q)
  <2>1. /\ q \in Seq(Record) /\ h \in Record /\ h = q[1] /\ 1 \in DOMAIN q
        /\ t \in Seq(Record)
        /\ \A i \in DOMAIN t : i + 1 \in DOMAIN q /\ t[i] = q[i + 1]
        /\ \A i \in DOMAIN q : i = 1 \/ (i - 1 \in DOMAIN t /\ t[i - 1] = q[i])
        /\ \A i \in DOMAIN q : i \in Nat \ {0} /\ q[i] \in Record
        /\ \A i \in DOMAIN t : i \in Nat \ {0}
    BY <1>0, <1>3 DEF StateType
  <2>2. /\ state' = [state EXCEPT ![x].queue = t, ![x].bytes = @ - h.size]
        /\ worker' = [worker EXCEPT ![x].at = "write", ![x].taken = h]
    BY <1>3 DEF Take
  <2>3. /\ state' \in [Capture -> StateType] /\ state'[x].queue = t
        /\ state'[x].closing = state[x].closing
        /\ \A c \in Capture \ {x} : state'[c] = state[c]
    <3>. DEFINE r == [state[x] EXCEPT !.queue = t, !.bytes = @ - h.size]
    <3>0. h.size \in Nat
      BY <2>1, RecordingAssumption DEF Record
    <3>. HIDE DEF t, h
    <3>1. state[x].bytes - h.size \in Int
      BY <1>0, <3>0 DEF StateType
    <3>2. r \in StateType /\ r.queue = t /\ r.closing = state[x].closing
      BY <1>0, <2>1, <3>1 DEF StateType
    <3>3. state' = [state EXCEPT ![x] = r]
      BY <2>2
    <3>. HIDE DEF r
    <3>. QED BY <1>0, <3>2, <3>3 DEF Types
  <2>4. /\ worker' \in [Capture -> Worker] /\ worker'[x].at = "write"
        /\ worker'[x].taken = h
        /\ \A c \in Capture \ {x} : worker'[c] = worker[c]
    <3>. HIDE DEF h
    <3>. QED BY <1>0, <2>1, <2>2 DEF Types, Worker, WorkerStep, Held
  <2>. HIDE DEF q, h, t
  <2>5. Types' /\ Only(x)
    BY <1>0, <1>1, <2>1, <2>3, <2>4 DEF Types, Only
  <2>6. SlotInv'
    BY <1>0, <1>1, <2>4, SlotKept DEF Inv, Live
  <2>7. /\ \A s \in Stream : OnDisk(x, s) \in Nat /\ status[x].submitted[s] \in Nat
        /\ \A i \in DOMAIN q : q[i].number \in Nat /\ q[i].stream \in Stream
        /\ h.number \in Nat /\ h.stream \in Stream
    <3>1. disk[x] \in Disk /\ status[x] \in Status
      BY <1>0 DEF Types
    <3>2. \A s \in Stream : OnDisk(x, s) \in Nat /\ status[x].submitted[s] \in Nat
      BY <3>1 DEF Disk, Status, OnDisk
    <3>3. \A r \in Record : r.number \in Nat /\ r.stream \in Stream
      BY DEF Record
    <3>. QED BY <2>1, <3>2, <3>3
  <2>8. h.number = OnDisk(x, h.stream) + 1
    <3>1. h.number > OnDisk(x, h.stream)
      BY <1>0, <2>1 DEF InOrder, q
    <3>2. ASSUME h.number > OnDisk(x, h.stream) + 1 PROVE FALSE
      <4>. DEFINE n == OnDisk(x, h.stream) + 1
      <4>1. n \in (OnDisk(x, h.stream) + 1)..(h.number - 1)
        BY <2>7, <3>2
      <4>2. Kept(x, h.stream, n)
        BY <1>0, <2>1, <4>1 DEF NothingMissing, q
      <4>3. PICK i \in DOMAIN q : q[i].stream = h.stream /\ q[i].number = n
        BY <1>0, <4>2 DEF Kept, q
      <4>4. i # 1
        BY <2>1, <2>7, <3>2, <4>3
      <4>5. h.number < q[i].number
        <5>1. 1 < i
          BY <2>1, <4>3, <4>4
        <5>. QED BY <1>0, <2>1, <4>3, <5>1 DEF InOrder, q
      <4>. QED BY <2>7, <3>2, <4>3, <4>5
    <3>. QED BY <2>7, <3>1, <3>2
  <2>9. InOrder(x)'
    <3>1. \A i \in DOMAIN t : t[i].stream = h.stream => h.number < t[i].number
      BY <1>0, <2>1 DEF InOrder, q
    <3>2. /\ h.number <= status[x].submitted[h.stream]
          /\ \A i \in DOMAIN t : /\ t[i].number > OnDisk(x, t[i].stream)
                                 /\ t[i].number <= status[x].submitted[t[i].stream]
      BY <1>0, <2>1 DEF InOrder, q
    <3>4. ASSUME NEW i \in DOMAIN t, NEW j \in DOMAIN t, i < j, t[i].stream = t[j].stream
          PROVE  t[i].number < t[j].number
      <4>1. /\ i + 1 \in DOMAIN q /\ t[i] = q[i + 1] /\ j + 1 \in DOMAIN q /\ t[j] = q[j + 1]
            /\ i + 1 < j + 1
        BY <2>1, <3>4
      <4>. QED BY <1>0, <3>4, <4>1 DEF InOrder, q
    <3>3. \A s \in Stream : Offering(x, s) =>
             LET record == producer[s].record
             IN  /\ record.stream = s /\ record.number = status[x].submitted[s]
                 /\ OnDisk(x, s) < record.number
                 /\ \A i \in DOMAIN t : t[i].stream = s => t[i].number < record.number
                 /\ h.stream = s => h.number < record.number
      BY <1>0, <2>1 DEF InOrder, q
    <3>. QED BY <1>0, <1>1, <2>3, <2>4, <2>8, <3>1, <3>2, <3>3, <3>4 DEF InOrder, OnDisk, Offering
  <2>10. NothingMissing(x)'
    <3>. DEFINE records == disk[x].records
                submitted == status[x].submitted
    <3>1. /\ Gapless(q, FALSE, worker[x].taken, records)
          /\ status[x].failure = "None" =>
                /\ status[x].rejected = Zero
                /\ Whole(q, FALSE, worker[x].taken, records, submitted, x = current, producer)
      <4>1. (worker[x].at = "write") = FALSE /\ worker[x].at \in Going
        BY <1>0 DEF Going
      <4>. QED BY <1>0, <4>1, ByValues DEF q
    <3>2. ASSUME NEW s \in Stream, NEW n \in Nat, KeptIn(q, FALSE, worker[x].taken, s, n)
          PROVE  KeptIn(t, TRUE, h, s, n)
      <4>1. PICK i \in DOMAIN q : q[i].stream = s /\ q[i].number = n
        BY <3>2 DEF KeptIn
      <4>2. i = 1 \/ (i - 1 \in DOMAIN t /\ t[i - 1] = q[i])
        BY <2>1
      <4>. QED BY <2>1, <4>1, <4>2 DEF KeptIn
    <3>3. ASSUME NEW s \in Stream, NEW n \in (Len(records[s]) + 1)..submitted[s]
          PROVE  n \in Nat
      BY <2>7 DEF OnDisk
    <3>4. Gapless(t, TRUE, h, records)
      <4>. SUFFICES ASSUME NEW i \in DOMAIN t,
                           NEW n \in (Len(records[t[i].stream]) + 1)..(t[i].number - 1)
                    PROVE  KeptIn(t, TRUE, h, t[i].stream, n)
        BY DEF Gapless
      <4>1. i + 1 \in DOMAIN q /\ t[i] = q[i + 1]
        BY <2>1
      <4>2. t[i].stream \in Stream /\ n \in Nat
        BY <2>7, <4>1 DEF OnDisk
      <4>3. KeptIn(q, FALSE, worker[x].taken, t[i].stream, n)
        BY <3>1, <4>1 DEF Gapless
      <4>. QED BY <3>2, <4>2, <4>3
    <3>5. status[x].failure = "None" =>
             Whole(t, TRUE, h, records, submitted, x = current, producer)
      BY <3>1, <3>2, <3>3 DEF Whole
    <3>6. (worker'[x].at = "write") = TRUE
      BY <2>4
    <3>. QED BY <1>1, <2>3, <2>4, <3>1, <3>4, <3>5, <3>6, ByValuesNext
  <2>11. StagesAgree(x)'
    BY <1>0, <1>1, <2>3, <2>4 DEF StagesAgree, Ahead, Owned, OnDisk
  <2>12. \A s \in Stream : \A i \in DOMAIN disk'[x].records[s] : disk'[x].records[s][i] = i
    BY <1>1 DEF Inv, NoHoleOnDisk
  <2>. QED BY <2>5, <2>6, <2>9, <2>10, <2>11, <2>12, OneCapture
<1>. QED BY <1>2, <1>3

\* The record taken goes to the end of its stream's file.
LEMMA WriteStep == ASSUME Inv, NEW x \in Capture, Write(x) PROVE Inv'
<1>. DEFINE h == worker[x].taken
            q == state[x].queue
            records == disk[x].records
            submitted == status[x].submitted
            s0 == h.stream
<1>0. /\ Types /\ StagesAgree(x) /\ worker[x].at = "write"
      /\ InOrder(x) /\ NothingMissing(x)
      /\ h \in Record /\ disk[x] \in Disk /\ status[x] \in Status
      /\ state[x] \in StateType
  BY DEF Inv, Write, Runs, Types
<1>1. UNCHANGED <<writerBusy, current, owner, state, producer>>
  BY DEF Write
<1>2. /\ worker' \in [Capture -> Worker] /\ worker'[x].at = "take"
      /\ \A c \in Capture \ {x} : worker'[c] = worker[c]
  <2>1. worker' = [worker EXCEPT ![x].at = "take", ![x].taken = NoRecord]
    BY DEF Write
  <2>. QED BY <1>0, <2>1 DEF Types, Worker, WorkerStep, Held
<1>3. h.stream \in Stream /\ h.number \in Nat
  BY <1>0 DEF Record
<1>4. /\ status' \in [Capture -> Status]
      /\ status'[x].submitted = submitted /\ status'[x].failure = status[x].failure
      /\ status'[x].rejected = status[x].rejected /\ status'[x].finished = status[x].finished
      /\ \A c \in Capture \ {x} : status'[c] = status[c]
  <2>. DEFINE st == [status[x] EXCEPT !.written[s0] = @ + 1]
  <2>1. /\ st \in Status /\ st.submitted = submitted /\ st.failure = status[x].failure
        /\ st.rejected = status[x].rejected /\ st.finished = status[x].finished
    BY <1>0, <1>3 DEF Status
  <2>2. status' = [status EXCEPT ![x] = st]
    BY DEF Write
  <2>. HIDE DEF st
  <2>. QED BY <1>0, <2>1, <2>2 DEF Types
<1>. DEFINE records2 == [records EXCEPT ![s0] = Append(@, h.number)]
<1>5. /\ disk' \in [Capture -> Disk]
      /\ disk'[x].records = records2 /\ disk'[x].marker = disk[x].marker
      /\ disk'[x].report = "unfinished"
      /\ \A c \in Capture \ {x} : disk'[c] = disk[c]
  <2>. DEFINE d == [disk[x] EXCEPT !.records[s0] = Append(@, h.number), !.report = "unfinished"]
  <2>1. /\ d \in Disk /\ d.records = records2 /\ d.marker = disk[x].marker
        /\ d.report = "unfinished"
    <3>1. records \in [Stream -> Seq(Nat)] /\ records2 \in [Stream -> Seq(Nat)]
      BY <1>0, <1>3 DEF Disk
    <3>. QED BY <1>0, <3>1 DEF Disk
  <2>2. disk' = [disk EXCEPT ![x] = d]
    BY DEF Write
  <2>. HIDE DEF d
  <2>. QED BY <1>0, <2>1, <2>2 DEF Types
<1>6. /\ \A s \in Stream : Len(records[s]) \in Nat /\ submitted[s] \in Nat
      /\ \A i \in DOMAIN q : q[i].stream \in Stream /\ q[i].number \in Nat
  <2>1. \A s \in Stream : records[s] \in Seq(Nat) /\ submitted[s] \in Nat
    BY <1>0 DEF Disk, Status
  <2>2. \A i \in DOMAIN q : q[i] \in Record
    BY <1>0 DEF StateType
  <2>. QED BY <2>1, <2>2 DEF Record
<1>7. /\ Len(records2[s0]) = Len(records[s0]) + 1
      /\ \A s \in Stream \ {s0} : records2[s] = records[s]
      /\ \A i \in DOMAIN records2[s0] :
            records2[s0][i] = IF i = Len(records[s0]) + 1 THEN h.number ELSE records[s0][i]
      /\ \A i \in DOMAIN records2[s0] :
            i # Len(records[s0]) + 1 => i \in DOMAIN records[s0]
  <2>1. records \in [Stream -> Seq(Nat)]
    BY <1>0 DEF Disk
  <2>2. /\ records2[s0] = Append(records[s0], h.number)
        /\ \A s \in Stream \ {s0} : records2[s] = records[s]
    BY <1>3, <2>1
  <2>. DEFINE r == records[s0]
  <2>3. r \in Seq(Nat) /\ h.number \in Nat
    BY <1>3, <2>1
  <2>4. LET a == Append(r, h.number)
        IN  /\ Len(a) = Len(r) + 1
            /\ \A i \in DOMAIN a : a[i] = IF i = Len(r) + 1 THEN h.number ELSE r[i]
            /\ \A i \in DOMAIN a : i # Len(r) + 1 => i \in DOMAIN r
    <3>. HIDE DEF r, h
    <3>. QED BY <2>3
  <2>. HIDE DEF records2
  <2>. QED BY <2>2, <2>4
<1>8. /\ Ordered(q, TRUE, h, records, submitted)
      /\ \A s \in Stream : x = current /\ producer[s].at # "idle" =>
            Offered(s, producer[s].record, q, TRUE, h, records, submitted)
      /\ Gapless(q, TRUE, h, records)
      /\ status[x].failure = "None" =>
            /\ status[x].rejected = Zero
            /\ Whole(q, TRUE, h, records, submitted, x = current, producer)
  <2>1. (worker[x].at = "write") = TRUE /\ worker[x].at \in Going
    BY <1>0 DEF Going
  <2>. QED BY <1>0, <2>1, ByValues
<1>9. Types' /\ Only(x)
  BY <1>0, <1>1, <1>2, <1>4, <1>5 DEF Types, Only
<1>10. SlotInv'
  BY <1>0, <1>1, <1>2, SlotKept DEF Inv, Live
<1>11. h.number = Len(records[s0]) + 1 /\ h.number <= submitted[s0]
  BY <1>8 DEF Ordered
<1>12. state'[x].queue = q /\ producer' = producer /\ current' = current
  BY <1>1
<1>. HIDE DEF records2, records, submitted, q, h
<1>13. Ordered(q, FALSE, worker'[x].taken, records2, submitted)
  BY <1>3, <1>6, <1>7, <1>8, <1>11 DEF Ordered
<1>14. \A s \in Stream : x = current /\ producer[s].at # "idle" =>
            Offered(s, producer[s].record, q, FALSE, worker'[x].taken, records2, submitted)
  BY <1>3, <1>6, <1>7, <1>8, <1>11 DEF Offered
<1>15. ASSUME NEW s \in Stream, NEW n \in Nat, n >= Len(records2[s]) + 1, KeptIn(q, TRUE, h, s, n)
       PROVE  n >= Len(records[s]) + 1 /\ KeptIn(q, FALSE, worker'[x].taken, s, n)
  BY <1>3, <1>6, <1>7, <1>11, <1>15 DEF KeptIn
<1>15a. \A s \in Stream : Len(records2[s]) \in Nat /\ Len(records2[s]) >= Len(records[s])
  BY <1>3, <1>6, <1>7
<1>16. Gapless(q, FALSE, worker'[x].taken, records2)
  <2>. SUFFICES ASSUME NEW i \in DOMAIN q,
                       NEW n \in (Len(records2[q[i].stream]) + 1)..(q[i].number - 1)
                PROVE  KeptIn(q, FALSE, worker'[x].taken, q[i].stream, n)
    BY DEF Gapless
  <2>1. /\ n \in Nat /\ n >= Len(records2[q[i].stream]) + 1 /\ q[i].stream \in Stream
        /\ n \in (Len(records[q[i].stream]) + 1)..(q[i].number - 1)
    BY <1>6, <1>15a
  <2>2. KeptIn(q, TRUE, h, q[i].stream, n)
    BY <1>8, <2>1 DEF Gapless
  <2>. QED BY <1>15, <2>1, <2>2
<1>17. status[x].failure = "None" =>
          Whole(q, FALSE, worker'[x].taken, records2, submitted, x = current, producer)
  <2>. SUFFICES ASSUME status[x].failure = "None",
                       NEW s \in Stream, NEW n \in (Len(records2[s]) + 1)..submitted[s]
                PROVE  \/ KeptIn(q, FALSE, worker'[x].taken, s, n)
                       \/ x = current /\ producer[s].at # "idle" /\ producer[s].record.number = n
    BY DEF Whole
  <2>1. /\ n \in Nat /\ n >= Len(records2[s]) + 1
        /\ n \in (Len(records[s]) + 1)..submitted[s]
    BY <1>6, <1>15a
  <2>2. \/ KeptIn(q, TRUE, h, s, n)
        \/ x = current /\ producer[s].at # "idle" /\ producer[s].record.number = n
    BY <1>8, <2>1 DEF Whole
  <2>. QED BY <1>15, <2>1, <2>2
<1>18. InOrder(x)' /\ NothingMissing(x)'
  <2>1. (worker'[x].at = "write") = FALSE
    BY <1>2
  <2>. QED BY <1>4, <1>5, <1>8, <1>12, <1>13, <1>14, <1>16, <1>17, <2>1, ByValuesNext
<1>19. StagesAgree(x)'
  BY <1>0, <1>1, <1>2, <1>4, <1>5 DEF StagesAgree, Ahead, Owned, OnDisk, submitted
<1>20. \A s \in Stream : \A i \in DOMAIN disk'[x].records[s] : disk'[x].records[s][i] = i
  <2>1. \A s \in Stream : \A i \in DOMAIN records[s] : records[s][i] = i
    BY DEF Inv, NoHoleOnDisk, records
  <2>2. \A i \in DOMAIN records2[s0] : records2[s0][i] = i
    BY <1>3, <1>7, <1>11, <2>1
  <2>. QED BY <1>5, <1>7, <2>1, <2>2
<1>. QED BY <1>9, <1>10, <1>18, <1>19, <1>20, OneCapture

-----------------------------------------------------------------------------
(* The producers.                                                           *)

\* A step of the producer of stream p.
Produces(p) ==
    /\ owner = "capturing" /\ UNCHANGED <<writerBusy, current, owner, disk>>
    /\ \A c \in Capture \ {current} : /\ state'[c] = state[c] /\ status'[c] = status[c]
                                      /\ worker'[c] = worker[c]
    /\ \A s \in Stream \ {p} : producer'[s] = producer[s]

\* While the producers run, the recording either accepts records, and its worker is
\* writing them, or has failed.
LEMMA Capturing ==
    ASSUME Inv, owner = "capturing"
    PROVE  /\ Types /\ current \in Capture /\ ~state[current].closing
           /\ disk[current].report # "drained" /\ ~disk[current].marker
           /\ Active(current) <=> status[current].failure = "None"
           /\ Active(current) => worker[current].at \in Going
           /\ worker[current].at \in {"none", "asleepDrain", "drain"} \cup Going
           /\ Owned(current) /\ ~Ahead(current)
<1>1. Types /\ current \in Capture /\ StagesAgree(current)
  BY DEF Inv, Types
<1>2. current \in Nat /\ worker[current].at \in WorkerStep
  BY <1>1 DEF Types, Capture, Worker
<1>. QED BY <1>1, <1>2 DEF StagesAgree, Ahead, Owned, Active, Going, WorkerStep

\* What is left to prove of a step of a producer.
LEMMA OneProducer ==
    ASSUME Inv, NEW p \in Stream, Produces(p), Types', SlotInv',
           InOrder(current)', NothingMissing(current)',
           state'[current].closing = state[current].closing,
           status'[current].finished = status[current].finished,
           status'[current].failure = "None" => status[current].failure = "None",
           \/ worker'[current].at = worker[current].at
           \/ worker[current].at = "asleepTake" /\ worker'[current].at = "take",
           worker[current].at = "none" =>
              /\ state'[current].queue = state[current].queue
              /\ status'[current].submitted = status[current].submitted
    PROVE  Inv'
<1>1. /\ owner = "capturing" /\ UNCHANGED <<writerBusy, current, owner, disk>>
      /\ \A c \in Capture \ {current} : /\ state'[c] = state[c] /\ status'[c] = status[c]
                                        /\ worker'[c] = worker[c]
  BY DEF Produces
<1>2. /\ current \in Capture /\ ~state[current].closing
      /\ disk[current].report # "drained" /\ ~disk[current].marker
      /\ worker[current].at \in {"none", "asleepDrain", "drain"} \cup Going
      /\ Active(current) <=> status[current].failure = "None"
      /\ Active(current) => worker[current].at \in Going
      /\ Owned(current) /\ ~Ahead(current) /\ StagesAgree(current)
  BY <1>1, Capturing DEF Inv
<1>3. StagesAgree(current)'
  BY <1>1, <1>2 DEF StagesAgree, Ahead, Owned, OnDisk, Going, Active
<1>4. ASSUME NEW c \in Capture, c # current
      PROVE  InOrder(c)' /\ NothingMissing(c)' /\ StagesAgree(c)'
  <2>1. InOrder(c) /\ NothingMissing(c) /\ StagesAgree(c)
    BY DEF Inv
  <2>. DEFINE q == state[c].queue
              writing == worker[c].at = "write"
              taken == worker[c].taken
              records == disk[c].records
              submitted == status[c].submitted
  <2>2. (c = current) = FALSE /\ (c = current') = FALSE
    BY <1>1, <1>4
  <2>3. \A u, v : Whole(q, writing, taken, records, submitted, FALSE, u) =>
                  Whole(q, writing, taken, records, submitted, FALSE, v)
    BY DEF Whole
  <2>4. /\ Ordered(q, writing, taken, records, submitted)
        /\ worker[c].at \in Going => Gapless(q, writing, taken, records)
        /\ status[c].failure = "None" =>
              /\ status[c].rejected = Zero
              /\ Whole(q, writing, taken, records, submitted, FALSE, producer')
    BY <2>1, <2>2, <2>3, ByValues
  <2>5. /\ state'[c].queue = q /\ (worker'[c].at = "write") = writing
        /\ worker'[c].taken = taken /\ disk'[c].records = records
        /\ status'[c].submitted = submitted
        /\ worker'[c] = worker[c] /\ status'[c] = status[c]
    BY <1>1, <1>4
  <2>6. InOrder(c)' /\ NothingMissing(c)'
    <3>. HIDE DEF q, writing, taken, records, submitted
    <3>. QED BY <2>2, <2>4, <2>5, ByValuesNext
  <2>7. StagesAgree(c)'
    BY <1>1, <1>4, <2>1 DEF StagesAgree, Ahead, Owned, OnDisk
  <2>. QED BY <2>6, <2>7
<1>5. NoHoleOnDisk' /\ ProducersIdle'
  BY <1>1 DEF Inv, NoHoleOnDisk, ProducersIdle
<1>. QED BY <1>1, <1>3, <1>4, <1>5 DEF Inv

\* The parts of the current capture, by values.
LEMMA CurrentByValues ==
    ASSUME Inv
    PROVE  LET q == state[current].queue
               writing == worker[current].at = "write"
               taken == worker[current].taken
               records == disk[current].records
               submitted == status[current].submitted
           IN  /\ Ordered(q, writing, taken, records, submitted)
               /\ \A s \in Stream : producer[s].at # "idle" =>
                     Offered(s, producer[s].record, q, writing, taken, records, submitted)
               /\ worker[current].at \in Going => Gapless(q, writing, taken, records)
               /\ status[current].failure = "None" =>
                     /\ status[current].rejected = Zero
                     /\ Whole(q, writing, taken, records, submitted, TRUE, producer)
               /\ \A s \in Stream : Len(records[s]) \in Nat /\ submitted[s] \in Nat
               /\ \A i \in DOMAIN q : q[i] \in Record /\ q[i].stream \in Stream
                                      /\ q[i].number \in Nat
               /\ writing => taken.number \in Nat /\ taken.stream \in Stream
<1>1. current \in Capture /\ Types /\ InOrder(current) /\ NothingMissing(current)
  BY DEF Inv, Types
<1>2. (current = current) = TRUE
  OBVIOUS
<1>3. /\ disk[current] \in Disk /\ status[current] \in Status /\ state[current] \in StateType
      /\ worker[current].at = "write" => worker[current].taken \in Record
  BY <1>1 DEF Types
<1>4. \A s \in Stream : Len(disk[current].records[s]) \in Nat
                        /\ status[current].submitted[s] \in Nat
  BY <1>3 DEF Disk, Status
<1>5. \A i \in DOMAIN state[current].queue : state[current].queue[i] \in Record
  BY <1>3 DEF StateType
<1>6. \A r \in Record : r.number \in Nat /\ r.stream \in Stream
  BY DEF Record
<1>. QED BY <1>1, <1>2, <1>3, <1>4, <1>5, <1>6, ByValues

\* A record that is given up disqualifies the recording.
LEMMA GivenUp ==
    ASSUME Inv, NEW p \in Stream, producer[p].at # "idle",
           producer' = [producer EXCEPT ![p] = IdleProducer],
           status' = [status EXCEPT ![current] =
               Rejected(IF Active(current) THEN Failed(status[current], "Backlog")
                                           ELSE status[current], p)],
           UNCHANGED <<writerBusy, current, owner, state, worker, disk>>
    PROVE  Inv'
<1>0. owner = "capturing"
  BY DEF Inv, ProducersIdle
<1>1. /\ Types /\ current \in Capture
      /\ Active(current) <=> status[current].failure = "None"
  BY <1>0, Capturing
<1>. DEFINE st == IF Active(current) THEN Failed(status[current], "Backlog")
                                     ELSE status[current]
            r == Rejected(st, p)
<1>2. /\ st \in Status /\ st.failure # "None" /\ st.finished = status[current].finished
      /\ st.submitted = status[current].submitted
  BY <1>1, FailedFields DEF Types, Failure
<1>. HIDE DEF st
<1>3. /\ r \in Status /\ r.failure # "None" /\ r.finished = status[current].finished
      /\ r.submitted = status[current].submitted
  BY <1>2 DEF Rejected, Status
<1>4. status' = [status EXCEPT ![current] = r]
  BY DEF st
<1>. HIDE DEF r
<1>5. /\ status' \in [Capture -> Status] /\ status'[current] = r
      /\ \A c \in Capture \ {current} : status'[c] = status[c]
  BY <1>1, <1>3, <1>4 DEF Types
<1>6. /\ producer' \in [Stream -> Producer] /\ producer'[p].at = "idle"
      /\ \A s \in Stream \ {p} : producer'[s] = producer[s]
  BY <1>1 DEF Types, Producer, IdleProducer, Held
<1>7. Types' /\ Produces(p)
  BY <1>0, <1>1, <1>5, <1>6 DEF Types, Produces
<1>8. SlotInv'
  BY SlotKept DEF Inv, Live
<1>9. InOrder(current)' /\ NothingMissing(current)'
  <2>. DEFINE q == state[current].queue
              writing == worker[current].at = "write"
              taken == worker[current].taken
              records == disk[current].records
              submitted == status[current].submitted
  <2>1. /\ Ordered(q, writing, taken, records, submitted)
        /\ \A s \in Stream : producer'[s].at # "idle" =>
              Offered(s, producer'[s].record, q, writing, taken, records, submitted)
        /\ worker[current].at \in Going => Gapless(q, writing, taken, records)
    BY <1>6, CurrentByValues
  <2>2. status'[current].submitted = submitted /\ status'[current].failure # "None"
    BY <1>3, <1>5
  <2>3. /\ state'[current].queue = q /\ (worker'[current].at = "write") = writing
        /\ worker'[current].taken = taken /\ disk'[current].records = records
        /\ current' = current /\ worker' = worker
    OBVIOUS
  <2>. HIDE DEF q, writing, taken, records, submitted
  <2>. QED BY <1>1, <2>1, <2>2, <2>3, ByValuesNext
<1>. QED BY <1>3, <1>5, <1>7, <1>8, <1>9, OneProducer

LEMMA OfferStep == ASSUME Inv, NEW p \in Stream, NEW size \in Size, Offer(p, size) PROVE Inv'
<1>. DEFINE q == state[current].queue
            writing == worker[current].at = "write"
            taken == worker[current].taken
            records == disk[current].records
            submitted == status[current].submitted
            number == submitted[p] + 1
            record == [stream |-> p, size |-> size, number |-> number]
            submitted2 == [submitted EXCEPT ![p] = number]
<1>0. /\ owner = "capturing" /\ producer[p].at = "idle" /\ Active(current)
      /\ UNCHANGED <<writerBusy, current, owner, state, worker, disk>>
  BY DEF Offer
<1>1. /\ Types /\ current \in Capture /\ worker[current].at \in Going
      /\ status[current].failure = "None" /\ status[current] \in Status
  BY <1>0, Capturing DEF Types
<1>2. /\ status' = [status EXCEPT ![current].submitted[p] = number]
      /\ producer' = [producer EXCEPT ![p] = [at |-> "offered", record |-> record]]
  BY DEF Offer
<1>3. submitted \in [Stream -> Nat] /\ number \in Nat /\ submitted2 \in [Stream -> Nat]
  BY <1>1 DEF Status
<1>4. record \in Record /\ record.stream = p /\ record.number = number
  BY <1>3 DEF Record
<1>5. /\ status' \in [Capture -> Status]
      /\ status'[current].submitted = submitted2
      /\ status'[current].failure = "None"
      /\ status'[current].rejected = status[current].rejected
      /\ status'[current].finished = status[current].finished
      /\ \A c \in Capture \ {current} : status'[c] = status[c]
  <2>. DEFINE st == [status[current] EXCEPT !.submitted[p] = number]
  <2>1. /\ st \in Status /\ st.submitted = submitted2 /\ st.failure = "None"
        /\ st.rejected = status[current].rejected /\ st.finished = status[current].finished
    BY <1>1, <1>3 DEF Status
  <2>2. status' = [status EXCEPT ![current] = st]
    BY <1>2
  <2>. HIDE DEF st
  <2>. QED BY <1>1, <2>1, <2>2 DEF Types
<1>. HIDE DEF record
<1>6. /\ producer' \in [Stream -> Producer] /\ producer'[p].at = "offered"
      /\ producer'[p].record = record
      /\ \A s \in Stream \ {p} : producer'[s] = producer[s]
  BY <1>1, <1>2, <1>4 DEF Types, Producer, Held
<1>7. Types' /\ Produces(p)
  BY <1>0, <1>1, <1>4, <1>5, <1>6 DEF Types, Produces
<1>8. SlotInv'
  BY <1>0, SlotKept DEF Inv, Live
<1>9. /\ Ordered(q, writing, taken, records, submitted)
      /\ \A s \in Stream : producer[s].at # "idle" =>
            Offered(s, producer[s].record, q, writing, taken, records, submitted)
      /\ Gapless(q, writing, taken, records)
      /\ status[current].rejected = Zero
      /\ Whole(q, writing, taken, records, submitted, TRUE, producer)
      /\ \A s \in Stream : Len(records[s]) \in Nat /\ submitted[s] \in Nat
      /\ \A i \in DOMAIN q : q[i].stream \in Stream /\ q[i].number \in Nat
      /\ writing => taken.number \in Nat /\ taken.stream \in Stream
  BY <1>1, CurrentByValues
<1>10. submitted2[p] = number /\ \A s \in Stream \ {p} : submitted2[s] = submitted[s]
  BY <1>3
<1>11. /\ state'[current].queue = q /\ (worker'[current].at = "write") = writing
       /\ worker'[current].taken = taken /\ disk'[current].records = records
       /\ current' = current /\ worker' = worker
  BY <1>0
<1>. HIDE DEF q, writing, taken, records, submitted, submitted2
<1>12. Ordered(q, writing, taken, records, submitted2)
  BY <1>9, <1>10 DEF Ordered
<1>13. ASSUME NEW s \in Stream, producer'[s].at # "idle"
       PROVE  Offered(s, producer'[s].record, q, writing, taken, records, submitted2)
  <2>1. CASE s # p
    BY <1>6, <1>9, <1>10, <1>13, <2>1 DEF Offered
  <2>2. CASE s = p
    BY <1>4, <1>6, <1>9, <1>10, <2>2 DEF Offered, Ordered
  <2>. QED BY <2>1, <2>2
<1>14. Whole(q, writing, taken, records, submitted2, TRUE, producer')
  <2>. SUFFICES ASSUME NEW s \in Stream, NEW n \in (Len(records[s]) + 1)..submitted2[s]
                PROVE  \/ KeptIn(q, writing, taken, s, n)
                       \/ producer'[s].at # "idle" /\ producer'[s].record.number = n
    BY DEF Whole
  <2>1. CASE s # p
    BY <1>6, <1>9, <1>10, <2>1 DEF Whole
  <2>2. CASE s = p /\ n = number
    BY <1>4, <1>6, <2>2
  <2>3. CASE s = p /\ n # number
    <3>1. n \in (Len(records[s]) + 1)..submitted[s]
      BY <1>9, <1>10, <2>3
    <3>. QED BY <1>0, <1>9, <2>3, <3>1 DEF Whole
  <2>. QED BY <2>1, <2>2, <2>3
<1>15. InOrder(current)' /\ NothingMissing(current)'
  <2>1. (current = current') = TRUE
    BY <1>11
  <2>. QED BY <1>1, <1>5, <1>9, <1>11, <1>12, <1>13, <1>14, <2>1, ByValuesNext
<1>. QED BY <1>0, <1>1, <1>5, <1>7, <1>8, <1>15, OneProducer DEF Going

LEMMA CheckOfferStep == ASSUME Inv, NEW p \in Stream, CheckOffer(p) PROVE Inv'
<1>0. /\ producer[p].at = "offered" /\ owner = "capturing"
      /\ UNCHANGED <<writerBusy, current, owner, state, worker, disk>>
  BY DEF CheckOffer, Inv, ProducersIdle
<1>1. CASE Active(current) /\ producer[p].record.size <= ByteLimit
  <2>1. Types /\ current \in Capture
    BY <1>0, Capturing
  <2>2. producer' = [producer EXCEPT ![p].at = "locking"] /\ status' = status
    BY <1>1 DEF CheckOffer
  <2>3. /\ producer' \in [Stream -> Producer]
        /\ \A s \in Stream : /\ producer'[s].record = producer[s].record
                             /\ producer'[s].at = "idle" <=> producer[s].at = "idle"
        /\ \A s \in Stream \ {p} : producer'[s] = producer[s]
    BY <1>0, <2>1, <2>2 DEF Types, Producer
  <2>4. Types' /\ Produces(p)
    BY <1>0, <2>1, <2>2, <2>3 DEF Types, Produces
  <2>5. SlotInv'
    BY <1>0, SlotKept DEF Inv, Live
  <2>6. InOrder(current) /\ NothingMissing(current)
    BY <2>1 DEF Inv
  <2>7. InOrder(current)'
    BY <1>0, <2>2, <2>3, <2>6 DEF InOrder, OnDisk, Offering
  <2>8. NothingMissing(current)'
    BY <1>0, <2>2, <2>3, <2>6 DEF NothingMissing, OnDisk, Offering, Kept
  <2>. QED BY <1>0, <2>2, <2>4, <2>5, <2>7, <2>8, OneProducer
<1>2. CASE ~(Active(current) /\ producer[p].record.size <= ByteLimit)
  BY <1>0, <1>2, GivenUp DEF CheckOffer
<1>. QED BY <1>1, <1>2

\* The record goes behind all the records of its stream, and none is missing before it.
LEMMA EnqueueStep == ASSUME Inv, NEW p \in Stream, Enqueue(p) PROVE Inv'
<1>. DEFINE q == state[current].queue
            writing == worker[current].at = "write"
            taken == worker[current].taken
            records == disk[current].records
            submitted == status[current].submitted
            record == producer[p].record
            q2 == Append(q, record)
<1>0. /\ producer[p].at = "locking" /\ owner = "capturing"
      /\ UNCHANGED <<writerBusy, current, owner, disk>>
      /\ producer' = [producer EXCEPT ![p] = IdleProducer]
  BY DEF Enqueue, Inv, ProducersIdle
<1>1. Types /\ current \in Capture /\ record \in Record
  BY <1>0, Capturing DEF Types
<1>2. CASE ~(Active(current) /\ ~Full(state[current], record.size))
  BY <1>0, <1>2, GivenUp DEF Enqueue
<1>3. CASE Active(current) /\ ~Full(state[current], record.size)
  <2>1. /\ state' = [state EXCEPT ![current].queue = q2, ![current].bytes = @ + record.size]
        /\ worker' = [worker EXCEPT ![current] = ReadyNotified(worker[current])]
        /\ status' = status
    BY <1>3 DEF Enqueue
  <2>2. /\ status[current].failure = "None" /\ worker[current].at \in Going
        /\ state[current] \in StateType /\ q \in Seq(Record)
    BY <1>0, <1>1, <1>3, Capturing DEF Types, StateType
  <2>3. /\ state' \in [Capture -> StateType] /\ state'[current].queue = q2
        /\ state'[current].closing = state[current].closing
        /\ \A c \in Capture \ {current} : state'[c] = state[c]
    <3>. DEFINE st == [state[current] EXCEPT !.queue = q2, !.bytes = @ + record.size]
    <3>1. q2 \in Seq(Record) /\ record.size \in Nat
      <4>1. record.size \in Nat
        BY <1>1, RecordingAssumption DEF Record
      <4>. HIDE DEF q, record
      <4>. QED BY <1>1, <2>2, <4>1
    <3>. HIDE DEF q2, record
    <3>2. state[current].bytes + record.size \in Int
      BY <2>2, <3>1 DEF StateType
    <3>3. st \in StateType /\ st.queue = q2 /\ st.closing = state[current].closing
      BY <2>2, <3>1, <3>2 DEF StateType
    <3>4. state' = [state EXCEPT ![current] = st]
      BY <2>1
    <3>. HIDE DEF st
    <3>. QED BY <1>1, <3>3, <3>4 DEF Types
  <2>. DEFINE w == ReadyNotified(worker[current])
  <2>4. /\ w \in Worker /\ w.taken = taken
        /\ w.at = CASE worker[current].at = "asleepTake"  -> "take"
                    [] worker[current].at = "asleepDrain" -> "drain"
                    [] OTHER -> worker[current].at
    BY <1>1, Notified DEF Types
  <2>. HIDE DEF w
  <2>5. /\ worker' \in [Capture -> Worker] /\ worker'[current].taken = taken
        /\ \/ worker'[current].at = worker[current].at
           \/ worker[current].at = "asleepTake" /\ worker'[current].at = "take"
        /\ \A c \in Capture \ {current} : worker'[c] = worker[c]
    BY <1>1, <2>1, <2>2, <2>4 DEF Types, w, Going
  <2>6. /\ producer' \in [Stream -> Producer] /\ producer'[p].at = "idle"
        /\ \A s \in Stream \ {p} : producer'[s] = producer[s]
    BY <1>0, <1>1 DEF Types, Producer, IdleProducer, Held
  <2>7. Types' /\ Produces(p)
    BY <1>0, <1>1, <2>1, <2>3, <2>5, <2>6 DEF Types, Produces
  <2>8. SlotInv'
    BY <1>0, <2>5, SlotKept DEF Inv, Live
  <2>9. /\ Ordered(q, writing, taken, records, submitted)
        /\ \A s \in Stream : producer[s].at # "idle" =>
              Offered(s, producer[s].record, q, writing, taken, records, submitted)
        /\ Gapless(q, writing, taken, records)
        /\ status[current].rejected = Zero
        /\ Whole(q, writing, taken, records, submitted, TRUE, producer)
        /\ \A s \in Stream : Len(records[s]) \in Nat /\ submitted[s] \in Nat
        /\ \A i \in DOMAIN q : q[i].stream \in Stream /\ q[i].number \in Nat
    BY <2>2, CurrentByValues
  <2>10. record.stream \in Stream /\ record.number \in Nat
    BY <1>1 DEF Record
  <2>11. Offered(p, record, q, writing, taken, records, submitted)
    BY <1>0, <2>9
  <2>12. /\ Len(q) \in Nat /\ DOMAIN q = 1..Len(q) /\ DOMAIN q2 = 1..(Len(q) + 1)
         /\ q2[Len(q) + 1] = record
         /\ \A i \in DOMAIN q : i \in DOMAIN q2 /\ q2[i] = q[i]
         /\ \A i \in DOMAIN q2 : i \in DOMAIN q \/ i = Len(q) + 1
    <3>. HIDE DEF q, record
    <3>. QED BY <1>1, <2>2
  <2>13. /\ state'[current].queue = q2 /\ (worker'[current].at = "write") = writing
         /\ worker'[current].taken = taken /\ disk'[current].records = records
         /\ status'[current] = status[current] /\ (current = current') = TRUE
         /\ current' = current /\ status'[current].submitted = submitted
    BY <1>0, <2>1, <2>3, <2>5
  <2>. HIDE DEF q, q2, writing, taken, records, submitted, record
  <2>14. Ordered(q2, writing, taken, records, submitted)
    <3>1. ASSUME NEW i \in DOMAIN q2
          PROVE  /\ q2[i].number > Len(records[q2[i].stream])
                 /\ q2[i].number <= submitted[q2[i].stream]
                 /\ writing /\ q2[i].stream = taken.stream => taken.number < q2[i].number
      <4>1. CASE i \in DOMAIN q
        BY <2>9, <2>12, <4>1 DEF Ordered
      <4>2. CASE i = Len(q) + 1
        BY <2>9, <2>10, <2>11, <2>12, <4>2 DEF Offered
      <4>. QED BY <2>12, <4>1, <4>2
    <3>2. ASSUME NEW i \in DOMAIN q2, NEW j \in DOMAIN q2, i < j, q2[i].stream = q2[j].stream
          PROVE  q2[i].number < q2[j].number
      <4>1. i \in DOMAIN q
        BY <2>12, <3>2
      <4>2. CASE j \in DOMAIN q
        BY <2>9, <2>12, <3>2, <4>1, <4>2 DEF Ordered
      <4>3. CASE j = Len(q) + 1
        BY <2>11, <2>12, <3>2, <4>1, <4>3 DEF Offered
      <4>. QED BY <2>12, <4>2, <4>3
    <3>. QED BY <2>9, <3>1, <3>2 DEF Ordered
  <2>15. ASSUME NEW s \in Stream, producer'[s].at # "idle"
         PROVE  Offered(s, producer'[s].record, q2, writing, taken, records, submitted)
    <3>1. s # p /\ producer'[s] = producer[s]
      BY <2>6, <2>15
    <3>2. Offered(s, producer'[s].record, q, writing, taken, records, submitted)
      BY <2>9, <2>15, <3>1
    <3>3. ASSUME NEW i \in DOMAIN q2, q2[i].stream = s PROVE q2[i].number < producer'[s].record.number
      BY <2>11, <2>12, <3>1, <3>2, <3>3 DEF Offered
    <3>. QED BY <3>2, <3>3 DEF Offered
  <2>16. ASSUME NEW s \in Stream, NEW n \in Nat, KeptIn(q, writing, taken, s, n)
         PROVE  KeptIn(q2, writing, taken, s, n)
    BY <2>12, <2>16 DEF KeptIn
  <2>17. Gapless(q2, writing, taken, records)
    <3>. SUFFICES ASSUME NEW i \in DOMAIN q2,
                         NEW n \in (Len(records[q2[i].stream]) + 1)..(q2[i].number - 1)
                  PROVE  KeptIn(q2, writing, taken, q2[i].stream, n)
      BY DEF Gapless
    <3>1. CASE i \in DOMAIN q
      <4>1. q2[i] = q[i] /\ q[i].stream \in Stream /\ n \in Nat
        BY <2>9, <2>12, <3>1
      <4>2. KeptIn(q, writing, taken, q[i].stream, n)
        BY <2>9, <3>1, <4>1 DEF Gapless
      <4>. QED BY <2>16, <4>1, <4>2
    <3>2. CASE i = Len(q) + 1
      <4>1. q2[i] = record /\ record.stream = p /\ record.number = submitted[p]
        BY <2>11, <2>12, <3>2 DEF Offered
      <4>2. n \in Nat /\ n # record.number /\ n \in (Len(records[p]) + 1)..submitted[p]
        BY <2>9, <4>1
      <4>3. KeptIn(q, writing, taken, p, n)
        BY <2>9, <4>2 DEF Whole, record
      <4>. QED BY <2>16, <4>1, <4>2, <4>3
    <3>. QED BY <2>12, <3>1, <3>2
  <2>18. Whole(q2, writing, taken, records, submitted, TRUE, producer')
    <3>. SUFFICES ASSUME NEW s \in Stream, NEW n \in (Len(records[s]) + 1)..submitted[s]
                  PROVE  \/ KeptIn(q2, writing, taken, s, n)
                         \/ producer'[s].at # "idle" /\ producer'[s].record.number = n
      BY DEF Whole
    <3>1. n \in Nat
      BY <2>9
    <3>2. \/ KeptIn(q, writing, taken, s, n)
          \/ producer[s].at # "idle" /\ producer[s].record.number = n
      BY <2>9 DEF Whole
    <3>3. CASE s = p /\ producer[s].record.number = n
      <4>1. Len(q) + 1 \in DOMAIN q2
        BY <2>12
      <4>. QED BY <2>11, <2>12, <3>3, <4>1 DEF KeptIn, Offered, record
    <3>. QED BY <2>6, <2>16, <3>1, <3>2, <3>3
  <2>19. InOrder(current)' /\ NothingMissing(current)'
    BY <1>1, <2>9, <2>13, <2>14, <2>15, <2>17, <2>18, ByValuesNext
  <2>. QED BY <2>1, <2>2, <2>3, <2>5, <2>7, <2>8, <2>19, OneProducer DEF Going
<1>. QED BY <1>2, <1>3

-----------------------------------------------------------------------------
(* The invariant holds.                                                     *)

LEMMA InitInv == Init => Inv
<1>. SUFFICES ASSUME Init PROVE Inv
  OBVIOUS
<1>1. \A c \in Capture : state[c] = NewState /\ status[c] = NewStatus /\ worker[c] = NewWorker
                         /\ disk[c] = NewDisk
  BY DEF Init
<1>2. \A s \in Stream : producer[s] = IdleProducer
  BY DEF Init
<1>3. /\ NewState \in StateType /\ NewWorker \in Worker /\ NewStatus \in Status
      /\ IdleProducer \in Producer
  BY DEF NewState, StateType, NewWorker, Worker, WorkerStep, Held, NewStatus, Status, Zero,
         Failure, IdleProducer, Producer
<1>4. NewDisk \in Disk
  BY DEF NewDisk, Disk
<1>5. Captures \in Nat \ {0} /\ Captures >= 1
  BY RecordingAssumption
<1>6. 1 \in Capture
  BY <1>5 DEF Capture
<1>7. Types
  BY <1>1, <1>2, <1>3, <1>4, <1>6 DEF Init, Types, OwnerStep, NewWorker, IdleProducer
<1>8. NoHoleOnDisk /\ ProducersIdle
  BY <1>1, <1>2 DEF NoHoleOnDisk, NewDisk, ProducersIdle, IdleProducer
<1>9. SlotInv
  BY <1>1 DEF Init, SlotInv, Live, NewWorker
<1>10. ASSUME NEW c \in Capture PROVE InOrder(c) /\ NothingMissing(c) /\ StagesAgree(c)
  <2>1. /\ state[c].queue = <<>> /\ ~state[c].closing
        /\ worker[c].at = "none"
        /\ \A s \in Stream : disk[c].records[s] = <<>>
        /\ disk[c].report = "absent" /\ ~disk[c].marker
        /\ status[c].failure = "None" /\ ~status[c].finished
        /\ status[c].submitted = Zero /\ status[c].rejected = Zero
    BY <1>1 DEF NewState, NewWorker, NewDisk, NewStatus
  <2>2. \A s \in Stream : OnDisk(c, s) = 0 /\ status[c].submitted[s] = 0
    BY <2>1 DEF OnDisk, Zero
  <2>3. c \in Nat /\ c >= 1 /\ current = 1 /\ owner = "constructing"
    BY DEF Capture, Init
  <2>4. InOrder(c)
    BY <1>2, <2>1, <2>2 DEF InOrder, Offering, IdleProducer
  <2>5. NothingMissing(c)
    BY <2>1, <2>2 DEF NothingMissing
  <2>6. StagesAgree(c)
    BY <2>1, <2>3 DEF StagesAgree, Ahead, Owned
  <2>. QED BY <2>4, <2>5, <2>6
<1>. QED BY <1>7, <1>8, <1>9, <1>10 DEF Inv

LEMMA StepInv == Inv /\ [Next]_vars => Inv'
<1>. SUFFICES ASSUME Inv, [Next]_vars PROVE Inv'
  OBVIOUS
<1>1. CASE OwnerNext \/ SpuriousOwner
  BY <1>1, ConstructStep, CloseBeginStep, CloseStep, NextCaptureStep DEF OwnerNext
<1>2. ASSUME NEW s \in Stream, ProducerNext(s) PROVE Inv'
  BY <1>2, OfferStep, CheckOfferStep, EnqueueStep DEF ProducerNext
<1>3. ASSUME NEW c \in Capture, WorkerNext(c) PROVE Inv'
  BY <1>3, TakeStep, WriteStep, WriteFailsStep, DrainStep, FinishStep, DestroyStep,
     PublishDoneStep, ReleaseStep, NotifyStep DEF WorkerNext
<1>4. ASSUME NEW c \in Capture, SpuriousWorker(c) \/ GetStuck(c) \/ GetUnstuck(c) PROVE Inv'
  BY <1>4, IdleStep
<1>5. CASE UNCHANGED vars
  BY <1>5 DEF vars, Inv, Types, NoHoleOnDisk, SlotInv, Live, ProducersIdle, InOrder,
     NothingMissing, StagesAgree, OnDisk, Offering, Kept, Ahead, Owned
<1>. QED BY <1>1, <1>2, <1>3, <1>4, <1>5 DEF Next

LEMMA Invariant == Spec => []Inv
  BY InitInv, StepInv, PTL DEF Spec

-----------------------------------------------------------------------------
(* The status.                                                              *)

\* No step takes a failure back, and only two finish a recording.
StatusFollows(c) ==
    /\ status[c].failure # "None" => status'[c].failure # "None"
    /\ status'[c].finished = status[c].finished

\* The two: a recording that finds no writer free, and one whose worker is done.
Finishing == Construct \/ \E x \in Capture : PublishDone(x)

LEMMA StatusStep ==
    ASSUME Inv, Next, ~Finishing, NEW c \in Capture
    PROVE  StatusFollows(c)
<1>0. status \in [Capture -> Status] /\ current \in Capture
  BY DEF Inv, Types
<1>. DEFINE Follows(st, u) == /\ u.failure # "None" => st.failure # "None"
                              /\ st.finished = u.finished
<1>1. ASSUME NEW x \in Capture, NEW st,
             status' = [status EXCEPT ![x] = st], Follows(st, status[x])
      PROVE  StatusFollows(c)
  BY <1>0, <1>1 DEF StatusFollows
<1>2. \A x \in Capture : /\ Follows(Failed(status[x], "ShutdownTimeout"), status[x])
                         /\ Follows(Failed(status[x], "Backlog"), status[x])
                         /\ Follows(Failed(status[x], "Storage"), status[x])
  BY <1>0, FailedFields DEF Failure
<1>. HIDE DEF Follows
<1>3. CASE status' = status
  BY <1>3 DEF StatusFollows
<1>4. CASE OwnerNext \/ SpuriousOwner
  <2>1. CASE CloseTimeout
    BY <1>0, <1>1, <1>2, <1>3, <2>1 DEF CloseTimeout
  <2>2. CASE CloseBegin \/ CloseUnstarted \/ CloseCheck \/ SpuriousOwner \/ Join \/ NextCapture
    BY <1>3, <2>2 DEF CloseBegin, CloseUnstarted, CloseCheck, SpuriousOwner, Join, NextCapture
  <2>. QED BY <1>4, <2>1, <2>2 DEF OwnerNext, Finishing
<1>5. ASSUME NEW s \in Stream, ProducerNext(s) PROVE StatusFollows(c)
  <2>1. ASSUME NEW size \in Size, Offer(s, size) PROVE StatusFollows(c)
    <3>. DEFINE st == [status[current] EXCEPT !.submitted[s] = status[current].submitted[s] + 1]
    <3>1. status' = [status EXCEPT ![current] = st]
      BY <2>1 DEF Offer
    <3>2. Follows(st, status[current])
      BY <1>0 DEF Status, Follows
    <3>. HIDE DEF st
    <3>. QED BY <1>0, <1>1, <3>1, <3>2
  <2>2. CASE status' = [status EXCEPT ![current] =
                  Rejected(IF Active(current) THEN Failed(status[current], "Backlog")
                                              ELSE status[current], s)]
    <3>1. ASSUME NEW st \in Status
          PROVE  Rejected(st, s).failure = st.failure /\ Rejected(st, s).finished = st.finished
      BY DEF Rejected, Status
    <3>2. status[current] \in Status /\ Failed(status[current], "Backlog") \in Status
      BY <1>0, FailedFields DEF Failure
    <3>. DEFINE st == IF Active(current) THEN Failed(status[current], "Backlog")
                                        ELSE status[current]
    <3>3. Rejected(st, s).failure = st.failure /\ Rejected(st, s).finished = st.finished
      BY <3>1, <3>2
    <3>4. Follows(st, status[current])
      BY <1>0, <1>2 DEF Follows
    <3>. HIDE DEF Rejected, Failed, st
    <3>5. Follows(Rejected(st, s), status[current])
      BY <3>3, <3>4 DEF Follows
    <3>. QED BY <1>0, <1>1, <2>2, <3>5 DEF st
  <2>. QED BY <1>3, <1>5, <2>1, <2>2 DEF ProducerNext, CheckOffer, Enqueue
<1>6. ASSUME NEW x \in Capture, WorkerNext(x) PROVE StatusFollows(c)
  <2>1. CASE Write(x)
    <3>. DEFINE s == worker[x].taken.stream
                st == [status[x] EXCEPT !.written[s] = status[x].written[s] + 1]
    <3>1. status' = [status EXCEPT ![x] = st]
      BY <2>1 DEF Write
    <3>2. Follows(st, status[x])
      BY <1>0 DEF Status, Follows
    <3>. HIDE DEF st
    <3>. QED BY <1>1, <3>1, <3>2
  <2>2. CASE WriteFails(x) \/ Finish(x) \/ FinishFails(x)
    BY <1>0, <1>1, <1>2, <1>3, <2>2 DEF WriteFails, Finish, FinishFails
  <2>3. CASE Take(x) \/ Drain(x) \/ Destroy(x) \/ Release(x) \/ Notify(x)
    BY <1>3, <2>3 DEF Take, Drain, Destroy, Release, Notify
  <2>. QED BY <1>6, <2>1, <2>2, <2>3 DEF WorkerNext, Finishing
<1>7. ASSUME NEW x \in Capture, SpuriousWorker(x) \/ GetStuck(x) \/ GetUnstuck(x)
      PROVE  StatusFollows(c)
  BY <1>3, <1>7 DEF SpuriousWorker, GetStuck, GetUnstuck
<1>. QED BY <1>4, <1>5, <1>6, <1>7 DEF Next

\* What the two do to the status.
LEMMA FinishingStep ==
    ASSUME Inv
    PROVE  /\ Construct =>
                /\ \A c \in Capture \ {current} :
                      status'[c] = status[c] /\ state'[c] = state[c] /\ worker'[c] = worker[c]
                /\ IF writerBusy
                   THEN /\ status'[current].finished
                        /\ status'[current].failure # "None"
                        /\ state'[current] = [state[current] EXCEPT !.done = TRUE]
                        /\ worker' = worker
                   ELSE status' = status /\ state' = state
           /\ \A x \in Capture : PublishDone(x) =>
                /\ \A c \in Capture \ {x} :
                      status'[c] = status[c] /\ state'[c] = state[c] /\ worker'[c] = worker[c]
                /\ status'[x] = [status[x] EXCEPT !.finished = TRUE]
                /\ state'[x] = [state[x] EXCEPT !.queue = <<>>, !.done = TRUE]
                /\ worker'[x].at = "release"
<1>0. /\ status \in [Capture -> Status] /\ current \in Capture
      /\ state \in [Capture -> StateType] /\ worker \in [Capture -> Worker]
  BY DEF Inv, Types
<1>1. ASSUME Construct, writerBusy
      PROVE  /\ status'[current].finished /\ status'[current].failure # "None"
             /\ state'[current] = [state[current] EXCEPT !.done = TRUE]
             /\ worker' = worker
             /\ \A c \in Capture \ {current} : status'[c] = status[c] /\ state'[c] = state[c]
  <2>. DEFINE st == [Failed(status[current], "WriterBusy") EXCEPT !.finished = TRUE]
  <2>1. st.finished /\ st.failure # "None"
    BY <1>0 DEF Failed, Status
  <2>2. /\ status' = [status EXCEPT ![current] = st]
        /\ state' = [state EXCEPT ![current] = [state[current] EXCEPT !.done = TRUE]]
        /\ worker' = worker
    BY <1>1 DEF Construct, SlotTaken
  <2>. HIDE DEF st
  <2>. QED BY <1>0, <2>1, <2>2
<1>2. ASSUME Construct, ~writerBusy
      PROVE  /\ status' = status /\ state' = state
             /\ \A c \in Capture \ {current} : worker'[c] = worker[c]
  BY <1>0, <1>2 DEF Construct, SlotTaken
<1>3. ASSUME NEW x \in Capture, PublishDone(x)
      PROVE  /\ \A c \in Capture \ {x} :
                   status'[c] = status[c] /\ state'[c] = state[c] /\ worker'[c] = worker[c]
             /\ status'[x] = [status[x] EXCEPT !.finished = TRUE]
             /\ state'[x] = [state[x] EXCEPT !.queue = <<>>, !.done = TRUE]
             /\ worker'[x].at = "release"
  BY <1>0, <1>3 DEF PublishDone, Worker
<1>. QED BY <1>1, <1>2, <1>3

\* No step takes a failure back.
LEMMA FailureStays ==
    ASSUME Inv, Next, NEW c \in Capture, status[c].failure # "None"
    PROVE  status'[c].failure # "None"
<1>0. status \in [Capture -> Status] /\ current \in Capture
  BY DEF Inv, Types
<1>1. CASE ~Finishing
  BY <1>1, StatusStep DEF StatusFollows
<1>2. CASE Construct
  BY <1>0, <1>2, FinishingStep
<1>3. ASSUME NEW x \in Capture, PublishDone(x) PROVE status'[c].failure # "None"
  <2>1. [status[x] EXCEPT !.finished = TRUE].failure = status[x].failure
    BY <1>0 DEF Status
  <2>. QED BY <1>3, <2>1, FinishingStep
<1>. QED BY <1>1, <1>2, <1>3 DEF Finishing

-----------------------------------------------------------------------------
(***************************************************************************)
(* The byte count.  A recording that is done keeps a stale count and takes *)
(* and gives no more records.                                              *)
(***************************************************************************)
Resting == {"none", "release", "notify", "exited"}

\* BytesMatchQueue, with running totals that only grow.
CountsBytes(queue, bytes) ==
    \E total \in RunningTotals(queue) :
        /\ bytes = total[Len(queue)]
        /\ \A i, j \in 0..Len(queue) : i <= j => total[i] <= total[j]

BytesInv(c) ==
    /\ state[c].bytes \in Nat
    /\ state[c].done = status[c].finished
    /\ state[c].done => worker[c].at \in Resting
    /\ ~state[c].done => CountsBytes(state[c].queue, state[c].bytes)

LEMMA SizesAreNumbers == ByteLimit \in Nat /\ \A record \in Record : record.size \in Nat
<1>1. Size \subseteq Nat /\ ByteLimit \in Nat
  BY RecordingAssumption
<1>. QED BY <1>1 DEF Record

\* A record that fits the limit is counted when it joins the queue.
LEMMA AppendCounts ==
    ASSUME NEW queue \in Seq(Record), NEW bytes \in Nat, CountsBytes(queue, bytes),
           NEW record \in Record, ~(record.size > ByteLimit - bytes)
    PROVE  /\ bytes + record.size \in Nat
           /\ CountsBytes(Append(queue, record), bytes + record.size)
<1>0. record.size \in Nat /\ ByteLimit \in Nat /\ Len(queue) \in Nat
  BY SizesAreNumbers
<1>1. PICK total \in RunningTotals(queue) :
         /\ bytes = total[Len(queue)]
         /\ \A i, j \in 0..Len(queue) : i <= j => total[i] <= total[j]
  BY DEF CountsBytes
<1>. DEFINE n == Len(queue)
            q == Append(queue, record)
            sum == bytes + record.size
            next == [i \in 0..(n + 1) |-> IF i = n + 1 THEN sum ELSE total[i]]
<1>2. /\ total \in [0..n -> 0..ByteLimit] /\ total[0] = 0
      /\ \A i \in 1..n : total[i] = total[i - 1] + queue[i].size
  BY <1>1 DEF RunningTotals
<1>3. Len(q) = n + 1 /\ q[n + 1] = record /\ \A i \in 1..n : q[i] = queue[i]
  OBVIOUS
<1>. HIDE DEF q
<1>4. n \in 0..n /\ sum \in 0..ByteLimit /\ sum \in Nat
  BY <1>0
<1>5. /\ next \in [0..(n + 1) -> 0..ByteLimit] /\ next[n + 1] = sum
      /\ \A i \in 0..n : next[i] = total[i]
  <2>1. \A i \in 0..(n + 1) : i = n + 1 \/ i \in 0..n
    BY <1>0
  <2>2. n + 1 \in 0..(n + 1) /\ \A i \in 0..n : i \in 0..(n + 1) /\ i # n + 1
    BY <1>0
  <2>. QED BY <1>2, <1>4, <2>1, <2>2
<1>. HIDE DEF next
<1>6. next[0] = 0
  BY <1>0, <1>2, <1>5
<1>7. ASSUME NEW i \in 1..(n + 1) PROVE next[i] = next[i - 1] + q[i].size
  <2>1. CASE i = n + 1
    <3>1. i - 1 = n
      BY <1>0, <2>1
    <3>. QED BY <1>1, <1>3, <1>4, <1>5, <2>1, <3>1
  <2>2. CASE i # n + 1
    <3>1. i \in 1..n /\ i \in 0..n /\ i - 1 \in 0..n
      BY <1>0, <2>2
    <3>. QED BY <1>2, <1>3, <1>5, <3>1
  <2>. QED BY <2>1, <2>2
<1>8. ASSUME NEW i \in 0..(n + 1), NEW j \in 0..(n + 1), i <= j PROVE next[i] <= next[j]
  <2>1. \A k \in 0..n : total[k] \in Nat /\ total[k] <= total[n]
    BY <1>1, <1>2, <1>4
  <2>2. CASE j = n + 1
    <3>1. CASE i = n + 1
      BY <1>4, <1>5, <2>2, <3>1
    <3>2. CASE i # n + 1
      <4>1. i \in 0..n
        BY <1>0, <3>2
      <4>2. total[i] \in Nat /\ total[i] <= bytes
        BY <1>1, <2>1, <4>1
      <4>. QED BY <1>0, <1>5, <2>2, <4>1, <4>2
    <3>. QED BY <3>1, <3>2
  <2>3. CASE j # n + 1
    <3>1. i \in 0..n /\ j \in 0..n
      BY <1>0, <1>8, <2>3
    <3>. QED BY <1>1, <1>5, <1>8, <3>1
  <2>. QED BY <2>2, <2>3
<1>9. next \in RunningTotals(q)
  BY <1>3, <1>5, <1>6, <1>7 DEF RunningTotals
<1>10. CountsBytes(q, sum)
  BY <1>3, <1>5, <1>8, <1>9 DEF CountsBytes
<1>. QED BY <1>4, <1>10 DEF q

\* The record at the head of the queue is counted until it is taken.
LEMMA TailCounts ==
    ASSUME NEW queue \in Seq(Record), queue # <<>>, NEW bytes \in Nat, CountsBytes(queue, bytes)
    PROVE  /\ bytes - Head(queue).size \in Nat
           /\ CountsBytes(Tail(queue), bytes - Head(queue).size)
<1>1. PICK total \in RunningTotals(queue) :
         /\ bytes = total[Len(queue)]
         /\ \A i, j \in 0..Len(queue) : i <= j => total[i] <= total[j]
  BY DEF CountsBytes
<1>. DEFINE n == Len(queue) - 1
            size == Head(queue).size
            q == Tail(queue)
            next == [i \in 0..n |-> total[i + 1] - size]
<1>2. /\ Len(queue) \in Nat \ {0} /\ n \in Nat /\ Len(queue) = n + 1
      /\ Head(queue) = queue[1] /\ 1 \in DOMAIN queue /\ queue[1] \in Record
      /\ Len(q) = n /\ \A i \in 1..n : q[i] = queue[i + 1]
  OBVIOUS
<1>3. /\ total \in [0..(n + 1) -> 0..ByteLimit] /\ total[0] = 0
      /\ \A i \in 1..(n + 1) : total[i] = total[i - 1] + queue[i].size
      /\ \A i \in 0..(n + 1) : total[i] \in Nat /\ total[i] <= ByteLimit
  <2>1. /\ total \in [0..(n + 1) -> 0..ByteLimit] /\ total[0] = 0
        /\ \A i \in 1..(n + 1) : total[i] = total[i - 1] + queue[i].size
    BY <1>1, <1>2 DEF RunningTotals
  <2>2. \A b \in 0..ByteLimit : b \in Nat /\ b <= ByteLimit
    BY SizesAreNumbers
  <2>3. \A i \in 0..(n + 1) : total[i] \in 0..ByteLimit
    BY <2>1
  <2>. QED BY <2>1, <2>2, <2>3
<1>4. size \in Nat /\ ByteLimit \in Nat
  BY <1>2, SizesAreNumbers
<1>5. total[1] = size
  <2>1. 1 \in 1..(n + 1) /\ 1 - 1 = 0
    BY <1>2
  <2>. QED BY <1>2, <1>3, <1>4, <2>1
<1>6. ASSUME NEW i \in 0..n
      PROVE  /\ i + 1 \in 1..(n + 1) /\ i + 1 \in 0..(n + 1) /\ i \in Int
             /\ total[i + 1] \in Nat /\ size <= total[i + 1] /\ total[i + 1] <= ByteLimit
             /\ total[i + 1] - size \in 0..ByteLimit
  <2>1. i + 1 \in 1..(n + 1) /\ i + 1 \in 0..(n + 1) /\ i \in Int /\ 1 \in 0..(n + 1) /\ 1 <= i + 1
    BY <1>2
  <2>2. total[1] <= total[i + 1] /\ total[i + 1] \in Nat /\ total[i + 1] <= ByteLimit
    BY <1>1, <1>2, <1>3, <2>1
  <2>. QED BY <1>4, <1>5, <2>1, <2>2
<1>7. next \in [0..n -> 0..ByteLimit] /\ \A i \in 0..n : next[i] = total[i + 1] - size
  BY <1>6
<1>. HIDE DEF next, q, size
<1>8. 0 \in 0..n /\ n \in 0..n
  BY <1>2
<1>9. next[0] = 0
  <2>1. next[0] = total[0 + 1] - size /\ 0 + 1 = 1
    BY <1>7, <1>8
  <2>. QED BY <1>4, <1>5, <2>1
<1>10. ASSUME NEW i \in 1..n PROVE next[i] = next[i - 1] + q[i].size
  <2>1. i \in 0..n /\ i - 1 \in 0..n /\ (i - 1) + 1 = i /\ i + 1 \in 1..(n + 1) /\ (i + 1) - 1 = i
        /\ i + 1 \in DOMAIN queue
    BY <1>2
  <2>2. next[i] = total[i + 1] - size /\ next[i - 1] = total[i] - size
    BY <1>7, <2>1
  <2>3. total[i + 1] = total[i] + queue[i + 1].size /\ q[i] = queue[i + 1]
    BY <1>2, <1>3, <2>1
  <2>4. total[i] \in Nat /\ queue[i + 1].size \in Nat
    <3>1. total[i] \in Nat
      BY <1>3, <2>1
    <3>2. queue[i + 1] \in Record
      BY <2>1
    <3>. QED BY <3>1, <3>2, SizesAreNumbers
  <2>. QED BY <1>4, <2>2, <2>3, <2>4
<1>11. ASSUME NEW i \in 0..n, NEW j \in 0..n, i <= j PROVE next[i] <= next[j]
  <2>1. i + 1 \in 0..(n + 1) /\ j + 1 \in 0..(n + 1) /\ i + 1 <= j + 1
    BY <1>6, <1>11
  <2>2. total[i + 1] <= total[j + 1] /\ total[i + 1] \in Nat /\ total[j + 1] \in Nat
    BY <1>1, <1>2, <1>6, <2>1
  <2>. QED BY <1>4, <1>7, <2>2
<1>12. next[n] = bytes - size /\ bytes - size \in Nat
  BY <1>1, <1>2, <1>6, <1>7, <1>8
<1>13. next \in RunningTotals(q)
  BY <1>2, <1>7, <1>9, <1>10 DEF RunningTotals
<1>14. CountsBytes(q, bytes - size)
  BY <1>2, <1>11, <1>12, <1>13 DEF CountsBytes
<1>. QED BY <1>12, <1>14 DEF q, size

\* A worker that no longer writes, or never did, stays so.
LEMMA RestingStays ==
    ASSUME Inv, Next, ~Construct, NEW c \in Capture, worker[c].at \in Resting
    PROVE  worker'[c].at \in Resting
<1>0. worker \in [Capture -> Worker] /\ current \in Capture
  BY DEF Inv, Types
<1>1. CASE worker' = worker
  BY <1>1
<1>2. ASSUME NEW x \in Capture, NEW w, worker' = [worker EXCEPT ![x] = w],
             worker[x].at \in Resting => w.at \in Resting
      PROVE  worker'[c].at \in Resting
  BY <1>0, <1>2
<1>3. \A x \in Capture : worker[x].at \in Resting => ReadyNotified(worker[x]).at \in Resting
  BY <1>0, Notified DEF Resting
<1>. HIDE DEF Resting
<1>4. CASE OwnerNext \/ SpuriousOwner
  <2>1. CASE CloseBegin
    BY <1>0, <1>2, <1>3, <2>1 DEF CloseBegin
  <2>. QED BY <1>1, <1>4, <2>1 DEF OwnerNext, CloseUnstarted, CloseCheck, CloseTimeout, Join,
                                  NextCapture, SpuriousOwner
<1>5. ASSUME NEW s \in Stream, ProducerNext(s) PROVE worker'[c].at \in Resting
  <2>1. worker' = worker \/ worker' = [worker EXCEPT ![current] = ReadyNotified(worker[current])]
    BY <1>5 DEF ProducerNext, Offer, CheckOffer, Enqueue
  <2>. QED BY <1>0, <1>1, <1>2, <1>3, <2>1
<1>6. ASSUME NEW x \in Capture, WorkerNext(x) PROVE worker'[c].at \in Resting
  <2>1. \/ x # c /\ worker'[c] = worker[c]
        \/ x = c /\ worker[c].at \in {"release", "notify"}
             /\ worker'[c].at \in {"notify", "exited"}
        \/ x = c /\ worker[c].at \in WorkerStep \ Resting
    <3>1. worker[x].at \in WorkerStep
      BY <1>0 DEF Worker
    <3>2. CASE Release(x) \/ Notify(x)
      BY <1>0, <3>2 DEF Release, Notify, Runs, Worker
    <3>3. CASE ~(Release(x) \/ Notify(x))
      <4>1. worker[x].at \in WorkerStep \ Resting
        BY <1>6, <3>1, <3>3 DEF WorkerNext, Take, Write, WriteFails, Drain, Finish, FinishFails,
                                Destroy, PublishDone, Runs, WorkerStep, Resting
      <4>2. x # c => worker'[c] = worker[c]
        BY <1>0, <1>6 DEF WorkerNext, Take, Write, WriteFails, Drain, Finish, FinishFails,
                          Destroy, PublishDone, Release, Notify
      <4>. QED BY <4>1, <4>2
    <3>. QED BY <3>2, <3>3
  <2>. QED BY <2>1 DEF Resting
<1>7. ASSUME NEW x \in Capture, SpuriousWorker(x) \/ GetStuck(x) \/ GetUnstuck(x)
      PROVE  worker'[c].at \in Resting
  <2>1. CASE SpuriousWorker(x)
    BY <1>2, <1>3, <2>1 DEF SpuriousWorker
  <2>2. CASE GetStuck(x) \/ GetUnstuck(x)
    <3>1. PICK b \in BOOLEAN : worker' = [worker EXCEPT ![x] = [worker[x] EXCEPT !.stuck = b]]
      BY <2>2 DEF GetStuck, GetUnstuck
    <3>2. [worker[x] EXCEPT !.stuck = b].at = worker[x].at
      BY <1>0 DEF Worker
    <3>. QED BY <1>2, <3>1, <3>2
  <2>. QED BY <1>7, <2>1, <2>2
<1>. QED BY <1>4, <1>5, <1>6, <1>7 DEF Next

\* Every step keeps the byte count.
LEMMA BytesStep ==
    ASSUME Inv, Next, \A c \in Capture : BytesInv(c)
    PROVE  \A c \in Capture : BytesInv(c)'
<1>. SUFFICES ASSUME NEW c \in Capture PROVE BytesInv(c)'
  OBVIOUS
<1>0. /\ Types /\ BytesInv(c) /\ current \in Capture /\ state \in [Capture -> StateType]
      /\ status \in [Capture -> Status]
  BY DEF Inv, Types
<1>1. CASE Construct
  <2>1. CASE c = current
    <3>1. worker[current].at = "none" /\ ~status[current].finished
      BY <1>0, <1>1 DEF Inv, StagesAgree, Ahead, Construct
    <3>2. CASE writerBusy
      <4>1. [state[current] EXCEPT !.done = TRUE].done
            /\ [state[current] EXCEPT !.done = TRUE].bytes = state[current].bytes
        BY <1>0 DEF StateType
      <4>2. status'[current].finished = TRUE
        <5>1. status'[current] \in Status
          BY <1>1, ConstructStep DEF Inv, Types, Construct
        <5>. QED BY <1>1, <3>2, <5>1, FinishingStep DEF Status
      <4>3. state'[current].done = TRUE
        <5>1. state[current] \in StateType
          BY <1>0
        <5>2. [state[current] EXCEPT !.done = TRUE].done = TRUE
          BY <5>1 DEF StateType
        <5>. QED BY <1>1, <3>2, <5>2, FinishingStep
      <4>. QED BY <1>0, <1>1, <2>1, <3>1, <3>2, <4>1, <4>2, <4>3, FinishingStep
               DEF BytesInv, Resting
    <3>3. CASE ~writerBusy
      BY <1>0, <1>1, <2>1, <3>1, <3>3, FinishingStep DEF BytesInv
    <3>. QED BY <3>2, <3>3
  <2>2. CASE c # current
    BY <1>0, <1>1, <2>2, FinishingStep DEF BytesInv
  <2>. QED BY <2>1, <2>2
<1>2. ASSUME NEW x \in Capture, PublishDone(x) PROVE BytesInv(c)'
  <2>1. CASE c = x
    <3>1. /\ status'[x].finished = TRUE /\ state'[x].done = TRUE
          /\ state'[x].bytes = state[x].bytes
      <4>1. state[x] \in StateType /\ status[x] \in Status
        BY <1>0
      <4>2. /\ [status[x] EXCEPT !.finished = TRUE].finished = TRUE
            /\ [state[x] EXCEPT !.queue = <<>>, !.done = TRUE].done = TRUE
            /\ [state[x] EXCEPT !.queue = <<>>, !.done = TRUE].bytes = state[x].bytes
        BY <4>1 DEF StateType, Status
      <4>. QED BY <1>2, <4>2, FinishingStep
    <3>2. worker'[x].at \in Resting
      BY <1>2, FinishingStep DEF Resting
    <3>. QED BY <1>0, <2>1, <3>1, <3>2 DEF BytesInv
  <2>2. CASE c # x
    <3>1. status'[c] = status[c] /\ state'[c] = state[c] /\ worker'[c] = worker[c]
      BY <1>2, <2>2, FinishingStep
    <3>. QED BY <1>0, <3>1 DEF BytesInv
  <2>. QED BY <2>1, <2>2
<1>3. CASE ~Finishing
  <2>1. /\ status'[c].finished = status[c].finished
        /\ worker[c].at \in Resting => worker'[c].at \in Resting
    BY <1>3, StatusStep, RestingStays DEF StatusFollows, Finishing
  <2>2. ASSUME state'[c].bytes = state[c].bytes, state'[c].queue = state[c].queue,
               state'[c].done = state[c].done
        PROVE  BytesInv(c)'
    BY <1>0, <2>1, <2>2 DEF BytesInv
  <2>3. CASE state' = state
    BY <2>2, <2>3
  <2>4. CASE CloseBegin
    <3>1. state' = [state EXCEPT ![current].closing = TRUE]
      BY <2>4 DEF CloseBegin
    <3>. QED BY <1>0, <2>2, <3>1 DEF StateType
  <2>5. ASSUME NEW x \in Capture, Take(x) PROVE BytesInv(c)'
    <3>. DEFINE q == state[x].queue
                st == [state[x] EXCEPT !.queue = Tail(q), !.bytes = @ - Head(q).size]
    <3>1. state' = state \/ (q # <<>> /\ state' = [state EXCEPT ![x] = st])
      BY <2>5 DEF Take
    <3>2. CASE q # <<>> /\ state' = [state EXCEPT ![x] = st] /\ c = x
      <4>1. /\ state[x] \in StateType /\ q \in Seq(Record) /\ state[x].bytes \in Nat
            /\ ~state[x].done /\ CountsBytes(q, state[x].bytes)
        <5>1. worker[x].at = "take"
          BY <2>5 DEF Take, Runs
        <5>. QED BY <1>0, <3>2, <5>1 DEF BytesInv, Resting, StateType
      <4>2. /\ state[x].bytes - Head(q).size \in Nat
            /\ CountsBytes(Tail(q), state[x].bytes - Head(q).size)
        BY <3>2, <4>1, TailCounts
      <4>3. /\ st.queue = Tail(q) /\ st.bytes = state[x].bytes - Head(q).size
            /\ st.done = state[x].done
        BY <4>1 DEF StateType
      <4>4. state'[x] = st
        BY <1>0, <3>2
      <4>. HIDE DEF st, q
      <4>. QED BY <1>0, <2>1, <3>2, <4>1, <4>2, <4>3, <4>4 DEF BytesInv
    <3>3. CASE state' = [state EXCEPT ![x] = st] /\ c # x
      <4>1. state'[c] = state[c]
        BY <1>0, <3>3
      <4>. QED BY <2>2, <4>1
    <3>. QED BY <2>3, <3>1, <3>2, <3>3
  <2>6. ASSUME NEW p \in Stream, Enqueue(p) PROVE BytesInv(c)'
    <3>. DEFINE q == state[current].queue
                record == producer[p].record
                st == [state[current] EXCEPT !.queue = Append(q, record), !.bytes = @ + record.size]
    <3>1. \/ state' = state
          \/ /\ Active(current) /\ ~Full(state[current], record.size)
             /\ state' = [state EXCEPT ![current] = st]
      BY <2>6 DEF Enqueue
    <3>2. CASE /\ Active(current) /\ ~Full(state[current], record.size)
               /\ state' = [state EXCEPT ![current] = st] /\ c = current
      <4>1. /\ state[c] \in StateType /\ q \in Seq(Record) /\ state[c].bytes \in Nat
            /\ ~state[c].done /\ CountsBytes(q, state[c].bytes)
        BY <1>0, <3>2 DEF BytesInv, Active, StateType
      <4>2. record \in Record /\ ~(record.size > ByteLimit - state[c].bytes)
        BY <1>0, <2>6, <3>2 DEF Types, Enqueue, Full
      <4>3. /\ state[c].bytes + record.size \in Nat
            /\ CountsBytes(Append(q, record), state[c].bytes + record.size)
        BY <4>1, <4>2, AppendCounts
      <4>4. /\ st.queue = Append(q, record) /\ st.bytes = state[c].bytes + record.size
            /\ st.done = state[c].done
        BY <3>2, <4>1 DEF StateType
      <4>5. state'[c] = st
        BY <1>0, <3>2
      <4>. HIDE DEF st, q, record
      <4>. QED BY <1>0, <2>1, <4>1, <4>3, <4>4, <4>5 DEF BytesInv
    <3>3. CASE state' = [state EXCEPT ![current] = st] /\ c # current
      <4>1. state'[c] = state[c]
        BY <1>0, <3>3
      <4>. QED BY <2>2, <4>1
    <3>. QED BY <2>3, <3>1, <3>2, <3>3
  <2>7. CASE OwnerNext \/ SpuriousOwner
    BY <1>3, <2>3, <2>4, <2>7 DEF OwnerNext, CloseUnstarted, CloseCheck, CloseTimeout, Join,
                                  NextCapture, SpuriousOwner, Finishing
  <2>8. ASSUME NEW p \in Stream, ProducerNext(p) PROVE BytesInv(c)'
    <3>1. CASE Enqueue(p)
      BY <2>6, <3>1
    <3>2. CASE ~Enqueue(p)
      BY <2>3, <2>8, <3>2 DEF ProducerNext, Offer, CheckOffer
    <3>. QED BY <3>1, <3>2
  <2>9. ASSUME NEW x \in Capture,
               WorkerNext(x) \/ SpuriousWorker(x) \/ GetStuck(x) \/ GetUnstuck(x)
        PROVE  BytesInv(c)'
    <3>1. CASE Take(x)
      BY <2>5, <3>1
    <3>2. CASE ~Take(x)
      BY <1>3, <2>3, <2>9, <3>2 DEF WorkerNext, Write, WriteFails, Drain, Finish, FinishFails,
           Destroy, Release, Notify, SpuriousWorker, GetStuck, GetUnstuck, Finishing
    <3>. QED BY <3>1, <3>2
  <2>. QED BY <2>7, <2>8, <2>9 DEF Next
<1>. QED BY <1>1, <1>2, <1>3 DEF Finishing

-----------------------------------------------------------------------------
(* The theorems.                                                            *)

\* What the invariant says of a recording that ended well.
LEMMA EndedWell == Inv => CompleteMeansAllWritten
<1>. SUFFICES ASSUME Inv PROVE CompleteMeansAllWritten
  OBVIOUS
<1>. SUFFICES ASSUME NEW c \in Capture,
                     Complete(c) \/ disk[c].marker \/ disk[c].report = "drained"
              PROVE  /\ status[c].rejected = Zero
                     /\ \A s \in Stream :
                           disk[c].records[s] = [n \in 1..status[c].submitted[s] |-> n]
  BY DEF CompleteMeansAllWritten
<1>1. Types /\ StagesAgree(c)
  BY DEF Inv
<1>2. /\ status[c].rejected = Zero
      /\ \A s \in Stream : OnDisk(c, s) = status[c].submitted[s]
  BY <1>1 DEF StagesAgree, Complete
<1>3. ASSUME NEW s \in Stream
      PROVE  disk[c].records[s] = [n \in 1..status[c].submitted[s] |-> n]
  <2>. DEFINE r == disk[c].records[s]
  <2>1. r \in Seq(Nat)
    BY <1>1 DEF Types, Disk
  <2>2. Len(r) = status[c].submitted[s]
    BY <1>2 DEF OnDisk
  <2>3. \A i \in DOMAIN r : r[i] = i
    BY DEF Inv, NoHoleOnDisk
  <2>. HIDE DEF r
  <2>4. r = [i \in 1..Len(r) |-> r[i]]
    BY <2>1
  <2>5. DOMAIN r = 1..Len(r)
    BY <2>1
  <2>6. r = [n \in 1..status[c].submitted[s] |-> n]
    BY <2>2, <2>3, <2>4, <2>5
  <2>. QED BY <2>6 DEF r
<1>. QED BY <1>2, <1>3

\* A recording that counts as complete, that the application marks complete or whose
\* report says drained has every submitted record on disk, in order, whatever the
\* threads, the captures before it and the disk did.  (submit, close, worker, finish)
THEOREM CompleteIsWritten == Spec => []CompleteMeansAllWritten
  BY EndedWell, Invariant, PTL

\* What is on disk of a stream is a prefix of what was submitted, also of a recording
\* that failed, timed out or lost its worker to a stuck disk.  (submit, worker)
THEOREM PrefixOnDisk == Spec => []NoHoleOnDisk
<1>1. Inv => NoHoleOnDisk
  BY DEF Inv
<1>. QED BY <1>1, Invariant, PTL

\* However many captures are restarted over stuck workers, the slot is taken exactly
\* while one worker may hold a sink, and never two.  (writer_busy)
THEOREM SingleWriter == Spec => []OneLiveWriter
<1>1. Inv => OneLiveWriter
  <2>. SUFFICES ASSUME Inv PROVE OneLiveWriter
    OBVIOUS
  <2>. DEFINE live == {c \in Capture : worker[c].at \notin {"none", "notify", "exited"}}
  <2>1. SlotInv
    BY DEF Inv
  <2>2. CASE writerBusy
    <3>1. PICK c \in Capture : Live(c)
      BY <2>1, <2>2 DEF SlotInv
    <3>2. live = {c}
      BY <2>1, <3>1 DEF SlotInv, Live
    <3>3. Cardinality({c}) = 1
      BY FS_Singleton
    <3>. QED BY <2>2, <3>2, <3>3 DEF OneLiveWriter
  <2>3. CASE ~writerBusy
    <3>1. live = {}
      BY <2>1, <2>3 DEF SlotInv, Live
    <3>2. Cardinality({}) = 0
      BY FS_EmptySet
    <3>. QED BY <2>3, <3>1, <3>2 DEF OneLiveWriter
  <2>. QED BY <2>2, <2>3
<1>. QED BY <1>1, Invariant, PTL

\* A recording that close() gave up on is never complete later, though its detached
\* worker may still finish.  (close, complete)
THEOREM LateFinish == Spec => LateFinishNeverCompletes
<1>. DEFINE Never == \A c \in Capture :
               ~Owned(c) /\ c <= current /\ ~Complete(c) => ~Complete(c)'
<1>1. Inv /\ Next => Never
  <2>. SUFFICES ASSUME Inv, Next,
                       NEW c \in Capture, ~Owned(c), c <= current, ~Complete(c), Complete(c)'
                PROVE  FALSE
    OBVIOUS
  <2>0. Types /\ StagesAgree(c) /\ current \in Capture /\ c \in Nat /\ current \in Nat
    BY DEF Inv, Types, Capture
  <2>1. worker[c].at = "exited" \/ status[c].failure # "None"
    BY <2>0 DEF StagesAgree
  <2>2. worker[c].at = "exited" => status[c].finished
    BY <2>0 DEF StagesAgree
  <2>3. status[c].failure # "None"
    BY <2>1, <2>2 DEF Complete
  <2>. QED BY <2>0, <2>3, FailureStays DEF Complete
<1>2. Inv /\ [Next]_vars => [Never]_vars
  BY <1>1
<1>. QED BY <1>2, Invariant, PTL DEF Spec, LateFinishNeverCompletes

\* How the threads, the queue, the status and the files of every capture agree, with
\* the byte count that the limits are tested on, for any streams, sizes, limits and
\* number of captures.  (class Recording)
THEOREM RecordingAgrees == Spec => []RecordingInv
<1>. DEFINE Counted == \A c \in Capture : BytesInv(c)
<1>1. Init => Counted
  <2>. SUFFICES ASSUME Init, NEW c \in Capture PROVE BytesInv(c)
    OBVIOUS
  <2>1. state[c] = NewState /\ status[c] = NewStatus
    BY DEF Init
  <2>2. state[c].queue = <<>> /\ state[c].bytes = 0 /\ state[c].done = FALSE
        /\ status[c].finished = FALSE
    BY <2>1 DEF NewState, NewStatus
  <2>. DEFINE none == [i \in 0..0 |-> 0]
  <2>3. none \in RunningTotals(<<>>)
    BY SizesAreNumbers DEF RunningTotals
  <2>4. CountsBytes(<<>>, 0)
    <3>1. none[Len(<<>>)] = 0 /\ \A i, j \in 0..Len(<<>>) : i <= j => none[i] <= none[j]
      OBVIOUS
    <3>. HIDE DEF none
    <3>. QED BY <2>3, <3>1 DEF CountsBytes
  <2>5. 0 \in Nat
    OBVIOUS
  <2>. HIDE DEF none
  <2>. QED BY <2>2, <2>4, <2>5 DEF BytesInv
<1>2. Inv /\ Counted /\ [Next]_vars => Counted'
  <2>1. Inv /\ Counted /\ Next => Counted'
    BY BytesStep
  <2>2. Counted /\ UNCHANGED vars => Counted'
    BY DEF vars, BytesInv, CountsBytes, RunningTotals
  <2>. QED BY <2>1, <2>2
<1>3. Inv /\ Counted => TypeOK /\ BytesMatchQueue
  <2>. SUFFICES ASSUME Inv, Counted PROVE TypeOK /\ BytesMatchQueue
    OBVIOUS
  <2>1. ASSUME NEW c \in Capture PROVE state[c] \in State
    <3>1. state[c] \in StateType /\ state[c].bytes \in Nat
      BY DEF Inv, Types, BytesInv
    <3>. QED BY <3>1 DEF StateType, State
  <2>2. state \in [Capture -> State]
    BY <2>1 DEF Inv, Types
  <2>3. TypeOK
    BY <2>2 DEF Inv, Types, TypeOK
  <2>4. BytesMatchQueue
    BY DEF BytesMatchQueue, BytesInv, CountsBytes
  <2>. QED BY <2>3, <2>4
<1>4. Inv => NoHoleOnDisk /\ ProducersIdle
             /\ \A c \in Capture : InOrder(c) /\ NothingMissing(c) /\ StagesAgree(c)
  BY DEF Inv
<1>5. Inv /\ Counted /\ OneLiveWriter => RecordingInv
  BY <1>3, <1>4 DEF RecordingInv
<1>6. Spec => []Counted
  BY <1>1, <1>2, Invariant, PTL DEF Spec
<1>. QED BY <1>5, <1>6, Invariant, SingleWriter, PTL
===============================================================================
