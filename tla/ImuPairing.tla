------------------------------ MODULE ImuPairing ------------------------------
(***************************************************************************)
(* The pairing of imu_thread, src/openvins_runner/sensor_runner.cpp: rows  *)
(* of the accelerometer and of the gyroscope arrive in batches of their    *)
(* own; each gyroscope row leaves with the acceleration interpolated at    *)
(* its timestamp.                                                          *)
(*                                                                         *)
(* A row is its timestamp: the acceleration at t is a curve of t, and the  *)
(* two filters' equal shift of the timestamps is left out.  X_Slip just    *)
(* before X is X with one slip put in, which TLC has to detect.            *)
(***************************************************************************)
EXTENDS Naturals, Sequences, FiniteSets, SequencesExt, FiniteSetsExt

CONSTANTS
    QueueLimit,     \* unpaired rows of a sensor (1024)
    BatchLimit,     \* bound: rows of one read
    LastRow         \* bound: the last timestamp

ASSUME PairingAssumption == QueueLimit \in Nat \ {0} /\ BatchLimit \in Nat /\ LastRow \in Nat

VARIABLES
    pairing,                \* where the thread is
    accelQueue, gyroQueue,  \* aq, gq
    imuQueue,               \* imu_q: the rows made, in order
    received                \* the rows read from each sensor (history)

pairingVars == <<pairing, accelQueue, gyroQueue, imuQueue, received>>

Time == 1..LastRow
Increasing(rows) == \A i, j \in 1..Len(rows) : i < j => rows[i] < rows[j]

\* What one read may return, unless it is refused for its order.
Rows == {r \in UNION {[1..n -> Time] : n \in 0..BatchLimit} : Increasing(r)}

ImuRow == [at : Nat, value : Nat, parts : Nat]

PairingTypeOK ==
    /\ pairing \in {"reading", "pairing", "failed"}
    /\ accelQueue \in Seq(Time) /\ gyroQueue \in Seq(Time)
    /\ imuQueue \in Seq(ImuRow)
    /\ received \in [accel : Seq(Time), gyro : Seq(Time)]

PairingInit ==
    /\ pairing = "reading"
    /\ accelQueue = <<>> /\ gyroQueue = <<>> /\ imuQueue = <<>>
    /\ received = [accel |-> <<>>, gyro |-> <<>>]

-----------------------------------------------------------------------------
Acceleration(t) == t * t

\* The acceleration at t on the line from the row at t0 to the row at t1, in
\* parts of t1 - t0.
Interpolated(t, t0, t1) ==
    IF t1 = t0 THEN [at |-> t, value |-> Acceleration(t0), parts |-> 1]
    ELSE [at |-> t,
          value |-> Acceleration(t0) * (t1 - t) + Acceleration(t1) * (t - t0),
          parts |-> t1 - t0]

\* The positions the accelerometer's queue may be cut to: the first, and those
\* not after t.
Passed(queue, t) == {i \in 1..Len(queue) : i = 1 \/ queue[i] <= t}

\* The queue without the rows before the last one that t has reached.
Cut(queue, t) == SubSeq(queue, Max(Passed(queue, t)), Len(queue))

\* A read is refused unless it is later than all before it.
Later(before, batch) == before # <<>> /\ batch # <<>> => Last(before) < batch[1]

\* One turn of the loop of imu_thread, with what the two reads returned.
ReadRows(accel, gyro) ==
    /\ pairing = "reading"
    /\ accel # <<>> \/ gyro # <<>>
    /\ Later(received.accel, accel) /\ Later(received.gyro, gyro)
    /\ Len(accelQueue) + Len(accel) <= QueueLimit
    /\ Len(gyroQueue) + Len(gyro) <= QueueLimit
    /\ pairing' = "pairing"
    /\ accelQueue' = accelQueue \o accel
    /\ gyroQueue' = gyroQueue \o gyro
    /\ received' = [accel |-> received.accel \o accel, gyro |-> received.gyro \o gyro]
    /\ UNCHANGED imuQueue

Reached_Early == gyroQueue # <<>> /\ accelQueue # <<>>

\* The accelerometer has reached the first gyroscope row.
Reached == gyroQueue # <<>> /\ accelQueue # <<>> /\ Last(accelQueue) >= gyroQueue[1]

\* The body of the inner loop: a row before the first acceleration is dropped.
PairRow ==
    LET t == gyroQueue[1]
        queue == Cut(accelQueue, t)
    IN  /\ pairing = "pairing" /\ Reached
        /\ gyroQueue' = Tail(gyroQueue)
        /\ IF t < accelQueue[1] THEN UNCHANGED <<accelQueue, imuQueue>>
           ELSE /\ accelQueue' = queue
                /\ imuQueue' = Append(imuQueue, Interpolated(t, queue[1],
                                   IF Len(queue) >= 2 THEN queue[2] ELSE queue[1]))
        /\ UNCHANGED <<pairing, received>>

PairingDone ==
    /\ pairing = "pairing" /\ ~Reached
    /\ pairing' = "reading"
    /\ UNCHANGED <<accelQueue, gyroQueue, imuQueue, received>>

\* A read fails or ends, a record is partial, a timestamp is in the future or
\* does not increase, or a queue would overflow: the thread throws.  What it
\* has queued is not paired.
PairingFails ==
    /\ pairing # "failed"
    /\ pairing' = "failed"
    /\ UNCHANGED <<accelQueue, gyroQueue, imuQueue, received>>

\* The thread's queues end with it, and the capture's with the capture.
ThreadEnds ==
    /\ pairing' = "reading"
    /\ accelQueue' = <<>> /\ gyroQueue' = <<>> /\ imuQueue' = <<>>
    /\ received' = [accel |-> <<>>, gyro |-> <<>>]

ReadImu ==
    \/ \E accel, gyro \in Rows : ReadRows(accel, gyro)
    \/ PairRow
    \/ PairingDone
    \/ PairingFails

-----------------------------------------------------------------------------
(* Parts of the properties *)

\* What pairing all of the accelerometer's rows at once would make for the
\* gyroscope row at t: between the last of them not after t and the next one.
Reference(rows, t) ==
    LET t0 == Max({a \in Range(rows) : a <= t})
        later == {a \in Range(rows) : a > t}
    IN  Interpolated(t, t0, IF later = {} THEN t0 ELSE Min(later))

Same(a, b) == a.at = b.at /\ a.value * b.parts = b.value * a.parts

\* Gyroscope rows that have left their queue, and those of them left unpaired.
Done == Len(received.gyro) - Len(gyroQueue)
Skipped == Done - Len(imuQueue)

\* However the rows arrived, what is made is what the whole recording gives:
\* each gyroscope row from the first accelerometer row on, in order, and when
\* the thread is back to reading none is left up to the last accelerometer row.
PairedAsRecorded ==
    LET accel == received.accel
        gyro == received.gyro
    IN  /\ Len(imuQueue) <= Done /\ Done <= Len(gyro)
        /\ Done > 0 => accel # <<>>
        /\ \A i \in 1..Skipped : gyro[i] < accel[1]
        /\ \A i \in 1..Len(imuQueue) :
              /\ accel[1] <= gyro[Skipped + i] /\ gyro[Skipped + i] <= Last(accel)
              /\ Same(imuQueue[i], Reference(accel, gyro[Skipped + i]))
        /\ pairing = "reading" /\ accel # <<>> =>
              \A i \in (Done + 1)..Len(gyro) : Last(accel) < gyro[i]

\* The queues are what is left of the rows received.  The accelerometer's begins
\* with the last row that the rows done have passed.
QueuesHold ==
    /\ Len(accelQueue) <= QueueLimit /\ Len(gyroQueue) <= QueueLimit
    /\ Increasing(received.accel) /\ Increasing(received.gyro)
    /\ Len(accelQueue) <= Len(received.accel) /\ Len(gyroQueue) <= Len(received.gyro)
    /\ LET gone == Len(received.accel) - Len(accelQueue)
       IN  /\ \A i \in 1..Len(accelQueue) : accelQueue[i] = received.accel[gone + i]
           /\ received.accel # <<>> => accelQueue # <<>>
           /\ gone > 0 => Done > 0 /\ accelQueue[1] <= received.gyro[Done]
    /\ \A i \in 1..Len(gyroQueue) : gyroQueue[i] = received.gyro[Done + i]
=============================================================================
