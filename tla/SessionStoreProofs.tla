-------------------------- MODULE SessionStoreProofs --------------------------
(***************************************************************************)
(* What SessionStore keeps through crashes and power losses, for every     *)
(* number of processes, reservations and bytes.                            *)
(***************************************************************************)
EXTENDS SessionStore, TLAPS

\* counter is k reservations ahead of byte, counted around the modulus.  (Written
\* without %, whose defining equation the provers do not have.)
Ahead(counter, byte, k) ==
    counter \in Byte /\ \E q \in Nat : counter + ResetModulus * q = byte + k

\* Every counter a power loss may leave is as far ahead of the latest session's byte
\* as counters were put in place since, and one just put in place at least by one.
Distance ==
    usage.sessions > 0 =>
        /\ usage.byte \in Byte
        /\ \A counter \in disk.stable :
              \E k \in 0..usage.renames : Ahead(counter, usage.byte, k)
        /\ \A p \in Process : pc[p] \in {"renamed", "reserved"} =>
              \E k \in 1..usage.renames : Ahead(disk.file, usage.byte, k)

\* The inductive invariant.
IInv ==
    /\ TypeOK
    /\ disk.file \in disk.stable
    /\ CounterReadable
    /\ \A p \in Process : ReservationInv(p)
    /\ LinkByteIsReserved
    /\ usage.sessions = 0 => usage.byte = Absent
    /\ Distance

-----------------------------------------------------------------------------
(* Counting around the modulus.                                             *)

\* The successor of a byte is the next one, or 0 behind the last.
LEMMA ByteSuccessor ==
    ASSUME NEW b \in Byte
    PROVE  (b + 1) % ResetModulus = IF b + 1 < ResetModulus THEN b + 1 ELSE 0
<1>1. ResetModulus \in Nat \ {0}
  BY PolicyAssumption
<1>2. CASE b + 1 < ResetModulus
  BY <1>1, <1>2 DEF Byte
<1>3. CASE b + 1 = ResetModulus
  <2>1. ResetModulus % ResetModulus = 0
    <3>1. \A q \in Nat, r \in 0..(ResetModulus - 1) : (ResetModulus * q + r) % ResetModulus = r
      BY <1>1
    <3>2. (ResetModulus * 1 + 0) % ResetModulus = 0
      BY <1>1, <3>1
    <3>. QED BY <1>1, <3>2
  <2>. QED BY <1>1, <1>3, <2>1
<1>4. b + 1 < ResetModulus \/ b + 1 = ResetModulus
  BY <1>1 DEF Byte
<1>. QED BY <1>2, <1>3, <1>4

\* A counter k ahead of a byte is that byte plus k.
LEMMA AheadIsSum ==
    ASSUME NEW counter, NEW byte \in Byte, NEW k \in Nat, Ahead(counter, byte, k)
    PROVE  counter = (byte + k) % ResetModulus
<1>1. PICK q \in Nat : counter + ResetModulus * q = byte + k
  BY DEF Ahead
<1>2. counter \in 0..(ResetModulus - 1) /\ ResetModulus \in Nat \ {0}
  BY PolicyAssumption DEF Ahead, Byte
<1>3. (ResetModulus * q + counter) % ResetModulus = counter
  BY <1>2
<1>4. ResetModulus * q + counter = counter + ResetModulus * q
  BY <1>2
<1>. QED BY <1>1, <1>3, <1>4

\* The successor of a counter k ahead is k + 1 ahead.
LEMMA AheadStep ==
    ASSUME NEW counter, NEW byte \in Byte, NEW k \in Nat, Ahead(counter, byte, k)
    PROVE  Ahead((counter + 1) % ResetModulus, byte, k + 1)
<1>1. PICK q \in Nat : counter + ResetModulus * q = byte + k
  BY DEF Ahead
<1>2. counter \in Byte /\ counter \in 0..(ResetModulus - 1) /\ ResetModulus \in Nat \ {0}
  BY PolicyAssumption DEF Ahead, Byte
<1>3. byte \in Nat
  BY <1>2 DEF Byte
<1>4. CASE counter + 1 < ResetModulus
  <2>1. (counter + 1) % ResetModulus = counter + 1 /\ counter + 1 \in Byte
    BY <1>2, <1>4, ByteSuccessor DEF Byte
  <2>2. (counter + 1) + ResetModulus * q = byte + (k + 1)
    BY <1>1, <1>2, <1>3
  <2>. QED BY <2>1, <2>2 DEF Ahead
<1>5. CASE ~(counter + 1 < ResetModulus)
  <2>1. (counter + 1) % ResetModulus = 0 /\ counter + 1 = ResetModulus /\ 0 \in Byte
    BY <1>2, <1>5, ByteSuccessor DEF Byte
  <2>2. 0 + ResetModulus * (q + 1) = byte + (k + 1)
    <3>1. ResetModulus * (q + 1) = ResetModulus * q + ResetModulus
      BY <1>2
    <3>. QED BY <1>1, <1>2, <1>3, <2>1, <3>1
  <2>. QED BY <2>1, <2>2 DEF Ahead
<1>. QED BY <1>4, <1>5

\* A counter fewer than ResetModulus ahead of a byte is another one.
LEMMA AheadDiffers ==
    ASSUME NEW counter, NEW byte \in Byte, NEW k \in Nat, 1 <= k, k < ResetModulus,
           Ahead(counter, byte, k)
    PROVE  counter # byte
<1>1. PICK q \in Nat : counter + ResetModulus * q = byte + k
  BY DEF Ahead
<1>2. ResetModulus \in Nat \ {0} /\ byte \in Nat /\ counter \in Nat
  BY PolicyAssumption DEF Byte, Ahead
<1>3. ResetModulus * q \in Nat /\ (q = 0 => ResetModulus * q = 0)
      /\ (q >= 1 => ResetModulus * q >= ResetModulus)
  BY <1>2
<1>. QED BY <1>1, <1>2, <1>3

-----------------------------------------------------------------------------
(* The invariant.                                                           *)

\* The counter ahead of Absent is 0, that ahead of a byte its successor: a byte.
LEMMA SuccessorIsByte ==
    ASSUME NEW counter \in Byte \cup {Absent}
    PROVE  Successor(counter) \in Byte
<1>1. ResetModulus \in Nat \ {0}
  BY PolicyAssumption
<1>2. CASE counter = Absent
  BY <1>1, <1>2 DEF Successor, Byte
<1>3. CASE counter \in Byte /\ counter # Absent
  <2>1. (counter + 1) % ResetModulus \in Byte
    BY <1>1, <1>3, ByteSuccessor DEF Byte
  <2>. QED BY <1>3, <2>1 DEF Successor
<1>. QED BY <1>2, <1>3

\* No byte is Absent or Garbage.
LEMMA BytesAreNoMarks == Absent \notin Byte /\ Garbage \notin Byte /\ 0 \in Byte
<1>1. ResetModulus \in Nat \ {0}
  BY PolicyAssumption
<1>. QED BY <1>1, StoreAssumption DEF Byte

\* A link as constructed has a byte and no generation.
LEMMA NewSessionType ==
    ASSUME NEW b \in Byte
    PROVE  /\ NewSession(b) \in Session
           /\ NewSession(b).generation = NoGeneration /\ NewSession(b).resetCounter = b
<1>1. /\ NoGeneration \in Nat /\ b \in 0..(ResetModulus - 1)
      /\ NoTime \in OptionalTime
  BY DEF NoGeneration, OptionalTime, Byte
<1>2. "WaitingForController" \in FlightSessionState
  BY DEF FlightSessionState
<1>. QED BY <1>1, <1>2 DEF NewSession, Session

\* A session starts with the byte it was constructed with, any later one with the
\* successor of the byte before.  (FlightSession::start)
LEMMA LinkSessionByte ==
    ASSUME NEW p \in Process, session[p] \in Session, next[p] \in Byte,
           \/ session[p].generation = NoGeneration
           \/ next[p] = (session[p].resetCounter + 1) % ResetModulus
    PROVE  LinkSession(p) \in Session /\ LinkSession(p).resetCounter = next[p]
<1>1. ASSUME NEW s \in Session, NEW g \in Nat
      PROVE  /\ StartSession(s, g) \in Session
             /\ StartSession(s, g).resetCounter =
                  IF s.generation = NoGeneration THEN s.resetCounter
                  ELSE (s.resetCounter + 1) % ResetModulus
  <2>1. s.resetCounter \in Byte
    BY DEF Session, Byte
  <2>2. (s.resetCounter + 1) % ResetModulus \in 0..(ResetModulus - 1)
    BY <2>1, ByteSuccessor, PolicyAssumption DEF Byte
  <2>. QED BY <2>2 DEF StartSession, Session, FlightSessionState, OptionalTime
<1>2. CASE session[p].generation = NoGeneration
  <2>1. NewSession(next[p]) \in Session
    BY NewSessionType
  <2>2. NewSession(next[p]).generation + 1 \in Nat
    BY <2>1 DEF Session
  <2>. QED BY <1>1, <1>2, <2>1, <2>2, NewSessionType DEF LinkSession
<1>3. CASE session[p].generation # NoGeneration
  <2>1. session[p].generation + 1 \in Nat
    BY DEF Session
  <2>. QED BY <1>1, <1>3, <2>1 DEF LinkSession
<1>. QED BY <1>2, <1>3

\* What the bytes in the files are says how far they are ahead.
LEMMA DistanceIsDurability ==
    ASSUME TypeOK, Distance
    PROVE  LatestByteIsDurable
<1>. SUFFICES ASSUME usage.sessions > 0, NEW counter \in disk.stable
              PROVE  \E k \in 0..usage.renames : counter = (usage.byte + k) % ResetModulus
  BY DEF LatestByteIsDurable
<1>1. PICK k \in 0..usage.renames : Ahead(counter, usage.byte, k)
  BY DEF Distance
<1>2. k \in Nat /\ usage.byte \in Byte
  BY DEF TypeOK, Usage, Distance
<1>. QED BY <1>1, <1>2, AheadIsSum

\* Every counter file a first start may find is readable, and nothing was sent.
LEMMA InitHolds == Init => IInv
<1>. SUFFICES ASSUME Init PROVE IInv
  OBVIOUS
<1>1. PICK file \in Byte \cup {Absent} :
        disk = [file |-> file, stable |-> {file}, new |-> Absent, newSynced |-> FALSE]
  BY DEF Init
<1>2. disk \in Disk /\ disk.file \in disk.stable /\ CounterReadable
  BY <1>1, BytesAreNoMarks, StoreAssumption DEF Disk, Counter, CounterReadable
<1>3. TypeOK
  BY <1>2, BytesAreNoMarks, NewSessionType DEF Init, TypeOK, Step, Usage, Counter
<1>4. ASSUME NEW p \in Process
      PROVE  ReservationInv(p)
  <2>1. pc[p] = "down" /\ session[p] = NewSession(0)
    BY DEF Init
  <2>. QED BY <2>1, BytesAreNoMarks, NewSessionType DEF ReservationInv
<1>5. usage.sessions = 0 /\ usage.byte = Absent
  BY DEF Init
<1>6. Distance
  BY <1>5 DEF Distance
<1>7. LinkByteIsReserved
  BY DEF LinkByteIsReserved, Init
<1>. QED BY <1>2, <1>3, <1>4, <1>5, <1>6, <1>7 DEF IInv

\* Only the holder of the lock is up; the others have neither counter nor session.
LEMMA HolderIsAlone ==
    ASSUME IInv, NEW p \in Process, pc[p] # "down", NEW q \in Process, q # p
    PROVE  pc[q] = "down" /\ session[q].generation = NoGeneration
BY DEF IInv, ReservationInv

\* A step that keeps another process down keeps what holds of it.
LEMMA DownIsKept ==
    ASSUME NEW q \in Process, pc'[q] = "down", session'[q].generation = NoGeneration
    PROVE  /\ ReservationInv(q)'
           /\ (pc[q] = "running" => session[q].resetCounter = next[q])'
           /\ pc'[q] \notin {"renamed", "reserved"}
BY DEF ReservationInv

LEMMA OpenKeepsInv ==
    ASSUME IInv, NEW p \in Process, Open(p)
    PROVE  IInv'
<1>1. /\ pc[p] = "down" /\ pc' = [pc EXCEPT ![p] = "opened"] /\ lock' = p /\ lock = NoProcess
      /\ UNCHANGED <<disk, next, session, usage>>
  BY DEF Open, Goto, LockFree
<1>2. TypeOK'
  BY <1>1 DEF IInv, TypeOK, Step
<1>3. \A q \in Process : pc[q] = "down" /\ session[q].generation = NoGeneration
  BY <1>1, StoreAssumption DEF IInv, ReservationInv
<1>4. pc'[p] = "opened" /\ \A q \in Process \ {p} : pc'[q] = "down"
  BY <1>1, <1>3 DEF IInv, TypeOK
<1>5. \A q \in Process : ReservationInv(q)'
  BY <1>1, <1>3, <1>4 DEF ReservationInv
<1>6. LinkByteIsReserved' /\ Distance'
  BY <1>1, <1>4 DEF IInv, LinkByteIsReserved, Distance
<1>. QED BY <1>1, <1>2, <1>5, <1>6 DEF IInv, CounterReadable

LEMMA ReadKeepsInv ==
    ASSUME IInv, NEW p \in Process, ReadCounter(p)
    PROVE  IInv'
<1>1. /\ pc[p] \in {"opened", "running"} /\ pc' = [pc EXCEPT ![p] = "read"]
      /\ next' = [next EXCEPT ![p] = Successor(disk.file)]
      /\ usage' = [usage EXCEPT !.calls = @ + 1] /\ UNCHANGED <<lock, disk, session>>
  BY DEF ReadCounter
<1>2. disk.file \in Byte \cup {Absent}
  BY DEF IInv, TypeOK, Disk, Counter, CounterReadable
<1>3. Successor(disk.file) \in Byte
  BY <1>2, SuccessorIsByte
<1>4. usage' \in Usage /\ usage'.byte = usage.byte /\ usage'.sessions = usage.sessions
      /\ usage'.renames = usage.renames
  BY <1>1 DEF IInv, TypeOK, Usage
<1>5. TypeOK'
  BY <1>1, <1>3, <1>4 DEF IInv, TypeOK, Step
<1>6. pc'[p] = "read" /\ next'[p] = Successor(disk.file)
  BY <1>1 DEF IInv, TypeOK
<1>7. \A q \in Process \ {p} : pc'[q] = "down" /\ session'[q].generation = NoGeneration
  BY <1>1, HolderIsAlone DEF IInv, TypeOK
<1>8. ReservationInv(p)'
  <2>1. CASE pc[p] = "opened"
    BY <1>1, <1>6, <2>1 DEF IInv, ReservationInv
  <2>2. CASE pc[p] = "running"
    <3>1. disk.file = session[p].resetCounter /\ session[p].resetCounter \in Byte
      BY <2>2 DEF IInv, TypeOK, ReservationInv, LinkByteIsReserved, Session, Byte
    <3>2. next'[p] = (session[p].resetCounter + 1) % ResetModulus
      BY <1>6, <3>1, BytesAreNoMarks DEF Successor
    <3>. QED BY <1>1, <1>6, <2>2, <3>2 DEF IInv, ReservationInv
  <2>. QED BY <1>1, <2>1, <2>2
<1>9. \A q \in Process : ReservationInv(q)'
  BY <1>7, <1>8, DownIsKept
<1>10. LinkByteIsReserved' /\ Distance'
  BY <1>1, <1>4, <1>6, <1>7 DEF IInv, LinkByteIsReserved, Distance
<1>. QED BY <1>1, <1>4, <1>5, <1>9, <1>10 DEF IInv, CounterReadable

LEMMA WriteKeepsInv ==
    ASSUME IInv, NEW p \in Process, WriteNew(p)
    PROVE  IInv'
<1>1. /\ pc[p] = "read" /\ pc' = [pc EXCEPT ![p] = "written"]
      /\ disk' = [disk EXCEPT !.new = next[p], !.newSynced = FALSE]
      /\ UNCHANGED <<lock, next, session, usage>>
  BY DEF WriteNew, Goto
<1>2. /\ disk' \in Disk /\ disk'.file = disk.file /\ disk'.stable = disk.stable
      /\ disk'.new = next[p]
  BY <1>1 DEF IInv, TypeOK, Disk, Counter
<1>3. TypeOK'
  BY <1>1, <1>2 DEF IInv, TypeOK, Step
<1>4. pc'[p] = "written"
  BY <1>1 DEF IInv, TypeOK
<1>5. \A q \in Process \ {p} : pc'[q] = "down" /\ session'[q].generation = NoGeneration
  BY <1>1, HolderIsAlone DEF IInv, TypeOK
<1>6. ReservationInv(p)'
  BY <1>1, <1>2, <1>4 DEF IInv, ReservationInv
<1>7. \A q \in Process : ReservationInv(q)'
  BY <1>5, <1>6, DownIsKept
<1>8. LinkByteIsReserved' /\ Distance'
  BY <1>1, <1>2, <1>4, <1>5 DEF IInv, LinkByteIsReserved, Distance
<1>. QED BY <1>1, <1>2, <1>3, <1>7, <1>8 DEF IInv, CounterReadable

LEMMA SyncNewKeepsInv ==
    ASSUME IInv, NEW p \in Process, SyncNew(p)
    PROVE  IInv'
<1>1. /\ pc[p] = "written" /\ pc' = [pc EXCEPT ![p] = "synced"]
      /\ disk' = [disk EXCEPT !.newSynced = TRUE]
      /\ UNCHANGED <<lock, next, session, usage>>
  BY DEF SyncNew, Goto
<1>2. /\ disk' \in Disk /\ disk'.file = disk.file /\ disk'.stable = disk.stable
      /\ disk'.new = disk.new /\ disk'.newSynced
  BY <1>1 DEF IInv, TypeOK, Disk
<1>3. TypeOK'
  BY <1>1, <1>2 DEF IInv, TypeOK, Step
<1>4. pc'[p] = "synced"
  BY <1>1 DEF IInv, TypeOK
<1>5. \A q \in Process \ {p} : pc'[q] = "down" /\ session'[q].generation = NoGeneration
  BY <1>1, HolderIsAlone DEF IInv, TypeOK
<1>6. ReservationInv(p)'
  BY <1>1, <1>2, <1>4 DEF IInv, ReservationInv
<1>7. \A q \in Process : ReservationInv(q)'
  BY <1>5, <1>6, DownIsKept
<1>8. LinkByteIsReserved' /\ Distance'
  BY <1>1, <1>2, <1>4, <1>5 DEF IInv, LinkByteIsReserved, Distance
<1>. QED BY <1>1, <1>2, <1>3, <1>7, <1>8 DEF IInv, CounterReadable

\* The counter put in place is one further than the one it replaces, and the count of
\* counters put in place goes on by one.
LEMMA RenameKeepsInv ==
    ASSUME IInv, NEW p \in Process, RenameNew(p)
    PROVE  IInv'
<1>1. /\ pc[p] = "synced" /\ pc' = [pc EXCEPT ![p] = "renamed"]
      /\ disk' = [disk EXCEPT !.file = disk.new,
                              !.stable = @ \cup {IF disk.newSynced THEN disk.new ELSE Garbage}]
      /\ usage' = [usage EXCEPT !.renames = @ + 1]
      /\ UNCHANGED <<lock, next, session>>
  BY DEF RenameNew, Goto
<1>2. /\ disk.new = next[p] /\ disk.newSynced /\ next[p] = Successor(disk.file)
      /\ next[p] \in Byte
  BY <1>1 DEF IInv, TypeOK, ReservationInv
<1>3. /\ disk' \in Disk /\ disk'.file = next[p] /\ disk'.stable = disk.stable \cup {next[p]}
  BY <1>1, <1>2 DEF IInv, TypeOK, Disk, Counter
<1>4. /\ usage' \in Usage /\ usage'.byte = usage.byte /\ usage'.sessions = usage.sessions
      /\ usage'.renames = usage.renames + 1 /\ usage.renames \in Nat
  BY <1>1 DEF IInv, TypeOK, Usage
<1>5. TypeOK'
  BY <1>1, <1>3, <1>4 DEF IInv, TypeOK, Step
<1>6. pc'[p] = "renamed"
  BY <1>1 DEF IInv, TypeOK
<1>7. \A q \in Process \ {p} : pc'[q] = "down" /\ session'[q].generation = NoGeneration
  BY <1>1, HolderIsAlone DEF IInv, TypeOK
<1>8. ReservationInv(p)'
  BY <1>1, <1>3, <1>6 DEF IInv, ReservationInv
<1>9. \A q \in Process : ReservationInv(q)'
  BY <1>7, <1>8, DownIsKept
<1>10. Distance'
  <2>. SUFFICES ASSUME usage.sessions > 0
                PROVE  /\ usage.byte \in Byte
                       /\ \A counter \in disk.stable \cup {next[p]} :
                            \E k \in 0..(usage.renames + 1) : Ahead(counter, usage.byte, k)
                       /\ \E k \in 1..(usage.renames + 1) : Ahead(next[p], usage.byte, k)
    BY <1>3, <1>4, <1>6, <1>7 DEF Distance
  <2>1. /\ usage.byte \in Byte
        /\ \A counter \in disk.stable :
              \E k \in 0..usage.renames : Ahead(counter, usage.byte, k)
    BY DEF IInv, Distance
  <2>2. PICK k \in 0..usage.renames : Ahead(disk.file, usage.byte, k)
    BY <2>1 DEF IInv
  <2>3. next[p] = (disk.file + 1) % ResetModulus
    BY <1>2, <2>2, BytesAreNoMarks DEF Successor, Ahead
  <2>4. Ahead(next[p], usage.byte, k + 1) /\ k + 1 \in 1..(usage.renames + 1)
    BY <1>4, <2>1, <2>2, <2>3, AheadStep
  <2>5. ASSUME NEW counter \in disk.stable
        PROVE  \E j \in 0..(usage.renames + 1) : Ahead(counter, usage.byte, j)
    <3>1. PICK j \in 0..usage.renames : Ahead(counter, usage.byte, j)
      BY <2>1
    <3>2. j \in 0..(usage.renames + 1)
      BY <1>4
    <3>. QED BY <3>1, <3>2
  <2>6. k + 1 \in 0..(usage.renames + 1)
    BY <1>4, <2>4
  <2>. QED BY <2>1, <2>4, <2>5, <2>6
<1>11. LinkByteIsReserved'
  BY <1>6, <1>7 DEF LinkByteIsReserved
<1>12. CounterReadable' /\ disk'.file \in disk'.stable
  BY <1>2, <1>3, BytesAreNoMarks DEF IInv, CounterReadable
<1>. QED BY <1>4, <1>5, <1>9, <1>10, <1>11, <1>12 DEF IInv

LEMMA SyncDirectoryKeepsInv ==
    ASSUME IInv, NEW p \in Process, SyncDirectory(p)
    PROVE  IInv'
<1>1. /\ pc[p] = "renamed" /\ pc' = [pc EXCEPT ![p] = "reserved"]
      /\ disk' = [disk EXCEPT !.stable = {disk.file}]
      /\ UNCHANGED <<lock, next, session, usage>>
  BY DEF SyncDirectory, Goto
<1>2. disk' \in Disk /\ disk'.file = disk.file /\ disk'.stable = {disk.file}
  BY <1>1 DEF IInv, TypeOK, Disk
<1>3. TypeOK'
  BY <1>1, <1>2 DEF IInv, TypeOK, Step
<1>4. pc'[p] = "reserved"
  BY <1>1 DEF IInv, TypeOK
<1>5. \A q \in Process \ {p} : pc'[q] = "down" /\ session'[q].generation = NoGeneration
  BY <1>1, HolderIsAlone DEF IInv, TypeOK
<1>6. ReservationInv(p)'
  BY <1>1, <1>2, <1>4 DEF IInv, ReservationInv
<1>7. \A q \in Process : ReservationInv(q)'
  BY <1>5, <1>6, DownIsKept
<1>8. LinkByteIsReserved' /\ Distance'
  BY <1>1, <1>2, <1>4, <1>5 DEF IInv, LinkByteIsReserved, Distance
<1>. QED BY <1>1, <1>2, <1>3, <1>7, <1>8 DEF IInv, CounterReadable

\* The new session's byte is the counter in the file, which is durable: the distance
\* starts again from 0.
LEMMA BeginKeepsInv ==
    ASSUME IInv, NEW p \in Process, BeginSession(p)
    PROVE  IInv' /\ usage'.byte = disk.file /\ pc[p] = "reserved"
<1>1. /\ pc[p] = "reserved" /\ pc' = [pc EXCEPT ![p] = "running"]
      /\ session' = [session EXCEPT ![p] = LinkSession(p)]
      /\ usage' = [usage EXCEPT !.byte = session'[p].resetCounter, !.sessions = @ + 1,
                                !.renames = 0]
      /\ UNCHANGED <<lock, disk, next>>
  BY DEF BeginSession, Goto
<1>2. /\ session[p] \in Session /\ next[p] \in Byte /\ next[p] = disk.file
      /\ disk.stable = {disk.file}
  BY <1>1 DEF IInv, TypeOK, ReservationInv
<1>3. LinkSession(p) \in Session /\ LinkSession(p).resetCounter = next[p]
  BY <1>1, <1>2, LinkSessionByte DEF IInv, ReservationInv
<1>4. session' \in [Process -> Session] /\ session'[p].resetCounter = next[p]
  BY <1>1, <1>3 DEF IInv, TypeOK
<1>5. /\ usage' \in Usage /\ usage'.byte = next[p] /\ usage'.renames = 0
      /\ usage'.sessions = usage.sessions + 1 /\ usage'.sessions > 0
  <2>1. usage \in Usage /\ next[p] \in Counter
    BY <1>2 DEF IInv, TypeOK, Counter
  <2>2. usage' = [usage EXCEPT !.byte = next[p], !.sessions = usage.sessions + 1, !.renames = 0]
    BY <1>1, <1>4
  <2>3. usage.sessions + 1 \in Nat /\ usage.sessions + 1 > 0
    BY <2>1 DEF Usage
  <2>4. /\ usage' \in Usage /\ usage'.byte = next[p] /\ usage'.renames = 0
        /\ usage'.sessions = usage.sessions + 1
    BY <2>1, <2>2, <2>3 DEF Usage
  <2>. QED BY <2>3, <2>4
<1>6. TypeOK'
  BY <1>1, <1>4, <1>5 DEF IInv, TypeOK, Step
<1>7. pc'[p] = "running"
  BY <1>1 DEF IInv, TypeOK
<1>8. \A q \in Process \ {p} : pc'[q] = "down" /\ session'[q].generation = NoGeneration
  BY <1>1, HolderIsAlone DEF IInv, TypeOK
<1>9. ReservationInv(p)'
  BY <1>1, <1>2, <1>7 DEF IInv, ReservationInv
<1>10. \A q \in Process : ReservationInv(q)'
  BY <1>8, <1>9, DownIsKept
<1>11. LinkByteIsReserved'
  BY <1>1, <1>4, <1>8 DEF LinkByteIsReserved
<1>12. Distance'
  <2>1. Ahead(next[p], next[p], 0)
    <3>1. next[p] \in Nat /\ ResetModulus \in Nat
      BY <1>2, PolicyAssumption DEF Byte
    <3>2. next[p] + ResetModulus * 0 = next[p] + 0
      BY <3>1
    <3>. QED BY <1>2, <3>2 DEF Ahead
  <2>2. 0 \in 0..0
    OBVIOUS
  <2>. QED BY <1>1, <1>2, <1>5, <1>7, <1>8, <2>1, <2>2 DEF Distance
<1>13. usage'.sessions # 0
  BY <1>5 DEF Usage
<1>. QED BY <1>1, <1>2, <1>5, <1>6, <1>10, <1>11, <1>12, <1>13 DEF IInv, CounterReadable

\* A process that dies takes its memory and its lock along and leaves the files.
LEMMA DieKeepsInv ==
    ASSUME IInv, NEW p \in Process, Die(p)
    PROVE  IInv'
<1>1. /\ pc[p] # "down" /\ pc' = [pc EXCEPT ![p] = "down"]
      /\ lock' = (IF lock = p THEN NoProcess ELSE lock)
      /\ next' = [next EXCEPT ![p] = 0]
      /\ session' = [session EXCEPT ![p] = NewSession(0)]
      /\ UNCHANGED <<disk, usage>>
  BY DEF Die
<1>2. TypeOK'
  BY <1>1, BytesAreNoMarks, NewSessionType DEF IInv, TypeOK, Step
<1>3. \A q \in Process : pc'[q] = "down" /\ session'[q].generation = NoGeneration
  BY <1>1, HolderIsAlone, BytesAreNoMarks, NewSessionType DEF IInv, TypeOK
<1>4. \A q \in Process : ReservationInv(q)'
  BY <1>3, DownIsKept
<1>5. LinkByteIsReserved' /\ Distance'
  BY <1>1, <1>3 DEF IInv, LinkByteIsReserved, Distance
<1>. QED BY <1>1, <1>2, <1>4, <1>5 DEF IInv, CounterReadable

\* A power loss leaves one of the counters the file may turn out to be.
LEMMA PowerLossKeepsInv ==
    ASSUME IInv, PowerLoss
    PROVE  IInv'
<1>1. PICK file \in disk.stable :
        disk' = [file |-> file, stable |-> {file}, new |-> Absent, newSynced |-> FALSE]
  BY DEF PowerLoss
<1>2. /\ lock' = NoProcess /\ pc' = [p \in Process |-> "down"] /\ next' = [p \in Process |-> 0]
      /\ session' = [p \in Process |-> NewSession(0)] /\ UNCHANGED usage
  BY DEF PowerLoss
<1>3. disk' \in Disk /\ disk'.file \in disk'.stable /\ disk'.stable \subseteq disk.stable
  BY <1>1 DEF IInv, TypeOK, Disk, Counter
<1>4. TypeOK'
  BY <1>2, <1>3, BytesAreNoMarks, NewSessionType DEF IInv, TypeOK, Step
<1>5. \A q \in Process : pc'[q] = "down" /\ session'[q].generation = NoGeneration
  BY <1>2, BytesAreNoMarks, NewSessionType
<1>6. \A q \in Process : ReservationInv(q)'
  BY <1>5, DownIsKept
<1>7. LinkByteIsReserved' /\ Distance'
  BY <1>2, <1>3, <1>5 DEF IInv, LinkByteIsReserved, Distance
<1>. QED BY <1>2, <1>3, <1>4, <1>6, <1>7 DEF IInv, CounterReadable

\* Between two steps nothing changes.
LEMMA StutterKeepsInv == IInv /\ UNCHANGED vars => IInv'
  BY DEF IInv, vars, TypeOK, CounterReadable, ReservationInv, LinkByteIsReserved, Distance

\* The invariant is inductive.
LEMMA Inductive == Spec => []IInv
<1>1. IInv /\ [Next]_vars => IInv'
  <2>. SUFFICES ASSUME IInv, [Next]_vars PROVE IInv'
    OBVIOUS
  <2>1. CASE PowerLoss
    BY <2>1, PowerLossKeepsInv
  <2>2. CASE UNCHANGED vars
    BY <2>2, StutterKeepsInv
  <2>3. ASSUME NEW p \in Process,
               \/ Open(p) \/ ReadCounter(p) \/ WriteNew(p) \/ SyncNew(p)
               \/ RenameNew(p) \/ SyncDirectory(p) \/ BeginSession(p) \/ Die(p)
        PROVE  IInv'
    BY <2>3, OpenKeepsInv, ReadKeepsInv, WriteKeepsInv, SyncNewKeepsInv, RenameKeepsInv,
       SyncDirectoryKeepsInv, BeginKeepsInv, DieKeepsInv
  <2>. QED BY <2>1, <2>2, <2>3 DEF Next
<1>. QED BY InitHolds, <1>1, PTL DEF Spec

-----------------------------------------------------------------------------

\* Whatever is interrupted, and whatever a power loss leaves: the counter file parses,
\* the next byte reserved from it is not the latest session's, and no two processes
\* reserve at the same time.  (reserve_reset)
THEOREM StoreInvariant == Spec => []StoreInv
<1>1. IInv => StoreInv
  BY DistanceIsDurability DEF IInv, StoreInv
<1>. QED BY Inductive, <1>1, PTL

\* The link's own counting never leaves the bytes that were reserved for it.
\* (run_flight, FlightSession::start)
THEOREM LinkBytes == Spec => []LinkByteIsReserved
<1>1. IInv => LinkByteIsReserved
  BY DEF IInv
<1>. QED BY Inductive, <1>1, PTL

\* Two successive sessions carry different bytes across crashes and power losses.
\* (reserve_reset, FlightSession::start)
THEOREM SessionsDiffer == Spec => SuccessiveSessionsDiffer
<1>. DEFINE Differs == usage'.sessions # usage.sessions /\ usage.renames < ResetModulus
                       => usage'.byte # usage.byte
<1>1. IInv /\ [Next]_vars => [Differs]_vars
  <2>. SUFFICES ASSUME IInv, [Next]_vars, usage'.sessions # usage.sessions,
                       usage.renames < ResetModulus
                PROVE  usage'.byte # usage.byte
    BY DEF vars
  <2>1. PICK p \in Process : BeginSession(p)
    <3>1. usage \in Usage
      BY DEF IInv, TypeOK
    <3>. QED BY <3>1 DEF Next, Open, ReadCounter, WriteNew, SyncNew, RenameNew, SyncDirectory,
                        Die, PowerLoss, vars, Usage
  <2>2. usage'.byte = disk.file /\ pc[p] = "reserved"
    BY <2>1, BeginKeepsInv
  <2>3. disk.file \in Byte /\ usage.sessions \in Nat /\ usage.renames \in Nat
    BY <2>2 DEF IInv, TypeOK, Usage, ReservationInv
  <2>4. CASE usage.sessions = 0
    BY <2>2, <2>3, <2>4, BytesAreNoMarks DEF IInv
  <2>5. CASE usage.sessions > 0
    <3>1. PICK k \in 1..usage.renames : Ahead(disk.file, usage.byte, k)
      BY <2>2, <2>5 DEF IInv, Distance
    <3>2. usage.byte \in Byte /\ k \in Nat /\ 1 <= k /\ k < ResetModulus
      BY <2>3, <2>5, PolicyAssumption DEF IInv, Distance
    <3>. QED BY <2>2, <3>1, <3>2, AheadDiffers
  <2>. QED BY <2>3, <2>4, <2>5
<1>. QED BY Inductive, <1>1, PTL DEF Spec, SuccessiveSessionsDiffer
===============================================================================
