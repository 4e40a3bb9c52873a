---------------------------- MODULE SessionStore ----------------------------
(***************************************************************************)
(* class SessionStore of src/session_store.cpp and the use run_flight of   *)
(* src/flight_application.cpp makes of it: the runtime directory's lock,   *)
(* the persistent reset counter, and the reset byte of the link's session, *)
(* which run_flight advances apart from the file after the first session.  *)
(*                                                                         *)
(* A process may die and the machine may lose power between any two system *)
(* calls; a system call that fails throws out of run_flight, which for     *)
(* this state is the same as dying there.                                  *)
(***************************************************************************)
EXTENDS SessionPolicy, FiniteSets

CONSTANTS
    Process,            \* processes that may be launched
    NoProcess,          \* no one holds the lock
    Absent,             \* there is no counter file yet
    Garbage,            \* a counter file that does not parse
    MaxReservations,    \* bound: calls of reserve_reset in a behaviour
    MaxGeneration       \* bound: sessions of one process

ASSUME StoreAssumption ==
    /\ NoProcess \notin Process
    /\ Absent # Garbage
    /\ {Absent, Garbage} \cap Nat = {}
    /\ MaxReservations \in Nat /\ MaxGeneration \in Nat

VARIABLES
    lock,       \* holder of the flock on application.lock
    disk,       \* the files reset_counter and reset_counter.new
    pc,         \* where each process is
    next,       \* the local variable next of reserve_reset
    session,    \* the FlightSession of each process's link
    usage       \* which byte the latest session was given (history)

vars == <<lock, disk, pc, next, session, usage>>

Byte == 0..(ResetModulus - 1)
Counter == Byte \cup {Absent, Garbage}

(***************************************************************************)
(* disk.file    the counter any process reads now                          *)
(* disk.stable  what it may turn out to be after a power loss              *)
(* disk.new, disk.newSynced   the temporary file and whether it is durable *)
(***************************************************************************)
Disk == [file : Counter, stable : SUBSET Counter, new : Counter, newSynced : BOOLEAN]

Step == {"down", "opened", "read", "written", "synced", "renamed", "reserved", "running"}

(***************************************************************************)
(* usage.byte, usage.sessions  the byte and number of the latest session   *)
(* usage.renames   counters put in place since then                        *)
(* usage.calls     reserve_reset calls so far                              *)
(***************************************************************************)
Usage == [byte : Counter, sessions : Nat, renames : Nat, calls : Nat]

TypeOK ==
    /\ lock \in Process \cup {NoProcess}
    /\ disk \in Disk
    /\ pc \in [Process -> Step]
    /\ next \in [Process -> Byte]
    /\ session \in [Process -> Session]
    /\ usage \in Usage

Init ==
    /\ lock = NoProcess
    /\ \E file \in Byte \cup {Absent} :
          disk = [file |-> file, stable |-> {file}, new |-> Absent, newSynced |-> FALSE]
    /\ pc = [p \in Process |-> "down"]
    /\ next = [p \in Process |-> 0]
    /\ session = [p \in Process |-> NewSession(0)]
    /\ usage = [byte |-> Absent, sessions |-> 0, renames |-> 0, calls |-> 0]

-----------------------------------------------------------------------------
Goto(p, from, to) == pc[p] = from /\ pc' = [pc EXCEPT ![p] = to]

LockFree_Ignored == TRUE

\* flock(LOCK_EX | LOCK_NB); a process that does not get it throws and exits.
LockFree == lock = NoProcess

Open(p) ==
    /\ LockFree
    /\ Goto(p, "down", "opened")
    /\ lock' = p
    /\ UNCHANGED <<disk, next, session, usage>>

Successor(counter) == IF counter = Absent THEN 0 ELSE (counter + 1) % ResetModulus

\* reserve_reset, for the link to be constructed or the next session to start.
ReadCounter(p) ==
    /\ usage.calls < MaxReservations
    /\ pc[p] = "opened" \/ (pc[p] = "running" /\ session[p].generation < MaxGeneration)
    /\ disk.file # Garbage
    /\ pc' = [pc EXCEPT ![p] = "read"]
    /\ next' = [next EXCEPT ![p] = Successor(disk.file)]
    /\ usage' = [usage EXCEPT !.calls = @ + 1]
    /\ UNCHANGED <<lock, disk, session>>

WriteNew(p) ==
    /\ Goto(p, "read", "written")
    /\ disk' = [disk EXCEPT !.new = next[p], !.newSynced = FALSE]
    /\ UNCHANGED <<lock, next, session, usage>>

SyncNew(p) ==
    /\ Goto(p, "written", "synced")
    /\ disk' = [disk EXCEPT !.newSynced = TRUE]
    /\ UNCHANGED <<lock, next, session, usage>>

\* rename() is atomic, but until the directory is synced a power loss may
\* bring back the old entry; an unsynced file may come back empty.
RenameNew(p) ==
    /\ Goto(p, "synced", "renamed")
    /\ disk' = [disk EXCEPT !.file = disk.new,
                            !.stable = @ \cup {IF disk.newSynced THEN disk.new ELSE Garbage}]
    /\ usage' = [usage EXCEPT !.renames = @ + 1]
    /\ UNCHANGED <<lock, next, session>>

SyncDirectory_Forgotten(p) ==
    /\ Goto(p, "renamed", "reserved")
    /\ UNCHANGED <<lock, disk, next, session, usage>>

SyncDirectory(p) ==
    /\ Goto(p, "renamed", "reserved")
    /\ disk' = [disk EXCEPT !.stable = {disk.file}]
    /\ UNCHANGED <<lock, next, session, usage>>

LinkSession_ReservedTwice(p) ==
    StartSession([session[p] EXCEPT !.resetCounter = next[p]], session[p].generation + 1)

\* run_flight gives the link the first reserved byte; of later reservations it
\* uses only that they succeeded, and the session counts on by itself.
LinkSession(p) ==
    LET s == IF session[p].generation = NoGeneration THEN NewSession(next[p]) ELSE session[p]
    IN  StartSession(s, s.generation + 1)

BeginSession(p) ==
    /\ Goto(p, "reserved", "running")
    /\ session' = [session EXCEPT ![p] = LinkSession(p)]
    /\ usage' = [usage EXCEPT !.byte = session'[p].resetCounter, !.sessions = @ + 1,
                              !.renames = 0]
    /\ UNCHANGED <<lock, disk, next>>

\* The process exits, throws or is killed: its memory and its lock are gone.
Die(p) ==
    /\ pc[p] # "down"
    /\ pc' = [pc EXCEPT ![p] = "down"]
    /\ lock' = IF lock = p THEN NoProcess ELSE lock
    /\ next' = [next EXCEPT ![p] = 0]
    /\ session' = [session EXCEPT ![p] = NewSession(0)]
    /\ UNCHANGED <<disk, usage>>

PowerLoss ==
    /\ \E file \in disk.stable :
          disk' = [file |-> file, stable |-> {file}, new |-> Absent, newSynced |-> FALSE]
    /\ lock' = NoProcess
    /\ pc' = [p \in Process |-> "down"]
    /\ next' = [p \in Process |-> 0]
    /\ session' = [p \in Process |-> NewSession(0)]
    /\ UNCHANGED usage

Next ==
    \/ \E p \in Process :
          \/ Open(p) \/ ReadCounter(p) \/ WriteNew(p) \/ SyncNew(p)
          \/ RenameNew(p) \/ SyncDirectory(p) \/ BeginSession(p) \/ Die(p)
    \/ PowerLoss

Spec == Init /\ [][Next]_vars

-----------------------------------------------------------------------------
\* The counter file always parses, whatever was interrupted, so no crash keeps
\* the application from starting again.  (reserve_reset)
CounterReadable == Garbage \notin disk.stable /\ disk.file # Garbage

\* The byte of the latest session survives: whatever a power loss leaves in
\* the file, the next reservation does not return it again before the bytes
\* wrap around.  (reserve_reset)
LatestByteIsDurable ==
    usage.sessions > 0 =>
        \A counter \in disk.stable :
            \E k \in 0..usage.renames :
                counter = (usage.byte + k) % ResetModulus

\* How far process p is with a reservation: what it holds in memory agrees with
\* the files, and a counter that is in place is durable before it is used.
ReservationInv(p) ==
    /\ pc[p] # "down" => lock = p
    /\ pc[p] \in {"read", "written", "synced"} => next[p] = Successor(disk.file)
    /\ pc[p] \in {"written", "synced"} => disk.new = next[p]
    /\ pc[p] = "synced" => disk.newSynced
    /\ pc[p] \in {"renamed", "reserved", "running"} => disk.file = next[p]
    /\ pc[p] \in {"reserved", "running"} => disk.stable = {disk.file}
    /\ pc[p] \in {"down", "opened"} => session[p].generation = NoGeneration
    /\ pc[p] \in {"read", "written", "synced", "renamed", "reserved"} =>
          \/ session[p].generation = NoGeneration
          \/ next[p] = (session[p].resetCounter + 1) % ResetModulus

\* A running session sends the byte reserved for it, although run_flight
\* ignores what reserve_reset returns after the first session and the session
\* increments a byte of its own.  (run_flight, FlightSession::start)
LinkByteIsReserved ==
    \A p \in Process : pc[p] = "running" => session[p].resetCounter = next[p]

\* What is stored is readable, and enough to go on from after any crash; no two
\* processes reserve at the same time.  (reserve_reset)
StoreInv ==
    /\ TypeOK
    /\ disk.file \in disk.stable
    /\ CounterReadable
    /\ LatestByteIsDurable
    /\ \A p \in Process : ReservationInv(p)
    /\ usage.sessions = 0 => usage.byte = Absent

\* Two successive sessions, of one process or of two with crashes and power
\* losses between them, never carry the same byte, as long as fewer
\* reservations than there are bytes were abandoned between.  (reserve_reset)
SuccessiveSessionsDiffer ==
    [][usage'.sessions # usage.sessions /\ usage.renames < ResetModulus
         => usage'.byte # usage.byte]_vars
=============================================================================
