----------------------------- MODULE RegistryFile -----------------------------
(* How an operation of the access registry (server/src/access-store.ts)      *)
(* reaches its file: withWriteLock queues the operations of one process,     *)
(* acquireFileLock excludes the other processes (the host and the command    *)
(* line tool) with a lock file whose holder may die, and write replaces the  *)
(* file by renaming a temporary one over it.                                 *)
EXTENDS Integers, Sequences

CONSTANTS Calls,        \* operations that are ever called
          Processes,
          ProcessOf,    \* the process that calls an operation
          NoLock,       \* there is no lock file
          StaleAfter,   \* 30 seconds, in ticks
          MaxCrashes    \* bound on crashes of a process

ASSUME CallsAssumption == ProcessOf \in [Calls -> Processes]
ASSUME NoLockAssumption == NoLock \notin Calls
ASSUME BoundsAssumption == StaleAfter \in Nat /\ MaxCrashes \in Nat

(* Where an operation stands.  "open" is about to create the lock file,      *)
(* "stat" has found it there, "remove" has judged it stale, "read" holds it,  *)
(* "write" holds it with the snapshot it read, "replace" has removed the     *)
(* registry to rename over it, "release" is about to remove the lock file.   *)
Waiting == {"open", "stat", "remove"}
Holding == {"read", "write", "replace", "release"}
Ended == {"done", "failed"}

VARIABLES
    pc,
    waited,     \* how long an operation has been trying to take the lock
    snapshot,   \* what it read
    result,     \* how it will end: "changed", "same" or "failed"
    chain,      \* promise chain of each process
    lock,       \* the operation that created the lock file, or NoLock
    age,        \* time since the lock file was created
    file,       \* operations the registry reflects; a file that is missing reads as none
    usurped,    \* history: a working holder's lock file was removed
    refused,    \* history: a rename was refused and the file removed first
    crashes

fileVars == <<pc, waited, snapshot, result, chain, lock, age, file, usurped, refused, crashes>>
disk == <<lock, age, file, usurped, refused>>

FileInit == /\ pc = [c \in Calls |-> "idle"]
            /\ waited = [c \in Calls |-> 0]
            /\ snapshot = [c \in Calls |-> {}]
            /\ result = [c \in Calls |-> "same"]
            /\ chain = [p \in Processes |-> <<>>]
            /\ lock = NoLock
            /\ age = 0
            /\ file = {}
            /\ usurped = FALSE
            /\ refused = FALSE
            /\ crashes = 0

Goes(c, step) == pc' = [pc EXCEPT ![c] = step]

(* An operation that has ended, or has the lock, has no use for these. *)
Forget(c) == /\ waited' = [waited EXCEPT ![c] = 0]
             /\ snapshot' = [snapshot EXCEPT ![c] = {}]

(* One more tick of a clock that is only compared with StaleAfter. *)
Older(t) == IF t > StaleAfter THEN t ELSE t + 1

Call(c) == /\ pc[c] = "idle"
           /\ Goes(c, "queued")
           /\ chain' = [chain EXCEPT ![ProcessOf[c]] = Append(@, c)]
           /\ UNCHANGED <<waited, snapshot, result, crashes, disk>>

(* The promise of the previous operation of the process has been resolved. *)
Begin(c) == /\ pc[c] = "queued"
            /\ Head(chain[ProcessOf[c]]) = c
            /\ Goes(c, "open")
            /\ UNCHANGED <<waited, snapshot, result, chain, crashes, disk>>

CreateLockAnyway(c) ==  \* mutant: the flag "wx" is missing
                       /\ pc[c] = "open"
                       /\ lock' = c
                       /\ age' = 0
                       /\ Goes(c, "read")
                       /\ Forget(c)
                       /\ UNCHANGED <<result, chain, file, usurped, refused, crashes>>

(* open(.., "wx") creates the file or fails. *)
CreateLock(c) == /\ pc[c] = "open"
                 /\ lock = NoLock
                 /\ lock' = c
                 /\ age' = 0
                 /\ Goes(c, "read")
                 /\ Forget(c)
                 /\ UNCHANGED <<result, chain, file, usurped, refused, crashes>>

(* It was created but the process id could not be written: it is removed again. *)
CreateFails(c) == /\ pc[c] = "open"
                  /\ lock = NoLock
                  /\ lock' = c
                  /\ age' = 0
                  /\ Goes(c, "release")
                  /\ result' = [result EXCEPT ![c] = "failed"]
                  /\ Forget(c)
                  /\ UNCHANGED <<chain, file, usurped, refused, crashes>>

FindLock(c) == /\ pc[c] = "open"
               /\ lock # NoLock
               /\ Goes(c, "stat")
               /\ UNCHANGED <<waited, snapshot, result, chain, crashes, disk>>

IsStale == age > StaleAfter

GiveUpQueued(c) ==  \* mutant: release() is not called
                   /\ Goes(c, "failed")
                   /\ result' = [result EXCEPT ![c] = "failed"]
                   /\ Forget(c)
                   /\ UNCHANGED <<chain, crashes, disk>>

(* The waiter leaves the queue without the lock. *)
GiveUp(c) == /\ Goes(c, "failed")
             /\ result' = [result EXCEPT ![c] = "failed"]
             /\ chain' = [chain EXCEPT ![ProcessOf[c]] = Tail(@)]
             /\ Forget(c)
             /\ UNCHANGED <<crashes, disk>>

(* The file is gone by now, is judged stale, or is waited for while the time *)
(* of the waiter lasts.                                                      *)
JudgeStale(c) == /\ pc[c] = "stat"
                 /\ lock # NoLock
                 /\ IsStale
                 /\ Goes(c, "remove")
                 /\ UNCHANGED <<waited, snapshot, result, chain, crashes, disk>>

Retry(c) == /\ pc[c] = "stat"
            /\ lock = NoLock \/ ~IsStale
            /\ waited[c] <= StaleAfter
            /\ Goes(c, "open")
            /\ UNCHANGED <<waited, snapshot, result, chain, crashes, disk>>

TimeOut(c) == /\ pc[c] = "stat"
              /\ lock = NoLock \/ ~IsStale
              /\ waited[c] > StaleAfter
              /\ GiveUp(c)

(* Removing the path takes away whatever lock file is there by now. *)
RemoveLock(c) == /\ lock' = NoLock
                 /\ age' = 0
                 /\ usurped' = (usurped \/ (lock \notin {NoLock, c} /\ pc[lock] \in Holding))
                 /\ UNCHANGED <<file, refused>>

RemoveStale(c) == /\ pc[c] = "remove"
                  /\ RemoveLock(c)
                  /\ Goes(c, "open")
                  /\ UNCHANGED <<waited, snapshot, result, chain, crashes>>

(* open, stat or rm fails for another reason. *)
WaitFails(c) == /\ pc[c] \in Waiting
                /\ GiveUp(c)

Read(c) == /\ pc[c] = "read"
           /\ snapshot' = [snapshot EXCEPT ![c] = file]
           /\ Goes(c, "write")
           /\ UNCHANGED <<waited, result, chain, crashes, disk>>

(* The operation has nothing to change, or refuses its arguments. *)
NothingToWrite(c) == /\ pc[c] = "write"
                     /\ \E r \in {"same", "failed"} : result' = [result EXCEPT ![c] = r]
                     /\ Goes(c, "release")
                     /\ Forget(c)
                     /\ UNCHANGED <<chain, crashes, disk>>

FileFailsUnseen(c) ==  \* mutant: the error is swallowed
                      /\ pc[c] \in {"read", "write", "replace"}
                      /\ result' = [result EXCEPT ![c] = "changed"]
                      /\ Goes(c, "release")
                      /\ Forget(c)
                      /\ UNCHANGED <<chain, crashes, disk>>

(* Reading or writing throws; the registry keeps what it has. *)
FileFails(c) == /\ pc[c] \in {"read", "write", "replace"}
                /\ result' = [result EXCEPT ![c] = "failed"]
                /\ Goes(c, "release")
                /\ Forget(c)
                /\ UNCHANGED <<chain, crashes, disk>>

(* The temporary file takes the place of the registry. *)
Rename(c) == /\ pc[c] \in {"write", "replace"}
             /\ file' = snapshot[c] \cup {c}
             /\ result' = [result EXCEPT ![c] = "changed"]
             /\ Goes(c, "release")
             /\ Forget(c)
             /\ UNCHANGED <<chain, lock, age, usurped, refused, crashes>>

(* The rename was refused (EEXIST, EPERM, ENOTEMPTY): the registry is removed first. *)
RenameRefused(c) == /\ pc[c] = "write"
                    /\ file' = {}
                    /\ refused' = TRUE
                    /\ Goes(c, "replace")
                    /\ UNCHANGED <<waited, snapshot, result, chain, lock, age, usurped, crashes>>

Outcome(c) == IF result[c] = "failed" THEN "failed" ELSE "done"

(* The lock file is removed, whoever created it, or stays if that fails; the *)
(* next operation of the process may begin.                                  *)
Release(c) == /\ pc[c] = "release"
              /\ \/ RemoveLock(c)
                 \/ UNCHANGED disk
              /\ Goes(c, Outcome(c))
              /\ chain' = [chain EXCEPT ![ProcessOf[c]] = Tail(@)]
              /\ UNCHANGED <<waited, snapshot, result, crashes>>

Running(c, p) == ProcessOf[c] = p /\ pc[c] \notin Ended \cup {"idle"}

(* The process dies where it stands; its lock file stays. *)
Crash(p) == /\ crashes < MaxCrashes
            /\ chain[p] # <<>>
            /\ pc' = [c \in Calls |-> IF Running(c, p) THEN "failed" ELSE pc[c]]
            /\ result' = [c \in Calls |-> IF Running(c, p) THEN "failed" ELSE result[c]]
            /\ waited' = [c \in Calls |-> IF Running(c, p) THEN 0 ELSE waited[c]]
            /\ snapshot' = [c \in Calls |-> IF Running(c, p) THEN {} ELSE snapshot[c]]
            /\ chain' = [chain EXCEPT ![p] = <<>>]
            /\ crashes' = crashes + 1
            /\ UNCHANGED disk

(* Time passes for the waiters and for the lock file. *)
FileTick == /\ waited' = [c \in Calls |-> IF pc[c] \in Waiting THEN Older(waited[c]) ELSE waited[c]]
            /\ age' = IF lock = NoLock THEN age ELSE Older(age)
            /\ UNCHANGED <<pc, snapshot, result, chain, lock, file, usurped, refused, crashes>>

Step(c) == \/ Begin(c) \/ CreateLock(c) \/ CreateFails(c) \/ FindLock(c)
           \/ JudgeStale(c) \/ Retry(c) \/ TimeOut(c) \/ RemoveStale(c) \/ WaitFails(c)
           \/ Read(c) \/ NothingToWrite(c) \/ FileFails(c) \/ Rename(c) \/ RenameRefused(c)
           \/ Release(c)

FileNext == \/ \E c \in Calls : Call(c) \/ Step(c)
            \/ \E p \in Processes : Crash(p)
            \/ FileTick

FileSpec == FileInit /\ [][FileNext]_fileVars

(* File operations answer and time passes; nothing obliges a caller to call, *)
(* and no failure has to happen: the fair steps are those that succeed.    *)
Succeeds(c) == \/ Begin(c) \/ CreateLock(c) \/ FindLock(c) \/ JudgeStale(c) \/ Retry(c)
               \/ TimeOut(c) \/ RemoveStale(c) \/ Read(c) \/ Rename(c) \/ Release(c)

LiveSpec == FileSpec /\ WF_fileVars(FileTick) /\ \A c \in Calls : WF_fileVars(Succeeds(c))

-------------------------------------------------------------------------------
FileTypeOK == /\ pc \in [Calls -> {"idle", "queued"} \cup Waiting \cup Holding \cup Ended]
              /\ waited \in [Calls -> 0..StaleAfter + 1]
              /\ snapshot \in [Calls -> SUBSET Calls]
              /\ result \in [Calls -> {"changed", "same", "failed"}]
              /\ chain \in [Processes -> Seq(Calls)]
              /\ lock \in Calls \cup {NoLock}
              /\ age \in 0..StaleAfter + 1
              /\ file \in SUBSET Calls
              /\ usurped \in BOOLEAN
              /\ refused \in BOOLEAN
              /\ crashes \in 0..MaxCrashes

(* Two operations never work on the registry at once, of one process or of   *)
(* two, unless a lock file was removed under a working holder: by a waiter   *)
(* that found it older than 30 seconds (access-store.ts:125), or found such  *)
(* a one and removed its successor, or by a holder releasing a lock file     *)
(* that is no longer its own (access-store.ts:110).                          *)
OneHolder == ~usurped => \A c, d \in Calls :
                 pc[c] \in Holding /\ pc[d] \in Holding => c = d

(* Every operation ends, refused or carried out, while others wait, hold or  *)
(* die with the lock: the queue of a process is never stuck                  *)
(* (access-store.ts:144-163).                                                *)
CallsEnd == \A c \in Calls : pc[c] = "queued" ~> pc[c] \in Ended

(* The file keeps the promise of an atomic registry to its users, through    *)
(* crashes, failed file operations and stale locks, until a working holder   *)
(* loses its lock or a rename is refused.                                    *)
Abstract == INSTANCE RegistryPromise
                WITH registry <- file,
                     acked <- {c \in Calls : pc[c] = "done" /\ result[c] = "changed"},
                     broken <- usurped \/ refused

KeepsPromise == Abstract!Promise
===============================================================================
