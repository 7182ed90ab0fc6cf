------------------------------ MODULE JsonStore ------------------------------
(***************************************************************************)
(* The control plane's database (store.ts): one JSON file, replaced as a   *)
(* whole by writing a temporary file and renaming it; a queue of mutations *)
(* over a copy of the data in memory; and the migration of older files at  *)
(* start-up.  The process may crash between any two of these steps.  The   *)
(* file system keeps what it was given (the code does not sync, and a loss *)
(* of power is not modelled).                                              *)
(*                                                                         *)
(* A database is a record with the fields version and applied, the jobs    *)
(* that it holds the effects of; the module that extends this one says     *)
(* what else is in it and what a mutation does.                            *)
(*                                                                         *)
(* SettleSilently, WrittenInPlace and AppliesAtOnce are the operators      *)
(* after them with one plausible slip; nothing else uses them.             *)
(***************************************************************************)
EXTENDS Naturals, Sequences, SequencesExt

CONSTANTS
    MaxJobs,   \* bound: mutations of a behaviour
    Absent,    \* no such file
    Torn,      \* a file that is no JSON
    MaxFaults  \* bound: crashes and failed file operations

ASSUME StoreAssumption ==
    /\ MaxJobs \in Nat
    /\ Absent # Torn
    /\ MaxFaults \in Nat

(* Mutations are numbered in the order of the calls.                      *)
Jobs == 1..MaxJobs

VARIABLES
    process,  \* "down", "booting" (store.initialize), "recovering", "up"
    data,     \* this.data
    next,     \* the copy that is being persisted
    file,     \* launchpad.json
    temp,     \* launchpad.json.tmp
    queue,    \* mutations, the first being applied
    step,     \* how far that one is: "idle", "writing", "written", "renamed"
    issued,   \* mutations called so far
    settled,  \* what their callers were told
    faults

storeVars == <<process, data, next, file, temp, queue, step, issued, settled, faults>>

Fault == faults < MaxFaults /\ faults' = faults + 1
Job == Head(queue)

-----------------------------------------------------------------------------
(* mutate: a call.  job is a record with a field id.                       *)
NextJob == issued + 1
Mutate(job) ==
    /\ job.id = NextJob /\ NextJob \in Jobs
    /\ issued' = NextJob
    /\ queue' = Append(queue, job)
    /\ UNCHANGED <<process, data, next, file, temp, step, settled, faults>>

SettleSilently(answer) ==
    /\ settled' = IF process = "booting" \/ answer = "failed" THEN settled
                  ELSE [settled EXCEPT ![Job.id] = answer]
    /\ queue' = IF process = "booting" THEN queue ELSE Tail(queue)
    /\ step' = "idle"
Settle(answer) ==
    /\ settled' = IF process = "booting" THEN settled
                  ELSE [settled EXCEPT ![Job.id] = answer]
    /\ queue' = IF process = "booting" THEN queue ELSE Tail(queue)
    /\ step' = "idle"

(* The mutation throws: neither data nor file has changed.                 *)
MutationThrows ==
    /\ step = "idle" /\ queue # <<>>
    /\ Settle("failed")
    /\ UNCHANGED <<process, data, next, file, temp, issued, faults>>

(* persist: writeFile, then rename.                                        *)
WrittenInPlace(db) == file' = Torn /\ temp' = Torn
WriteTemporary(db) == temp' = Torn /\ UNCHANGED file
Persist(db) ==
    /\ next' = db
    /\ step' = "writing"
    /\ WriteTemporary(db)

AppliesAtOnce(db) ==
    /\ step = "idle" /\ queue # <<>>
    /\ Persist([db EXCEPT !.applied = Append(@, Job.id)])
    /\ data' = next'
    /\ UNCHANGED <<process, queue, issued, settled, faults>>
Applies(db) ==
    /\ step = "idle" /\ queue # <<>>
    /\ Persist([db EXCEPT !.applied = Append(@, Job.id)])
    /\ UNCHANGED <<process, data, queue, issued, settled, faults>>

WriteEnds ==
    /\ step = "writing"
    /\ step' = "written" /\ temp' = next
    /\ UNCHANGED <<process, data, next, file, queue, issued, settled, faults>>

Rename ==
    /\ step = "written"
    /\ step' = "renamed" /\ file' = temp /\ temp' = Absent
    /\ UNCHANGED <<process, data, next, queue, issued, settled, faults>>

(* this.data = next, and the caller goes on.                               *)
Publish ==
    /\ step = "renamed"
    /\ data' = next
    /\ process' = IF process = "booting" THEN "recovering" ELSE process
    /\ Settle("done")
    /\ UNCHANGED <<next, file, temp, issued, faults>>

(* writeFile or rename fails; at start-up that ends the process.           *)
PersistFails ==
    /\ step \in {"writing", "written"}
    /\ Fault
    /\ Settle("failed")
    /\ process' = IF process = "booting" THEN "down" ELSE process
    /\ UNCHANGED <<data, next, file, temp, issued>>

-----------------------------------------------------------------------------
(* initialize: a current file is taken as it is, an older one migrated and *)
(* written, and a missing one created.                                     *)
Migrated(db, migrate) == [migrate EXCEPT !.version = 4]

Boot(empty, migrate) ==
    /\ process = "down"
    /\ IF file = Absent
       THEN /\ process' = "booting" /\ data' = empty
            /\ Persist(empty)
       ELSE /\ file # Torn
            /\ IF file.version = 4
               THEN /\ process' = "recovering" /\ data' = file
                    /\ UNCHANGED <<next, file, temp, step>>
               ELSE /\ process' = "booting"
                    /\ data' = Migrated(file, migrate)
                    /\ Persist(Migrated(file, migrate))
    /\ UNCHANGED <<queue, issued, settled, faults>>

(* What is in memory is lost, the callers with it.                         *)
Crash ==
    /\ process # "down"
    /\ Fault
    /\ process' = "down" /\ queue' = <<>> /\ step' = "idle"
    /\ data' = Absent /\ next' = Absent
    /\ UNCHANGED <<file, temp, issued, settled>>

StoreInit(files) ==
    /\ process = "down" /\ data = Absent /\ next = Absent
    /\ file \in files /\ temp = Absent
    /\ queue = <<>> /\ step = "idle"
    /\ issued = 0 /\ settled = [j \in Jobs |-> "none"] /\ faults = 0

-----------------------------------------------------------------------------
Durable == IF file \in {Absent, Torn} THEN <<>> ELSE file.applied

Promise == INSTANCE DurableStore WITH log <- Durable

(* The queue over a temporary file implements whole, ordered, durable      *)
(* mutations.                                                              *)
ImplementsDurableStore == Promise!DurableSpec

(* What snapshot() shows is in the file, or was one mutation ago: nobody   *)
(* acts on a row that a crash can take back.                               *)
SnapshotIsDurable ==
    process \in {"recovering", "up"} =>
        IsPrefix(data.applied, Durable) /\ Len(Durable) <= Len(data.applied) + 1
=============================================================================
