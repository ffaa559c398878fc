----------------------------- MODULE AssetStore -----------------------------
(***************************************************************************)
(* Our own copy of a finished media job: the loop of every worker, one of  *)
(* which at a time holds an advisory lock and downloads what is pending,   *)
(* expires what is past its term and removes directories without a row;    *)
(* and the download route, which corrects the status by what it finds.     *)
(* The lock belongs to a connection: a worker that loses it goes on.       *)
(***************************************************************************)
EXTENDS Naturals, FiniteSets

CONSTANTS
  Workers,      \* processes that run the loop
  Results,      \* finished jobs whose assets are to be copied
  Assets,       \* assets of a job
  MaxTries,     \* STORE_MAX_ATTEMPTS
  Nobody

ASSUME StoreAssumption == Assets \in Nat \ {0} /\ MaxTries \in Nat \ {0} /\ Nobody \notin Workers \cup Results

VARIABLES
  copy, tries,  \* asset_store_status and asset_store_attempts of a row
  termOver,     \* results past assets_expire_at
  disk,         \* the files of a job's directory
  right,        \* who holds the advisory lock
  worker,       \* what a worker's tick has in hand
  reader,       \* one download request
  damaged,      \* history: results that lost a file from outside
  doubled       \* history: results written or expired by a worker not alone with the right

storeVars == <<copy, tries, termOver, disk, right, worker, reader, damaged, doubled>>

-----------------------------------------------------------------------------

Parts == 1..Assets
Expirable == {"stored", "pending", "failed", "missing"}

\* batch is what the SELECT found, with the attempts it read; tmp a file being written;
\* cut a connection lost, and the lock with it, before the next statement shows it.
Idle == [stage |-> "idle", batch |-> {}, read |-> [j \in Results |-> 0], job |-> Nobody,
         part |-> 1, tmp |-> FALSE, found |-> {}, cut |-> FALSE]
NoDownload == [stage |-> "none", job |-> Nobody, part |-> 1, status |-> "stored"]

StoreInit ==
  /\ copy = [j \in Results |-> "pending"] /\ tries = [j \in Results |-> 0]
  /\ termOver = {}
  /\ disk = [j \in Results |-> {}]
  /\ right = Nobody
  /\ worker = [w \in Workers |-> Idle]
  /\ reader = NoDownload
  /\ damaged = {} /\ doubled = {}

Works(w, what) == worker' = [worker EXCEPT ![w] = what]
Stands(w, stage) == worker[w].stage = stage
\* A statement of a worker whose connection is there.
Connected(w, stage) == Stands(w, stage) /\ ~worker[w].cut

\* shutil.rmtree takes the files being written with it.
Uprooted(js) == [w \in Workers |-> IF worker[w].job \in js THEN [worker[w] EXCEPT !.tmp = FALSE]
                                                           ELSE worker[w]]
Removed(js) == [j \in Results |-> IF j \in js THEN {} ELSE disk[j]]
\* Always so, until a connection is lost in the middle of a tick.
Alone(w) == right = w /\ \A v \in Workers \ {w} : Stands(v, "idle")
Doubled(w, js) == doubled' = IF Alone(w) THEN doubled ELSE doubled \cup js

-----------------------------------------------------------------------------
(* The tick: the right, and the batch.                                     *)

\* pg_try_advisory_lock does not wait; nothing happens where the directory is not mounted.
TakeRight(w) ==
  /\ Stands(w, "idle") /\ right = Nobody
  /\ right' = w
  /\ Works(w, [Idle EXCEPT !.stage = "select"])
  /\ UNCHANGED <<copy, tries, termOver, disk, reader, damaged, doubled>>

\* Those that are due, up to five assets.
SelectBatch(w) ==
  /\ Connected(w, "select")
  /\ \E due \in SUBSET {j \in Results : copy[j] = "pending"} :
       Works(w, [worker[w] EXCEPT !.stage = "next", !.batch = due, !.read = tries])
  /\ UNCHANGED <<copy, tries, termOver, disk, right, reader, damaged, doubled>>

\* A job past its term is not downloaded.
NextJob(w) ==
  /\ Stands(w, "next")
  /\ \/ \E j \in worker[w].batch :
          Works(w, [worker[w] EXCEPT !.batch = @ \ {j}, !.job = j, !.part = 1, !.tmp = FALSE,
                                     !.stage = IF j \in termOver THEN "remove" ELSE "fetch"])
     \/ worker[w].batch = {} /\ Works(w, [Idle EXCEPT !.stage = "cleanup", !.cut = worker[w].cut])
  /\ UNCHANGED <<copy, tries, termOver, disk, right, reader, damaged, doubled>>

NextInLine(w) == [worker[w] EXCEPT !.stage = "next", !.job = Nobody, !.part = 1, !.tmp = FALSE]

\* UPDATE .. WHERE asset_store_status = 'pending': a row that has changed, or gone, stays.
SetPending(j, status, count) ==
  /\ copy' = IF copy[j] = "pending" THEN [copy EXCEPT ![j] = status] ELSE copy
  /\ tries' = IF copy[j] = "pending" THEN [tries EXCEPT ![j] = count] ELSE tries

-----------------------------------------------------------------------------
(* One job.                                                                *)

RemoveFiles(w) ==
  LET j == worker[w].job IN
  /\ Stands(w, "remove")
  /\ disk' = Removed({j})
  /\ worker' = [Uprooted({j}) EXCEPT ![w].stage = "expire"]
  /\ UNCHANGED <<copy, tries, termOver, right, reader, damaged, doubled>>

MarkExpired(w) ==
  LET j == worker[w].job IN
  /\ Connected(w, "expire")
  /\ SetPending(j, "expired", tries[j])
  /\ Doubled(w, {j})
  /\ Works(w, NextInLine(w))
  /\ UNCHANGED <<termOver, disk, right, reader, damaged>>

\* The answer starts well: the directory is made, and a temporary file in it.
StartAsset(w) ==
  /\ Stands(w, "fetch") /\ ~worker[w].tmp
  /\ Works(w, [worker[w] EXCEPT !.stage = "write", !.tmp = TRUE])
  /\ UNCHANGED <<copy, tries, termOver, disk, right, reader, damaged, doubled>>

\* Variant: the last asset is taken for stored when the one before it is.
FinishAssetButOne(w) ==
  LET t == worker[w] IN
  /\ Stands(w, "write") /\ t.tmp
  /\ disk' = [disk EXCEPT ![t.job] = @ \cup {t.part}]
  /\ Works(w, [t EXCEPT !.tmp = FALSE, !.part = @ + 1,
                        !.stage = IF t.part + 1 >= Assets THEN "store" ELSE "fetch"])
  /\ Doubled(w, {t.job})
  /\ UNCHANGED <<copy, tries, termOver, right, reader, damaged>>

\* fsync and rename, unless the directory has been removed under it.
FinishAsset(w) ==
  LET t == worker[w] IN
  /\ Stands(w, "write") /\ t.tmp
  /\ disk' = [disk EXCEPT ![t.job] = @ \cup {t.part}]
  /\ Works(w, IF t.part = Assets THEN [t EXCEPT !.tmp = FALSE, !.stage = "store"]
                                 ELSE [t EXCEPT !.tmp = FALSE, !.part = @ + 1, !.stage = "fetch"])
  /\ Doubled(w, {t.job})
  /\ UNCHANGED <<copy, tries, termOver, right, reader, damaged>>

MarkStored(w) ==
  /\ Connected(w, "store")
  /\ SetPending(worker[w].job, "stored", tries[worker[w].job])
  /\ Works(w, NextInLine(w))
  /\ UNCHANGED <<termOver, disk, right, reader, damaged, doubled>>

\* The provider has the asset no more, or it is too large, or of a host that is not ours.
FinishFailed(w) ==
  /\ worker[w].stage \in {"fetch", "write"} /\ ~worker[w].cut
  /\ SetPending(worker[w].job, "failed", tries[worker[w].job])
  /\ Works(w, NextInLine(w))
  /\ UNCHANGED <<termOver, disk, right, reader, damaged, doubled>>

\* Low disk: the row waits five minutes, as it is.
DeferLowDisk(w) ==
  /\ Connected(w, "fetch")
  /\ Works(w, NextInLine(w))
  /\ UNCHANGED <<copy, tries, termOver, disk, right, reader, damaged, doubled>>

Counted(w) == worker[w].read[worker[w].job] + 1

\* A refused or broken answer, an error of the disk: by the attempts the SELECT has read.
\* The exception of a lost connection ends here too: the rollback makes room for a new
\* connection, without the lock, and the batch goes on.
RetryOrExhaust(w) ==
  /\ \/ worker[w].stage \in {"remove", "fetch", "write"} /\ ~worker[w].cut
     \/ worker[w].stage \in {"expire", "fetch", "write", "store"} /\ worker[w].cut
  /\ SetPending(worker[w].job, IF Counted(w) < MaxTries THEN "pending" ELSE "failed", Counted(w))
  /\ Works(w, [NextInLine(w) EXCEPT !.cut = FALSE])
  /\ UNCHANGED <<termOver, disk, right, reader, damaged, doubled>>

-----------------------------------------------------------------------------
(* The hourly cleanup.                                                     *)

EndTick(w) ==
  /\ right' = IF right = w /\ ~worker[w].cut THEN Nobody ELSE right
  /\ Works(w, Idle)
  /\ UNCHANGED <<copy, tries, termOver, disk, reader, damaged, doubled>>

NotDue(w) == Stands(w, "cleanup") /\ EndTick(w)

SelectExpired(w) ==
  /\ Connected(w, "cleanup")
  /\ Works(w, [worker[w] EXCEPT !.stage = "uproot",
                                !.found = {j \in termOver : copy[j] \in Expirable}])
  /\ UNCHANGED <<copy, tries, termOver, disk, right, reader, damaged, doubled>>

\* Files first, then the rows; a directory that cannot be removed keeps its row.
RemoveExpired(w) ==
  /\ Stands(w, "uproot")
  /\ \E done \in SUBSET worker[w].found :
       /\ disk' = Removed(done)
       /\ worker' = [Uprooted(done) EXCEPT ![w].stage = "close", ![w].found = done]
  /\ UNCHANGED <<copy, tries, termOver, right, reader, damaged, doubled>>

Closed(w) == {j \in worker[w].found : copy[j] \in Expirable}

\* Variant: the rows of the directories that could not be removed are closed too.
CloseAllExpired(w) ==
  LET js == {j \in termOver : copy[j] \in Expirable} IN
  /\ Connected(w, "close")
  /\ copy' = [j \in Results |-> IF j \in js THEN "expired" ELSE copy[j]]
  /\ Doubled(w, js)
  /\ Works(w, [worker[w] EXCEPT !.stage = "scan", !.found = {}])
  /\ UNCHANGED <<tries, termOver, disk, right, reader, damaged>>

CloseExpired(w) ==
  /\ Connected(w, "close")
  /\ copy' = [j \in Results |-> IF j \in Closed(w) THEN "expired" ELSE copy[j]]
  /\ Doubled(w, Closed(w))
  /\ Works(w, [worker[w] EXCEPT !.stage = "scan", !.found = {}])
  /\ UNCHANGED <<tries, termOver, disk, right, reader, damaged>>

\* The directories there are, older than an hour or not; a marker of another database
\* ends the pass.
ScanTree(w) ==
  /\ Stands(w, "scan")
  /\ \E old \in SUBSET {j \in Results : disk[j] # {}} :
       Works(w, [worker[w] EXCEPT !.stage = "query", !.found = old])
  /\ UNCHANGED <<copy, tries, termOver, disk, right, reader, damaged, doubled>>

FindOrphans(w) ==
  /\ Connected(w, "query")
  /\ Works(w, [worker[w] EXCEPT !.stage = "orphans", !.found = {j \in @ : copy[j] = "deleted"}])
  /\ UNCHANGED <<copy, tries, termOver, disk, right, reader, damaged, doubled>>

RemoveOrphans(w) ==
  /\ Stands(w, "orphans")
  /\ disk' = Removed(worker[w].found)
  /\ worker' = [Uprooted(worker[w].found) EXCEPT ![w].stage = "done", ![w].found = {}]
  /\ UNCHANGED <<copy, tries, termOver, right, reader, damaged, doubled>>

Unlock(w) == Stands(w, "done") /\ EndTick(w)

\* A statement outside of a job fails on the lost connection: the tick is over.
AbandonTick(w) ==
  /\ worker[w].cut /\ worker[w].stage \in {"select", "cleanup", "close", "query"}
  /\ EndTick(w)

LoseConnection(w) ==
  /\ right = w /\ worker[w].stage # "idle"
  /\ right' = Nobody
  /\ Works(w, [worker[w] EXCEPT !.cut = TRUE])
  /\ UNCHANGED <<copy, tries, termOver, disk, reader, damaged, doubled>>

\* The process dies, or is stopped in the middle of its tick.
Die(w) == worker[w].stage # "idle" /\ EndTick(w)

-----------------------------------------------------------------------------
(* The download route, the rest of the program, the world.                 *)

ReadRow(j, i) ==
  /\ reader.stage = "none" /\ copy[j] \in {"stored", "missing"} /\ j \notin termOver
  /\ reader' = [stage |-> "probe", job |-> j, part |-> i, status |-> copy[j]]
  /\ UNCHANGED <<copy, tries, termOver, disk, right, worker, damaged, doubled>>

\* The status is corrected if what is found contradicts the status that was read.
Probe ==
  LET there == reader.part \in disk[reader.job] IN
  /\ reader.stage = "probe"
  /\ reader' = IF there <=> reader.status = "stored" THEN NoDownload
                                                     ELSE [reader EXCEPT !.stage = "correct"]
  /\ UNCHANGED <<copy, tries, termOver, disk, right, worker, damaged, doubled>>

\* Conditional on the status read; a failed write is logged.
Transition ==
  LET j == reader.job IN
  /\ reader.stage = "correct"
  /\ \/ copy' = IF copy[j] = reader.status
                THEN [copy EXCEPT ![j] = IF reader.status = "stored" THEN "missing" ELSE "stored"]
                ELSE copy
     \/ UNCHANGED copy
  /\ reader' = NoDownload
  /\ UNCHANGED <<tries, termOver, disk, right, worker, damaged, doubled>>

\* DELETE /v1/media/jobs/{id}: the row goes, the files are left to the cleanup.
DeleteResult(j) ==
  /\ copy[j] # "deleted" /\ copy' = [copy EXCEPT ![j] = "deleted"]
  /\ UNCHANGED <<tries, termOver, disk, right, worker, reader, damaged, doubled>>

EndTerm(j) ==
  /\ j \notin termOver /\ termOver' = termOver \cup {j}
  /\ UNCHANGED <<copy, tries, disk, right, worker, reader, damaged, doubled>>

\* A restored volume, a hand on the disk.
LoseFile(j, i) ==
  /\ i \in disk[j]
  /\ disk' = [disk EXCEPT ![j] = @ \ {i}] /\ damaged' = damaged \cup {j}
  /\ UNCHANGED <<copy, tries, termOver, right, worker, reader, doubled>>

StoreNext ==
  \/ \E w \in Workers :
       \/ TakeRight(w) \/ SelectBatch(w) \/ NextJob(w) \/ RemoveFiles(w) \/ MarkExpired(w)
       \/ StartAsset(w) \/ FinishAsset(w) \/ MarkStored(w) \/ FinishFailed(w) \/ DeferLowDisk(w)
       \/ RetryOrExhaust(w) \/ NotDue(w) \/ SelectExpired(w) \/ RemoveExpired(w) \/ CloseExpired(w)
       \/ ScanTree(w) \/ FindOrphans(w) \/ RemoveOrphans(w) \/ Unlock(w)
       \/ AbandonTick(w) \/ LoseConnection(w) \/ Die(w)
  \/ \E j \in Results, i \in Parts : ReadRow(j, i) \/ LoseFile(j, i)
  \/ \E j \in Results : DeleteResult(j) \/ EndTerm(j)
  \/ Probe \/ Transition

StoreSpec == StoreInit /\ [][StoreNext]_storeVars

-----------------------------------------------------------------------------
(* Properties.                                                             *)

StoreTypeOK ==
  /\ copy \in [Results -> Expirable \cup {"expired", "deleted"}]
  /\ tries \in [Results -> 0..MaxTries]
  /\ termOver \subseteq Results /\ damaged \subseteq Results /\ doubled \subseteq Results
  /\ disk \in [Results -> SUBSET Parts]
  /\ right \in Workers \cup {Nobody}

\* A result that is said to be stored has all its files for its whole term, with two workers
\* at it, with the lock lost in the middle, whatever failed before: unless the disk lost one.
StoredIsWhole ==
  \A j \in Results \ (termOver \cup damaged) : copy[j] = "stored" => disk[j] = Parts

\* A row marked expired has no files: nothing would ever remove them while the row is there.
\* (It may have where two workers were at it, the one having lost the lock.)
ExpiredIsGone == \A j \in Results \ doubled : copy[j] = "expired" => disk[j] = {}

\* What a row says of the stored copy is what is on the disk.
StatusIsTrue == StoredIsWhole /\ ExpiredIsGone

=============================================================================
