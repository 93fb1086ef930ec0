----------------------------- MODULE MediaScan ------------------------------
(***************************************************************************)
(* infrastructure/clamav/media-scan.service.ts and the worker that drives  *)
(* it (modules/media/service/media-scan.worker.ts), with scanning enabled: *)
(* one object key, its scan row, and a worker per process.  A lock may go  *)
(* stale while its owner still works.  A presigned URL takes any number of *)
(* files until it ends; its validity (600 s) ends long before the row      *)
(* expires (2 h).                                                          *)
(***************************************************************************)
EXTENDS Naturals

CONSTANTS
  Scanners,
  MaxAttempts,  \* MEDIA_SCAN_MAX_ATTEMPTS
  MaxFaults     \* bound: failing calls and crashes

VARIABLES
  scan,    \* the row: status ("NONE" while there is none), lock, attempts
  object,  \* what is stored under the key: "absent", "clean", "infected" or "big"
  late,    \* history: did the last file arrive after every scan that counts had read the key?
  url,     \* "none", "direct", "open", "closed", "expired" (the row's expiresAt has passed)
  worker, faults

stored == <<object, late>>
scanVars == <<scan, stored, url, worker, faults>>

NoRow == [status |-> "NONE", lock |-> "free", attempts |-> 0]

ScanInit ==
  /\ scan = NoRow /\ object = "absent" /\ late = "no" /\ url = "none" /\ faults = 0
  /\ worker = [w \in Scanners |-> "idle"]

Fault == faults < MaxFaults /\ faults' = faults + 1
Go(w, pc) == worker' = [worker EXCEPT ![w] = pc]

-----------------------------------------------------------------------------
(* Uploads. *)

\* The row exists before the caller gets the URL.
createPresignedUpload ==
  /\ url = "none" /\ url' = "open" /\ scan' = [NoRow EXCEPT !.status = "PENDING"]
  /\ UNCHANGED <<stored, worker, faults>>
\* Once a worker has asked for the file's size, a newer file escapes that scan; once there is a
\* verdict, it escapes every scan.
Judged ==
  \/ scan.status \in {"CLEAN", "INFECTED", "REJECTED"}
  \/ \E w \in Scanners : worker[w] \in {"fetch", "clean", "REJECTED", "INFECTED", "markREJECTED", "markINFECTED"}
Upload(content) ==
  /\ url = "open" /\ object' = content /\ late' = (IF Judged THEN "yes" ELSE "no") /\ UNCHANGED <<scan, url, worker, faults>>
UrlEnds == url = "open" /\ url' = "closed" /\ UNCHANGED <<scan, stored, worker, faults>>
\* No stat request lasts from the URL's validity to the row's expiry.
RowExpires ==
  /\ url = "closed" /\ \A w \in Scanners : worker[w] # "early"
  /\ url' = "expired" /\ UNCHANGED <<scan, stored, worker, faults>>
\* A file sent through the server is scanned first, then stored, then registered.
uploadMulterFile ==
  /\ url = "none" /\ url' = "direct" /\ object' = "clean" /\ UNCHANGED <<scan, late, worker, faults>>
registerClean ==
  /\ url = "direct" /\ url' = "closed" /\ scan' = [NoRow EXCEPT !.status = "CLEAN"] /\ UNCHANGED <<stored, worker, faults>>
deleteObject == object # "absent" /\ object' = "absent" /\ UNCHANGED <<scan, late, url, worker, faults>>

-----------------------------------------------------------------------------
(* The worker: run and processOne. *)

Due_Fault == scan.status = "PENDING" /\ scan.lock = "free"
Due == scan.status = "PENDING" /\ scan.lock \in {"free", "stale"}
claim(w) ==
  /\ worker[w] = "idle" /\ Due
  /\ scan' = [scan EXCEPT !.lock = "held"] /\ Go(w, "stat") /\ UNCHANGED <<stored, url, faults>>
staleLock == scan.lock = "held" /\ scan' = [scan EXCEPT !.lock = "stale"] /\ UNCHANGED <<stored, url, worker, faults>>
statOrNull(w) ==
  /\ worker[w] = "stat"
  /\ Go(w, CASE object = "absent" -> IF url = "open" THEN "early" ELSE "missing"
             [] object = "big" -> "REJECTED"
             [] OTHER -> "fetch")
  /\ late' = (IF Judged THEN late ELSE "no") /\ UNCHANGED <<scan, object, url, faults>>
\* An update or delete by id of a row that is gone throws.
WriteRow(w, row) ==
  IF scan.status = "NONE" THEN Go(w, "failed") /\ UNCHANGED scan
  ELSE Go(w, "idle") /\ scan' = row
WithoutObject_Fault == NoRow
\* remove once the row has expired, otherwise release.
WithoutObject == IF url = "expired" THEN NoRow ELSE [scan EXCEPT !.lock = "free"]
NotUploaded(w) ==
  /\ worker[w] \in {"early", "missing"} /\ WriteRow(w, WithoutObject) /\ UNCHANGED <<stored, url, faults>>
\* getObjectBuffer and scanBuffer; the object may be gone by now.
scanBuffer(w) ==
  /\ worker[w] = "fetch"
  /\ Go(w, CASE object = "absent" -> "failed" [] object = "infected" -> "INFECTED" [] OTHER -> "clean")
  /\ UNCHANGED <<scan, stored, url, faults>>
markClean(w) ==
  /\ worker[w] = "clean" /\ WriteRow(w, [scan EXCEPT !.status = "CLEAN", !.lock = "free"]) /\ UNCHANGED <<stored, url, faults>>
Marking(verdict) == IF verdict = "REJECTED" THEN "markREJECTED" ELSE "markINFECTED"
block_Fault(w) == worker[w] \in {"REJECTED", "INFECTED"} /\ Go(w, Marking(worker[w])) /\ UNCHANGED <<scan, stored, url, faults>>
\* The file is deleted before the verdict is written.
block(w) ==
  /\ worker[w] \in {"REJECTED", "INFECTED"}
  /\ object' = "absent" /\ Go(w, Marking(worker[w])) /\ UNCHANGED <<scan, late, url, faults>>
markBlocked(w) ==
  /\ \E verdict \in {"REJECTED", "INFECTED"} :
       worker[w] = Marking(verdict) /\ WriteRow(w, [scan EXCEPT !.status = verdict, !.lock = "free"])
  /\ UNCHANGED <<stored, url, faults>>
\* MinIO, ClamAV or the database fails.
CallFails(w) ==
  /\ worker[w] \notin {"idle", "failed", "giveUp"} /\ Fault /\ Go(w, "failed") /\ UNCHANGED <<scan, stored, url>>
\* The first update counts the attempt and unlocks; both ignore what the row says by now.
recordFailure(w) ==
  /\ worker[w] = "failed"
  /\ IF scan.status = "NONE" THEN Go(w, "idle") /\ UNCHANGED scan
     ELSE /\ scan' = [scan EXCEPT !.attempts = @ + 1, !.lock = "free"]
          /\ Go(w, IF scan.attempts + 1 >= MaxAttempts THEN "giveUp" ELSE "idle")
  /\ UNCHANGED <<stored, url, faults>>
GiveUp(w) ==
  /\ worker[w] = "giveUp" /\ Go(w, "idle")
  /\ scan' = (IF scan.status = "NONE" THEN scan ELSE [scan EXCEPT !.status = "FAILED"]) /\ UNCHANGED <<stored, url, faults>>
WorkerCrash(w) == worker[w] # "idle" /\ Fault /\ Go(w, "idle") /\ UNCHANGED <<scan, stored, url>>

processOne(w) ==
  \/ statOrNull(w) \/ NotUploaded(w) \/ scanBuffer(w) \/ markClean(w) \/ block(w) \/ markBlocked(w)
  \/ recordFailure(w) \/ GiveUp(w)
Time == UrlEnds \/ RowExpires \/ staleLock

ScanNext ==
  \/ createPresignedUpload \/ uploadMulterFile \/ registerClean \/ deleteObject \/ Time
  \/ \E c \in {"clean", "infected", "big"} : Upload(c)
  \/ \E w \in Scanners : claim(w) \/ processOne(w) \/ CallFails(w) \/ WorkerCrash(w)
ScanSpec == ScanInit /\ [][ScanNext]_scanVars

ScanTypeOK ==
  /\ scan.status \in {"NONE", "PENDING", "CLEAN", "INFECTED", "REJECTED", "FAILED"}
  /\ scan.lock \in {"free", "held", "stale"} /\ scan.attempts \in 0..(MaxFaults + 2 * MaxAttempts + 4)
  /\ object \in {"absent", "clean", "infected", "big"} /\ late \in {"no", "yes"}
  /\ url \in {"none", "direct", "open", "closed", "expired"}

\* A key whose row is CLEAN or missing is usable (assertUsable).
assertUsable == scan.status \in {"NONE", "CLEAN"}

\* What is stored and usable was found clean, unless it arrived after a scan had read the key: no
\* row disappears or turns CLEAN while a file no scan has read is there or can still arrive
\* (createPresignedUpload, processOne).
UsableWasScanned == object # "absent" /\ assertUsable /\ late = "no" => object = "clean"

\* A row that says INFECTED or REJECTED has no file left that a scan has seen or could have seen,
\* whatever crashed in between (block).
BlockedIsRemoved == scan.status \in {"INFECTED", "REJECTED"} /\ late = "no" => object = "absent"

\* A verdict is about the file the scan read: a usable file was found clean (processOne,
\* assertUsable) and a blocked one is gone (block), with workers that die or outlive their lock.
\* A file put under the key after that read, while the URL is still good
\* (presignedPutObject, minio.service.ts:196), is not covered: nothing scans it.
VerdictFitsScanned == UsableWasScanned /\ BlockedIsRemoved

\* Every pending row gets a verdict or is removed, although workers crash with its lock (findDue, claim).
ScanSettles == scan.status = "PENDING" ~> scan.status # "PENDING"
=============================================================================
