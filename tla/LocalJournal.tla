----------------------------- MODULE LocalJournal -----------------------------
(***************************************************************************)
(* The journal of the extension: appends, replays and clears that run one  *)
(* after the other, each over several file operations any of which may     *)
(* fail, on a host that may stop between two of them, a file system that   *)
(* keeps unsynced data in memory, and a medium that may be damaged.        *)
(*                                                                         *)
(* A request is named by its place in the order of calls, and the event an *)
(* append stores by the request.  The hash of the chain is taken to have   *)
(* no collisions: it is the very history it is computed from.              *)
(***************************************************************************)
EXTENDS Integers, Sequences, FiniteSets

CONSTANTS
    MaxRequests,            \* calls of append, replay and clear
    MaxStops,               \* stops of the host, power failures included
    MaxPowerFailures,
    MaxDamages              \* times the file is damaged

ASSUME JournalAssumption ==
    /\ MaxRequests \in Nat /\ MaxStops \in Nat
    /\ MaxPowerFailures \in Nat /\ MaxDamages \in Nat

VARIABLES
    requests,               \* the calls so far, in their order
    journal,                \* journal.jsonl as the host sees it
    temp,                   \* journal.jsonl.tmp
    durable,                \* journal.jsonl as the disk holds it
    stops, powerFailures, damages

files == <<journal, temp, durable>>

counters == <<stops, powerFailures, damages>>

vars == <<requests, files, counters>>

RequestIds == 1..MaxRequests

(* An append may carry text that must not be written: "appendPrivate".     *)
Kinds == {"append", "appendPrivate", "replay", "clear"}

Steps == {"waiting", "writing", "syncing", "renaming", "removing", "applied",
          "done", "failed", "lost"}

Ended == {"done", "failed", "lost"}

-----------------------------------------------------------------------------
(* The chain of records, in a file that may be torn.                       *)

Genesis == <<>>

ChainHash(prevHash, seq, event) == Append(prevHash, <<seq, event>>)

PreviousHash(lines, k) == IF k = 1 THEN Genesis ELSE lines[k - 1].hash

(* Fault: the sequence starts at zero.                                     *)
NextRecordFromZero(lines, event) ==
    LET seq == Len(lines)
        prev == PreviousHash(lines, seq + 1)
    IN  [seq |-> seq, prevHash |-> prev, hash |-> ChainHash(prev, seq, event),
         event |-> event]

NextRecord(lines, event) ==
    LET seq == Len(lines) + 1
        prev == PreviousHash(lines, seq)
    IN  [seq |-> seq, prevHash |-> prev, hash |-> ChainHash(prev, seq, event),
         event |-> event]

File(lines, torn, synced) == [lines |-> lines, torn |-> torn, synced |-> synced]

(* A file that is missing or empty is read as no records.                  *)
NoFile == File(<<>>, FALSE, TRUE)

(* What is left of a write that was not finished; it never verifies.       *)
TornFile == File(<<>>, TRUE, TRUE)

(* Fault: a record is checked against its own hash alone.                  *)
VerifiesAlone(file) ==
    /\ ~file.torn
    /\ \A k \in 1..Len(file.lines) :
         LET record == file.lines[k]
         IN  record.hash = ChainHash(record.prevHash, record.seq, record.event)

Verifies(file) ==
    /\ ~file.torn
    /\ \A k \in 1..Len(file.lines) :
         LET record == file.lines[k]
         IN  /\ record.seq = k
             /\ record.prevHash = PreviousHash(file.lines, k)
             /\ record.hash = ChainHash(record.prevHash, k, record.event)

EventsOf(lines) == [k \in 1..Len(lines) |-> lines[k].event]

-----------------------------------------------------------------------------
Init ==
    /\ requests = <<>>
    /\ journal = NoFile /\ temp = NoFile /\ durable = NoFile
    /\ stops = 0 /\ powerFailures = 0 /\ damages = 0

(* append, replay, load and clear are asynchronous: the call only joins    *)
(* the queue.                                                              *)
Enqueue(kind) ==
    /\ Len(requests) < MaxRequests
    /\ requests' = Append(requests, [kind |-> kind, step |-> "waiting",
                                     records |-> <<>>])
    /\ UNCHANGED <<files, counters>>

(* Fault: the tail is not kept, every request starts at once.              *)
TurnAtOnce(r) == TRUE

(* Fault: the tail keeps the rejection, so that nothing runs after it.     *)
TurnAfterSuccess(r) == \A q \in 1..(r - 1) : requests[q].step \in {"done", "lost"}

Turn(r) == \A q \in 1..(r - 1) : requests[q].step \in Ended

To(r, step) == requests' = [requests EXCEPT ![r].step = step]

At(r, step) == requests[r].step = step /\ Turn(r)

(* assertSerializable rejects the event before any file is touched.        *)
RefusePrivate(r) ==
    /\ At(r, "waiting") /\ requests[r].kind = "appendPrivate"
    /\ To(r, "failed")
    /\ UNCHANGED <<files, counters>>

AfterReading(kind) == IF kind = "append" THEN "writing" ELSE "applied"

ReadRecords(r) ==
    /\ At(r, "waiting") /\ requests[r].kind \in {"append", "replay"}
    /\ Verifies(journal)
    /\ requests' = [requests EXCEPT ![r].step = AfterReading(requests[r].kind),
                                   ![r].records = journal.lines]
    /\ UNCHANGED <<files, counters>>

(* JournalIntegrityError: neither replayed nor written over.               *)
RefuseBroken(r) ==
    /\ At(r, "waiting") /\ requests[r].kind \in {"append", "replay"}
    /\ ~Verifies(journal)
    /\ To(r, "failed")
    /\ UNCHANGED <<files, counters>>

WriteTemp(r) ==
    /\ At(r, "writing")
    /\ temp' = File(Append(requests[r].records, NextRecord(requests[r].records, r)),
                    FALSE, FALSE)
    /\ requests' = [requests EXCEPT ![r].step = "syncing", ![r].records = <<>>]
    /\ UNCHANGED <<journal, durable, counters>>

(* Fault: nothing is synced before the rename.                             *)
SyncTempSkipped(r) ==
    /\ At(r, "syncing")
    /\ To(r, "renaming")
    /\ UNCHANGED <<files, counters>>

SyncTemp(r) ==
    /\ At(r, "syncing")
    /\ temp' = [temp EXCEPT !.synced = TRUE]
    /\ To(r, "renaming")
    /\ UNCHANGED <<journal, durable, counters>>

Rename(r) ==
    /\ At(r, "renaming")
    /\ journal' = temp /\ temp' = NoFile
    /\ To(r, "applied")
    /\ UNCHANGED <<durable, counters>>

RemoveTemp(r) ==
    /\ At(r, "waiting") /\ requests[r].kind = "clear"
    /\ temp' = NoFile
    /\ To(r, "removing")
    /\ UNCHANGED <<journal, durable, counters>>

RemoveJournal(r) ==
    /\ At(r, "removing")
    /\ journal' = NoFile
    /\ To(r, "applied")
    /\ UNCHANGED <<temp, durable, counters>>

(* The promise of the request is settled after its last file operation.    *)
Resolve(r) ==
    /\ At(r, "applied")
    /\ To(r, "done")
    /\ UNCHANGED <<files, counters>>

(* A file operation fails; a failed write may leave part of the file.      *)
FileOperationFails(r) ==
    /\ \/ At(r, "waiting") /\ requests[r].kind # "appendPrivate" /\ UNCHANGED temp
       \/ At(r, "writing") /\ temp' \in {temp, TornFile}
       \/ requests[r].step \in {"syncing", "renaming", "removing"} /\ Turn(r)
          /\ UNCHANGED temp
    /\ requests' = [requests EXCEPT ![r].step = "failed", ![r].records = <<>>]
    /\ UNCHANGED <<journal, durable, counters>>

-----------------------------------------------------------------------------
(* The host, the disk and the medium.                                      *)

RequestsLost ==
    requests' = [r \in DOMAIN requests |->
        IF requests[r].step \in Ended THEN requests[r]
        ELSE [requests[r] EXCEPT !.step = "lost", !.records = <<>>]]

HostStops ==
    /\ stops < MaxStops
    /\ stops' = stops + 1
    /\ RequestsLost
    /\ \/ UNCHANGED temp
       \/ (\E r \in DOMAIN requests : At(r, "writing")) /\ temp' = TornFile
    /\ UNCHANGED <<journal, durable, powerFailures, damages>>

(* The system writes its cache out at any time: a file whose data was not  *)
(* synced may get its name on the disk before its data.                    *)
Persist ==
    /\ durable # journal
    /\ durable' = IF journal.synced THEN journal ELSE TornFile
    /\ UNCHANGED <<requests, journal, temp, counters>>

PowerFails ==
    /\ stops < MaxStops /\ powerFailures < MaxPowerFailures
    /\ stops' = stops + 1 /\ powerFailures' = powerFailures + 1
    /\ RequestsLost
    /\ journal' = durable /\ temp' = NoFile
    /\ UNCHANGED <<durable, damages>>

(* A line lost, doubled or replaced by another, two lines exchanged, an    *)
(* event altered: what the chain is there to find.  It happens to a file   *)
(* at rest, since an append under way would write the records it read      *)
(* before, and to a file that verifies: a broken one is only ever cleared. *)
AlteredLines(lines) ==
    {[lines EXCEPT ![i].event = e] : i \in 1..Len(lines), e \in RequestIds}

DamagedLines(lines) ==
    LET n == Len(lines)
    IN  {SubSeq(lines, 1, k - 1) \o SubSeq(lines, k + 1, n) : k \in 1..n}
        \cup {SubSeq(lines, 1, k) \o SubSeq(lines, k, n) : k \in 1..n}
        \cup {[lines EXCEPT ![i] = lines[j], ![j] = lines[i]] : i, j \in 1..n}
        \cup {[lines EXCEPT ![i] = lines[j]] : i, j \in 1..n}
        \cup AlteredLines(lines)

Damage ==
    /\ damages < MaxDamages
    /\ durable = journal /\ Verifies(journal)
    /\ \A r \in DOMAIN requests : requests[r].step \in Ended \cup {"waiting"}
    /\ \E file \in {TornFile}
                     \cup {File(l, FALSE, TRUE) : l \in DamagedLines(journal.lines)} :
         journal' = file /\ durable' = file
    /\ damages' = damages + 1
    /\ UNCHANGED <<requests, temp, stops, powerFailures>>

-----------------------------------------------------------------------------
RequestStep(r) ==
    \/ RefusePrivate(r) \/ ReadRecords(r) \/ RefuseBroken(r) \/ WriteTemp(r) 
    \/ SyncTemp(r) \/ Rename(r) \/ RemoveTemp(r) \/ RemoveJournal(r) \/ Resolve(r)
    \/ FileOperationFails(r)

Next ==
    \/ \E kind \in Kinds : Enqueue(kind)
    \/ \E r \in DOMAIN requests : RequestStep(r)
    \/ HostStops \/ Persist \/ PowerFails \/ Damage

Spec == Init /\ [][Next]_vars

(* Every file operation of the request whose turn it is is answered, with  *)
(* success or an error.                                                    *)
FairSpec == Spec /\ WF_vars(\E r \in DOMAIN requests : RequestStep(r))

-----------------------------------------------------------------------------
(* Type correctness of the requests and of the files.                      *)
Records == [seq : RequestIds, prevHash : Seq(RequestIds \X RequestIds),
            hash : Seq(RequestIds \X RequestIds), event : RequestIds]

Files == [lines : Seq(Records), torn : BOOLEAN, synced : BOOLEAN]

LocalJournalTypeOK ==
    /\ requests \in Seq([kind : Kinds, step : Steps, records : Seq(Records)])
    /\ Len(requests) <= MaxRequests
    /\ journal \in Files /\ temp \in Files /\ durable \in Files
    /\ stops \in 0..MaxStops /\ powerFailures \in 0..MaxPowerFailures
    /\ damages \in 0..MaxDamages

(* As long as the medium is not damaged, the file the host sees and the    *)
(* file the disk holds both verify: no failed append, no stop and no power *)
(* failure, wherever it falls, leaves part of a write in the journal.      *)
JournalVerifies ==
    damages = 0 => Verifies(journal) /\ Verifies(durable)

Appends(r) == {q \in 1..(r - 1) : requests[q].kind = "append"}

(* Some clear between the two calls may, or must, have emptied the file.   *)
MayBeCleared(q, r) ==
    \E c \in (q + 1)..(r - 1) : requests[c].kind = "clear" /\ requests[c].step # "failed"

MustBeCleared(q, r) ==
    \E c \in (q + 1)..(r - 1) : requests[c].kind = "clear" /\ requests[c].step = "done"

Stored(r) == {q \in Appends(r) : requests[q].step = "done" /\ ~MayBeCleared(q, r)}

Storable(r) ==
    {q \in Appends(r) : requests[q].step \in {"done", "lost"} /\ ~MustBeCleared(q, r)}

(* A replay answers what the calls before it left, in the order of the     *)
(* calls: every append that was acknowledged and not cleared since, no     *)
(* append that failed, nothing a clear removed, nothing twice, whatever    *)
(* failed and wherever the host stopped in between.                        *)
ReplayInCallOrder ==
    \A r \in DOMAIN requests :
        LET answer == EventsOf(requests[r].records)
            told == {answer[k] : k \in DOMAIN answer}
        IN  (requests[r].kind = "replay" /\ requests[r].step = "done"
             /\ damages = 0 /\ powerFailures = 0)
            => /\ Stored(r) \subseteq told /\ told \subseteq Storable(r)
               /\ \A i, j \in DOMAIN answer : i < j => answer[i] < answer[j]

(* No request has the number 0.                                            *)
Unreadable == <<0>>

LogOf(file) == IF Verifies(file) THEN EventsOf(file.lines) ELSE Unreadable

Log == INSTANCE EventLog
         WITH Events <- RequestIds, Unreadable <- Unreadable,
              log <- LogOf(journal), stable <- LogOf(durable)

(* The journal is an event log: it grows by one new event at a time, is    *)
(* emptied as a whole, falls back only to what the disk held, and damage   *)
(* is found or costs the last events, never changes what is read.          *)
ImplementsEventLog == Log!Spec

(* Every call is answered: a request that fails does not block the queue.  *)
EveryRequestEnds ==
    []<>(\A r \in DOMAIN requests : requests[r].step \in Ended)
=============================================================================
