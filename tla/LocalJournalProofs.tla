-------------------------- MODULE LocalJournalProofs --------------------------
(***************************************************************************)
(* What the journal keeps, for any number of calls, failures, stops, power *)
(* failures and damages: it implements the event log, its files verify as  *)
(* long as the medium is not damaged, and a replay answers what the calls  *)
(* before it left.                                                         *)
(*                                                                         *)
(* None of this is inductive alone: what is renamed over the journal was   *)
(* written, and synced, by an earlier step, from records that were read    *)
(* before that.  Prepared says what each step of a call may rely on,       *)
(* InOrder that calls take these steps one call at a time, Ordered what a  *)
(* file that verifies holds, and Left what the journal holds of the calls  *)
(* so far.                                                                 *)
(***************************************************************************)
EXTENDS LocalJournal, SequenceTheorems, TLAPS

Chain == Seq(RequestIds \X RequestIds)

Request == [kind : Kinds, step : Steps, records : Seq(Records)]

(* A call leaves the queue only when every call before it has ended.       *)
InOrder(calls) ==
    \A r \in DOMAIN calls : calls[r].step # "waiting" =>
        \A q \in 1..(r - 1) : calls[q].step \in Ended

Written(q, calls) ==
    /\ q \in DOMAIN calls
    /\ calls[q].kind = "append" /\ calls[q].step \in {"applied", "done", "lost"}

(* The records of appends, in the order of the calls.                      *)
Ordered(lines, calls) ==
    /\ \A k \in 1..Len(lines) : lines[k].event >= k /\ Written(lines[k].event, calls)
    /\ \A i, j \in 1..Len(lines) : i < j => lines[i].event < lines[j].event

Readable(file, calls) == file.synced /\ (Verifies(file) => Ordered(file.lines, calls))

Told(lines) == {lines[k].event : k \in 1..Len(lines)}

Cleared(q, calls, steps) ==
    \E c \in DOMAIN calls : q < c /\ calls[c].kind = "clear" /\ calls[c].step \in steps

(* What was appended and may not have been cleared since is there, and     *)
(* nothing that was cleared.                                               *)
Left(lines, calls) ==
    \A q \in DOMAIN calls :
        /\ calls[q].kind = "append" /\ calls[q].step \in {"applied", "done"}
           /\ ~Cleared(q, calls, {"applied", "done", "lost"}) => q \in Told(lines)
        /\ q \in Told(lines) => ~Cleared(q, calls, {"applied", "done"})

Answered(r) ==
    requests[r].kind = "replay" /\ requests[r].step \in {"applied", "done"} =>
        /\ Stored(r) \subseteq Told(requests[r].records)
        /\ Told(requests[r].records) \subseteq Storable(r)
        /\ \A i, j \in 1..Len(requests[r].records) :
             i < j => requests[r].records[i].event < requests[r].records[j].event

Prepared(r) ==
    /\ requests[r].step = "writing" =>
         /\ requests[r].kind = "append"
         /\ Verifies(journal) /\ requests[r].records = journal.lines
    /\ requests[r].step \in {"syncing", "renaming"} =>
         /\ requests[r].kind = "append"
         /\ Verifies(journal) /\ ~temp.torn
         /\ temp.lines = Append(journal.lines, NextRecord(journal.lines, r))
    /\ requests[r].step = "renaming" => temp.synced
    /\ requests[r].step = "removing" => requests[r].kind = "clear"

Untouched == damages = 0 /\ powerFailures = 0

JournalInv ==
    /\ LocalJournalTypeOK /\ JournalVerifies
    /\ InOrder(requests)
    /\ Readable(journal, requests) /\ Readable(durable, requests)
    /\ \A r \in DOMAIN requests : Prepared(r)
    /\ Untouched => Left(journal.lines, requests)
    /\ Untouched => \A r \in DOMAIN requests : Answered(r)

-----------------------------------------------------------------------------
(* The chain.                                                              *)

LEMMA NoFileIsWhole ==
  NoFile \in Files /\ NoFile.synced /\ Verifies(NoFile) /\ NoFile.lines = <<>>
BY DEF NoFile, File, Files, Verifies

LEMMA TornIsBroken == TornFile \in Files /\ TornFile.synced /\ ~Verifies(TornFile)
BY DEF TornFile, File, Files, Verifies

LEMMA NoneIsOrdered ==
  ASSUME NEW calls
  PROVE  Ordered(<<>>, calls) /\ Told(<<>>) = {}
BY DEF Ordered, Told

LEMMA PreviousHashType ==
  ASSUME NEW lines \in Seq(Records), NEW k \in 1..(Len(lines) + 1)
  PROVE  PreviousHash(lines, k) \in Chain
<1>1. CASE k = 1
  BY <1>1 DEF PreviousHash, Genesis, Chain
<1>2. CASE k # 1
  <2>1. k - 1 \in 1..Len(lines)
    BY <1>2
  <2>2. lines[k - 1] \in Records
    BY <2>1
  <2> QED
    BY <1>2, <2>2 DEF PreviousHash, Records, Chain
<1> QED
  BY <1>1, <1>2

LEMMA NextRecordType ==
  ASSUME NEW lines \in Seq(Records), NEW event \in RequestIds, Len(lines) + 1 \in RequestIds
  PROVE  NextRecord(lines, event) \in Records
<1> DEFINE seq == Len(lines) + 1
           prev == PreviousHash(lines, seq)
<1>1. seq \in RequestIds /\ seq \in 1..(Len(lines) + 1)
  BY DEF RequestIds
<1>2. prev \in Chain
  BY <1>1, PreviousHashType
<1>3. ChainHash(prev, seq, event) \in Chain
  <2>1. <<seq, event>> \in RequestIds \X RequestIds
    BY <1>1
  <2> HIDE DEF prev, seq
  <2> QED
    BY <1>2, <2>1 DEF ChainHash, Chain
<1>4. NextRecord(lines, event) =
        [seq |-> seq, prevHash |-> prev, hash |-> ChainHash(prev, seq, event), event |-> event]
  BY DEF NextRecord
<1> HIDE DEF prev, seq
<1> QED
  BY <1>1, <1>2, <1>3, <1>4 DEF Records, Chain

(* A verified file stays verified when the next record is put after it.    *)
LEMMA AppendVerifies ==
  ASSUME NEW file, Verifies(file), file.lines \in Seq(Records),
         NEW event \in RequestIds, Len(file.lines) + 1 \in RequestIds,
         NEW next, ~next.torn,
         next.lines = Append(file.lines, NextRecord(file.lines, event))
  PROVE  Verifies(next)
<1> DEFINE lines == file.lines
           record == NextRecord(lines, event)
           longer == Append(lines, record)
           n == Len(lines)
<1>1. record \in Records
  BY NextRecordType
<1>2. longer \in Seq(Records) /\ Len(longer) = n + 1 /\ n \in Nat
  BY <1>1
<1>3. \A k \in 1..n : longer[k] = lines[k]
  BY <1>1
<1>4. longer[n + 1] = record
  BY <1>1
<1>5. \A k \in 1..(n + 1) : PreviousHash(longer, k) = PreviousHash(lines, k)
  <2> SUFFICES ASSUME NEW k \in 1..(n + 1)
               PROVE  PreviousHash(longer, k) = PreviousHash(lines, k)
    OBVIOUS
  <2>1. CASE k = 1
    BY <2>1 DEF PreviousHash
  <2>2. CASE k # 1
    <3>1. k - 1 \in 1..n
      BY <1>2, <2>2
    <3> QED
      BY <1>3, <2>2, <3>1 DEF PreviousHash
  <2> QED
    BY <2>1, <2>2
<1>6. /\ record.seq = n + 1
      /\ record.prevHash = PreviousHash(lines, n + 1)
      /\ record.hash = ChainHash(record.prevHash, n + 1, record.event)
  BY DEF NextRecord
<1>7. \A k \in 1..n : /\ lines[k].seq = k
                      /\ lines[k].prevHash = PreviousHash(lines, k)
                      /\ lines[k].hash = ChainHash(lines[k].prevHash, k, lines[k].event)
  BY DEF Verifies
<1> HIDE DEF record, longer, n
<1>8. \A k \in 1..(n + 1) :
        /\ longer[k].seq = k
        /\ longer[k].prevHash = PreviousHash(longer, k)
        /\ longer[k].hash = ChainHash(longer[k].prevHash, k, longer[k].event)
  <2> SUFFICES ASSUME NEW k \in 1..(n + 1)
               PROVE  /\ longer[k].seq = k
                      /\ longer[k].prevHash = PreviousHash(longer, k)
                      /\ longer[k].hash = ChainHash(longer[k].prevHash, k, longer[k].event)
    OBVIOUS
  <2>1. CASE k = n + 1
    BY <1>4, <1>5, <1>6, <2>1
  <2>2. CASE k # n + 1
    <3>1. k \in 1..n
      BY <1>2, <2>2
    <3> QED
      BY <1>3, <1>5, <1>7, <3>1
  <2> QED
    BY <2>1, <2>2
<1>9. next.lines = longer
  BY DEF longer, record
<1> QED
  BY <1>2, <1>8, <1>9 DEF Verifies

(* And stays ordered when the call comes after all it holds.               *)
LEMMA AppendOrdered ==
  ASSUME NEW lines \in Seq(Records), NEW event \in RequestIds, Len(lines) + 1 \in RequestIds,
         NEW calls, NEW later, Ordered(lines, calls),
         \A q \in DOMAIN calls : Written(q, calls) => Written(q, later),
         \A k \in 1..Len(lines) : lines[k].event < event,
         Len(lines) < event, Written(event, later)
  PROVE  /\ Ordered(Append(lines, NextRecord(lines, event)), later)
         /\ Told(Append(lines, NextRecord(lines, event))) = Told(lines) \cup {event}
<1> DEFINE record == NextRecord(lines, event)
           longer == Append(lines, record)
           n == Len(lines)
<1>1. record \in Records
  BY NextRecordType
<1>2. record.event = event
  BY DEF NextRecord
<1>3. /\ n \in Nat /\ Len(longer) = n + 1
      /\ longer[n + 1] = record
      /\ \A k \in 1..n : longer[k] = lines[k] /\ lines[k].event \in Nat
  <2>1. \A k \in 1..n : lines[k] \in Records
    OBVIOUS
  <2>2. \A line \in Records : line.event \in Nat
    BY DEF Records, RequestIds
  <2> HIDE DEF record
  <2> QED
    BY <1>1, <2>1, <2>2
<1>4. event \in Nat
  BY DEF RequestIds
<1> HIDE DEF record, longer, n
<1>5. ASSUME NEW k \in 1..(n + 1)
      PROVE  longer[k].event >= k /\ Written(longer[k].event, later)
  <2>1. CASE k = n + 1
    BY <1>2, <1>3, <1>4, <2>1 DEF n
  <2>2. CASE k # n + 1
    <3>1. k \in 1..n
      BY <1>3, <2>2
    <3>2. lines[k].event >= k /\ Written(lines[k].event, calls)
      BY <3>1 DEF Ordered, n
    <3>3. Written(lines[k].event, later)
      BY <3>2 DEF Written
    <3> QED
      BY <1>3, <3>1, <3>2, <3>3
  <2> QED
    BY <2>1, <2>2
<1>6. ASSUME NEW i \in 1..(n + 1), NEW j \in 1..(n + 1), i < j
      PROVE  longer[i].event < longer[j].event
  <2>1. i \in 1..n
    BY <1>3, <1>6
  <2>2. CASE j = n + 1
    BY <1>2, <1>3, <2>1, <2>2 DEF n
  <2>3. CASE j # n + 1
    <3>1. j \in 1..n
      BY <1>3, <2>3
    <3> QED
      BY <1>3, <1>6, <2>1, <3>1 DEF Ordered, n
  <2> QED
    BY <2>2, <2>3
<1>7. Ordered(longer, later)
  BY <1>3, <1>5, <1>6 DEF Ordered
<1>8. Told(longer) = Told(lines) \cup {event}
  <2>1. ASSUME NEW k \in 1..(n + 1)
        PROVE  longer[k].event \in Told(lines) \cup {event}
    <3>1. k = n + 1 \/ k \in 1..n
      BY <1>3
    <3> QED
      BY <1>2, <1>3, <3>1 DEF Told, n
  <2>2. ASSUME NEW k \in 1..n
        PROVE  lines[k].event \in Told(longer)
    <3>1. k \in 1..(n + 1)
      BY <1>3
    <3> QED
      BY <1>3, <2>2, <3>1 DEF Told
  <2>3. event \in Told(longer)
    <3>1. n + 1 \in 1..(n + 1)
      BY <1>3
    <3> QED
      BY <1>2, <1>3, <3>1 DEF Told
  <2> QED
    BY <1>3, <2>1, <2>2, <2>3 DEF Told, n
<1> QED
  BY <1>7, <1>8 DEF longer, record

(* What damage leaves verifies only when it took lines off the end.        *)
LEMMA DamageIsFound ==
  ASSUME NEW file, Verifies(file), file.lines \in Seq(Records),
         NEW lines \in DamagedLines(file.lines)
  PROVE  /\ lines \in Seq(Records)
         /\ Verifies(File(lines, FALSE, TRUE)) =>
              \E m \in 0..Len(file.lines) : lines = SubSeq(file.lines, 1, m)
<1> DEFINE old == file.lines
           n == Len(old)
           Found == Verifies(File(lines, FALSE, TRUE)) =>
                      \E m \in 0..n : lines = SubSeq(old, 1, m)
<1>1. old \in Seq(Records) /\ n \in Nat /\ DOMAIN old = 1..n
  OBVIOUS
<1>2. \A k \in 1..n :
        /\ old[k] \in Records
        /\ old[k].seq = k
        /\ old[k].hash = ChainHash(old[k].prevHash, k, old[k].event)
  BY DEF Verifies
<1>3. ASSUME Verifies(File(lines, FALSE, TRUE)), NEW k \in 1..Len(lines)
      PROVE  /\ lines[k].seq = k
             /\ lines[k].hash = ChainHash(lines[k].prevHash, k, lines[k].event)
  BY <1>3 DEF Verifies, File
<1>4. old = SubSeq(old, 1, n)
  BY <1>1, SubSeqFull
<1>5. \/ \E k \in 1..n : lines = SubSeq(old, 1, k - 1) \o SubSeq(old, k + 1, n)
      \/ \E k \in 1..n : lines = SubSeq(old, 1, k) \o SubSeq(old, k, n)
      \/ \E i, j \in 1..n : lines = [old EXCEPT ![i] = old[j], ![j] = old[i]]
      \/ \E i, j \in 1..n : lines = [old EXCEPT ![i] = old[j]]
      \/ \E i \in 1..n, e \in RequestIds : lines = [old EXCEPT ![i].event = e]
  <2> DEFINE Lost == {SubSeq(old, 1, k - 1) \o SubSeq(old, k + 1, n) : k \in 1..n}
             Doubled == {SubSeq(old, 1, k) \o SubSeq(old, k, n) : k \in 1..n}
             Exchanged == {[old EXCEPT ![i] = old[j], ![j] = old[i]] : i, j \in 1..n}
             Replaced == {[old EXCEPT ![i] = old[j]] : i, j \in 1..n}
  <2>1. DamagedLines(old) = Lost \cup Doubled \cup Exchanged \cup Replaced \cup AlteredLines(old)
    BY SMT DEF DamagedLines
  <2>2. lines \in Lost \cup Doubled \cup Exchanged \cup Replaced \cup AlteredLines(old)
    <3> HIDE DEF Lost, Doubled, Exchanged, Replaced
    <3> QED
      BY <2>1
  <2>3. lines \in AlteredLines(old) =>
          \E i \in 1..n, e \in RequestIds : lines = [old EXCEPT ![i].event = e]
    BY DEF AlteredLines
  <2> HIDE DEF old, n
  <2>4. lines \in Lost => \E k \in 1..n : lines = SubSeq(old, 1, k - 1) \o SubSeq(old, k + 1, n)
    OBVIOUS
  <2>5. lines \in Doubled => \E k \in 1..n : lines = SubSeq(old, 1, k) \o SubSeq(old, k, n)
    OBVIOUS
  <2>6. lines \in Exchanged =>
          \E i, j \in 1..n : lines = [old EXCEPT ![i] = old[j], ![j] = old[i]]
    OBVIOUS
  <2>7. lines \in Replaced => \E i, j \in 1..n : lines = [old EXCEPT ![i] = old[j]]
    OBVIOUS
  <2> HIDE DEF Lost, Doubled, Exchanged, Replaced
  <2> QED
    BY <2>2, <2>4, <2>5, <2>6, <2>7, <2>3
<1> SUFFICES lines \in Seq(Records) /\ Found
  OBVIOUS
<1> HIDE DEF old, n
<1>6. lines = old => lines \in Seq(Records) /\ Found
  <2>1. n \in 0..n
    BY <1>1
  <2> QED
    BY <1>1, <1>4, <2>1
<1> HIDE DEF Found
<1>7. ~Verifies(File(lines, FALSE, TRUE)) => Found
  BY DEF Found
<1>8. CASE \E k \in 1..n : lines = SubSeq(old, 1, k - 1) \o SubSeq(old, k + 1, n)
  <2>1. PICK k \in 1..n : lines = SubSeq(old, 1, k - 1) \o SubSeq(old, k + 1, n)
    BY <1>8
  <2>2. /\ lines \in Seq(Records) /\ Len(lines) = n - 1
        /\ \A i \in 1..(n - 1) : lines[i] = IF i < k THEN old[i] ELSE old[i + 1]
    <3> DEFINE before == SubSeq(old, 1, k - 1)
               after == SubSeq(old, k + 1, n)
    <3>1. /\ before \in Seq(Records) /\ Len(before) = k - 1
          /\ \A i \in 1..(k - 1) : before[i] = old[i]
      BY <1>1
    <3>2. /\ after \in Seq(Records) /\ Len(after) = n - k
          /\ \A i \in 1..(n - k) : after[i] = old[k + i]
      BY <1>1
    <3>3. lines = before \o after
      BY <2>1
    <3> HIDE DEF before, after
    <3>4. /\ before \o after \in Seq(Records)
          /\ Len(before \o after) = Len(before) + Len(after)
          /\ \A i \in 1..(Len(before) + Len(after)) :
               (before \o after)[i] =
                 IF i <= Len(before) THEN before[i] ELSE after[i - Len(before)]
      BY <3>1, <3>2, ConcatProperties
    <3>5. lines \in Seq(Records) /\ Len(lines) = n - 1
      BY <1>1, <3>1, <3>2, <3>3, <3>4
    <3>6. ASSUME NEW i \in 1..(n - 1)
          PROVE  lines[i] = IF i < k THEN old[i] ELSE old[i + 1]
      <4>1. lines[i] = IF i <= k - 1 THEN before[i] ELSE after[i - (k - 1)]
        <5>1. i \in 1..(Len(before) + Len(after)) /\ Len(before) = k - 1
          BY <1>1, <3>1, <3>2
        <5> QED
          BY <3>3, <3>4, <5>1
      <4>2. CASE i < k
        BY <1>1, <3>1, <4>1, <4>2
      <4>3. CASE ~(i < k)
        <5>1. i - (k - 1) \in 1..(n - k) /\ k + (i - (k - 1)) = i + 1
          BY <1>1, <4>3
        <5>2. after[i - (k - 1)] = old[i + 1]
          BY <3>2, <5>1
        <5> QED
          BY <1>1, <4>1, <4>3, <5>2
      <4> QED
        BY <4>2, <4>3
    <3> QED
      BY <3>5, <3>6
  <2>3. CASE k = n
    <3>1. SubSeq(old, k + 1, n) = <<>>
      BY <1>1, <2>3, SubSeqEmpty
    <3>2. SubSeq(old, 1, n - 1) \in Seq(Records)
      BY <1>1
    <3>3. lines = SubSeq(old, 1, n - 1) /\ n - 1 \in 0..n
      BY <1>1, <2>1, <2>3, <3>1, <3>2, ConcatEmptySeq
    <3> QED
      BY <2>2, <3>3 DEF Found
  <2>4. CASE k < n
    <3>1. k \in 1..Len(lines) /\ k + 1 \in 1..n /\ lines[k] = old[k + 1]
      BY <1>1, <2>2, <2>4
    <3>2. lines[k].seq = k + 1 /\ k + 1 # k
      BY <1>2, <3>1
    <3> QED
      BY <1>7, <1>3, <2>2, <3>1, <3>2
  <2>5. k = n \/ k < n
    BY <1>1
  <2> QED
    BY <2>3, <2>4, <2>5
<1>9. CASE \E k \in 1..n : lines = SubSeq(old, 1, k) \o SubSeq(old, k, n)
  <2>1. PICK k \in 1..n : lines = SubSeq(old, 1, k) \o SubSeq(old, k, n)
    BY <1>9
  <2>2. /\ lines \in Seq(Records) /\ Len(lines) = n + 1
        /\ lines[k + 1] = old[k] /\ k + 1 \in 1..Len(lines)
    <3> DEFINE before == SubSeq(old, 1, k)
               after == SubSeq(old, k, n)
    <3>1. before \in Seq(Records) /\ Len(before) = k
      BY <1>1
    <3>2. after \in Seq(Records) /\ Len(after) = n - k + 1 /\ after[1] = old[k]
      BY <1>1
    <3>3. lines = before \o after
      BY <2>1
    <3> HIDE DEF before, after
    <3>4. /\ before \o after \in Seq(Records)
          /\ Len(before \o after) = Len(before) + Len(after)
          /\ \A i \in 1..(Len(before) + Len(after)) :
               (before \o after)[i] =
                 IF i <= Len(before) THEN before[i] ELSE after[i - Len(before)]
      BY <3>1, <3>2, ConcatProperties
    <3>5. lines \in Seq(Records) /\ Len(lines) = n + 1 /\ k + 1 \in 1..Len(lines)
      BY <1>1, <3>1, <3>2, <3>3, <3>4
    <3>6. /\ k + 1 \in 1..(Len(before) + Len(after)) /\ ~(k + 1 <= Len(before))
          /\ k + 1 - Len(before) = 1
      BY <1>1, <3>1, <3>2
    <3>7. lines[k + 1] = after[1]
      BY <3>3, <3>4, <3>6
    <3> QED
      BY <3>2, <3>5, <3>7
  <2>3. lines[k + 1].seq = k /\ k + 1 # k
    BY <1>2, <2>2
  <2> QED
    BY <1>7, <1>3, <2>2, <2>3
<1>10. CASE \E i, j \in 1..n : lines = [old EXCEPT ![i] = old[j], ![j] = old[i]]
  <2>1. PICK i \in 1..n, j \in 1..n : lines = [old EXCEPT ![i] = old[j], ![j] = old[i]]
    BY <1>10
  <2>2. lines \in Seq(Records) /\ Len(lines) = n /\ lines[j] = old[i]
    BY <1>1, <2>1
  <2>3. CASE i = j
    <3>1. lines = old
      BY <1>1, <2>1, <2>3
    <3> QED
      BY <1>6, <3>1
  <2>4. CASE i # j
    BY <1>7, <1>2, <1>3, <2>2, <2>4
  <2> QED
    BY <2>3, <2>4
<1>11. CASE \E i, j \in 1..n : lines = [old EXCEPT ![i] = old[j]]
  <2>1. PICK i \in 1..n, j \in 1..n : lines = [old EXCEPT ![i] = old[j]]
    BY <1>11
  <2>2. lines \in Seq(Records) /\ Len(lines) = n /\ lines[i] = old[j]
    BY <1>1, <2>1
  <2>3. CASE i = j
    <3>1. lines = old
      BY <1>1, <2>1, <2>3
    <3> QED
      BY <1>6, <3>1
  <2>4. CASE i # j
    BY <1>7, <1>2, <1>3, <2>2, <2>4
  <2> QED
    BY <2>3, <2>4
<1>12. CASE \E i \in 1..n, e \in RequestIds : lines = [old EXCEPT ![i].event = e]
  <2>1. PICK i \in 1..n, e \in RequestIds : lines = [old EXCEPT ![i].event = e]
    BY <1>12
  <2>2. PICK line : line = [old[i] EXCEPT !.event = e]
    OBVIOUS
  <2>3. /\ line \in Records /\ line.event = e
        /\ line.hash = old[i].hash /\ line.prevHash = old[i].prevHash
    BY <1>2, <2>2 DEF Records
  <2>4. lines = [old EXCEPT ![i] = line]
    BY <1>1, <2>1, <2>2
  <2>5. lines \in Seq(Records) /\ Len(lines) = n /\ lines[i] = line
    BY <1>1, <2>3, <2>4
  <2>6. ASSUME Verifies(File(lines, FALSE, TRUE))
        PROVE  e = old[i].event
    <3>1. line.hash = ChainHash(line.prevHash, i, e)
      BY <1>3, <2>3, <2>5, <2>6
    <3>2. PICK prev \in Chain : prev = old[i].prevHash
      BY <1>2 DEF Records, Chain
    <3>3. Append(prev, <<i, e>>) = Append(prev, <<i, old[i].event>>)
      BY <1>2, <2>3, <3>1, <3>2 DEF ChainHash
    <3>4. Append(prev, <<i, e>>)[Len(prev) + 1] = <<i, e>>
      BY <3>2 DEF Chain
    <3>5. Append(prev, <<i, old[i].event>>)[Len(prev) + 1] = <<i, old[i].event>>
      BY <3>2 DEF Chain
    <3> QED
      BY <3>3, <3>4, <3>5
  <2>7. ASSUME e = old[i].event
        PROVE  lines = old
    <3>1. line = old[i]
      BY <1>2, <2>2, <2>7 DEF Records
    <3> QED
      BY <1>1, <2>4, <3>1
  <2> QED
    BY <1>6, <1>7, <2>5, <2>6, <2>7
<1> QED
  BY <1>5, <1>8, <1>9, <1>10, <1>11, <1>12

LEMMA PrefixOrdered ==
  ASSUME NEW lines \in Seq(Records), NEW calls, Ordered(lines, calls), NEW m \in 0..Len(lines)
  PROVE  Ordered(SubSeq(lines, 1, m), calls)
<1>1. /\ Len(SubSeq(lines, 1, m)) = m
      /\ \A k \in 1..m : SubSeq(lines, 1, m)[k] = lines[k]
      /\ \A k \in 1..m : k \in 1..Len(lines)
  OBVIOUS
<1> QED
  BY <1>1 DEF Ordered

LEMMA OrderedStays ==
  ASSUME NEW lines, NEW calls, NEW later, Ordered(lines, calls),
         \A q \in DOMAIN calls : Written(q, calls) => Written(q, later)
  PROVE  Ordered(lines, later)
BY DEF Ordered, Written

-----------------------------------------------------------------------------
(* One call at a time.                                                     *)

LEMMA OneMoves ==
  ASSUME requests \in Seq(Request), InOrder(requests), NEW r \in DOMAIN requests,
         Turn(r), requests[r].step \notin Ended,
         NEW request \in Request, request.kind = requests[r].kind,
         requests' = [requests EXCEPT ![r] = request]
  PROVE  /\ requests' \in Seq(Request) /\ Len(requests') = Len(requests)
         /\ DOMAIN requests' = DOMAIN requests /\ requests'[r] = request
         /\ InOrder(requests')
         /\ \A q \in DOMAIN requests :
              /\ requests'[q].kind = requests[q].kind
              /\ q # r => requests'[q] = requests[q]
              /\ q < r => requests[q].step \in Ended
              /\ q > r => requests[q].step = "waiting"
<1>1. /\ requests' \in Seq(Request) /\ Len(requests') = Len(requests)
      /\ DOMAIN requests = 1..Len(requests) /\ DOMAIN requests' = 1..Len(requests)
      /\ Len(requests) \in Nat
      /\ requests'[r] = request
      /\ \A q \in DOMAIN requests : q # r => requests'[q] = requests[q]
  OBVIOUS
<1>2. \A q \in DOMAIN requests : q < r => requests[q].step \in Ended
  BY <1>1 DEF Turn
<1>3. \A q \in DOMAIN requests : q > r => r \in 1..(q - 1)
  BY <1>1
<1>4. ASSUME NEW q \in DOMAIN requests, q > r
      PROVE  requests[q].step = "waiting"
  BY <1>3, <1>4 DEF InOrder
<1>5. \A q \in DOMAIN requests : q = r \/ q < r \/ q > r
  BY <1>1
<1>6. ASSUME NEW q \in DOMAIN requests, requests'[q].step # "waiting", NEW p \in 1..(q - 1)
      PROVE  requests'[p].step \in Ended
  <2>1. q = r \/ q < r
    BY <1>1, <1>4, <1>5, <1>6
  <2>2. p \in DOMAIN requests /\ p # r /\ p \in 1..(r - 1)
    BY <1>1, <2>1
  <2> QED
    BY <1>1, <2>2 DEF Turn
<1>7. InOrder(requests')
  BY <1>1, <1>6 DEF InOrder
<1>8. \A q \in DOMAIN requests : requests'[q].kind = requests[q].kind
  BY <1>1
<1> QED
  BY <1>1, <1>2, <1>4, <1>7, <1>8

(* What a file holds of the calls stays true when the calls move on        *)
(* without touching it.                                                    *)
LEMMA LeftStays ==
  ASSUME NEW lines, Left(lines, requests),
         DOMAIN requests \subseteq DOMAIN requests', Told(lines) \subseteq DOMAIN requests,
         \A q \in DOMAIN requests' \ DOMAIN requests : requests'[q].step = "waiting",
         \A q \in DOMAIN requests :
           /\ requests'[q].kind = requests[q].kind
           /\ requests[q].kind = "append" /\ requests'[q].step \in {"applied", "done"}
                => requests[q].step \in {"applied", "done"}
           /\ requests[q].kind = "clear" /\ requests'[q].step \in {"applied", "done"}
                => requests[q].step \in {"applied", "done"}
           /\ requests[q].kind = "clear" /\ requests[q].step \in {"applied", "done", "lost"}
                => requests'[q].step \in {"applied", "done", "lost"}
  PROVE  Left(lines, requests')
<1>1. ASSUME NEW q \in DOMAIN requests, Cleared(q, requests, {"applied", "done", "lost"})
      PROVE  Cleared(q, requests', {"applied", "done", "lost"})
  BY <1>1 DEF Cleared
<1>2. ASSUME NEW q \in DOMAIN requests, Cleared(q, requests', {"applied", "done"})
      PROVE  Cleared(q, requests, {"applied", "done"})
  <2>1. PICK c \in DOMAIN requests' :
          q < c /\ requests'[c].kind = "clear" /\ requests'[c].step \in {"applied", "done"}
    BY <1>2 DEF Cleared
  <2>2. c \in DOMAIN requests
    BY <2>1
  <2> QED
    BY <2>1, <2>2 DEF Cleared
<1>3. ASSUME NEW q \in DOMAIN requests', requests'[q].kind = "append",
             requests'[q].step \in {"applied", "done"},
             ~Cleared(q, requests', {"applied", "done", "lost"})
      PROVE  q \in Told(lines)
  <2>1. q \in DOMAIN requests
    BY <1>3
  <2> QED
    BY <1>1, <1>3, <2>1 DEF Left
<1>4. ASSUME NEW q \in DOMAIN requests', q \in Told(lines)
      PROVE  ~Cleared(q, requests', {"applied", "done"})
  BY <1>2, <1>4 DEF Left
<1> QED
  BY <1>3, <1>4 DEF Left

(* What may and must be stored depends on the calls before alone.          *)
LEMMA SameBefore ==
  ASSUME NEW r \in Nat, \A q \in 1..(r - 1) : requests'[q] = requests[q]
  PROVE  Stored(r)' = Stored(r) /\ Storable(r)' = Storable(r)
<1>1. Appends(r)' = Appends(r)
  BY DEF Appends
<1>2. ASSUME NEW q \in Appends(r), NEW c \in (q + 1)..(r - 1)
      PROVE  requests'[c] = requests[c]
  <2>1. q \in 1..(r - 1)
    BY DEF Appends
  <2>2. c \in 1..(r - 1)
    BY <2>1
  <2> QED
    BY <2>2
<1>3. \A q \in Appends(r) :
        /\ requests'[q] = requests[q]
        /\ MayBeCleared(q, r)' = MayBeCleared(q, r)
        /\ MustBeCleared(q, r)' = MustBeCleared(q, r)
  BY <1>2 DEF MayBeCleared, MustBeCleared, Appends
<1> QED
  BY <1>1, <1>3 DEF Stored, Storable

LEMMA AnsweredStays ==
  ASSUME NEW r \in Nat, Answered(r), requests'[r].records = requests[r].records,
         requests'[r].kind = requests[r].kind,
         requests'[r].step \in {"applied", "done"} => requests[r].step \in {"applied", "done"},
         \A q \in 1..(r - 1) : requests'[q] = requests[q]
  PROVE  Answered(r)'
<1>1. Stored(r)' = Stored(r) /\ Storable(r)' = Storable(r)
  BY SameBefore
<1> QED
  BY <1>1 DEF Answered

(* What a step of the call whose turn it is has to establish.              *)
LEMMA StepOfOne ==
  ASSUME JournalInv, NEW r \in DOMAIN requests, Turn(r), requests[r].step \notin Ended,
         NEW request \in Request, request.kind = requests[r].kind,
         requests' = [requests EXCEPT ![r] = request],
         Written(r, requests) => Written(r, requests'),
         journal' \in Files, temp' \in Files, UNCHANGED <<durable, counters>>,
         Readable(journal', requests'), damages = 0 => Verifies(journal'), Prepared(r)',
         Untouched => Left(journal'.lines, requests') /\ Answered(r)'
  PROVE  JournalInv'
<1>1. /\ requests \in Seq(Request) /\ InOrder(requests) /\ Len(requests) <= MaxRequests
      /\ DOMAIN requests = 1..Len(requests) /\ Len(requests) \in Nat
  BY DEF JournalInv, LocalJournalTypeOK, Request, Turn
<1>2. /\ requests' \in Seq(Request) /\ Len(requests') = Len(requests)
      /\ DOMAIN requests' = DOMAIN requests /\ requests'[r] = request
      /\ InOrder(requests')
      /\ \A q \in DOMAIN requests :
           /\ requests'[q].kind = requests[q].kind
           /\ q # r => requests'[q] = requests[q]
           /\ q < r => requests[q].step \in Ended
           /\ q > r => requests[q].step = "waiting"
  BY <1>1, OneMoves
<1>3. LocalJournalTypeOK'
  BY <1>1, <1>2 DEF JournalInv, LocalJournalTypeOK, counters, Request
<1>4. JournalVerifies'
  BY DEF JournalInv, JournalVerifies, counters
<1>5. \A q \in DOMAIN requests : Written(q, requests) => Written(q, requests')
  BY <1>2 DEF Written
<1>6. Readable(durable', requests')
  BY <1>5, OrderedStays DEF JournalInv, Readable
<1>7. \A q \in DOMAIN requests : q < r \/ q = r \/ q > r
  BY <1>1
<1>8. ASSUME NEW q \in DOMAIN requests', q # r
      PROVE  Prepared(q)'
  <2>1. requests'[q].step \in Ended \cup {"waiting"}
    BY <1>2, <1>7, <1>8
  <2> QED
    BY <2>1 DEF Prepared, Ended
<1>9. ASSUME Untouched, NEW q \in DOMAIN requests', q # r
      PROVE  Answered(q)'
  <2>1. CASE q < r
    <3>1. \A p \in 1..(q - 1) : p \in DOMAIN requests /\ p # r
      BY <1>1, <1>2, <2>1
    <3>2. q \in Nat /\ Answered(q)
      BY <1>1, <1>2, <1>9 DEF JournalInv
    <3> QED
      BY <1>2, <1>9, <3>1, <3>2, AnsweredStays
  <2>2. CASE q > r
    BY <1>2, <2>2, <1>9 DEF Answered
  <2> QED
    BY <1>2, <1>7, <1>9, <2>1, <2>2
<1>10. Untouched' <=> Untouched
  BY DEF Untouched, counters
<1> QED
  BY <1>2, <1>3, <1>4, <1>6, <1>8, <1>9, <1>10 DEF JournalInv

LEMMA Facts ==
  ASSUME JournalInv
  PROVE  /\ requests \in Seq(Request) /\ InOrder(requests)
         /\ DOMAIN requests = 1..Len(requests) /\ Len(requests) \in Nat
         /\ journal \in Files /\ temp \in Files /\ durable \in Files
         /\ journal.lines \in Seq(Records) /\ durable.lines \in Seq(Records)
         /\ \A r \in DOMAIN requests :
              /\ r \in Nat /\ r \in RequestIds
              /\ requests[r] \in Request /\ requests[r].records \in Seq(Records)
<1>1. /\ requests \in Seq(Request) /\ InOrder(requests) /\ Len(requests) <= MaxRequests
      /\ journal \in Files /\ temp \in Files /\ durable \in Files
  BY DEF JournalInv, LocalJournalTypeOK, Request
<1>2. \A r \in DOMAIN requests : r \in Nat /\ r \in RequestIds
  BY <1>1, JournalAssumption DEF RequestIds
<1>3. \A r \in DOMAIN requests : requests[r] \in Request /\ requests[r].records \in Seq(Records)
  <2>1. \A r \in DOMAIN requests : requests[r] \in Request
    BY <1>1
  <2> QED
    BY <2>1 DEF Request
<1>4. journal.lines \in Seq(Records) /\ durable.lines \in Seq(Records)
  BY <1>1 DEF Files
<1>5. DOMAIN requests = 1..Len(requests) /\ Len(requests) \in Nat
  BY <1>1
<1> QED
  BY <1>1, <1>2, <1>3, <1>4, <1>5

LEMMA WrittenAreCalls ==
  ASSUME NEW lines, NEW calls, Ordered(lines, calls)
  PROVE  Told(lines) \subseteq DOMAIN calls
BY DEF Ordered, Told, Written

(* The call whose turn it is comes after all that a verified file holds.   *)
LEMMA ComesLast ==
  ASSUME JournalInv, NEW r \in DOMAIN requests, Turn(r),
         requests[r].step \notin Ended \cup {"applied"},
         NEW lines \in Seq(Records), Ordered(lines, requests)
  PROVE  /\ \A k \in 1..Len(lines) : lines[k].event < r
         /\ Len(lines) < r /\ Len(lines) + 1 \in RequestIds
<1>1. /\ DOMAIN requests = 1..Len(requests) /\ Len(requests) \in Nat
      /\ InOrder(requests) /\ r \in Nat /\ r \in RequestIds
  BY Facts
<1>2. ASSUME NEW k \in 1..Len(lines)
      PROVE  lines[k].event < r
  <2>1. PICK q : q = lines[k].event
    OBVIOUS
  <2>2. q \in DOMAIN requests /\ requests[q].step \in {"applied", "done", "lost"}
    BY <2>1 DEF Ordered, Written
  <2>3. q # r
    BY <2>2 DEF Ended
  <2>4. ~(r < q)
    <3>1. ASSUME r < q
          PROVE  requests[r].step \in Ended
      <4>1. r \in 1..(q - 1)
        BY <1>1, <2>2, <3>1
      <4> QED
        BY <1>1, <2>2, <4>1 DEF InOrder
    <3> QED
      BY <3>1
  <2> QED
    BY <1>1, <2>1, <2>2, <2>3, <2>4
<1>3. Len(lines) < r
  <2>1. CASE Len(lines) = 0
    BY <1>1, <2>1
  <2>2. CASE Len(lines) # 0
    <3>1. Len(lines) \in 1..Len(lines)
      BY <2>2
    <3>2. PICK k : k = Len(lines)
      OBVIOUS
    <3>3. k \in 1..Len(lines) /\ lines[k].event >= k /\ lines[k].event \in DOMAIN requests
      BY <3>1, <3>2 DEF Ordered, Written
    <3>4. lines[k].event < r
      BY <1>2, <3>3
    <3> QED
      BY <1>1, <3>2, <3>3, <3>4
  <2> QED
    BY <2>1, <2>2
<1>4. Len(lines) + 1 \in RequestIds
  BY <1>1, <1>3, JournalAssumption DEF RequestIds
<1> QED
  BY <1>2, <1>3, <1>4

(* A step that leaves the journal as it is.                                *)
LEMMA QuietStep ==
  ASSUME JournalInv, NEW r \in DOMAIN requests, Turn(r), requests[r].step \notin Ended,
         NEW request \in Request, request.kind = requests[r].kind,
         requests' = [requests EXCEPT ![r] = request],
         requests[r].kind # "replay" =>
           (request.step \in {"applied", "done"} <=> requests[r].step = "applied"),
         UNCHANGED <<journal, durable, counters>>, temp' \in Files, Prepared(r)',
         Untouched => Answered(r)'
  PROVE  JournalInv'
<1>1. /\ DOMAIN requests' = DOMAIN requests /\ requests'[r] = request
      /\ \A q \in DOMAIN requests :
           /\ requests'[q].kind = requests[q].kind
           /\ q # r => requests'[q] = requests[q]
  BY Facts
<1>2. Written(r, requests) => Written(r, requests')
  BY <1>1 DEF Written, Ended
<1>3. \A q \in DOMAIN requests : Written(q, requests) => Written(q, requests')
  BY <1>1, <1>2 DEF Written
<1>4. Readable(journal', requests')
  BY <1>3, OrderedStays DEF JournalInv, Readable
<1>5. journal' \in Files /\ (damages = 0 => Verifies(journal'))
  BY Facts DEF JournalInv, JournalVerifies
<1>6. ASSUME Untouched
      PROVE  Left(journal'.lines, requests')
  <2>1. Left(journal.lines, requests)
    BY <1>6 DEF JournalInv
  <2>2. Ordered(journal.lines, requests)
    BY <1>6 DEF JournalInv, JournalVerifies, Readable, Untouched
  <2>3. \A q \in DOMAIN requests :
          /\ requests[q].kind = "append" /\ requests'[q].step \in {"applied", "done"}
               => requests[q].step \in {"applied", "done"}
          /\ requests[q].kind = "clear" /\ requests'[q].step \in {"applied", "done"}
               => requests[q].step \in {"applied", "done"}
          /\ requests[q].kind = "clear" /\ requests[q].step \in {"applied", "done", "lost"}
               => requests'[q].step \in {"applied", "done", "lost"}
    BY <1>1 DEF Ended
  <2>4. Left(journal.lines, requests')
    <3>1. /\ DOMAIN requests \subseteq DOMAIN requests'
          /\ Told(journal.lines) \subseteq DOMAIN requests
      BY <1>1, <2>2, WrittenAreCalls
    <3>2. \A q \in DOMAIN requests' \ DOMAIN requests : requests'[q].step = "waiting"
      BY <1>1
    <3> QED
      BY <1>1, <2>1, <2>3, <3>1, <3>2, LeftStays
  <2> QED
    BY <2>4
<1> QED
  BY <1>2, <1>4, <1>5, <1>6, StepOfOne

(* What a replay reads is what the calls before it left.                   *)
LEMMA ReadsWhatWasLeft ==
  ASSUME JournalInv, Untouched, NEW r \in DOMAIN requests, Turn(r),
         requests[r].step = "waiting", requests[r].kind = "replay"
  PROVE  /\ Stored(r) \subseteq Told(journal.lines)
         /\ Told(journal.lines) \subseteq Storable(r)
         /\ \A i, j \in 1..Len(journal.lines) :
              i < j => journal.lines[i].event < journal.lines[j].event
<1>1. /\ DOMAIN requests = 1..Len(requests) /\ Len(requests) \in Nat
      /\ InOrder(requests) /\ r \in Nat
  BY Facts
<1>2. Left(journal.lines, requests) /\ Ordered(journal.lines, requests)
  BY DEF JournalInv, JournalVerifies, Readable, Untouched
<1>3. ASSUME NEW c \in DOMAIN requests, requests[c].kind # "replay",
             requests[c].step # "waiting"
      PROVE  c \in 1..(r - 1)
  <2>1. c # r
    BY <1>3
  <2>2. ~(r < c)
    <3>1. ASSUME r < c
          PROVE  requests[r].step \in Ended
      <4>1. r \in 1..(c - 1)
        BY <1>1, <3>1
      <4> QED
        BY <1>1, <1>3, <4>1 DEF InOrder
    <3> QED
      BY <3>1 DEF Ended
  <2> QED
    BY <1>1, <2>1, <2>2
<1>4. ASSUME NEW q \in Stored(r)
      PROVE  q \in Told(journal.lines)
  <2>1. /\ q \in 1..(r - 1) /\ q \in DOMAIN requests
        /\ requests[q].kind = "append" /\ requests[q].step = "done" /\ ~MayBeCleared(q, r)
    BY <1>1 DEF Stored, Appends
  <2>2. ~Cleared(q, requests, {"applied", "done", "lost"})
    <3> SUFFICES ASSUME NEW c \in DOMAIN requests, q < c, requests[c].kind = "clear",
                        requests[c].step \in {"applied", "done", "lost"}
                 PROVE  FALSE
      BY DEF Cleared
    <3>1. c \in 1..(r - 1)
      BY <1>3
    <3>2. c \in (q + 1)..(r - 1)
      BY <2>1, <3>1
    <3> QED
      BY <2>1, <3>2 DEF MayBeCleared
  <2> QED
    BY <1>2, <2>1, <2>2 DEF Left
<1>5. ASSUME NEW q \in Told(journal.lines)
      PROVE  q \in Storable(r)
  <2>1. q \in DOMAIN requests /\ Written(q, requests)
    BY <1>2 DEF Ordered, Told, Written
  <2>2. q \in 1..(r - 1) /\ requests[q].step \in Ended
    <3>1. q \in 1..(r - 1)
      BY <1>3, <2>1 DEF Written
    <3> QED
      BY <3>1 DEF Turn
  <2>3. ~MustBeCleared(q, r)
    <3> SUFFICES ASSUME NEW c \in (q + 1)..(r - 1), requests[c].kind = "clear",
                        requests[c].step = "done"
                 PROVE  FALSE
      BY DEF MustBeCleared
    <3>1. c \in DOMAIN requests /\ q < c
      BY <1>1, <2>2
    <3>2. Cleared(q, requests, {"applied", "done"})
      BY <3>1 DEF Cleared
    <3> QED
      BY <1>2, <2>1, <3>2 DEF Left
  <2> QED
    BY <2>1, <2>2, <2>3 DEF Storable, Appends, Written, Ended
<1> QED
  BY <1>2, <1>4, <1>5 DEF Ordered

LEMMA ReadKeeps ==
  ASSUME JournalInv, NEW r \in DOMAIN requests, ReadRecords(r)
  PROVE  JournalInv'
<1> DEFINE request == [requests[r] EXCEPT !.step = AfterReading(requests[r].kind),
                                          !.records = journal.lines]
<1>1. /\ requests[r] \in Request /\ journal.lines \in Seq(Records)
      /\ requests \in Seq(Request) /\ r \in Nat /\ temp \in Files
  BY Facts
<1>2. /\ Turn(r) /\ requests[r].step = "waiting" /\ requests[r].kind \in {"append", "replay"}
      /\ Verifies(journal) /\ requests' = [requests EXCEPT ![r] = request]
      /\ UNCHANGED <<journal, temp, durable, counters>>
  BY <1>1 DEF ReadRecords, At, files
<1>3. /\ request \in Request /\ request.kind = requests[r].kind
      /\ request.records = journal.lines
      /\ request.step = AfterReading(requests[r].kind)
  BY <1>1 DEF Request, AfterReading, Steps
<1>4. requests'[r] = request /\ \A q \in 1..(r - 1) : requests'[q] = requests[q]
  BY <1>1, <1>2
<1> HIDE DEF request
<1>5. Prepared(r)'
  BY <1>2, <1>3, <1>4 DEF Prepared, AfterReading
<1>6. ASSUME Untouched
      PROVE  Answered(r)'
  <2>1. CASE requests[r].kind = "append"
    BY <1>3, <1>4, <2>1 DEF Answered
  <2>2. CASE requests[r].kind = "replay"
    <3>1. /\ Stored(r) \subseteq Told(journal.lines)
          /\ Told(journal.lines) \subseteq Storable(r)
          /\ \A i, j \in 1..Len(journal.lines) :
               i < j => journal.lines[i].event < journal.lines[j].event
      BY <1>2, <1>6, <2>2, ReadsWhatWasLeft
    <3>2. Stored(r)' = Stored(r) /\ Storable(r)' = Storable(r)
      BY <1>1, <1>4, SameBefore
    <3>3. requests'[r].records = journal.lines
      BY <1>3, <1>4
    <3> QED
      BY <3>1, <3>2, <3>3 DEF Answered
  <2> QED
    BY <1>2, <2>1, <2>2
<1>7. requests[r].kind # "replay" =>
        (request.step \in {"applied", "done"} <=> requests[r].step = "applied")
  BY <1>2, <1>3 DEF AfterReading
<1>8. requests[r].step \notin Ended
  BY <1>2 DEF Ended
<1> QED
  BY <1>1, <1>2, <1>3, <1>5, <1>6, <1>7, <1>8, QuietStep

(* A step of which nothing is told that the journal does not show.         *)
LEMMA PlainStep ==
  ASSUME JournalInv, NEW r \in DOMAIN requests, Turn(r), requests[r].step \notin Ended,
         NEW step \in Steps, NEW records \in Seq(Records),
         requests' = [requests EXCEPT ![r].step = step, ![r].records = records],
         step \notin {"applied", "writing"},
         step = "done" => requests[r].step = "applied" /\ records = requests[r].records,
         requests[r].step = "applied" => step = "done",
         UNCHANGED <<journal, durable, counters>>, temp' \in Files, Prepared(r)'
  PROVE  JournalInv'
<1> DEFINE request == [requests[r] EXCEPT !.step = step, !.records = records]
<1>1. requests[r] \in Request /\ requests \in Seq(Request) /\ r \in Nat
  BY Facts
<1>2. requests' = [requests EXCEPT ![r] = request]
  BY <1>1
<1>3. /\ request \in Request /\ request.kind = requests[r].kind
      /\ request.step = step /\ request.records = records
  BY <1>1 DEF Request
<1>4. requests'[r] = request /\ \A q \in 1..(r - 1) : requests'[q] = requests[q]
  BY <1>1, <1>2
<1> HIDE DEF request
<1>5. ASSUME Untouched
      PROVE  Answered(r)'
  <2>1. CASE step = "done"
    <3>1. Answered(r)
      BY <1>5 DEF JournalInv
    <3> QED
      BY <1>1, <1>3, <1>4, <2>1, <3>1, AnsweredStays
  <2>2. CASE step # "done"
    BY <1>3, <1>4, <2>2 DEF Answered
  <2> QED
    BY <2>1, <2>2
<1>6. request.step \in {"applied", "done"} <=> requests[r].step = "applied"
  BY <1>3
<1> QED
  BY <1>2, <1>3, <1>5, <1>6, QuietStep

LEMMA WriteKeeps ==
  ASSUME JournalInv, NEW r \in DOMAIN requests, WriteTemp(r)
  PROVE  JournalInv'
<1> DEFINE lines == journal.lines
           record == NextRecord(lines, r)
<1>1. /\ requests[r] \in Request /\ requests \in Seq(Request) /\ r \in RequestIds
      /\ lines \in Seq(Records)
  BY Facts
<1>2. /\ Turn(r) /\ requests[r].step = "writing"
      /\ UNCHANGED <<journal, durable, counters>>
      /\ requests' = [requests EXCEPT ![r].step = "syncing", ![r].records = <<>>]
      /\ temp' = File(Append(requests[r].records, NextRecord(requests[r].records, r)),
                      FALSE, FALSE)
  BY DEF WriteTemp, At
<1>3. /\ requests[r].kind = "append" /\ Verifies(journal) /\ requests[r].records = lines
  BY <1>2 DEF JournalInv, Prepared
<1>4. Ordered(lines, requests)
  BY <1>3 DEF JournalInv, Readable
<1>5. requests[r].step \notin Ended \cup {"applied"}
  BY <1>2 DEF Ended
<1>6. Len(lines) + 1 \in RequestIds
  BY <1>1, <1>2, <1>4, <1>5, ComesLast
<1>7. record \in Records
  BY <1>1, <1>6, NextRecordType
<1>8. temp' = File(Append(lines, record), FALSE, FALSE)
  BY <1>2, <1>3
<1>9. Append(lines, record) \in Seq(Records)
  <2> HIDE DEF record, lines
  <2> QED
    BY <1>1, <1>7
<1>10. temp' \in Files /\ ~temp'.torn /\ temp'.lines = Append(lines, record)
  <2> HIDE DEF record, lines
  <2> QED
    BY <1>8, <1>9 DEF File, Files
<1>11. requests'[r].step = "syncing" /\ requests'[r].kind = "append"
  BY <1>1, <1>2, <1>3 DEF Request
<1>12. Prepared(r)'
  BY <1>2, <1>3, <1>10, <1>11 DEF Prepared
<1>13. "syncing" \in Steps /\ <<>> \in Seq(Records)
  BY DEF Steps
<1> QED
  BY <1>2, <1>5, <1>10, <1>12, <1>13, PlainStep

LEMMA RenameKeeps ==
  ASSUME JournalInv, NEW r \in DOMAIN requests, Rename(r)
  PROVE  JournalInv'
<1> DEFINE request == [requests[r] EXCEPT !.step = "applied"]
           lines == journal.lines
<1>1. /\ requests[r] \in Request /\ requests \in Seq(Request)
      /\ r \in Nat /\ r \in RequestIds
      /\ lines \in Seq(Records) /\ temp \in Files
      /\ DOMAIN requests = 1..Len(requests) /\ Len(requests) \in Nat /\ InOrder(requests)
  BY Facts
<1>2. /\ Turn(r) /\ requests[r].step = "renaming" /\ journal' = temp /\ temp' = NoFile
      /\ UNCHANGED <<durable, counters>> /\ requests' = [requests EXCEPT ![r] = request]
  BY <1>1 DEF Rename, At, To
<1>3. /\ requests[r].kind = "append" /\ Verifies(journal) /\ ~temp.torn /\ temp.synced
      /\ temp.lines = Append(lines, NextRecord(lines, r))
  BY <1>2 DEF JournalInv, Prepared
<1>4. /\ request \in Request /\ request.kind = "append" /\ request.step = "applied"
  BY <1>1, <1>3 DEF Request, Steps
<1> HIDE DEF request
<1>5. requests[r].step \notin Ended \cup {"applied"}
  BY <1>2 DEF Ended
<1>6. /\ DOMAIN requests' = DOMAIN requests /\ requests'[r] = request
      /\ \A q \in DOMAIN requests :
           /\ requests'[q].kind = requests[q].kind
           /\ q # r => requests'[q] = requests[q]
           /\ q < r => requests[q].step \in Ended
           /\ q > r => requests[q].step = "waiting"
  BY <1>1, <1>2, <1>3, <1>4, <1>5, OneMoves
<1>7. Ordered(lines, requests)
  BY <1>3 DEF JournalInv, Readable
<1>8. /\ \A k \in 1..Len(lines) : lines[k].event < r
      /\ Len(lines) < r /\ Len(lines) + 1 \in RequestIds
  BY <1>1, <1>2, <1>5, <1>7, ComesLast
<1>9. Written(r, requests')
  BY <1>4, <1>6 DEF Written
<1>10. \A q \in DOMAIN requests : Written(q, requests) => Written(q, requests')
  BY <1>6, <1>9 DEF Written
<1>11. /\ Ordered(temp.lines, requests')
       /\ Told(temp.lines) = Told(lines) \cup {r}
  BY <1>1, <1>3, <1>7, <1>8, <1>9, <1>10, AppendOrdered
<1>12. Verifies(temp)
  BY <1>1, <1>3, <1>8, AppendVerifies
<1>13. Readable(journal', requests')
  BY <1>2, <1>3, <1>11 DEF Readable
<1>14. ASSUME Untouched
       PROVE  Left(journal'.lines, requests') /\ Answered(r)'
  <2>1. Left(lines, requests)
    BY <1>14 DEF JournalInv
  <2>2. ASSUME NEW q \in DOMAIN requests, NEW steps \in SUBSET Ended
        PROVE  Cleared(q, requests', steps \cup {"applied"})
                 <=> Cleared(q, requests, steps \cup {"applied"})
    <3>1. \A c \in DOMAIN requests : requests[c].kind = "clear" => requests'[c] = requests[c]
      BY <1>3, <1>6
    <3> QED
      BY <1>6, <3>1 DEF Cleared
  <2>3. ASSUME NEW q \in DOMAIN requests
        PROVE  /\ Cleared(q, requests', {"applied", "done"})
                    <=> Cleared(q, requests, {"applied", "done"})
               /\ Cleared(q, requests', {"applied", "done", "lost"})
                    <=> Cleared(q, requests, {"applied", "done", "lost"})
    <3>1. {"done"} \in SUBSET Ended /\ {"done", "lost"} \in SUBSET Ended
      BY DEF Ended
    <3>2. /\ {"applied", "done"} = {"done"} \cup {"applied"}
          /\ {"applied", "done", "lost"} = {"done", "lost"} \cup {"applied"}
      OBVIOUS
    <3> QED
      BY <2>2, <3>1, <3>2
  <2>4. ~Cleared(r, requests, {"applied", "done"})
    BY <1>6 DEF Cleared
  <2>5. ASSUME NEW q \in DOMAIN requests
        PROVE  /\ requests'[q].kind = "append" /\ requests'[q].step \in {"applied", "done"}
                  /\ ~Cleared(q, requests', {"applied", "done", "lost"}) => q \in Told(temp.lines)
               /\ q \in Told(temp.lines) => ~Cleared(q, requests', {"applied", "done"})
    <3>1. CASE q = r
      BY <1>11, <2>3, <2>4, <3>1
    <3>2. CASE q # r
      BY <1>6, <1>11, <2>1, <2>3, <3>2 DEF Left
    <3> QED
      BY <3>1, <3>2
  <2>6. Left(temp.lines, requests')
    BY <1>6, <2>5 DEF Left
  <2>7. Answered(r)'
    BY <1>4, <1>6 DEF Answered
  <2> QED
    BY <1>2, <2>6, <2>7
<1>15. Prepared(r)'
  BY <1>4, <1>6 DEF Prepared
<1>16. journal' \in Files /\ temp' \in Files
  BY <1>1, <1>2, NoFileIsWhole
<1> QED
  BY <1>2, <1>3, <1>4, <1>5, <1>9, <1>12, <1>13, <1>14, <1>15, <1>16, StepOfOne

LEMMA RemoveKeeps ==
  ASSUME JournalInv, NEW r \in DOMAIN requests, RemoveJournal(r)
  PROVE  JournalInv'
<1> DEFINE request == [requests[r] EXCEPT !.step = "applied"]
<1>1. /\ requests[r] \in Request /\ requests \in Seq(Request) /\ temp \in Files
      /\ DOMAIN requests = 1..Len(requests) /\ InOrder(requests)
      /\ Len(requests) \in Nat
  BY Facts
<1>2. /\ Turn(r) /\ requests[r].step = "removing" /\ journal' = NoFile
      /\ UNCHANGED <<temp, durable, counters>> /\ requests' = [requests EXCEPT ![r] = request]
  BY <1>1 DEF RemoveJournal, At, To
<1>3. requests[r].kind = "clear"
  BY <1>2 DEF JournalInv, Prepared
<1>4. request \in Request /\ request.kind = "clear" /\ request.step = "applied"
  BY <1>1, <1>3 DEF Request, Steps
<1> HIDE DEF request
<1>5. requests[r].step \notin Ended \cup {"applied"}
  BY <1>2 DEF Ended
<1>6. /\ DOMAIN requests' = DOMAIN requests /\ requests'[r] = request
      /\ \A q \in DOMAIN requests :
           /\ requests'[q].kind = requests[q].kind
           /\ q # r => requests'[q] = requests[q]
           /\ q > r => requests[q].step = "waiting"
  BY <1>1, <1>2, <1>3, <1>4, <1>5, OneMoves
<1>7. Readable(journal', requests')
  BY <1>2, NoFileIsWhole, NoneIsOrdered DEF Readable
<1>8. Left(journal'.lines, requests')
  <2>1. ASSUME NEW q \in DOMAIN requests', requests'[q].kind = "append",
               requests'[q].step \in {"applied", "done"}
        PROVE  Cleared(q, requests', {"applied", "done", "lost"})
    <3>1. q # r /\ ~(q > r)
      BY <1>4, <1>6, <2>1
    <3>2. q < r
      BY <1>1, <1>6, <3>1
    <3> QED
      BY <1>4, <1>6, <3>2 DEF Cleared
  <2> QED
    BY <1>2, <2>1, NoFileIsWhole, NoneIsOrdered DEF Left
<1>9. Prepared(r)' /\ Answered(r)'
  BY <1>4, <1>6 DEF Prepared, Answered
<1>10. ~Written(r, requests)
  BY <1>3 DEF Written
<1> QED
  BY <1>1, <1>2, <1>3, <1>4, <1>5, <1>7, <1>8, <1>9, <1>10, NoFileIsWhole, StepOfOne

LEMMA RequestStepKeeps ==
  ASSUME JournalInv, NEW r \in DOMAIN requests, RequestStep(r)
  PROVE  JournalInv'
<1>0. /\ requests[r] \in Request /\ requests \in Seq(Request) /\ temp \in Files
      /\ requests[r].records \in Seq(Records) /\ <<>> \in Seq(Records)
  BY Facts
<1>1. ASSUME NEW step, To(r, step)
      PROVE  /\ requests' = [requests EXCEPT ![r].step = step,
                                             ![r].records = requests[r].records]
             /\ requests'[r].step = step /\ requests'[r].kind = requests[r].kind
  <2>1. requests' = [requests EXCEPT ![r] = [requests[r] EXCEPT !.step = step]]
    BY <1>0, <1>1 DEF To
  <2>2. [requests[r] EXCEPT !.step = step]
          = [requests[r] EXCEPT !.step = step, !.records = requests[r].records]
    BY <1>0 DEF Request
  <2>3. requests' = [requests EXCEPT ![r].step = step, ![r].records = requests[r].records]
    BY <1>0, <2>1, <2>2
  <2>4. requests'[r] = [requests[r] EXCEPT !.step = step]
    BY <1>0, <2>1
  <2> QED
    BY <1>0, <2>3, <2>4 DEF Request
<1>2. CASE RefusePrivate(r) \/ RefuseBroken(r)
  <2>1. /\ Turn(r) /\ requests[r].step = "waiting" /\ To(r, "failed")
        /\ UNCHANGED <<journal, temp, durable, counters>>
    BY <1>2 DEF RefusePrivate, RefuseBroken, At, files
  <2>2. Prepared(r)'
    <3>1. requests'[r].step = "failed" /\ requests'[r].kind = requests[r].kind
      BY <1>1, <2>1
    <3> QED
      BY <2>1, <3>1 DEF Prepared
  <2>3. "failed" \in Steps /\ requests[r].step \notin Ended
    BY <2>1 DEF Steps, Ended
  <2> QED
    BY <1>0, <1>1, <2>1, <2>2, <2>3, PlainStep
<1>3. CASE Resolve(r)
  <2>1. /\ Turn(r) /\ requests[r].step = "applied" /\ To(r, "done")
        /\ UNCHANGED <<journal, temp, durable, counters>>
    BY <1>3 DEF Resolve, At, files
  <2>2. Prepared(r)'
    <3>1. requests'[r].step = "done" /\ requests'[r].kind = requests[r].kind
      BY <1>1, <2>1
    <3> QED
      BY <2>1, <3>1 DEF Prepared
  <2>3. "done" \in Steps /\ requests[r].step \notin Ended
    BY <2>1 DEF Steps, Ended
  <2> QED
    BY <1>0, <1>1, <2>1, <2>2, <2>3, PlainStep
<1>4. CASE SyncTemp(r)
  <2>1. /\ Turn(r) /\ requests[r].step = "syncing" /\ To(r, "renaming")
        /\ temp' = [temp EXCEPT !.synced = TRUE]
        /\ UNCHANGED <<journal, durable, counters>>
    BY <1>4 DEF SyncTemp, At
  <2>2. temp' \in Files /\ temp'.synced /\ temp'.torn = temp.torn /\ temp'.lines = temp.lines
    BY <1>0, <2>1 DEF Files
  <2>3. Prepared(r)
    BY DEF JournalInv
  <2>4. Prepared(r)'
    <3>1. requests'[r].step = "renaming" /\ requests'[r].kind = requests[r].kind
      BY <1>1, <2>1
    <3> QED
      BY <2>1, <2>2, <2>3, <3>1 DEF Prepared
  <2>5. "renaming" \in Steps /\ requests[r].step \notin Ended
    BY <2>1 DEF Steps, Ended
  <2> QED
    BY <1>0, <1>1, <2>1, <2>2, <2>4, <2>5, PlainStep
<1>5. CASE RemoveTemp(r)
  <2>1. /\ Turn(r) /\ requests[r].step = "waiting" /\ To(r, "removing")
        /\ requests[r].kind = "clear" /\ temp' = NoFile
        /\ UNCHANGED <<journal, durable, counters>>
    BY <1>5 DEF RemoveTemp, At
  <2>2. Prepared(r)'
    <3>1. requests'[r].step = "removing" /\ requests'[r].kind = requests[r].kind
      BY <1>1, <2>1
    <3> QED
      BY <2>1, <3>1 DEF Prepared
  <2>3. "removing" \in Steps /\ requests[r].step \notin Ended
    BY <2>1 DEF Steps, Ended
  <2> QED
    BY <1>0, <1>1, <2>1, <2>2, <2>3, NoFileIsWhole, PlainStep
<1>6. CASE FileOperationFails(r)
  <2>1. /\ Turn(r) /\ requests[r].step \notin Ended \cup {"applied"}
        /\ temp' \in {temp, TornFile} /\ UNCHANGED <<journal, durable, counters>>
        /\ requests' = [requests EXCEPT ![r].step = "failed", ![r].records = <<>>]
    BY <1>6 DEF FileOperationFails, At, Ended
  <2>2. requests'[r].step = "failed"
    BY <1>0, <2>1 DEF Request
  <2>3. Prepared(r)'
    BY <2>2 DEF Prepared
  <2>4. "failed" \in Steps
    BY DEF Steps
  <2>5. temp' \in Files
    BY <1>0, <2>1, TornIsBroken
  <2> QED
    BY <1>0, <2>1, <2>3, <2>4, <2>5, PlainStep
<1> QED
  BY <1>2, <1>3, <1>4, <1>5, <1>6, ReadKeeps, WriteKeeps, RenameKeeps, RemoveKeeps
     DEF RequestStep

-----------------------------------------------------------------------------
(* The queue, the host, the disk and the medium.                           *)

LEMMA EnqueueKeeps ==
  ASSUME JournalInv, NEW kind \in Kinds, Enqueue(kind)
  PROVE  JournalInv'
<1> DEFINE request == [kind |-> kind, step |-> "waiting", records |-> <<>>]
           n == Len(requests)
<1>1. /\ requests \in Seq(Request) /\ InOrder(requests)
      /\ DOMAIN requests = 1..n /\ n \in Nat
  BY Facts
<1>2. /\ requests' = Append(requests, request) /\ n < MaxRequests
      /\ UNCHANGED <<journal, temp, durable, counters>>
  BY DEF Enqueue, files
<1>3. request \in Request /\ request.step = "waiting"
  BY DEF Request, Steps
<1> HIDE DEF request
<1>4. /\ requests' \in Seq(Request) /\ Len(requests') = n + 1
      /\ DOMAIN requests' = 1..(n + 1)
      /\ \A q \in DOMAIN requests : requests'[q] = requests[q]
      /\ requests'[n + 1] = request
  BY <1>1, <1>2, <1>3
<1>5. DOMAIN requests \subseteq DOMAIN requests'
  BY <1>1, <1>4
<1>6. \A q \in DOMAIN requests' : q \in DOMAIN requests \/ q = n + 1
  BY <1>1, <1>4
<1>7. \A q \in DOMAIN requests : Written(q, requests) => Written(q, requests')
  BY <1>4, <1>5 DEF Written
<1>8. Readable(journal', requests') /\ Readable(durable', requests')
  BY <1>2, <1>7, OrderedStays DEF JournalInv, Readable
<1>9. LocalJournalTypeOK'
  <2>1. Len(requests') <= MaxRequests
    BY <1>1, <1>2, <1>4, JournalAssumption
  <2> QED
    BY <1>2, <1>4, <2>1 DEF JournalInv, LocalJournalTypeOK, Request, counters
<1>10. ASSUME NEW q \in DOMAIN requests', requests'[q].step # "waiting", NEW p \in 1..(q - 1)
       PROVE  requests'[p].step \in Ended
  <2>1. q \in DOMAIN requests
    BY <1>3, <1>4, <1>6, <1>10
  <2>2. p \in DOMAIN requests
    BY <1>1, <2>1
  <2> QED
    BY <1>1, <1>4, <1>10, <2>1, <2>2 DEF InOrder
<1>11. InOrder(requests')
  BY <1>10 DEF InOrder
<1>12. ASSUME NEW q \in DOMAIN requests'
       PROVE  Prepared(q)' /\ (Untouched => Answered(q)')
  <2>1. CASE q = n + 1
    BY <1>3, <1>4, <2>1 DEF Prepared, Answered
  <2>2. CASE q \in DOMAIN requests
    <3>1. Prepared(q) /\ (Untouched => Answered(q)) /\ q \in Nat
      BY <1>1, <2>2 DEF JournalInv
    <3>2. \A p \in 1..(q - 1) : p \in DOMAIN requests
      BY <1>1, <2>2
    <3>3. Prepared(q)'
      BY <1>2, <1>4, <2>2, <3>1 DEF Prepared
    <3>4. Untouched => Answered(q)'
      BY <1>4, <2>2, <3>1, <3>2, AnsweredStays
    <3> QED
      BY <3>3, <3>4
  <2> QED
    BY <1>6, <2>1, <2>2
<1>13. ASSUME Untouched
       PROVE  Left(journal'.lines, requests')
  <2>1. Left(journal.lines, requests) /\ Ordered(journal.lines, requests)
    BY <1>13 DEF JournalInv, JournalVerifies, Readable, Untouched
  <2>2. Told(journal.lines) \subseteq DOMAIN requests
    BY <2>1, WrittenAreCalls
  <2>3. \A q \in DOMAIN requests' \ DOMAIN requests : requests'[q].step = "waiting"
    BY <1>3, <1>4, <1>6
  <2>4. Left(journal.lines, requests')
    BY <1>4, <1>5, <2>1, <2>2, <2>3, LeftStays
  <2> QED
    BY <1>2, <2>4
<1>14. JournalVerifies' /\ (Untouched' <=> Untouched)
  BY <1>2 DEF JournalInv, JournalVerifies, Untouched, counters
<1> QED
  BY <1>8, <1>9, <1>11, <1>12, <1>13, <1>14 DEF JournalInv

(* Whatever was under way is lost, whether the host or the power failed.   *)
LEMMA LostFacts ==
  ASSUME JournalInv, RequestsLost
  PROVE  /\ requests' \in Seq(Request) /\ Len(requests') = Len(requests)
         /\ DOMAIN requests' = DOMAIN requests
         /\ \A q \in DOMAIN requests :
              /\ requests'[q].kind = requests[q].kind
              /\ requests'[q].step =
                   IF requests[q].step \in Ended THEN requests[q].step ELSE "lost"
              /\ requests[q].step \in Ended => requests'[q] = requests[q]
              /\ requests'[q].step \in Ended
<1>1. /\ requests \in Seq(Request) /\ DOMAIN requests = 1..Len(requests)
      /\ Len(requests) \in Nat /\ \A q \in DOMAIN requests : requests[q] \in Request
  BY Facts
<1>2. requests' = [q \in DOMAIN requests |->
                     IF requests[q].step \in Ended THEN requests[q]
                     ELSE [requests[q] EXCEPT !.step = "lost", !.records = <<>>]]
  BY DEF RequestsLost
<1>3. ASSUME NEW q \in DOMAIN requests
      PROVE  /\ requests'[q] \in Request
             /\ requests'[q].kind = requests[q].kind
             /\ requests'[q].step =
                  IF requests[q].step \in Ended THEN requests[q].step ELSE "lost"
             /\ requests[q].step \in Ended => requests'[q] = requests[q]
             /\ requests'[q].step \in Ended
  <2>1. requests[q] \in Request /\ <<>> \in Seq(Records) /\ "lost" \in Steps \cap Ended
    BY <1>1 DEF Steps, Ended
  <2>2. CASE requests[q].step \in Ended
    BY <1>2, <2>1, <2>2
  <2>3. CASE requests[q].step \notin Ended
    <3>1. requests'[q] = [requests[q] EXCEPT !.step = "lost", !.records = <<>>]
      BY <1>2, <2>3
    <3> QED
      BY <2>1, <2>3, <3>1 DEF Request
  <2> QED
    BY <2>2, <2>3
<1>4. requests' \in [1..Len(requests) -> Request]
  BY <1>1, <1>2, <1>3
<1>5. requests' \in Seq(Request) /\ Len(requests') = Len(requests)
      /\ DOMAIN requests' = DOMAIN requests
  BY <1>1, <1>4
<1> QED
  BY <1>3, <1>5

LEMMA LostKeeps ==
  ASSUME JournalInv, RequestsLost, journal' \in {journal, durable}, temp' \in Files,
         UNCHANGED <<durable, damages>>, stops' \in 0..MaxStops,
         powerFailures' \in 0..MaxPowerFailures,
         Untouched' => Untouched /\ journal' = journal
  PROVE  JournalInv'
<1>1. /\ requests' \in Seq(Request) /\ Len(requests') = Len(requests)
      /\ DOMAIN requests' = DOMAIN requests
      /\ \A q \in DOMAIN requests :
           /\ requests'[q].kind = requests[q].kind
           /\ requests'[q].step =
                IF requests[q].step \in Ended THEN requests[q].step ELSE "lost"
           /\ requests[q].step \in Ended => requests'[q] = requests[q]
           /\ requests'[q].step \in Ended
  BY LostFacts
<1>2. /\ requests \in Seq(Request) /\ InOrder(requests)
      /\ journal \in Files /\ durable \in Files
      /\ DOMAIN requests = 1..Len(requests) /\ Len(requests) \in Nat
  BY Facts
<1>3. LocalJournalTypeOK'
  BY <1>1, <1>2 DEF JournalInv, LocalJournalTypeOK, Request
<1>4. JournalVerifies'
  BY DEF JournalInv, JournalVerifies
<1>5. ASSUME NEW q \in DOMAIN requests', NEW p \in 1..(q - 1)
      PROVE  p \in DOMAIN requests /\ requests'[p].step \in Ended
  <2>1. p \in DOMAIN requests
    BY <1>1, <1>2
  <2> QED
    BY <1>1, <2>1
<1>6. InOrder(requests')
  BY <1>5 DEF InOrder
<1>7. \A q \in DOMAIN requests : Written(q, requests) => Written(q, requests')
  BY <1>1 DEF Written, Ended
<1>8. Readable(journal', requests') /\ Readable(durable', requests')
  BY <1>7, OrderedStays DEF JournalInv, Readable
<1>9. ASSUME NEW q \in DOMAIN requests'
      PROVE  Prepared(q)'
  BY <1>1 DEF Prepared, Ended
<1>10. ASSUME Untouched', NEW q \in DOMAIN requests'
       PROVE  Answered(q)'
  <2>1. CASE requests[q].step = "done"
    <3>1. Answered(q) /\ q \in Nat /\ requests'[q] = requests[q]
      BY <1>1, <1>2, <1>10, <2>1 DEF JournalInv, Ended
    <3>2. ASSUME NEW p \in 1..(q - 1)
          PROVE  requests'[p] = requests[p]
      <4>1. requests[p].step \in Ended
        BY <1>1, <1>2, <1>10, <2>1 DEF InOrder
      <4> QED
        BY <1>1, <1>5, <1>10, <4>1
    <3> QED
      BY <3>1, <3>2, AnsweredStays
  <2>2. CASE requests[q].step # "done"
    BY <1>1, <1>10, <2>2 DEF Answered, Ended
  <2> QED
    BY <2>1, <2>2
<1>11. ASSUME Untouched'
       PROVE  Left(journal'.lines, requests')
  <2>1. Left(journal.lines, requests) /\ Ordered(journal.lines, requests)
    BY <1>11 DEF JournalInv, JournalVerifies, Readable, Untouched
  <2>2. Told(journal.lines) \subseteq DOMAIN requests
    BY <2>1, WrittenAreCalls
  <2>3. \A q \in DOMAIN requests :
          /\ requests[q].kind = "append" /\ requests'[q].step \in {"applied", "done"}
               => requests[q].step \in {"applied", "done"}
          /\ requests[q].kind = "clear" /\ requests'[q].step \in {"applied", "done"}
               => requests[q].step \in {"applied", "done"}
          /\ requests[q].kind = "clear" /\ requests[q].step \in {"applied", "done", "lost"}
               => requests'[q].step \in {"applied", "done", "lost"}
    BY <1>1 DEF Ended
  <2>4. DOMAIN requests \subseteq DOMAIN requests'
        /\ \A q \in DOMAIN requests' \ DOMAIN requests : requests'[q].step = "waiting"
    BY <1>1
  <2>5. Left(journal.lines, requests')
    BY <1>1, <2>1, <2>2, <2>3, <2>4, LeftStays
  <2> QED
    BY <1>11, <2>5
<1> QED
  BY <1>3, <1>4, <1>6, <1>8, <1>9, <1>10, <1>11 DEF JournalInv

LEMMA PersistKeeps ==
  ASSUME JournalInv, Persist
  PROVE  JournalInv'
<1>1. durable' = journal /\ UNCHANGED <<requests, journal, temp, counters>>
  BY DEF Persist, JournalInv, Readable
<1>2. LocalJournalTypeOK' /\ JournalVerifies'
  BY <1>1 DEF JournalInv, LocalJournalTypeOK, JournalVerifies, counters
<1>3. /\ InOrder(requests') /\ Readable(journal', requests') /\ Readable(durable', requests')
      /\ (Untouched' <=> Untouched)
  BY <1>1 DEF JournalInv, counters, Untouched
<1>4. \A r \in DOMAIN requests' : Prepared(r)' /\ (Untouched => Answered(r)')
  BY <1>1 DEF JournalInv, Prepared, Answered, Stored, Storable, Appends, MayBeCleared,
     MustBeCleared
<1>5. Untouched => Left(journal'.lines, requests')
  BY <1>1 DEF JournalInv
<1> QED
  BY <1>2, <1>3, <1>4, <1>5 DEF JournalInv

LEMMA DamageKeeps ==
  ASSUME JournalInv, Damage
  PROVE  /\ JournalInv'
         /\ Verifies(journal') =>
              \E m \in 0..Len(journal.lines) : journal'.lines = SubSeq(journal.lines, 1, m)
<1>1. PICK file \in {TornFile} \cup {File(l, FALSE, TRUE) : l \in DamagedLines(journal.lines)} :
        journal' = file /\ durable' = file
  BY DEF Damage
<1>2. /\ damages < MaxDamages /\ damages' = damages + 1 /\ Verifies(journal)
      /\ UNCHANGED <<requests, temp, stops, powerFailures>>
      /\ \A r \in DOMAIN requests : requests[r].step \in Ended \cup {"waiting"}
  BY DEF Damage
<1>3. journal.lines \in Seq(Records) /\ damages \in Nat
  BY Facts DEF JournalInv, LocalJournalTypeOK
<1>4. /\ file \in Files /\ file.synced
      /\ Verifies(file) => \E m \in 0..Len(journal.lines) : file.lines = SubSeq(journal.lines, 1, m)
  <2>1. CASE file = TornFile
    BY <2>1, TornIsBroken
  <2>2. CASE \E l \in DamagedLines(journal.lines) : file = File(l, FALSE, TRUE)
    <3>1. PICK l \in DamagedLines(journal.lines) : file = File(l, FALSE, TRUE)
      BY <2>2
    <3>2. /\ l \in Seq(Records)
          /\ Verifies(File(l, FALSE, TRUE)) =>
               \E m \in 0..Len(journal.lines) : l = SubSeq(journal.lines, 1, m)
      BY <1>2, <1>3, DamageIsFound
    <3>3. file \in Files /\ file.synced /\ file.lines = l
      BY <3>1, <3>2 DEF File, Files
    <3> QED
      BY <3>1, <3>2, <3>3
  <2> QED
    BY <2>1, <2>2
<1>5. Ordered(journal.lines, requests)
  BY <1>2 DEF JournalInv, Readable
<1>6. ASSUME Verifies(file)
      PROVE  Ordered(file.lines, requests)
  <2>1. PICK m \in 0..Len(journal.lines) : file.lines = SubSeq(journal.lines, 1, m)
    BY <1>4, <1>6
  <2>2. Ordered(SubSeq(journal.lines, 1, m), requests)
    BY <1>3, <1>5, PrefixOrdered
  <2> QED
    BY <2>1, <2>2
<1>7. Readable(journal', requests') /\ Readable(durable', requests') /\ InOrder(requests')
  BY <1>1, <1>2, <1>4, <1>6 DEF Readable, JournalInv
<1>8. damages' # 0 /\ damages' \in 0..MaxDamages
  BY <1>2, <1>3, JournalAssumption
<1>9. LocalJournalTypeOK'
  BY <1>1, <1>2, <1>4, <1>8 DEF JournalInv, LocalJournalTypeOK
<1>10. JournalVerifies' /\ ~Untouched'
  BY <1>8 DEF JournalVerifies, Untouched
<1>11. \A r \in DOMAIN requests' : Prepared(r)'
  BY <1>2 DEF Prepared, Ended
<1>12. JournalInv'
  BY <1>7, <1>9, <1>10, <1>11 DEF JournalInv
<1> QED
  BY <1>1, <1>4, <1>12

LEMMA Initially ==
  ASSUME Init
  PROVE  JournalInv
<1>1. /\ requests = <<>> /\ journal = NoFile /\ temp = NoFile /\ durable = NoFile
      /\ stops = 0 /\ powerFailures = 0 /\ damages = 0
  BY DEF Init
<1>2. requests \in Seq(Request) /\ Len(requests) = 0 /\ DOMAIN requests = {}
  BY <1>1
<1>3. LocalJournalTypeOK /\ JournalVerifies
  BY <1>1, <1>2, NoFileIsWhole, JournalAssumption
     DEF LocalJournalTypeOK, JournalVerifies, Request
<1>4. Readable(journal, requests) /\ Readable(durable, requests)
  BY <1>1, NoFileIsWhole, NoneIsOrdered DEF Readable
<1> QED
  BY <1>2, <1>3, <1>4 DEF JournalInv, InOrder, Left

LEMMA StepKeeps ==
  ASSUME JournalInv, [Next]_vars
  PROVE  JournalInv'
<1>1. CASE UNCHANGED vars
  <2>1. UNCHANGED <<requests, journal, temp, durable, counters>>
    BY <1>1 DEF vars, files
  <2>2. \A r \in DOMAIN requests' : Prepared(r)' /\ (Untouched => Answered(r)')
    BY <2>1 DEF JournalInv, Prepared, Answered, Stored, Storable, Appends, MayBeCleared,
       MustBeCleared
  <2>3. LocalJournalTypeOK' /\ JournalVerifies' /\ (Untouched' <=> Untouched)
    BY <2>1 DEF JournalInv, LocalJournalTypeOK, JournalVerifies, counters, Untouched
  <2> QED
    BY <2>1, <2>2, <2>3 DEF JournalInv
<1>2. CASE HostStops
  <2>1. /\ RequestsLost /\ journal' = journal /\ UNCHANGED <<durable, powerFailures, damages>>
        /\ stops' = stops + 1 /\ stops < MaxStops /\ temp' \in {temp, TornFile}
    BY <1>2 DEF HostStops
  <2>2. stops' \in 0..MaxStops
    BY <2>1, JournalAssumption DEF JournalInv, LocalJournalTypeOK
  <2>3. temp' \in Files /\ powerFailures' \in 0..MaxPowerFailures
    BY <2>1, TornIsBroken DEF JournalInv, LocalJournalTypeOK
  <2>4. Untouched' <=> Untouched
    BY <2>1 DEF Untouched
  <2> QED
    BY <2>1, <2>2, <2>3, <2>4, LostKeeps
<1>3. CASE PowerFails
  <2>1. /\ RequestsLost /\ journal' = durable /\ UNCHANGED <<durable, damages>>
        /\ stops' = stops + 1 /\ stops < MaxStops /\ temp' = NoFile
        /\ powerFailures' = powerFailures + 1 /\ powerFailures < MaxPowerFailures
    BY <1>3 DEF PowerFails
  <2>2. /\ stops' \in 0..MaxStops
        /\ powerFailures' \in 0..MaxPowerFailures /\ powerFailures' # 0
    BY <2>1, JournalAssumption DEF JournalInv, LocalJournalTypeOK
  <2>3. ~Untouched'
    BY <2>2 DEF Untouched
  <2> QED
    BY <2>1, <2>2, <2>3, NoFileIsWhole, LostKeeps
<1> QED
  BY <1>1, <1>2, <1>3, EnqueueKeeps, RequestStepKeeps, PersistKeeps, DamageKeeps DEF Next

LEMMA InvariantHolds == Spec => []JournalInv
<1>1. Init => JournalInv
  BY Initially
<1>2. JournalInv /\ [Next]_vars => JournalInv'
  BY StepKeeps
<1> QED
  BY <1>1, <1>2, PTL DEF Spec

-----------------------------------------------------------------------------
(* Requests and files keep their types, whatever fails or is damaged.      *)
THEOREM JournalTypeCorrect == Spec => []LocalJournalTypeOK
<1>1. JournalInv => LocalJournalTypeOK
  BY DEF JournalInv
<1> QED
  BY <1>1, InvariantHolds, PTL

(* As long as the medium is not damaged, the journal verifies, and so does *)
(* what a power failure would leave of it.                                 *)
THEOREM JournalCorrect == Spec => []JournalVerifies
<1>1. JournalInv => JournalVerifies
  BY DEF JournalInv
<1> QED
  BY <1>1, InvariantHolds, PTL

(* A replay answers what the calls before it left, in their order.         *)
THEOREM ReplayCorrect == Spec => []ReplayInCallOrder
<1>1. ASSUME JournalInv, NEW r \in DOMAIN requests, requests[r].kind = "replay",
             requests[r].step = "done", damages = 0, powerFailures = 0,
             NEW answer, answer = EventsOf(requests[r].records),
             NEW told, told = {answer[k] : k \in DOMAIN answer}
      PROVE  /\ Stored(r) \subseteq told /\ told \subseteq Storable(r)
             /\ \A i, j \in DOMAIN answer : i < j => answer[i] < answer[j]
  <2> DEFINE records == requests[r].records
  <2>1. /\ Stored(r) \subseteq Told(records) /\ Told(records) \subseteq Storable(r)
        /\ \A i, j \in 1..Len(records) : i < j => records[i].event < records[j].event
    BY <1>1 DEF JournalInv, Untouched, Answered
  <2>2. DOMAIN answer = 1..Len(records) /\ \A k \in DOMAIN answer : answer[k] = records[k].event
    BY <1>1 DEF EventsOf
  <2> HIDE DEF records
  <2>3. told = Told(records)
    BY <1>1, <2>2 DEF Told
  <2> QED
    BY <2>1, <2>2, <2>3
<1>2. JournalInv => ReplayInCallOrder
  BY <1>1 DEF ReplayInCallOrder
<1> QED
  BY <1>2, InvariantHolds, PTL

-----------------------------------------------------------------------------
(* The journal implements the event log.                                   *)

LEMMA EventsType ==
  ASSUME NEW lines \in Seq(Records)
  PROVE  /\ EventsOf(lines) \in Seq(RequestIds) /\ Len(EventsOf(lines)) = Len(lines)
         /\ \A k \in 1..Len(lines) : EventsOf(lines)[k] = lines[k].event
         /\ EventsOf(lines) # Unreadable
<1>1. \A k \in 1..Len(lines) : lines[k].event \in RequestIds
  <2>1. \A k \in 1..Len(lines) : lines[k] \in Records
    OBVIOUS
  <2> QED
    BY <2>1 DEF Records
<1>2. EventsOf(lines) \in [1..Len(lines) -> RequestIds] /\ Len(lines) \in Nat
  BY <1>1 DEF EventsOf
<1>3. EventsOf(lines) \in Seq(RequestIds) /\ Len(EventsOf(lines)) = Len(lines)
  BY <1>2
<1>4. \A k \in 1..Len(lines) : EventsOf(lines)[k] = lines[k].event
  BY DEF EventsOf
<1>5. EventsOf(lines) = <<0>> => FALSE
  <2> HAVE EventsOf(lines) = <<0>>
  <2>1. EventsOf(lines)[1] = 0 /\ 1 \in 1..Len(lines)
    BY <1>3
  <2>2. 0 \in RequestIds
    BY <1>1, <1>4, <2>1
  <2> QED
    BY <2>2 DEF RequestIds
<1> QED
  BY <1>3, <1>4, <1>5 DEF Unreadable

LEMMA EventsOfAppend ==
  ASSUME NEW lines \in Seq(Records), NEW event \in RequestIds, Len(lines) + 1 \in RequestIds
  PROVE  EventsOf(Append(lines, NextRecord(lines, event))) = Append(EventsOf(lines), event)
<1> DEFINE record == NextRecord(lines, event)
           longer == Append(lines, record)
<1>1. record \in Records /\ record.event = event
  BY NextRecordType DEF NextRecord
<1> HIDE DEF record
<1>2. /\ longer \in Seq(Records) /\ Len(longer) = Len(lines) + 1
      /\ longer[Len(lines) + 1] = record
      /\ \A k \in 1..Len(lines) : longer[k] = lines[k]
  BY <1>1
<1> HIDE DEF longer
<1>3. /\ EventsOf(lines) \in Seq(RequestIds) /\ Len(EventsOf(lines)) = Len(lines)
      /\ \A k \in 1..Len(lines) : EventsOf(lines)[k] = lines[k].event
  BY EventsType
<1>4. /\ EventsOf(longer) \in Seq(RequestIds) /\ Len(EventsOf(longer)) = Len(lines) + 1
      /\ \A k \in 1..(Len(lines) + 1) : EventsOf(longer)[k] = longer[k].event
  BY <1>2, EventsType
<1>5. /\ Append(EventsOf(lines), event) \in Seq(RequestIds)
      /\ Len(Append(EventsOf(lines), event)) = Len(lines) + 1
      /\ \A k \in 1..Len(lines) : Append(EventsOf(lines), event)[k] = lines[k].event
      /\ Append(EventsOf(lines), event)[Len(lines) + 1] = event
  BY <1>3
<1>6. ASSUME NEW k \in 1..(Len(lines) + 1)
      PROVE  EventsOf(longer)[k] = Append(EventsOf(lines), event)[k]
  <2>1. CASE k = Len(lines) + 1
    BY <1>1, <1>2, <1>4, <1>5, <2>1
  <2>2. CASE k \in 1..Len(lines)
    BY <1>2, <1>4, <1>5, <2>2
  <2>3. k = Len(lines) + 1 \/ k \in 1..Len(lines)
    OBVIOUS
  <2> QED
    BY <2>1, <2>2, <2>3
<1>7. EventsOf(longer) = Append(EventsOf(lines), event)
  BY <1>4, <1>5, <1>6, SeqEqual
<1> QED
  BY <1>7 DEF longer, record

LEMMA EventsOfPrefix ==
  ASSUME NEW lines \in Seq(Records), NEW m \in 0..Len(lines)
  PROVE  EventsOf(SubSeq(lines, 1, m)) = SubSeq(EventsOf(lines), 1, m)
<1> DEFINE prefix == SubSeq(lines, 1, m)
<1>1. /\ prefix \in Seq(Records) /\ Len(prefix) = m /\ m \in Nat
      /\ \A k \in 1..m : prefix[k] = lines[k] /\ k \in 1..Len(lines)
  OBVIOUS
<1> HIDE DEF prefix
<1>2. /\ EventsOf(lines) \in Seq(RequestIds) /\ Len(EventsOf(lines)) = Len(lines)
      /\ \A k \in 1..Len(lines) : EventsOf(lines)[k] = lines[k].event
  BY EventsType
<1>3. /\ EventsOf(prefix) \in Seq(RequestIds) /\ Len(EventsOf(prefix)) = m
      /\ \A k \in 1..m : EventsOf(prefix)[k] = prefix[k].event
  BY <1>1, EventsType
<1>4. /\ SubSeq(EventsOf(lines), 1, m) \in Seq(RequestIds)
      /\ Len(SubSeq(EventsOf(lines), 1, m)) = m
      /\ \A k \in 1..m : SubSeq(EventsOf(lines), 1, m)[k] = EventsOf(lines)[k]
  BY <1>2
<1>5. \A k \in 1..m : EventsOf(prefix)[k] = SubSeq(EventsOf(lines), 1, m)[k]
  BY <1>1, <1>2, <1>3, <1>4
<1>6. EventsOf(prefix) = SubSeq(EventsOf(lines), 1, m)
  BY <1>3, <1>4, <1>5, SeqEqual
<1> QED
  BY <1>6 DEF prefix

LEMMA NoFileIsEmptyLog == LogOf(NoFile) = <<>>
<1>1. <<>> \in Seq(Records)
  OBVIOUS
<1>2. EventsOf(<<>>) \in Seq(RequestIds) /\ Len(EventsOf(<<>>)) = 0
  BY <1>1, EventsType
<1>3. EventsOf(<<>>) = <<>>
  BY <1>2
<1> QED
  BY <1>3, NoFileIsWhole DEF LogOf

(* The only steps that change what is read are the rename of an append,    *)
(* the removal of a clear, the writing out, a power failure and damage.    *)
LEMMA RenameRecords ==
  ASSUME JournalInv, NEW r \in DOMAIN requests, Rename(r)
  PROVE  Log!Record(r)
<1>1. /\ r \in RequestIds /\ r \in Nat
      /\ journal.lines \in Seq(Records) /\ temp \in Files
  BY Facts
<1>2. /\ Turn(r) /\ requests[r].step = "renaming" /\ journal' = temp /\ UNCHANGED durable
  BY DEF Rename, At
<1>3. /\ Verifies(journal) /\ ~temp.torn
      /\ temp.lines = Append(journal.lines, NextRecord(journal.lines, r))
  BY <1>2 DEF JournalInv, Prepared
<1>4. Ordered(journal.lines, requests)
  BY <1>3 DEF JournalInv, Readable
<1>5. requests[r].step \notin Ended \cup {"applied"}
  BY <1>2 DEF Ended
<1>6. /\ \A k \in 1..Len(journal.lines) : journal.lines[k].event < r
      /\ Len(journal.lines) + 1 \in RequestIds
  BY <1>1, <1>2, <1>4, <1>5, ComesLast
<1>7. Verifies(temp)
  BY <1>1, <1>3, <1>6, AppendVerifies
<1>8. LogOf(journal) = EventsOf(journal.lines)
  BY <1>3 DEF LogOf
<1>9. LogOf(journal)' = Append(LogOf(journal), r)
  <2>1. EventsOf(temp.lines) = Append(EventsOf(journal.lines), r)
    BY <1>1, <1>3, <1>6, EventsOfAppend
  <2> QED
    BY <1>2, <1>7, <1>8, <2>1 DEF LogOf
<1>10. /\ LogOf(journal) # Unreadable
       /\ \A k \in 1..Len(LogOf(journal)) : LogOf(journal)[k] # r
  <2>1. /\ Len(LogOf(journal)) = Len(journal.lines) /\ LogOf(journal) # Unreadable
        /\ \A k \in 1..Len(journal.lines) : LogOf(journal)[k] = journal.lines[k].event
    BY <1>1, <1>8, EventsType
  <2>2. \A k \in 1..Len(journal.lines) : journal.lines[k].event # r
    BY <1>1, <1>6
  <2> QED
    BY <2>1, <2>2
<1>11. LogOf(durable)' = LogOf(durable)
  BY <1>2
<1> QED
  BY <1>9, <1>10, <1>11 DEF Log!Record

LEMMA DamageIsDamage ==
  ASSUME JournalInv, Damage
  PROVE  Log!Damage
<1>1. journal' = durable' /\ Verifies(journal) /\ journal.lines \in Seq(Records)
  BY Facts DEF Damage
<1>2. Verifies(journal') =>
        \E m \in 0..Len(journal.lines) : journal'.lines = SubSeq(journal.lines, 1, m)
  BY DamageKeeps
<1>3. LogOf(journal) = EventsOf(journal.lines) /\ LogOf(durable)' = LogOf(journal)'
  BY <1>1 DEF LogOf
<1>4. CASE ~Verifies(journal')
  <2>1. LogOf(journal)' = Unreadable
    BY <1>4 DEF LogOf
  <2> QED
    BY <1>3, <2>1 DEF Log!Damage
<1>5. CASE Verifies(journal')
  <2>1. PICK m \in 0..Len(journal.lines) : journal'.lines = SubSeq(journal.lines, 1, m)
    BY <1>2, <1>5
  <2>2. LogOf(journal)' = EventsOf(SubSeq(journal.lines, 1, m))
    BY <1>5, <2>1 DEF LogOf
  <2>3. LogOf(journal)' = SubSeq(LogOf(journal), 1, m)
    BY <1>1, <1>3, <2>2, EventsOfPrefix
  <2>4. LogOf(journal) # Unreadable /\ m \in 0..Len(LogOf(journal))
    BY <1>1, <1>3, EventsType
  <2> QED
    BY <1>3, <2>3, <2>4 DEF Log!Damage
<1> QED
  BY <1>4, <1>5

LEMMA StepImplements ==
  ASSUME JournalInv, [Next]_vars
  PROVE  [Log!Next]_Log!eventLog
<1>1. ASSUME UNCHANGED <<journal, durable>>
      PROVE  UNCHANGED Log!eventLog
  BY <1>1 DEF Log!eventLog
<1>2. CASE UNCHANGED vars
  BY <1>1, <1>2 DEF vars, files
<1>3. ASSUME NEW kind \in Kinds, Enqueue(kind)
      PROVE  UNCHANGED <<journal, durable>>
  BY <1>3 DEF Enqueue, files
<1>4. ASSUME NEW r \in DOMAIN requests, RequestStep(r), ~Rename(r), ~RemoveJournal(r)
      PROVE  UNCHANGED <<journal, durable>>
  BY <1>4 DEF RequestStep, RefusePrivate, ReadRecords, RefuseBroken, WriteTemp, SyncTemp,
     RemoveTemp, Resolve, FileOperationFails, files
<1>5. ASSUME NEW r \in DOMAIN requests, Rename(r)
      PROVE  Log!Next
  <2>1. r \in RequestIds /\ Log!Record(r)
    BY <1>5, Facts, RenameRecords
  <2> QED
    BY <2>1 DEF Log!Next
<1>6. ASSUME NEW r \in DOMAIN requests, RemoveJournal(r)
      PROVE  Log!Next
  <2>1. journal' = NoFile /\ UNCHANGED durable
    BY <1>6 DEF RemoveJournal
  <2>2. LogOf(journal)' = <<>> /\ LogOf(durable)' = LogOf(durable)
    BY <2>1, NoFileIsEmptyLog
  <2> QED
    BY <2>2 DEF Log!Next, Log!Clear
<1>7. CASE HostStops
  BY <1>1, <1>7 DEF HostStops
<1>8. CASE Persist
  <2>1. durable' = journal /\ UNCHANGED journal
    BY <1>8 DEF Persist, JournalInv, Readable
  <2>2. LogOf(durable)' = LogOf(journal) /\ LogOf(journal)' = LogOf(journal)
    BY <2>1
  <2> QED
    BY <2>2 DEF Log!Next, Log!Persist
<1>9. CASE PowerFails
  <2>1. journal' = durable /\ UNCHANGED durable
    BY <1>9 DEF PowerFails
  <2>2. LogOf(journal)' = LogOf(durable) /\ LogOf(durable)' = LogOf(durable)
    BY <2>1
  <2> QED
    BY <2>2 DEF Log!Next, Log!FallBack
<1>10. CASE Damage
  BY <1>10, DamageIsDamage DEF Log!Next
<1>11. CASE \E r \in DOMAIN requests : RequestStep(r)
  BY <1>1, <1>4, <1>5, <1>6, <1>11
<1>12. CASE \E kind \in Kinds : Enqueue(kind)
  BY <1>1, <1>3, <1>12
<1> QED
  BY <1>2, <1>7, <1>8, <1>9, <1>10, <1>11, <1>12 DEF Next

(* Without files, hashes and queues, the journal is the event log: it      *)
(* grows by one new event, is emptied as a whole, falls back to what the   *)
(* disk held, and damage is found or costs the last events.                *)
THEOREM JournalImplementsLog == Spec => ImplementsEventLog
<1>1. Init => Log!Init
  BY NoFileIsEmptyLog DEF Init, Log!Init
<1>2. JournalInv /\ [Next]_vars => [Log!Next]_Log!eventLog
  BY StepImplements
<1> QED
  BY <1>1, <1>2, InvariantHolds, PTL DEF Spec, ImplementsEventLog, Log!Spec
=============================================================================
