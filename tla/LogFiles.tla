------------------------------- MODULE LogFiles -------------------------------
(***************************************************************************)
(* The client's diagnostic log files (logging.rs): a process that starts   *)
(* rotates the directory, opens a file of its own, and appends records to  *)
(* it until it is full, when it opens the next. Processes share nothing    *)
(* but the directory: a running client and wifimic_client --calibrate may  *)
(* be there at once.                                                       *)
(*                                                                         *)
(* A record is its length. A start is one step: what another process would *)
(* log in the middle of it is left out.                                    *)
(***************************************************************************)
EXTENDS Integers, Sequences, FiniteSetsExt, SequencesExt

CONSTANTS
  Process,      (* the client processes                                      *)
  MaxAge,       (* RETENTION_MAX_AGE                                         *)
  MaxBytes,     (* RETENTION_MAX_BYTES and ACTIVE_LOG_MAX_BYTES              *)
  BufferBytes,  (* the capacity of BufWriter                                 *)
  HeaderBytes,  (* the header's length                                       *)
  RecordBytes,  (* lengths of records                                        *)
  Attempts,     (* LOG_FILE_NAME_ATTEMPTS                                    *)
  MaxTime,      (* bound: seconds                                            *)
  MaxFiles,     (* bound: files ever created                                 *)
  MaxFailures,  (* bound: failed calls, and steps of the clock back          *)
  None

(* Below ten, the suffixes of names sort as numbers.                       *)
ASSUME LogAssumption ==
  /\ {MaxAge, MaxBytes, BufferBytes, HeaderBytes, MaxTime, MaxFiles, MaxFailures} \subseteq Nat
  /\ RecordBytes \subseteq 1..(BufferBytes - 1)
  /\ HeaderBytes <= MaxBytes /\ \A n \in RecordBytes : HeaderBytes + n <= MaxBytes
  /\ Attempts \in 1..10

VARIABLES
  now,       (* the wall clock                                               *)
  logs,      (* every file that was created, in that order                   *)
  sinks,     (* the sink of each process that runs                           *)
  failures   (* history: what went wrong                                     *)

vars == <<now, logs, sinks, failures>>

File == 1..MaxFiles

(* linked: it has its name in the directory; valid: it has its header.     *)
LogFile ==
  [second : 0..MaxTime, suffix : 0..(Attempts - 1), size : Nat, valid : BOOLEAN,
   linked : BOOLEAN]

(* pending is what BufWriter could not flush.                              *)
Sink == [file : File, next : 1..Attempts, pending : 0..BufferBytes]

Linked(l) == {f \in DOMAIN l : l[f].linked}

(* The directory holds one file of a name, and a sink keeps its file below *)
(* the limit, but for what it had failed to flush.                         *)
TypeOK ==
  /\ now \in 0..MaxTime
  /\ logs \in Seq(LogFile) /\ Len(logs) <= MaxFiles
  /\ sinks \in [Process -> Sink \cup {None}]
  /\ failures \in 0..MaxFailures
  /\ \A f, g \in Linked(logs) :
       logs[f].second = logs[g].second /\ logs[f].suffix = logs[g].suffix => f = g
  /\ \A p, q \in Process :
       sinks[p] # None /\ sinks[q] # None /\ sinks[p].file = sinks[q].file => p = q
  /\ \A f \in DOMAIN logs :
       logs[f].size <= MaxBytes + (IF failures = 0 THEN 0 ELSE BufferBytes)

Init ==
  /\ now = 0
  /\ logs = <<>>
  /\ sinks = [p \in Process |-> None]
  /\ failures = 0

Fail(n) ==
  /\ failures + n <= MaxFailures
  /\ failures' = failures + n

-----------------------------------------------------------------------------
(* rotate_logs_at                                                          *)

(* What collect_log_entries lists, unless it cannot read it.               *)
Entries == {f \in Linked(logs) : logs[f].valid}

Bytes(files) == MapThenSumSet(LAMBDA f : logs[f].size, files)

(* A file from the future is new.                                          *)
Age(f) == IF now > logs[f].second THEN now - logs[f].second ELSE 0

(* Mutant: the newest file comes first.                                    *)
NewestFirst(f, g) == logs[f].second > logs[g].second

(* By time, and within a second by name, where ".log" comes after "-1.log".*)
Before(f, g) ==
  \/ logs[f].second < logs[g].second
  \/ /\ logs[f].second = logs[g].second
     /\ logs[f].suffix # 0
     /\ logs[g].suffix = 0 \/ logs[f].suffix < logs[g].suffix

Aged(files, stuck) == {f \in files : Age(f) > MaxAge} \ stuck

(* The oldest go until the rest fits; one that cannot be removed is kept,  *)
(* and the next tried.                                                     *)
Oversized(files, stuck) ==
  LET Visit(pass, f) ==
        IF pass.bytes > MaxBytes /\ f \notin stuck
          THEN [bytes |-> pass.bytes - logs[f].size, gone |-> pass.gone \cup {f}]
          ELSE pass
  IN FoldLeft(Visit, [bytes |-> Bytes(files), gone |-> {}], SetToSortSeq(files, Before)).gone

(* What goes when those in skipped cannot be read, and are neither counted *)
(* nor removed, those in stuck cannot be removed for their age, and those  *)
(* in stuckAgain not for their size.                                       *)
Rotated(skipped, stuck, stuckAgain) ==
  LET found == Entries \ skipped
      old   == Aged(found, stuck)
  IN  old \cup Oversized(found \ old, stuckAgain)

Unlink(gone) ==
  [f \in DOMAIN logs |-> [logs[f] EXCEPT !.linked = @ /\ f \notin gone]]

-----------------------------------------------------------------------------
(* open_writer                                                             *)

FreeSuffixes(l, start) ==
  {s \in start..(Attempts - 1) :
     \A f \in Linked(l) : l[f].second = now => l[f].suffix # s}

NewLog(l, start, size, valid) ==
  Append(l, [second |-> now, suffix |-> Min(FreeSuffixes(l, start)), size |-> size,
             valid |-> valid, linked |-> TRUE])

CanOpen(l, start) == FreeSuffixes(l, start) # {} /\ Len(l) < MaxFiles

NewSink(l, start) ==
  [file |-> Len(l) + 1, next |-> Min(FreeSuffixes(l, start)) + 1, pending |-> 0]

(* No name is left; or the file cannot be created; or its header cannot be *)
(* written, nor, perhaps, the file be removed again.                       *)
OpenFails(l, start) ==
  \/ FreeSuffixes(l, start) = {} /\ logs' = l /\ UNCHANGED failures
  \/ Fail(1) /\ logs' = l
  \/ Fail(1) /\ CanOpen(l, start) /\ logs' = NewLog(l, start, 0, FALSE)

-----------------------------------------------------------------------------
(* initialize_diagnostics. A process whose log cannot be opened ends.      *)
Start(p) ==
  /\ sinks[p] = None
  /\ \E skipped \in SUBSET Entries, stuck \in SUBSET Entries, stuckAgain \in SUBSET Entries :
       LET l == Unlink(Rotated(skipped, stuck, stuckAgain))
       IN /\ Fail(Cardinality(skipped) + Cardinality(stuck) + Cardinality(stuckAgain))
          /\ CanOpen(l, 0)
          /\ logs' = NewLog(l, 0, HeaderBytes, TRUE)
          /\ sinks' = [sinks EXCEPT ![p] = NewSink(l, 0)]
  /\ UNCHANGED now

(* One whose rotation met a failure too is left out.                       *)
StartFails(p) ==
  /\ sinks[p] = None
  /\ OpenFails(Unlink(Rotated({}, {}, {})), 0)
  /\ UNCHANGED <<now, sinks>>

(* DiagnosticLogSink::record                                               *)

(* Mutant: the record's own length is forgotten.                           *)
FullAlready(p, n) == logs[sinks[p].file].size > MaxBytes

Full(p, n) == logs[sinks[p].file].size + n > MaxBytes

Written(bytes, pending) == [bytes |-> bytes, pending |-> pending]

(* What a write that fails may leave: some of the writer's buffer and of   *)
(* the record went to the file, and the rest, or the buffer without the    *)
(* record, stays behind.                                                   *)
Torn(pending, n) ==
  IF pending + n <= BufferBytes
  THEN {Written(k, pending + n - k) : k \in 0..(pending + n - 1)}
  ELSE {Written(k, pending - k) : k \in 0..(pending - 1)}
       \cup {Written(pending + k, n - k) : k \in 0..(n - 1)}

(* The writer's buffer and the record go to the file.                      *)
WriteTo(l, p, sink, n) ==
  \E w \in {Written(sink.pending + n, 0)} \cup Torn(sink.pending, n) :
    /\ IF w.pending = 0 THEN UNCHANGED failures ELSE Fail(1)
    /\ logs' = [l EXCEPT ![sink.file].size = @ + w.bytes]
    /\ sinks' = [sinks EXCEPT ![p] = [sink EXCEPT !.pending = w.pending]]

Record(p, n) ==
  /\ sinks[p] # None
  /\ ~Full(p, n)
  /\ WriteTo(logs, p, sinks[p], n)
  /\ UNCHANGED now

(* The old writer is dropped, which flushes what it can.                   *)
RollOver(p, n) ==
  /\ sinks[p] # None
  /\ Full(p, n)
  /\ CanOpen(logs, sinks[p].next)
  /\ \E k \in 0..sinks[p].pending :
       LET l == NewLog(logs, sinks[p].next, HeaderBytes, TRUE) IN
       WriteTo([l EXCEPT ![sinks[p].file].size = @ + k], p, NewSink(logs, sinks[p].next), n)
  /\ UNCHANGED now

(* The record is dropped, and the full file stays the sink's.              *)
RollOverFails(p, n) ==
  /\ sinks[p] # None
  /\ Full(p, n)
  /\ OpenFails(logs, sinks[p].next)
  /\ UNCHANGED <<now, sinks>>

(* The process ends, with a flush or by force.                             *)
Exit(p) ==
  /\ sinks[p] # None
  /\ \E k \in 0..sinks[p].pending : logs' = [logs EXCEPT ![sinks[p].file].size = @ + k]
  /\ sinks' = [sinks EXCEPT ![p] = None]
  /\ UNCHANGED <<now, failures>>

-----------------------------------------------------------------------------
(* External: the wall clock.                                               *)
Tick ==
  /\ now < MaxTime
  /\ now' = now + 1
  /\ UNCHANGED <<logs, sinks, failures>>

ClockBack ==
  /\ now > 0
  /\ Fail(1)
  /\ now' = now - 1
  /\ UNCHANGED <<logs, sinks>>

Next ==
  \/ \E p \in Process : Start(p) \/ StartFails(p) \/ Exit(p)
  \/ \E p \in Process, n \in RecordBytes : Record(p, n) \/ RollOver(p, n) \/ RollOverFails(p, n)
  \/ Tick
  \/ ClockBack

Spec == Init /\ [][Next]_vars

-----------------------------------------------------------------------------
(* Properties.                                                             *)

Removed == {f \in Linked(logs) : ~logs'[f].linked}

Starts == \E p \in Process : sinks[p] = None /\ sinks'[p] # None

(* Whatever happens, a log never shrinks, and no file that was there before*)
(* is written over.                                                        *)
EarlierFilesKept ==
  \A f \in DOMAIN logs :
    /\ [logs'[f] EXCEPT !.size = 0] = [logs[f] EXCEPT !.size = 0] \/ f \in Removed
    /\ logs'[f].size >= logs[f].size

(* Rotation keeps what it may: a log goes only when a client starts, and   *)
(* only for its age or because the logs that are left, with it, are too    *)
(* many; an older one does not outlive it, unless it could not be read or  *)
(* removed. And rotation removes what it must: a start that fails at       *)
(* nothing leaves the earlier logs within both limits.                     *)
RotationKeepsPolicy ==
  [][/\ EarlierFilesKept
     /\ Removed # {} => \E p \in Process : Start(p) \/ StartFails(p)
     /\ \A f \in Removed :
          /\ logs[f].valid
          /\ \/ Age(f) > MaxAge
             \/ Bytes({g \in Entries : logs'[g].linked \/ logs[g].second >= logs[f].second}) > MaxBytes
          /\ failures' = failures =>
               \A g \in Entries : logs[g].second < logs[f].second => g \in Removed
     /\ Starts /\ failures' = failures =>
          LET kept == Entries \ Removed IN
          Bytes(kept) <= MaxBytes /\ \A f \in kept : Age(f) <= MaxAge
    ]_vars

=============================================================================
