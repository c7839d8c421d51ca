---------------------------- MODULE LogFilesProofs ----------------------------
(***************************************************************************)
(* Proofs about LogFiles, for every number of processes, files, records,   *)
(* limits and failures.                                                    *)
(***************************************************************************)
EXTENDS LogFiles, SequenceTheorems, FiniteSetTheorems, TLAPS

(* Below this a file is kept, once what a sink has pending is in it.       *)
Limit == MaxBytes + (IF failures = 0 THEN 0 ELSE BufferBytes)

(* The directory: its files, of which no two have one name.                *)
Named(l) ==
  \A f, g \in Linked(l) : l[f].second = l[g].second /\ l[f].suffix = l[g].suffix => f = g

Directory(l) == l \in Seq(LogFile) /\ Len(l) <= MaxFiles /\ Named(l)

(* A sink owns a file that was created, and nothing is pending unless      *)
(* something failed.                                                       *)
SinkOK(p) ==
  sinks[p] # None =>
    /\ sinks[p].file \in DOMAIN logs
    /\ logs[sinks[p].file].size + sinks[p].pending <= Limit
    /\ failures = 0 => sinks[p].pending = 0

SinksInv == \A p \in Process : SinkOK(p)

FilesOwned ==
  \A p, q \in Process :
    sinks[p] # None /\ sinks[q] # None /\ sinks[p].file = sinks[q].file => p = q

SizesLimited == \A f \in DOMAIN logs : logs[f].size <= Limit

LogInv == TypeOK /\ SinksInv

-----------------------------------------------------------------------------
LEMMA Bounds ==
  /\ MaxBytes \in Nat /\ BufferBytes \in Nat /\ HeaderBytes \in Nat /\ MaxTime \in Nat
  /\ MaxFiles \in Nat /\ MaxFailures \in Nat /\ Attempts \in Nat \ {0}
  /\ HeaderBytes <= MaxBytes
  /\ \A n \in RecordBytes : n \in Nat \ {0} /\ n < BufferBytes /\ HeaderBytes + n <= MaxBytes
  BY LogAssumption

LEMMA LeastOf ==
  ASSUME NEW T \in SUBSET Nat, T # {}
  PROVE  Min(T) \in T /\ \A y \in T : Min(T) <= y
  <1>1. IsWellFoundedOn(OpToRel(<, Nat), Nat)
    BY NatLessThanWellFounded
  <1>2. PICK x \in T : \A y \in T : ~(<<y, x>> \in OpToRel(<, Nat))
    BY <1>1, WFMin
  <1>3. \A y \in T : ~(y < x)
    BY <1>2 DEF OpToRel
  <1>4. x \in T /\ \A y \in T : x <= y
    BY <1>3
  <1> QED
    BY <1>4, Zenon DEF Min

LEMMA SameInterval ==
  ASSUME NEW n \in Nat, NEW m \in Nat, 1..n = 1..m
  PROVE  n = m
  <1>1. n > 0 => n \in 1..n
    OBVIOUS
  <1>2. m > 0 => m \in 1..m
    OBVIOUS
  <1>3. (n > 0 => n <= m) /\ (m > 0 => m <= n)
    BY <1>1, <1>2
  <1> QED
    BY <1>3

LEMMA Fails ==
  ASSUME failures \in 0..MaxFailures, NEW n \in Nat, Fail(n)
  PROVE  /\ failures' \in 0..MaxFailures /\ failures' >= failures
         /\ n > 0 => failures' # 0
         /\ n = 0 => failures' = failures
  BY Bounds DEF Fail

(* More is allowed once something has failed.                              *)
LEMMA LimitIs ==
  ASSUME failures \in 0..MaxFailures, failures' \in 0..MaxFailures, failures' >= failures
  PROVE  /\ Limit \in Nat /\ Limit' \in Nat /\ Limit <= Limit' /\ MaxBytes <= Limit
         /\ failures' # 0 => Limit' = MaxBytes + BufferBytes
         /\ failures = 0 => Limit = MaxBytes
         /\ failures # 0 => Limit = MaxBytes + BufferBytes
  <1>1. Limit = MaxBytes + (IF failures = 0 THEN 0 ELSE BufferBytes)
    BY DEF Limit
  <1>2. Limit' = MaxBytes + (IF failures' = 0 THEN 0 ELSE BufferBytes)
    BY DEF Limit
  <1>3. failures \in Nat /\ failures' \in Nat /\ MaxBytes \in Nat /\ BufferBytes \in Nat
    BY Bounds
  <1> QED
    BY <1>1, <1>2, <1>3

-----------------------------------------------------------------------------
(* The directory.                                                          *)

LEMMA FileOf ==
  ASSUME NEW l \in Seq(LogFile)
  PROVE  /\ Len(l) \in Nat /\ DOMAIN l = 1..Len(l)
         /\ \A f \in DOMAIN l : l[f] \in LogFile /\ l[f].size \in Nat
  <1>1. Len(l) \in Nat /\ DOMAIN l = 1..Len(l)
    BY LenProperties
  <1>2. \A f \in 1..Len(l) : l[f] \in LogFile
    BY ElementOfSeq
  <1>3. \A r \in LogFile : r.size \in Nat
    BY DEF LogFile
  <1> QED
    BY <1>1, <1>2, <1>3

LEMMA UnlinkIs ==
  ASSUME Directory(logs), NEW gone
  PROVE  /\ Directory(Unlink(gone)) /\ DOMAIN Unlink(gone) = DOMAIN logs
         /\ Len(Unlink(gone)) = Len(logs)
         /\ \A f \in DOMAIN logs :
              /\ Unlink(gone)[f].size = logs[f].size
              /\ [Unlink(gone)[f] EXCEPT !.size = 0] = [logs[f] EXCEPT !.size = 0]
                   \/ (logs[f].linked /\ ~Unlink(gone)[f].linked)
  <1> DEFINE l == Unlink(gone)
  <1>1. /\ logs \in Seq(LogFile) /\ Len(logs) <= MaxFiles /\ Len(logs) \in Nat
        /\ DOMAIN logs = 1..Len(logs) /\ \A f \in DOMAIN logs : logs[f] \in LogFile
    BY FileOf DEF Directory
  <1>2. l = [f \in 1..Len(logs) |-> [logs[f] EXCEPT !.linked = logs[f].linked /\ f \notin gone]]
    BY <1>1 DEF Unlink
  <1> HIDE DEF l
  <1>3. \A f \in 1..Len(logs) :
          /\ l[f] = [logs[f] EXCEPT !.linked = logs[f].linked /\ f \notin gone]
          /\ l[f] \in LogFile
    BY <1>1, <1>2 DEF LogFile
  <1>4. l \in [1..Len(logs) -> LogFile]
    BY <1>2, <1>3
  <1>5. l \in Seq(LogFile) /\ Len(l) = Len(logs) /\ DOMAIN l = DOMAIN logs
    <2>1. l \in Seq(LogFile) /\ DOMAIN l = 1..Len(logs)
      BY <1>1, <1>4, SeqDef
    <2>2. Len(l) \in Nat /\ DOMAIN l = 1..Len(l)
      BY <2>1, LenProperties
    <2>3. Len(l) = Len(logs)
      BY <1>1, <2>1, <2>2, SameInterval
    <2> QED
      BY <1>1, <2>1, <2>3
  <1>6. \A f \in DOMAIN logs :
          /\ l[f].second = logs[f].second /\ l[f].suffix = logs[f].suffix
          /\ l[f].size = logs[f].size
          /\ l[f].linked <=> logs[f].linked /\ f \notin gone
    <2> TAKE f \in DOMAIN logs
    <2>1. logs[f] \in LogFile /\ l[f] = [logs[f] EXCEPT !.linked = logs[f].linked /\ f \notin gone]
      BY <1>1, <1>3
    <2> QED
      BY <2>1 DEF LogFile
  <1>7. Linked(l) \subseteq Linked(logs)
    BY <1>5, <1>6 DEF Linked
  <1>8. Named(l)
    BY <1>6, <1>7 DEF Directory, Named, Linked
  <1>9. \A f \in DOMAIN logs :
          [l[f] EXCEPT !.size = 0] = [logs[f] EXCEPT !.size = 0] \/ (logs[f].linked /\ ~l[f].linked)
    <2> TAKE f \in DOMAIN logs
    <2>1. CASE logs[f].linked /\ f \in gone
      BY <1>6, <2>1
    <2>2. CASE ~(logs[f].linked /\ f \in gone)
      <3>1. (logs[f].linked /\ f \notin gone) = logs[f].linked /\ logs[f].linked \in BOOLEAN
        BY <1>1, <2>2 DEF LogFile
      <3>2. l[f] = logs[f]
        BY <1>1, <1>3, <3>1 DEF LogFile
      <3> QED
        BY <3>2
    <2> QED
      BY <2>1, <2>2
  <1> QED
    BY <1>1, <1>5, <1>6, <1>8, <1>9 DEF Directory, l

(* A file that is opened has a name of its own, and a sink of its own.     *)
Opened(l, size, k, sink) ==
  /\ Directory(k) /\ DOMAIN k = DOMAIN l \cup {Len(l) + 1} /\ Len(l) + 1 \notin DOMAIN l
  /\ k[Len(l) + 1].size = size
  /\ \A f \in DOMAIN l : k[f] = l[f]
  /\ sink \in Sink /\ sink.file = Len(l) + 1 /\ sink.pending = 0

LEMMA NewLogIs ==
  ASSUME now \in 0..MaxTime, NEW l, Directory(l), NEW start \in Nat, CanOpen(l, start),
         NEW size \in Nat, NEW valid \in BOOLEAN
  PROVE  Opened(l, size, NewLog(l, start, size, valid), NewSink(l, start))
  <1> DEFINE suffix == Min(FreeSuffixes(l, start))
             new == [second |-> now, suffix |-> suffix, size |-> size, valid |-> valid,
                     linked |-> TRUE]
             k == NewLog(l, start, size, valid)
  <1>1. /\ l \in Seq(LogFile) /\ Len(l) \in Nat /\ DOMAIN l = 1..Len(l) /\ Len(l) < MaxFiles
        /\ MaxFiles \in Nat /\ Attempts \in Nat \ {0} /\ BufferBytes \in Nat
    BY FileOf, Bounds DEF Directory, CanOpen
  <1>2. suffix \in FreeSuffixes(l, start)
    <2>1. FreeSuffixes(l, start) \in SUBSET Nat /\ FreeSuffixes(l, start) # {}
      BY <1>1 DEF FreeSuffixes, CanOpen
    <2> QED
      BY <2>1, LeastOf
  <1>3. suffix \in 0..(Attempts - 1) /\ suffix + 1 \in 1..Attempts
        /\ \A f \in Linked(l) : l[f].second = now => l[f].suffix # suffix
    <2>1. suffix \in start..(Attempts - 1)
          /\ \A f \in Linked(l) : l[f].second = now => l[f].suffix # suffix
      BY <1>2 DEF FreeSuffixes
    <2> HIDE DEF suffix
    <2> QED
      BY <1>1, <2>1
  <1> HIDE DEF suffix
  <1>4. new \in LogFile
    BY <1>3 DEF LogFile
  <1>5. k = Append(l, new)
    BY DEF NewLog, suffix
  <1>6. NewSink(l, start) = [file |-> Len(l) + 1, next |-> suffix + 1, pending |-> 0]
    BY DEF NewSink, suffix
  <1> HIDE DEF k
  <1>7. new.second = now /\ new.suffix = suffix /\ new.size = size
    OBVIOUS
  <1> HIDE DEF new
  <1>8. k \in Seq(LogFile) /\ Len(k) = Len(l) + 1 /\ DOMAIN k = 1..(Len(l) + 1)
        /\ (\A f \in 1..Len(l) : k[f] = l[f]) /\ k[Len(l) + 1] = new
    BY <1>1, <1>4, <1>5, AppendProperties
  <1>9. Len(l) + 1 \in 1..MaxFiles /\ Len(l) + 1 \notin 1..Len(l) /\ Len(l) + 1 <= MaxFiles
        /\ 1..(Len(l) + 1) = (1..Len(l)) \cup {Len(l) + 1}
    BY <1>1
  <1>10. Named(k)
    <2>1. Linked(k) \subseteq Linked(l) \cup {Len(l) + 1}
      BY <1>1, <1>8, <1>9 DEF Linked
    <2>2. \A f \in Linked(l) : k[f] = l[f]
      BY <1>1, <1>8 DEF Linked
    <2>3. ASSUME NEW f \in Linked(l)
          PROVE  ~(k[f].second = new.second /\ k[f].suffix = new.suffix)
      BY <1>3, <1>7, <2>2, <2>3
    <2> QED
      BY <1>8, <2>1, <2>2, <2>3 DEF Directory, Named
  <1>11. NewSink(l, start) \in Sink
    BY <1>1, <1>3, <1>6, <1>9 DEF Sink, File
  <1> QED
    BY <1>1, <1>6, <1>7, <1>8, <1>9, <1>10, <1>11 DEF Directory, Opened, k

(* A file that was written to.                                             *)
Grown(l, f, k) == [l EXCEPT ![f].size = @ + k]

(* Only this file's size has changed.                                      *)
OnlyGrown(l, f, k, m) ==
  /\ Directory(m) /\ DOMAIN m = DOMAIN l
  /\ m[f].size = l[f].size + k
  /\ [m[f] EXCEPT !.size = 0] = [l[f] EXCEPT !.size = 0]
  /\ \A g \in DOMAIN l : g # f => m[g] = l[g]

LEMMA GrownIs ==
  ASSUME NEW l, Directory(l), NEW f \in DOMAIN l, NEW k \in Nat
  PROVE  OnlyGrown(l, f, k, Grown(l, f, k))
  <1> DEFINE new == [l[f] EXCEPT !.size = l[f].size + k]
             m == [l EXCEPT ![f] = new]
  <1>1. /\ l \in Seq(LogFile) /\ Len(l) <= MaxFiles /\ Len(l) \in Nat
        /\ DOMAIN l = 1..Len(l) /\ \A g \in DOMAIN l : l[g] \in LogFile /\ l[g].size \in Nat
    BY FileOf DEF Directory
  <1>2. Grown(l, f, k) = m
    BY DEF Grown
  <1>3. new \in LogFile
    <2>1. l[f].size + k \in Nat /\ l[f] \in LogFile
      BY <1>1
    <2> QED
      BY <2>1 DEF LogFile
  <1>4. /\ new.second = l[f].second /\ new.suffix = l[f].suffix /\ new.size = l[f].size + k
        /\ (new.linked <=> l[f].linked)
        /\ [new EXCEPT !.size = 0] = [l[f] EXCEPT !.size = 0]
    BY <1>1 DEF LogFile
  <1> HIDE DEF new
  <1>5. m \in Seq(LogFile) /\ Len(m) = Len(l) /\ DOMAIN m = DOMAIN l /\ m[f] = new
        /\ \A g \in DOMAIN l : g # f => m[g] = l[g]
    BY <1>1, <1>3, ExceptSeq
  <1> HIDE DEF m
  <1>6. \A g \in DOMAIN l : /\ m[g].second = l[g].second /\ m[g].suffix = l[g].suffix
                            /\ (m[g].linked <=> l[g].linked)
    BY <1>4, <1>5
  <1>7. Named(m)
    BY <1>5, <1>6 DEF Directory, Named, Linked
  <1> QED
    BY <1>1, <1>2, <1>4, <1>5, <1>7 DEF Directory, OnlyGrown

(* A write neither invents nor forgets bytes that it reports as pending.   *)
LEMMA TornIs ==
  ASSUME NEW pending \in 0..BufferBytes, NEW n \in RecordBytes, NEW w \in Torn(pending, n)
  PROVE  /\ w.bytes \in Nat /\ w.pending \in 1..BufferBytes
         /\ w.bytes + w.pending <= pending + n
  <1>1. n \in Nat \ {0} /\ n < BufferBytes /\ BufferBytes \in Nat /\ pending \in Nat
    BY Bounds
  <1>2. CASE pending + n <= BufferBytes
    <2>1. PICK k \in 0..(pending + n - 1) : w = Written(k, pending + n - k)
      BY <1>2 DEF Torn
    <2>2. w.bytes = k /\ w.pending = pending + n - k
      BY <2>1 DEF Written
    <2> QED
      BY <1>1, <1>2, <2>2
  <1>3. CASE ~(pending + n <= BufferBytes)
    <2>1. \/ \E k \in 0..(pending - 1) : w = Written(k, pending - k)
          \/ \E k \in 0..(n - 1) : w = Written(pending + k, n - k)
      BY <1>3 DEF Torn
    <2>2. ASSUME NEW k \in 0..(pending - 1), w = Written(k, pending - k)
          PROVE  /\ w.bytes \in Nat /\ w.pending \in 1..BufferBytes
                 /\ w.bytes + w.pending <= pending + n
      <3>1. w.bytes = k /\ w.pending = pending - k
        BY <2>2 DEF Written
      <3> QED
        BY <1>1, <3>1
    <2>3. ASSUME NEW k \in 0..(n - 1), w = Written(pending + k, n - k)
          PROVE  /\ w.bytes \in Nat /\ w.pending \in 1..BufferBytes
                 /\ w.bytes + w.pending <= pending + n
      <3>1. w.bytes = pending + k /\ w.pending = n - k
        BY <2>3 DEF Written
      <3> QED
        BY <1>1, <3>1
    <2> QED
      BY <2>1, <2>2, <2>3
  <1> QED
    BY <1>2, <1>3

(* What is left of a write by this sink: the file has grown, and the sink  *)
(* has something pending only if that failed.                              *)
Wrote(l, p, sink, k, pending) ==
  /\ logs' = Grown(l, sink.file, k)
  /\ sinks' = [sinks EXCEPT ![p] = [sink EXCEPT !.pending = pending]]
  /\ l[sink.file].size + k + pending <= Limit'
  /\ failures' = 0 => pending = 0

(* A record is written whole, or, if that fails, in part.                  *)
LEMMA WriteIs ==
  ASSUME failures \in 0..MaxFailures, NEW l, Directory(l), NEW p, NEW sink \in Sink,
         sink.file \in DOMAIN l, NEW n \in RecordBytes, l[sink.file].size + n <= MaxBytes,
         failures = 0 => sink.pending = 0, WriteTo(l, p, sink, n)
  PROVE  /\ failures' \in 0..MaxFailures /\ failures' >= failures
         /\ \E k \in Nat, pending \in 0..BufferBytes : Wrote(l, p, sink, k, pending)
  <1>1. PICK w \in {Written(sink.pending + n, 0)} \cup Torn(sink.pending, n) :
          /\ IF w.pending = 0 THEN UNCHANGED failures ELSE Fail(1)
          /\ logs' = [l EXCEPT ![sink.file].size = @ + w.bytes]
          /\ sinks' = [sinks EXCEPT ![p] = [sink EXCEPT !.pending = w.pending]]
    BY DEF WriteTo
  <1> DEFINE old == sink.pending
             size == l[sink.file].size
  <1>2. /\ old \in 0..BufferBytes /\ n \in Nat \ {0} /\ n < BufferBytes /\ BufferBytes \in Nat
        /\ size \in Nat /\ MaxBytes \in Nat /\ size + n <= MaxBytes
    BY Bounds, FileOf DEF Sink, Directory
  <1>3. logs' = Grown(l, sink.file, w.bytes)
    BY <1>1 DEF Grown
  <1>4. failures = 0 => old = 0
    OBVIOUS
  <1> HIDE DEF size, old
  <1>5. /\ w.bytes \in Nat /\ w.pending \in 0..BufferBytes /\ w.bytes + w.pending <= old + n
    <2>1. CASE w = Written(old + n, 0)
      <3>1. w.bytes = old + n /\ w.pending = 0
        BY <2>1 DEF Written
      <3> QED
        BY <1>2, <3>1
    <2>2. CASE w \in Torn(old, n)
      <3>1. w.bytes \in Nat /\ w.pending \in 1..BufferBytes /\ w.bytes + w.pending <= old + n
        BY <1>2, <2>2, TornIs
      <3> QED
        BY <1>2, <3>1
    <2> QED
      BY <1>1, <2>1, <2>2 DEF old
  <1>6. /\ failures' \in 0..MaxFailures /\ failures' >= failures
        /\ w.pending # 0 => failures' # 0
        /\ w.pending = 0 => failures' = failures
    BY <1>1, Fails
  <1>7. size + w.bytes + w.pending <= Limit'
    <2>1. /\ Limit' \in Nat /\ MaxBytes <= Limit'
          /\ failures' # 0 => Limit' = MaxBytes + BufferBytes
      BY <1>6, LimitIs
    <2>2. CASE failures' # 0
      BY <1>2, <1>5, <2>1, <2>2
    <2>3. CASE failures' = 0
      <3>1. old = 0
        BY <1>4, <1>6, <2>3
      <3> QED
        BY <1>2, <1>5, <2>1, <3>1
    <2> QED
      BY <2>2, <2>3
  <1> QED
    BY <1>1, <1>3, <1>5, <1>6, <1>7 DEF size, Wrote

-----------------------------------------------------------------------------
(* The invariant.                                                          *)

LEMMA InvIs ==
  LogInv <=> /\ now \in 0..MaxTime /\ failures \in 0..MaxFailures
             /\ sinks \in [Process -> Sink \cup {None}]
             /\ Directory(logs) /\ FilesOwned /\ SizesLimited /\ SinksInv
  BY DEF LogInv, TypeOK, Directory, Named, FilesOwned, SizesLimited, Limit

LEMMA InvIsNext ==
  ASSUME now' \in 0..MaxTime, failures' \in 0..MaxFailures,
         sinks' \in [Process -> Sink \cup {None}],
         Directory(logs'), FilesOwned', SizesLimited', SinksInv'
  PROVE  LogInv'
  BY DEF LogInv, TypeOK, Directory, Named, FilesOwned, SizesLimited, Limit

(* What the files of the others need.                                      *)
LEMMA Carried ==
  ASSUME LogInv, failures' \in 0..MaxFailures, failures' >= failures,
         NEW q \in Process, sinks'[q] = sinks[q],
         sinks[q] # None => /\ sinks[q].file \in DOMAIN logs'
                            /\ logs'[sinks[q].file].size = logs[sinks[q].file].size
  PROVE  SinkOK(q)'
  <1> SUFFICES ASSUME sinks[q] # None
               PROVE  /\ sinks[q].file \in DOMAIN logs'
                      /\ logs'[sinks[q].file].size + sinks[q].pending <= Limit'
                      /\ failures' = 0 => sinks[q].pending = 0
    BY DEF SinkOK
  <1>1. /\ failures \in 0..MaxFailures /\ sinks[q] \in Sink
        /\ sinks[q].file \in DOMAIN logs /\ logs \in Seq(LogFile)
        /\ logs[sinks[q].file].size + sinks[q].pending <= Limit
        /\ failures = 0 => sinks[q].pending = 0
    BY InvIs DEF SinksInv, SinkOK, Directory
  <1>2. Limit \in Nat /\ Limit' \in Nat /\ Limit <= Limit'
    BY <1>1, LimitIs
  <1>3. sinks[q].pending \in Nat /\ logs[sinks[q].file].size \in Nat
    BY <1>1, Bounds, FileOf DEF Sink
  <1>4. failures' = 0 => failures = 0
    BY <1>1, Bounds
  <1> DEFINE size == logs[sinks[q].file].size
             pending == sinks[q].pending
  <1>5. size + pending <= Limit'
    <2> HIDE DEF size, pending
    <2>1. size \in Nat /\ pending \in Nat /\ size + pending <= Limit
      BY <1>1, <1>3 DEF size, pending
    <2> QED
      BY <1>2, <2>1
  <1> QED
    BY <1>1, <1>4, <1>5

(* Files whose sizes did not change keep to the limit.                     *)
LEMMA StillLimited ==
  ASSUME LogInv, failures' \in 0..MaxFailures, failures' >= failures, NEW f \in DOMAIN logs
  PROVE  logs[f].size <= Limit' /\ logs[f].size \in Nat
  <1>1. /\ failures \in 0..MaxFailures /\ logs[f].size <= Limit /\ logs \in Seq(LogFile)
    BY InvIs DEF SizesLimited, Directory
  <1>2. Limit \in Nat /\ Limit' \in Nat /\ Limit <= Limit'
    BY <1>1, LimitIs
  <1>3. logs[f].size \in Nat
    BY <1>1, FileOf
  <1> QED
    BY <1>1, <1>2, <1>3

LEMMA NothingOpened ==
  ASSUME LogInv, now' \in 0..MaxTime, UNCHANGED sinks, failures' \in 0..MaxFailures,
         failures' >= failures, Directory(logs'), DOMAIN logs \subseteq DOMAIN logs',
         \A f \in DOMAIN logs : logs'[f].size = logs[f].size,
         \A f \in DOMAIN logs' : f \in DOMAIN logs \/ logs'[f].size = 0
  PROVE  LogInv'
  <1>1. sinks' \in [Process -> Sink \cup {None}] /\ FilesOwned' /\ SinksInv
    BY InvIs DEF FilesOwned
  <1>2. SinksInv'
    <2> SUFFICES ASSUME NEW q \in Process PROVE SinkOK(q)'
      BY DEF SinksInv
    <2>1. sinks[q] # None => sinks[q].file \in DOMAIN logs
      BY <1>1 DEF SinksInv, SinkOK
    <2> QED
      BY <2>1, Carried
  <1>3. SizesLimited'
    <2>1. Limit' \in Nat /\ failures \in 0..MaxFailures
      BY InvIs, LimitIs
    <2>2. \A f \in DOMAIN logs : logs[f].size <= Limit'
      BY StillLimited
    <2>3. \A f \in DOMAIN logs' : f \in DOMAIN logs \/ logs'[f].size = 0
      OBVIOUS
    <2>4. 0 <= Limit'
      BY <2>1
    <2> QED
      BY <2>2, <2>3, <2>4 DEF SizesLimited
  <1> QED
    BY <1>1, <1>2, <1>3, InvIsNext

(* A sink gets a file that is no other sink's, or keeps its own, or goes.  *)
LEMMA Owned ==
  ASSUME LogInv, NEW p \in Process, NEW s \in Sink \cup {None},
         sinks' = [sinks EXCEPT ![p] = s],
         s # None => s.file \notin DOMAIN logs \/ (sinks[p] # None /\ s.file = sinks[p].file)
  PROVE  /\ sinks' \in [Process -> Sink \cup {None}] /\ FilesOwned'
         /\ sinks'[p] = s
         /\ \A q \in Process : q # p => sinks'[q] = sinks[q]
  <1>1. sinks \in [Process -> Sink \cup {None}] /\ FilesOwned
        /\ \A q \in Process : sinks[q] # None => sinks[q].file \in DOMAIN logs
    BY InvIs DEF SinksInv, SinkOK
  <1>2. sinks'[p] = s /\ \A q \in Process : q # p => sinks'[q] = sinks[q]
    BY <1>1
  <1>3. sinks' \in [Process -> Sink \cup {None}]
    BY <1>1
  <1>4. FilesOwned'
    BY <1>1, <1>2 DEF FilesOwned
  <1> QED
    BY <1>2, <1>3, <1>4

-----------------------------------------------------------------------------
(* The actions.                                                            *)

LEMMA OpenFailsIs ==
  ASSUME now \in 0..MaxTime, failures \in 0..MaxFailures, NEW l, Directory(l),
         NEW start \in Nat, OpenFails(l, start)
  PROVE  /\ failures' \in 0..MaxFailures /\ failures' >= failures
         /\ Directory(logs') /\ DOMAIN l \subseteq DOMAIN logs'
         /\ \A f \in DOMAIN l : logs'[f] = l[f]
         /\ \A f \in DOMAIN logs' : f \in DOMAIN l \/ logs'[f].size = 0
  <1>1. \/ logs' = l /\ (UNCHANGED failures \/ Fail(1))
        \/ Fail(1) /\ CanOpen(l, start) /\ logs' = NewLog(l, start, 0, FALSE)
    BY DEF OpenFails
  <1>2. failures' \in 0..MaxFailures /\ failures' >= failures
    <2>1. CASE UNCHANGED failures
      BY <2>1, Bounds
    <2>2. CASE Fail(1)
      BY <2>2, Fails
    <2> QED
      BY <1>1, <2>1, <2>2
  <1>3. CASE logs' = l
    BY <1>2, <1>3
  <1>4. CASE CanOpen(l, start) /\ logs' = NewLog(l, start, 0, FALSE)
    <2> DEFINE k == NewLog(l, start, 0, FALSE)
    <2>1. Opened(l, 0, k, NewSink(l, start))
      BY <1>4, NewLogIs
    <2> QED
      BY <1>2, <1>4, <2>1 DEF Opened
  <1> QED
    BY <1>1, <1>3, <1>4

LEMMA StartStep ==
  ASSUME LogInv, NEW p \in Process, Start(p)
  PROVE  LogInv'
  <1>1. PICK skipped \in SUBSET Entries, stuck \in SUBSET Entries,
             stuckAgain \in SUBSET Entries :
          LET l == Unlink(Rotated(skipped, stuck, stuckAgain))
          IN /\ Fail(Cardinality(skipped) + Cardinality(stuck) + Cardinality(stuckAgain))
             /\ CanOpen(l, 0)
             /\ logs' = NewLog(l, 0, HeaderBytes, TRUE)
             /\ sinks' = [sinks EXCEPT ![p] = NewSink(l, 0)]
    BY DEF Start
  <1> DEFINE l == Unlink(Rotated(skipped, stuck, stuckAgain))
  <1>2. UNCHANGED now /\ sinks[p] = None
    BY DEF Start
  <1>3. /\ Directory(logs) /\ now \in 0..MaxTime /\ failures \in 0..MaxFailures
        /\ SinksInv
    BY InvIs
  <1>4. /\ Directory(l) /\ DOMAIN l = DOMAIN logs
        /\ \A f \in DOMAIN logs : l[f].size = logs[f].size
    BY <1>3, UnlinkIs
  <1>5. Cardinality(skipped) + Cardinality(stuck) + Cardinality(stuckAgain) \in Nat
    <2>1. Len(logs) \in Nat /\ DOMAIN logs = 1..Len(logs)
      BY <1>3, FileOf DEF Directory
    <2>2. IsFiniteSet(DOMAIN logs)
      BY <2>1, FS_Interval
    <2>3. Entries \subseteq DOMAIN logs
      BY DEF Entries, Linked
    <2>4. IsFiniteSet(skipped) /\ IsFiniteSet(stuck) /\ IsFiniteSet(stuckAgain)
      BY <2>2, <2>3, FS_Subset
    <2>5. Cardinality(skipped) \in Nat /\ Cardinality(stuck) \in Nat
          /\ Cardinality(stuckAgain) \in Nat
      BY <2>4, FS_CardinalityType
    <2> QED
      BY <2>5
  <1>6. failures' \in 0..MaxFailures /\ failures' >= failures
    BY <1>1, <1>3, <1>5, Fails
  <1> HIDE DEF l
  <1>7. /\ CanOpen(l, 0) /\ logs' = NewLog(l, 0, HeaderBytes, TRUE)
        /\ sinks' = [sinks EXCEPT ![p] = NewSink(l, 0)]
    BY <1>1 DEF l
  <1> DEFINE f == Len(l) + 1
             s == NewSink(l, 0)
  <1>8. /\ Directory(logs') /\ DOMAIN logs' = DOMAIN logs \cup {f} /\ f \notin DOMAIN logs
        /\ logs'[f].size = HeaderBytes
        /\ \A g \in DOMAIN logs : logs'[g].size = logs[g].size
        /\ s \in Sink /\ s.file = f /\ s.pending = 0
    <2>1. HeaderBytes \in Nat
      BY Bounds
    <2>2. Opened(l, HeaderBytes, logs', s)
      BY <1>3, <1>4, <1>7, <2>1, NewLogIs
    <2> QED
      BY <1>4, <2>2 DEF Opened
  <1> HIDE DEF s, f
  <1>9. /\ sinks' \in [Process -> Sink \cup {None}] /\ FilesOwned' /\ sinks'[p] = s
        /\ \A q \in Process : q # p => sinks'[q] = sinks[q]
    BY <1>7, <1>8, Owned DEF s
  <1>10. HeaderBytes <= Limit' /\ Limit' \in Nat /\ HeaderBytes + 0 = HeaderBytes
    BY <1>3, <1>6, LimitIs, Bounds
  <1>11. SizesLimited'
    BY <1>6, <1>8, <1>10, StillLimited DEF SizesLimited
  <1>12. SinksInv'
    <2> SUFFICES ASSUME NEW q \in Process PROVE SinkOK(q)'
      BY DEF SinksInv
    <2>1. CASE q = p
      BY <1>8, <1>9, <1>10, <2>1 DEF SinkOK
    <2>2. CASE q # p
      <3>1. sinks[q] # None => sinks[q].file \in DOMAIN logs
        BY <1>3 DEF SinksInv, SinkOK
      <3> QED
        BY <1>6, <1>8, <1>9, <2>2, <3>1, Carried
    <2> QED
      BY <2>1, <2>2
  <1> QED
    BY <1>2, <1>3, <1>6, <1>8, <1>9, <1>11, <1>12, InvIsNext

LEMMA FailedOpenStep ==
  ASSUME LogInv, NEW p \in Process,
         StartFails(p) \/ (\E n \in RecordBytes : RollOverFails(p, n))
  PROVE  LogInv'
  <1>1. /\ Directory(logs) /\ now \in 0..MaxTime /\ failures \in 0..MaxFailures
        /\ sinks \in [Process -> Sink \cup {None}]
    BY InvIs
  <1>2. UNCHANGED <<now, sinks>>
    BY DEF StartFails, RollOverFails
  <1>3. ASSUME NEW l, NEW start \in Nat, OpenFails(l, start), Directory(l),
               DOMAIN l = DOMAIN logs, \A f \in DOMAIN logs : l[f].size = logs[f].size
        PROVE  LogInv'
    <2>1. /\ failures' \in 0..MaxFailures /\ failures' >= failures
          /\ Directory(logs') /\ DOMAIN l \subseteq DOMAIN logs'
          /\ \A f \in DOMAIN l : logs'[f] = l[f]
          /\ \A f \in DOMAIN logs' : f \in DOMAIN l \/ logs'[f].size = 0
      BY <1>1, <1>3, OpenFailsIs
    <2> QED
      BY <1>1, <1>2, <1>3, <2>1, NothingOpened
  <1>4. CASE StartFails(p)
    <2> DEFINE l == Unlink(Rotated({}, {}, {}))
    <2>1. OpenFails(l, 0)
      BY <1>4 DEF StartFails
    <2>2. /\ Directory(l) /\ DOMAIN l = DOMAIN logs
          /\ \A f \in DOMAIN logs : l[f].size = logs[f].size
      BY <1>1, UnlinkIs
    <2> HIDE DEF l
    <2> QED
      BY <1>3, <2>1, <2>2
  <1>5. CASE \E n \in RecordBytes : RollOverFails(p, n)
    <2>1. OpenFails(logs, sinks[p].next) /\ sinks[p] # None
      BY <1>5 DEF RollOverFails
    <2>2. sinks[p].next \in Nat
      BY <1>1, <2>1 DEF Sink
    <2> QED
      BY <1>1, <1>3, <2>1, <2>2
  <1> QED
    BY <1>4, <1>5

(* A write to a sink's own file, or to the one it has just opened, leaves  *)
(* the other sinks alone.                                                  *)
LEMMA AfterWrite ==
  ASSUME LogInv, NEW p \in Process, NEW l, Directory(l), NEW sink \in Sink, NEW n \in RecordBytes,
         DOMAIN logs \subseteq DOMAIN l, sink.file \in DOMAIN l,
         sink.file \notin DOMAIN logs \/ (sinks[p] # None /\ sink.file = sinks[p].file),
         l[sink.file].size + n <= MaxBytes, failures = 0 => sink.pending = 0,
         \A f \in DOMAIN l : f = sink.file \/ l[f].size <= Limit,
         \A q \in Process : q # p /\ sinks[q] # None =>
           l[sinks[q].file].size = logs[sinks[q].file].size,
         WriteTo(l, p, sink, n), UNCHANGED now
  PROVE  LogInv'
  <1>1. /\ now' \in 0..MaxTime /\ failures \in 0..MaxFailures
        /\ FilesOwned /\ SinksInv
    BY InvIs
  <1>2. /\ failures' \in 0..MaxFailures /\ failures' >= failures
        /\ \E k \in Nat, pending \in 0..BufferBytes : Wrote(l, p, sink, k, pending)
    BY <1>1, WriteIs
  <1>3. PICK k \in Nat, pending \in 0..BufferBytes :
          /\ logs' = Grown(l, sink.file, k)
          /\ sinks' = [sinks EXCEPT ![p] = [sink EXCEPT !.pending = pending]]
          /\ l[sink.file].size + k + pending <= Limit'
          /\ failures' = 0 => pending = 0
    BY <1>2 DEF Wrote
  <1> DEFINE s == [sink EXCEPT !.pending = pending]
  <1>4. s \in Sink /\ s.file = sink.file /\ s.pending = pending
    BY DEF Sink
  <1>5. /\ Directory(logs') /\ DOMAIN logs' = DOMAIN l
        /\ logs'[sink.file].size = l[sink.file].size + k
        /\ \A g \in DOMAIN l : g # sink.file => logs'[g] = l[g]
    <2>1. OnlyGrown(l, sink.file, k, logs')
      BY <1>3, GrownIs
    <2> QED
      BY <2>1 DEF OnlyGrown
  <1> HIDE DEF s
  <1>6. /\ sinks' \in [Process -> Sink \cup {None}] /\ FilesOwned' /\ sinks'[p] = s
        /\ \A q \in Process : q # p => sinks'[q] = sinks[q]
    <2>1. sinks' = [sinks EXCEPT ![p] = s]
      BY <1>3 DEF s
    <2> QED
      BY <1>4, <2>1, Owned
  <1>7. /\ Limit \in Nat /\ Limit' \in Nat /\ Limit <= Limit'
        /\ pending \in Nat /\ l \in Seq(LogFile) /\ l[sink.file].size \in Nat
    BY <1>1, <1>2, LimitIs, Bounds, FileOf DEF Directory
  <1>8. logs'[sink.file].size + pending <= Limit' /\ logs'[sink.file].size <= Limit'
    <2> DEFINE size == l[sink.file].size
    <2>1. size \in Nat /\ size + k + pending <= Limit' /\ logs'[sink.file].size = size + k
      BY <1>3, <1>5, <1>7
    <2> HIDE DEF size
    <2>2. size + k \in Nat /\ (size + k) + pending <= Limit' /\ size + k <= Limit'
      BY <1>7, <2>1
    <2> QED
      BY <2>1, <2>2
  <1>9. SizesLimited'
    <2> SUFFICES ASSUME NEW f \in DOMAIN logs'
                 PROVE  logs'[f].size <= Limit'
      BY DEF SizesLimited
    <2>1. CASE f = sink.file
      BY <1>8, <2>1
    <2>2. CASE f # sink.file
      <3>1. logs'[f] = l[f] /\ l[f].size <= Limit /\ l[f].size \in Nat
        BY <1>5, <1>7, <2>2, FileOf
      <3> QED
        BY <1>7, <3>1
    <2> QED
      BY <2>1, <2>2
  <1>10. SinksInv'
    <2> SUFFICES ASSUME NEW q \in Process PROVE SinkOK(q)'
      BY DEF SinksInv
    <2>1. CASE q = p
      <3>1. sinks'[q].file = sink.file /\ sinks'[q].pending = pending
        BY <1>4, <1>6, <2>1
      <3>2. /\ sinks'[q].file \in DOMAIN logs'
            /\ logs'[sinks'[q].file].size + sinks'[q].pending <= Limit'
            /\ failures' = 0 => sinks'[q].pending = 0
        BY <1>3, <1>5, <1>8, <3>1
      <3> QED
        BY <3>2 DEF SinkOK
    <2>2. CASE q # p
      <3>1. sinks[q] # None => sinks[q].file \in DOMAIN logs /\ sinks[q].file # sink.file
        BY <1>1, <2>2 DEF SinksInv, SinkOK, FilesOwned
      <3> QED
        BY <1>2, <1>5, <1>6, <2>2, <3>1, Carried
    <2> QED
      BY <2>1, <2>2
  <1> QED
    BY <1>1, <1>2, <1>5, <1>6, <1>9, <1>10, InvIsNext

LEMMA NotFull ==
  ASSUME LogInv, NEW p \in Process, sinks[p] # None, NEW n \in RecordBytes
  PROVE  /\ sinks[p] \in Sink /\ sinks[p].file \in DOMAIN logs
         /\ logs[sinks[p].file].size + sinks[p].pending <= Limit
         /\ failures = 0 => sinks[p].pending = 0
         /\ ~Full(p, n) => logs[sinks[p].file].size + n <= MaxBytes
  <1>1. /\ sinks \in [Process -> Sink \cup {None}] /\ SinksInv /\ logs \in Seq(LogFile)
    BY InvIs DEF Directory
  <1>2. sinks[p] \in Sink /\ sinks[p].file \in DOMAIN logs
        /\ logs[sinks[p].file].size + sinks[p].pending <= Limit
        /\ (failures = 0 => sinks[p].pending = 0)
    BY <1>1 DEF SinksInv, SinkOK
  <1>3. logs[sinks[p].file].size \in Nat /\ n \in Nat /\ MaxBytes \in Nat
    BY <1>1, <1>2, FileOf, Bounds
  <1>4. ~Full(p, n) <=> ~(logs[sinks[p].file].size + n > MaxBytes)
    BY DEF Full
  <1> QED
    BY <1>2, <1>3, <1>4

LEMMA RecordStep ==
  ASSUME LogInv, NEW p \in Process, NEW n \in RecordBytes, Record(p, n)
  PROVE  LogInv'
  <1>1. sinks[p] # None /\ ~Full(p, n) /\ WriteTo(logs, p, sinks[p], n) /\ UNCHANGED now
    BY DEF Record
  <1>2. /\ sinks[p] \in Sink /\ sinks[p].file \in DOMAIN logs
        /\ failures = 0 => sinks[p].pending = 0
        /\ logs[sinks[p].file].size + n <= MaxBytes
    BY <1>1, NotFull
  <1>3. Directory(logs) /\ \A f \in DOMAIN logs : logs[f].size <= Limit
    BY InvIs DEF SizesLimited
  <1> QED
    BY <1>1, <1>2, <1>3, AfterWrite

LEMMA RollOverStep ==
  ASSUME LogInv, NEW p \in Process, NEW n \in RecordBytes, RollOver(p, n)
  PROVE  LogInv'
  <1> DEFINE m == NewLog(logs, sinks[p].next, HeaderBytes, TRUE)
             s == NewSink(logs, sinks[p].next)
             old == sinks[p].file
  <1>1. PICK k \in 0..sinks[p].pending : WriteTo([m EXCEPT ![old].size = @ + k], p, s, n)
    BY DEF RollOver
  <1>2. sinks[p] # None /\ CanOpen(logs, sinks[p].next) /\ UNCHANGED now
    BY DEF RollOver
  <1>3. /\ sinks[p] \in Sink /\ old \in DOMAIN logs
        /\ logs[old].size + sinks[p].pending <= Limit
    BY <1>2, NotFull
  <1>4. /\ Directory(logs) /\ (\A f \in DOMAIN logs : logs[f].size <= Limit)
        /\ now \in 0..MaxTime /\ FilesOwned /\ SinksInv /\ failures \in 0..MaxFailures
    BY InvIs DEF SizesLimited
  <1>5. /\ sinks[p].next \in Nat /\ sinks[p].pending \in Nat /\ k \in Nat /\ k <= sinks[p].pending
        /\ HeaderBytes \in Nat /\ Limit \in Nat
    <2>1. sinks[p].next \in Nat /\ sinks[p].pending \in Nat /\ HeaderBytes \in Nat
      BY <1>3, Bounds DEF Sink
    <2>2. Limit \in Nat
      BY Bounds DEF Limit
    <2> QED
      BY <2>1, <2>2
  <1>6. Opened(logs, HeaderBytes, m, s)
    BY <1>2, <1>4, <1>5, NewLogIs
  <1> DEFINE f == Len(logs) + 1
             l == Grown(m, old, k)
  <1> HIDE DEF m, s
  <1>7. /\ Directory(m) /\ DOMAIN m = DOMAIN logs \cup {f} /\ f \notin DOMAIN logs
        /\ m[f].size = HeaderBytes /\ (\A g \in DOMAIN logs : m[g] = logs[g])
        /\ s \in Sink /\ s.file = f /\ s.pending = 0
    BY <1>6 DEF Opened
  <1>8. /\ Directory(l) /\ DOMAIN l = DOMAIN m /\ l[old].size = m[old].size + k
        /\ \A g \in DOMAIN m : g # old => l[g] = m[g]
    <2>1. OnlyGrown(m, old, k, l)
      BY <1>3, <1>5, <1>7, GrownIs
    <2> QED
      BY <2>1 DEF OnlyGrown
  <1>9. WriteTo(l, p, s, n)
    BY <1>1 DEF Grown
  <1> HIDE DEF l, f
  <1>10. l[s.file].size + n <= MaxBytes
    BY <1>3, <1>7, <1>8, Bounds
  <1>11. \A g \in DOMAIN l : g = s.file \/ l[g].size <= Limit
    <2>1. l[old].size <= Limit
      <3>1. logs[old].size \in Nat
        BY <1>3, <1>4, FileOf DEF Directory
      <3>2. l[old].size = logs[old].size + k
        BY <1>3, <1>7, <1>8
      <3> DEFINE size == logs[old].size
                 pending == sinks[p].pending
      <3> HIDE DEF size, pending
      <3>3. size \in Nat /\ pending \in Nat /\ size + pending <= Limit /\ k <= pending
            /\ l[old].size = size + k
        BY <1>3, <1>5, <3>1, <3>2 DEF size, pending
      <3> QED
        BY <1>5, <3>3
    <2> QED
      BY <1>4, <1>7, <1>8, <2>1
  <1>12. \A q \in Process : q # p /\ sinks[q] # None =>
           l[sinks[q].file].size = logs[sinks[q].file].size
    <2> SUFFICES ASSUME NEW q \in Process, q # p, sinks[q] # None
                 PROVE  l[sinks[q].file].size = logs[sinks[q].file].size
      OBVIOUS
    <2>1. sinks[q].file \in DOMAIN logs /\ sinks[q].file # old
      BY <1>2, <1>4 DEF SinksInv, SinkOK, FilesOwned
    <2> QED
      BY <1>7, <1>8, <2>1
  <1>13. DOMAIN logs \subseteq DOMAIN l /\ s.file \in DOMAIN l /\ s.file \notin DOMAIN logs
    BY <1>7, <1>8
  <1> QED
    BY <1>2, <1>7, <1>8, <1>9, <1>10, <1>11, <1>12, <1>13, AfterWrite

LEMMA ExitStep ==
  ASSUME LogInv, NEW p \in Process, Exit(p)
  PROVE  LogInv'
  <1> DEFINE old == sinks[p].file
  <1>1. PICK k \in 0..sinks[p].pending : logs' = Grown(logs, old, k)
    BY DEF Exit, Grown
  <1>2. /\ sinks[p] # None /\ sinks' = [sinks EXCEPT ![p] = None] /\ UNCHANGED <<now, failures>>
    BY DEF Exit
  <1>3. /\ Directory(logs) /\ (\A f \in DOMAIN logs : logs[f].size <= Limit)
        /\ now \in 0..MaxTime /\ FilesOwned /\ SinksInv /\ failures \in 0..MaxFailures
        /\ sinks \in [Process -> Sink \cup {None}]
    BY InvIs DEF SizesLimited
  <1>4. /\ sinks[p] \in Sink /\ old \in DOMAIN logs
        /\ logs[old].size + sinks[p].pending <= Limit
    BY <1>2, <1>3 DEF SinksInv, SinkOK
  <1>5. sinks[p].pending \in Nat /\ k \in Nat /\ k <= sinks[p].pending /\ Limit \in Nat
        /\ logs[old].size \in Nat
    <2>1. sinks[p].pending \in Nat /\ logs[old].size \in Nat
      BY <1>3, <1>4, Bounds, FileOf DEF Sink, Directory
    <2>2. Limit \in Nat
      BY Bounds DEF Limit
    <2> QED
      BY <2>1, <2>2
  <1>6. /\ Directory(logs') /\ DOMAIN logs' = DOMAIN logs
        /\ logs'[old].size = logs[old].size + k
        /\ \A g \in DOMAIN logs : g # old => logs'[g] = logs[g]
    <2>1. OnlyGrown(logs, old, k, logs')
      BY <1>1, <1>3, <1>4, <1>5, GrownIs
    <2> QED
      BY <2>1 DEF OnlyGrown
  <1>7. /\ sinks' \in [Process -> Sink \cup {None}] /\ FilesOwned' /\ sinks'[p] = None
        /\ \A q \in Process : q # p => sinks'[q] = sinks[q]
    <2>1. None \in Sink \cup {None}
      OBVIOUS
    <2> QED
      BY <1>2, <2>1, Owned
  <1>8. failures' \in 0..MaxFailures /\ failures' >= failures /\ Limit' = Limit
    BY <1>2, <1>3, Bounds DEF Limit
  <1>9. SizesLimited'
    <2>1. logs'[old].size <= Limit
      <3> DEFINE size == logs[old].size
                 pending == sinks[p].pending
      <3>1. size \in Nat /\ pending \in Nat /\ size + pending <= Limit /\ k <= pending
            /\ logs'[old].size = size + k
        BY <1>4, <1>5, <1>6
      <3> HIDE DEF size, pending
      <3> QED
        BY <1>5, <3>1
    <2> QED
      BY <1>3, <1>6, <1>8, <2>1 DEF SizesLimited
  <1>10. SinksInv'
    <2> SUFFICES ASSUME NEW q \in Process PROVE SinkOK(q)'
      BY DEF SinksInv
    <2>1. CASE q = p
      BY <1>7, <2>1 DEF SinkOK
    <2>2. CASE q # p
      <3>1. sinks[q] # None => sinks[q].file \in DOMAIN logs /\ sinks[q].file # old
        BY <1>2, <1>3, <2>2 DEF SinksInv, SinkOK, FilesOwned
      <3> QED
        BY <1>6, <1>7, <1>8, <2>2, <3>1, Carried
    <2> QED
      BY <2>1, <2>2
  <1> QED
    BY <1>2, <1>3, <1>6, <1>7, <1>8, <1>9, <1>10, InvIsNext

LEMMA ClockStep ==
  ASSUME LogInv, Tick \/ ClockBack
  PROVE  LogInv'
  <1>1. /\ Directory(logs) /\ now \in 0..MaxTime /\ failures \in 0..MaxFailures
    BY InvIs
  <1>2. UNCHANGED <<logs, sinks>>
    BY DEF Tick, ClockBack
  <1>3. now' \in 0..MaxTime /\ failures' \in 0..MaxFailures /\ failures' >= failures
    <2>1. CASE Tick
      BY <1>1, <2>1, Bounds DEF Tick
    <2>2. CASE ClockBack
      <3>1. failures' \in 0..MaxFailures /\ failures' >= failures
        BY <1>1, <2>2, Fails DEF ClockBack
      <3>2. now' \in 0..MaxTime
        BY <1>1, <2>2, Bounds DEF ClockBack
      <3> QED
        BY <3>1, <3>2
    <2> QED
      BY <2>1, <2>2
  <1> QED
    BY <1>1, <1>2, <1>3, NothingOpened

LEMMA LogInit == Init => LogInv
  <1> SUFFICES ASSUME Init PROVE LogInv
    OBVIOUS
  <1>1. now = 0 /\ logs = <<>> /\ failures = 0 /\ sinks = [p \in Process |-> None]
    BY DEF Init
  <1>2. now \in 0..MaxTime /\ failures \in 0..MaxFailures /\ 0 <= MaxFiles
    BY <1>1, Bounds
  <1>3. <<>> \in Seq(LogFile) /\ Len(<<>>) = 0 /\ DOMAIN <<>> = {}
    BY EmptySeq
  <1>4. Directory(logs) /\ SizesLimited
    BY <1>1, <1>2, <1>3 DEF Directory, Named, Linked, SizesLimited
  <1>5. sinks \in [Process -> Sink \cup {None}] /\ FilesOwned /\ SinksInv
    BY <1>1 DEF FilesOwned, SinksInv, SinkOK
  <1> QED
    BY <1>2, <1>4, <1>5, InvIs

LEMMA LogStep ==
  ASSUME LogInv, [Next]_vars
  PROVE  LogInv'
  <1>1. CASE UNCHANGED vars
    BY <1>1 DEF vars, LogInv, TypeOK, SinksInv, SinkOK, Limit, Linked
  <1> QED
    BY <1>1, StartStep, FailedOpenStep, ExitStep, RecordStep, RollOverStep, ClockStep DEF Next

(* A directory never holds two files of one name, two sinks never append to*)
(* one file, and no file outgrows ACTIVE_LOG_MAX_BYTES, but for what one   *)
(* BufWriter holds when a call has failed: for any number of processes,    *)
(* record lengths, attempts at a name and failed calls.                    *)
THEOREM LogsKeepApart == Spec => []TypeOK
  <1>1. LogInv /\ [Next]_vars => LogInv'
    BY LogStep
  <1>2. LogInv => TypeOK
    BY DEF LogInv
  <1> QED
    BY LogInit, <1>1, <1>2, PTL DEF Spec

-----------------------------------------------------------------------------
(* What happens to a file once it is there.                                *)

(* The files of the one are those of the other, but that some have grown.  *)
OnlyLonger(l, m) ==
  /\ Directory(m) /\ DOMAIN l \subseteq DOMAIN m
  /\ \A f \in DOMAIN l : /\ [m[f] EXCEPT !.size = 0] = [l[f] EXCEPT !.size = 0]
                         /\ m[f].size >= l[f].size

LEMMA GrownLonger ==
  ASSUME NEW l, Directory(l), NEW f \in DOMAIN l, NEW k \in Nat
  PROVE  OnlyLonger(l, Grown(l, f, k))
  <1> DEFINE m == Grown(l, f, k)
  <1>1. OnlyGrown(l, f, k, m)
    BY GrownIs
  <1> HIDE DEF m
  <1>2. \A g \in DOMAIN l : l[g].size \in Nat
    BY FileOf DEF Directory
  <1>3. Directory(m) /\ DOMAIN m = DOMAIN l
    BY <1>1 DEF OnlyGrown
  <1>4. ASSUME NEW g \in DOMAIN l
        PROVE  [m[g] EXCEPT !.size = 0] = [l[g] EXCEPT !.size = 0] /\ m[g].size >= l[g].size
    <2>1. CASE g = f
      <3>1. m[f].size = l[f].size + k /\ [m[f] EXCEPT !.size = 0] = [l[f] EXCEPT !.size = 0]
        BY <1>1 DEF OnlyGrown
      <3> QED
        BY <1>2, <2>1, <3>1
    <2>2. CASE g # f
      <3>1. m[g] = l[g]
        BY <1>1, <2>2 DEF OnlyGrown
      <3> QED
        BY <1>2, <3>1
    <2> QED
      BY <2>1, <2>2
  <1>5. OnlyLonger(l, m)
    BY <1>3, <1>4 DEF OnlyLonger
  <1> QED
    BY <1>5 DEF m

LEMMA LongerTwice ==
  ASSUME NEW l, NEW m, NEW n, Directory(l), OnlyLonger(l, m), OnlyLonger(m, n)
  PROVE  OnlyLonger(l, n)
  <1>1. \A f \in DOMAIN l : l[f].size \in Nat /\ m[f].size \in Nat
    BY FileOf DEF Directory, OnlyLonger
  <1>2. \A f \in DOMAIN n : n[f].size \in Nat
    BY FileOf DEF Directory, OnlyLonger
  <1>3. Directory(n) /\ DOMAIN l \subseteq DOMAIN n
    BY DEF OnlyLonger
  <1>4. ASSUME NEW f \in DOMAIN l
        PROVE  /\ [n[f] EXCEPT !.size = 0] = [l[f] EXCEPT !.size = 0]
               /\ n[f].size >= l[f].size
    <2>1. f \in DOMAIN m /\ f \in DOMAIN n
      BY <1>3 DEF OnlyLonger
    <2>2. /\ [m[f] EXCEPT !.size = 0] = [l[f] EXCEPT !.size = 0]
          /\ m[f].size >= l[f].size
      BY DEF OnlyLonger
    <2>3. /\ [n[f] EXCEPT !.size = 0] = [m[f] EXCEPT !.size = 0]
          /\ n[f].size >= m[f].size
      BY <2>1 DEF OnlyLonger
    <2>4. n[f].size >= l[f].size
      <3> DEFINE x == l[f].size
                 y == m[f].size
                 z == n[f].size
      <3>1. x \in Nat /\ y \in Nat /\ z \in Nat
        BY <1>1, <1>2, <2>1
      <3>2. y >= x /\ z >= y
        BY <2>2, <2>3
      <3> HIDE DEF x, y, z
      <3>3. z >= x
        BY <3>1, <3>2
      <3> QED
        BY <3>3 DEF x, z
    <2>5. [n[f] EXCEPT !.size = 0] = [l[f] EXCEPT !.size = 0]
      <3> DEFINE x == [l[f] EXCEPT !.size = 0]
                 y == [m[f] EXCEPT !.size = 0]
                 z == [n[f] EXCEPT !.size = 0]
      <3>1. y = x /\ z = y
        BY <2>2, <2>3
      <3> HIDE DEF x, y, z
      <3>2. z = x
        BY <3>1
      <3> QED
        BY <3>2 DEF x, z
    <2> QED
      BY <2>4, <2>5
  <1> QED
    BY <1>3, <1>4 DEF OnlyLonger

LEMMA OpenedLonger ==
  ASSUME NEW l, Directory(l), NEW size, NEW k, NEW sink, Opened(l, size, k, sink)
  PROVE  OnlyLonger(l, k)
  <1>1. \A f \in DOMAIN l : l[f].size \in Nat
    BY FileOf DEF Directory
  <1> QED
    BY <1>1 DEF Opened, OnlyLonger

LEMMA LongerKept ==
  ASSUME OnlyLonger(logs, logs')
  PROVE  EarlierFilesKept
  BY DEF OnlyLonger, EarlierFilesKept

(* Unlinking comes first, so that what follows it must only add.           *)
LEMMA UnlinkedKept ==
  ASSUME Directory(logs), NEW gone, OnlyLonger(Unlink(gone), logs')
  PROVE  EarlierFilesKept
  <1> DEFINE l == Unlink(gone)
  <1>1. /\ Directory(l) /\ DOMAIN l = DOMAIN logs
        /\ \A f \in DOMAIN logs :
              /\ l[f].size = logs[f].size
              /\ [l[f] EXCEPT !.size = 0] = [logs[f] EXCEPT !.size = 0]
                   \/ (logs[f].linked /\ ~l[f].linked)
    BY UnlinkIs
  <1>2. /\ Directory(logs') /\ DOMAIN l \subseteq DOMAIN logs'
        /\ \A f \in DOMAIN l : /\ [logs'[f] EXCEPT !.size = 0] = [l[f] EXCEPT !.size = 0]
                               /\ logs'[f].size >= l[f].size
    BY DEF OnlyLonger
  <1> HIDE DEF l
  <1>3. \A r \in LogFile, s \in LogFile :
          [r EXCEPT !.size = 0] = [s EXCEPT !.size = 0] => (r.linked <=> s.linked)
    <2> TAKE r \in LogFile, s \in LogFile
    <2>1. ([r EXCEPT !.size = 0]).linked = r.linked /\ ([s EXCEPT !.size = 0]).linked = s.linked
      BY DEF LogFile
    <2> QED
      BY <2>1
  <1>4. \A f \in DOMAIN logs : l[f] \in LogFile /\ logs'[f] \in LogFile
    BY <1>1, <1>2, FileOf DEF Directory
  <1>5. \A f \in DOMAIN logs : logs'[f].linked <=> l[f].linked
    BY <1>1, <1>2, <1>3, <1>4
  <1> QED
    BY <1>1, <1>2, <1>5 DEF EarlierFilesKept, Removed, Linked

LEMMA OpenFailsLonger ==
  ASSUME now \in 0..MaxTime, NEW l, Directory(l), NEW start \in Nat, OpenFails(l, start)
  PROVE  OnlyLonger(l, logs')
  <1>1. logs' = l \/ (CanOpen(l, start) /\ logs' = NewLog(l, start, 0, FALSE))
    BY DEF OpenFails
  <1>2. CASE logs' = l
    <2>1. \A f \in DOMAIN l : l[f].size \in Nat
      BY FileOf DEF Directory
    <2> QED
      BY <1>2, <2>1 DEF OnlyLonger
  <1>3. CASE CanOpen(l, start) /\ logs' = NewLog(l, start, 0, FALSE)
    <2>1. Opened(l, 0, logs', NewSink(l, start))
      BY <1>3, NewLogIs
    <2> QED
      BY <2>1, OpenedLonger
  <1> QED
    BY <1>1, <1>2, <1>3

LEMMA WriteLonger ==
  ASSUME failures \in 0..MaxFailures, NEW l, Directory(l), NEW p, NEW sink \in Sink,
         sink.file \in DOMAIN l, NEW n \in RecordBytes, l[sink.file].size + n <= MaxBytes,
         failures = 0 => sink.pending = 0, WriteTo(l, p, sink, n)
  PROVE  OnlyLonger(l, logs')
  <1>1. PICK k \in Nat, pending \in 0..BufferBytes : Wrote(l, p, sink, k, pending)
    BY WriteIs
  <1>2. logs' = Grown(l, sink.file, k)
    BY <1>1 DEF Wrote
  <1> QED
    BY <1>2, GrownLonger

LEMMA RollOverLonger ==
  ASSUME LogInv, NEW p \in Process, NEW n \in RecordBytes, RollOver(p, n)
  PROVE  OnlyLonger(logs, logs')
  <1> DEFINE m == NewLog(logs, sinks[p].next, HeaderBytes, TRUE)
             s == NewSink(logs, sinks[p].next)
             old == sinks[p].file
  <1>1. PICK k \in 0..sinks[p].pending : WriteTo([m EXCEPT ![old].size = @ + k], p, s, n)
    BY DEF RollOver
  <1>2. sinks[p] # None /\ CanOpen(logs, sinks[p].next)
    BY DEF RollOver
  <1>3. sinks[p] \in Sink /\ old \in DOMAIN logs
    BY <1>2, NotFull
  <1>4. Directory(logs) /\ now \in 0..MaxTime /\ failures \in 0..MaxFailures
    BY InvIs
  <1>5. sinks[p].next \in Nat /\ k \in Nat /\ HeaderBytes \in Nat
    BY <1>3, Bounds DEF Sink
  <1>6. Opened(logs, HeaderBytes, m, s)
    BY <1>2, <1>4, <1>5, NewLogIs
  <1> DEFINE f == Len(logs) + 1
             l == Grown(m, old, k)
  <1> HIDE DEF m, s
  <1>7. /\ Directory(m) /\ DOMAIN m = DOMAIN logs \cup {f} /\ f \notin DOMAIN logs
        /\ m[f].size = HeaderBytes /\ s \in Sink /\ s.file = f /\ s.pending = 0
    BY <1>6 DEF Opened
  <1>8. OnlyLonger(logs, m)
    BY <1>4, <1>6, OpenedLonger
  <1>9. OnlyGrown(m, old, k, l) /\ OnlyLonger(m, l)
    BY <1>3, <1>5, <1>7, GrownIs, GrownLonger
  <1>10. WriteTo(l, p, s, n)
    BY <1>1 DEF Grown
  <1> HIDE DEF l, f
  <1>11. /\ Directory(l) /\ s.file \in DOMAIN l /\ l[s.file].size = HeaderBytes
    BY <1>3, <1>7, <1>9 DEF OnlyGrown
  <1>12. l[s.file].size + n <= MaxBytes
    BY <1>11, Bounds
  <1>13. OnlyLonger(l, logs')
    BY <1>4, <1>7, <1>10, <1>11, <1>12, WriteLonger
  <1> QED
    BY <1>4, <1>7, <1>8, <1>9, <1>13, LongerTwice

LEMMA EarlierFilesStep ==
  ASSUME LogInv, Next
  PROVE  EarlierFilesKept
  <1>1. /\ Directory(logs) /\ now \in 0..MaxTime /\ failures \in 0..MaxFailures
        /\ sinks \in [Process -> Sink \cup {None}]
    BY InvIs
  <1>2. \A f \in DOMAIN logs : logs[f].size \in Nat
    BY <1>1, FileOf DEF Directory
  <1>3. ASSUME NEW p \in Process, Start(p)
        PROVE  EarlierFilesKept
    <2>1. PICK skipped \in SUBSET Entries, stuck \in SUBSET Entries,
               stuckAgain \in SUBSET Entries :
            LET l == Unlink(Rotated(skipped, stuck, stuckAgain))
            IN CanOpen(l, 0) /\ logs' = NewLog(l, 0, HeaderBytes, TRUE)
      BY <1>3 DEF Start
    <2> DEFINE l == Unlink(Rotated(skipped, stuck, stuckAgain))
    <2>2. Directory(l)
      BY <1>1, UnlinkIs
    <2>3. CanOpen(l, 0) /\ logs' = NewLog(l, 0, HeaderBytes, TRUE)
      BY <2>1
    <2> HIDE DEF l
    <2>4. Opened(l, HeaderBytes, logs', NewSink(l, 0))
      BY <1>1, <2>2, <2>3, Bounds, NewLogIs
    <2>5. OnlyLonger(l, logs')
      BY <2>2, <2>4, OpenedLonger
    <2> QED
      BY <1>1, <2>5, UnlinkedKept DEF l
  <1>4. ASSUME NEW p \in Process, StartFails(p)
        PROVE  EarlierFilesKept
    <2> DEFINE l == Unlink(Rotated({}, {}, {}))
    <2>1. OpenFails(l, 0)
      BY <1>4 DEF StartFails
    <2>2. Directory(l)
      BY <1>1, UnlinkIs
    <2> HIDE DEF l
    <2>3. OnlyLonger(l, logs')
      BY <1>1, <2>1, <2>2, OpenFailsLonger
    <2> QED
      BY <1>1, <2>3, UnlinkedKept DEF l
  <1>5. ASSUME NEW p \in Process, Exit(p)
        PROVE  EarlierFilesKept
    <2>1. PICK k \in 0..sinks[p].pending : logs' = Grown(logs, sinks[p].file, k)
      BY <1>5 DEF Exit, Grown
    <2>2. sinks[p] # None
      BY <1>5 DEF Exit
    <2>3. sinks[p] \in Sink /\ sinks[p].file \in DOMAIN logs
      BY <1>1, <2>2, InvIs DEF SinksInv, SinkOK
    <2>4. k \in Nat
      BY <2>3, Bounds DEF Sink
    <2>5. OnlyLonger(logs, logs')
      BY <1>1, <2>1, <2>3, <2>4, GrownLonger
    <2> QED
      BY <2>5, LongerKept
  <1>6. ASSUME NEW p \in Process, NEW n \in RecordBytes, Record(p, n)
        PROVE  EarlierFilesKept
    <2>1. sinks[p] # None /\ ~Full(p, n) /\ WriteTo(logs, p, sinks[p], n)
      BY <1>6 DEF Record
    <2>2. /\ sinks[p] \in Sink /\ sinks[p].file \in DOMAIN logs
          /\ failures = 0 => sinks[p].pending = 0
          /\ logs[sinks[p].file].size + n <= MaxBytes
      BY <2>1, NotFull
    <2>3. OnlyLonger(logs, logs')
      BY <1>1, <2>1, <2>2, WriteLonger
    <2> QED
      BY <2>3, LongerKept
  <1>7. ASSUME NEW p \in Process, NEW n \in RecordBytes, RollOver(p, n)
        PROVE  EarlierFilesKept
    BY <1>7, RollOverLonger, LongerKept
  <1>8. ASSUME NEW p \in Process, NEW n \in RecordBytes, RollOverFails(p, n)
        PROVE  EarlierFilesKept
    <2>1. sinks[p] # None /\ OpenFails(logs, sinks[p].next)
      BY <1>8 DEF RollOverFails
    <2>2. sinks[p].next \in Nat
      BY <1>1, <2>1 DEF Sink
    <2>3. OnlyLonger(logs, logs')
      BY <1>1, <2>1, <2>2, OpenFailsLonger
    <2> QED
      BY <2>3, LongerKept
  <1>9. CASE Tick \/ ClockBack
    <2>1. logs' = logs
      BY <1>9 DEF Tick, ClockBack
    <2> QED
      BY <1>1, <1>2, <2>1, LongerKept DEF OnlyLonger
  <1> QED
    BY <1>3, <1>4, <1>5, <1>6, <1>7, <1>8, <1>9 DEF Next

(* No step of any client process writes over a log file that was there     *)
(* before or makes it shorter: open_writer creates with create_new under a *)
(* name that is free, and BufWriter appends; and the only thing that can   *)
(* happen to a file otherwise is to be unlinked.                           *)
THEOREM LogsAreKept == Spec => [][EarlierFilesKept]_vars
  <1>1. LogInv /\ [Next]_vars => LogInv'
    BY LogStep
  <1>2. LogInv /\ [Next]_vars => [EarlierFilesKept]_vars
    BY EarlierFilesStep
  <1> QED
    BY LogInit, <1>1, <1>2, PTL DEF Spec

=============================================================================
