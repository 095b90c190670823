---------------------------- MODULE FileDisk_proofs ----------------------------
(***************************************************************************)
(* Proofs about FileDisk, for every number of sectors, windows and writes: *)
(* the windows never hold anything but what the file holds, and therefore  *)
(* the file with its windows implements the plain disk BlockDisk.          *)
(***************************************************************************)
EXTENDS FileDisk, TLAPS

\* The sizes and the values they bound.
LEMMA Sizes ==
  /\ NbSectors \in Nat /\ MaxStamp \in Nat /\ CacheWindows \in Nat /\ CacheWindows > 0
  /\ 0 \in Stamp /\ Nil \notin Stamp
BY BlockCallsAssumption, FileDiskAssumption DEF Stamp, Nil

\* The window after another is a window (read_cache_next's wrap).
LEMMA AfterIsWindow == ASSUME NEW w \in Window PROVE After(w) \in Window
BY Sizes DEF After, Window

\* An answer of a hook is well formed if the data is.
LEMMA AnswerTyped ==
  ASSUME TypeOK, NEW rc \in {0, -1}, NEW data \in [Sector -> Stamp \cup {Nil}],
         Answer(rc, data)
  PROVE  call' \in Call /\ reply' \in Reply /\ media' = media /\ stamp' = stamp
<1>1. call.op \in Ops \cup {"none"}
  BY DEF TypeOK, Call
<1>2. reply' \in Reply
  BY <1>1 DEF Answer, Reply
<1>3. call' \in Call
  BY Sizes DEF Answer, NoCall, Call, Ops
<1> QED
  BY <1>2, <1>3 DEF Answer

\* The data of an answer without data.
LEMMA NoDataTyped == NoData \in [Sector -> Stamp \cup {Nil}]
BY DEF NoData

\* The sectors of a call, as any contents has them, are well formed data.
LEMMA DeliveredTyped ==
  ASSUME NEW contents \in [Sector -> Stamp \cup {Nil}]
  PROVE  Delivered(contents) \in [Sector -> Stamp \cup {Nil}]
BY DEF Delivered

\* Stamps only grow: the image is never ahead of the file, nor the file of the
\* latest write, which is the one in progress if there is one.
MediaBehind ==
  /\ \A s \in Sector : media[s] <= file[s] /\ file[s] <= stamp
  /\ call.op = "write" => call.stamp = stamp

Inv == TypeOK /\ WindowsHoldFile /\ MediaBehind

\* The inductive invariant holds when the image has been opened.
LEMMA InvInit == Init => Inv
<1> SUFFICES ASSUME Init PROVE Inv
  OBVIOUS
<1>1. NoCall \in Call /\ NoReply \in Reply
  BY Sizes, NoDataTyped DEF NoCall, Call, NoReply, Reply
<1>2. TypeOK
  BY <1>1, Sizes, NoDataTyped DEF Init, TypeOK, NoWindows, Window
<1>3. WindowsHoldFile
  BY DEF Init, WindowsHoldFile, NoWindows, NoData
<1>4. MediaBehind
  BY DEF Init, MediaBehind, NoCall
<1> QED
  BY <1>2, <1>3, <1>4 DEF Inv

\* Every step keeps the first two parts; each case is one hook path.
LEMMA WindowsNext == Inv /\ [Next]_vars => TypeOK' /\ WindowsHoldFile'
<1> SUFFICES ASSUME Inv, [Next]_vars PROVE TypeOK' /\ WindowsHoldFile'
  OBVIOUS
<1> USE DEF Inv
<1>1. CASE Begin
  <2>1. call' \in Call /\ reply' \in Reply
    BY <1>1, NoDataTyped DEF Begin, NoReply, Reply
  <2>2. stamp' \in Stamp
    BY <1>1, Sizes DEF Begin, Call, Stamp, TypeOK
  <2> QED
    BY <1>1, <2>1, <2>2 DEF Begin, TypeOK, WindowsHoldFile
<1>2. CASE Refuse
  BY <1>2, AnswerTyped, NoDataTyped DEF Refuse, TypeOK, WindowsHoldFile
<1>3. CASE ReadHit
  <2>1. PICK w \in Window : Answer(0, Delivered(read_cache[w]))
    BY <1>3 DEF ReadHit
  <2>2. Delivered(read_cache[w]) \in [Sector -> Stamp \cup {Nil}]
    BY DeliveredTyped DEF TypeOK
  <2> QED
    BY <1>3, <2>1, <2>2, AnswerTyped DEF ReadHit, TypeOK, WindowsHoldFile
<1>4. CASE ReadFill
  <2>1. Delivered(file) \in [Sector -> Stamp \cup {Nil}]
    BY DeliveredTyped DEF TypeOK
  <2>2. call' \in Call /\ reply' \in Reply /\ media' = media /\ stamp' = stamp
    BY <1>4, <2>1, AnswerTyped DEF ReadFill
  <2>3. read_cache_next' \in Window
    BY <1>4, AfterIsWindow DEF ReadFill, TypeOK
  <2>4. read_cache' \in [Window -> [Sector -> Stamp \cup {Nil}]]
    BY <1>4 DEF ReadFill, TypeOK
  <2>5. WindowsHoldFile'
    BY <1>4 DEF ReadFill, TypeOK, WindowsHoldFile
  <2> QED
    BY <1>4, <2>2, <2>3, <2>4, <2>5 DEF ReadFill, TypeOK
<1>5. CASE ReadDirect
  <2>1. Delivered(file) \in [Sector -> Stamp \cup {Nil}]
    BY DeliveredTyped DEF TypeOK
  <2>2. call' \in Call /\ reply' \in Reply /\ media' = media /\ stamp' = stamp
    BY <1>5, <2>1, AnswerTyped, NoDataTyped DEF ReadDirect
  <2>3. read_cache' \in [Window -> [Sector -> Stamp \cup {Nil}]]
    BY <1>5, NoDataTyped DEF ReadDirect, TypeOK
  <2>4. WindowsHoldFile'
    BY <1>5 DEF ReadDirect, TypeOK, WindowsHoldFile, NoData
  <2> QED
    BY <1>5, <2>2, <2>3, <2>4 DEF ReadDirect, TypeOK
<1>6. CASE Write
  <2>1. PICK rc \in {0, -1}, done \in SUBSET Span(call) :
          /\ file' = [s \in Sector |-> IF s \in done THEN call.stamp ELSE file[s]]
          /\ Answer(rc, NoData) /\ read_cache' = NoWindows
    BY <1>6 DEF Write, Invalidate
  <2>2. call' \in Call /\ reply' \in Reply /\ media' = media /\ stamp' = stamp
    BY <2>1, AnswerTyped, NoDataTyped
  <2>3. file' \in [Sector -> Stamp]
    BY <2>1 DEF TypeOK, Call
  <2>4. read_cache' \in [Window -> [Sector -> Stamp \cup {Nil}]]
    BY <2>1, NoDataTyped DEF NoWindows
  <2>5. WindowsHoldFile'
    BY <2>1 DEF WindowsHoldFile, NoWindows, NoData
  <2> QED
    BY <1>6, <2>2, <2>3, <2>4, <2>5 DEF Write, TypeOK
<1>7. CASE StdioWrites
  BY <1>7 DEF StdioWrites, TypeOK, WindowsHoldFile
<1>8. CASE Flush
  <2>1. call' \in Call /\ reply' \in Reply /\ media' = media /\ stamp' = stamp
    BY <1>8, AnswerTyped, NoDataTyped DEF Flush
  <2> QED
    BY <1>8, <2>1 DEF Flush, TypeOK, WindowsHoldFile
<1>9. CASE UNCHANGED vars
  BY <1>9 DEF vars, TypeOK, WindowsHoldFile
<1> QED
  BY <1>1, <1>2, <1>3, <1>4, <1>5, <1>6, <1>7, <1>8, <1>9 DEF Next

\* Every step keeps the order of image, file and latest write.
LEMMA BehindNext == Inv /\ [Next]_vars => MediaBehind'
<1> SUFFICES ASSUME Inv, [Next]_vars PROVE MediaBehind'
  OBVIOUS
<1> USE DEF Inv
<1>0. \A s \in Sector : media[s] \in Int /\ file[s] \in Int
  BY Sizes DEF TypeOK, Stamp
<1>1. stamp \in Int /\ call.stamp \in Int
  BY Sizes DEF TypeOK, Stamp, Call
<1>2. CASE Begin
  <2>1. stamp' >= stamp /\ (call'.op = "write" => call'.stamp = stamp')
    BY <1>1, <1>2 DEF Begin
  <2>2. file' = file /\ media' = media /\ stamp' \in Int
    BY <1>1, <1>2 DEF Begin
  <2> QED
    BY <1>0, <1>1, <2>1, <2>2 DEF MediaBehind
<1>3. ASSUME NEW rc, NEW data, Answer(rc, data), file' = file PROVE MediaBehind'
  BY <1>3 DEF Answer, MediaBehind, NoCall
<1>4. CASE Refuse \/ ReadHit \/ ReadFill \/ ReadDirect \/ Flush
  BY <1>3, <1>4 DEF Refuse, ReadHit, ReadFill, ReadDirect, Flush
<1>5. CASE Write
  <2>1. PICK rc \in {0, -1}, done \in SUBSET Span(call) :
          /\ file' = [s \in Sector |-> IF s \in done THEN call.stamp ELSE file[s]]
          /\ Answer(rc, NoData)
    BY <1>5 DEF Write
  <2>2. call.stamp = stamp
    BY <1>5 DEF Write, MediaBehind
  <2>3. media' = media /\ stamp' = stamp /\ call'.op # "write"
    BY <2>1 DEF Answer, NoCall
  <2>4. \A s \in Sector : media[s] <= file'[s] /\ file'[s] <= stamp
    BY <1>0, <1>1, <2>1, <2>2 DEF MediaBehind
  <2> QED
    BY <2>3, <2>4 DEF MediaBehind
<1>6. CASE StdioWrites
  BY <1>0, <1>6 DEF StdioWrites, MediaBehind, TypeOK
<1>7. CASE UNCHANGED vars
  BY <1>7 DEF vars, MediaBehind
<1> QED
  BY <1>2, <1>4, <1>5, <1>6, <1>7 DEF Next

\* The invariant is kept by every step of a disk call.
LEMMA InvNext == Inv /\ [Next]_vars => Inv'
BY WindowsNext, BehindNext DEF Inv

\* The invariant holds throughout.
LEMMA Invariance == Spec => []Inv
BY InvInit, InvNext, PTL DEF Spec

\* The counters and contents of the file backend stay in their ranges.
THEOREM FileTypeCorrect == Spec => []TypeOK
BY Invariance, PTL DEF Inv

\* No window ever holds a sector the file no longer holds, for every number and size
\* of windows (NSPIRE_READ_CACHE_WINDOWS and _SECTORS differ from build to build).
THEOREM WindowsAreCurrent == Spec => []WindowsHoldFile
BY Invariance, PTL DEF Inv

(***************************************************************************)
(* Refinement of BlockDisk                                                 *)
(***************************************************************************)
\* The plain disk speaks of calls and answers in the same terms.
LEMMA SameTerms ==
  /\ Disk!Sector = Sector /\ Disk!Stamp = Stamp /\ Disk!Nil = Nil
  /\ Disk!Call = Call /\ Disk!NoCall = NoCall /\ Disk!Span(call) = Span(call)
  /\ Disk!NoData = NoData /\ Disk!NoReply = NoReply
<1>1. Disk!Sector = Sector /\ Disk!Stamp = Stamp /\ Disk!Nil = Nil /\ Disk!Ops = Ops
  BY DEF Disk!Sector, Sector, Disk!Stamp, Stamp, Disk!Nil, Nil, Disk!Ops, Ops
<1>2. Disk!Call = Call
  BY <1>1 DEF Disk!Call, Call
<1>3. Disk!NoData = NoData
  BY <1>1 DEF Disk!NoData, NoData
<1>4. Disk!NoReply = NoReply
  BY <1>3 DEF Disk!NoReply, NoReply
<1>5. Disk!Span(call) = Span(call) /\ Disk!NoCall = NoCall
  BY DEF Disk!Span, Span, Disk!NoCall, NoCall
<1> QED
  BY <1>1, <1>2, <1>3, <1>4, <1>5

\* Opening the image is the initial state of the plain disk.
LEMMA DiskInit == Init => Disk!Init
BY SameTerms DEF Init, Disk!Init

\* What a covering window delivers is what the file delivers.
LEMMA HitDeliversFile ==
  ASSUME WindowsHoldFile, NEW w \in Window, Covers(w)
  PROVE  Delivered(read_cache[w]) = Delivered(file)
<1>1. \A s \in Sector : s \in Span(call) => read_cache[w][s] = file[s]
  BY DEF Covers, WindowsHoldFile
<1> QED
  BY <1>1 DEF Delivered

\* A range that passed the check lies in the disk.
LEMMA InRangeSpan == ASSUME TypeOK, InRange PROVE Span(call) \subseteq Sector
BY Sizes DEF TypeOK, Call, InRange, Span, Sector

\* A successful read is a read of the abstract disk.
LEMMA ReadIsDiskRead ==
  ASSUME TypeOK, InRange, call.op = "read", Answer(0, Delivered(file)), file' = file
  PROVE  Disk!ReadOK
BY SameTerms, InRangeSpan DEF Answer, Delivered, Disk!ReadOK, Disk!Answer

\* A hook that fails without touching the file is a failed call of the plain disk.
LEMMA FailureIsDiskFail ==
  ASSUME TypeOK, call.op # "none", Answer(-1, NoData), file' = file
  PROVE  Disk!Fail
<1>1. file' \in [Sector -> Stamp]
  BY DEF TypeOK
<1> QED
  BY <1>1, SameTerms DEF Answer, Disk!Fail, Disk!Answer

\* Every step is a step of the plain disk, or leaves what it shows alone.
LEMMA DiskNext == Inv /\ [Next]_vars => [Disk!Next]_(Disk!vars)
<1> SUFFICES ASSUME Inv, [Next]_vars PROVE [Disk!Next]_(Disk!vars)
  OBVIOUS
<1> USE DEF Inv
<1>1. CASE Begin
  <2>1. Disk!Begin
    BY <1>1, SameTerms DEF Begin, Disk!Begin
  <2> QED
    BY <2>1 DEF Disk!Next
<1>2. CASE Refuse
  <2>1. Disk!Fail
    BY <1>2, FailureIsDiskFail DEF Refuse
  <2> QED
    BY <2>1 DEF Disk!Next
<1>3. CASE ReadHit
  <2>1. PICK w \in Window : Covers(w) /\ Answer(0, Delivered(read_cache[w]))
    BY <1>3 DEF ReadHit
  <2>2. Answer(0, Delivered(file))
    BY <2>1, HitDeliversFile
  <2>3. Disk!ReadOK
    BY <1>3, <2>2, ReadIsDiskRead DEF ReadHit
  <2> QED
    BY <2>3 DEF Disk!Next
<1>4. CASE ReadFill
  <2>1. Disk!ReadOK
    BY <1>4, ReadIsDiskRead DEF ReadFill, Missed
  <2> QED
    BY <2>1 DEF Disk!Next
<1>5. CASE ReadDirect
  <2>1. Disk!ReadOK \/ Disk!Fail
    BY <1>5, ReadIsDiskRead, FailureIsDiskFail DEF ReadDirect, Missed
  <2> QED
    BY <2>1 DEF Disk!Next
<1>6. CASE Write
  <2>1. PICK rc \in {0, -1}, done \in SUBSET Span(call) :
          /\ rc = 0 => done = Span(call)
          /\ file' = [s \in Sector |-> IF s \in done THEN call.stamp ELSE file[s]]
          /\ Answer(rc, NoData)
    BY <1>6 DEF Write
  <2>2. file' \in [Sector -> Stamp]
    BY <2>1 DEF TypeOK, Call
  <2>3. CASE rc = 0
    <3>1. Disk!WriteOK
      BY <1>6, <2>1, <2>3, SameTerms, InRangeSpan DEF Write, Answer, Disk!WriteOK, Disk!Answer
    <3> QED
      BY <3>1 DEF Disk!Next
  <2>4. CASE rc = -1
    <3>1. \A s \in Sector :
            \/ file'[s] = file[s]
            \/ call.op = "write" /\ s \in Span(call) /\ file'[s] = call.stamp
      <4>1. call.op = "write"
        BY <1>6 DEF Write
      <4>2. \A s \in done : s \in Span(call)
        BY <2>1
      <4>3. \A s \in Sector : file'[s] = IF s \in done THEN call.stamp ELSE file[s]
        BY <2>1
      <4> QED
        BY <4>1, <4>2, <4>3
    <3>2. Disk!Fail
      BY <1>6, <2>1, <2>2, <2>4, <3>1, SameTerms DEF Write, Answer, Disk!Fail, Disk!Answer
    <3> QED
      BY <3>2 DEF Disk!Next
  <2> QED
    BY <2>3, <2>4
<1>7. CASE StdioWrites
  <2>1. PICK s \in Sector : media' = [media EXCEPT ![s] = file[s]]
    BY <1>7 DEF StdioWrites
  <2>2. media' \in [Sector -> Stamp]
    BY <2>1 DEF TypeOK
  <2>3. \A t \in Sector : media'[t] \in {media[t]} \cup media[t] .. file[t]
    <3>1. \A t \in Sector : media[t] \in Int /\ file[t] \in Int /\ media[t] <= file[t]
      BY Sizes DEF TypeOK, Stamp, MediaBehind
    <3> QED
      BY <2>1, <3>1 DEF TypeOK
  <2> QED
    BY <1>7, <2>2, <2>3, SameTerms DEF StdioWrites, Disk!Commit, Disk!Next
<1>8. CASE Flush
  <2>1. Disk!FlushOK \/ Disk!Fail
    BY <1>8, SameTerms, FailureIsDiskFail DEF Flush, Answer, Disk!FlushOK, Disk!Answer
  <2> QED
    BY <2>1 DEF Disk!Next
<1>9. CASE UNCHANGED vars
  BY <1>9 DEF vars, Disk!vars
<1> QED
  BY <1>1, <1>2, <1>3, <1>4, <1>5, <1>6, <1>7, <1>8, <1>9 DEF Next

\* The file backend implements the plain disk: reads deliver the latest writes,
\* failed writes leave each sector old or new, a successful flush has written all.
THEOREM FileImplementsDisk == Spec => RefinesBlockDisk
BY DiskInit, DiskNext, Invariance, PTL DEF Spec, RefinesBlockDisk, Disk!Spec
================================================================================
