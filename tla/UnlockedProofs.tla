---------------------------- MODULE UnlockedProofs ----------------------------
(***************************************************************************)
(* Proofs about what runs with no lock held: parallel.Each and             *)
(* audit_unplayable, which runs its files through it, and the podcast      *)
(* tools.                                                                  *)
(***************************************************************************)
EXTENDS AudioSweep, Podcasts, FiniteSetTheorems, TLAPS

(***************************************************************************)
(* The inductive invariant behind them.                                    *)
(***************************************************************************)
(* The jobs started are those before next, and while the context lives all *)
(* are started before the wait.                                            *)
StartedInv ==
  /\ next <= size + 1
  /\ \A i \in Jobs : job[i] = "new" <=> i >= next
  /\ cause = None => (at = "check" => next <= size) /\ (at \in {"wait", "out"} => next = size + 1)

(* The once is taken by who keeps the first error, and over when the       *)
(* context has ended.                                                      *)
FirstInv ==
  /\ once = "new" <=> first = None
  /\ once = "new" => \A i \in Jobs : job[i] # "cancelling"
  /\ once = "done" => cause # None

(* Every holder has a slot, and so has the job about to start.             *)
Promised == IF at = "check" /\ cause = None THEN 1 ELSE 0

SlotInv == Cardinality(Holders) + Promised <= slots

EachInv == TypeOK /\ StartedInv /\ FirstInv /\ SlotInv /\ NoneOutlives

(***************************************************************************)
(* The inductive invariant behind AnswersByTheFiles.                       *)
(***************************************************************************)
(* The audit is to fail: a job of the batch failed, or its context ended.  *)
BatchDoomed ==
  \/ cause # None \/ first # None
  \/ \E i \in Jobs : job[i] \in {"failing", "cancelling"}

Doomed ==
  \/ stage \in {"failing", "failed"}
  \/ stage \in {"probing", "playing"} /\ BatchDoomed

ProxyLost == proxy \in {"dead", "stopped"}

StageInv ==
  /\ stage \notin {"probing", "playing"} => at = "out"
  /\ stage = "playing" => Decode
  /\ Decode /\ stage \notin {"closing"} \cup Ended => proxy # "shut"
  /\ stage \in {"closing"} \cup Ended => proxy # "dead" /\ proxy # "up"
  /\ stage = "answered" => proxy = "shut"
  /\ stage = "listing" => chunk = 0
  /\ stage \in {"probing", "playing"} => chunk > 0
  /\ stage \in {"closing", "answered"} => chunk = LastChunk

(* What was read of a file is so, unless the audit is to fail.             *)
GotInv ==
  \A f \in Files :
    /\ got[f] = "locked"  => truth[f] = "locked"
    /\ got[f] = "read"    => truth[f] \in {"sound", "damaged"}
    /\ got[f] = "clean"   => truth[f] = "sound"
    /\ got[f] = "damaged" => truth[f] = "damaged" \/ ProxyLost
    /\ got[f] = "error"   => truth[f] = "gone" \/ Doomed

(* So is what a decode has met, before it says it.                         *)
DecodeSo(i) ==
  LET f == File(i) IN
  /\ ff[i] = "noted"        => note[i] # "none"
  /\ note[i] # "none"       => ff[i] \in {"noted", "played", "complained", "died"}
  /\ note[i] = "gone"       => truth[f] = "gone"
  /\ note[i] = "none" => /\ ff[i] = "played"     => truth[f] = "sound"
                         /\ ff[i] = "complained" => truth[f] = "damaged"
                         /\ ff[i] = "died" => truth[f] = "damaged" \/ cause # None \/ ProxyLost

DecodeInv ==
  stage = "playing" =>
    \A i \in Jobs :
      IF job[i] = "running" THEN DecodeSo(i) ELSE ff[i] = "none" /\ note[i] = "none"

(* The batch has the files it should, and each has been read once its job  *)
(* is past reading it.                                                     *)
ReadTo == IF stage = "playing" THEN {"clean", "damaged", "error"} ELSE {"read", "locked", "error"}

InBatch(k) == \E i \in 1..size : batch[i] = k

BatchInv ==
  stage \in {"probing", "playing"} =>
    /\ \A i \in 1..size :
         /\ batch[i] \in 1..Sizes[chunk]
         /\ truth[File(i)] # "unread"
         /\ stage = "probing" => File(i) \in Lockable
         /\ stage = "playing" => truth[File(i)] # "locked"
         /\ job[i] \notin {"new", "running"} => got[File(i)] \in ReadTo
    /\ \A k \in 1..Sizes[chunk] :
         LET f == <<chunk, k>> IN
         truth[f] # "unread" =>
           /\ stage = "probing" => IF f \in Lockable THEN InBatch(k) ELSE got[f] = "nothing"
           /\ stage = "playing" =>
                got[f] \in {"locked", "error", "clean", "damaged"} \/ InBatch(k)

(* The chunks behind are judged whole, and those ahead not yet touched.    *)
Judging(f) ==
  truth[f] # "unread" =>
    got[f] \in IF Decode THEN {"locked", "error", "clean", "damaged"}
                ELSE IF f \in Lockable THEN {"read", "locked", "error"} ELSE {"nothing"}

ChunkInv ==
  \A f \in Files :
    /\ f[1] > chunk => got[f] = "nothing"
    /\ \/ f[1] < chunk
       \/ f[1] = chunk /\ stage \in {"chunks", "closing", "answered"}
       => Judging(f)

(* A batch has no file twice, and who has yet to read its file finds what  *)
(* may be read of it still to be read: the invariant behind VerdictsStand. *)
UnreadInv ==
  stage \in {"probing", "playing"} =>
    /\ \A i, j \in 1..size : batch[i] = batch[j] => i = j
    /\ \A i \in 1..size : job[i] \in {"new", "running"} => got[File(i)] \in {"nothing", "read"}

SweepInv ==
  /\ EachInv /\ SweepTypeOK
  /\ StageInv /\ GotInv /\ DecodeInv /\ BatchInv /\ ChunkInv

-----------------------------------------------------------------------------
(* A step of Each, whoever takes it.                                       *)
EachNext ==
  \/ \E n \in 0..MaxJobs, ended \in {None, Caller} : Begin(n, ended)
  \/ Loop \/ Return \/ CallerEnds
  \/ \E i \in Jobs : Inner(i) \/ EndsWell(i) \/ EndsBadly(i)

LEMMA JobsFinite == IsFiniteSet(Jobs)
  BY EachAssumption, FS_Interval DEF Jobs

LEMMA HoldersFinite == IsFiniteSet(Holders) /\ Cardinality(Holders) \in Nat
  <1>1. Holders \subseteq Jobs
    BY DEF Holders
  <1> QED BY <1>1, JobsFinite, FS_Subset, FS_CardinalityType

(* The types of Each's variables are kept.                                 *)
LEMMA TypeStep ==
  ASSUME TypeOK, StartedInv, SlotInv, EachNext
  PROVE  TypeOK'
  <1> USE EachAssumption DEF Jobs, Errors, Holding, Alive
  <1>1. ASSUME NEW n \in 0..MaxJobs, NEW ended \in {None, Caller}, Begin(n, ended)
        PROVE  TypeOK'
    BY <1>1 DEF Begin, TypeOK
  <1>2. CASE TakeSlot
    BY <1>2 DEF TakeSlot, TypeOK
  <1>3. CASE SeeDone
    BY <1>3 DEF SeeDone, TypeOK
  <1>4. CASE Start
    BY <1>4 DEF Start, TypeOK, Becomes, StartedInv
  <1>5. CASE Break
    BY <1>5 DEF Break, TypeOK
  <1>6. CASE Return
    BY <1>6 DEF Return, TypeOK
  <1>7. CASE CallerEnds
    BY <1>7 DEF CallerEnds, TypeOK
  <1>8. ASSUME NEW i \in Jobs, EndsWell(i) \/ EndsBadly(i) \/ NotFirst(i) \/ Gone(i)
        PROVE  TypeOK'
    BY <1>8 DEF EndsWell, EndsBadly, NotFirst, Gone, TypeOK, Becomes
  <1>9. ASSUME NEW i \in Jobs, KeepError(i)
        PROVE  TypeOK'
    BY <1>9 DEF KeepError, TypeOK, Becomes
  <1>10. ASSUME NEW i \in Jobs, Cancel(i)
         PROVE  TypeOK'
    BY <1>10 DEF Cancel, TypeOK, Becomes
  <1>11. ASSUME NEW i \in Jobs, FreeSlot(i)
         PROVE  TypeOK'
    <2>1. i \in Holders
      BY <1>11 DEF FreeSlot, Holders
    <2>2. Cardinality(Holders) # 0
      BY <2>1, HoldersFinite, FS_EmptySet
    <2>3. slots \in 1..Workers
      BY <2>2, HoldersFinite DEF SlotInv, Promised, TypeOK
    <2> QED BY <1>11, <2>3 DEF FreeSlot, TypeOK, Becomes
  <1> QED BY <1>1, <1>2, <1>3, <1>4, <1>5, <1>6, <1>7, <1>8, <1>9, <1>10, <1>11
          DEF EachNext, Loop, Inner

(* So is the order the jobs start in.                                      *)
LEMMA StartedStep ==
  ASSUME TypeOK, StartedInv, FirstInv, EachNext
  PROVE  StartedInv'
  <1> USE EachAssumption DEF Jobs, Errors, TypeOK, StartedInv
  <1>1. ASSUME NEW n \in 0..MaxJobs, NEW ended \in {None, Caller}, Begin(n, ended)
        PROVE  StartedInv'
    BY <1>1 DEF Begin
  <1>2. CASE TakeSlot
    BY <1>2 DEF TakeSlot
  <1>3. CASE SeeDone
    BY <1>3 DEF SeeDone
  <1>4. CASE Start
    BY <1>4 DEF Start, Becomes
  <1>5. CASE Break
    BY <1>5 DEF Break
  <1>6. CASE Return
    BY <1>6 DEF Return
  <1>7. CASE CallerEnds
    BY <1>7 DEF CallerEnds
  <1>8. ASSUME NEW i \in Jobs,
               EndsWell(i) \/ EndsBadly(i) \/ NotFirst(i) \/ Gone(i) \/ FreeSlot(i)
        PROVE  StartedInv'
    BY <1>8 DEF EndsWell, EndsBadly, NotFirst, Gone, FreeSlot, Becomes
  <1>9. ASSUME NEW i \in Jobs, KeepError(i)
        PROVE  StartedInv'
    BY <1>9 DEF KeepError, Becomes
  <1>10. ASSUME NEW i \in Jobs, Cancel(i)
         PROVE  StartedInv'
    <2>1. first # None
      BY <1>10 DEF Cancel, FirstInv
    <2> QED BY <1>10, <2>1 DEF Cancel, Becomes
  <1> QED BY <1>1, <1>2, <1>3, <1>4, <1>5, <1>6, <1>7, <1>8, <1>9, <1>10
          DEF EachNext, Loop, Inner

(* And the once.                                                           *)
LEMMA FirstStep ==
  ASSUME TypeOK, FirstInv, EachNext
  PROVE  FirstInv'
  <1> USE EachAssumption DEF Jobs, Errors, TypeOK, FirstInv
  <1>1. ASSUME NEW n \in 0..MaxJobs, NEW ended \in {None, Caller}, Begin(n, ended)
        PROVE  FirstInv'
    BY <1>1 DEF Begin
  <1>2. CASE Loop \/ Return \/ CallerEnds
    BY <1>2 DEF Loop, TakeSlot, SeeDone, Start, Break, Return, CallerEnds, Becomes
  <1>3. ASSUME NEW i \in Jobs,
               EndsWell(i) \/ EndsBadly(i) \/ NotFirst(i) \/ Gone(i) \/ FreeSlot(i)
        PROVE  FirstInv'
    BY <1>3 DEF EndsWell, EndsBadly, NotFirst, Gone, FreeSlot, Becomes
  <1>4. ASSUME NEW i \in Jobs, KeepError(i)
        PROVE  FirstInv'
    BY <1>4 DEF KeepError, Becomes
  <1>5. ASSUME NEW i \in Jobs, Cancel(i)
        PROVE  FirstInv'
    BY <1>5 DEF Cancel, Becomes
  <1> QED BY <1>1, <1>2, <1>3, <1>4, <1>5 DEF EachNext, Inner

(* A call returns with none of its jobs alive.                             *)
LEMMA OutliveStep ==
  ASSUME TypeOK, NoneOutlives, EachNext
  PROVE  NoneOutlives'
  <1> USE DEF TypeOK, NoneOutlives, Alive, Holding
  <1>1. ASSUME NEW n \in 0..MaxJobs, NEW ended \in {None, Caller}, Begin(n, ended)
        PROVE  NoneOutlives'
    BY <1>1 DEF Begin
  <1>2. CASE Loop \/ Return \/ CallerEnds
    BY <1>2 DEF Loop, TakeSlot, SeeDone, Start, Break, Return, CallerEnds, Becomes
  <1>3. ASSUME NEW i \in Jobs, Inner(i) \/ EndsWell(i) \/ EndsBadly(i)
        PROVE  NoneOutlives'
    BY <1>3 DEF EndsWell, EndsBadly, Inner, KeepError, Cancel, NotFirst, Gone, FreeSlot, Becomes
  <1> QED BY <1>1, <1>2, <1>3 DEF EachNext

(* And every holder keeps a slot.                                          *)
LEMMA SlotStep ==
  ASSUME TypeOK, StartedInv, FirstInv, SlotInv, EachNext
  PROVE  SlotInv'
  <1> USE HoldersFinite
  <1> DEFINE Same == Holders' = Holders
  <1>0. ASSUME Same, slots' = slots, Promised' <= Promised
        PROVE  SlotInv'
    BY <1>0 DEF SlotInv, Promised, TypeOK
  <1>1. ASSUME NEW n \in 0..MaxJobs, NEW ended \in {None, Caller}, Begin(n, ended)
        PROVE  SlotInv'
    <2>1. Holders' = {} /\ slots' = 0 /\ Promised' = 0
      BY <1>1 DEF Begin, Holders, Holding, Promised
    <2> QED BY <2>1, FS_EmptySet DEF SlotInv
  <1>2. CASE TakeSlot
    <2>1. Same /\ Promised = 0 /\ Promised' \in {0, 1} /\ slots' = slots + 1
      BY <1>2 DEF TakeSlot, Holders, Promised
    <2> QED BY <2>1 DEF SlotInv, TypeOK
  <1>3. CASE SeeDone
    <2>1. Same /\ Promised = 0 /\ Promised' = 0 /\ slots' = slots
      BY <1>3 DEF SeeDone, Holders, Promised
    <2> QED BY <2>1, <1>0
  <1>4. CASE Start
    <2>1. next \in Jobs /\ job[next] = "new"
      BY <1>4, EachAssumption DEF Start, StartedInv, TypeOK, Jobs
    <2>2. Holders' = Holders \cup {next} /\ next \notin Holders
      BY <1>4, <2>1 DEF Start, Becomes, Holders, Holding, TypeOK
    <2>3. Promised = 1 /\ Promised' = 0 /\ slots' = slots
      BY <1>4 DEF Start, Promised
    <2>4. Cardinality(Holders') = Cardinality(Holders) + 1
      BY <2>2, FS_AddElement
    <2> QED BY <2>3, <2>4 DEF SlotInv, TypeOK
  <1>5. CASE Break \/ Return \/ CallerEnds
    <2>1. Same /\ slots' = slots /\ Promised' <= Promised
      BY <1>5 DEF Break, Return, CallerEnds, Holders, Promised
    <2> QED BY <2>1, <1>0
  <1>6. ASSUME NEW i \in Jobs,
               EndsWell(i) \/ EndsBadly(i) \/ KeepError(i) \/ NotFirst(i) \/ Gone(i)
        PROVE  SlotInv'
    <2>1. Same
      BY <1>6 DEF EndsWell, EndsBadly, KeepError, NotFirst, Gone, Becomes, Holders, Holding, TypeOK
    <2>2. slots' = slots /\ Promised' = Promised
      BY <1>6 DEF EndsWell, EndsBadly, KeepError, NotFirst, Gone, Promised
    <2>3. Promised' <= Promised
      BY <2>2 DEF Promised
    <2> QED BY <2>1, <2>2, <2>3, <1>0
  <1>7. ASSUME NEW i \in Jobs, Cancel(i)
        PROVE  SlotInv'
    <2>1. Same
      BY <1>7 DEF Cancel, Becomes, Holders, Holding, TypeOK
    <2>2. first # None
      BY <1>7 DEF Cancel, FirstInv
    <2>3. slots' = slots /\ Promised' <= Promised
      BY <1>7, <2>2 DEF Cancel, Promised
    <2> QED BY <2>1, <2>3, <1>0
  <1>8. ASSUME NEW i \in Jobs, FreeSlot(i)
        PROVE  SlotInv'
    <2>1. i \in Holders /\ Holders' = Holders \ {i}
      BY <1>8 DEF FreeSlot, Becomes, Holders, Holding, TypeOK
    <2>2. Cardinality(Holders') = Cardinality(Holders) - 1
      BY <2>1, FS_RemoveElement
    <2>3. slots' = slots - 1 /\ Promised' = Promised
      BY <1>8 DEF FreeSlot, Promised
    <2> QED BY <2>2, <2>3 DEF SlotInv, TypeOK, Promised
  <1> QED BY <1>1, <1>2, <1>3, <1>4, <1>5, <1>6, <1>7, <1>8 DEF EachNext, Loop, Inner

LEMMA EachStep ==
  ASSUME EachInv, EachNext \/ UNCHANGED vars
  PROVE  EachInv'
  <1>1. CASE EachNext
    BY <1>1, TypeStep, StartedStep, FirstStep, OutliveStep, SlotStep DEF EachInv
  <1>2. CASE UNCHANGED vars
    BY <1>2 DEF vars, EachInv, TypeOK, StartedInv, FirstInv, SlotInv, Promised, Holders, NoneOutlives
  <1> QED BY <1>1, <1>2

LEMMA EachInit ==
  ASSUME Init
  PROVE  EachInv
  <1> USE EachAssumption
  <1>1. TypeOK /\ StartedInv /\ FirstInv /\ NoneOutlives
    BY DEF Init, TypeOK, StartedInv, FirstInv, NoneOutlives, Alive, Holding, Jobs
  <1>2. Holders = {} /\ Promised = 0 /\ slots = 0
    BY DEF Init, Holders, Holding, Promised
  <1> QED BY <1>1, <1>2, FS_EmptySet DEF EachInv, SlotInv

-----------------------------------------------------------------------------
(* A batch of a chunk fits.                                                *)
LEMMA BatchFits ==
  ASSUME NEW m \in 0..MaxJobs, NEW P \in SUBSET (1..m)
  PROVE  IsFiniteSet(P) /\ Cardinality(P) \in 0..MaxJobs
  <1>1. IsFiniteSet(1..m) /\ Cardinality(1..m) = m
    BY EachAssumption, FS_Interval
  <1>2. IsFiniteSet(P) /\ Cardinality(P) <= m
    BY <1>1, FS_Subset
  <1> QED BY <1>2, EachAssumption, FS_CardinalityType

LEMMA PlacesFit ==
  ASSUME NEW c \in 1..LastChunk
  PROVE  /\ Cardinality(ToProbe(c)) \in 0..MaxJobs /\ ToProbe(c) \subseteq 1..MaxJobs
         /\ Cardinality(ToPlay(c)) \in 0..MaxJobs /\ ToPlay(c) \subseteq 1..MaxJobs
  <1>1. Sizes[c] \in 0..MaxJobs
    BY SweepAssumption
  <1>2. ToProbe(c) \subseteq 1..Sizes[c] /\ ToPlay(c) \subseteq 1..Sizes[c]
    BY DEF ToProbe, ToPlay
  <1>3. 1..Sizes[c] \subseteq 1..MaxJobs
    BY <1>1, EachAssumption
  <1> QED BY <1>1, <1>2, <1>3, BatchFits

(* Every step of the audit is one of Each's, or none of its business.      *)
LEMMA SweepIsEach ==
  ASSUME SweepTypeOK, StageInv, SweepNext
  PROVE  EachNext \/ UNCHANGED vars
  <1>1. CASE FetchChunk
    <2>1. chunk + 1 \in 1..LastChunk
      BY <1>1, SweepAssumption DEF FetchChunk, SweepTypeOK
    <2> QED BY <1>1, <2>1, PlacesFit DEF FetchChunk, Batch, EachNext
  <1>2. CASE PlayChunk
    <2>1. chunk \in 1..LastChunk
      BY <1>2, SweepAssumption DEF PlayChunk, SweepTypeOK, StageInv
    <2> QED BY <1>2, <2>1, PlacesFit DEF PlayChunk, Batch, EachNext
  <1>3. CASE List \/ FetchFails \/ NextChunk \/ BatchFails \/ Close \/ AnswerOrFail
    BY <1>3 DEF List, FetchFails, NextChunk, BatchFails, Close, AnswerOrFail
  <1>4. CASE RunLoop
    BY <1>4 DEF RunLoop, EachNext
  <1>5. ASSUME NEW i \in Jobs, Job(i)
        PROVE  EachNext \/ UNCHANGED vars
    BY <1>5 DEF Job, FFmpeg, Probe, StartFFmpeg, AskProxy, PlayFile, NoteFailure, ReplyEnds,
                Kill, EndDecode, RunInner, FFmpegRuns, JobEnds, EachNext
  <1>6. CASE ProxyDies \/ ProxyStopped \/ RequestEnds
    BY <1>6 DEF ProxyDies, ProxyStopped, RequestEnds, EachNext
  <1> QED BY <1>1, <1>2, <1>3, <1>4, <1>5, <1>6 DEF SweepNext, Sweep

(* But for the two that begin a batch they keep its size.                  *)
LEMMA SizeKept ==
  ASSUME NEW i \in Jobs,
         Loop \/ Return \/ CallerEnds \/ Inner(i) \/ EndsWell(i) \/ EndsBadly(i)
  PROVE  size' = size
  BY DEF Loop, TakeSlot, SeeDone, Start, Break, Return, CallerEnds, Inner, KeepError, Cancel,
         NotFirst, FreeSlot, Gone, EndsWell, EndsBadly

(* The types of the audit's variables are kept.                            *)
LEMMA SweepTypeStep ==
  ASSUME SweepTypeOK, StageInv, BatchInv, StartedInv, TypeOK', SweepNext
  PROVE  SweepTypeOK'
  <1> USE SweepAssumption, EachAssumption
  <1>1. CASE FetchChunk
    <2>1. chunk + 1 \in 1..LastChunk
      BY <1>1 DEF FetchChunk, SweepTypeOK
    <2>2. ToProbe(chunk + 1) \subseteq 1..MaxJobs
      BY <2>1, PlacesFit
    <2>3. batch' \in [1..size' -> 1..MaxJobs]
      BY <1>1, <2>2 DEF FetchChunk, Batch, Begin
    <2> QED BY <1>1, <2>1, <2>3 DEF FetchChunk, Batch, SweepTypeOK
  <1>2. CASE PlayChunk
    <2>1. chunk \in 1..LastChunk
      BY <1>2 DEF PlayChunk, SweepTypeOK, StageInv
    <2>2. ToPlay(chunk) \subseteq 1..MaxJobs
      BY <2>1, PlacesFit
    <2>3. batch' \in [1..size' -> 1..MaxJobs]
      BY <1>2, <2>2 DEF PlayChunk, Batch, Begin
    <2> QED BY <1>2, <2>3 DEF PlayChunk, Batch, SweepTypeOK
  <1>3. CASE List \/ FetchFails \/ NextChunk \/ BatchFails \/ Close \/ AnswerOrFail
    BY <1>3 DEF List, FetchFails, NextChunk, BatchFails, Close, AnswerOrFail, SweepTypeOK,
                Ended, vars
  <1>4. CASE RunLoop
    BY <1>4, SizeKept DEF RunLoop, SweepTypeOK, sweepVars, Jobs, Loop, TakeSlot, SeeDone,
                Start, Break, Return
  <1>5. ASSUME NEW i \in Jobs, RunInner(i)
        PROVE  SweepTypeOK'
    BY <1>5, SizeKept DEF RunInner, SweepTypeOK, sweepVars
  <1>6. ASSUME NEW i \in Jobs, Probe(i)
        PROVE  SweepTypeOK'
    <2>1. size' = size
      BY <1>6, SizeKept DEF Probe, JobEnds
    <2>2. got' \in [Files -> {"nothing", "read", "locked", "error", "clean", "damaged"}]
      BY <1>6 DEF Probe, Got, SweepTypeOK
    <2> QED BY <1>6, <2>1, <2>2 DEF Probe, SweepTypeOK
  <1>7. ASSUME NEW i \in Jobs, EndDecode(i)
        PROVE  SweepTypeOK'
    <2>1. size' = size
      BY <1>7, SizeKept DEF EndDecode, JobEnds
    <2>2. got' \in [Files -> {"nothing", "read", "locked", "error", "clean", "damaged"}]
      BY <1>7 DEF EndDecode, Got, SweepTypeOK
    <2> QED BY <1>7, <2>1, <2>2 DEF EndDecode, Becoming, SweepTypeOK
  <1>8. ASSUME NEW i \in Jobs, FFmpeg(i)
        PROVE  SweepTypeOK'
    BY <1>8 DEF FFmpeg, StartFFmpeg, AskProxy, PlayFile, NoteFailure, ReplyEnds, Kill,
                FFmpegRuns, Becoming, SweepTypeOK, vars
  <1>9. CASE ProxyDies \/ ProxyStopped
    BY <1>9 DEF ProxyDies, ProxyStopped, SweepTypeOK, vars
  <1>10. CASE RequestEnds
    BY <1>10 DEF RequestEnds, CallerEnds, SweepTypeOK, vars
  <1> QED BY <1>1, <1>2, <1>3, <1>4, <1>5, <1>6, <1>7, <1>8, <1>9, <1>10
          DEF SweepNext, Sweep, Job

(* Where the audit is, and the proxy with it.                              *)
LEMMA StageStep ==
  ASSUME SweepTypeOK, StageInv, SweepNext
  PROVE  StageInv'
  <1> USE DEF StageInv, Ended
  <1>1. CASE FetchChunk
    BY <1>1, SweepAssumption DEF FetchChunk, SweepTypeOK
  <1>2. CASE PlayChunk
    BY <1>2 DEF PlayChunk
  <1>3. CASE List \/ FetchFails \/ BatchFails \/ AnswerOrFail
    BY <1>3 DEF List, FetchFails, BatchFails, AnswerOrFail, vars, SweepTypeOK
  <1>4. CASE NextChunk
    BY <1>4 DEF NextChunk, vars
  <1>5. CASE Close
    BY <1>5 DEF Close, vars, SweepTypeOK
  <1>6. CASE RunLoop
    BY <1>6 DEF RunLoop, sweepVars, Loop, TakeSlot, SeeDone, Start, Break, Return
  <1>7. ASSUME NEW i \in Jobs, Job(i)
        PROVE  StageInv'
    BY <1>7 DEF Job, FFmpeg, Probe, StartFFmpeg, AskProxy, PlayFile, NoteFailure, ReplyEnds,
                Kill, EndDecode, RunInner, FFmpegRuns, JobEnds, EndsWell, EndsBadly, Inner,
                KeepError, Cancel, NotFirst, FreeSlot, Gone, sweepVars, vars
  <1>8. CASE ProxyDies \/ ProxyStopped \/ RequestEnds
    BY <1>8 DEF ProxyDies, ProxyStopped, RequestEnds, CallerEnds, vars
  <1> QED BY <1>1, <1>2, <1>3, <1>4, <1>5, <1>6, <1>7, <1>8 DEF SweepNext, Sweep

(* A batch that returned no error ran all its jobs, and no file of it was  *)
(* left with an error of the server's.                                     *)
LEMMA NotDoomed ==
  ASSUME EachInv, at = "out", Answer = None
  PROVE  ~BatchDoomed /\ once = "new" /\ \A i \in 1..size : job[i] = "done"
  <1>1. first = None /\ cause = None /\ once = "new" /\ next = size + 1
    BY EachAssumption DEF Answer, EachInv, FirstInv, StartedInv
  <1>2. \A i \in Jobs : job[i] \in {"new", "done"}
    BY DEF EachInv, NoneOutlives, TypeOK, Alive, Holding
  <1>3. \A i \in 1..size : i \in Jobs /\ job[i] # "new"
    <2>1. size \in 0..MaxJobs /\ MaxJobs \in Nat
      BY EachAssumption DEF EachInv, TypeOK
    <2> QED BY <1>1, <2>1 DEF EachInv, StartedInv, Jobs
  <1> QED BY <1>1, <1>2, <1>3 DEF BatchDoomed

LEMMA ProxyStaysLost ==
  ASSUME ProxyLost, SweepNext
  PROVE  ProxyLost'
  BY DEF ProxyLost, SweepNext, Sweep, List, FetchChunk, FetchFails, PlayChunk, NextChunk,
         BatchFails, Close, AnswerOrFail, RunLoop, Job, FFmpeg, Probe, StartFFmpeg, AskProxy,
         PlayFile, NoteFailure, ReplyEnds, Kill, EndDecode, RunInner, FFmpegRuns, ProxyDies,
         ProxyStopped, RequestEnds, sweepVars

(* What dooms a batch lasts as long as it.                                 *)
LEMMA BatchStaysDoomed ==
  ASSUME EachInv, BatchDoomed,
         \/ Loop \/ Return \/ CallerEnds \/ UNCHANGED vars
         \/ \E i \in Jobs : Inner(i) \/ EndsWell(i) \/ EndsBadly(i)
  PROVE  BatchDoomed'
  <1> USE EachAssumption DEF BatchDoomed, EachInv, FirstInv, TypeOK, Errors
  <1>1. CASE Loop \/ Return \/ CallerEnds \/ UNCHANGED vars
    BY <1>1 DEF Loop, TakeSlot, SeeDone, Start, Break, Return, CallerEnds, Becomes, vars, StartedInv
  <1>2. ASSUME NEW i \in Jobs, EndsWell(i) \/ EndsBadly(i) \/ FreeSlot(i) \/ Gone(i)
        PROVE  BatchDoomed'
    BY <1>2 DEF EndsWell, EndsBadly, FreeSlot, Gone, Becomes
  <1>3. ASSUME NEW i \in Jobs, KeepError(i)
        PROVE  BatchDoomed'
    BY <1>3 DEF KeepError, Jobs
  <1>4. ASSUME NEW i \in Jobs, Cancel(i) \/ NotFirst(i)
        PROVE  BatchDoomed'
    <2>1. first # None
      BY <1>4 DEF Cancel, NotFirst
    <2> QED BY <1>4, <2>1 DEF Cancel, NotFirst
  <1> QED BY <1>1, <1>2, <1>3, <1>4 DEF Inner

LEMMA StaysDoomed ==
  ASSUME EachInv, StageInv, SweepNext, Doomed
  PROVE  Doomed'
  <1> USE DEF Doomed
  <1>1. CASE PlayChunk \/ NextChunk
    <2>1. stage \in {"probing", "playing"} /\ at = "out" /\ Answer = None
      BY <1>1 DEF PlayChunk, NextChunk
    <2>2. ~BatchDoomed
      BY <2>1, NotDoomed
    <2> QED BY <2>1, <2>2
  <1>2. CASE List \/ FetchChunk \/ FetchFails \/ BatchFails \/ Close \/ AnswerOrFail
    BY <1>2 DEF List, FetchChunk, FetchFails, BatchFails, Close, AnswerOrFail
  <1>3. CASE RunLoop
    <2>1. stage' = stage /\ (Loop \/ Return)
      BY <1>3 DEF RunLoop, sweepVars
    <2> QED BY <2>1, BatchStaysDoomed
  <1>4. ASSUME NEW i \in Jobs, Job(i)
        PROVE  Doomed'
    <2>1. stage' = stage /\ (UNCHANGED vars \/ Inner(i) \/ EndsWell(i) \/ EndsBadly(i))
      BY <1>4 DEF Job, FFmpeg, Probe, StartFFmpeg, AskProxy, PlayFile, NoteFailure, ReplyEnds,
                  Kill, EndDecode, RunInner, FFmpegRuns, JobEnds, sweepVars
    <2> QED BY <2>1, BatchStaysDoomed
  <1>5. CASE ProxyDies \/ ProxyStopped \/ RequestEnds
    <2>1. stage' = stage /\ (UNCHANGED vars \/ CallerEnds)
      BY <1>5 DEF ProxyDies, ProxyStopped, RequestEnds
    <2> QED BY <2>1, BatchStaysDoomed
  <1> QED BY <1>1, <1>2, <1>3, <1>4, <1>5 DEF SweepNext, Sweep

(* What was read of a file stays so where the step reads none.             *)
LEMMA GotFrame ==
  ASSUME EachInv, StageInv, GotInv, SweepNext, UNCHANGED <<got, truth>>
  PROVE  GotInv'
  BY StaysDoomed, ProxyStaysLost DEF GotInv

(* And where it reads one file, for the others.                            *)
LEMMA GotOne ==
  ASSUME SweepTypeOK, EachInv, StageInv, GotInv, SweepNext,
         NEW i \in Jobs, NEW what, File(i) \in Files, Got(i, what), truth' = truth,
         what = "locked"  => truth[File(i)] = "locked",
         what = "read"    => truth[File(i)] \in {"sound", "damaged"},
         what = "clean"   => truth[File(i)] = "sound",
         what = "damaged" => truth[File(i)] = "damaged" \/ ProxyLost',
         what = "error"   => truth[File(i)] = "gone" \/ Doomed'
  PROVE  GotInv'
  <1> SUFFICES ASSUME NEW f \in Files
               PROVE  /\ got'[f] = "locked"  => truth[f] = "locked"
                      /\ got'[f] = "read"    => truth[f] \in {"sound", "damaged"}
                      /\ got'[f] = "clean"   => truth[f] = "sound"
                      /\ got'[f] = "damaged" => truth[f] = "damaged" \/ ProxyLost'
                      /\ got'[f] = "error"   => truth[f] = "gone" \/ Doomed'
    BY DEF GotInv
  <1>1. CASE f = File(i)
    <2>1. got'[f] = what
      BY <1>1 DEF Got, SweepTypeOK
    <2> QED BY <1>1, <2>1
  <1>2. CASE f # File(i)
    <2>1. got'[f] = got[f]
      BY <1>2 DEF Got, SweepTypeOK
    <2> QED BY <2>1, StaysDoomed, ProxyStaysLost DEF GotInv
  <1> QED BY <1>1, <1>2

(* A job that runs has a file of the chunk.                                *)
LEMMA JobsFile ==
  ASSUME SweepTypeOK, EachInv, StageInv, BatchInv, stage \in {"probing", "playing"},
         NEW i \in Jobs, job[i] # "new"
  PROVE  i \in 1..size /\ batch[i] \in 1..Sizes[chunk] /\ File(i) \in Files
  <1>1. i \in 1..size
    BY EachAssumption DEF EachInv, StartedInv, TypeOK, Jobs
  <1>2. batch[i] \in 1..Sizes[chunk]
    BY <1>1 DEF BatchInv
  <1>3. chunk \in 1..LastChunk /\ Sizes[chunk] \in 0..MaxJobs
    BY SweepAssumption DEF SweepTypeOK, StageInv
  <1> QED BY <1>1, <1>2, <1>3, EachAssumption DEF File, Files

LEMMA JobDooms ==
  ASSUME SweepTypeOK, NEW i \in Jobs, EndsBadly(i), stage \in {"probing", "playing"}, stage' = stage
  PROVE  Doomed'
  BY DEF EndsBadly, Becomes, Doomed, BatchDoomed, SweepTypeOK, TypeOK

LEMMA GotProbe ==
  ASSUME SweepTypeOK, EachInv, StageInv, GotInv, BatchInv, SweepNext, NEW i \in Jobs, Probe(i)
  PROVE  GotInv'
  <1>1. stage = "probing" /\ stage' = stage /\ truth' = truth /\ job[i] = "running"
    BY DEF Probe
  <1>2. File(i) \in Files /\ i \in 1..size
    BY <1>1, JobsFile
  <1>3. truth[File(i)] \in Kinds \ {"unread"}
    BY <1>1, <1>2, SweepAssumption DEF BatchInv, SweepTypeOK
  <1>4. CASE Got(i, "error") /\ JobEnds(i, "broke")
    <2>1. Doomed'
      BY <1>1, <1>4, JobDooms DEF JobEnds, ServerFailure
    <2> QED BY <1>1, <1>2, <1>4, <2>1, GotOne
  <1>5. CASE ~(Got(i, "error") /\ JobEnds(i, "broke"))
    <2> DEFINE what == CASE truth[File(i)] = "locked" -> "locked"
                         [] truth[File(i)] = "gone"   -> "error"
                         [] OTHER                     -> "read"
    <2>1. Got(i, what)
      BY <1>5 DEF Probe
    <2>2. /\ what = "locked"  => truth[File(i)] = "locked"
          /\ what = "read"    => truth[File(i)] \in {"sound", "damaged"}
          /\ what = "error"   => truth[File(i)] = "gone"
          /\ what \notin {"clean", "damaged"}
      BY <1>3 DEF Kinds
    <2> HIDE DEF what
    <2> QED BY <1>1, <1>2, <2>1, <2>2, GotOne
  <1> QED BY <1>4, <1>5

LEMMA GotDecode ==
  ASSUME SweepTypeOK, EachInv, StageInv, GotInv, DecodeInv, BatchInv, SweepNext,
         NEW i \in Jobs, EndDecode(i)
  PROVE  GotInv'
  <1>1. stage = "playing" /\ stage' = stage /\ truth' = truth /\ job[i] = "running"
    BY DEF EndDecode, Playing
  <1>2. File(i) \in Files
    BY <1>1, JobsFile
  <1>3. DecodeSo(i) /\ ff[i] \in {"played", "complained", "died"}
    BY <1>1 DEF DecodeInv, EndDecode
  <1>4. note[i] \in {"none", "gone", "broke"}
    BY DEF SweepTypeOK
  <1> DEFINE what == IF Heard(i) # "none" THEN "error"
                     ELSE IF ff[i] = "played" THEN "clean" ELSE "damaged"
  <1>5. Got(i, what)
    BY DEF EndDecode
  <1>6. CASE Heard(i) = "broke"
    <2>1. Doomed'
      BY <1>1, <1>6, JobDooms DEF JobEnds, ServerFailure, EndDecode
    <2>2. what = "error"
      BY <1>6
    <2> HIDE DEF what
    <2> QED BY <1>1, <1>2, <1>5, <2>1, <2>2, GotOne
  <1>7. CASE Heard(i) = "gone"
    <2>1. note[i] = "gone"
      BY <1>4, <1>7 DEF Heard
    <2>2. what = "error" /\ truth[File(i)] = "gone"
      BY <1>3, <1>7, <2>1 DEF DecodeSo
    <2> HIDE DEF what
    <2> QED BY <1>1, <1>2, <1>5, <2>2, GotOne
  <1>8. CASE Heard(i) = "none"
    <2>1. note[i] = "none" /\ (ff[i] = "died" => cause = None)
      BY <1>4, <1>8 DEF Heard
    <2>2. ff[i] = "played" => truth[File(i)] = "sound"
      BY <1>3, <2>1 DEF DecodeSo
    <2>3. ff[i] # "played" => truth[File(i)] = "damaged" \/ ProxyLost
      BY <1>3, <2>1 DEF DecodeSo
    <2>4. /\ what = "clean" => truth[File(i)] = "sound"
          /\ what = "damaged" => truth[File(i)] = "damaged" \/ ProxyLost'
          /\ what \in {"clean", "damaged"}
      BY <1>8, <2>2, <2>3, ProxyStaysLost
    <2> HIDE DEF what
    <2> QED BY <1>1, <1>2, <1>5, <2>4, GotOne
  <1>9. Heard(i) \in {"none", "gone", "broke"}
    BY <1>4 DEF Heard
  <1> QED BY <1>6, <1>7, <1>8, <1>9

LEMMA GotStep ==
  ASSUME SweepInv, SweepNext
  PROVE  GotInv'
  <1> USE DEF SweepInv
  <1>1. CASE \E i \in Jobs : Probe(i)
    BY <1>1, GotProbe
  <1>2. CASE \E i \in Jobs : EndDecode(i)
    BY <1>2, GotDecode
  <1>3. CASE ~\E i \in Jobs : Probe(i) \/ EndDecode(i)
    <2>1. UNCHANGED <<got, truth>>
      BY <1>3 DEF SweepNext, Sweep, List, FetchChunk, FetchFails, PlayChunk, NextChunk,
         BatchFails, Close, AnswerOrFail, RunLoop, Job, FFmpeg, StartFFmpeg, AskProxy,
         PlayFile, NoteFailure, ReplyEnds, Kill, RunInner, FFmpegRuns, ProxyDies,
         ProxyStopped, RequestEnds, sweepVars
    <2> QED BY <2>1, GotFrame
  <1> QED BY <1>1, <1>2, <1>3

-----------------------------------------------------------------------------
(* The context of a batch, once ended, stays so.                           *)
LEMMA CauseStays ==
  ASSUME cause # None, first # None \/ once = "new", FirstInv,
         \/ Loop \/ Return \/ CallerEnds \/ UNCHANGED vars
         \/ \E i \in Jobs : Inner(i) \/ EndsWell(i) \/ EndsBadly(i)
  PROVE  cause' # None
  BY DEF Loop, TakeSlot, SeeDone, Start, Break, Return, CallerEnds, vars, Inner, KeepError,
         Cancel, NotFirst, FreeSlot, Gone, EndsWell, EndsBadly

(* While a batch plays, no step but PlayChunk takes another's place.       *)
LEMMA PlayingOn ==
  ASSUME SweepNext, ~PlayChunk, stage' = "playing"
  PROVE  stage = "playing" /\ UNCHANGED <<truth, chunk, batch>>
  BY DEF SweepNext, Sweep, List, FetchChunk, FetchFails, NextChunk,
         BatchFails, Close, AnswerOrFail, RunLoop, Job, FFmpeg, Probe, StartFFmpeg, AskProxy,
         PlayFile, NoteFailure, ReplyEnds, Kill, EndDecode, RunInner, FFmpegRuns, ProxyDies,
         ProxyStopped, RequestEnds, sweepVars

(* A decode whose ffmpeg and note stay keeps what it has met.              *)
LEMMA DecodeFrame ==
  ASSUME NEW i \in Jobs, DecodeSo(i), UNCHANGED <<truth, chunk, batch, ff, note>>,
         cause # None => cause' # None, ProxyLost => ProxyLost'
  PROVE  DecodeSo(i)'
  BY DEF DecodeSo, File

LEMMA FFmpegStep ==
  ASSUME SweepTypeOK, StageInv, BatchInv, EachInv, DecodeInv, SweepNext,
         NEW i \in Jobs, FFmpeg(i)
  PROVE  DecodeInv'
  <1>1. stage = "playing" /\ job[i] = "running"
    BY DEF FFmpeg, StartFFmpeg, AskProxy, PlayFile, NoteFailure, ReplyEnds, Kill, Playing
  <1>2. UNCHANGED <<vars, truth, stage, chunk, batch, got, proxy, gone>>
    BY DEF FFmpeg, StartFFmpeg, AskProxy, PlayFile, NoteFailure, ReplyEnds, Kill, FFmpegRuns
  <1>3. \A j \in Jobs \ {i} : ff'[j] = ff[j] /\ note'[j] = note[j]
    BY DEF FFmpeg, StartFFmpeg, AskProxy, PlayFile, NoteFailure, ReplyEnds, Kill, Becoming,
           SweepTypeOK
  <1>4. \A j \in Jobs : DecodeSo(j) /\ j # i => DecodeSo(j)'
    BY <1>2, <1>3 DEF DecodeSo, File, ProxyLost, vars
  <1>5. DecodeSo(i)
    BY <1>1 DEF DecodeInv
  <1>6. truth[File(i)] \in {"sound", "damaged", "gone"} /\ proxy # "shut"
    <2>1. File(i) \in Files /\ i \in 1..size
      BY <1>1, JobsFile
    <2>2. truth[File(i)] \in Kinds \ {"unread", "locked"}
      BY <1>1, <2>1, SweepAssumption DEF BatchInv, SweepTypeOK
    <2>3. proxy # "shut"
      BY <1>1 DEF StageInv, Ended
    <2> QED BY <2>2, <2>3 DEF Kinds
  <1>7. DecodeSo(i)'
    <2> USE <1>2, <1>5, <1>6 DEF DecodeSo, File, vars, Becoming, SweepTypeOK, ProxyLost
    <2>1. CASE StartFFmpeg(i)
      BY <2>1 DEF StartFFmpeg
    <2>2. CASE AskProxy(i)
      BY <2>2 DEF AskProxy
    <2>3. CASE PlayFile(i)
      BY <2>3 DEF PlayFile
    <2>4. CASE NoteFailure(i)
      BY <2>4 DEF NoteFailure
    <2>5. CASE ReplyEnds(i)
      BY <2>5 DEF ReplyEnds
    <2>6. CASE Kill(i)
      BY <2>6 DEF Kill
    <2> QED BY <2>1, <2>2, <2>3, <2>4, <2>5, <2>6 DEF FFmpeg
  <1> QED BY <1>1, <1>2, <1>3, <1>4, <1>7 DEF DecodeInv, vars

LEMMA DecodeStep ==
  ASSUME SweepInv, SweepNext
  PROVE  DecodeInv'
  <1> USE DEF SweepInv
  <1>1. CASE PlayChunk
    BY <1>1 DEF PlayChunk, Batch, Begin, DecodeInv
  <1>2. CASE \E i \in Jobs : FFmpeg(i)
    BY <1>2, FFmpegStep
  <1>3. CASE stage' # "playing"
    BY <1>3 DEF DecodeInv
  <1>4. ASSUME ~PlayChunk, ~\E i \in Jobs : FFmpeg(i), stage' = "playing"
        PROVE  DecodeInv'
    <2>1. stage = "playing" /\ UNCHANGED <<truth, chunk, batch>>
      BY <1>4, PlayingOn
    <2>2. first # None \/ once = "new"
      BY DEF EachInv, FirstInv
    <2>3. ProxyLost => ProxyLost'
      BY ProxyStaysLost
    <2>4. \A i \in Jobs :
            IF job[i] = "running" THEN DecodeSo(i) ELSE ff[i] = "none" /\ note[i] = "none"
      BY <2>1 DEF DecodeInv
    <2>5. ASSUME UNCHANGED <<ff, note>>, cause # None => cause' # None,
                 \A i \in Jobs : job'[i] = "running" => job[i] \in {"running", "new"},
                 \A i \in Jobs : job[i] = "running" => job'[i] = "running"
          PROVE  DecodeInv'
      <3> SUFFICES ASSUME NEW i \in Jobs
                   PROVE  IF job'[i] = "running" THEN DecodeSo(i)'
                          ELSE ff'[i] = "none" /\ note'[i] = "none"
        BY DEF DecodeInv
      <3>1. CASE job[i] = "running"
        BY <2>1, <2>3, <2>4, <2>5, <3>1, DecodeFrame
      <3>2. CASE job[i] # "running"
        <4>1. ff'[i] = "none" /\ note'[i] = "none"
          BY <2>4, <2>5, <3>2
        <4> QED BY <4>1 DEF DecodeSo
      <3> QED BY <3>1, <3>2
    <2>6. CASE RunLoop
      <3>1. UNCHANGED <<ff, note>> /\ (Loop \/ Return)
        BY <2>6 DEF RunLoop, sweepVars
      <3>2. \A i \in Jobs : job'[i] # job[i] => job[i] = "new"
        <4>1. CASE Start
          <5>1. next \in Jobs /\ job[next] = "new"
            BY <2>1, <4>1, EachAssumption DEF Start, EachInv, StartedInv, TypeOK, Jobs
          <5> QED BY <4>1, <5>1 DEF Start, Becomes, EachInv, TypeOK
        <4>2. CASE ~Start
          BY <3>1, <4>2 DEF Loop, TakeSlot, SeeDone, Break, Return
        <4> QED BY <4>1, <4>2
      <3>3. cause # None => cause' # None
        BY <3>1, <2>2, CauseStays DEF EachInv
      <3> QED BY <3>1, <3>2, <3>3, <2>5
    <2>7. ASSUME NEW i \in Jobs, RunInner(i)
          PROVE  DecodeInv'
      <3>1. UNCHANGED <<ff, note>> /\ Inner(i)
        BY <2>7 DEF RunInner, sweepVars
      <3>2. \A j \in Jobs : job'[j] # job[j] => job[j] # "running" /\ job'[j] # "running"
        BY <3>1 DEF Inner, KeepError, Cancel, NotFirst, FreeSlot, Gone, Becomes, EachInv, TypeOK
      <3>3. cause # None => cause' # None
        BY <3>1, <2>2, CauseStays DEF EachInv
      <3> QED BY <3>1, <3>2, <3>3, <2>5
    <2>8. CASE ProxyDies \/ ProxyStopped \/ RequestEnds
      <3>1. UNCHANGED <<ff, note, job>> /\ (cause # None => cause' # None)
        BY <2>8, EachAssumption DEF ProxyDies, ProxyStopped, RequestEnds, CallerEnds, vars, Errors
      <3> QED BY <3>1, <2>5
    <2>9. ASSUME NEW i \in Jobs, EndDecode(i)
          PROVE  DecodeInv'
      <3>1. ff'[i] = "none" /\ note'[i] = "none" /\ job'[i] # "running"
        BY <2>9 DEF EndDecode, Becoming, JobEnds, EndsWell, EndsBadly, Becomes, SweepTypeOK, TypeOK
      <3>2. \A j \in Jobs \ {i} :
              ff'[j] = ff[j] /\ note'[j] = note[j] /\ job'[j] = job[j]
        BY <2>9 DEF EndDecode, Becoming, JobEnds, EndsWell, EndsBadly, Becomes, SweepTypeOK, TypeOK
      <3>3. cause' = cause
        BY <2>9 DEF EndDecode, JobEnds, EndsWell, EndsBadly
      <3>4. \A j \in Jobs \ {i} : DecodeSo(j) => DecodeSo(j)'
        BY <2>1, <2>3, <3>2, <3>3 DEF DecodeSo, File
      <3> QED BY <2>4, <3>1, <3>2, <3>4 DEF DecodeInv
    <2>10. ~\E i \in Jobs : Probe(i)
      BY <2>1 DEF Probe
    <2>11. ~(List \/ FetchChunk \/ FetchFails \/ NextChunk \/ BatchFails \/ Close \/ AnswerOrFail)
      BY <1>4 DEF List, FetchChunk, FetchFails, NextChunk, BatchFails, Close, AnswerOrFail
    <2> QED BY <1>4, <2>6, <2>7, <2>8, <2>9, <2>10, <2>11 DEF SweepNext, Sweep, Job
  <1> QED BY <1>1, <1>2, <1>3, <1>4

-----------------------------------------------------------------------------
(* The places of a batch, as Batch takes them.                             *)
LEMMA BatchPlaces ==
  ASSUME NEW P \in SUBSET (1..MaxJobs), IsFiniteSet(P), Batch(P)
  PROVE  /\ size' = Cardinality(P)
         /\ \A i \in 1..size' : batch'[i] \in P
         /\ \A k \in P : InBatch(k)'
         /\ \A i \in Jobs : job'[i] = "new"
  BY DEF Batch, Begin, InBatch

(* The batch is as it was, and what was read of its files is what a job of *)
(* it has read.                                                            *)
LEMMA BatchFrame ==
  ASSUME SweepTypeOK, EachInv, StageInv, BatchInv, UNCHANGED <<truth, chunk, batch, stage, size>>,
         stage \in {"probing", "playing"},
         \A f \in Files : got'[f] # got[f] =>
            got'[f] \in ReadTo /\ (stage = "probing" => f \in Lockable),
         \A i \in 1..size : job'[i] \notin {"new", "running"} =>
            job[i] \notin {"new", "running"} \/ got'[File(i)] \in ReadTo
  PROVE  BatchInv'
  <1>1. chunk \in 1..LastChunk /\ Sizes[chunk] \in 0..MaxJobs /\ MaxJobs \in Nat
    BY SweepAssumption, EachAssumption DEF SweepTypeOK, StageInv
  <1>2. \A k \in 1..Sizes[chunk] : <<chunk, k>> \in Files
    BY <1>1 DEF Files
  <1>3. ASSUME NEW i \in 1..size
        PROVE  /\ batch[i] \in 1..Sizes[chunk]
               /\ truth[File(i)] # "unread"
               /\ stage = "probing" => File(i) \in Lockable
               /\ stage = "playing" => truth[File(i)] # "locked"
               /\ job'[i] \notin {"new", "running"} => got'[File(i)] \in ReadTo
    <2>1. /\ batch[i] \in 1..Sizes[chunk]
          /\ truth[File(i)] # "unread"
          /\ stage = "probing" => File(i) \in Lockable
          /\ stage = "playing" => truth[File(i)] # "locked"
          /\ job[i] \notin {"new", "running"} => got[File(i)] \in ReadTo
      BY DEF BatchInv
    <2>2. File(i) \in Files
      BY <1>2, <2>1 DEF File
    <2> QED BY <2>1, <2>2
  <1>4. ASSUME NEW k \in 1..Sizes[chunk], truth[<<chunk, k>>] # "unread"
        PROVE  /\ stage = "probing" => IF <<chunk, k>> \in Lockable THEN InBatch(k)
                                       ELSE got'[<<chunk, k>>] = "nothing"
               /\ stage = "playing" =>
                    got'[<<chunk, k>>] \in {"locked", "error", "clean", "damaged"} \/ InBatch(k)
    <2>1. <<chunk, k>> \in Files
      BY <1>2
    <2>2. /\ stage = "probing" => IF <<chunk, k>> \in Lockable THEN InBatch(k)
                                       ELSE got[<<chunk, k>>] = "nothing"
          /\ stage = "playing" =>
                    got[<<chunk, k>>] \in {"locked", "error", "clean", "damaged"} \/ InBatch(k)
      BY <1>4 DEF BatchInv
    <2>3. got'[<<chunk, k>>] # got[<<chunk, k>>] =>
            got'[<<chunk, k>>] \in ReadTo /\ (stage = "probing" => <<chunk, k>> \in Lockable)
      BY <2>1
    <2> QED BY <2>2, <2>3 DEF ReadTo
  <1>5. \A k : InBatch(k)' = InBatch(k)
    BY DEF InBatch
  <1>6. ReadTo' = ReadTo /\ \A i : File(i)' = File(i)
    BY DEF ReadTo, File
  <1> QED BY <1>3, <1>4, <1>5, <1>6 DEF BatchInv

LEMMA BatchProbes ==
  ASSUME SweepInv, FetchChunk
  PROVE  BatchInv'
  <1> USE DEF SweepInv
  <1>1. chunk' = chunk + 1 /\ chunk' \in 1..LastChunk /\ stage' = "probing" /\ UNCHANGED <<truth, got>>
    BY SweepAssumption DEF FetchChunk, SweepTypeOK
  <1>2. Sizes[chunk'] \in 0..MaxJobs /\ MaxJobs \in Nat
    BY <1>1, SweepAssumption, EachAssumption
  <1> DEFINE P == ToProbe(chunk')
  <1>3. P \in SUBSET (1..Sizes[chunk']) /\ P \in SUBSET (1..MaxJobs) /\ IsFiniteSet(P)
    <2>1. P \in SUBSET (1..Sizes[chunk'])
      BY DEF ToProbe
    <2> QED BY <1>1, <1>2, <2>1, PlacesFit, BatchFits
  <1>4. Batch(P)
    BY <1>1 DEF FetchChunk
  <1>5. \A k \in P : truth[<<chunk', k>>] # "unread" /\ <<chunk', k>> \in Lockable
    BY DEF ToProbe
  <1>6. \A k \in 1..Sizes[chunk'] :
          truth[<<chunk', k>>] # "unread" /\ <<chunk', k>> \in Lockable => k \in P
    BY DEF ToProbe
  <1>7. \A k \in 1..Sizes[chunk'] : got[<<chunk', k>>] = "nothing"
    <2>1. \A k \in 1..Sizes[chunk'] : <<chunk', k>> \in Files /\ chunk' > chunk
      BY <1>1, <1>2 DEF Files, SweepTypeOK
    <2> QED BY <2>1 DEF ChunkInv
  <1> HIDE DEF P
  <1>8. /\ \A i \in 1..size' : batch'[i] \in P
        /\ \A k \in P : InBatch(k)'
        /\ \A i \in Jobs : job'[i] = "new"
        /\ size' = Cardinality(P)
    BY <1>3, <1>4, BatchPlaces
  <1>9. 1..size' \subseteq Jobs
    BY <1>1, <1>2, <1>3, <1>8, BatchFits, EachAssumption DEF Jobs
  <1> QED BY <1>1, <1>3, <1>5, <1>6, <1>7, <1>8, <1>9 DEF BatchInv, File

LEMMA BatchPlays ==
  ASSUME SweepInv, PlayChunk
  PROVE  BatchInv'
  <1> USE DEF SweepInv
  <1>1. chunk' = chunk /\ chunk \in 1..LastChunk /\ stage' = "playing" /\ UNCHANGED <<truth, got>>
    BY SweepAssumption DEF PlayChunk, SweepTypeOK, StageInv
  <1>2. Sizes[chunk] \in 0..MaxJobs /\ MaxJobs \in Nat
    BY <1>1, SweepAssumption, EachAssumption
  <1> DEFINE P == ToPlay(chunk)
  <1>3. P \in SUBSET (1..Sizes[chunk]) /\ P \in SUBSET (1..MaxJobs) /\ IsFiniteSet(P)
    <2>1. P \in SUBSET (1..Sizes[chunk])
      BY DEF ToPlay
    <2> QED BY <1>1, <1>2, <2>1, PlacesFit, BatchFits
  <1>4. Batch(P)
    BY DEF PlayChunk
  <1>5. stage = "probing" /\ \A i \in 1..size : job[i] = "done"
    BY NotDoomed DEF PlayChunk
  <1>6. \A k \in 1..Sizes[chunk] : <<chunk, k>> \in Files
    BY <1>1, <1>2 DEF Files
  <1>7. ASSUME NEW k \in P
        PROVE  truth[<<chunk, k>>] \notin {"unread", "locked"}
    <2>1. k \in 1..Sizes[chunk] /\ truth[<<chunk, k>>] # "unread"
                             /\ got[<<chunk, k>>] \in {"nothing", "read"}
      BY DEF ToPlay
    <2>2. CASE got[<<chunk, k>>] = "read"
      BY <1>6, <2>1, <2>2 DEF GotInv
    <2>3. CASE got[<<chunk, k>>] = "nothing" /\ <<chunk, k>> \in Lockable
      <3>1. PICK i \in 1..size : batch[i] = k
        BY <1>5, <2>1, <2>3 DEF BatchInv, InBatch
      <3>2. got[File(i)] \in {"read", "locked", "error"}
        BY <1>5 DEF BatchInv, ReadTo
      <3> QED BY <2>3, <3>1, <3>2 DEF File
    <2>4. CASE <<chunk, k>> \notin Lockable
      BY <1>6, <2>1, <2>4, SweepAssumption DEF SweepTypeOK
    <2> QED BY <2>1, <2>2, <2>3, <2>4
  <1>8. \A k \in 1..Sizes[chunk] :
          truth[<<chunk, k>>] # "unread" =>
            got[<<chunk, k>>] \in {"locked", "error", "clean", "damaged"} \/ k \in P
    BY <1>6 DEF ToPlay, SweepTypeOK
  <1> HIDE DEF P
  <1>9. /\ \A i \in 1..size' : batch'[i] \in P
        /\ \A k \in P : InBatch(k)'
        /\ \A i \in Jobs : job'[i] = "new"
        /\ size' = Cardinality(P)
    BY <1>3, <1>4, BatchPlaces
  <1>10. 1..size' \subseteq Jobs
    BY <1>1, <1>2, <1>3, <1>9, BatchFits, EachAssumption DEF Jobs
  <1> QED BY <1>1, <1>3, <1>7, <1>8, <1>9, <1>10 DEF BatchInv, File

(* A step that reads one file reads what its batch reads.                  *)
LEMMA ReadOne ==
  ASSUME SweepTypeOK, EachInv, StageInv, BatchInv, NEW i \in Jobs, Probe(i) \/ EndDecode(i)
  PROVE  /\ stage \in {"probing", "playing"} /\ File(i) \in Files /\ i \in 1..size
         /\ UNCHANGED <<truth, stage, chunk, batch, size>>
         /\ got'[File(i)] \in ReadTo
         /\ \A f \in Files : f # File(i) => got'[f] = got[f]
         /\ stage = "probing" => File(i) \in Lockable
         /\ \A j \in Jobs : j # i => job'[j] = job[j]
  <1>1. /\ stage \in {"probing", "playing"} /\ job[i] = "running"
        /\ UNCHANGED <<truth, stage, chunk, batch>>
        /\ EndsWell(i) \/ EndsBadly(i)
    BY DEF Probe, EndDecode, Playing, JobEnds
  <1>2. File(i) \in Files /\ i \in 1..size
    BY <1>1, JobsFile
  <1>3. PICK what \in ReadTo : Got(i, what)
    BY <1>1 DEF Probe, EndDecode, Playing, ReadTo
  <1>4. got'[File(i)] = what /\ \A f \in Files : f # File(i) => got'[f] = got[f]
    BY <1>2, <1>3 DEF Got, SweepTypeOK
  <1>5. stage = "probing" => File(i) \in Lockable
    BY <1>1, <1>2 DEF BatchInv
  <1>6. size' = size /\ \A j \in Jobs : j # i => job'[j] = job[j]
    BY <1>1 DEF EndsWell, EndsBadly, Becomes, EachInv, TypeOK
  <1> QED BY <1>1, <1>2, <1>4, <1>5, <1>6

LEMMA BatchStep ==
  ASSUME SweepInv, SweepNext
  PROVE  BatchInv'
  <1> USE DEF SweepInv
  <1>1. CASE FetchChunk
    BY <1>1, BatchProbes
  <1>2. CASE PlayChunk
    BY <1>2, BatchPlays
  <1>3. CASE List \/ FetchFails \/ NextChunk \/ BatchFails \/ Close \/ AnswerOrFail
    <2>1. stage' \notin {"probing", "playing"}
      BY <1>3 DEF List, FetchFails, NextChunk, BatchFails, Close, AnswerOrFail
    <2> QED BY <2>1 DEF BatchInv
  <1>4. ASSUME NEW i \in Jobs, Probe(i) \/ EndDecode(i)
        PROVE  BatchInv'
    <2>1. /\ stage \in {"probing", "playing"} /\ File(i) \in Files /\ i \in 1..size
          /\ UNCHANGED <<truth, stage, chunk, batch, size>>
          /\ got'[File(i)] \in ReadTo
          /\ \A f \in Files : f # File(i) => got'[f] = got[f]
          /\ stage = "probing" => File(i) \in Lockable
          /\ \A j \in Jobs : j # i => job'[j] = job[j]
      BY <1>4, ReadOne
    <2>2. 1..size \subseteq Jobs
      BY EachAssumption DEF EachInv, TypeOK, Jobs
    <2> QED BY <2>1, <2>2, BatchFrame
  <1>5. ASSUME UNCHANGED <<truth, chunk, batch, stage, size, got>>,
               \A i \in Jobs : job'[i] \notin {"new", "running"} =>
                                 job[i] \notin {"new", "running"}
        PROVE  BatchInv'
    <2>1. CASE stage \in {"probing", "playing"}
      <3>1. 1..size \subseteq Jobs
        BY EachAssumption DEF EachInv, TypeOK, Jobs
      <3> QED BY <1>5, <2>1, <3>1, BatchFrame
    <2>2. CASE stage \notin {"probing", "playing"}
      BY <1>5, <2>2 DEF BatchInv
    <2> QED BY <2>1, <2>2
  <1>6. CASE RunLoop
    <2>1. UNCHANGED <<truth, chunk, batch, stage, size, got>>
      BY <1>6 DEF RunLoop, sweepVars, Loop, TakeSlot, SeeDone, Start, Break, Return
    <2>2. \A i \in Jobs : job'[i] # job[i] => job'[i] = "running"
      BY <1>6 DEF RunLoop, Loop, TakeSlot, SeeDone, Start, Break, Return, Becomes, EachInv, TypeOK
    <2> QED BY <2>1, <2>2, <1>5
  <1>7. ASSUME NEW i \in Jobs, RunInner(i)
        PROVE  BatchInv'
    <2>1. UNCHANGED <<truth, chunk, batch, stage, size, got>>
      BY <1>7 DEF RunInner, sweepVars, Inner, KeepError, Cancel, NotFirst, FreeSlot, Gone
    <2>2. \A j \in Jobs : job'[j] # job[j] => job[j] \notin {"new", "running"}
      BY <1>7 DEF RunInner, Inner, KeepError, Cancel, NotFirst, FreeSlot, Gone, Becomes, EachInv,
                  TypeOK
    <2> QED BY <2>1, <2>2, <1>5
  <1>8. CASE ProxyDies \/ ProxyStopped \/ RequestEnds
    BY <1>8, <1>5 DEF ProxyDies, ProxyStopped, RequestEnds, CallerEnds, vars
  <1>9. ASSUME NEW i \in Jobs, FFmpeg(i)
        PROVE  BatchInv'
    BY <1>9, <1>5 DEF FFmpeg, StartFFmpeg, AskProxy, PlayFile, NoteFailure, ReplyEnds, Kill,
                      FFmpegRuns, vars
  <1> QED BY <1>1, <1>2, <1>3, <1>4, <1>6, <1>7, <1>8, <1>9 DEF SweepNext, Sweep, Job

(* A chunk whose batches are done is judged whole.                         *)
LEMMA ChunkJudged ==
  ASSUME SweepInv, NextChunk, NEW f \in Files, f[1] = chunk
  PROVE  Judging(f)
  <1> USE DEF SweepInv
  <1>1. stage = (IF Decode THEN "playing" ELSE "probing") /\ \A i \in 1..size : job[i] = "done"
    BY NotDoomed DEF NextChunk
  <1>2. f = <<chunk, f[2]>> /\ f[2] \in 1..Sizes[chunk]
    BY SweepAssumption, EachAssumption DEF Files
  <1>3. \A i \in 1..size : got[File(i)] \in ReadTo
    BY <1>1 DEF BatchInv
  <1>4. ASSUME truth[f] # "unread", InBatch(f[2])
        PROVE  got[f] \in ReadTo
    <2>1. PICK i \in 1..size : batch[i] = f[2]
      BY <1>4 DEF InBatch
    <2>2. File(i) = f
      BY <1>2, <2>1 DEF File
    <2> QED BY <1>3, <2>2
  <1>5. truth[f] # "unread" =>
          /\ stage = "probing" => IF f \in Lockable THEN InBatch(f[2]) ELSE got[f] = "nothing"
          /\ stage = "playing" =>
               got[f] \in {"locked", "error", "clean", "damaged"} \/ InBatch(f[2])
    BY <1>1, <1>2 DEF BatchInv
  <1> QED BY <1>1, <1>4, <1>5 DEF Judging, ReadTo

LEMMA ChunkStep ==
  ASSUME SweepInv, SweepNext
  PROVE  ChunkInv'
  <1> USE DEF SweepInv
  <1>0. \A f \in Files : f[1] \in 1..LastChunk
    BY DEF Files
  <1>1. CASE FetchChunk
    <2>1. chunk' = chunk + 1 /\ chunk \in Nat /\ stage = "chunks" /\ stage' = "probing"
          /\ UNCHANGED <<truth, got>>
      BY <1>1, SweepAssumption DEF FetchChunk, SweepTypeOK
    <2>2. ASSUME NEW f \in Files
          PROVE  /\ f[1] > chunk' => got[f] = "nothing"
                 /\ f[1] < chunk' => Judging(f)
      <3>1. f[1] \in Nat
        BY <1>0, SweepAssumption
      <3> QED BY <2>1, <3>1, SweepAssumption DEF ChunkInv
    <2> QED BY <2>1, <2>2 DEF ChunkInv, Judging
  <1>2. CASE NextChunk
    <2>1. UNCHANGED <<truth, got, chunk>> /\ stage' = "chunks"
      BY <1>2 DEF NextChunk
    <2>2. \A f \in Files : f[1] = chunk => Judging(f)
      BY <1>2, ChunkJudged
    <2> QED BY <2>1, <2>2 DEF ChunkInv, Judging
  <1>3. CASE List
    <2>1. UNCHANGED <<truth, got, chunk>> /\ chunk = 0
      BY <1>3 DEF List, StageInv
    <2> QED BY <1>0, <2>1, SweepAssumption DEF ChunkInv, Judging
  <1>4. CASE FetchFails \/ BatchFails \/ Close \/ AnswerOrFail \/ PlayChunk
    <2>1. UNCHANGED <<truth, got, chunk>>
      BY <1>4 DEF FetchFails, BatchFails, Close, AnswerOrFail, PlayChunk
    <2>2. stage' \in {"chunks", "closing", "answered"} => stage \in {"chunks", "closing", "answered"}
      BY <1>4 DEF FetchFails, BatchFails, Close, AnswerOrFail, PlayChunk
    <2> QED BY <2>1, <2>2 DEF ChunkInv, Judging
  <1>5. ASSUME NEW i \in Jobs, Probe(i) \/ EndDecode(i)
        PROVE  ChunkInv'
    <2>1. /\ stage \in {"probing", "playing"}
          /\ UNCHANGED <<truth, stage, chunk>>
          /\ \A f \in Files : f # File(i) => got'[f] = got[f]
      BY <1>5, ReadOne
    <2>2. \A f \in Files : f[1] # chunk => f # File(i)
      BY DEF File
    <2>3. chunk \in Nat
      BY SweepAssumption DEF SweepTypeOK
    <2> QED BY <1>0, <2>1, <2>2, <2>3, SweepAssumption DEF ChunkInv, Judging
  <1>6. CASE UNCHANGED <<truth, stage, chunk, got>>
    BY <1>6 DEF ChunkInv, Judging
  <1>7. CASE RunLoop \/ ProxyDies \/ ProxyStopped \/ RequestEnds
    BY <1>6, <1>7 DEF RunLoop, ProxyDies, ProxyStopped, RequestEnds, sweepVars
  <1>8. ASSUME NEW i \in Jobs, FFmpeg(i) \/ RunInner(i)
        PROVE  ChunkInv'
    BY <1>6, <1>8 DEF FFmpeg, StartFFmpeg, AskProxy, PlayFile, NoteFailure, ReplyEnds, Kill,
                      FFmpegRuns, RunInner, sweepVars
  <1> QED BY <1>1, <1>2, <1>3, <1>4, <1>5, <1>7, <1>8 DEF SweepNext, Sweep, Job

-----------------------------------------------------------------------------
LEMMA SweepStart ==
  ASSUME SweepInit
  PROVE  SweepInv
  <1> USE SweepAssumption, EachAssumption DEF SweepInit
  <1>1. EachInv
    BY EachInit
  <1>2. SweepTypeOK
    <2>1. TypeOK /\ size = 0
      BY <1>1 DEF EachInv, Init
    <2>2. batch \in [1..size -> 1..MaxJobs]
      BY <2>1
    <2>3. chunk \in 0..LastChunk /\ proxy \in {"up", "dead", "stopped", "shut"}
      OBVIOUS
    <2>4. got \in [Files -> {"nothing", "read", "locked", "error", "clean", "damaged"}]
      OBVIOUS
    <2>5. /\ ff \in [Jobs -> {"none", "asking", "fetching", "noted", "played", "complained", "died"}]
          /\ note \in [Jobs -> {"none", "gone", "broke"}]
      OBVIOUS
    <2>6. truth \in Truths /\ gone \in BOOLEAN /\ stage = "listing"
      OBVIOUS
    <2> QED BY ONLY <2>1, <2>2, <2>3, <2>4, <2>5, <2>6 DEF SweepTypeOK
  <1>3. StageInv /\ GotInv /\ DecodeInv /\ BatchInv
    BY DEF StageInv, GotInv, DecodeInv, BatchInv, Init, Ended
  <1>4. ChunkInv
    <2>1. \A f \in Files : f[1] \in 1..LastChunk
      BY DEF Files
    <2> QED BY <2>1 DEF ChunkInv
  <1> QED BY <1>1, <1>2, <1>3, <1>4 DEF SweepInv

LEMMA SweepStep ==
  ASSUME SweepInv, [SweepNext]_allVars
  PROVE  SweepInv'
  <1>1. CASE SweepNext
    <2>1. EachInv'
      BY <1>1, SweepIsEach, EachStep DEF SweepInv
    <2>2. SweepTypeOK'
      BY <1>1, <2>1, SweepTypeStep DEF SweepInv, EachInv
    <2> QED BY <1>1, <2>1, <2>2, StageStep, GotStep, DecodeStep, BatchStep, ChunkStep DEF SweepInv
  <1>2. CASE UNCHANGED allVars
    <2>1. UNCHANGED <<vars, truth, stage, chunk, batch, got, ff, note, proxy, gone>>
      BY <1>2 DEF allVars, sweepVars
    <2>2. EachInv'
      BY <2>1, EachStep DEF SweepInv
    <2>3. UNCHANGED <<size, job, cause, first, at>>
      BY <2>1 DEF vars
    <2>4. SweepTypeOK' /\ StageInv'
      BY <2>1, <2>2, <2>3 DEF SweepInv, EachInv, SweepTypeOK, StageInv
    <2>5. GotInv' /\ ChunkInv'
      BY <2>1, <2>3 DEF SweepInv, GotInv, ChunkInv, Judging, ProxyLost, Doomed, BatchDoomed
    <2>6. DecodeInv' /\ BatchInv'
      BY <2>1, <2>3 DEF SweepInv, DecodeInv, DecodeSo, BatchInv, InBatch, ReadTo, File, ProxyLost
    <2> QED BY <2>2, <2>4, <2>5, <2>6 DEF SweepInv
  <1> QED BY <1>1, <1>2

THEOREM SweepInvariant == SweepSpec => []SweepInv
  BY SweepStart, SweepStep, PTL DEF SweepSpec

(* Every variable of the audit and of its batches keeps its type.          *)
THEOREM TypeCorrect == SweepSpec => []SweepTypeOK
  BY SweepInvariant, PTL DEF SweepInv

(* However long the batch, no more than Workers of its jobs run at once,   *)
(* though an ended context leaves a slot taken by nobody.                  *)
THEOREM WorkersBound == SweepSpec => []AtMostWorkers
  <1>1. SweepInv => AtMostWorkers
    <2> SUFFICES ASSUME SweepInv
                 PROVE  AtMostWorkers
      OBVIOUS
    <2>1. Cardinality(Holders) \in Nat
      BY HoldersFinite
    <2>2. slots \in 0..Workers /\ Workers \in Nat /\ Cardinality(Holders) + Promised <= slots
      BY EachAssumption DEF SweepInv, EachInv, TypeOK, SlotInv
    <2>3. Promised \in {0, 1}
      BY DEF Promised
    <2> QED BY <2>1, <2>2, <2>3 DEF AtMostWorkers
  <1> QED BY <1>1, SweepInvariant, PTL

(* When a run has returned none of its jobs is alive: what they wrote is   *)
(* read with no lock.                                                      *)
THEOREM JobsJoined == SweepSpec => []NoneOutlives
  BY SweepInvariant, PTL DEF SweepInv, EachInv

(* A run that returns no error ran every job, and none of them failed.     *)
THEOREM NilIsAll == SweepSpec => []NilMeansAll
  <1>1. SweepInv => NilMeansAll
    BY NotDoomed DEF SweepInv, NilMeansAll
  <1> QED BY <1>1, SweepInvariant, PTL

(* An audit that answers judged every file by what that file is, whatever  *)
(* the server, the proxy and the caller did, for any chunks and files.     *)
THEOREM AnswersTrue == SweepSpec => []AnswersByTheFiles
  <1>1. ASSUME SweepInv, stage = "answered", NEW f \in Files
        PROVE  Judged(f) = Deserves(f)
    <2> USE DEF SweepInv
    <2>1. f[1] \in 1..LastChunk /\ chunk = LastChunk /\ ~ProxyLost /\ ~Doomed
      BY <1>1 DEF Files, StageInv, ProxyLost, Doomed
    <2>2. Judging(f)
      BY <1>1, <2>1, SweepAssumption DEF ChunkInv
    <2>3. /\ got[f] = "locked"  => truth[f] = "locked"
          /\ got[f] = "read"    => truth[f] \in {"sound", "damaged"}
          /\ got[f] = "clean"   => truth[f] = "sound"
          /\ got[f] = "damaged" => truth[f] = "damaged"
          /\ got[f] = "error"   => truth[f] = "gone"
      BY <1>1, <2>1 DEF GotInv
    <2>4. truth[f] \in Kinds /\ (truth[f] = "locked" => f \in Lockable)
      BY <1>1, SweepAssumption DEF SweepTypeOK
    <2>5. CASE truth[f] = "unread"
      BY <2>5 DEF Judged, Deserves
    <2>6. CASE truth[f] # "unread" /\ Decode
      BY <2>2, <2>3, <2>4, <2>6 DEF Judged, Deserves, Judging, Kinds
    <2>7. CASE truth[f] # "unread" /\ ~Decode
      BY <2>2, <2>3, <2>4, <2>7 DEF Judged, Deserves, Judging, Kinds
    <2> QED BY <2>5, <2>6, <2>7
  <1>2. SweepInv => AnswersByTheFiles
    BY <1>1 DEF AnswersByTheFiles
  <1> QED BY <1>2, SweepInvariant, PTL

(* The batch that begins has no file twice.                                *)
LEMMA BatchOnce ==
  ASSUME NEW P \in SUBSET (1..MaxJobs), IsFiniteSet(P), Batch(P)
  PROVE  \A i, j \in 1..size' : batch'[i] = batch'[j] => i = j
  <1>1. Cardinality(P) \in Nat /\ size' = Cardinality(P)
    BY FS_CardinalityType, BatchPlaces
  <1>2. PICK b \in [1..Cardinality(P) -> P] :
          /\ \A i, j \in DOMAIN b : i < j => b[i] < b[j]
          /\ batch' = b
    BY DEF Batch
  <1>3. ASSUME NEW i \in 1..size', NEW j \in 1..size', i # j
        PROVE  b[i] # b[j]
    <2>0. i \in 1..Cardinality(P) /\ j \in 1..Cardinality(P)
      BY <1>1
    <2>1. b[i] \in P /\ b[j] \in P /\ i \in Int /\ j \in Int
      BY <1>1, <1>2, <2>0
    <2>2. i < j \/ j < i
      BY <1>3, <2>1
    <2>3. b[i] < b[j] \/ b[j] < b[i]
      BY <1>2, <2>0, <2>2
    <2>4. P \subseteq Int
      BY EachAssumption
    <2>5. b[i] \in Int /\ b[j] \in Int
      BY <2>1, <2>4
    <2> QED BY ONLY <2>3, <2>5
  <1> QED BY <1>2, <1>3

LEMMA UnreadStep ==
  ASSUME SweepInv, UnreadInv, SweepNext
  PROVE  UnreadInv'
  <1> USE DEF SweepInv
  <1>1. ASSUME NEW P \in SUBSET (1..MaxJobs), IsFiniteSet(P), Batch(P), chunk' \in 1..LastChunk,
               \A k \in P : got'[<<chunk', k>>] \in {"nothing", "read"}
        PROVE  UnreadInv'
    BY <1>1, BatchOnce, BatchPlaces DEF UnreadInv, File
  <1>2. CASE FetchChunk
    <2>1. chunk' = chunk + 1 /\ chunk' \in 1..LastChunk /\ got' = got
      BY <1>2, SweepAssumption DEF FetchChunk, SweepTypeOK
    <2>2. Sizes[chunk'] \in 0..MaxJobs /\ MaxJobs \in Nat
      BY <2>1, SweepAssumption, EachAssumption
    <2>3. ToProbe(chunk') \in SUBSET (1..Sizes[chunk'])
      BY DEF ToProbe
    <2>4. ToProbe(chunk') \in SUBSET (1..MaxJobs) /\ IsFiniteSet(ToProbe(chunk'))
      BY <2>2, <2>3, BatchFits
    <2>5. \A k \in ToProbe(chunk') : <<chunk', k>> \in Files /\ chunk' > chunk
      BY <2>1, <2>2, <2>3 DEF Files, SweepTypeOK
    <2>6. \A k \in ToProbe(chunk') : got'[<<chunk', k>>] = "nothing"
      BY <2>1, <2>5 DEF ChunkInv
    <2>7. Batch(ToProbe(chunk'))
      BY <1>2, <2>1 DEF FetchChunk
    <2> QED BY <1>1, <2>1, <2>4, <2>6, <2>7
  <1>3. CASE PlayChunk
    <2>1. chunk' = chunk /\ chunk \in 1..LastChunk /\ got' = got
      BY <1>3, SweepAssumption DEF PlayChunk, SweepTypeOK, StageInv
    <2>2. Sizes[chunk] \in 0..MaxJobs /\ MaxJobs \in Nat
      BY <2>1, SweepAssumption, EachAssumption
    <2>3. ToPlay(chunk) \in SUBSET (1..Sizes[chunk])
      BY DEF ToPlay
    <2>4. ToPlay(chunk) \in SUBSET (1..MaxJobs) /\ IsFiniteSet(ToPlay(chunk))
      BY <2>2, <2>3, BatchFits
    <2>5. \A k \in ToPlay(chunk) : got'[<<chunk', k>>] \in {"nothing", "read"}
      BY <2>1 DEF ToPlay
    <2>6. Batch(ToPlay(chunk))
      BY <1>3 DEF PlayChunk
    <2> QED BY <1>1, <2>1, <2>4, <2>5, <2>6
  <1>4. CASE List \/ FetchFails \/ NextChunk \/ BatchFails \/ Close \/ AnswerOrFail
    <2>1. stage' \notin {"probing", "playing"}
      BY <1>4 DEF List, FetchFails, NextChunk, BatchFails, Close, AnswerOrFail
    <2> QED BY <2>1 DEF UnreadInv
  <1>5. ASSUME NEW i \in Jobs, Probe(i) \/ EndDecode(i)
        PROVE  UnreadInv'
    <2>1. /\ stage \in {"probing", "playing"} /\ File(i) \in Files /\ i \in 1..size
          /\ UNCHANGED <<stage, chunk, batch, size>>
          /\ \A f \in Files : f # File(i) => got'[f] = got[f]
          /\ \A j \in Jobs : j # i => job'[j] = job[j]
      BY <1>5, ReadOne
    <2>2. job'[i] \notin {"new", "running"}
      BY <1>5 DEF Probe, EndDecode, JobEnds, EndsWell, EndsBadly, Becomes, EachInv, TypeOK
    <2>3. ASSUME NEW j \in 1..size, job'[j] \in {"new", "running"}
          PROVE  got'[File(j)] \in {"nothing", "read"}
      <3>1. j \in Jobs /\ j # i
        BY <2>2, <2>3, EachAssumption DEF EachInv, TypeOK, Jobs
      <3>2. File(j) # File(i)
        BY <2>1, <3>1 DEF UnreadInv, File
      <3>3. got[File(j)] \in {"nothing", "read"}
        BY <2>1, <2>3, <3>1 DEF UnreadInv
      <3>4. File(j) \in Files
        <4>1. batch[j] \in 1..Sizes[chunk]
          BY <2>1 DEF BatchInv
        <4>2. chunk \in 1..LastChunk /\ Sizes[chunk] \in 0..MaxJobs
          BY <2>1, SweepAssumption DEF SweepTypeOK, StageInv
        <4> QED BY <4>1, <4>2, EachAssumption DEF File, Files
      <3> QED BY <2>1, <3>2, <3>3, <3>4
    <2> QED BY <2>1, <2>3 DEF UnreadInv, File
  <1>6. ASSUME UNCHANGED <<chunk, batch, stage, size, got>>,
               \A i \in Jobs : job'[i] \in {"new", "running"} => job[i] \in {"new", "running"}
        PROVE  UnreadInv'
    <2>1. 1..size \subseteq Jobs
      BY EachAssumption DEF EachInv, TypeOK, Jobs
    <2> QED BY <1>6, <2>1 DEF UnreadInv, File
  <1>7. CASE RunLoop
    <2>1. UNCHANGED <<chunk, batch, stage, size, got>>
      BY <1>7 DEF RunLoop, sweepVars, Loop, TakeSlot, SeeDone, Start, Break, Return
    <2>2. CASE Start
      <3>1. next \in Jobs => job[next] = "new"
        BY DEF EachInv, StartedInv, TypeOK, Jobs
      <3> QED BY <1>6, <2>1, <2>2, <3>1 DEF Start, Becomes, EachInv, TypeOK
    <2>3. CASE job' = job
      BY <1>6, <2>1, <2>3
    <2> QED BY <1>7, <2>2, <2>3 DEF RunLoop, Loop, TakeSlot, SeeDone, Break, Return
  <1>8. ASSUME NEW i \in Jobs, RunInner(i)
        PROVE  UnreadInv'
    <2>1. UNCHANGED <<chunk, batch, stage, size, got>>
      BY <1>8 DEF RunInner, sweepVars, Inner, KeepError, Cancel, NotFirst, FreeSlot, Gone
    <2>2. \A j \in Jobs : job'[j] # job[j] => job'[j] \notin {"new", "running"}
      BY <1>8 DEF RunInner, Inner, KeepError, Cancel, NotFirst, FreeSlot, Gone, Becomes, EachInv,
                  TypeOK
    <2> QED BY <1>6, <2>1, <2>2
  <1>9. CASE ProxyDies \/ ProxyStopped \/ RequestEnds
    BY <1>6, <1>9 DEF ProxyDies, ProxyStopped, RequestEnds, CallerEnds, vars
  <1>10. ASSUME NEW i \in Jobs, FFmpeg(i)
         PROVE  UnreadInv'
    BY <1>6, <1>10 DEF FFmpeg, StartFFmpeg, AskProxy, PlayFile, NoteFailure, ReplyEnds, Kill,
                       FFmpegRuns, vars
  <1> QED BY <1>2, <1>3, <1>4, <1>5, <1>7, <1>8, <1>9, <1>10 DEF SweepNext, Sweep, Job

(* What was read of a file is written while its batch runs, and only once  *)
(* but for the playing of what a probe could read.                         *)
THEOREM WrittenInTime == SweepSpec => VerdictsStand
  <1>1. SweepInit => UnreadInv
    BY DEF SweepInit, UnreadInv
  <1>2. SweepInv /\ UnreadInv /\ [SweepNext]_allVars => UnreadInv'
    <2>1. UNCHANGED allVars /\ UnreadInv => UnreadInv'
      BY DEF allVars, vars, sweepVars, UnreadInv, File
    <2> QED BY <2>1, UnreadStep
  <1>3. ASSUME SweepInv, UnreadInv, SweepNext, NEW f \in Files, got'[f] # got[f]
        PROVE  at # "out" /\ got[f] \in {"nothing", "read"}
    <2> USE <1>3 DEF SweepInv
    <2>1. PICK i \in Jobs : Probe(i) \/ EndDecode(i)
      BY DEF SweepNext, Sweep, List, FetchChunk, FetchFails, PlayChunk, NextChunk,
         BatchFails, Close, AnswerOrFail, RunLoop, Job, FFmpeg, StartFFmpeg, AskProxy,
         PlayFile, NoteFailure, ReplyEnds, Kill, RunInner, FFmpegRuns, ProxyDies,
         ProxyStopped, RequestEnds, sweepVars
    <2>2. job[i] = "running"
      BY <2>1 DEF Probe, EndDecode, Playing
    <2>3. at # "out"
      BY <2>2 DEF EachInv, NoneOutlives, Alive, Holding
    <2>4. f = File(i) /\ i \in 1..size /\ stage \in {"probing", "playing"}
      BY <2>1, ReadOne
    <2> QED BY <2>2, <2>3, <2>4 DEF UnreadInv
  <1>4. SweepInv /\ UnreadInv /\ [SweepNext]_allVars =>
          [\A f \in Files : got'[f] # got[f] => at # "out" /\ got[f] \in {"nothing", "read"}]_allVars
    BY <1>3
  <1> QED BY <1>1, <1>2, <1>4, SweepInvariant, PTL DEF SweepSpec, VerdictsStand

-----------------------------------------------------------------------------
(***************************************************************************)
(* The podcast tools.                                                      *)
(***************************************************************************)
(* What is known of a call by the step it is at: the podcast it fetches    *)
(* for stays subscribed, an edit or a delete has its episode, what the     *)
(* podcast holds the call saw or it came since, and none of what it asks   *)
(* for was seen; a podcast stood by a feed only if it has the feed.        *)
ShowInv ==
  \A c \in Calls : pc[c] \in {"feed", "queue", "send", "check"} => shows[req[c].show] # Nothing

OnInv == \A c \in Calls : pc[c] \in {"update", "delete", "deletion"} => on[c] \in Ids

HeldInv ==
  \A c \in Calls : pc[c] \in {"feed", "queue", "send"} =>
    \A n \in HeldOf(req[c].show) : n \in HeldEntries(c) \/ <<req[c].show, n>> \in came[c]

PickInv == \A c \in Calls : pc[c] = "send" => pick[c] \cap HeldEntries(c) = {}

StoodInv ==
  \A c \in Calls : stood[c] \subseteq Subscribed(c) /\ (pc[c] = "create" => stood[c] = {})

PodcastsInv == PodcastsTypeOK /\ ShowInv /\ OnInv /\ HeldInv /\ PickInv /\ StoodInv

(* A finite set as a sequence is a sequence of all of it.                  *)
LEMMA SeqOfSet ==
  ASSUME NEW S, IsFiniteSet(S)
  PROVE  SetToSeq(S) \in Seq(S) /\ ToSet(SetToSeq(S)) = S
  <1> DEFINE n == Cardinality(S)
             f == SetToSeq(S)
  <1>1. n \in Nat /\ ExistsBijection(1..n, S)
    BY FS_CardinalityType
  <1>2. \E g \in [1..n -> S] : IsInjective(g)
    BY <1>1 DEF ExistsBijection, Bijection, Injection
  <1>3. f \in [1..n -> S] /\ IsInjective(f)
    BY <1>2 DEF SetToSeq
  <1> HIDE DEF f
  <1>4. IsFiniteSet(1..n) /\ Cardinality(1..n) = n
    BY <1>1, FS_Interval
  <1>5. f \in Injection(1..n, S)
    BY <1>3 DEF Injection
  <1>6. f \in Surjection(1..n, S)
    BY <1>4, <1>5, FS_Injection
  <1>7. f \in Seq(S)
    BY <1>1, <1>3
  <1>8. ToSet(f) = S
    BY <1>3, <1>6 DEF ToSet, Surjection
  <1> QED BY <1>7, <1>8 DEF f

(* What is queued waits, whether it waited already or not.                 *)
LEMMA QueuedWaits ==
  ASSUME PodcastsTypeOK, NEW s \in Shows, NEW some \in SUBSET Entries, Queued(s, some)
  PROVE  /\ queue' \in Seq(Shows \X Entries)
         /\ \A n \in some : <<s, n>> \in ToSet(queue')
  <1> DEFINE new == {s} \X (some \ Waiting(s))
             add == SetToSeq(new)
  <1>1. IsFiniteSet(Entries)
    BY PodcastsAssumption, FS_Interval DEF Entries
  <1>2. IsFiniteSet(some \ Waiting(s)) /\ IsFiniteSet({s})
    BY <1>1, FS_Subset, FS_Singleton
  <1>3. IsFiniteSet(new)
    BY <1>2, FS_Product
  <1>4. add \in Seq(new) /\ ToSet(add) = new
    BY <1>3, SeqOfSet
  <1> HIDE DEF add
  <1>5. queue \in Seq(Shows \X Entries) /\ add \in Seq(Shows \X Entries)
    BY <1>4 DEF PodcastsTypeOK
  <1>6. queue' = queue \o add
    BY DEF Queued, add
  <1>7. ASSUME NEW e \in ToSet(queue) \cup ToSet(add)
        PROVE  e \in ToSet(queue')
    <2>1. CASE e \in ToSet(queue)
      <3>1. PICK i \in 1..Len(queue) : queue[i] = e
        BY <1>5, <2>1 DEF ToSet
      <3> QED BY <1>5, <1>6, <3>1 DEF ToSet
    <2>2. CASE e \in ToSet(add)
      <3>1. PICK i \in 1..Len(add) : add[i] = e
        BY <1>5, <2>2 DEF ToSet
      <3>2. queue'[Len(queue) + i] = e /\ Len(queue) + i \in 1..Len(queue')
        BY <1>5, <1>6, <3>1
      <3> QED BY <1>5, <1>6, <3>2 DEF ToSet
    <2> QED BY <1>7, <2>1, <2>2
  <1>8. ASSUME NEW n \in some
        PROVE  <<s, n>> \in ToSet(queue) \cup ToSet(add)
    BY <1>4 DEF Waiting
  <1> QED BY <1>5, <1>6, <1>7, <1>8

(* The steps that leave the server as it is.                               *)
Reads(c) ==
  \/ ReadShow(c) \/ ReadFeed(c) \/ ReadQueue(c) \/ FindEpisode(c) \/ Deleted(c)
  \/ ParseFeed(c) \/ LookThrough(c) \/ Refuse(c) \/ RequestFails(c)

Writes(c) ==
  \/ Send(c) \/ CheckNew(c) \/ Retitle(c) \/ Delete(c) \/ Create(c) \/ QueueLatest(c)

LEMMA RequestTypes ==
  ASSUME PodcastsTypeOK, NEW c \in Calls
  PROVE  /\ req[c] \in TurnRequests
         /\ req[c].show \in Shows /\ req[c].feed \in Feeds /\ req[c].title \in Entries
         /\ req[c].indexes \in SUBSET (0..MaxFeed) /\ req[c].latest \in 0..MaxFeed
  BY PodcastsAssumption DEF PodcastsTypeOK, Request

(* The types are kept.                                                     *)
LEMMA ReadsTypes ==
  ASSUME PodcastsTypeOK, ShowInv, NEW c \in Calls, Reads(c)
  PROVE  PodcastsTypeOK'
  <1> USE PodcastsAssumption, RequestTypes DEF Keeps, Go, Set, server, work, history
  <1>1. CASE ReadShow(c)
    BY <1>1 DEF ReadShow, PodcastsTypeOK, Here, Of, Steps, Answers
  <1>2. CASE ReadFeed(c)
    BY <1>2 DEF ReadFeed, PodcastsTypeOK, ShowInv, Steps, Answers
  <1>3. CASE ReadQueue(c)
    <2>1. Chosen(c) \subseteq Entries
      BY <1>3 DEF ReadQueue, Chosen, Entries, PodcastsTypeOK
    <2> QED BY <1>3, <2>1 DEF ReadQueue, PodcastsTypeOK, Steps, Answers
  <1>4. CASE FindEpisode(c)
    BY <1>4 DEF FindEpisode, PodcastsTypeOK, Steps, Answers
  <1>5. CASE Deleted(c) \/ LookThrough(c) \/ RequestFails(c)
    BY <1>5 DEF Deleted, LookThrough, RequestFails, PodcastsTypeOK, Steps, Answers
  <1>6. CASE ParseFeed(c)
    BY <1>6 DEF ParseFeed, PodcastsTypeOK, Subscribed, Steps, Answers
  <1>7. CASE Refuse(c)
    BY <1>7 DEF Refuse, Standing, PodcastsTypeOK, Steps, Answers
  <1> QED BY <1>1, <1>2, <1>3, <1>4, <1>5, <1>6, <1>7 DEF Reads

LEMMA WritesTypes ==
  ASSUME PodcastsTypeOK, ShowInv, OnInv, NEW c \in Calls, Writes(c)
  PROVE  PodcastsTypeOK'
  <1> USE PodcastsAssumption, RequestTypes DEF Keeps, Go, Set, work, history
  <1>1. CASE Send(c)
    <2>1. pick[c] \in SUBSET Entries
      BY DEF PodcastsTypeOK
    <2>2. queue' \in Seq(Shows \X Entries)
      BY <1>1, <2>1, QueuedWaits DEF Send
    <2> QED BY <1>1, <2>2 DEF Send, PodcastsTypeOK, Steps, Answers
  <1>2. CASE CheckNew(c)
    <2> DEFINE s == req[c].show
               last == published[shows[s]]
    <2>1. last \in 0..MaxFeed /\ checked[s] \in 0..MaxFeed
      BY <1>2 DEF CheckNew, ShowInv, PodcastsTypeOK
    <2>2. ((checked[s] + 1)..last) \ HeldOf(s) \in SUBSET Entries
      BY <2>1 DEF Entries
    <2>3. queue' \in Seq(Shows \X Entries)
      BY <1>2, <2>2, QueuedWaits DEF CheckNew
    <2> QED BY <1>2, <2>1, <2>3 DEF CheckNew, PodcastsTypeOK, Steps, Answers
  <1>3. CASE Retitle(c)
    <2>1. on[c] \in Ids /\ episodes[on[c]] \in Episode
      BY <1>3 DEF Retitle, OnInv, PodcastsTypeOK
    <2>2. [episodes[on[c]] EXCEPT !.title = req[c].title] \in Episode
      BY <2>1 DEF Episode
    <2>3. episodes' \in [Ids -> Episode \cup {Nothing}]
      BY <1>3, <2>2 DEF Retitle, PodcastsTypeOK
    <2> QED BY <1>3, <2>3 DEF Retitle, PodcastsTypeOK, Steps, Answers
  <1>4. CASE Delete(c)
    <2>1. episodes' \in [Ids -> Episode \cup {Nothing}]
      BY <1>4 DEF Delete, PodcastsTypeOK
    <2> QED BY <1>4, <2>1 DEF Delete, PodcastsTypeOK, Steps, Answers
  <1>5. CASE Create(c)
    <2>1. Newest(c) \in SUBSET Entries
      BY DEF Newest, Entries, PodcastsTypeOK
    <2>2. /\ shows' \in [Shows -> Feeds \cup {Nothing}] /\ checked' \in [Shows -> 0..MaxFeed]
          /\ stood' \in [Calls -> SUBSET Shows]
      BY <1>5 DEF Create, Subscribe, Standing, PodcastsTypeOK
    <2>3. pick' \in [Calls -> SUBSET Entries] /\ pc' \in [Calls -> Steps]
      <3>1. \/ pick' = [pick EXCEPT ![c] = Newest(c)]
               /\ pc' = [pc EXCEPT ![c] = IF Newest(c) = {} THEN "ok" ELSE "latest"]
            \/ pick' = pick /\ pc' = [pc EXCEPT ![c] = "failed"]
        BY <1>5 DEF Create
      <3>2. pc \in [Calls -> Steps] /\ pick \in [Calls -> SUBSET Entries]
        BY DEF PodcastsTypeOK
      <3> QED BY <2>1, <3>1, <3>2 DEF Steps, Answers
    <2> QED BY <1>5, <2>2, <2>3 DEF Create, PodcastsTypeOK
  <1>6. CASE QueueLatest(c)
    <2>1. pick[c] \in SUBSET Entries
      BY DEF PodcastsTypeOK
    <2>2. queue' \in Seq(Shows \X Entries)
      BY <1>6, <2>1, QueuedWaits DEF QueueLatest, PodcastsTypeOK
    <2> QED BY <1>6, <2>2 DEF QueueLatest, PodcastsTypeOK, Steps, Answers
  <1> QED BY <1>1, <1>2, <1>3, <1>4, <1>5, <1>6 DEF Writes

(* The steps of the server and of the web app.                             *)
Others ==
  DownloadEnds \/ DownloadFails \/ (\E f \in Feeds : Publish(f)) \/ WebChange

LEMMA OthersTypes ==
  ASSUME PodcastsTypeOK, Others
  PROVE  PodcastsTypeOK'
  <1> USE PodcastsAssumption DEF work, history
  <1>1. ASSUME queue # <<>>
        PROVE  Tail(queue) \in Seq(Shows \X Entries) /\ Head(queue) \in Shows \X Entries
    BY <1>1 DEF PodcastsTypeOK
  <1>2. CASE DownloadEnds
    <2>1. PICK i \in Ids \ born :
            LET s == Head(queue)[1]  n == Head(queue)[2] IN
              /\ born' = born \cup {i}
              /\ episodes' = [episodes EXCEPT ![i] = [show |-> s, entry |-> n, title |-> n]]
              /\ came' = [c \in Calls |-> came[c] \cup {<<s, n>>}]
      BY <1>2 DEF DownloadEnds
    <2>2. Head(queue)[1] \in Shows /\ Head(queue)[2] \in Entries
      BY <1>1, <1>2 DEF DownloadEnds
    <2>3. episodes' \in [Ids -> Episode \cup {Nothing}]
      BY <2>1, <2>2 DEF PodcastsTypeOK, Episode
    <2>4. came' \in [Calls -> SUBSET (Shows \X Entries)] /\ born' \subseteq Ids
      BY <2>1, <2>2 DEF PodcastsTypeOK
    <2> QED BY <1>1, <1>2, <2>3, <2>4 DEF DownloadEnds, PodcastsTypeOK
  <1>3. CASE DownloadFails
    BY <1>1, <1>3 DEF DownloadFails, PodcastsTypeOK
  <1>4. ASSUME NEW f \in Feeds, Publish(f)
        PROVE  PodcastsTypeOK'
    BY <1>4 DEF Publish, PodcastsTypeOK
  <1>5. CASE WebChange
    <2>1. /\ budget' \in 0..MaxOutside
          /\ UNCHANGED <<born, published, pc, req, held, listed, pick, on, came>>
      BY <1>5 DEF WebChange, PodcastsTypeOK
    <2>2. ASSUME NEW i \in Ids, episodes' = [episodes EXCEPT ![i] = Nothing],
                 UNCHANGED <<shows, checked, queue, stood>>
          PROVE  PodcastsTypeOK'
      BY <2>1, <2>2 DEF PodcastsTypeOK
    <2>3. ASSUME NEW s \in Shows, NEW f \in Feeds, Subscribe(s, f), UNCHANGED <<episodes, queue>>
          PROVE  PodcastsTypeOK'
      BY <2>1, <2>3 DEF Subscribe, Standing, PodcastsTypeOK
    <2>4. ASSUME NEW s \in Shows, shows[s] # Nothing, NEW n \in 1..published[shows[s]],
                 Queued(s, {n}), UNCHANGED <<shows, checked, episodes, stood>>
          PROVE  PodcastsTypeOK'
      <3>1. {n} \in SUBSET Entries
        BY <2>4 DEF Entries, PodcastsTypeOK
      <3>2. queue' \in Seq(Shows \X Entries)
        BY <2>4, <3>1, QueuedWaits
      <3> QED BY <2>1, <2>4, <3>2 DEF PodcastsTypeOK
    <2> QED BY <1>5, <2>2, <2>3, <2>4 DEF WebChange
  <1> QED BY <1>2, <1>3, <1>4, <1>5 DEF Others

(* A podcast once subscribed stays so, and one has a feed it had not only  *)
(* by having had none.                                                     *)
LEMMA ShowsStay ==
  ASSUME PodcastsTypeOK, PodcastsNext
  PROVE  /\ \A s \in Shows : shows[s] # Nothing => shows'[s] = shows[s]
         /\ \/ shows' = shows /\ stood' = stood
            \/ Standing
            \/ \E c \in Calls : ParseFeed(c)
  <1> USE DEF Keeps, server, history
  <1>1. ASSUME NEW c \in Calls, Step(c)
        PROVE  /\ \A s \in Shows : shows[s] # Nothing => shows'[s] = shows[s]
               /\ \/ shows' = shows /\ stood' = stood
                  \/ Standing
                  \/ ParseFeed(c)
    <2>1. CASE Create(c)
      BY <2>1, RequestTypes DEF Create, Subscribe, PodcastsTypeOK
    <2>2. CASE Refuse(c) \/ ParseFeed(c)
      BY <2>2 DEF Refuse, ParseFeed
    <2> QED BY <1>1, <2>1, <2>2
            DEF Step, ReadShow, ReadFeed, ReadQueue, Send, CheckNew, FindEpisode, Retitle,
                Delete, Deleted, LookThrough, QueueLatest, RequestFails
  <1>2. CASE DownloadEnds \/ DownloadFails \/ \E f \in Feeds : Publish(f)
    BY <1>2 DEF DownloadEnds, DownloadFails, Publish
  <1>3. CASE WebChange
    BY <1>3 DEF WebChange, Subscribe, PodcastsTypeOK
  <1> QED BY <1>1, <1>2, <1>3 DEF PodcastsNext

(* A step of a call is its own.                                            *)
LEMMA OwnStep ==
  ASSUME PodcastsTypeOK, NEW c \in Calls, Step(c)
  PROVE  /\ req' = req
         /\ \A d \in Calls \ {c} :
              /\ pc'[d] = pc[d] /\ held'[d] = held[d] /\ pick'[d] = pick[d]
              /\ on'[d] = on[d] /\ came'[d] = came[d]
  <1> USE DEF PodcastsTypeOK, Keeps, Go, Set, server, work, history
  <1>1. CASE ReadShow(c) \/ ReadFeed(c) \/ ReadQueue(c)
    BY <1>1 DEF ReadShow, ReadFeed, ReadQueue
  <1>2. CASE Send(c) \/ CheckNew(c)
    BY <1>2 DEF Send, CheckNew
  <1>3. CASE FindEpisode(c)
    BY <1>3 DEF FindEpisode
  <1>4. CASE Retitle(c) \/ Delete(c) \/ Deleted(c)
    BY <1>4 DEF Retitle, Delete, Deleted
  <1>5. CASE ParseFeed(c) \/ LookThrough(c)
    BY <1>5 DEF ParseFeed, LookThrough
  <1>6. CASE Create(c)
    BY <1>6 DEF Create
  <1>7. CASE QueueLatest(c) \/ Refuse(c) \/ RequestFails(c)
    BY <1>7 DEF QueueLatest, Refuse, RequestFails
  <1> QED BY <1>1, <1>2, <1>3, <1>4, <1>5, <1>6, <1>7 DEF Step

LEMMA OthersKeepCalls ==
  ASSUME Others
  PROVE  UNCHANGED <<pc, req, held, pick, on>>
  BY DEF Others, DownloadEnds, DownloadFails, Publish, WebChange, work

LEMMA ShowStep ==
  ASSUME PodcastsTypeOK, ShowInv, PodcastsNext
  PROVE  ShowInv'
  <1> SUFFICES ASSUME NEW d \in Calls, pc'[d] \in {"feed", "queue", "send", "check"}
               PROVE  shows'[req'[d].show] # Nothing
    BY DEF ShowInv
  <1>1. req[d].show \in Shows
    BY RequestTypes
  <1>2. req' = req
    BY OwnStep, OthersKeepCalls DEF PodcastsNext, Others
  <1>3. ASSUME shows[req[d].show] # Nothing
        PROVE  shows'[req'[d].show] # Nothing
    BY <1>1, <1>2, <1>3, ShowsStay
  <1>4. CASE pc[d] = pc'[d]
    BY <1>3, <1>4 DEF ShowInv
  <1>5. CASE pc[d] # pc'[d]
    <2>1. Step(d)
      BY <1>5, OwnStep, OthersKeepCalls DEF PodcastsNext, Others
    <2>2. ReadShow(d) \/ ReadFeed(d) \/ ReadQueue(d)
      BY <1>5, <2>1 DEF Step, Send, CheckNew, FindEpisode, Retitle, Delete, Deleted, ParseFeed,
        LookThrough, Create, QueueLatest, Refuse, RequestFails, Go, PodcastsTypeOK
    <2>3. shows[req[d].show] # Nothing
      BY <2>2 DEF ReadShow, ReadFeed, ReadQueue, ShowInv
    <2> QED BY <1>3, <2>3
  <1> QED BY <1>4, <1>5

LEMMA OnStep ==
  ASSUME PodcastsTypeOK, OnInv, PodcastsNext
  PROVE  OnInv'
  <1> SUFFICES ASSUME NEW d \in Calls, pc'[d] \in {"update", "delete", "deletion"}
               PROVE  on'[d] \in Ids
    BY DEF OnInv
  <1>1. CASE Step(d)
    <2>1. CASE FindEpisode(d)
      BY <2>1 DEF FindEpisode, Set, PodcastsTypeOK
    <2>2. CASE Delete(d)
      BY <2>2 DEF Delete, OnInv, Keeps, work
    <2> QED BY <1>1, <2>1, <2>2 DEF Step, ReadShow, ReadFeed, ReadQueue, Send, CheckNew, Retitle,
        Deleted, ParseFeed, LookThrough, Create, QueueLatest, Refuse, RequestFails, Go,
        PodcastsTypeOK
  <1>2. CASE ~Step(d)
    <2>1. pc'[d] = pc[d] /\ on'[d] = on[d]
      BY <1>2, OwnStep, OthersKeepCalls DEF PodcastsNext, Others
    <2> QED BY <2>1 DEF OnInv
  <1> QED BY <1>1, <1>2

(* An episode there is was there, whatever it is titled, or came just now. *)
LEMMA EpisodesStay ==
  ASSUME PodcastsTypeOK, OnInv, PodcastsNext, NEW i \in Ids, episodes'[i] # Nothing
  PROVE  \/ /\ episodes[i] # Nothing
            /\ episodes[i].show = episodes'[i].show /\ episodes[i].entry = episodes'[i].entry
         \/ \A d \in Calls : <<episodes'[i].show, episodes'[i].entry>> \in came'[d]
  <1>1. ASSUME NEW c \in Calls, Retitle(c)
        PROVE  /\ episodes[i] # Nothing
               /\ episodes[i].show = episodes'[i].show /\ episodes[i].entry = episodes'[i].entry
    <2>1. CASE i # on[c]
      BY <1>1, <2>1 DEF Retitle, PodcastsTypeOK
    <2>2. CASE i = on[c]
      <3>1. episodes[i] # Nothing /\ episodes[i] \in Episode
        BY <1>1, <2>2 DEF Retitle, PodcastsTypeOK
      <3>2. episodes'[i] = [episodes[i] EXCEPT !.title = req[c].title]
        BY <1>1, <2>2 DEF Retitle, PodcastsTypeOK
      <3> QED BY <3>1, <3>2 DEF Episode
    <2> QED BY <2>1, <2>2
  <1>2. ASSUME NEW c \in Calls, Delete(c)
        PROVE  episodes[i] = episodes'[i]
    BY <1>2 DEF Delete, PodcastsTypeOK
  <1>3. ASSUME NEW c \in Calls, Step(c), ~Retitle(c), ~Delete(c)
        PROVE  episodes[i] = episodes'[i]
    BY <1>3 DEF Step, ReadShow, ReadFeed, ReadQueue, Send, CheckNew, FindEpisode, Deleted,
                ParseFeed, LookThrough, Create, QueueLatest, Refuse, RequestFails, Keeps, server
  <1>4. CASE DownloadEnds
    <2>1. PICK j \in Ids \ born :
            LET s == Head(queue)[1]  n == Head(queue)[2] IN
              /\ episodes' = [episodes EXCEPT ![j] = [show |-> s, entry |-> n, title |-> n]]
              /\ came' = [c \in Calls |-> came[c] \cup {<<s, n>>}]
      BY <1>4 DEF DownloadEnds
    <2>2. CASE i = j
      BY <2>1, <2>2 DEF PodcastsTypeOK
    <2>3. CASE i # j
      BY <2>1, <2>3 DEF PodcastsTypeOK
    <2> QED BY <2>2, <2>3
  <1>5. CASE DownloadFails \/ (\E f \in Feeds : Publish(f)) \/ WebChange
    BY <1>5 DEF DownloadFails, Publish, WebChange, PodcastsTypeOK
  <1> QED BY <1>1, <1>2, <1>3, <1>4, <1>5 DEF PodcastsNext, Step

LEMMA HeldStays ==
  ASSUME PodcastsTypeOK, OnInv, PodcastsNext, NEW s \in Shows, NEW n \in HeldOf(s)'
  PROVE  n \in HeldOf(s) \/ \A d \in Calls : <<s, n>> \in came'[d]
  <1>1. PICK i \in Ids : episodes'[i] # Nothing /\ episodes'[i].show = s /\ episodes'[i].entry = n
    BY DEF HeldOf, Here, Of
  <1> QED BY <1>1, EpisodesStay DEF HeldOf, Here, Of

LEMMA HeldStep ==
  ASSUME PodcastsTypeOK, OnInv, HeldInv, PodcastsNext
  PROVE  HeldInv'
  <1>1. req' = req /\ \A d \in Calls : req[d].show \in Shows
    BY OwnStep, OthersKeepCalls, RequestTypes DEF PodcastsNext, Others
  <1> SUFFICES ASSUME NEW d \in Calls, pc'[d] \in {"feed", "queue", "send"},
                      NEW s \in Shows, s = req[d].show, NEW n \in HeldOf(s)'
               PROVE  n \in HeldEntries(d)' \/ <<s, n>> \in came'[d]
    BY <1>1 DEF HeldInv
  <1>2. n \in HeldOf(s) \/ <<s, n>> \in came'[d]
    BY <1>1, HeldStays
  <1>3. CASE ReadShow(d)
    <2>1. held'[d] = Here(s) /\ episodes' = episodes
      BY <1>3 DEF ReadShow, Set, Keeps, server, PodcastsTypeOK
    <2>2. HeldOf(s)' = HeldOf(s) /\ HeldEntries(d)' = HeldOf(s)
      BY <1>1, <2>1 DEF HeldOf, Here, Of, HeldEntries
    <2> QED BY <1>1, <2>2
  <1>4. CASE pc[d] \in {"feed", "queue", "send"} /\ held'[d] = held[d] /\ came[d] \subseteq came'[d]
    BY <1>1, <1>2, <1>4 DEF HeldInv, HeldEntries
  <1>5. ASSUME Step(d), ~ReadShow(d)
        PROVE  /\ pc[d] \in {"feed", "queue", "send"}
               /\ held'[d] = held[d] /\ came[d] \subseteq came'[d]
    BY <1>5 DEF Step, ReadFeed, ReadQueue, Send, CheckNew, FindEpisode, Retitle, Delete, Deleted,
                ParseFeed, LookThrough, Create, QueueLatest, Refuse, RequestFails, Go, Keeps,
                work, history, PodcastsTypeOK
  <1>6. ASSUME NEW c \in Calls, Step(c), c # d
        PROVE  pc[d] = pc'[d] /\ held'[d] = held[d] /\ came[d] \subseteq came'[d]
    BY <1>6, OwnStep
  <1>7. ASSUME Others
        PROVE  pc[d] = pc'[d] /\ held'[d] = held[d] /\ came[d] \subseteq came'[d]
    <2>1. pc' = pc /\ held' = held
      BY <1>7, OthersKeepCalls
    <2>2. came[d] \subseteq came'[d]
      BY <1>7 DEF Others, DownloadEnds, DownloadFails, Publish, WebChange, history, PodcastsTypeOK
    <2> QED BY <2>1, <2>2
  <1> QED BY <1>3, <1>4, <1>5, <1>6, <1>7 DEF PodcastsNext, Others

LEMMA PickStep ==
  ASSUME PodcastsTypeOK, PickInv, PodcastsNext
  PROVE  PickInv'
  <1> SUFFICES ASSUME NEW d \in Calls, pc'[d] = "send"
               PROVE  pick'[d] \cap HeldEntries(d)' = {}
    BY DEF PickInv
  <1>1. CASE ReadQueue(d)
    <2>1. pick'[d] = Chosen(d) \ (HeldEntries(d) \cup Waiting(req[d].show)) /\ held' = held
      BY <1>1 DEF ReadQueue, Set, Keeps, PodcastsTypeOK
    <2> QED BY <2>1 DEF HeldEntries
  <1>2. CASE Step(d) /\ ~ReadQueue(d)
    <2>1. FALSE
      BY <1>2 DEF Step, ReadShow, ReadFeed, Send, CheckNew, FindEpisode, Retitle, Delete, Deleted,
        ParseFeed, LookThrough, Create, QueueLatest, Refuse, RequestFails, Go, PodcastsTypeOK
    <2> QED BY <2>1
  <1>3. CASE ~Step(d)
    <2>1. pc'[d] = pc[d] /\ held'[d] = held[d] /\ pick'[d] = pick[d]
      BY <1>3, OwnStep, OthersKeepCalls DEF PodcastsNext, Others
    <2> QED BY <2>1 DEF PickInv, HeldEntries
  <1> QED BY <1>1, <1>2, <1>3

(* A podcast that stood by a feed all the while still does.                *)
LEMMA StoodStep ==
  ASSUME PodcastsTypeOK, StoodInv, PodcastsNext
  PROVE  StoodInv'
  <1>1. req' = req
    BY OwnStep, OthersKeepCalls DEF PodcastsNext, Others
  <1>2. ASSUME NEW d \in Calls
        PROVE  /\ stood'[d] \subseteq Subscribed(d)'
               /\ stood'[d] \subseteq stood[d] \/ pc[d] = "idle"
    <2>1. CASE shows' = shows /\ stood' = stood
      BY <1>1, <2>1 DEF StoodInv, Subscribed
    <2>2. CASE Standing
      BY <1>1, <2>2 DEF Standing, Subscribed
    <2>3. ASSUME NEW c \in Calls, ParseFeed(c)
          PROVE  stood'[d] \subseteq Subscribed(d)' /\ (stood'[d] \subseteq stood[d] \/ pc[d] = "idle")
      <3>1. stood' = [stood EXCEPT ![c] = Subscribed(c)] /\ shows' = shows /\ pc[c] = "idle"
        BY <2>3 DEF ParseFeed, Set, Keeps, server
      <3> QED BY <1>1, <3>1 DEF StoodInv, Subscribed, PodcastsTypeOK
    <2> QED BY <2>1, <2>2, <2>3, ShowsStay
  <1>3. ASSUME NEW d \in Calls, pc'[d] = "create"
        PROVE  stood'[d] = {}
    <2>1. CASE LookThrough(d)
      <3>1. Subscribed(d) = {} /\ stood' = stood
        BY <2>1 DEF LookThrough, Keeps, history
      <3> QED BY <3>1 DEF StoodInv
    <2>2. CASE Step(d) /\ ~LookThrough(d)
      <3>1. FALSE
        BY <1>3, <2>2 DEF Step, ReadShow, ReadFeed, ReadQueue, Send, CheckNew, FindEpisode, Retitle,
          Delete, Deleted, ParseFeed, Create, QueueLatest, Refuse, RequestFails, Go, PodcastsTypeOK
      <3> QED BY <3>1
    <2>3. CASE ~Step(d)
      <3>1. pc'[d] = pc[d]
        BY <2>3, OwnStep, OthersKeepCalls DEF PodcastsNext, Others
      <3> QED BY <1>2, <1>3, <3>1 DEF StoodInv
    <2> QED BY <2>1, <2>2, <2>3
  <1> QED BY <1>2, <1>3 DEF StoodInv

LEMMA PodcastsStart ==
  ASSUME PodcastsInit
  PROVE  PodcastsInv
  <1>1. PodcastsTypeOK
    <2>1. queue \in Seq(Shows \X Entries)
      <3>1. ASSUME NEW e \in Shows \X Entries
            PROVE  <<e>> \in Seq(Shows \X Entries)
        OBVIOUS
      <3>2. <<>> \in Seq(Shows \X Entries)
        OBVIOUS
      <3> QED BY <3>1, <3>2 DEF PodcastsInit
    <2>2. stood \in [Calls -> SUBSET Shows] /\ checked \in [Shows -> 0..MaxFeed]
      BY PodcastsAssumption DEF PodcastsInit
    <2>3. budget \in 0..MaxOutside
      BY PodcastsAssumption DEF PodcastsInit
    <2>4. listed \in [Calls -> 0..MaxFeed] /\ pc \in [Calls -> Steps]
      BY PodcastsAssumption DEF PodcastsInit, Steps
    <2> QED BY <2>1, <2>2, <2>3, <2>4, PodcastsAssumption DEF PodcastsInit, PodcastsTypeOK
  <1>2. ShowInv /\ OnInv /\ HeldInv /\ PickInv
    BY DEF PodcastsInit, ShowInv, OnInv, HeldInv, PickInv
  <1>3. StoodInv
    BY DEF PodcastsInit, StoodInv, Subscribed
  <1> QED BY <1>1, <1>2, <1>3 DEF PodcastsInv

LEMMA PodcastsStep ==
  ASSUME PodcastsInv, [PodcastsNext]_podcastsVars
  PROVE  PodcastsInv'
  <1> USE DEF PodcastsInv
  <1>1. CASE PodcastsNext
    <2>1. PodcastsTypeOK'
      BY <1>1, ReadsTypes, WritesTypes, OthersTypes DEF PodcastsNext, Step, Reads, Writes, Others
    <2> QED BY <1>1, <2>1, ShowStep, OnStep, HeldStep, PickStep, StoodStep
  <1>2. CASE UNCHANGED podcastsVars
    <2> USE <1>2 DEF podcastsVars, server, work, history
    <2>1. PodcastsTypeOK' /\ ShowInv' /\ OnInv'
      BY DEF PodcastsTypeOK, ShowInv, OnInv
    <2>2. HeldInv' /\ PickInv'
      BY DEF HeldInv, PickInv, HeldOf, Here, Of, HeldEntries
    <2>3. StoodInv'
      BY DEF StoodInv, Subscribed
    <2> QED BY <2>1, <2>2, <2>3
  <1> QED BY <1>1, <1>2

(* The invariant that what the podcast tools promise rests on.             *)
THEOREM PodcastsInvariant == PodcastsSpec => []PodcastsInv
  BY PodcastsStart, PodcastsStep, PTL DEF PodcastsSpec

(* Every variable of the podcast tools keeps its type: no call asks the    *)
(* server for an episode that is past the feed's end.                      *)
THEOREM PodcastsTypeCorrect == PodcastsSpec => []PodcastsTypeOK
  <1>1. PodcastsInv => PodcastsTypeOK
    BY DEF PodcastsInv
  <1> QED BY <1>1, PodcastsInvariant, PTL

(* A download asks for no episode the podcast holds, unless that came while*)
(* the call ran, whatever episodes are titled and whatever the server and  *)
(* the other calls do beside it.                                           *)
THEOREM NoneAskedForTwice == PodcastsSpec => HeldIsNotAskedFor
  <1>1. ASSUME PodcastsInv, NEW c \in Calls, Sends(c), NEW n \in pick[c] \cap HeldOf(req[c].show)
        PROVE  <<req[c].show, n>> \in came[c]
    BY <1>1 DEF PodcastsInv, HeldInv, PickInv, Sends
  <1>2. PodcastsInv => [\A c \in Calls : Sends(c) =>
          \A n \in pick[c] \cap HeldOf(req[c].show) : <<req[c].show, n>> \in came[c]]_podcastsVars
    BY <1>1
  <1> QED BY <1>2, PodcastsInvariant, PTL DEF HeldIsNotAskedFor

LEMMA QueuedIsSo ==
  ASSUME PodcastsTypeOK, PodcastsNext, NEW c \in Calls,
         Ends(c, "ok"), pc[c] \in {"send", "latest"}, NEW n \in pick[c]
  PROVE  <<req[c].show, n>> \in ToSet(queue')
  <1>1. Step(c)
    BY OwnStep, OthersKeepCalls DEF Ends, PodcastsNext, Others
  <1>2. Send(c) \/ QueueLatest(c)
    BY <1>1 DEF Step, ReadShow, ReadFeed, ReadQueue, CheckNew, FindEpisode, Retitle, Delete, Deleted,
       ParseFeed, LookThrough, Create, Refuse, RequestFails, Ends, Go, PodcastsTypeOK
  <1>3. Queued(req[c].show, pick[c])
    BY <1>2 DEF Send, QueueLatest, Ends, Go, PodcastsTypeOK
  <1>4. pick[c] \in SUBSET Entries /\ req[c].show \in Shows
    BY RequestTypes DEF PodcastsTypeOK
  <1> QED BY <1>3, <1>4, QueuedWaits

LEMMA DeletedIsSo ==
  ASSUME PodcastsTypeOK, PodcastsNext, NEW c \in Calls, Ends(c, "deleted")
  PROVE  episodes[on[c]] = Nothing
  <1>1. Step(c)
    BY OwnStep, OthersKeepCalls DEF Ends, PodcastsNext, Others
  <1>2. Deleted(c)
    BY <1>1 DEF Step, ReadShow, ReadFeed, ReadQueue, Send, CheckNew, FindEpisode, Retitle, Delete,
       ParseFeed, LookThrough, Create, QueueLatest, Refuse, RequestFails, Ends, Go, PodcastsTypeOK
  <1> QED BY <1>2 DEF Deleted

(* What is answered is so at the step that answers it: queued episodes     *)
(* wait, a deleted one is gone, and a feed is subscribed to only if no     *)
(* podcast had it all the while.                                           *)
THEOREM AnswersSo == PodcastsSpec => AnswersAreSo
  <1>1. ASSUME PodcastsInv, PodcastsNext, NEW c \in Calls, Subscribes(c)
        PROVE  stood[c] = {}
    BY <1>1 DEF PodcastsInv, StoodInv, Subscribes
  <1>2. PodcastsInv /\ [PodcastsNext]_podcastsVars =>
          [\A c \in Calls :
            /\ Ends(c, "ok") /\ pc[c] \in {"send", "latest"} =>
                 \A n \in pick[c] : <<req[c].show, n>> \in ToSet(queue')
            /\ Ends(c, "deleted") => episodes[on[c]] = Nothing
            /\ Subscribes(c) => stood[c] = {}]_podcastsVars
    BY <1>1, QueuedIsSo, DeletedIsSo DEF PodcastsInv
  <1> QED BY <1>2, PodcastsInvariant, PTL DEF AnswersAreSo, PodcastsSpec
=============================================================================
