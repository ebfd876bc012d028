----------------------------- MODULE AudioSweep -----------------------------
(***************************************************************************)
(* audit_unplayable: every file of a library's books judged, a chunk of    *)
(* books at a time.  Files that can be locked are probed, the rest of them *)
(* with decode played by ffmpeg, which reads through a proxy of the audit. *)
(* Both passes are batches of ParallelEach.  An answer tells apart what    *)
(* the files are and what the server, the proxy and the caller did.        *)
(***************************************************************************)
EXTENDS ParallelEach

CONSTANTS
  Sizes,        (* how many files the books of each chunk have             *)
  Lockable,     (* the files whose container needsProbe asks to read       *)
  Truths,       (* what the files may be: functions from Files to Kinds    *)
  Decode        (* whether the files are played                            *)

(* A file that plays, one damaged, one locked to a store's player, one the *)
(* server cannot send (404, 500) and one it already listed as unreadable.  *)
Kinds == {"sound", "damaged", "locked", "gone", "unread"}

(* A file is a place in a chunk.                                           *)
LastChunk == Cardinality(DOMAIN Sizes)
Files     == {f \in (1..LastChunk) \X (1..MaxJobs) : f[2] <= Sizes[f[1]]}

ASSUME SweepAssumption ==
  /\ LastChunk \in Nat
  /\ Sizes \in [1..LastChunk -> 0..MaxJobs]
  /\ Truths \subseteq [Files -> Kinds]
  /\ \A t \in Truths : \A f \in Files : t[f] = "locked" => f \in Lockable
  /\ Decode \in BOOLEAN

VARIABLES
  truth,        (* what each file is                                       *)
  stage,        (* where the audit is                                      *)
  chunk,        (* the chunk it is at                                      *)
  batch,        (* the places of the files of the batch that runs          *)
  got,          (* what was read of each file                              *)
  ff,           (* the ffmpeg of each job                                  *)
  note,         (* what the proxy noted for each decode (Sampler.failed)   *)
  proxy,        (* the proxy, whose death is noted a little later          *)
  gone          (* whether the request the audit answers is over           *)

sweepVars == <<truth, stage, chunk, batch, got, ff, note, proxy, gone>>
allVars   == <<vars, sweepVars>>

Ended == {"answered", "failed"}

SweepTypeOK ==
  /\ TypeOK
  /\ truth \in Truths
  /\ stage \in {"listing", "chunks", "probing", "playing", "failing", "closing"} \cup Ended
  /\ chunk \in 0..LastChunk
  /\ batch \in [1..size -> 1..MaxJobs]
  /\ got   \in [Files -> {"nothing", "read", "locked", "error", "clean", "damaged"}]
  /\ ff    \in [Jobs -> {"none", "asking", "fetching", "noted", "played", "complained", "died"}]
  /\ note  \in [Jobs -> {"none", "gone", "broke"}]
  /\ proxy \in {"up", "dead", "stopped", "shut"}
  /\ gone  \in BOOLEAN

SweepInit ==
  /\ Init
  /\ truth \in Truths
  /\ stage = "listing"
  /\ chunk = 0
  /\ batch = [i \in 1..size |-> 1]
  /\ got   = [f \in Files |-> "nothing"]
  /\ ff    = [i \in Jobs |-> "none"]
  /\ note  = [i \in Jobs |-> "none"]
  /\ proxy = IF Decode THEN "up" ELSE "shut"
  /\ gone  = FALSE

-----------------------------------------------------------------------------
(* The listing, the chunks and the end of the audit.                       *)

List ==
  /\ stage = "listing"
  /\ \/ stage' = "chunks" /\ ~gone
     \/ stage' = "failing"
  /\ UNCHANGED <<vars, truth, chunk, batch, got, ff, note, proxy, gone>>

(* The places of a chunk that hold a file of a batch.                      *)
ToProbe(c) == {k \in 1..Sizes[c] : truth[<<c, k>>] # "unread" /\ <<c, k>> \in Lockable}

(* Mutant: all the files that can be read are played.                      *)
PlayAll(c) == {k \in 1..Sizes[c] : truth[<<c, k>>] # "unread"}

ToPlay(c) ==
  {k \in 1..Sizes[c] : truth[<<c, k>>] # "unread" /\ got[<<c, k>>] \in {"nothing", "read"}}

(* A batch runs over the files in their order, with no decode begun.       *)
Batch(places) ==
  /\ \E b \in [1..Cardinality(places) -> places] :
       /\ \A k \in places : \E i \in DOMAIN b : b[i] = k
       /\ \A i, j \in DOMAIN b : i < j => b[i] < b[j]
       /\ batch' = b
  /\ ff'    = [i \in Jobs |-> "none"]
  /\ note'  = [i \in Jobs |-> "none"]
  /\ Begin(Cardinality(places), IF gone THEN Caller ELSE None)

(* The chunk's books are asked for; its probes begin.                      *)
FetchChunk ==
  /\ stage = "chunks"
  /\ chunk < LastChunk
  /\ ~gone
  /\ chunk' = chunk + 1
  /\ Batch(ToProbe(chunk + 1))
  /\ stage' = "probing"
  /\ UNCHANGED <<truth, got, proxy, gone>>

FetchFails ==
  /\ stage = "chunks"
  /\ chunk < LastChunk
  /\ stage' = "failing"
  /\ UNCHANGED <<vars, truth, chunk, batch, got, ff, note, proxy, gone>>

PlayChunk ==
  /\ stage = "probing" /\ at = "out" /\ Answer = None
  /\ Decode
  /\ Batch(ToPlay(chunk))
  /\ stage' = "playing"
  /\ UNCHANGED <<truth, chunk, got, proxy, gone>>

NextChunk ==
  /\ stage = (IF Decode THEN "playing" ELSE "probing") /\ at = "out" /\ Answer = None
  /\ stage' = "chunks"
  /\ UNCHANGED <<vars, truth, chunk, batch, got, ff, note, proxy, gone>>

BatchFails ==
  /\ stage \in {"probing", "playing"} /\ at = "out" /\ Answer # None
  /\ stage' = "failing"
  /\ UNCHANGED <<vars, truth, chunk, batch, got, ff, note, proxy, gone>>

(* Sampler.Close shuts the proxy, and waits for it when it is dying.       *)
Close ==
  /\ \/ stage = "chunks" /\ chunk = LastChunk
     \/ stage = "failing"
  /\ proxy # "dead"
  /\ proxy' = IF proxy = "stopped" THEN "stopped" ELSE "shut"
  /\ stage' = IF stage = "failing" THEN "failed" ELSE "closing"
  /\ UNCHANGED <<vars, truth, chunk, batch, got, ff, note, gone>>

(* A proxy that had stopped fails the audit, which otherwise answers.      *)
AnswerOrFail ==
  /\ stage = "closing"
  /\ stage' = IF proxy = "stopped" THEN "failed" ELSE "answered"
  /\ UNCHANGED <<vars, truth, chunk, batch, got, ff, note, proxy, gone>>

-----------------------------------------------------------------------------
(* One file.                                                               *)

(* Mutant: whatever a read met is the file's.                              *)
FilesOwn(error) == cause # None

(* serverFailure: an error of one file is noted with it, and the server's  *)
(* ends the batch, as does a context that has ended.                       *)
ServerFailure(error) == cause # None \/ error = "broke"

JobEnds(i, error) == IF ServerFailure(error) THEN EndsBadly(i) ELSE EndsWell(i)

File(i) == <<chunk, batch[i]>>

Got(i, what) == got' = [got EXCEPT ![File(i)] = what]

(* What a probe meets: the container, the file's own error, or the server  *)
(* failing, which it may do at any time.                                   *)
Probe(i) ==
  /\ stage = "probing" /\ job[i] = "running"
  /\ \/ /\ cause = None
        /\ Got(i, CASE truth[File(i)] = "locked" -> "locked"
                    [] truth[File(i)] = "gone"   -> "error"
                    [] OTHER                     -> "read")
        /\ JobEnds(i, "none")
     \/ Got(i, "error") /\ JobEnds(i, "broke")
  /\ UNCHANGED <<truth, stage, chunk, batch, ff, note, proxy, gone>>

Becoming(i, step) == ff' = [ff EXCEPT ![i] = step]

Playing(i) == stage = "playing" /\ job[i] = "running"

FFmpegRuns == UNCHANGED <<vars, truth, stage, chunk, batch, got, proxy, gone>>

StartFFmpeg(i) ==
  /\ Playing(i) /\ ff[i] = "none"
  /\ Becoming(i, IF cause = None THEN "asking" ELSE "died")
  /\ FFmpegRuns /\ UNCHANGED note

(* ffmpeg asks the proxy, which a listener that is gone refuses.           *)
AskProxy(i) ==
  /\ Playing(i) /\ ff[i] = "asking"
  /\ Becoming(i, IF proxy = "up" THEN "fetching" ELSE "died")
  /\ FFmpegRuns /\ UNCHANGED note

(* The server sends the file, and ffmpeg plays what is in it.              *)
PlayFile(i) ==
  /\ Playing(i) /\ ff[i] = "fetching"
  /\ truth[File(i)] # "gone"
  /\ IF truth[File(i)] = "damaged"
     THEN \E end \in {"complained", "died"} : Becoming(i, end)
     ELSE Becoming(i, "played")
  /\ FFmpegRuns /\ UNCHANGED note

(* It refuses the file or breaks off: the proxy notes that for this decode *)
(* and only then lets its reply end.                                       *)
NoteFailure(i) ==
  /\ Playing(i) /\ ff[i] = "fetching"
  /\ \/ note' = [note EXCEPT ![i] = "gone"]  /\ truth[File(i)] = "gone"
     \/ note' = [note EXCEPT ![i] = "broke"]
  /\ Becoming(i, "noted")
  /\ FFmpegRuns

(* With a reply that ends early ffmpeg fails, or plays what it was sent.   *)
ReplyEnds(i) ==
  /\ Playing(i) /\ ff[i] = "noted"
  /\ \E end \in {"played", "complained", "died"} : Becoming(i, end)
  /\ FFmpegRuns /\ UNCHANGED note

(* The end of the context kills it.                                        *)
Kill(i) ==
  /\ Playing(i) /\ ff[i] \in {"asking", "fetching", "noted"}
  /\ cause # None
  /\ Becoming(i, "died")
  /\ FFmpegRuns /\ UNCHANGED note

(* What a decode that is over says, in the order decode asks: the context, *)
(* the proxy's note, the proxy, and only then the file.                    *)
Heard(i) ==
  IF ff[i] = "died" /\ cause # None            THEN "broke"
  ELSE IF note[i] # "none"                     THEN note[i]
  ELSE IF ff[i] = "died" /\ proxy = "stopped"  THEN "broke"
  ELSE "none"

EndDecode(i) ==
  /\ Playing(i) /\ ff[i] \in {"played", "complained", "died"}
  /\ Got(i, IF Heard(i) # "none" THEN "error"
            ELSE IF ff[i] = "played" THEN "clean" ELSE "damaged")
  /\ JobEnds(i, Heard(i))
  /\ Becoming(i, "none")
  /\ note' = [note EXCEPT ![i] = "none"]
  /\ UNCHANGED <<truth, stage, chunk, batch, proxy, gone>>

-----------------------------------------------------------------------------
(* What others do.                                                         *)

(* The proxy's listener fails: first nobody can reach it, then it is noted.*)
ProxyDies ==
  /\ proxy = "up" /\ stage \notin Ended
  /\ proxy' = "dead"
  /\ UNCHANGED <<vars, truth, stage, chunk, batch, got, ff, note, gone>>

ProxyStopped ==
  /\ proxy = "dead"
  /\ proxy' = "stopped"
  /\ UNCHANGED <<vars, truth, stage, chunk, batch, got, ff, note, gone>>

RequestEnds ==
  /\ ~gone /\ stage \notin Ended
  /\ gone' = TRUE
  /\ IF at # "out" /\ cause = None THEN CallerEnds ELSE UNCHANGED vars
  /\ UNCHANGED <<truth, stage, chunk, batch, got, ff, note, proxy>>

(* The runner's own steps leave the audit as it is.                        *)
RunLoop    == (Loop \/ Return) /\ UNCHANGED sweepVars
RunInner(i) == Inner(i) /\ UNCHANGED sweepVars

FFmpeg(i) ==
  \/ StartFFmpeg(i) \/ AskProxy(i) \/ PlayFile(i)
  \/ NoteFailure(i) \/ ReplyEnds(i) \/ Kill(i)

Job(i) == Probe(i) \/ FFmpeg(i) \/ EndDecode(i) \/ RunInner(i)

Sweep ==
  \/ List \/ FetchChunk \/ FetchFails \/ PlayChunk \/ NextChunk
  \/ BatchFails \/ Close \/ AnswerOrFail

SweepNext ==
  \/ Sweep
  \/ RunLoop
  \/ \E i \in Jobs : Job(i)
  \/ ProxyDies \/ ProxyStopped \/ RequestEnds

SweepSpec == SweepInit /\ [][SweepNext]_allVars

(* A job that reads a file's bytes, itself or through its ffmpeg.          *)
AwaitsServer(i) ==
  /\ job[i] = "running"
  /\ stage = "probing" \/ (stage = "playing" /\ ff[i] = "fetching")

(* Nothing makes the server send those bytes, which are read with no time  *)
(* limit: only the end of the batch's context ends that read, or kills the *)
(* ffmpeg.                                                                 *)
Goes(i) == Job(i) /\ (AwaitsServer(i) => cause # None)

(* Fair: the audit's goroutines run, and the proxy's; a listing and a chunk*)
(* are answered or given up, by the client's time limits.                  *)
SweepFairSpec ==
  /\ SweepSpec
  /\ WF_allVars(Sweep) /\ WF_allVars(RunLoop) /\ WF_allVars(ProxyStopped)
  /\ \A i \in Jobs : WF_allVars(Goes(i))

-----------------------------------------------------------------------------
(* judgeUnplayable's word on a file.                                       *)
Judged(f) ==
  CASE truth[f] = "unread"                 -> "unread"
    [] truth[f] # "unread" /\ got[f] = "error"
                                           -> "unchecked"
    [] truth[f] # "unread" /\ got[f] \in {"locked", "damaged"}
                                           -> got[f]
    [] OTHER                               -> "nothing"

Deserves(f) ==
  CASE truth[f] \in {"unread", "locked"}                -> truth[f]
    [] truth[f] = "gone" /\ (Decode \/ f \in Lockable)  -> "unchecked"
    [] truth[f] = "damaged" /\ Decode                   -> "damaged"
    [] OTHER                                            -> "nothing"

(* An audit that answers has judged every file, and each by what that file *)
(* is: a server that failed, a proxy that died and a caller that left fail *)
(* the audit, and are never counted as a file unchecked, damaged or clean. *)
AnswersByTheFiles == stage = "answered" => \A f \in Files : Judged(f) = Deserves(f)

(* What is read of a file is written while its batch runs, and what a      *)
(* probe found of it stands when the others are played: the audit reads it *)
(* with no lock, once the batch is over.                                   *)
VerdictsStand ==
  [][\A f \in Files : got'[f] # got[f] => at # "out" /\ got[f] \in {"nothing", "read"}]_allVars

(* Every audit ends, unless the server for ever holds back a file's bytes  *)
(* while the caller stays and no job of the batch has failed.  A caller    *)
(* that leaves and a job that fails never leave it hanging: every read     *)
(* stops, no slot is lost that a job waits for, and a proxy that is dying  *)
(* still lets the audit close.                                             *)
HeldBack(i) == AwaitsServer(i) /\ cause = None /\ ~gone

AuditEnds == <>(stage \in Ended) \/ \E i \in Jobs : <>[]HeldBack(i)
=============================================================================
