----------------------------- MODULE DstDecoder -----------------------------
(***************************************************************************)
(* The parallel DST decoder of libdstdec/dst_decoder.c: the caller puts    *)
(* frames on a decode list, up to Procs decode threads take them off,      *)
(* decode them and insert the results in a write list sorted by sequence   *)
(* number, and one write thread hands the results to the callbacks.        *)
(*                                                                         *)
(* A step is one critical section of one thread (what it does between      *)
(* possess and release or twist, with the thread-local code that follows), *)
(* or one call of a buffer pool, whose own locking module BufferPool       *)
(* models.  wait_for is the guard of the step: module YarnLock and the     *)
(* BufferPool runs look inside it.                                         *)
(***************************************************************************)
EXTENDS Integers, Sequences, FiniteSets, SequencesExt

CONSTANTS Procs,      \* processor_count(): decode threads at most
          InLimit,    \* spaces in_pool may make: (procs << 1) + 2
          MaxFrames,  \* BOUND: frames the caller feeds to one decoder
          Corrupt     \* the frames on which DST_FramDSTDecode fails

ASSUME DecoderAssumption ==
    /\ Procs \in Nat \ {0}
    /\ InLimit \in Nat \ {0}
    /\ MaxFrames \in Nat
    /\ Corrupt \subseteq Nat

Workers  == 1 .. Procs
Writer   == 0                          \* the write thread's place in threads
None     == 0                          \* a NULL buffer pointer
Silence  == -1                         \* a frame overwritten with 0x55
Garbage  == -2                         \* what malloc returns
StopSeq  == -1                         \* the seq of the job that stops workers

VARIABLES
    mpc,           \* the caller: where it is in create, decode or destroy
    mjob,          \* the job it is making
    sequence,      \* the next job's sequence number
    cthreads,      \* decode threads launched
    caught,        \* threads join_all has joined
    decodeList,    \* decode_head ... decode_tail
    decode_have,   \* the value of the lock decode_have
    writeList,     \* write_head ...
    write_first,   \* the value of the lock write_first
    dpc, djob,     \* each decode thread, and the job it works on
    wpc, wjob, wseq,   \* the write thread, its job and its next seq
    threads,       \* yarn's list of threads launched and not joined
    exited,        \* those that have run reenter()
    threads_value, \* the value of yarn's threads_lock
    in_free, in_limit, in_mem,   \* in_pool: head, limit, contents of spaces
    out_free, out_mem,           \* out_pool, which has no limit
    delivered      \* what the callbacks have been given

caller  == <<mpc, mjob, sequence, cthreads, caught>>
lists   == <<decodeList, decode_have, writeList, write_first>>
workers == <<dpc, djob>>
writer  == <<wpc, wjob, wseq>>
yarn    == <<threads, exited, threads_value>>
inPool  == <<in_free, in_limit, in_mem>>
outPool == <<out_free, out_mem>>
vars == <<caller, lists, workers, writer, yarn, inPool, outPool, delivered>>

NoJob == [seq |-> StopSeq, more |-> FALSE, in |-> None, out |-> None,
          error |-> FALSE]
StopJob == NoJob

(* The abstract frame a worker makes of the contents of an input buffer.   *)
DST_FramDSTDecode(frame) == IF frame \in Corrupt THEN Silence ELSE frame
-----------------------------------------------------------------------------
Init ==
    /\ mpc = "idle"
    /\ mjob = NoJob
    /\ sequence = 0
    /\ cthreads = 0
    /\ caught = 0
    /\ decodeList = <<>>
    /\ decode_have = 0
    /\ writeList = <<>>
    /\ write_first = -1
    /\ dpc = [w \in Workers |-> "none"]
    /\ djob = [w \in Workers |-> NoJob]
    /\ wpc = "none"
    /\ wjob = NoJob
    /\ wseq = 0
    /\ threads = {}
    /\ exited = {}
    /\ threads_value = 0
    /\ in_free = <<>>
    /\ in_limit = InLimit
    /\ in_mem = <<>>
    /\ out_free = <<>>
    /\ out_mem = <<>>
    /\ delivered = <<>>

(* dst_decoder_create: calloc, setup_decoding_jobs, launch(write_thread)   *)
dst_decoder_create ==
    /\ mpc = "idle"
    /\ mpc' = "feed"
    /\ sequence' = 0
    /\ decodeList' = <<>>
    /\ decode_have' = 0
    /\ writeList' = <<>>
    /\ write_first' = -1
    /\ in_limit' = InLimit
    /\ UNCHANGED <<in_free, in_mem, outPool>>   \* both pools are empty
    /\ cthreads' = 0
    /\ wpc' = "wait"
    /\ wseq' = 0
    /\ threads' = threads \cup {Writer}
    /\ delivered' = <<>>
    /\ UNCHANGED <<mjob, caught, workers, wjob, exited, threads_value>>

(* Variants with a fault: a space is handed out twice, or never given back *)
HandedOutAgain(free)  == free
NotGivenBack(s, free) == free

(* The list of free spaces when buffer_pool_get_space takes the first, and *)
(* when buffer_pool_drop_space puts one back.                              *)
Unlinked(free)  == Tail(free)
Linked(s, free) == <<s>> \o free

(* dst_decoder_decode up to launch: buffer_pool_get_space waits for a      *)
(* space when none may be made any more; memcpy fills the one it returns.  *)
DecodeGetSpace ==
    /\ mpc = "feed"
    /\ sequence < MaxFrames
    /\ \/ /\ in_free # <<>>
          /\ in_free' = Unlinked(in_free)
          /\ in_mem' = [in_mem EXCEPT ![Head(in_free)] = sequence]
          /\ mjob' = [NoJob EXCEPT !.seq = sequence, !.more = TRUE,
                                   !.in = Head(in_free)]
          /\ UNCHANGED in_limit
       \/ /\ in_free = <<>>
          /\ in_limit # 0
          /\ in_limit' = in_limit - 1
          /\ in_mem' = Append(in_mem, sequence)
          /\ mjob' = [NoJob EXCEPT !.seq = sequence, !.more = TRUE,
                                   !.in = Len(in_mem) + 1]
          /\ UNCHANGED in_free
    /\ sequence' = sequence + 1
    /\ mpc' = "launch"
    /\ UNCHANGED <<cthreads, caught, lists, workers, writer, yarn, outPool,
                   delivered>>

(* dst_decoder_destroy enters finish_write_job: the last job, more = 0     *)
FinishWriteJob ==
    /\ mpc = "feed"
    /\ mjob' = [NoJob EXCEPT !.seq = sequence]
    /\ sequence' = sequence + 1
    /\ mpc' = "launch"
    /\ UNCHANGED <<cthreads, caught, lists, workers, writer, yarn, inPool,
                   outPool, delivered>>

(* Variant with a fault: one decode thread too many                        *)
OneTooMany == cthreads <= Procs

(* start another decode thread if needed                                   *)
MayLaunch == cthreads < Procs

LaunchIfNeeded ==
    /\ mpc = "launch"
    /\ IF MayLaunch
       THEN /\ cthreads' = cthreads + 1
            /\ threads' = threads \cup {cthreads + 1}
            /\ dpc' = [dpc EXCEPT ![cthreads + 1] = "look"]
       ELSE UNCHANGED <<cthreads, threads, dpc>>
    /\ mpc' = "append"
    /\ UNCHANGED <<mjob, sequence, caught, lists, djob, writer, exited,
                   threads_value, inPool, outPool, delivered>>

(* put job at end of decode list, let all the decoders know                *)
AppendJob ==
    /\ mpc = "append"
    /\ decodeList' = Append(decodeList, mjob)
    /\ decode_have' = decode_have + 1
    /\ mpc' = IF mjob.more THEN "feed" ELSE "joinWriter"
    /\ mjob' = NoJob
    /\ UNCHANGED <<sequence, cthreads, caught, writeList, write_first,
                   workers, writer, yarn, inPool, outPool, delivered>>

(* join(writeth): pthread_join, then unlink it from the threads list       *)
JoinWriter ==
    /\ mpc = "joinWriter"
    /\ Writer \in exited
    /\ threads' = threads \ {Writer}
    /\ exited' = exited \ {Writer}
    /\ threads_value' = threads_value - 1
    /\ wpc' = "none"
    /\ mpc' = "stop"
    /\ UNCHANGED <<mjob, sequence, cthreads, caught, lists, workers, wjob,
                   wseq, inPool, outPool, delivered>>

(* finish_decoding_jobs: the job on its stack replaces the decode list     *)
StopWorkers ==
    /\ mpc = "stop"
    /\ decodeList' = <<StopJob>>
    /\ decode_have' = decode_have + 1
    /\ caught' = 0
    /\ mpc' = "joinAll"
    /\ UNCHANGED <<mjob, sequence, cthreads, writeList, write_first, workers,
                   writer, yarn, inPool, outPool, delivered>>

(* Variant with a fault: join_all stops when no thread is done just now    *)
NoneDone == threads_value = 0

(* join_all goes on until the threads list is empty                        *)
AllJoined == threads = {}

(* one round of join_all: wait for threads_lock to be non-zero, join and   *)
(* unlink a thread that is marked done                                     *)
JoinAllRound ==
    /\ mpc = "joinAll"
    /\ ~AllJoined
    /\ threads_value # 0
    /\ \E t \in threads \cap exited :
         /\ threads' = threads \ {t}
         /\ exited' = exited \ {t}
         /\ dpc' = IF t = Writer THEN dpc ELSE [dpc EXCEPT ![t] = "none"]
         /\ wpc' = IF t = Writer THEN "none" ELSE wpc
    /\ threads_value' = threads_value - 1
    /\ caught' = caught + 1
    /\ UNCHANGED <<mpc, mjob, sequence, cthreads, lists, djob, wjob, wseq,
                   inPool, outPool, delivered>>

(* and returns                                                             *)
JoinAllReturns ==
    /\ mpc = "joinAll"
    /\ AllJoined
    /\ mpc' = "free"
    /\ UNCHANGED <<mjob, sequence, cthreads, caught, lists, workers, writer,
                   yarn, inPool, outPool, delivered>>

(* assert what came back, free both pools, the locks and the decoder; the  *)
(* stop job goes out of scope                                              *)
FreeDecoder ==
    /\ mpc = "free"
    /\ cthreads' = 0
    /\ decodeList' = <<>>
    /\ decode_have' = 0
    /\ in_free' = <<>>
    /\ in_mem' = <<>>
    /\ out_free' = <<>>
    /\ out_mem' = <<>>
    /\ mpc' = "idle"
    /\ UNCHANGED <<mjob, sequence, caught, writeList, write_first, workers,
                   writer, yarn, in_limit, delivered>>
-----------------------------------------------------------------------------
(* decode_thread w: wait_for(decode_have, NOT_TO_BE, 0), take the head     *)
TakeJob(w) ==
    /\ dpc[w] = "look"
    /\ decode_have # 0
    /\ Head(decodeList).seq # StopSeq
    /\ djob' = [djob EXCEPT ![w] = Head(decodeList)]
    /\ decodeList' = Tail(decodeList)
    /\ decode_have' = decode_have - 1
    /\ dpc' = [dpc EXCEPT ![w] = IF Head(decodeList).more THEN "getOut"
                                                          ELSE "insert"]
    /\ UNCHANGED <<caller, writeList, write_first, writer, yarn, inPool,
                   outPool, delivered>>

(* the stop job: leave it in the list, close the decoder, reenter()        *)
LeaveOnStop(w) ==
    /\ dpc[w] = "look"
    /\ decode_have # 0
    /\ Head(decodeList).seq = StopSeq
    /\ dpc' = [dpc EXCEPT ![w] = "exited"]
    /\ exited' = exited \cup {w}
    /\ threads_value' = threads_value + 1
    /\ UNCHANGED <<caller, lists, djob, writer, threads, inPool, outPool,
                   delivered>>

(* job->out = buffer_pool_get_space(&out_pool), a pool without limit       *)
GetOutSpace(w) ==
    /\ dpc[w] = "getOut"
    /\ \/ /\ out_free # <<>>
          /\ djob' = [djob EXCEPT ![w].out = Head(out_free)]
          /\ out_free' = Unlinked(out_free)
          /\ UNCHANGED out_mem
       \/ /\ out_free = <<>>
          /\ djob' = [djob EXCEPT ![w].out = Len(out_mem) + 1]
          /\ out_mem' = Append(out_mem, Garbage)
          /\ UNCHANGED out_free
    /\ dpc' = [dpc EXCEPT ![w] = "decode"]
    /\ UNCHANGED <<caller, lists, writer, yarn, inPool, delivered>>

(* job->error = DST_FramDSTDecode(job->in->buf, job->out->buf, ...)        *)
DecodeFrame(w) ==
    /\ dpc[w] = "decode"
    /\ out_mem' = [out_mem EXCEPT ![djob[w].out] =
                        DST_FramDSTDecode(in_mem[djob[w].in])]
    /\ djob' = [djob EXCEPT ![w].error = in_mem[djob[w].in] \in Corrupt]
    /\ dpc' = [dpc EXCEPT ![w] = "dropIn"]
    /\ UNCHANGED <<caller, lists, writer, yarn, inPool, out_free, delivered>>

(* buffer_pool_drop_space(job->in)                                         *)
DropInSpace(w) ==
    /\ dpc[w] = "dropIn"
    /\ in_free' = Linked(djob[w].in, in_free)
    /\ dpc' = [dpc EXCEPT ![w] = "insert"]
    /\ UNCHANGED <<caller, lists, djob, writer, yarn, in_limit, in_mem,
                   outPool, delivered>>

(* Variant with a fault: the write list is not sorted                      *)
PlaceLast(list, seq) == Len(list) + 1

(* Where a job of this seq goes in the write list: before the first job    *)
(* with a greater sequence number.                                         *)
Place(list, seq) ==
    CHOOSE i \in 1 .. Len(list) + 1 :
        /\ \A j \in 1 .. i - 1 : list[j].seq <= seq
        /\ i <= Len(list) => list[i].seq > seq

(* insert write job in list in sorted order, alert write thread            *)
InsertJob(w) ==
    /\ dpc[w] = "insert"
    /\ writeList' = InsertAt(writeList, Place(writeList, djob[w].seq), djob[w])
    /\ write_first' = writeList'[1].seq
    /\ dpc' = [dpc EXCEPT ![w] = "look"]
    /\ djob' = [djob EXCEPT ![w] = NoJob]
    /\ UNCHANGED <<caller, decodeList, decode_have, writer, yarn, inPool,
                   outPool, delivered>>
-----------------------------------------------------------------------------
(* Variant with a fault: any job in the list will do                       *)
AnyJobReady == write_first # -1

(* write_thread: wait_for(write_first, TO_BE, seq), take the head          *)
NextJobReady == write_first = wseq

TakeWriteJob ==
    /\ wpc = "wait"
    /\ NextJobReady
    /\ wjob' = Head(writeList)
    /\ writeList' = Tail(writeList)
    /\ write_first' = IF writeList' = <<>> THEN -1 ELSE Head(writeList').seq
    /\ wpc' = IF wjob'.more THEN "emit" ELSE "verify"
    /\ wseq' = IF wjob'.more THEN wseq ELSE wseq + 1
    /\ UNCHANGED <<caller, decodeList, decode_have, workers, yarn, inPool,
                   outPool, delivered>>

(* frame_error_callback if the job failed, then frame_decoded_callback     *)
Emit ==
    /\ wpc = "emit"
    /\ delivered' = Append(delivered, [data  |-> out_mem[wjob.out],
                                       error |-> wjob.error])
    /\ wpc' = "dropOut"
    /\ UNCHANGED <<caller, lists, workers, wjob, wseq, yarn, inPool, outPool>>

(* buffer_pool_drop_space(job->out); free(job); seq++                      *)
DropOutSpace ==
    /\ wpc = "dropOut"
    /\ out_free' = Linked(wjob.out, out_free)
    /\ wseq' = wseq + 1
    /\ wjob' = NoJob
    /\ wpc' = "wait"
    /\ UNCHANGED <<caller, lists, workers, yarn, inPool, out_mem, delivered>>

(* verify no more jobs (the assertions), reset write_first, reenter()      *)
WriterExit ==
    /\ wpc = "verify"
    /\ write_first' = -1
    /\ wjob' = NoJob
    /\ wpc' = "exited"
    /\ exited' = exited \cup {Writer}
    /\ threads_value' = threads_value + 1
    /\ UNCHANGED <<caller, decodeList, decode_have, writeList, workers, wseq,
                   threads, inPool, outPool, delivered>>
-----------------------------------------------------------------------------
Caller ==
    \/ dst_decoder_create \/ DecodeGetSpace \/ FinishWriteJob
    \/ LaunchIfNeeded \/ AppendJob \/ JoinWriter \/ StopWorkers
    \/ JoinAllRound \/ JoinAllReturns \/ FreeDecoder

DecodeThread(w) ==
    \/ TakeJob(w) \/ LeaveOnStop(w) \/ GetOutSpace(w) \/ DecodeFrame(w)
    \/ DropInSpace(w) \/ InsertJob(w)

WriteThread == TakeWriteJob \/ Emit \/ DropOutSpace \/ WriterExit

Next == Caller \/ WriteThread \/ \E w \in Workers : DecodeThread(w)

(* Once it is inside a call the caller runs on; it need not make another   *)
(* call, except that a decoder it created is destroyed in the end.         *)
CallerRuns ==
    \/ LaunchIfNeeded \/ AppendJob \/ JoinWriter \/ StopWorkers
    \/ JoinAllRound \/ JoinAllReturns \/ FreeDecoder

Spec == Init /\ [][Next]_vars

FairSpec ==
    /\ Spec
    /\ WF_vars(CallerRuns)
    /\ WF_vars(WriteThread)
    /\ \A w \in Workers : WF_vars(DecodeThread(w))
-----------------------------------------------------------------------------
Job == [seq : Int, more : BOOLEAN, in : Nat, out : Nat, error : BOOLEAN]
CallerPlaces == {"idle", "feed", "launch", "append", "joinWriter", "stop",
                 "joinAll", "free"}
WorkerPlaces == {"none", "look", "getOut", "decode", "dropIn", "insert",
                 "exited"}
WriterPlaces == {"none", "wait", "emit", "dropOut", "verify", "exited"}
Sample       == Nat \cup {Silence, Garbage}

(* The range of every variable.                                            *)
TypeOK ==
    /\ mpc \in CallerPlaces
    /\ mjob \in Job
    /\ sequence \in Nat
    /\ cthreads \in 0 .. Procs
    /\ caught \in Nat
    /\ decodeList \in Seq(Job)
    /\ decode_have \in Int
    /\ writeList \in Seq(Job)
    /\ write_first \in Int
    /\ dpc \in [Workers -> WorkerPlaces]
    /\ djob \in [Workers -> Job]
    /\ wpc \in WriterPlaces
    /\ wjob \in Job
    /\ wseq \in Nat
    /\ threads \subseteq Workers \cup {Writer}
    /\ exited \subseteq threads
    /\ threads_value \in Int
    /\ in_free \in Seq(Nat)
    /\ in_limit \in Nat
    /\ in_mem \in Seq(Sample)
    /\ out_free \in Seq(Nat)
    /\ out_mem \in Seq(Sample)
    /\ delivered \in Seq([data : Sample, error : BOOLEAN])

(* What the callbacks are to see of frame n, as the caller's data had it.  *)
Decoded(n) == [data |-> DST_FramDSTDecode(n), error |-> n \in Corrupt]

(* Whatever order the decode threads finish in, the callbacks have seen    *)
(* frame 0, 1, 2, ... once each, with that frame's own samples, and the    *)
(* error callback named exactly the frames that failed                     *)
(* (write_thread, dst_decoder.c:276-303).                                  *)
DeliveredInOrder ==
    \A i \in 1 .. Len(delivered) : delivered[i] = Decoded(i - 1)

JobsAlive ==
    {mjob, wjob} \cup {djob[w] : w \in Workers}
        \cup ToSet(decodeList) \cup ToSet(writeList)

(* A space of either pool is in its free list or belongs to one job, never *)
(* to two and never to both: no thread decodes into a buffer that the      *)
(* write thread is reading, or out of one that the caller is refilling.    *)
(* An input space leaves the job when decode_thread drops it.              *)
SpacesNotShared ==
    LET HoldsIn(j) == /\ j.in # None
                      /\ \/ j = mjob
                         \/ j \in ToSet(decodeList)
                         \/ \E w \in Workers :
                               /\ j = djob[w]
                               /\ dpc[w] \in {"getOut", "decode", "dropIn"}
        Ins  == {j \in JobsAlive : HoldsIn(j)}
        Outs == {j \in JobsAlive : j.out # None}
    IN /\ \A j, k \in Ins : j.in = k.in => j.seq = k.seq
       /\ \A j, k \in Outs : j.out = k.out => j.seq = k.seq
       /\ \A j \in Ins : j.in \notin ToSet(in_free)
       /\ \A j \in Outs : j.out \notin ToSet(out_free)
       /\ IsInjective(in_free) /\ IsInjective(out_free)

(* The assertions of the code: a job is there when decode_have says so     *)
(* (210); nothing is left when the write thread has written the last job   *)
(* (307, 310); join_all caught every decode thread (173) and found a done  *)
(* thread when the count said so (yarn.c:339); both pools have all their   *)
(* spaces back when they are freed (buffer_pool.c:138).                    *)
AssertionsHold ==
    /\ (decode_have # 0 /\ \E w \in Workers : dpc[w] = "look")
            => decodeList # <<>>
    /\ wpc = "verify" => decodeList = <<>> /\ decode_have = 0
                             /\ writeList = <<>>
    /\ (mpc = "joinAll" /\ threads_value # 0) => threads \cap exited # {}
    /\ mpc = "free" => /\ caught = cthreads
                       /\ Len(in_free) = Len(in_mem)
                       /\ Len(out_free) = Len(out_mem)

(* dst_decoder_destroy frees the lists, the locks and the decoder itself   *)
(* only after every thread that uses them has left its loop.               *)
NoThreadOutlivesDecoder ==
    mpc \in {"idle", "free"} =>
        /\ threads = {}
        /\ wpc = "none"
        /\ \A w \in Workers : dpc[w] = "none"

(* The decoder implements the ordered stream of module FrameStream.        *)
StreamStatus ==
    CASE mpc = "idle" -> "closed"
      [] mpc = "feed" -> "open"
      [] mpc \in {"launch", "append"} /\ mjob.more -> "open"
      [] OTHER -> "closing"

Stream == INSTANCE FrameStream WITH
    status <- StreamStatus,
    fed    <- CASE StreamStatus = "open"    -> sequence
                [] StreamStatus = "closing" -> sequence - 1
                [] StreamStatus = "closed"  -> Len(delivered)

(* Every behaviour is one of the ordered stream: what was fed comes out    *)
(* in order, and destroy returns after all of it, not before.              *)
ImplementsFrameStream == Stream!StreamSpec
=============================================================================
