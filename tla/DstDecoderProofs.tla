-------------------------- MODULE DstDecoderProofs --------------------------
(***************************************************************************)
(* Theorems about module DstDecoder for every number of decode threads,    *)
(* spaces and frames.  IInv is the inductive invariant: types alone are    *)
(* not preserved, since a thread takes the head of a list because a lock   *)
(* value says that there is one, and reads a buffer because a job names    *)
(* it.  Its other parts say that the lock values describe the lists, that  *)
(* every thread is in yarn's list, and that spaces named somewhere exist.  *)
(***************************************************************************)
EXTENDS DstDecoder, FiniteSetTheorems, SequenceTheorems, WellFoundedInduction,
        TLAPS

(* A non-empty set of natural numbers has a least element.                 *)
LEMMA LeastNatural ==
    ASSUME NEW S \in SUBSET Nat, S # {}
    PROVE  \E m \in S : \A n \in S : m <= n
<1>1. \E m \in S : \A n \in S : <<n, m>> \notin OpToRel(<, Nat)
  BY NatLessThanWellFounded, WFMin
<1>2. \E m \in S : \A n \in S : ~(n < m)
  BY <1>1, Zenon DEF OpToRel
<1> QED
  BY <1>2

(* The loop that looks for a job's place in the write list finds one, and  *)
(* only jobs that are not later come before it (dst_decoder.c:237-242).    *)
LEMMA PlaceLemma ==
    ASSUME NEW list \in Seq(Job), NEW seq \in Int
    PROVE  /\ Place(list, seq) \in 1 .. Len(list) + 1
           /\ \A j \in 1 .. Place(list, seq) - 1 : list[j].seq <= seq
           /\ Place(list, seq) <= Len(list) => list[Place(list, seq)].seq > seq
<1> DEFINE S == {i \in 1 .. Len(list) + 1 :
                    i = Len(list) + 1 \/ list[i].seq > seq}
<1>1. PICK m \in S : \A n \in S : m <= n
  <2>1. S \in SUBSET Nat /\ Len(list) + 1 \in S
    OBVIOUS
  <2> QED BY <2>1, LeastNatural
<1>2. \A j \in 1 .. m - 1 : list[j].seq <= seq
  <2> SUFFICES ASSUME NEW j \in 1 .. m - 1 PROVE list[j].seq <= seq
    OBVIOUS
  <2>1. j \in 1 .. Len(list) /\ j \notin S
    BY <1>1
  <2>2. list[j] \in Job
    BY <2>1, ElementOfSeq
  <2>3. list[j].seq \in Int
    BY <2>2 DEF Job
  <2> QED BY <2>1, <2>3
<1>3. m <= Len(list) => list[m].seq > seq
  BY <1>1
<1> QED BY <1>1, <1>2, <1>3 DEF Place

(* What inserting an element into a sequence does to every position.       *)
IsInsertion(t, s, p, e) ==
    /\ Len(t) = Len(s) + 1
    /\ \A i \in 1 .. Len(s) + 1 :
          t[i] = IF i < p THEN s[i] ELSE IF i = p THEN e ELSE s[i - 1]

LEMMA InsertAtLemma ==
    ASSUME NEW S, NEW s \in Seq(S), NEW e \in S, NEW p \in 1 .. Len(s) + 1
    PROVE  /\ InsertAt(s, p, e) \in Seq(S)
           /\ IsInsertion(InsertAt(s, p, e), s, p, e)
<1> DEFINE a == SubSeq(s, 1, p - 1)
           b == SubSeq(s, p, Len(s))
<1>1. /\ a \in Seq(S) /\ Len(a) = p - 1
      /\ \A i \in 1 .. p - 1 : a[i] = s[i]
  BY SubSeqProperties, ElementOfSeq, Z3
<1>2. /\ b \in Seq(S) /\ Len(b) = Len(s) - p + 1
      /\ \A i \in 1 .. Len(s) - p + 1 : b[i] = s[p + i - 1]
  BY SubSeqProperties, ElementOfSeq, Z3
<1> HIDE DEF a, b
<1>3. /\ a \o <<e>> \in Seq(S) /\ Len(a \o <<e>>) = p
      /\ \A i \in 1 .. p : (a \o <<e>>)[i] = IF i < p THEN s[i] ELSE e
  BY <1>1
<1> DEFINE c == a \o <<e>>
<1>4. /\ c \o b \in Seq(S)
      /\ Len(c \o b) = Len(s) + 1
      /\ \A i \in 1 .. Len(s) + 1 : (c \o b)[i] =
            IF i <= p THEN c[i] ELSE b[i - p]
  <2> HIDE DEF c
  <2>1. c \in Seq(S) /\ Len(c) = p
    BY <1>3 DEF c
  <2> QED BY <1>2, <2>1
<1> HIDE DEF c
<1>5. \A i \in 1 .. Len(s) + 1 :
         /\ i <= p => c[i] = IF i < p THEN s[i] ELSE e
         /\ i > p => b[i - p] = s[i - 1]
  <2> TAKE i \in 1 .. Len(s) + 1
  <2>1. i <= p => c[i] = IF i < p THEN s[i] ELSE e
    <3>1. \A k \in 1 .. p : c[k] = IF k < p THEN s[k] ELSE e
      BY <1>3 DEF c
    <3>2. i <= p => i \in 1 .. p
      OBVIOUS
    <3> QED BY <3>1, <3>2
  <2>2. ASSUME i > p
        PROVE  b[i - p] = s[i - 1]
    <3>1. i - p \in 1 .. Len(s) - p + 1 /\ p + (i - p) - 1 = i - 1
      BY <2>2
    <3>2. b[i - p] = s[p + (i - p) - 1]
      BY <1>2, <3>1
    <3> QED BY <3>1, <3>2
  <2> QED BY <2>1, <2>2
<1>6. InsertAt(s, p, e) = c \o b
  BY DEF InsertAt, a, b, c
<1>7. IsInsertion(c \o b, s, p, e)
  BY <1>4, <1>5 DEF IsInsertion
<1> QED BY <1>4, <1>6, <1>7
-----------------------------------------------------------------------------
InSpaces  == 1 .. Len(in_mem)
OutSpaces == 1 .. Len(out_mem)

(* Every thread that runs is in yarn's list.                               *)
ThreadsListed ==
    /\ mpc \in {"idle", "free"} => threads = {}
    /\ \A w \in Workers : dpc[w] # "none" => w \in threads
    /\ wpc # "none" => Writer \in threads

(* The two lock values describe the two lists.                             *)
LocksMatchLists ==
    /\ IF mpc \in {"joinAll", "free"} THEN decodeList = <<StopJob>>
                                      ELSE decode_have = Len(decodeList)
    /\ wpc \in {"wait", "emit", "dropOut", "verify"} =>
           write_first = IF writeList = <<>> THEN -1 ELSE writeList[1].seq

(* The spaces of jobs and free lists exist.                                *)
InSpacesExist ==
    /\ mpc \in {"launch", "append"} \/ mjob = NoJob
    /\ mjob.more => mjob.in \in InSpaces
    /\ \A i \in DOMAIN decodeList :
           decodeList[i].more => decodeList[i].in \in InSpaces
    /\ \A w \in Workers :
           dpc[w] \in {"getOut", "decode", "dropIn"} => djob[w].in \in InSpaces
    /\ \A i \in DOMAIN in_free : in_free[i] \in InSpaces

OutSpacesExist ==
    /\ \A w \in Workers :
           (dpc[w] \in {"decode", "dropIn"}
                \/ (dpc[w] = "insert" /\ djob[w].more)) => djob[w].out \in OutSpaces
    /\ mpc # "idle" => \A i \in DOMAIN writeList :
           writeList[i].more => writeList[i].out \in OutSpaces
    /\ wpc \in {"emit", "dropOut"} => wjob.out \in OutSpaces
    /\ \A i \in DOMAIN out_free : out_free[i] \in OutSpaces

IInv ==
    TypeOK /\ ThreadsListed /\ LocksMatchLists /\ InSpacesExist
           /\ OutSpacesExist

(* Assigning one field of a job gives a job.                               *)
LEMMA JobUpdates ==
    ASSUME NEW j \in Job, NEW n \in Nat, NEW b \in BOOLEAN
    PROVE  /\ [j EXCEPT !.seq = n] \in Job
           /\ [j EXCEPT !.more = b] \in Job
           /\ [j EXCEPT !.in = n] \in Job
           /\ [j EXCEPT !.out = n] \in Job
           /\ [j EXCEPT !.error = b] \in Job
  BY DEF Job

(* The empty job, which also stops the decode threads.                     *)
LEMMA NoJobFacts ==
    /\ NoJob \in Job
    /\ StopJob = NoJob
    /\ NoJob.more = FALSE
    /\ NoJob.seq = StopSeq
<1>1. NoJob \in Job
  BY DEF Job, NoJob, StopSeq, None
<1>2. StopJob = NoJob
  BY DEF StopJob
<1>3. NoJob.more = FALSE /\ NoJob.seq = StopSeq
  BY DEF NoJob
<1> QED BY <1>1, <1>2, <1>3

(* The job dst_decoder_decode makes (dst_decoder.c:380-400).               *)
LEMMA FullJob ==
    ASSUME NEW s \in Nat, NEW i \in Nat
    PROVE  LET j == [NoJob EXCEPT !.seq = s, !.more = TRUE, !.in = i]
           IN j \in Job /\ j.seq = s /\ j.more = TRUE /\ j.in = i
<1> DEFINE j == [NoJob EXCEPT !.seq = s, !.more = TRUE, !.in = i]
<1>1. j \in Job
  BY NoJobFacts, JobUpdates
<1>2. j.seq = s /\ j.more = TRUE /\ j.in = i
  BY DEF NoJob
<1> QED BY <1>1, <1>2

(* The job finish_write_job makes (dst_decoder.c:314-346).                 *)
LEMMA LastJob ==
    ASSUME NEW s \in Nat
    PROVE  LET j == [NoJob EXCEPT !.seq = s]
           IN j \in Job /\ j.seq = s /\ j.more = FALSE
<1> DEFINE j == [NoJob EXCEPT !.seq = s]
<1>1. j \in Job
  BY NoJobFacts, JobUpdates
<1>2. j.seq = s /\ j.more = FALSE
  BY DEF NoJob
<1> QED BY <1>1, <1>2

(* IInv holds before the first decoder is created.                         *)
LEMMA InitInv == Init => IInv
  BY DecoderAssumption
     DEF Init, IInv, TypeOK, ThreadsListed, LocksMatchLists, InSpacesExist,
         OutSpacesExist, NoJob, Job, CallerPlaces, WorkerPlaces, WriterPlaces,
         Workers, StopSeq, None, Sample, InSpaces, OutSpaces, StopJob

(* IInv mentions no more than the variables of the specification.          *)
LEMMA StutterInv == IInv /\ UNCHANGED vars => IInv'
  BY DEF vars, caller, lists, workers, writer, yarn, inPool, outPool,
         IInv, TypeOK, ThreadsListed, LocksMatchLists, InSpacesExist,
         OutSpacesExist, InSpaces, OutSpaces

(* create, decode and destroy preserve IInv.                               *)
LEMMA CallerInv == IInv /\ Caller => IInv'
<1> SUFFICES ASSUME IInv, Caller PROVE IInv'
  OBVIOUS
<1> USE DecoderAssumption DEF caller, lists, workers, writer, yarn, inPool,
    outPool
<1>1. CASE dst_decoder_create
  <2>1. TypeOK'
    BY <1>1 DEF IInv, dst_decoder_create, TypeOK, CallerPlaces, WriterPlaces
  <2>2. ThreadsListed'
    BY <1>1 DEF IInv, dst_decoder_create, ThreadsListed, TypeOK, Workers, Writer
  <2>3. LocksMatchLists'
    BY <1>1 DEF IInv, dst_decoder_create, LocksMatchLists, TypeOK
  <2>4. InSpacesExist'
    BY <1>1 DEF IInv, dst_decoder_create, InSpacesExist, InSpaces, TypeOK
  <2>5. OutSpacesExist'
    BY <1>1 DEF IInv, dst_decoder_create, OutSpacesExist, OutSpaces, TypeOK
  <2> QED BY <2>1, <2>2, <2>3, <2>4, <2>5 DEF IInv
<1>2. CASE DecodeGetSpace
  <2>t. /\ sequence \in Nat /\ in_limit \in Nat
        /\ in_free \in Seq(Nat) /\ in_mem \in Seq(Sample)
    BY DEF IInv, TypeOK
  <2>s. sequence \in Sample /\ sequence + 1 \in Nat
    BY <2>t DEF Sample
  <2>j. PICK i \in Nat :
          /\ mjob' = [NoJob EXCEPT !.seq = sequence, !.more = TRUE, !.in = i]
          /\ i \in InSpaces'
          /\ InSpaces \subseteq InSpaces'
          /\ in_mem' \in Seq(Sample)
          /\ in_free' \in Seq(Nat)
          /\ in_limit' \in Nat
          /\ \A k \in DOMAIN in_free' : in_free'[k] \in InSpaces
    <3>1. CASE in_free # <<>>
      <4>1. /\ in_free' = Tail(in_free)
            /\ in_mem' = [in_mem EXCEPT ![Head(in_free)] = sequence]
            /\ mjob' = [NoJob EXCEPT !.seq = sequence, !.more = TRUE,
                                     !.in = Head(in_free)]
            /\ in_limit' = in_limit
        BY <1>2, <3>1 DEF DecodeGetSpace, Unlinked
      <4>2. \A k \in DOMAIN in_free : in_free[k] \in InSpaces
        BY DEF IInv, InSpacesExist
      <4>3. /\ in_free' \in Seq(Nat)
            /\ Head(in_free) \in Nat
            /\ Head(in_free) = in_free[1]
            /\ 1 \in DOMAIN in_free
            /\ Len(in_free') = Len(in_free) - 1
            /\ \A k \in 1 .. Len(in_free) - 1 : in_free'[k] = in_free[k + 1]
        BY <4>1, <3>1, <2>t, HeadTailProperties
      <4>5. /\ Head(in_free) \in InSpaces
            /\ \A k \in DOMAIN in_free' : in_free'[k] \in InSpaces
        <5>1. in_free[1] \in InSpaces
          BY <4>2, <4>3
        <5>2. ASSUME NEW k \in DOMAIN in_free' PROVE in_free'[k] \in InSpaces
          <6>1. k \in 1 .. Len(in_free) - 1 /\ k + 1 \in DOMAIN in_free
            BY <4>3, <2>t
          <6> QED BY <6>1, <4>2, <4>3
        <5> QED BY <5>1, <5>2, <4>3
      <4>4. in_mem' \in Seq(Sample) /\ Len(in_mem') = Len(in_mem)
        BY <4>1, <4>5, <2>t, <2>s, ExceptSeq DEF InSpaces
      <4> QED BY <4>1, <4>3, <4>4, <4>5, <2>t DEF InSpaces
    <3>2. CASE in_free = <<>>
      <4>1. /\ in_free' = <<>>
            /\ in_mem' = Append(in_mem, sequence)
            /\ mjob' = [NoJob EXCEPT !.seq = sequence, !.more = TRUE,
                                     !.in = Len(in_mem) + 1]
            /\ in_limit' = in_limit - 1 /\ in_limit # 0
        BY <1>2, <3>2 DEF DecodeGetSpace
      <4>2. /\ in_mem' \in Seq(Sample) /\ Len(in_mem') = Len(in_mem) + 1
            /\ Len(in_mem) \in Nat
        BY <4>1, <2>t, <2>s
      <4>3. Len(in_mem) + 1 \in InSpaces' /\ InSpaces \subseteq InSpaces'
        BY <4>2 DEF InSpaces
      <4>4. in_free' \in Seq(Nat) /\ in_limit' \in Nat /\ DOMAIN in_free' = {}
        BY <4>1, <2>t
      <4>5. Len(in_mem) + 1 \in Nat
        BY <4>2
      <4> QED BY <4>1, <4>2, <4>3, <4>4, <4>5, Zenon
    <3> QED BY <3>1, <3>2
  <2>f. mjob' \in Job /\ mjob'.more = TRUE /\ mjob'.in \in InSpaces'
    <3>1. LET j == [NoJob EXCEPT !.seq = sequence, !.more = TRUE, !.in = i]
          IN j \in Job /\ j.more = TRUE /\ j.in = i
      BY <2>t, FullJob
    <3> QED BY <2>j, <3>1
  <2>u. /\ mpc' = "launch"
        /\ sequence' = sequence + 1
        /\ UNCHANGED <<cthreads, caught, lists, workers, writer, yarn, outPool,
                       delivered>>
    BY <1>2 DEF DecodeGetSpace
  <2>1. TypeOK'
    BY <2>u, <2>j, <2>f, <2>s DEF IInv, TypeOK, CallerPlaces
  <2>2. ThreadsListed'
    BY <2>u DEF IInv, ThreadsListed
  <2>3. LocksMatchLists'
    BY <1>2, <2>u DEF IInv, DecodeGetSpace, LocksMatchLists
  <2>4. InSpacesExist'
    BY <2>u, <2>j, <2>f DEF IInv, InSpacesExist
  <2>5. OutSpacesExist'
    BY <1>2, <2>u DEF IInv, DecodeGetSpace, OutSpacesExist, OutSpaces
  <2> QED BY <2>1, <2>2, <2>3, <2>4, <2>5 DEF IInv
<1>3. CASE FinishWriteJob
  <2>1. TypeOK'
    <3>1. sequence \in Nat
      BY DEF IInv, TypeOK
    <3>2. mjob' = [NoJob EXCEPT !.seq = sequence] /\ sequence' = sequence + 1
      BY <1>3 DEF FinishWriteJob
    <3>3. mjob' \in Job /\ sequence' \in Nat
      <4>1. [NoJob EXCEPT !.seq = sequence] \in Job
        BY <3>1, LastJob
      <4> QED BY <3>1, <3>2, <4>1
    <3> QED BY <1>3, <3>3 DEF IInv, FinishWriteJob, TypeOK, CallerPlaces
  <2>2. ThreadsListed'
    BY <1>3 DEF IInv, FinishWriteJob, ThreadsListed, TypeOK, Workers, Writer
  <2>3. LocksMatchLists'
    BY <1>3 DEF IInv, FinishWriteJob, LocksMatchLists, TypeOK
  <2>4. InSpacesExist'
    BY <1>3, LastJob DEF IInv, FinishWriteJob, InSpacesExist, InSpaces, TypeOK
  <2>5. OutSpacesExist'
    BY <1>3 DEF IInv, FinishWriteJob, OutSpacesExist, OutSpaces, TypeOK
  <2> QED BY <2>1, <2>2, <2>3, <2>4, <2>5 DEF IInv
<1>4. CASE LaunchIfNeeded
  <2>t. /\ cthreads \in 0 .. Procs /\ dpc \in [Workers -> WorkerPlaces]
        /\ threads \subseteq Workers \cup {Writer} /\ exited \subseteq threads
    BY DEF IInv, TypeOK
  <2>l. /\ cthreads' \in 0 .. Procs
        /\ dpc' \in [Workers -> WorkerPlaces]
        /\ threads' \subseteq Workers \cup {Writer}
        /\ threads \subseteq threads'
        /\ \A w \in Workers : dpc'[w] = dpc[w]
                                 \/ (dpc'[w] = "look" /\ w \in threads')
    <3>1. CASE cthreads < Procs
      <4>1. /\ cthreads' = cthreads + 1
            /\ threads' = threads \cup {cthreads + 1}
            /\ dpc' = [dpc EXCEPT ![cthreads + 1] = "look"]
        BY <1>4, <3>1 DEF LaunchIfNeeded, MayLaunch
      <4>2. cthreads + 1 \in Workers /\ "look" \in WorkerPlaces
        BY <2>t, <3>1 DEF Workers, WorkerPlaces
      <4>3. cthreads' \in 0 .. Procs
        BY <4>1, <3>1, <2>t
      <4>4. dpc' \in [Workers -> WorkerPlaces]
        BY <4>1, <4>2, <2>t
      <4>5. /\ threads' \subseteq Workers \cup {Writer}
            /\ threads \subseteq threads'
        BY <4>1, <4>2, <2>t
      <4>6. \A w \in Workers : dpc'[w] = dpc[w]
                                 \/ (dpc'[w] = "look" /\ w \in threads')
        <5>1. dpc'[cthreads + 1] = "look" /\ cthreads + 1 \in threads'
          BY <4>1, <4>2, <2>t
        <5>2. \A w \in Workers : w # cthreads + 1 => dpc'[w] = dpc[w]
          BY <4>1, <2>t
        <5> QED BY <5>1, <5>2
      <4> QED BY <4>3, <4>4, <4>5, <4>6
    <3>2. CASE ~(cthreads < Procs)
      <4>1. cthreads' = cthreads /\ threads' = threads /\ dpc' = dpc
        BY <1>4, <3>2 DEF LaunchIfNeeded, MayLaunch
      <4>2. cthreads' \in 0 .. Procs /\ dpc' \in [Workers -> WorkerPlaces]
        BY <4>1, <2>t
      <4>3. threads' \subseteq Workers \cup {Writer} /\ threads \subseteq threads'
        BY <4>1, <2>t
      <4>4. \A w \in Workers : dpc'[w] = dpc[w]
        BY <4>1
      <4> QED BY <4>2, <4>3, <4>4, Zenon
    <3> QED BY <3>1, <3>2
  <2>u. /\ mpc = "launch" /\ mpc' = "append"
        /\ UNCHANGED <<mjob, sequence, caught, lists, djob, writer, exited,
                       threads_value, inPool, outPool, delivered>>
    BY <1>4 DEF LaunchIfNeeded, MayLaunch
  <2>1. TypeOK'
    BY <2>u, <2>l, <2>t DEF IInv, TypeOK, CallerPlaces
  <2>2. ThreadsListed'
    BY <2>u, <2>l DEF IInv, ThreadsListed
  <2>3. LocksMatchLists'
    BY <2>u DEF IInv, LocksMatchLists
  <2>4. InSpacesExist'
    BY <2>u, <2>l DEF IInv, InSpacesExist, InSpaces
  <2>5. OutSpacesExist'
    BY <2>u, <2>l DEF IInv, OutSpacesExist, OutSpaces
  <2> QED BY <2>1, <2>2, <2>3, <2>4, <2>5 DEF IInv
<1>5. CASE AppendJob
  <2>1. TypeOK'
    <3>1. mjob' \in Job /\ decodeList' \in Seq(Job)
      BY <1>5, NoJobFacts DEF IInv, AppendJob, TypeOK
    <3> QED BY <1>5, <3>1 DEF IInv, AppendJob, TypeOK, CallerPlaces
  <2>2. ThreadsListed'
    BY <1>5 DEF IInv, AppendJob, ThreadsListed, TypeOK, Workers, Writer
  <2>3. LocksMatchLists'
    <3>1. Len(decodeList') = Len(decodeList) + 1
      BY <1>5 DEF IInv, AppendJob, TypeOK
    <3> QED BY <1>5, <3>1 DEF IInv, AppendJob, LocksMatchLists, TypeOK
  <2>4. InSpacesExist'
    BY <1>5, NoJobFacts DEF IInv, AppendJob, InSpacesExist, InSpaces, TypeOK
  <2>5. OutSpacesExist'
    BY <1>5 DEF IInv, AppendJob, OutSpacesExist, OutSpaces, TypeOK
  <2> QED BY <2>1, <2>2, <2>3, <2>4, <2>5 DEF IInv
<1>6. CASE JoinWriter
  <2>1. TypeOK'
    BY <1>6 DEF IInv, JoinWriter, TypeOK, CallerPlaces, WriterPlaces
  <2>2. ThreadsListed'
    BY <1>6 DEF IInv, JoinWriter, ThreadsListed, TypeOK, Workers, Writer
  <2>3. LocksMatchLists'
    BY <1>6 DEF IInv, JoinWriter, LocksMatchLists, TypeOK
  <2>4. InSpacesExist'
    BY <1>6 DEF IInv, JoinWriter, InSpacesExist, InSpaces, TypeOK
  <2>5. OutSpacesExist'
    BY <1>6 DEF IInv, JoinWriter, OutSpacesExist, OutSpaces, TypeOK
  <2> QED BY <2>1, <2>2, <2>3, <2>4, <2>5 DEF IInv
<1>7. CASE StopWorkers
  <2>1. TypeOK'
    <3>1. decodeList' \in Seq(Job)
      BY <1>7, NoJobFacts DEF StopWorkers
    <3> QED BY <1>7, <3>1 DEF IInv, StopWorkers, TypeOK, CallerPlaces
  <2>2. ThreadsListed'
    BY <1>7 DEF IInv, StopWorkers, ThreadsListed, TypeOK, Workers, Writer
  <2>3. LocksMatchLists'
    BY <1>7, NoJobFacts DEF IInv, StopWorkers, LocksMatchLists, TypeOK
  <2>4. InSpacesExist'
    BY <1>7, NoJobFacts DEF IInv, StopWorkers, InSpacesExist, InSpaces, TypeOK
  <2>5. OutSpacesExist'
    BY <1>7 DEF IInv, StopWorkers, OutSpacesExist, OutSpaces, TypeOK
  <2> QED BY <2>1, <2>2, <2>3, <2>4, <2>5 DEF IInv
<1>8. CASE JoinAllRound
  <2>1. TypeOK'
    BY <1>8 DEF IInv, JoinAllRound, TypeOK, CallerPlaces, WorkerPlaces, WriterPlaces
  <2>2. ThreadsListed'
    BY <1>8 DEF IInv, JoinAllRound, ThreadsListed, TypeOK, Workers, Writer
  <2>3. LocksMatchLists'
    BY <1>8 DEF IInv, JoinAllRound, LocksMatchLists, TypeOK
  <2>4. InSpacesExist'
    BY <1>8 DEF IInv, JoinAllRound, InSpacesExist, InSpaces, TypeOK
  <2>5. OutSpacesExist'
    BY <1>8 DEF IInv, JoinAllRound, OutSpacesExist, OutSpaces, TypeOK
  <2> QED BY <2>1, <2>2, <2>3, <2>4, <2>5 DEF IInv
<1>9. CASE JoinAllReturns
  <2>1. TypeOK'
    BY <1>9 DEF IInv, JoinAllReturns, TypeOK, CallerPlaces
  <2>2. ThreadsListed'
    BY <1>9 DEF IInv, JoinAllReturns, AllJoined, ThreadsListed, TypeOK, Workers, Writer
  <2>3. LocksMatchLists'
    BY <1>9 DEF IInv, JoinAllReturns, LocksMatchLists, TypeOK
  <2>4. InSpacesExist'
    BY <1>9 DEF IInv, JoinAllReturns, InSpacesExist, InSpaces, TypeOK
  <2>5. OutSpacesExist'
    BY <1>9 DEF IInv, JoinAllReturns, OutSpacesExist, OutSpaces, TypeOK
  <2> QED BY <2>1, <2>2, <2>3, <2>4, <2>5 DEF IInv
<1>10. CASE FreeDecoder
  <2>1. TypeOK'
    BY <1>10 DEF IInv, FreeDecoder, TypeOK, CallerPlaces
  <2>2. ThreadsListed'
    BY <1>10 DEF IInv, FreeDecoder, ThreadsListed, TypeOK
  <2>3. LocksMatchLists'
    BY <1>10 DEF IInv, FreeDecoder, LocksMatchLists, TypeOK
  <2>4. InSpacesExist'
    <3>1. \A w \in Workers : dpc'[w] = "none"
      BY <1>10 DEF IInv, FreeDecoder, ThreadsListed
    <3> QED BY <1>10, <3>1, NoJobFacts
            DEF IInv, FreeDecoder, InSpacesExist, InSpaces
  <2>5. OutSpacesExist'
    <3>1. (\A w \in Workers : dpc'[w] = "none") /\ wpc' = "none"
      BY <1>10 DEF IInv, FreeDecoder, ThreadsListed
    <3> QED BY <1>10, <3>1 DEF IInv, FreeDecoder, OutSpacesExist, OutSpaces
  <2> QED BY <2>1, <2>2, <2>3, <2>4, <2>5 DEF IInv
<1> QED BY <1>1, <1>2, <1>3, <1>4, <1>5, <1>6, <1>7, <1>8, <1>9, <1>10
        DEF Caller

(* A decode thread preserves IInv (dst_decoder.c:191-259).                 *)
LEMMA DecodeThreadInv ==
    ASSUME NEW w \in Workers, IInv, DecodeThread(w)
    PROVE  IInv'
<1> USE DecoderAssumption DEF caller, lists, workers, writer, yarn, inPool,
    outPool
<1>t. /\ dpc \in [Workers -> WorkerPlaces] /\ djob \in [Workers -> Job]
      /\ djob[w] \in Job
      /\ decodeList \in Seq(Job) /\ writeList \in Seq(Job)
      /\ in_free \in Seq(Nat) /\ out_free \in Seq(Nat)
      /\ in_mem \in Seq(Sample) /\ out_mem \in Seq(Sample)
  BY DEF IInv, TypeOK
<1>r. ASSUME dpc[w] # "none"
      PROVE  w \in threads /\ mpc \notin {"idle", "free"}
  BY <1>r DEF IInv, ThreadsListed
<1>1. CASE TakeJob(w)
  <2>a. /\ dpc[w] = "look" /\ decode_have # 0
        /\ Head(decodeList).seq # StopSeq
        /\ djob' = [djob EXCEPT ![w] = Head(decodeList)]
        /\ decodeList' = Tail(decodeList)
        /\ decode_have' = decode_have - 1
        /\ dpc' = [dpc EXCEPT ![w] = IF Head(decodeList).more THEN "getOut"
                                                              ELSE "insert"]
        /\ UNCHANGED <<caller, writeList, write_first, writer, yarn, inPool,
                       outPool, delivered>>
    BY <1>1 DEF TakeJob
  <2>n. mpc \notin {"joinAll", "free"} /\ decode_have = Len(decodeList)
    <3>1. mpc # "joinAll"
      BY <2>a, NoJobFacts DEF IInv, LocksMatchLists
    <3> QED BY <3>1, <2>a, <1>r DEF IInv, LocksMatchLists
  <2>h. /\ decodeList # <<>>
        /\ Head(decodeList) = decodeList[1]
        /\ 1 \in DOMAIN decodeList
        /\ Head(decodeList) \in Job
        /\ decodeList' \in Seq(Job)
        /\ Len(decodeList') = Len(decodeList) - 1
        /\ \A k \in 1 .. Len(decodeList) - 1 :
               decodeList'[k] = decodeList[k + 1]
    <3>1. decodeList # <<>>
      BY <2>a, <2>n, <1>t
    <3> QED BY <3>1, <2>a, <1>t, HeadTailProperties
  <2>d. /\ djob' \in [Workers -> Job] /\ dpc' \in [Workers -> WorkerPlaces]
        /\ djob'[w] = Head(decodeList)
        /\ dpc'[w] = IF Head(decodeList).more THEN "getOut" ELSE "insert"
        /\ \A v \in Workers : v # w => djob'[v] = djob[v] /\ dpc'[v] = dpc[v]
    BY <2>a, <2>h, <1>t DEF WorkerPlaces
  <2>1. TypeOK'
    <3>1. decode_have' \in Int
      BY <2>a DEF IInv, TypeOK
    <3> QED BY <3>1, <2>a, <2>h, <2>d DEF IInv, TypeOK
  <2>2. ThreadsListed'
    BY <2>a, <2>d, <1>r DEF IInv, ThreadsListed
  <2>3. LocksMatchLists'
    <3>1. decode_have' = Len(decodeList')
      BY <2>a, <2>n, <2>h
    <3> QED BY <3>1, <2>a, <2>n DEF IInv, LocksMatchLists
  <2>4. InSpacesExist'
    <3>1. Head(decodeList).more => Head(decodeList).in \in InSpaces
      BY <2>h DEF IInv, InSpacesExist
    <3>2. ASSUME NEW k \in DOMAIN decodeList', decodeList'[k].more
          PROVE  decodeList'[k].in \in InSpaces
      <4>1. k \in 1 .. Len(decodeList) - 1 /\ k + 1 \in DOMAIN decodeList
        BY <2>h, <1>t
      <4>2. decodeList'[k] = decodeList[k + 1]
        BY <4>1, <2>h
      <4> QED BY <4>1, <4>2, <3>2 DEF IInv, InSpacesExist
    <3>3. InSpaces' = InSpaces
      BY <2>a DEF InSpaces
    <3> QED BY <2>a, <2>d, <3>1, <3>2, <3>3 DEF IInv, InSpacesExist
  <2>5. OutSpacesExist'
    <3>1. OutSpaces' = OutSpaces
      BY <2>a DEF OutSpaces
    <3> QED BY <2>a, <2>d, <3>1 DEF IInv, OutSpacesExist
  <2> QED BY <2>1, <2>2, <2>3, <2>4, <2>5 DEF IInv
<1>2. CASE LeaveOnStop(w)
  <2>a. /\ dpc[w] = "look"
        /\ dpc' = [dpc EXCEPT ![w] = "exited"]
        /\ exited' = exited \cup {w}
        /\ threads_value' = threads_value + 1
        /\ UNCHANGED <<caller, lists, djob, writer, threads, inPool, outPool,
                       delivered>>
    BY <1>2 DEF LeaveOnStop
  <2>d. /\ dpc' \in [Workers -> WorkerPlaces]
        /\ dpc'[w] = "exited"
        /\ \A v \in Workers : v # w => dpc'[v] = dpc[v]
    BY <2>a, <1>t DEF WorkerPlaces
  <2>1. TypeOK'
    BY <2>a, <2>d, <1>r DEF IInv, TypeOK
  <2>2. ThreadsListed'
    BY <2>a, <2>d, <1>r DEF IInv, ThreadsListed
  <2>3. LocksMatchLists'
    BY <2>a DEF IInv, LocksMatchLists
  <2>4. InSpacesExist'
    BY <2>a, <2>d DEF IInv, InSpacesExist, InSpaces
  <2>5. OutSpacesExist'
    BY <2>a, <2>d DEF IInv, OutSpacesExist, OutSpaces
  <2> QED BY <2>1, <2>2, <2>3, <2>4, <2>5 DEF IInv
<1>3. CASE GetOutSpace(w)
  <2>a. /\ dpc[w] = "getOut"
        /\ dpc' = [dpc EXCEPT ![w] = "decode"]
        /\ UNCHANGED <<caller, lists, writer, yarn, inPool, delivered>>
    BY <1>3 DEF GetOutSpace, Unlinked
  <2>o. PICK o \in Nat :
          /\ djob' = [djob EXCEPT ![w].out = o]
          /\ o \in OutSpaces'
          /\ OutSpaces \subseteq OutSpaces'
          /\ out_mem' \in Seq(Sample)
          /\ out_free' \in Seq(Nat)
          /\ \A k \in DOMAIN out_free' : out_free'[k] \in OutSpaces'
    <3>f. \A k \in DOMAIN out_free : out_free[k] \in OutSpaces
      BY DEF IInv, OutSpacesExist
    <3>1. CASE out_free # <<>>
      <4>1. /\ djob' = [djob EXCEPT ![w].out = Head(out_free)]
            /\ out_free' = Tail(out_free)
            /\ out_mem' = out_mem
        BY <1>3, <3>1 DEF GetOutSpace, Unlinked
      <4>2. /\ out_free' \in Seq(Nat)
            /\ Head(out_free) \in Nat
            /\ Head(out_free) = out_free[1]
            /\ 1 \in DOMAIN out_free
            /\ Len(out_free') = Len(out_free) - 1
            /\ \A k \in 1 .. Len(out_free) - 1 :
                   out_free'[k] = out_free[k + 1]
        BY <4>1, <3>1, <1>t, HeadTailProperties
      <4>3. OutSpaces' = OutSpaces
        BY <4>1 DEF OutSpaces
      <4>4. ASSUME NEW k \in DOMAIN out_free'
            PROVE  out_free'[k] \in OutSpaces'
        <5>1. k \in 1 .. Len(out_free) - 1 /\ k + 1 \in DOMAIN out_free
          <6>1. /\ DOMAIN out_free = 1 .. Len(out_free) /\ Len(out_free) \in Nat
                /\ DOMAIN out_free' = 1 .. Len(out_free')
            BY <4>2, <1>t
          <6>2. k \in 1 .. Len(out_free) - 1
            BY <6>1, <4>2
          <6> QED BY <6>1, <6>2
        <5> QED BY <5>1, <4>2, <4>3, <3>f
      <4>5. Head(out_free) \in OutSpaces
        BY <4>2, <3>f
      <4> QED BY <4>1, <4>2, <4>3, <4>4, <4>5, <1>t
    <3>2. CASE out_free = <<>>
      <4>1. /\ djob' = [djob EXCEPT ![w].out = Len(out_mem) + 1]
            /\ out_mem' = Append(out_mem, Garbage)
            /\ out_free' = out_free
        BY <1>3, <3>2 DEF GetOutSpace, Unlinked
      <4>2. /\ out_mem' \in Seq(Sample) /\ Len(out_mem') = Len(out_mem) + 1
            /\ Len(out_mem) \in Nat /\ Len(out_mem) + 1 \in Nat
        BY <4>1, <1>t DEF Sample
      <4>3. Len(out_mem) + 1 \in OutSpaces' /\ OutSpaces \subseteq OutSpaces'
        BY <4>2 DEF OutSpaces
      <4>4. out_free' \in Seq(Nat) /\ DOMAIN out_free' = {}
        BY <4>1, <3>2, <1>t
      <4> QED BY <4>1, <4>2, <4>3, <4>4, Zenon
    <3> QED BY <3>1, <3>2
  <2>d. /\ djob' \in [Workers -> Job] /\ dpc' \in [Workers -> WorkerPlaces]
        /\ djob'[w].out = o /\ djob'[w].in = djob[w].in
        /\ dpc'[w] = "decode"
        /\ \A v \in Workers : v # w => djob'[v] = djob[v] /\ dpc'[v] = dpc[v]
    <3>1. [djob[w] EXCEPT !.out = o] \in Job
      BY <1>t, JobUpdates
    <3>2. djob' = [djob EXCEPT ![w] = [djob[w] EXCEPT !.out = o]]
      BY <2>o
    <3>3. djob' \in [Workers -> Job] /\ dpc' \in [Workers -> WorkerPlaces]
      BY <3>1, <3>2, <2>a, <1>t DEF WorkerPlaces
    <3>4. djob'[w] = [djob[w] EXCEPT !.out = o] /\ dpc'[w] = "decode"
      BY <3>2, <2>a, <1>t
    <3>5. djob'[w].out = o /\ djob'[w].in = djob[w].in
      BY <3>4, <1>t DEF Job
    <3>6. \A v \in Workers : v # w => djob'[v] = djob[v] /\ dpc'[v] = dpc[v]
      BY <3>2, <2>a, <1>t
    <3> QED BY <3>3, <3>4, <3>5, <3>6
  <2>1. TypeOK'
    BY <2>a, <2>o, <2>d DEF IInv, TypeOK
  <2>2. ThreadsListed'
    BY <2>a, <2>d, <1>r DEF IInv, ThreadsListed
  <2>3. LocksMatchLists'
    BY <2>a DEF IInv, LocksMatchLists
  <2>4. InSpacesExist'
    BY <2>a, <2>d DEF IInv, InSpacesExist, InSpaces
  <2>5. OutSpacesExist'
    BY <2>a, <2>d, <2>o DEF IInv, OutSpacesExist
  <2> QED BY <2>1, <2>2, <2>3, <2>4, <2>5 DEF IInv
<1>4. CASE DecodeFrame(w)
  <2>a. /\ dpc[w] = "decode"
        /\ out_mem' = [out_mem EXCEPT ![djob[w].out] =
                            DST_FramDSTDecode(in_mem[djob[w].in])]
        /\ djob' = [djob EXCEPT ![w].error = in_mem[djob[w].in] \in Corrupt]
        /\ dpc' = [dpc EXCEPT ![w] = "dropIn"]
        /\ UNCHANGED <<caller, lists, writer, yarn, inPool, out_free,
                       delivered>>
    BY <1>4 DEF DecodeFrame
  <2>s. djob[w].out \in OutSpaces /\ djob[w].in \in InSpaces
    BY <2>a DEF IInv, InSpacesExist, OutSpacesExist
  <2>m. out_mem' \in Seq(Sample) /\ OutSpaces' = OutSpaces
    <3>1. in_mem[djob[w].in] \in Sample
      BY <2>s, <1>t, ElementOfSeq DEF InSpaces
    <3>2. DST_FramDSTDecode(in_mem[djob[w].in]) \in Sample
      BY <3>1 DEF DST_FramDSTDecode, Sample
    <3>3. out_mem' \in Seq(Sample) /\ Len(out_mem') = Len(out_mem)
      BY <3>2, <2>a, <2>s, <1>t, ExceptSeq DEF OutSpaces
    <3> QED BY <3>3 DEF OutSpaces
  <2>d. /\ djob' \in [Workers -> Job] /\ dpc' \in [Workers -> WorkerPlaces]
        /\ djob'[w].out = djob[w].out /\ djob'[w].in = djob[w].in
        /\ dpc'[w] = "dropIn"
        /\ \A v \in Workers : v # w => djob'[v] = djob[v] /\ dpc'[v] = dpc[v]
    <3> DEFINE e == in_mem[djob[w].in] \in Corrupt
    <3>0. e \in BOOLEAN
      OBVIOUS
    <3>2. djob' = [djob EXCEPT ![w] = [djob[w] EXCEPT !.error = e]]
      BY <2>a
    <3> HIDE DEF e
    <3>1. [djob[w] EXCEPT !.error = e] \in Job
      BY <3>0, <1>t, JobUpdates
    <3>3. djob' \in [Workers -> Job] /\ dpc' \in [Workers -> WorkerPlaces]
      BY <3>1, <3>2, <2>a, <1>t DEF WorkerPlaces
    <3>4. djob'[w] = [djob[w] EXCEPT !.error = e] /\ dpc'[w] = "dropIn"
      BY <3>2, <2>a, <1>t
    <3>5. djob'[w].out = djob[w].out /\ djob'[w].in = djob[w].in
      BY <3>4, <1>t DEF Job
    <3>6. \A v \in Workers : v # w => djob'[v] = djob[v] /\ dpc'[v] = dpc[v]
      BY <3>2, <2>a, <1>t
    <3> QED BY <3>3, <3>4, <3>5, <3>6
  <2>1. TypeOK'
    BY <2>a, <2>m, <2>d DEF IInv, TypeOK
  <2>2. ThreadsListed'
    BY <2>a, <2>d, <1>r DEF IInv, ThreadsListed
  <2>3. LocksMatchLists'
    BY <2>a DEF IInv, LocksMatchLists
  <2>4. InSpacesExist'
    BY <2>a, <2>d, <2>s DEF IInv, InSpacesExist, InSpaces
  <2>5. OutSpacesExist'
    BY <2>a, <2>d, <2>m, <2>s DEF IInv, OutSpacesExist
  <2> QED BY <2>1, <2>2, <2>3, <2>4, <2>5 DEF IInv
<1>5. CASE DropInSpace(w)
  <2>a. /\ dpc[w] = "dropIn"
        /\ in_free' = <<djob[w].in>> \o in_free
        /\ dpc' = [dpc EXCEPT ![w] = "insert"]
        /\ UNCHANGED <<caller, lists, djob, writer, yarn, in_limit, in_mem,
                       outPool, delivered>>
    BY <1>5 DEF DropInSpace, Linked
  <2>s. djob[w].out \in OutSpaces /\ djob[w].in \in InSpaces
    BY <2>a DEF IInv, InSpacesExist, OutSpacesExist
  <2>f. /\ in_free' \in Seq(Nat)
        /\ \A k \in DOMAIN in_free' : in_free'[k] \in InSpaces
    <3>1. djob[w].in \in Nat
      BY <1>t DEF Job
    <3>2. \A k \in DOMAIN in_free : in_free[k] \in InSpaces
      BY DEF IInv, InSpacesExist
    <3>3. in_free \in Seq(InSpaces)
      BY <3>2, <1>t
    <3>4. in_free' \in Seq(InSpaces)
      BY <3>3, <2>a, <2>s
    <3>5. \A k \in DOMAIN in_free' : in_free'[k] \in InSpaces
      BY <3>4
    <3>6. in_free' \in Seq(Nat)
      BY <3>1, <2>a, <1>t
    <3> QED BY <3>5, <3>6
  <2>d. /\ dpc' \in [Workers -> WorkerPlaces]
        /\ dpc'[w] = "insert"
        /\ \A v \in Workers : v # w => dpc'[v] = dpc[v]
    BY <2>a, <1>t DEF WorkerPlaces
  <2>1. TypeOK'
    BY <2>a, <2>f, <2>d DEF IInv, TypeOK
  <2>2. ThreadsListed'
    BY <2>a, <2>d, <1>r DEF IInv, ThreadsListed
  <2>3. LocksMatchLists'
    BY <2>a DEF IInv, LocksMatchLists
  <2>4. InSpacesExist'
    BY <2>a, <2>d, <2>f DEF IInv, InSpacesExist, InSpaces
  <2>5. OutSpacesExist'
    BY <2>a, <2>d, <2>s DEF IInv, OutSpacesExist, OutSpaces
  <2> QED BY <2>1, <2>2, <2>3, <2>4, <2>5 DEF IInv
<1>6. CASE InsertJob(w)
  <2> DEFINE p == Place(writeList, djob[w].seq)
  <2>a. /\ dpc[w] = "insert"
        /\ writeList' = InsertAt(writeList, p, djob[w])
        /\ write_first' = writeList'[1].seq
        /\ dpc' = [dpc EXCEPT ![w] = "look"]
        /\ djob' = [djob EXCEPT ![w] = NoJob]
        /\ UNCHANGED <<caller, decodeList, decode_have, writer, yarn, inPool,
                       outPool, delivered>>
    BY <1>6 DEF InsertJob
  <2>p. p \in 1 .. Len(writeList) + 1
    <3>1. djob[w].seq \in Int
      BY <1>t DEF Job
    <3> QED BY <3>1, <1>t, PlaceLemma
  <2> HIDE DEF p
  <2>i. /\ writeList' \in Seq(Job)
        /\ Len(writeList') = Len(writeList) + 1
        /\ \A k \in 1 .. Len(writeList) + 1 :
              writeList'[k] = IF k < p THEN writeList[k]
                              ELSE IF k = p THEN djob[w] ELSE writeList[k - 1]
    <3>1. /\ InsertAt(writeList, p, djob[w]) \in Seq(Job)
          /\ Len(InsertAt(writeList, p, djob[w])) = Len(writeList) + 1
          /\ \A k \in 1 .. Len(writeList) + 1 :
               InsertAt(writeList, p, djob[w])[k] =
                  IF k < p THEN writeList[k]
                  ELSE IF k = p THEN djob[w] ELSE writeList[k - 1]
      <4>1. writeList \in Seq(Job) /\ djob[w] \in Job
        BY <1>t
      <4>2. /\ InsertAt(writeList, p, djob[w]) \in Seq(Job)
            /\ IsInsertion(InsertAt(writeList, p, djob[w]), writeList, p, djob[w])
        BY <4>1, <2>p, InsertAtLemma
      <4> QED BY <4>2 DEF IsInsertion
    <3>2. writeList' = InsertAt(writeList, p, djob[w])
      BY <2>a
    <3> QED BY <3>1, <3>2
  <2>d. /\ djob' \in [Workers -> Job] /\ dpc' \in [Workers -> WorkerPlaces]
        /\ djob'[w] = NoJob
        /\ dpc'[w] = "look"
        /\ \A v \in Workers : v # w => djob'[v] = djob[v] /\ dpc'[v] = dpc[v]
    BY <2>a, <1>t, NoJobFacts DEF WorkerPlaces
  <2>1. TypeOK'
    <3>1. writeList'[1] \in Job
      BY <2>i, <1>t, ElementOfSeq
    <3>2. write_first' \in Int
      BY <3>1, <2>a DEF Job
    <3> QED BY <3>2, <2>a, <2>i, <2>d DEF IInv, TypeOK
  <2>2. ThreadsListed'
    BY <2>a, <2>d, <1>r DEF IInv, ThreadsListed
  <2>3. LocksMatchLists'
    <3>1. writeList' # <<>>
      BY <2>i, <1>t
    <3> QED BY <3>1, <2>a DEF IInv, LocksMatchLists
  <2>4. InSpacesExist'
    BY <2>a, <2>d DEF IInv, InSpacesExist, InSpaces
  <2>5. OutSpacesExist'
    <3>1. OutSpaces' = OutSpaces
      BY <2>a DEF OutSpaces
    <3>2. ASSUME NEW k \in DOMAIN writeList', writeList'[k].more
          PROVE  writeList'[k].out \in OutSpaces
      <4>1. k \in 1 .. Len(writeList) + 1 /\ Len(writeList) \in Nat
        BY <2>i, <1>t
      <4>2. mpc # "idle"
        BY <2>a, <1>r
      <4>3. CASE k < p
        <5>1. k \in DOMAIN writeList /\ writeList'[k] = writeList[k]
          BY <4>1, <4>3, <2>i, <2>p, <1>t
        <5> QED BY <5>1, <4>2, <3>2 DEF IInv, OutSpacesExist
      <4>4. CASE k = p
        <5>1. writeList'[k] = djob[w]
          BY <4>1, <4>4, <2>i
        <5> QED BY <5>1, <3>2, <2>a DEF IInv, OutSpacesExist
      <4>5. CASE k > p
        <5>1. k - 1 \in DOMAIN writeList /\ writeList'[k] = writeList[k - 1]
          <6>1. k - 1 \in 1 .. Len(writeList) /\ ~(k < p) /\ k # p
            BY <4>1, <4>5, <2>p
          <6>2. writeList'[k] = writeList[k - 1]
            BY <6>1, <4>1, <2>i, Zenon
          <6> QED BY <6>1, <6>2, <1>t
        <5> QED BY <5>1, <4>2, <3>2 DEF IInv, OutSpacesExist
      <4> QED BY <4>1, <4>3, <4>4, <4>5, <2>p
    <3> QED BY <3>1, <3>2, <2>a, <2>d DEF IInv, OutSpacesExist
  <2> QED BY <2>1, <2>2, <2>3, <2>4, <2>5 DEF IInv
<1> QED BY <1>1, <1>2, <1>3, <1>4, <1>5, <1>6 DEF DecodeThread

(* The write thread preserves IInv (dst_decoder.c:264-312).                *)
LEMMA WriteThreadInv == IInv /\ WriteThread => IInv'
<1> SUFFICES ASSUME IInv, WriteThread PROVE IInv'
  OBVIOUS
<1> USE DecoderAssumption DEF caller, lists, workers, writer, yarn, inPool,
    outPool
<1>t. /\ writeList \in Seq(Job) /\ wjob \in Job /\ wseq \in Nat
      /\ out_free \in Seq(Nat) /\ out_mem \in Seq(Sample)
      /\ delivered \in Seq([data : Sample, error : BOOLEAN])
  BY DEF IInv, TypeOK
<1>r. ASSUME wpc # "none"
      PROVE  Writer \in threads /\ mpc \notin {"idle", "free"}
  BY <1>r DEF IInv, ThreadsListed
<1>1. CASE TakeWriteJob
  <2>a. /\ wpc = "wait" /\ write_first = wseq
        /\ wjob' = Head(writeList)
        /\ writeList' = Tail(writeList)
        /\ write_first' = IF writeList' = <<>> THEN -1
                                               ELSE Head(writeList').seq
        /\ wpc' = (IF wjob'.more THEN "emit" ELSE "verify")
        /\ wseq' = (IF wjob'.more THEN wseq ELSE wseq + 1)
        /\ UNCHANGED <<caller, decodeList, decode_have, workers, yarn, inPool,
                       outPool, delivered>>
    BY <1>1 DEF TakeWriteJob, NextJobReady
  <2>h. /\ Head(writeList) = writeList[1]
        /\ 1 \in DOMAIN writeList
        /\ Head(writeList) \in Job
        /\ writeList' \in Seq(Job)
        /\ Len(writeList') = Len(writeList) - 1
        /\ \A k \in 1 .. Len(writeList) - 1 : writeList'[k] = writeList[k + 1]
    <3>1. writeList # <<>>
      BY <2>a, <1>t DEF IInv, LocksMatchLists
    <3> QED BY <3>1, <2>a, <1>t, HeadTailProperties
  <2>f. /\ write_first' \in Int
        /\ write_first' = IF writeList' = <<>> THEN -1 ELSE writeList'[1].seq
    <3>1. CASE writeList' = <<>>
      BY <3>1, <2>a
    <3>2. CASE writeList' # <<>>
      <4>1. Head(writeList') \in Job /\ Head(writeList') = writeList'[1]
        BY <3>2, <2>h, HeadTailProperties
      <4> QED BY <4>1, <3>2, <2>a DEF Job
    <3> QED BY <3>1, <3>2
  <2>1. TypeOK'
    <3>1. wjob' \in Job /\ wseq' \in Nat
      BY <2>a, <2>h, <1>t
    <3> QED BY <3>1, <2>a, <2>h, <2>f DEF IInv, TypeOK, WriterPlaces
  <2>2. ThreadsListed'
    BY <2>a, <1>r DEF IInv, ThreadsListed
  <2>3. LocksMatchLists'
    BY <2>a, <2>f DEF IInv, LocksMatchLists
  <2>4. InSpacesExist'
    BY <2>a DEF IInv, InSpacesExist, InSpaces
  <2>5. OutSpacesExist'
    <3>1. OutSpaces' = OutSpaces
      BY <2>a DEF OutSpaces
    <3>2. mpc # "idle"
      BY <2>a, <1>r
    <3>3. ASSUME NEW k \in DOMAIN writeList', writeList'[k].more
          PROVE  writeList'[k].out \in OutSpaces
      <4>1. k \in 1 .. Len(writeList) - 1 /\ k + 1 \in DOMAIN writeList
        BY <2>h, <1>t
      <4>2. writeList'[k] = writeList[k + 1]
        BY <4>1, <2>h
      <4> QED BY <4>1, <4>2, <3>2, <3>3 DEF IInv, OutSpacesExist
    <3>4. wjob'.more => wjob'.out \in OutSpaces
      BY <2>a, <2>h, <3>2 DEF IInv, OutSpacesExist
    <3> QED BY <2>a, <3>1, <3>3, <3>4 DEF IInv, OutSpacesExist
  <2> QED BY <2>1, <2>2, <2>3, <2>4, <2>5 DEF IInv
<1>2. CASE Emit
  <2>a. /\ wpc = "emit" /\ wpc' = "dropOut"
        /\ delivered' = Append(delivered, [data  |-> out_mem[wjob.out],
                                           error |-> wjob.error])
        /\ UNCHANGED <<caller, lists, workers, wjob, wseq, yarn, inPool,
                       outPool>>
    BY <1>2 DEF Emit
  <2>1. TypeOK'
    <3>1. out_mem[wjob.out] \in Sample /\ wjob.error \in BOOLEAN
      <4>1. wjob.out \in 1 .. Len(out_mem)
        BY <2>a DEF IInv, OutSpacesExist, OutSpaces
      <4> QED BY <4>1, <1>t, ElementOfSeq DEF Job
    <3>2. delivered' \in Seq([data : Sample, error : BOOLEAN])
      BY <3>1, <2>a, <1>t
    <3> QED BY <3>2, <2>a DEF IInv, TypeOK, WriterPlaces
  <2>2. ThreadsListed'
    BY <2>a, <1>r DEF IInv, ThreadsListed
  <2>3. LocksMatchLists'
    BY <2>a DEF IInv, LocksMatchLists
  <2>4. InSpacesExist'
    BY <2>a DEF IInv, InSpacesExist, InSpaces
  <2>5. OutSpacesExist'
    BY <2>a DEF IInv, OutSpacesExist, OutSpaces
  <2> QED BY <2>1, <2>2, <2>3, <2>4, <2>5 DEF IInv
<1>3. CASE DropOutSpace
  <2>a. /\ wpc = "dropOut" /\ wpc' = "wait"
        /\ out_free' = <<wjob.out>> \o out_free
        /\ wseq' = wseq + 1
        /\ wjob' = NoJob
        /\ UNCHANGED <<caller, lists, workers, yarn, inPool, out_mem,
                       delivered>>
    BY <1>3 DEF DropOutSpace, Linked
  <2>f. /\ out_free' \in Seq(Nat)
        /\ \A k \in DOMAIN out_free' : out_free'[k] \in OutSpaces
    <3>1. wjob.out \in Nat /\ wjob.out \in OutSpaces
      BY <2>a, <1>t DEF IInv, OutSpacesExist, Job
    <3>2. \A k \in DOMAIN out_free : out_free[k] \in OutSpaces
      BY DEF IInv, OutSpacesExist
    <3>3. out_free \in Seq(OutSpaces)
      BY <3>2, <1>t
    <3>4. out_free' \in Seq(OutSpaces)
      BY <3>1, <3>3, <2>a
    <3>5. \A k \in DOMAIN out_free' : out_free'[k] \in OutSpaces
      BY <3>4
    <3>6. out_free' \in Seq(Nat)
      BY <3>1, <2>a, <1>t
    <3> QED BY <3>5, <3>6
  <2>1. TypeOK'
    <3>1. wjob' \in Job /\ wseq' \in Nat
      BY <2>a, <1>t, NoJobFacts
    <3> QED BY <3>1, <2>a, <2>f DEF IInv, TypeOK, WriterPlaces
  <2>2. ThreadsListed'
    BY <2>a, <1>r DEF IInv, ThreadsListed
  <2>3. LocksMatchLists'
    BY <2>a DEF IInv, LocksMatchLists
  <2>4. InSpacesExist'
    BY <2>a DEF IInv, InSpacesExist, InSpaces
  <2>5. OutSpacesExist'
    BY <2>a, <2>f DEF IInv, OutSpacesExist, OutSpaces
  <2> QED BY <2>1, <2>2, <2>3, <2>4, <2>5 DEF IInv
<1>4. CASE WriterExit
  <2>a. /\ wpc = "verify" /\ wpc' = "exited"
        /\ write_first' = -1
        /\ wjob' = NoJob
        /\ exited' = exited \cup {Writer}
        /\ threads_value' = threads_value + 1
        /\ UNCHANGED <<caller, decodeList, decode_have, writeList, workers,
                       wseq, threads, inPool, outPool, delivered>>
    BY <1>4 DEF WriterExit
  <2>1. TypeOK'
    BY <2>a, <1>r, NoJobFacts DEF IInv, TypeOK, WriterPlaces
  <2>2. ThreadsListed'
    BY <2>a, <1>r DEF IInv, ThreadsListed
  <2>3. LocksMatchLists'
    BY <2>a DEF IInv, LocksMatchLists
  <2>4. InSpacesExist'
    BY <2>a DEF IInv, InSpacesExist, InSpaces
  <2>5. OutSpacesExist'
    BY <2>a DEF IInv, OutSpacesExist, OutSpaces
  <2> QED BY <2>1, <2>2, <2>3, <2>4, <2>5 DEF IInv
<1> QED BY <1>1, <1>2, <1>3, <1>4 DEF WriteThread

(* So does every step.                                                     *)
LEMMA NextInv == IInv /\ [Next]_vars => IInv'
<1> SUFFICES ASSUME IInv, [Next]_vars PROVE IInv'
  OBVIOUS
<1>1. CASE Caller
  BY <1>1, CallerInv
<1>2. CASE WriteThread
  BY <1>2, WriteThreadInv
<1>3. ASSUME NEW w \in Workers, DecodeThread(w) PROVE IInv'
  BY <1>3, DecodeThreadInv
<1>4. CASE UNCHANGED vars
  BY <1>4, StutterInv
<1> QED BY <1>1, <1>2, <1>3, <1>4 DEF Next
-----------------------------------------------------------------------------
(* IInv is an invariant: each step of each thread keeps the lock values in *)
(* agreement with the lists, whatever the number of threads and frames.    *)
THEOREM Invariance == Spec => []IInv
<1>1. Init => IInv
  BY InitInv
<1>2. IInv /\ [Next]_vars => IInv'
  BY NextInv
<1> QED BY <1>1, <1>2, PTL DEF Spec

(* Every variable stays in its range: in particular a decode thread that   *)
(* decode_have lets through finds a job, and every buffer a job names has  *)
(* been allocated (dst_decoder.c:207-247, 279-303).                        *)
THEOREM TypeCorrect == Spec => []TypeOK
<1>1. IInv => TypeOK
  BY DEF IInv
<1> QED BY <1>1, Invariance, PTL

(* dst_decoder_destroy frees the lists, the locks and the decoder when no  *)
(* thread is left that could use them (dst_decoder.c:152-184, 372-378).    *)
THEOREM NoOutliving == Spec => []NoThreadOutlivesDecoder
<1>1. IInv => NoThreadOutlivesDecoder
  BY DEF IInv, TypeOK, ThreadsListed, NoThreadOutlivesDecoder
<1> QED BY <1>1, Invariance, PTL

-----------------------------------------------------------------------------
(***************************************************************************)
(* No buffer of module DstDecoder has two users, and so the frames are     *)
(* delivered with their own samples, in order, for every number of         *)
(* threads, spaces and frames.                                             *)
(*                                                                         *)
(* SpacesNotShared speaks of the jobs that are alive; what a step          *)
(* preserves is a fact about the places where a job is kept (the caller's  *)
(* hand, a position of a list, a thread's hand): two places never name the *)
(* same space, nor a place and the free list.                              *)
(***************************************************************************)

(* A decode thread uses the input buffer of its job until it drops it.     *)
Reading(w) == dpc[w] \in {"getOut", "decode", "dropIn"}

(* A job has no output space before GetOutSpace nor after DropOutSpace; the*)
(* last job of a decoder has no space at all.                              *)
JobShape ==
    /\ mjob.out = None
    /\ ~mjob.more => mjob.in = None
    /\ \A i \in DOMAIN decodeList :
           /\ decodeList[i].out = None
           /\ ~decodeList[i].more => decodeList[i].in = None
    /\ \A w \in Workers :
           /\ dpc[w] \notin {"decode", "dropIn", "insert"} => djob[w].out = None
           /\ Reading(w) => djob[w].more
           /\ ~djob[w].more => djob[w].out = None
    /\ \A i \in DOMAIN writeList :
           ~writeList[i].more => writeList[i].out = None
    /\ wpc \notin {"emit", "dropOut"} => wjob.out = None

(* A decode thread that is yet to be launched does nothing, and a thread   *)
(* that is marked done has left its loop.                                  *)
ThreadState ==
    /\ \A w \in Workers : w > cthreads => dpc[w] = "none"
    /\ \A w \in Workers : w \in exited => dpc[w] = "exited"
    /\ Writer \in exited => wpc = "exited"

(* Input spaces: free, in the caller's hand, queued or being read.         *)
InApart ==
    /\ \A i, k \in DOMAIN in_free : in_free[i] = in_free[k] => i = k
    /\ \A i \in DOMAIN in_free :
           /\ in_free[i] # mjob.in
           /\ \A k \in DOMAIN decodeList : in_free[i] # decodeList[k].in
           /\ \A w \in Workers : Reading(w) => in_free[i] # djob[w].in
    /\ \A i \in DOMAIN decodeList : decodeList[i].in # None =>
           /\ decodeList[i].in # mjob.in
           /\ \A k \in DOMAIN decodeList :
                  decodeList[i].in = decodeList[k].in => i = k
    /\ \A w \in Workers : Reading(w) =>
           /\ djob[w].in # mjob.in
           /\ \A i \in DOMAIN decodeList : djob[w].in # decodeList[i].in
           /\ \A v \in Workers :
                  Reading(v) /\ djob[v].in = djob[w].in => v = w

(* Output spaces: free, in a decode thread's hand, waiting to be written,  *)
(* or in the write thread's hand.                                          *)
OutApart ==
    /\ \A i, k \in DOMAIN out_free : out_free[i] = out_free[k] => i = k
    /\ \A i \in DOMAIN out_free :
           /\ out_free[i] # wjob.out
           /\ \A k \in DOMAIN writeList : out_free[i] # writeList[k].out
           /\ \A w \in Workers : out_free[i] # djob[w].out
    /\ \A i \in DOMAIN writeList : writeList[i].out # None =>
           /\ writeList[i].out # wjob.out
           /\ \A k \in DOMAIN writeList :
                  writeList[i].out = writeList[k].out => i = k
    /\ \A w \in Workers : djob[w].out # None =>
           /\ djob[w].out # wjob.out
           /\ \A i \in DOMAIN writeList : djob[w].out # writeList[i].out
           /\ \A v \in Workers : djob[v].out = djob[w].out => v = w

SInv == ThreadState /\ JobShape /\ InApart /\ OutApart
-----------------------------------------------------------------------------
(* Nothing is in use before the first decoder.                             *)
LEMMA SInit == Init => SInv
  BY DEF Init, SInv, ThreadState, JobShape, InApart, OutApart, Reading, NoJob, None

(* A step that moves no input space keeps them apart.                      *)
LEMMA InSame ==
    ASSUME InApart, in_free' = in_free, mjob'.in = mjob.in,
           decodeList' = decodeList,
           \A w \in Workers :
               Reading(w)' => Reading(w) /\ djob'[w].in = djob[w].in
    PROVE  InApart'
  BY DEF InApart

(* A step that moves no output space keeps them apart.                     *)
LEMMA OutSame ==
    ASSUME OutApart, out_free' = out_free, wjob'.out = wjob.out,
           writeList' = writeList,
           \A w \in Workers : djob'[w].out = djob[w].out
    PROVE  OutApart'
  BY DEF OutApart

(* Spaces that are named exist, so a new one is named nowhere.             *)
LEMMA InNamed ==
    ASSUME IInv, SInv
    PROVE  /\ \A i \in DOMAIN in_free : in_free[i] \in InSpaces
           /\ mjob.in # None => mjob.in \in InSpaces
           /\ \A i \in DOMAIN decodeList :
                  decodeList[i].in # None => decodeList[i].in \in InSpaces
           /\ \A w \in Workers : Reading(w) => djob[w].in \in InSpaces
           /\ None \notin InSpaces
<1>s. JobShape /\ InSpacesExist
  BY DEF IInv, SInv
<1>1. /\ \A i \in DOMAIN in_free : in_free[i] \in InSpaces
      /\ mjob.in # None => mjob.in \in InSpaces
      /\ \A w \in Workers : Reading(w) => djob[w].in \in InSpaces
  BY <1>s DEF InSpacesExist, JobShape, Reading
<1>2. \A i \in DOMAIN decodeList :
          decodeList[i].in # None => decodeList[i].in \in InSpaces
  BY <1>s DEF InSpacesExist, JobShape
<1>3. None \notin InSpaces
  BY DEF InSpaces, None
<1> QED BY <1>1, <1>2, <1>3

LEMMA OutNamed ==
    ASSUME IInv, SInv, mpc # "idle"
    PROVE  /\ \A i \in DOMAIN out_free : out_free[i] \in OutSpaces
           /\ \A i \in DOMAIN writeList :
                  writeList[i].out # None => writeList[i].out \in OutSpaces
           /\ \A w \in Workers : djob[w].out # None => djob[w].out \in OutSpaces
           /\ wjob.out # None => wjob.out \in OutSpaces
           /\ None \notin OutSpaces
<1>s. JobShape /\ OutSpacesExist
  BY DEF IInv, SInv
<1>t. djob \in [Workers -> Job] /\ writeList \in Seq(Job)
  BY DEF IInv, TypeOK
<1>1. /\ \A i \in DOMAIN out_free : out_free[i] \in OutSpaces
      /\ wjob.out # None => wjob.out \in OutSpaces
  BY <1>s DEF OutSpacesExist, JobShape
<1>2. ASSUME NEW i \in DOMAIN writeList, writeList[i].out # None
      PROVE  writeList[i].out \in OutSpaces
  BY <1>s, <1>2 DEF OutSpacesExist, JobShape
<1>3. ASSUME NEW w \in Workers, djob[w].out # None
      PROVE  djob[w].out \in OutSpaces
  <2>1. dpc[w] \in {"decode", "dropIn", "insert"} /\ djob[w].more
    BY <1>s, <1>3 DEF JobShape
  <2> QED BY <1>s, <2>1 DEF OutSpacesExist
<1>4. None \notin OutSpaces
  BY DEF OutSpaces, None
<1> QED BY <1>1, <1>2, <1>3, <1>4
-----------------------------------------------------------------------------
(* Where the elements of a list are after its head was taken, after an     *)
(* element was put in front and after one was put at the end.              *)
LEMMA TailAt ==
    ASSUME NEW S, NEW s \in Seq(S), s # <<>>
    PROVE  /\ 1 \in DOMAIN s /\ Head(s) = s[1] /\ Head(s) \in S
           /\ Tail(s) \in Seq(S)
           /\ \A i \in DOMAIN Tail(s) :
                  i \in Nat /\ i + 1 \in DOMAIN s /\ i + 1 # 1
                      /\ Tail(s)[i] = s[i + 1]
<1>1. /\ Head(s) = s[1] /\ Head(s) \in S /\ Tail(s) \in Seq(S)
      /\ Len(Tail(s)) = Len(s) - 1
      /\ \A i \in 1 .. Len(Tail(s)) : Tail(s)[i] = s[i + 1]
  BY HeadTailProperties
<1>2. /\ DOMAIN s = 1 .. Len(s) /\ DOMAIN Tail(s) = 1 .. Len(Tail(s))
      /\ Len(s) \in Nat /\ Len(s) # 0
  BY <1>1
<1> QED BY <1>1, <1>2

LEMMA FrontAt ==
    ASSUME NEW S, NEW s \in Seq(S), NEW e \in S
    PROVE  \A i \in DOMAIN (<<e>> \o s) :
               \/ i = 1 /\ (<<e>> \o s)[i] = e
               \/ i \in Nat /\ i # 1 /\ i - 1 \in DOMAIN s
                      /\ (<<e>> \o s)[i] = s[i - 1]
<1>1. /\ <<e>> \in Seq(S) /\ Len(<<e>>) = 1 /\ <<e>>[1] = e
      /\ Len(s) \in Nat /\ DOMAIN s = 1 .. Len(s)
  OBVIOUS
<1> DEFINE o == <<e>>
<1> HIDE DEF o
<1>2. /\ o \o s \in Seq(S) /\ Len(o \o s) = 1 + Len(s)
      /\ \A i \in 1 .. 1 + Len(s) :
             (o \o s)[i] = IF i <= 1 THEN o[i] ELSE s[i - 1]
  BY <1>1 DEF o
<1>3. DOMAIN (o \o s) = 1 .. 1 + Len(s)
  BY <1>2
<1>4. ASSUME NEW i \in DOMAIN (o \o s)
      PROVE  \/ i = 1 /\ (o \o s)[i] = e
             \/ i \in Nat /\ i # 1 /\ i - 1 \in DOMAIN s /\ (o \o s)[i] = s[i - 1]
  <2>1. CASE i = 1
    BY <2>1, <1>1, <1>2, <1>3 DEF o
  <2>2. CASE i # 1
    <3>1. i \in Nat /\ i > 1 /\ i - 1 \in DOMAIN s
      BY <2>2, <1>1, <1>3
    <3> QED BY <3>1, <2>2, <1>2, <1>3
  <2> QED BY <2>1, <2>2
<1> QED BY <1>4 DEF o

LEMMA EndAt ==
    ASSUME NEW S, NEW s \in Seq(S), NEW e \in S
    PROVE  \A i \in DOMAIN Append(s, e) :
               \/ i \in DOMAIN s /\ Append(s, e)[i] = s[i]
               \/ i = Len(s) + 1 /\ Append(s, e)[i] = e
  OBVIOUS

(* Where they are after an insertion.                                      *)
LEMMA InsertedAt ==
    ASSUME NEW S, NEW s \in Seq(S), NEW e \in S, NEW p \in 1 .. Len(s) + 1
    PROVE  \A i \in DOMAIN InsertAt(s, p, e) :
               \/ i = p /\ InsertAt(s, p, e)[i] = e
               \/ i \in Nat /\ i < p /\ i \in DOMAIN s
                      /\ InsertAt(s, p, e)[i] = s[i]
               \/ i \in Nat /\ i > p /\ i - 1 \in DOMAIN s
                      /\ InsertAt(s, p, e)[i] = s[i - 1]
<1> DEFINE t == InsertAt(s, p, e)
<1>1. /\ t \in Seq(S) /\ Len(t) = Len(s) + 1
      /\ \A i \in 1 .. Len(s) + 1 :
             t[i] = IF i < p THEN s[i] ELSE IF i = p THEN e ELSE s[i - 1]
  <2>1. t \in Seq(S) /\ IsInsertion(t, s, p, e)
    BY InsertAtLemma
  <2> QED BY <2>1 DEF IsInsertion
<1> HIDE DEF t
<1>2. /\ DOMAIN t = 1 .. Len(s) + 1 /\ DOMAIN s = 1 .. Len(s)
      /\ Len(s) \in Nat
  BY <1>1
<1>3. ASSUME NEW i \in DOMAIN t
      PROVE  \/ i = p /\ t[i] = e
             \/ i \in Nat /\ i < p /\ i \in DOMAIN s /\ t[i] = s[i]
             \/ i \in Nat /\ i > p /\ i - 1 \in DOMAIN s /\ t[i] = s[i - 1]
  <2>1. CASE i = p
    BY <2>1, <1>1, <1>2
  <2>2. CASE i < p
    <3>1. i \in Nat /\ i \in DOMAIN s
      BY <2>2, <1>2
    <3> QED BY <3>1, <2>2, <1>1, <1>2
  <2>3. CASE i > p
    <3>1. i \in Nat /\ i - 1 \in DOMAIN s /\ ~(i < p) /\ i # p
      BY <2>3, <1>2
    <3> QED BY <3>1, <2>3, <1>1, <1>2
  <2> QED BY <2>1, <2>2, <2>3, <1>2
<1> QED BY <1>3 DEF t
-----------------------------------------------------------------------------
(* Launching a thread takes one that does nothing to its loop and leaves   *)
(* the others alone (dst_decoder.c:394-398).                               *)
LEMMA LaunchStep ==
    ASSUME IInv, ThreadState, LaunchIfNeeded
    PROVE  /\ \A w \in Workers :
                  \/ dpc'[w] = dpc[w]
                  \/ dpc[w] = "none" /\ dpc'[w] = "look"
           /\ ThreadState'
<1> USE DecoderAssumption DEF writer
<1>t. /\ cthreads \in 0 .. Procs /\ dpc \in [Workers -> WorkerPlaces]
      /\ \A w \in Workers : w \in Int
  BY DEF IInv, TypeOK, Workers
<1>1. CASE MayLaunch
  <2>1. cthreads' = cthreads + 1 /\ dpc' = [dpc EXCEPT ![cthreads + 1] = "look"]
    BY <1>1 DEF LaunchIfNeeded
  <2>2. cthreads + 1 \in Workers
    BY <1>t, <1>1 DEF MayLaunch, Workers
  <2>3. dpc[cthreads + 1] = "none"
    BY <1>t, <2>2 DEF ThreadState
  <2>4. \A w \in Workers :
            dpc'[w] = IF w = cthreads + 1 THEN "look" ELSE dpc[w]
    BY <1>t, <2>1
  <2>5. ASSUME NEW w \in Workers, w > cthreads' PROVE dpc'[w] = "none"
    <3>1. w > cthreads /\ w # cthreads + 1
      BY <2>1, <2>5, <1>t
    <3> QED BY <3>1, <2>4 DEF ThreadState
  <2>6. exited' = exited /\ wpc' = wpc
    BY DEF LaunchIfNeeded
  <2> QED BY <2>3, <2>4, <2>5, <2>6 DEF ThreadState
<1>2. CASE ~MayLaunch
  BY <1>2 DEF LaunchIfNeeded, ThreadState
<1> QED BY <1>1, <1>2

(* A thread that is joined is one that has left its loop                   *)
(* (yarn.c:329-353).                                                       *)
LEMMA JoinStep ==
    ASSUME IInv, ThreadState, JoinAllRound
    PROVE  /\ wpc' = wpc \/ (wpc = "exited" /\ wpc' = "none")
           /\ \A w \in Workers : dpc'[w] = dpc[w]
                  \/ (dpc[w] = "exited" /\ dpc'[w] = "none")
           /\ ThreadState'
<1>t. /\ dpc \in [Workers -> WorkerPlaces]
      /\ exited \subseteq Workers \cup {Writer} /\ Writer \notin Workers
  BY DEF IInv, TypeOK, Workers, Writer
<1>1. PICK t \in exited :
         /\ exited' = exited \ {t}
         /\ dpc' = IF t = Writer THEN dpc ELSE [dpc EXCEPT ![t] = "none"]
         /\ wpc' = IF t = Writer THEN "none" ELSE wpc
         /\ cthreads' = cthreads
  BY DEF JoinAllRound
<1>2. CASE t = Writer
  BY <1>1, <1>2, <1>t DEF ThreadState
<1>3. CASE t # Writer
  <2>1. t \in Workers /\ dpc[t] = "exited"
    BY <1>3, <1>t DEF ThreadState
  <2>2. \A w \in Workers : dpc'[w] = IF w = t THEN "none" ELSE dpc[w]
    BY <1>1, <1>3, <1>t
  <2> QED BY <1>1, <1>3, <2>1, <2>2 DEF ThreadState
<1> QED BY <1>2, <1>3

(* NoJob has no spaces.                                                    *)
LEMMA NoJobShape == NoJob.in = None /\ NoJob.out = None /\ ~NoJob.more
  BY DEF NoJob

(* Jobs keep their shape when the caller takes a step.                     *)
LEMMA CallerShape == IInv /\ ThreadState /\ JobShape /\ Caller => JobShape'
<1> SUFFICES ASSUME IInv, ThreadState, JobShape, Caller PROVE JobShape'
  OBVIOUS
<1> USE DEF caller, lists, workers, writer, yarn, inPool, outPool
<1>t. /\ djob \in [Workers -> Job] /\ dpc \in [Workers -> WorkerPlaces]
      /\ decodeList \in Seq(Job) /\ mjob \in Job
  BY DEF IInv, TypeOK
<1>1. CASE dst_decoder_create
  <2>1. wpc = "none"
    BY <1>1 DEF dst_decoder_create, IInv, ThreadsListed
  <2> QED BY <1>1, <2>1 DEF dst_decoder_create, JobShape, Reading
<1>2. CASE DecodeGetSpace
  <2>1. PICK i : mjob' = [NoJob EXCEPT !.seq = sequence, !.more = TRUE, !.in = i]
    BY <1>2 DEF DecodeGetSpace
  <2>2. mjob'.out = None /\ mjob'.more
    BY <2>1 DEF NoJob
  <2> QED BY <1>2, <2>2 DEF DecodeGetSpace, JobShape, Reading
<1>3. CASE FinishWriteJob
  <2>1. mjob' = [NoJob EXCEPT !.seq = sequence]
    BY <1>3 DEF FinishWriteJob
  <2>2. mjob'.out = None /\ mjob'.in = None
    BY <2>1 DEF NoJob
  <2> QED BY <1>3, <2>2 DEF FinishWriteJob, JobShape, Reading
<1>4. CASE LaunchIfNeeded
  <2> QED BY <1>4, LaunchStep DEF LaunchIfNeeded, JobShape, Reading
<1>5. CASE AppendJob
  <2>1. decodeList' = Append(decodeList, mjob) /\ mjob' = NoJob
    BY <1>5 DEF AppendJob
  <2>2. \A i \in DOMAIN decodeList' :
            /\ decodeList'[i].out = None
            /\ ~decodeList'[i].more => decodeList'[i].in = None
    BY <1>t, <2>1, EndAt DEF JobShape
  <2> QED BY <1>5, <2>1, <2>2, NoJobShape DEF AppendJob, JobShape, Reading
<1>6. CASE JoinWriter
  <2>1. wpc = "exited"
    BY <1>6 DEF JoinWriter, ThreadState
  <2> QED BY <1>6, <2>1 DEF JoinWriter, JobShape, Reading
<1>7. CASE StopWorkers
  BY <1>7, NoJobShape DEF StopWorkers, StopJob, JobShape, Reading
<1>8. CASE JoinAllRound
  <2>1. /\ wpc' = wpc \/ wpc = "exited"
        /\ \A w \in Workers : dpc'[w] = dpc[w]
               \/ (dpc[w] = "exited" /\ dpc'[w] = "none")
    BY <1>8, JoinStep
  <2> QED BY <1>8, <2>1 DEF JoinAllRound, JobShape, Reading
<1>9. CASE JoinAllReturns
  BY <1>9 DEF JoinAllReturns, JobShape, Reading
<1>10. CASE FreeDecoder
  BY <1>10 DEF FreeDecoder, JobShape, Reading
<1> QED BY <1>1, <1>2, <1>3, <1>4, <1>5, <1>6, <1>7, <1>8, <1>9, <1>10
        DEF Caller

(* A step of a decode thread is its own and needs a thread that runs.      *)
LEMMA WorkerStep ==
    ASSUME NEW w \in Workers, IInv, DecodeThread(w)
    PROVE  /\ dpc[w] \notin {"none", "exited"}
           /\ \A v \in Workers :
                  v # w => dpc'[v] = dpc[v] /\ djob'[v] = djob[v]
           /\ \A v \in Workers : v \in exited' => v \in exited \/ v = w
           /\ w \in exited' => w \in exited \/ dpc'[w] = "exited"
           /\ Writer \in exited' => Writer \in exited
           /\ wpc' = wpc /\ wjob' = wjob /\ cthreads' = cthreads
           /\ mjob' = mjob /\ mpc' = mpc /\ mpc \notin {"idle", "free"}
<1> USE DEF caller, lists, workers, writer, yarn, inPool, outPool
<1>t. /\ djob \in [Workers -> Job] /\ dpc \in [Workers -> WorkerPlaces]
      /\ Writer \notin Workers
  BY DEF IInv, TypeOK, Workers, Writer
<1>m. dpc[w] # "none" => mpc \notin {"idle", "free"}
  BY DEF IInv, ThreadsListed
<1>1. CASE TakeJob(w)
  BY <1>1, <1>t, <1>m DEF TakeJob
<1>2. CASE LeaveOnStop(w)
  BY <1>2, <1>t, <1>m DEF LeaveOnStop
<1>3. CASE GetOutSpace(w)
  BY <1>3, <1>t, <1>m DEF GetOutSpace
<1>4. CASE DecodeFrame(w)
  BY <1>4, <1>t, <1>m DEF DecodeFrame
<1>5. CASE DropInSpace(w)
  BY <1>5, <1>t, <1>m DEF DropInSpace
<1>6. CASE InsertJob(w)
  BY <1>6, <1>t, <1>m DEF InsertJob
<1> QED BY <1>1, <1>2, <1>3, <1>4, <1>5, <1>6 DEF DecodeThread

(* decode_have is not zero: there is a job (dst_decoder.c:207-210).        *)
LEMMA DecodeListThere ==
    ASSUME NEW w \in Workers, IInv, TakeJob(w)
    PROVE  decodeList # <<>>
<1>1. decode_have # 0 /\ Head(decodeList).seq # StopSeq /\ dpc[w] = "look"
  BY DEF TakeJob
<1>2. CASE mpc = "joinAll"
  <2>1. decodeList = <<StopJob>>
    BY <1>2 DEF IInv, LocksMatchLists
  <2> QED BY <2>1
<1>3. CASE mpc # "joinAll"
  BY <1>1, <1>3 DEF IInv, LocksMatchLists, ThreadsListed
<1> QED BY <1>2, <1>3

(* The job the write thread waits for is the first of the write list       *)
(* (dst_decoder.c:279-283).                                                *)
LEMMA WriteListThere ==
    ASSUME IInv, TakeWriteJob
    PROVE  writeList # <<>>
<1>1. wpc = "wait" /\ write_first = wseq
  BY DEF TakeWriteJob, NextJobReady
<1>2. wseq \in Nat
  BY DEF IInv, TypeOK
<1> QED BY <1>1, <1>2 DEF IInv, LocksMatchLists

(* Threads start and end in their places.                                  *)
LEMMA ThreadStateNext == IInv /\ ThreadState /\ [Next]_vars => ThreadState'
<1> SUFFICES ASSUME IInv, ThreadState, [Next]_vars PROVE ThreadState'
  OBVIOUS
<1> USE DEF caller, lists, workers, writer, yarn, inPool, outPool
<1>1. CASE Caller
  <2>1. CASE dst_decoder_create
    <3>1. /\ exited = {} /\ exited' = exited /\ dpc' = dpc
          /\ \A w \in Workers : dpc[w] = "none"
      BY <2>1 DEF dst_decoder_create, IInv, TypeOK, ThreadsListed
    <3> QED BY <3>1 DEF ThreadState
  <2>2. CASE \/ DecodeGetSpace \/ FinishWriteJob \/ AppendJob \/ StopWorkers
             \/ JoinAllReturns
    BY <2>2 DEF DecodeGetSpace, FinishWriteJob, AppendJob, StopWorkers,
                JoinAllReturns, ThreadState
  <2>3. CASE LaunchIfNeeded
    BY <2>3, LaunchStep
  <2>4. CASE JoinWriter
    BY <2>4 DEF JoinWriter, ThreadState
  <2>5. CASE JoinAllRound
    BY <2>5, JoinStep
  <2>6. CASE FreeDecoder
    <3>1. /\ exited' = exited /\ dpc' = dpc /\ wpc' = wpc
          /\ \A w \in Workers : dpc[w] = "none"
      BY <2>6 DEF FreeDecoder, IInv, ThreadsListed
    <3> QED BY <3>1 DEF ThreadState
  <2> QED BY <1>1, <2>1, <2>2, <2>3, <2>4, <2>5, <2>6 DEF Caller
<1>2. CASE WriteThread
  <2>1. Writer \notin Workers
    BY DEF Writer, Workers
  <2>2. CASE TakeWriteJob \/ Emit \/ DropOutSpace
    BY <2>2 DEF TakeWriteJob, Emit, DropOutSpace, ThreadState
  <2>3. CASE WriterExit
    BY <2>1, <2>3 DEF WriterExit, ThreadState
  <2> QED BY <1>2, <2>2, <2>3 DEF WriteThread
<1>3. ASSUME NEW w \in Workers, DecodeThread(w) PROVE ThreadState'
  BY <1>3, WorkerStep DEF ThreadState
<1>4. CASE UNCHANGED vars
  BY <1>4 DEF vars, ThreadState
<1> QED BY <1>1, <1>2, <1>3, <1>4 DEF Next

(* Jobs keep their shape when a decode thread takes a step.                *)
LEMMA WorkerShape ==
    ASSUME NEW w \in Workers, IInv, JobShape, DecodeThread(w)
    PROVE  JobShape'
<1> USE DEF caller, lists, workers, writer, yarn, inPool, outPool
<1>t. /\ djob \in [Workers -> Job] /\ dpc \in [Workers -> WorkerPlaces]
      /\ decodeList \in Seq(Job) /\ writeList \in Seq(Job) /\ djob[w] \in Job
  BY DEF IInv, TypeOK
<1>s. /\ \A v \in Workers : v # w => dpc'[v] = dpc[v] /\ djob'[v] = djob[v]
      /\ mjob' = mjob /\ wpc' = wpc /\ wjob' = wjob
  BY WorkerStep
<1>1. ASSUME decodeList' = decodeList, writeList' = writeList,
             dpc'[w] \notin {"decode", "dropIn", "insert"} => djob'[w].out = None,
             Reading(w)' => djob'[w].more,
             ~djob'[w].more => djob'[w].out = None
      PROVE  JobShape'
  BY <1>1, <1>s DEF JobShape, Reading
<1>2. CASE TakeJob(w)
  <2>1. decodeList # <<>>
    BY <1>2, DecodeListThere
  <2>2. /\ 1 \in DOMAIN decodeList /\ Head(decodeList) = decodeList[1]
        /\ \A i \in DOMAIN decodeList' :
               i + 1 \in DOMAIN decodeList /\ decodeList'[i] = decodeList[i + 1]
    BY <1>2, <1>t, <2>1, TailAt DEF TakeJob
  <2>3. /\ djob'[w] = decodeList[1]
        /\ dpc'[w] = IF decodeList[1].more THEN "getOut" ELSE "insert"
        /\ writeList' = writeList
    BY <1>2, <1>t, <2>2 DEF TakeJob
  <2> QED BY <1>s, <2>2, <2>3 DEF JobShape, Reading
<1>3. CASE LeaveOnStop(w)
  BY <1>3, <1>1, <1>t DEF LeaveOnStop, JobShape, Reading
<1>4. CASE GetOutSpace(w)
  <2>1. PICK o : djob' = [djob EXCEPT ![w].out = o]
    BY <1>4 DEF GetOutSpace
  <2>2. djob'[w].more = djob[w].more
    BY <1>t, <2>1 DEF Job
  <2>3. dpc[w] = "getOut" /\ dpc'[w] = "decode"
    BY <1>4, <1>t DEF GetOutSpace
  <2> QED BY <1>1, <1>4, <2>2, <2>3 DEF GetOutSpace, JobShape, Reading
<1>5. CASE DecodeFrame(w)
  <2>1. djob'[w].more = djob[w].more /\ djob'[w].out = djob[w].out
    BY <1>5, <1>t DEF DecodeFrame, Job
  <2>2. dpc[w] = "decode" /\ dpc'[w] = "dropIn"
    BY <1>5, <1>t DEF DecodeFrame
  <2> QED BY <1>1, <1>5, <2>1, <2>2 DEF DecodeFrame, JobShape, Reading
<1>6. CASE DropInSpace(w)
  BY <1>1, <1>6, <1>t DEF DropInSpace, JobShape, Reading
<1>7. CASE InsertJob(w)
  <2> DEFINE p == Place(writeList, djob[w].seq)
  <2>1. p \in 1 .. Len(writeList) + 1
    BY <1>t, PlaceLemma DEF Job
  <2>2. \A i \in DOMAIN writeList' :
            \/ writeList'[i] = djob[w]
            \/ i \in DOMAIN writeList /\ writeList'[i] = writeList[i]
            \/ i - 1 \in DOMAIN writeList /\ writeList'[i] = writeList[i - 1]
    <3> HIDE DEF p
    <3>1. writeList' = InsertAt(writeList, p, djob[w])
      BY <1>7 DEF InsertJob, p
    <3> QED BY <1>t, <2>1, <3>1, InsertedAt
  <2>3. \A i \in DOMAIN writeList' : ~writeList'[i].more => writeList'[i].out = None
    BY <2>2 DEF JobShape
  <2>4. djob'[w] = NoJob /\ dpc'[w] = "look" /\ decodeList' = decodeList
    BY <1>7, <1>t DEF InsertJob
  <2> QED BY <1>s, <2>3, <2>4, NoJobShape DEF JobShape, Reading
<1> QED BY <1>2, <1>3, <1>4, <1>5, <1>6, <1>7 DEF DecodeThread

(* And when the write thread does.                                         *)
LEMMA WriterShape == IInv /\ JobShape /\ WriteThread => JobShape'
<1> SUFFICES ASSUME IInv, JobShape, WriteThread PROVE JobShape'
  OBVIOUS
<1> USE DEF caller, lists, workers, writer, yarn, inPool, outPool
<1>t. writeList \in Seq(Job)
  BY DEF IInv, TypeOK
<1>1. CASE TakeWriteJob
  <2>1. writeList # <<>>
    BY <1>1, WriteListThere
  <2>2. /\ 1 \in DOMAIN writeList /\ Head(writeList) = writeList[1]
        /\ \A i \in DOMAIN writeList' :
               i + 1 \in DOMAIN writeList /\ writeList'[i] = writeList[i + 1]
    BY <1>1, <1>t, <2>1, TailAt DEF TakeWriteJob
  <2>3. wjob' = writeList[1] /\ wpc' = IF wjob'.more THEN "emit" ELSE "verify"
    BY <1>1, <2>2 DEF TakeWriteJob
  <2>4. wpc' \notin {"emit", "dropOut"} => wjob'.out = None
    BY <2>2, <2>3 DEF JobShape
  <2>5. \A i \in DOMAIN writeList' : ~writeList'[i].more => writeList'[i].out = None
    BY <2>2 DEF JobShape
  <2>6. UNCHANGED <<mjob, decodeList, dpc, djob>>
    BY <1>1 DEF TakeWriteJob
  <2> QED BY <2>4, <2>5, <2>6 DEF JobShape, Reading
<1>2. CASE Emit
  BY <1>2 DEF Emit, JobShape, Reading
<1>3. CASE DropOutSpace
  BY <1>3, NoJobShape DEF DropOutSpace, JobShape, Reading
<1>4. CASE WriterExit
  BY <1>4, NoJobShape DEF WriterExit, JobShape, Reading
<1> QED BY <1>1, <1>2, <1>3, <1>4 DEF WriteThread
-----------------------------------------------------------------------------
(* Input spaces stay apart when the caller takes a step.                   *)
LEMMA CallerIn == IInv /\ SInv /\ Caller => InApart'
<1> SUFFICES ASSUME IInv, SInv, Caller PROVE InApart'
  OBVIOUS
<1> USE DEF caller, lists, workers, writer, yarn, inPool, outPool
<1>t. /\ in_free \in Seq(Nat) /\ in_mem \in Seq(Sample)
      /\ decodeList \in Seq(Job) /\ mjob \in Job
  BY DEF IInv, TypeOK
<1>s. JobShape /\ InApart /\ ThreadState
  BY DEF SInv
<1>1. CASE dst_decoder_create
  BY <1>1, <1>s DEF dst_decoder_create, InApart, Reading
<1>2. CASE DecodeGetSpace
  <2>u. decodeList' = decodeList /\ dpc' = dpc /\ djob' = djob
    BY <1>2 DEF DecodeGetSpace
  <2>1. CASE in_free # <<>>
    <3>1. /\ in_free' = Tail(in_free)
          /\ mjob' = [NoJob EXCEPT !.seq = sequence, !.more = TRUE,
                                   !.in = Head(in_free)]
      BY <1>2, <2>1 DEF DecodeGetSpace, Unlinked
    <3>2. mjob'.in = Head(in_free)
      BY <3>1 DEF NoJob
    <3>3. /\ 1 \in DOMAIN in_free /\ Head(in_free) = in_free[1]
          /\ \A i \in DOMAIN in_free' :
                 /\ i \in Nat /\ i + 1 \in DOMAIN in_free /\ i + 1 # 1
                 /\ in_free'[i] = in_free[i + 1]
      BY <1>t, <2>1, <3>1, TailAt
    <3>4. \A i, k \in DOMAIN in_free' : in_free'[i] = in_free'[k] => i = k
      BY <1>s, <3>3 DEF InApart
    <3>5. \A i \in DOMAIN in_free' :
             /\ in_free'[i] # mjob'.in
             /\ \A k \in DOMAIN decodeList : in_free'[i] # decodeList[k].in
             /\ \A w \in Workers : Reading(w) => in_free'[i] # djob[w].in
      BY <1>s, <3>2, <3>3 DEF InApart
    <3>6. /\ \A k \in DOMAIN decodeList : decodeList[k].in # mjob'.in
          /\ \A w \in Workers : Reading(w) => djob[w].in # mjob'.in
      BY <1>s, <3>2, <3>3 DEF InApart
    <3> QED BY <1>s, <2>u, <3>4, <3>5, <3>6 DEF InApart, Reading
  <2>2. CASE in_free = <<>>
    <3>1. /\ in_free' = <<>>
          /\ mjob' = [NoJob EXCEPT !.seq = sequence, !.more = TRUE,
                                   !.in = Len(in_mem) + 1]
      BY <1>2, <2>2 DEF DecodeGetSpace
    <3>2. mjob'.in \notin InSpaces /\ mjob'.in # None
      BY <1>t, <3>1 DEF NoJob, InSpaces, None
    <3>3. /\ \A k \in DOMAIN decodeList : decodeList[k].in # mjob'.in
          /\ \A w \in Workers : Reading(w) => djob[w].in # mjob'.in
      BY <3>2, InNamed
    <3> QED BY <1>s, <2>u, <3>1, <3>3 DEF InApart, Reading
  <2> QED BY <2>1, <2>2
<1>3. CASE FinishWriteJob
  <2>1. mjob' = [NoJob EXCEPT !.seq = sequence]
    BY <1>3 DEF FinishWriteJob
  <2>2. mjob'.in = None
    BY <2>1 DEF NoJob
  <2>3. UNCHANGED <<in_free, decodeList, dpc, djob>>
    BY <1>3 DEF FinishWriteJob
  <2>4. /\ \A i \in DOMAIN in_free : in_free[i] # None
        /\ \A w \in Workers : Reading(w) => djob[w].in # None
    BY InNamed
  <2> QED BY <1>s, <2>2, <2>3, <2>4 DEF InApart, Reading
<1>4. CASE AppendJob
  <2>1. /\ decodeList' = Append(decodeList, mjob) /\ mjob' = NoJob
        /\ UNCHANGED <<in_free, dpc, djob>>
    BY <1>4 DEF AppendJob
  <2>2. \A i \in DOMAIN decodeList' :
            \/ i \in DOMAIN decodeList /\ decodeList'[i] = decodeList[i]
            \/ i = Len(decodeList) + 1 /\ decodeList'[i] = mjob
    BY <1>t, <2>1, EndAt
  <2>3. \A i, k \in DOMAIN decodeList' :
            decodeList'[i].in # None /\ decodeList'[i].in = decodeList'[k].in
                => i = k
    BY <1>s, <2>2 DEF InApart
  <2>4. /\ \A i \in DOMAIN in_free, k \in DOMAIN decodeList' :
               in_free[i] # decodeList'[k].in
        /\ \A w \in Workers, k \in DOMAIN decodeList' :
               Reading(w) => djob[w].in # decodeList'[k].in
    BY <1>s, <2>2 DEF InApart
  <2>5. /\ \A i \in DOMAIN in_free : in_free[i] # None
        /\ \A w \in Workers : Reading(w) => djob[w].in # None
    BY InNamed
  <2> QED BY <1>s, <2>1, <2>3, <2>4, <2>5, NoJobShape DEF InApart, Reading
<1>5. CASE JoinWriter \/ JoinAllReturns
  BY <1>5, <1>s, InSame DEF JoinWriter, JoinAllReturns, Reading
<1>6. CASE LaunchIfNeeded
  <2>1. \A w \in Workers : Reading(w)' => Reading(w)
    BY <1>6, <1>s, LaunchStep DEF Reading
  <2> QED BY <1>6, <1>s, <2>1, InSame DEF LaunchIfNeeded
<1>7. CASE JoinAllRound
  <2>1. \A w \in Workers : Reading(w)' => Reading(w)
    BY <1>7, <1>s, JoinStep DEF Reading
  <2> QED BY <1>7, <1>s, <2>1, InSame DEF JoinAllRound
<1>8. CASE StopWorkers
  <2>1. /\ decodeList' = <<StopJob>>
        /\ UNCHANGED <<in_free, mjob, dpc, djob>>
    BY <1>8 DEF StopWorkers
  <2>2. \A i \in DOMAIN decodeList' : decodeList'[i].in = None
    BY <2>1, NoJobShape, NoJobFacts
  <2>3. /\ \A i \in DOMAIN in_free : in_free[i] # None
        /\ \A w \in Workers : Reading(w) => djob[w].in # None
    BY InNamed
  <2> QED BY <1>s, <2>1, <2>2, <2>3 DEF InApart, Reading
<1>9. CASE FreeDecoder
  <2>1. /\ in_free' = <<>> /\ decodeList' = <<>>
        /\ UNCHANGED <<mjob, dpc, djob>>
    BY <1>9 DEF FreeDecoder
  <2> QED BY <1>s, <2>1 DEF InApart, Reading
<1> QED BY <1>1, <1>2, <1>3, <1>4, <1>5, <1>6, <1>7, <1>8, <1>9 DEF Caller

(* And when a decode thread does.                                          *)
LEMMA WorkerIn ==
    ASSUME NEW w \in Workers, IInv, SInv, DecodeThread(w)
    PROVE  InApart'
<1> USE DEF caller, lists, workers, writer, yarn, inPool, outPool
<1>t. /\ djob \in [Workers -> Job] /\ dpc \in [Workers -> WorkerPlaces]
      /\ decodeList \in Seq(Job) /\ in_free \in Seq(Nat) /\ djob[w] \in Job
  BY DEF IInv, TypeOK
<1>s. JobShape /\ InApart /\ ThreadState
  BY DEF SInv
<1>v. /\ \A v \in Workers : v # w => dpc'[v] = dpc[v] /\ djob'[v] = djob[v]
      /\ mjob' = mjob
  BY WorkerStep
<1>1. ASSUME in_free' = in_free, decodeList' = decodeList,
             Reading(w)' => Reading(w) /\ djob'[w].in = djob[w].in
      PROVE  InApart'
  BY <1>1, <1>s, <1>v, InSame DEF Reading
<1>2. CASE TakeJob(w)
  <2>1. decodeList # <<>>
    BY <1>2, DecodeListThere
  <2>2. /\ 1 \in DOMAIN decodeList /\ Head(decodeList) = decodeList[1]
        /\ \A i \in DOMAIN decodeList' :
               /\ i \in Nat /\ i + 1 \in DOMAIN decodeList /\ i + 1 # 1
               /\ decodeList'[i] = decodeList[i + 1]
    BY <1>2, <1>t, <2>1, TailAt DEF TakeJob
  <2>3. /\ djob'[w] = decodeList[1]
        /\ dpc'[w] = IF decodeList[1].more THEN "getOut" ELSE "insert"
        /\ in_free' = in_free
    BY <1>2, <1>t, <2>2 DEF TakeJob
  <2>4. Reading(w)' => decodeList[1].in # None
    <3>1. decodeList[1].more => decodeList[1].in \in InSpaces
      BY <2>2 DEF IInv, InSpacesExist
    <3> QED BY <3>1, <2>3, InNamed DEF Reading
  <2>5. \A i, k \in DOMAIN decodeList' :
            decodeList'[i].in # None /\ decodeList'[i].in = decodeList'[k].in
                => i = k
    BY <1>s, <2>2 DEF InApart
  <2>6. /\ \A i \in DOMAIN in_free, k \in DOMAIN decodeList' :
               in_free[i] # decodeList'[k].in
        /\ \A v \in Workers, k \in DOMAIN decodeList' :
               Reading(v) => djob[v].in # decodeList'[k].in
        /\ \A k \in DOMAIN decodeList' :
               /\ decodeList'[k].in # None => decodeList'[k].in # mjob.in
               /\ decodeList[1].in # None => decodeList[1].in # decodeList'[k].in
    BY <1>s, <2>2 DEF InApart
  <2>7. decodeList[1].in # None =>
            /\ decodeList[1].in # mjob.in
            /\ \A i \in DOMAIN in_free : in_free[i] # decodeList[1].in
            /\ \A v \in Workers : Reading(v) => djob[v].in # decodeList[1].in
    BY <1>s, <2>2 DEF InApart
  <2>8. \A v \in Workers : Reading(v)' =>
            \/ v = w /\ djob'[v] = decodeList[1] /\ decodeList[1].in # None
            \/ v # w /\ Reading(v) /\ djob'[v] = djob[v]
    BY <1>v, <2>3, <2>4 DEF Reading
  <2>9. \A v \in Workers : Reading(v)' =>
           /\ djob'[v].in # mjob.in
           /\ \A i \in DOMAIN in_free : in_free[i] # djob'[v].in
           /\ \A i \in DOMAIN decodeList' : djob'[v].in # decodeList'[i].in
    BY <1>s, <2>6, <2>7, <2>8 DEF InApart
  <2>10. \A u, v \in Workers :
            Reading(u)' /\ Reading(v)' /\ djob'[v].in = djob'[u].in => v = u
    BY <1>s, <2>7, <2>8 DEF InApart
  <2> QED BY <1>s, <1>v, <2>3, <2>5, <2>6, <2>9, <2>10 DEF InApart
<1>3. CASE LeaveOnStop(w)
  BY <1>1, <1>3, <1>t DEF LeaveOnStop, Reading
<1>4. CASE GetOutSpace(w)
  <2>1. PICK o : djob' = [djob EXCEPT ![w].out = o]
    BY <1>4 DEF GetOutSpace
  <2>2. djob'[w].in = djob[w].in
    BY <1>t, <2>1 DEF Job
  <2> QED BY <1>1, <1>4, <2>2 DEF GetOutSpace, Reading
<1>5. CASE DecodeFrame(w)
  <2>1. djob'[w].in = djob[w].in
    BY <1>5, <1>t DEF DecodeFrame, Job
  <2> QED BY <1>1, <1>5, <2>1 DEF DecodeFrame, Reading
<1>6. CASE DropInSpace(w)
  <2>1. /\ Reading(w) /\ dpc'[w] = "insert" /\ djob' = djob
        /\ decodeList' = decodeList
        /\ in_free' = <<djob[w].in>> \o in_free
    BY <1>6, <1>t DEF DropInSpace, Linked, Reading
  <2>2. djob[w].in \in Nat
    BY <1>t DEF Job
  <2>3. \A i \in DOMAIN in_free' :
            \/ i = 1 /\ in_free'[i] = djob[w].in
            \/ i \in Nat /\ i # 1 /\ i - 1 \in DOMAIN in_free
                  /\ in_free'[i] = in_free[i - 1]
    BY <1>t, <2>1, <2>2, FrontAt
  <2>4. /\ djob[w].in # mjob.in
        /\ \A k \in DOMAIN in_free : in_free[k] # djob[w].in
        /\ \A k \in DOMAIN decodeList : djob[w].in # decodeList[k].in
    BY <1>s, <2>1 DEF InApart
  <2>5. \A i, k \in DOMAIN in_free' : in_free'[i] = in_free'[k] => i = k
    <3> SUFFICES ASSUME NEW i \in DOMAIN in_free', NEW k \in DOMAIN in_free',
                        in_free'[i] = in_free'[k]
                 PROVE  i = k
      OBVIOUS
    <3>1. CASE i = 1 \/ k = 1
      BY <3>1, <2>3, <2>4
    <3>2. CASE i # 1 /\ k # 1
      <4>1. i - 1 = k - 1
        BY <3>2, <1>s, <2>3 DEF InApart
      <4> QED BY <4>1, <3>2, <2>3
    <3> QED BY <3>1, <3>2
  <2>6. \A i \in DOMAIN in_free' :
           /\ in_free'[i] # mjob.in
           /\ \A k \in DOMAIN decodeList : in_free'[i] # decodeList[k].in
    BY <1>s, <2>3, <2>4 DEF InApart
  <2>7. \A v \in Workers : Reading(v)' => Reading(v) /\ v # w
    BY <1>v, <2>1 DEF Reading
  <2>8. \A v \in Workers : Reading(v)' =>
            \A i \in DOMAIN in_free' : in_free'[i] # djob[v].in
    BY <1>s, <2>1, <2>3, <2>7 DEF InApart
  <2> QED BY <1>s, <1>v, <2>1, <2>5, <2>6, <2>7, <2>8 DEF InApart
<1>7. CASE InsertJob(w)
  BY <1>1, <1>7, <1>t DEF InsertJob, Reading
<1> QED BY <1>2, <1>3, <1>4, <1>5, <1>6, <1>7 DEF DecodeThread

(* The write thread has no input space.                                    *)
LEMMA WriterIn == SInv /\ WriteThread => InApart'
<1> USE DEF caller, lists, workers, writer, yarn, inPool, outPool
<1>1. ASSUME WriteThread PROVE UNCHANGED <<in_free, mjob, decodeList, dpc, djob>>
  BY <1>1 DEF WriteThread, TakeWriteJob, Emit, DropOutSpace, WriterExit
<1> QED BY <1>1, InSame DEF SInv, Reading
-----------------------------------------------------------------------------
(* The caller has no output space; a new decoder starts with none, and the *)
(* end of one frees them all.                                              *)
LEMMA CallerOut == SInv /\ Caller => OutApart'
<1> SUFFICES ASSUME SInv, Caller PROVE OutApart'
  OBVIOUS
<1> USE DEF caller, lists, workers, writer, yarn, inPool, outPool
<1>s. OutApart
  BY DEF SInv
<1>1. CASE dst_decoder_create
  BY <1>1, <1>s DEF dst_decoder_create, OutApart
<1>2. CASE FreeDecoder
  BY <1>2, <1>s DEF FreeDecoder, OutApart
<1>3. ASSUME ~dst_decoder_create, ~FreeDecoder
      PROVE  UNCHANGED <<out_free, wjob, writeList, djob>>
  BY <1>3 DEF Caller, DecodeGetSpace, FinishWriteJob, LaunchIfNeeded, AppendJob,
              JoinWriter, StopWorkers, JoinAllRound, JoinAllReturns
<1> QED BY <1>1, <1>2, <1>3, <1>s, OutSame

(* Output spaces stay apart when a decode thread takes a step.             *)
LEMMA WorkerOut ==
    ASSUME NEW w \in Workers, IInv, SInv, DecodeThread(w)
    PROVE  OutApart'
<1> USE DEF caller, lists, workers, writer, yarn, inPool, outPool
<1>t. /\ djob \in [Workers -> Job] /\ dpc \in [Workers -> WorkerPlaces]
      /\ writeList \in Seq(Job) /\ out_free \in Seq(Nat) /\ djob[w] \in Job
      /\ decodeList \in Seq(Job) /\ out_mem \in Seq(Sample)
  BY DEF IInv, TypeOK
<1>s. JobShape /\ OutApart
  BY DEF SInv
<1>v. /\ \A v \in Workers : v # w => djob'[v] = djob[v]
      /\ wjob' = wjob /\ mpc # "idle"
  BY WorkerStep
<1>1. ASSUME out_free' = out_free, writeList' = writeList,
             djob'[w].out = djob[w].out
      PROVE  OutApart'
  BY <1>1, <1>s, <1>v, OutSame
<1>2. CASE TakeJob(w)
  <2>1. decodeList # <<>>
    BY <1>2, DecodeListThere
  <2>2. 1 \in DOMAIN decodeList /\ Head(decodeList) = decodeList[1]
    BY <1>t, <2>1, TailAt
  <2>3. djob'[w].out = None /\ djob[w].out = None
    BY <1>2, <1>s, <1>t, <2>2 DEF TakeJob, JobShape
  <2> QED BY <1>1, <1>2, <2>3 DEF TakeJob
<1>3. CASE LeaveOnStop(w)
  BY <1>1, <1>3 DEF LeaveOnStop
<1>4. CASE GetOutSpace(w)
  <2>1. CASE out_free # <<>>
    <3>1. /\ out_free' = Tail(out_free) /\ writeList' = writeList
          /\ djob' = [djob EXCEPT ![w].out = Head(out_free)]
      BY <1>4, <2>1 DEF GetOutSpace, Unlinked
    <3>2. djob'[w].out = Head(out_free)
      BY <1>t, <3>1 DEF Job
    <3>3. /\ 1 \in DOMAIN out_free /\ Head(out_free) = out_free[1]
          /\ \A i \in DOMAIN out_free' :
                 /\ i \in Nat /\ i + 1 \in DOMAIN out_free /\ i + 1 # 1
                 /\ out_free'[i] = out_free[i + 1]
      BY <1>t, <2>1, <3>1, TailAt
    <3>4. \A i, k \in DOMAIN out_free' : out_free'[i] = out_free'[k] => i = k
      BY <1>s, <3>3 DEF OutApart
    <3>5. \A i \in DOMAIN out_free' :
             /\ out_free'[i] # wjob.out
             /\ \A k \in DOMAIN writeList : out_free'[i] # writeList[k].out
             /\ \A v \in Workers : out_free'[i] # djob'[v].out
      BY <1>s, <1>v, <3>2, <3>3 DEF OutApart
    <3>6. /\ djob'[w].out # wjob.out
          /\ \A k \in DOMAIN writeList : djob'[w].out # writeList[k].out
          /\ \A v \in Workers : djob'[w].out # djob[v].out
      BY <1>s, <3>2, <3>3 DEF OutApart
    <3>7. /\ \A v \in Workers : v # w => djob'[w].out # djob'[v].out
      BY <1>v, <3>6
    <3>8. \A v \in Workers : djob'[v].out # None =>
             /\ djob'[v].out # wjob.out
             /\ \A i \in DOMAIN writeList : djob'[v].out # writeList[i].out
             /\ \A u \in Workers : djob'[u].out = djob'[v].out => u = v
      BY <1>s, <1>v, <3>6, <3>7 DEF OutApart
    <3> QED BY <1>s, <1>v, <3>1, <3>4, <3>5, <3>8 DEF OutApart
  <2>2. CASE out_free = <<>>
    <3>1. /\ out_free' = <<>> /\ writeList' = writeList
          /\ djob' = [djob EXCEPT ![w].out = Len(out_mem) + 1]
      BY <1>4, <2>2 DEF GetOutSpace
    <3>2. djob'[w].out = Len(out_mem) + 1
      BY <1>t, <3>1 DEF Job
    <3>3. djob'[w].out \notin OutSpaces /\ djob'[w].out # None
      BY <1>t, <3>2 DEF OutSpaces, None
    <3>6. /\ djob'[w].out # wjob.out
          /\ \A k \in DOMAIN writeList : djob'[w].out # writeList[k].out
          /\ \A v \in Workers : djob'[w].out # djob[v].out
      BY <1>v, <3>3, OutNamed
    <3>7. \A v \in Workers : v # w => djob'[w].out # djob'[v].out
      BY <1>v, <3>6
    <3>8. \A v \in Workers : djob'[v].out # None =>
             /\ djob'[v].out # wjob.out
             /\ \A i \in DOMAIN writeList : djob'[v].out # writeList[i].out
             /\ \A u \in Workers : djob'[u].out = djob'[v].out => u = v
      BY <1>s, <1>v, <3>6, <3>7 DEF OutApart
    <3> QED BY <1>s, <1>v, <3>1, <3>8 DEF OutApart
  <2> QED BY <2>1, <2>2
<1>5. CASE DecodeFrame(w)
  <2>1. djob'[w].out = djob[w].out
    BY <1>5, <1>t DEF DecodeFrame, Job
  <2> QED BY <1>1, <1>5, <2>1 DEF DecodeFrame
<1>6. CASE DropInSpace(w)
  BY <1>1, <1>6 DEF DropInSpace
<1>7. CASE InsertJob(w)
  <2> DEFINE p == Place(writeList, djob[w].seq)
  <2>1. p \in 1 .. Len(writeList) + 1
    BY <1>t, PlaceLemma DEF Job
  <2>2. p \in Nat
    BY <1>t, <2>1
  <2>3. writeList' = InsertAt(writeList, p, djob[w]) /\ out_free' = out_free
    BY <1>7 DEF InsertJob
  <2>4. djob'[w] = NoJob
    BY <1>7, <1>t DEF InsertJob
  <2> HIDE DEF p
  <2>5. \A i \in DOMAIN writeList' :
            \/ i = p /\ writeList'[i] = djob[w]
            \/ i \in Nat /\ i < p /\ i \in DOMAIN writeList
                  /\ writeList'[i] = writeList[i]
            \/ i \in Nat /\ i > p /\ i - 1 \in DOMAIN writeList
                  /\ writeList'[i] = writeList[i - 1]
    BY <1>t, <2>1, <2>3, InsertedAt
  <2>6. djob[w].out # None =>
           /\ djob[w].out # wjob.out
           /\ \A i \in DOMAIN writeList : djob[w].out # writeList[i].out
           /\ \A v \in Workers : djob[v].out = djob[w].out => v = w
    BY <1>s DEF OutApart
  <2>7. ASSUME NEW i \in DOMAIN writeList', NEW k \in DOMAIN writeList',
               writeList'[i].out # None, writeList'[i].out = writeList'[k].out
        PROVE  i = k
    <3>1. CASE i = p
      BY <3>1, <2>2, <2>5, <2>6, <2>7
    <3>2. CASE k = p
      BY <3>2, <2>2, <2>5, <2>6, <2>7
    <3>3. CASE i # p /\ k # p
      <4> DEFINE old(x) == IF x < p THEN x ELSE x - 1
      <4>1. /\ old(i) \in DOMAIN writeList /\ writeList'[i] = writeList[old(i)]
            /\ old(k) \in DOMAIN writeList /\ writeList'[k] = writeList[old(k)]
        BY <3>3, <2>2, <2>5
      <4>2. old(i) = old(k)
        BY <4>1, <2>7, <1>s DEF OutApart
      <4>3. i \in Nat /\ k \in Nat
        BY <3>3, <2>5
      <4> QED BY <4>2, <4>3, <3>3, <2>2
    <3> QED BY <3>1, <3>2, <3>3
  <2>8. \A i \in DOMAIN writeList' : writeList'[i].out # None =>
            writeList'[i].out # wjob.out
    BY <2>5, <2>6, <1>s DEF OutApart
  <2>9. \A i \in DOMAIN out_free, k \in DOMAIN writeList' :
            out_free[i] # writeList'[k].out
    BY <2>5, <1>s DEF OutApart
  <2>10. ASSUME NEW v \in Workers, djob'[v].out # None
         PROVE  /\ v # w /\ djob'[v] = djob[v]
                /\ \A i \in DOMAIN writeList' : djob[v].out # writeList'[i].out
    <3>1. v # w /\ djob'[v] = djob[v]
      BY <1>v, <2>4, <2>10, NoJobShape
    <3>2. /\ \A i \in DOMAIN writeList : djob[v].out # writeList[i].out
          /\ djob[v].out # djob[w].out
      BY <1>s, <2>10, <3>1 DEF OutApart
    <3> QED BY <2>5, <3>1, <3>2
  <2>11. \A i \in DOMAIN out_free, v \in Workers : out_free[i] # djob'[v].out
    <3>1. \A i \in DOMAIN out_free : out_free[i] # None
      BY <1>v, OutNamed
    <3> QED BY <1>s, <1>v, <2>4, <3>1, NoJobShape DEF OutApart
  <2> QED BY <1>s, <1>v, <2>3, <2>7, <2>8, <2>9, <2>10, <2>11 DEF OutApart
<1> QED BY <1>2, <1>3, <1>4, <1>5, <1>6, <1>7 DEF DecodeThread

(* And when the write thread does.                                         *)
LEMMA WriterOut == IInv /\ SInv /\ WriteThread => OutApart'
<1> SUFFICES ASSUME IInv, SInv, WriteThread PROVE OutApart'
  OBVIOUS
<1> USE DEF caller, lists, workers, writer, yarn, inPool, outPool
<1>t. /\ writeList \in Seq(Job) /\ out_free \in Seq(Nat) /\ wjob \in Job
  BY DEF IInv, TypeOK
<1>s. JobShape /\ OutApart
  BY DEF SInv
<1>m. mpc # "idle"
  BY DEF IInv, ThreadsListed, WriteThread, TakeWriteJob, Emit, DropOutSpace,
         WriterExit
<1>n. /\ \A i \in DOMAIN out_free : out_free[i] # None
  BY <1>m, OutNamed
<1>1. CASE TakeWriteJob
  <2>1. writeList # <<>>
    BY <1>1, WriteListThere
  <2>2. /\ 1 \in DOMAIN writeList /\ Head(writeList) = writeList[1]
        /\ \A i \in DOMAIN writeList' :
               /\ i \in Nat /\ i + 1 \in DOMAIN writeList /\ i + 1 # 1
               /\ writeList'[i] = writeList[i + 1]
    BY <1>1, <1>t, <2>1, TailAt DEF TakeWriteJob
  <2>3. wjob' = writeList[1] /\ UNCHANGED <<out_free, djob>>
    BY <1>1, <2>2 DEF TakeWriteJob
  <2>4. \A i, k \in DOMAIN writeList' :
            writeList'[i].out # None /\ writeList'[i].out = writeList'[k].out
                => i = k
    BY <1>s, <2>2 DEF OutApart
  <2>5. \A i \in DOMAIN writeList' : writeList'[i].out # None =>
            writeList'[i].out # wjob'.out
    BY <1>s, <2>2, <2>3 DEF OutApart
  <2>6. \A i \in DOMAIN out_free :
            /\ out_free[i] # wjob'.out
            /\ \A k \in DOMAIN writeList' : out_free[i] # writeList'[k].out
    BY <1>s, <2>2, <2>3 DEF OutApart
  <2>7. \A v \in Workers : djob[v].out # None =>
            /\ djob[v].out # wjob'.out
            /\ \A i \in DOMAIN writeList' : djob[v].out # writeList'[i].out
    BY <1>s, <2>2, <2>3 DEF OutApart
  <2> QED BY <1>s, <2>3, <2>4, <2>5, <2>6, <2>7 DEF OutApart
<1>2. CASE Emit
  BY <1>2, <1>s, OutSame DEF Emit
<1>3. CASE DropOutSpace
  <2>1. /\ out_free' = <<wjob.out>> \o out_free /\ wjob' = NoJob
        /\ UNCHANGED <<writeList, djob>> /\ wpc = "dropOut"
    BY <1>3 DEF DropOutSpace, Linked
  <2>2. wjob.out # None /\ wjob.out \in Nat
    BY <1>t, <2>1 DEF IInv, OutSpacesExist, OutSpaces, None, Job
  <2>3. \A i \in DOMAIN out_free' :
            \/ i = 1 /\ out_free'[i] = wjob.out
            \/ i \in Nat /\ i # 1 /\ i - 1 \in DOMAIN out_free
                  /\ out_free'[i] = out_free[i - 1]
    BY <1>t, <2>1, <2>2, FrontAt
  <2>4. /\ \A k \in DOMAIN out_free : out_free[k] # wjob.out
        /\ \A k \in DOMAIN writeList : writeList[k].out # wjob.out
        /\ \A v \in Workers : djob[v].out # wjob.out
    BY <1>s, <2>2 DEF OutApart
  <2>5. ASSUME NEW i \in DOMAIN out_free', NEW k \in DOMAIN out_free',
               out_free'[i] = out_free'[k]
        PROVE  i = k
    <3>1. CASE i = 1 \/ k = 1
      BY <3>1, <2>3, <2>4, <2>5
    <3>2. CASE i # 1 /\ k # 1
      <4>1. i - 1 = k - 1
        BY <3>2, <1>s, <2>3, <2>5 DEF OutApart
      <4> QED BY <4>1, <3>2, <2>3
    <3> QED BY <3>1, <3>2
  <2>6. \A i \in DOMAIN out_free' :
            /\ out_free'[i] # None
            /\ \A k \in DOMAIN writeList : out_free'[i] # writeList[k].out
            /\ \A v \in Workers : out_free'[i] # djob[v].out
    BY <1>s, <1>n, <2>2, <2>3, <2>4 DEF OutApart
  <2> QED BY <1>s, <2>1, <2>5, <2>6, NoJobShape DEF OutApart
<1>4. CASE WriterExit
  <2>1. wjob.out = None /\ wjob'.out = None
    BY <1>4, <1>s, NoJobShape DEF WriterExit, JobShape
  <2> QED BY <1>4, <1>s, <2>1, OutSame DEF WriterExit
<1> QED BY <1>1, <1>2, <1>3, <1>4 DEF WriteThread
-----------------------------------------------------------------------------
(* Every step preserves SInv, given IInv.                                  *)
LEMMA SNext == IInv /\ SInv /\ [Next]_vars => SInv'
<1> SUFFICES ASSUME IInv, SInv, [Next]_vars PROVE SInv'
  OBVIOUS
<1>s. ThreadState /\ JobShape /\ InApart /\ OutApart
  BY DEF SInv
<1>t. ThreadState'
  BY <1>s, ThreadStateNext
<1>1. CASE Caller
  BY <1>1, <1>s, <1>t, CallerShape, CallerIn, CallerOut DEF SInv
<1>2. CASE WriteThread
  BY <1>2, <1>s, <1>t, WriterShape, WriterIn, WriterOut DEF SInv
<1>3. ASSUME NEW w \in Workers, DecodeThread(w) PROVE SInv'
  BY <1>3, <1>s, <1>t, WorkerShape, WorkerIn, WorkerOut DEF SInv
<1>4. CASE UNCHANGED vars
  BY <1>4, <1>s, <1>t DEF vars, caller, lists, workers, writer, yarn, inPool,
     outPool, SInv, JobShape, InApart, OutApart, Reading
<1> QED BY <1>1, <1>2, <1>3, <1>4 DEF Next

(* Places that are apart are jobs that share no space.                     *)
LEMMA ApartNotShared == IInv /\ SInv => SpacesNotShared
<1> SUFFICES ASSUME IInv, SInv PROVE SpacesNotShared
  OBVIOUS
<1>s. JobShape /\ InApart /\ OutApart
  BY DEF SInv
<1> DEFINE HoldsIn(j) == /\ j.in # None
                         /\ \/ j = mjob
                            \/ j \in ToSet(decodeList)
                            \/ \E w \in Workers :
                                  /\ j = djob[w]
                                  /\ dpc[w] \in {"getOut", "decode", "dropIn"}
           Ins  == {j \in JobsAlive : HoldsIn(j)}
           Outs == {j \in JobsAlive : j.out # None}
<1>i. \A j \in Ins :
         /\ j.in # None
         /\ \/ j = mjob
            \/ \E i \in DOMAIN decodeList : j = decodeList[i]
            \/ \E w \in Workers : Reading(w) /\ j = djob[w]
  BY DEF ToSet, Reading
<1>o. \A j \in Outs :
         /\ j.out # None
         /\ \/ j = wjob
            \/ \E i \in DOMAIN writeList : j = writeList[i]
            \/ \E w \in Workers : j = djob[w]
  BY <1>s DEF JobsAlive, ToSet, JobShape
<1> HIDE DEF HoldsIn, Ins, Outs
<1>1. \A j, k \in Ins : j.in = k.in => j = k
  BY <1>s, <1>i DEF InApart
<1>2. \A j, k \in Outs : j.out = k.out => j = k
  BY <1>s, <1>o DEF OutApart
<1>3. \A j \in Ins : j.in \notin ToSet(in_free)
  BY <1>s, <1>i DEF InApart, ToSet
<1>4. \A j \in Outs : j.out \notin ToSet(out_free)
  BY <1>s, <1>o DEF OutApart, ToSet
<1>5. IsInjective(in_free) /\ IsInjective(out_free)
  BY <1>s DEF InApart, OutApart, IsInjective
<1>6. /\ \A j, k \in Ins : j.in = k.in => j.seq = k.seq
      /\ \A j, k \in Outs : j.out = k.out => j.seq = k.seq
  BY <1>1, <1>2
<1> QED BY <1>3, <1>4, <1>5, <1>6 DEF SpacesNotShared, Ins, Outs, HoldsIn

(* No thread decodes into a buffer that the write thread still reads, or   *)
(* out of one that the caller refills: a space is free or belongs to one   *)
(* job (buffer_pool_get_space and buffer_pool_drop_space as they are used  *)
(* in dst_decoder.c:213-303, 380-400).                                     *)
THEOREM NoSharing == Spec => []SpacesNotShared
<1>1. Init => SInv
  BY SInit
<1>2. IInv /\ SInv /\ [Next]_vars => SInv'
  BY SNext
<1>3. IInv /\ SInv => SpacesNotShared
  BY ApartNotShared
<1> QED BY <1>1, <1>2, <1>3, Invariance, PTL DEF Spec
-----------------------------------------------------------------------------
(***************************************************************************)
(* The callbacks see the frames in order and each with its own samples,    *)
(* for every number of threads, spaces and frames.  The order comes from   *)
(* the lock write_first, whose value is the sequence number of the first   *)
(* job (LocksMatchLists); the samples are right since a buffer holds what  *)
(* its job says from the moment it is filled, because no other job has it  *)
(* (SInv).                                                                 *)
(***************************************************************************)
(* A job's input buffer holds the frame of the job's number.               *)
InData ==
    /\ mjob.more => in_mem[mjob.in] = mjob.seq
    /\ \A i \in DOMAIN decodeList :
           decodeList[i].more => in_mem[decodeList[i].in] = decodeList[i].seq
    /\ \A w \in Workers : Reading(w) => in_mem[djob[w].in] = djob[w].seq

(* What the callbacks would see of a job is its frame decoded.             *)
Shows(j) == [data |-> out_mem[j.out], error |-> j.error] = Decoded(j.seq)

(* From the call of the decoder on a job's output buffer shows its frame.  *)
HasResult(w) == dpc[w] = "dropIn" \/ (dpc[w] = "insert" /\ djob[w].more)

OutData ==
    /\ \A w \in Workers : HasResult(w) => Shows(djob[w])
    /\ mpc # "idle" => \A i \in DOMAIN writeList :
           writeList[i].more => Shows(writeList[i])
    /\ wpc = "emit" => Shows(wjob)

(* The write thread counts what it has delivered.                          *)
Count ==
    /\ wpc \in {"wait", "emit"} => Len(delivered) = wseq
    /\ wpc = "dropOut" => Len(delivered) = wseq + 1
    /\ wpc \in {"emit", "dropOut"} => wjob.seq = wseq

DInv == InData /\ OutData /\ Count /\ DeliveredInOrder
-----------------------------------------------------------------------------
(* Nothing is held before the first decoder.                               *)
LEMMA DInit == Init => DInv
  BY DEF Init, DInv, InData, OutData, Count, DeliveredInOrder, Reading,
         HasResult, NoJob

(* A step that moves no input job nor writes an input buffer.              *)
LEMMA InDataSame ==
    ASSUME InData, in_mem' = in_mem, mjob' = mjob, decodeList' = decodeList,
           \A w \in Workers :
               Reading(w)' => /\ Reading(w)
                              /\ djob'[w].in = djob[w].in
                              /\ djob'[w].seq = djob[w].seq
    PROVE  InData'
  BY DEF InData

(* A step that moves no output job nor writes an output buffer.            *)
LEMMA OutDataSame ==
    ASSUME OutData, out_mem' = out_mem, writeList' = writeList,
           mpc' # "idle" => mpc # "idle",
           wpc' = "emit" => wpc = "emit" /\ wjob' = wjob,
           \A w \in Workers : HasResult(w)' => HasResult(w) /\ djob'[w] = djob[w]
    PROVE  OutData'
  BY DEF OutData, Shows, Decoded

(* Buffers keep what their jobs say when the caller takes a step.          *)
LEMMA CallerInData == IInv /\ SInv /\ InData /\ Caller => InData'
<1> SUFFICES ASSUME IInv, SInv, InData, Caller PROVE InData'
  OBVIOUS
<1> USE DEF caller, lists, workers, writer, yarn, inPool, outPool
<1>t. /\ in_free \in Seq(Nat) /\ in_mem \in Seq(Sample) /\ sequence \in Nat
      /\ decodeList \in Seq(Job) /\ mjob \in Job
  BY DEF IInv, TypeOK
<1>s. JobShape /\ InApart /\ ThreadState
  BY DEF SInv
<1>n. /\ \A i \in DOMAIN decodeList :
             decodeList[i].more => decodeList[i].in \in InSpaces
      /\ \A w \in Workers : Reading(w) => djob[w].in \in InSpaces
      /\ \A i \in DOMAIN in_free : in_free[i] \in InSpaces
  BY DEF IInv, InSpacesExist, Reading
<1>1. CASE dst_decoder_create
  BY <1>1 DEF dst_decoder_create, InData, Reading
<1>2. CASE DecodeGetSpace
  <2>u. decodeList' = decodeList /\ dpc' = dpc /\ djob' = djob
    BY <1>2 DEF DecodeGetSpace
  <2>1. CASE in_free # <<>>
    <3>1. /\ in_mem' = [in_mem EXCEPT ![Head(in_free)] = sequence]
          /\ mjob' = [NoJob EXCEPT !.seq = sequence, !.more = TRUE,
                                   !.in = Head(in_free)]
      BY <1>2, <2>1 DEF DecodeGetSpace
    <3>2. mjob'.in = Head(in_free) /\ mjob'.seq = sequence
      BY <3>1 DEF NoJob
    <3>3. 1 \in DOMAIN in_free /\ Head(in_free) = in_free[1]
      BY <1>t, <2>1, TailAt
    <3>4. \A i \in InSpaces :
              in_mem'[i] = IF i = mjob'.in THEN sequence ELSE in_mem[i]
      BY <1>t, <3>1, <3>2 DEF InSpaces
    <3>5. in_mem'[mjob'.in] = mjob'.seq
      BY <1>n, <3>2, <3>3, <3>4
    <3>6. /\ \A k \in DOMAIN decodeList : decodeList[k].in # mjob'.in
          /\ \A w \in Workers : Reading(w) => djob[w].in # mjob'.in
      BY <1>s, <3>2, <3>3 DEF InApart
    <3>7. /\ \A k \in DOMAIN decodeList : decodeList[k].more =>
                 in_mem'[decodeList[k].in] = in_mem[decodeList[k].in]
          /\ \A w \in Workers : Reading(w) =>
                 in_mem'[djob[w].in] = in_mem[djob[w].in]
      BY <1>n, <3>4, <3>6
    <3> QED BY <2>u, <3>5, <3>7 DEF InData, Reading
  <2>2. CASE in_free = <<>>
    <3>1. /\ in_mem' = Append(in_mem, sequence)
          /\ mjob' = [NoJob EXCEPT !.seq = sequence, !.more = TRUE,
                                   !.in = Len(in_mem) + 1]
      BY <1>2, <2>2 DEF DecodeGetSpace
    <3>2. mjob'.in = Len(in_mem) + 1 /\ mjob'.seq = sequence
      BY <3>1 DEF NoJob
    <3>3. /\ \A i \in InSpaces : in_mem'[i] = in_mem[i]
          /\ in_mem'[Len(in_mem) + 1] = sequence
      BY <1>t, <3>1 DEF InSpaces
    <3>4. /\ \A k \in DOMAIN decodeList : decodeList[k].more =>
                 in_mem'[decodeList[k].in] = in_mem[decodeList[k].in]
          /\ \A w \in Workers : Reading(w) =>
                 in_mem'[djob[w].in] = in_mem[djob[w].in]
      BY <1>n, <3>3
    <3> QED BY <2>u, <3>2, <3>3, <3>4 DEF InData, Reading
  <2> QED BY <2>1, <2>2
<1>3. CASE FinishWriteJob
  <2>1. mjob' = [NoJob EXCEPT !.seq = sequence]
        /\ UNCHANGED <<in_mem, decodeList, dpc, djob>>
    BY <1>3 DEF FinishWriteJob
  <2>2. ~mjob'.more
    BY <2>1 DEF NoJob
  <2> QED BY <2>1, <2>2 DEF InData, Reading
<1>4. CASE AppendJob
  <2>1. /\ decodeList' = Append(decodeList, mjob) /\ mjob' = NoJob
        /\ UNCHANGED <<in_mem, dpc, djob>>
    BY <1>4 DEF AppendJob
  <2>2. \A i \in DOMAIN decodeList' :
            \/ i \in DOMAIN decodeList /\ decodeList'[i] = decodeList[i]
            \/ decodeList'[i] = mjob
    BY <1>t, <2>1, EndAt
  <2> QED BY <2>1, <2>2, NoJobShape DEF InData, Reading
<1>5. CASE JoinWriter \/ JoinAllReturns
  BY <1>5, InDataSame DEF JoinWriter, JoinAllReturns, Reading
<1>6. CASE LaunchIfNeeded
  <2>1. \A w \in Workers : Reading(w)' => Reading(w)
    BY <1>6, <1>s, LaunchStep DEF Reading
  <2> QED BY <1>6, <2>1, InDataSame DEF LaunchIfNeeded
<1>7. CASE JoinAllRound
  <2>1. \A w \in Workers : Reading(w)' => Reading(w)
    BY <1>7, <1>s, JoinStep DEF Reading
  <2> QED BY <1>7, <2>1, InDataSame DEF JoinAllRound
<1>8. CASE StopWorkers
  <2>1. decodeList' = <<StopJob>> /\ UNCHANGED <<in_mem, mjob, dpc, djob>>
    BY <1>8 DEF StopWorkers
  <2>2. \A i \in DOMAIN decodeList' : ~decodeList'[i].more
    BY <2>1, NoJobFacts
  <2> QED BY <2>1, <2>2 DEF InData, Reading
<1>9. CASE FreeDecoder
  <2>1. /\ decodeList' = <<>> /\ UNCHANGED <<mjob, dpc, djob>>
        /\ mpc = "free"
    BY <1>9 DEF FreeDecoder
  <2>2. ~mjob.more /\ \A w \in Workers : ~Reading(w)
    BY <2>1, NoJobFacts DEF IInv, InSpacesExist, ThreadsListed, Reading
  <2> QED BY <2>1, <2>2 DEF InData, Reading
<1> QED BY <1>1, <1>2, <1>3, <1>4, <1>5, <1>6, <1>7, <1>8, <1>9 DEF Caller

(* And when a decode thread does: it writes no input buffer.               *)
LEMMA WorkerInData ==
    ASSUME NEW w \in Workers, IInv, InData, DecodeThread(w)
    PROVE  InData'
<1> USE DEF caller, lists, workers, writer, yarn, inPool, outPool
<1>t. /\ djob \in [Workers -> Job] /\ dpc \in [Workers -> WorkerPlaces]
      /\ decodeList \in Seq(Job) /\ djob[w] \in Job
  BY DEF IInv, TypeOK
<1>v. /\ \A v \in Workers : v # w => dpc'[v] = dpc[v] /\ djob'[v] = djob[v]
      /\ mjob' = mjob
  BY WorkerStep
<1>m. in_mem' = in_mem
  BY DEF DecodeThread, TakeJob, LeaveOnStop, GetOutSpace, DecodeFrame,
         DropInSpace, InsertJob
<1>1. ASSUME decodeList' = decodeList,
             Reading(w)' => /\ Reading(w)
                            /\ djob'[w].in = djob[w].in
                            /\ djob'[w].seq = djob[w].seq
      PROVE  InData'
  BY <1>1, <1>m, <1>v, InDataSame DEF Reading
<1>2. CASE TakeJob(w)
  <2>1. decodeList # <<>>
    BY <1>2, DecodeListThere
  <2>2. /\ 1 \in DOMAIN decodeList /\ Head(decodeList) = decodeList[1]
        /\ \A i \in DOMAIN decodeList' :
               i + 1 \in DOMAIN decodeList /\ decodeList'[i] = decodeList[i + 1]
    BY <1>2, <1>t, <2>1, TailAt DEF TakeJob
  <2>3. /\ djob'[w] = decodeList[1]
        /\ dpc'[w] = IF decodeList[1].more THEN "getOut" ELSE "insert"
    BY <1>2, <1>t, <2>2 DEF TakeJob
  <2> QED BY <1>m, <1>v, <2>2, <2>3 DEF InData, Reading
<1>3. CASE LeaveOnStop(w)
  BY <1>1, <1>3, <1>t DEF LeaveOnStop, Reading
<1>4. CASE GetOutSpace(w)
  <2>1. PICK o : djob' = [djob EXCEPT ![w].out = o]
    BY <1>4 DEF GetOutSpace
  <2>2. djob'[w].in = djob[w].in /\ djob'[w].seq = djob[w].seq
    BY <1>t, <2>1 DEF Job
  <2> QED BY <1>1, <1>4, <2>2 DEF GetOutSpace, Reading
<1>5. CASE DecodeFrame(w)
  <2>1. djob'[w].in = djob[w].in /\ djob'[w].seq = djob[w].seq
    BY <1>5, <1>t DEF DecodeFrame, Job
  <2> QED BY <1>1, <1>5, <2>1 DEF DecodeFrame, Reading
<1>6. CASE DropInSpace(w)
  BY <1>1, <1>6, <1>t DEF DropInSpace, Reading
<1>7. CASE InsertJob(w)
  BY <1>1, <1>7, <1>t DEF InsertJob, Reading
<1> QED BY <1>2, <1>3, <1>4, <1>5, <1>6, <1>7 DEF DecodeThread
-----------------------------------------------------------------------------
(* The caller touches no output buffer while a job names one.              *)
LEMMA CallerOutData ==
    IInv /\ ThreadState /\ OutData /\ Caller => OutData'
<1> SUFFICES ASSUME IInv, ThreadState, OutData, Caller PROVE OutData'
  OBVIOUS
<1> USE DEF caller, lists, workers, writer, yarn, inPool, outPool
<1>i. mpc \in {"idle", "free"} =>
          wpc = "none" /\ \A w \in Workers : dpc[w] = "none"
  BY DEF IInv, ThreadsListed
<1>1. CASE dst_decoder_create
  <2>1. /\ writeList' = <<>> /\ wpc' = "wait" /\ dpc' = dpc /\ mpc = "idle"
    BY <1>1 DEF dst_decoder_create
  <2> QED BY <1>i, <2>1 DEF OutData, HasResult
<1>2. CASE FreeDecoder
  <2>1. wpc' = wpc /\ dpc' = dpc /\ mpc = "free" /\ mpc' = "idle"
    BY <1>2 DEF FreeDecoder
  <2> QED BY <1>i, <2>1 DEF OutData, HasResult
<1>3. CASE \/ DecodeGetSpace \/ FinishWriteJob \/ AppendJob \/ StopWorkers
           \/ JoinAllReturns
  <2>1. /\ UNCHANGED <<out_mem, writeList, wpc, wjob, dpc, djob>>
        /\ mpc # "idle"
    BY <1>3 DEF DecodeGetSpace, FinishWriteJob, AppendJob, StopWorkers,
                JoinAllReturns
  <2> QED BY <2>1, OutDataSame DEF HasResult
<1>4. CASE JoinWriter
  <2>1. /\ UNCHANGED <<out_mem, writeList, wjob, dpc, djob>>
        /\ mpc # "idle" /\ wpc' = "none"
    BY <1>4 DEF JoinWriter
  <2> QED BY <2>1, OutDataSame DEF HasResult
<1>5. CASE LaunchIfNeeded
  <2>1. /\ UNCHANGED <<out_mem, writeList, wpc, wjob, djob>> /\ mpc # "idle"
    BY <1>5 DEF LaunchIfNeeded
  <2>2. \A w \in Workers : HasResult(w)' => HasResult(w)
    BY <1>5, <2>1, LaunchStep DEF HasResult
  <2> QED BY <2>1, <2>2, OutDataSame
<1>6. CASE JoinAllRound
  <2>1. /\ UNCHANGED <<out_mem, writeList, wjob, djob>> /\ mpc # "idle"
    BY <1>6 DEF JoinAllRound
  <2>2. /\ \A w \in Workers : HasResult(w)' => HasResult(w)
        /\ wpc' = "emit" => wpc = "emit"
    BY <1>6, <2>1, JoinStep DEF HasResult
  <2> QED BY <2>1, <2>2, OutDataSame
<1> QED BY <1>1, <1>2, <1>3, <1>4, <1>5, <1>6 DEF Caller

(* A decode thread writes its own output buffer alone.                     *)
LEMMA WorkerOutData ==
    ASSUME NEW w \in Workers, IInv, SInv, InData, OutData, DecodeThread(w)
    PROVE  OutData'
<1> USE DEF caller, lists, workers, writer, yarn, inPool, outPool
<1>t. /\ djob \in [Workers -> Job] /\ dpc \in [Workers -> WorkerPlaces]
      /\ writeList \in Seq(Job) /\ djob[w] \in Job
      /\ out_mem \in Seq(Sample) /\ in_mem \in Seq(Sample)
  BY DEF IInv, TypeOK
<1>s. JobShape /\ OutApart
  BY DEF SInv
<1>v. /\ \A v \in Workers : v # w => dpc'[v] = dpc[v] /\ djob'[v] = djob[v]
      /\ wpc' = wpc /\ wjob' = wjob /\ mpc' = mpc /\ mpc # "idle"
  BY WorkerStep
<1>n. /\ \A v \in Workers : HasResult(v) => djob[v].out \in OutSpaces
      /\ \A i \in DOMAIN writeList :
             writeList[i].more => writeList[i].out \in OutSpaces
      /\ wpc = "emit" => wjob.out \in OutSpaces
      /\ None \notin OutSpaces
  BY <1>v DEF IInv, OutSpacesExist, HasResult, OutSpaces, None
(* The other jobs' buffers keep their contents, so the job w is at decides. *)
<1>1. ASSUME writeList' = writeList,
             \A v \in Workers : HasResult(v) /\ v # w =>
                 out_mem'[djob[v].out] = out_mem[djob[v].out],
             \A i \in DOMAIN writeList : writeList[i].more =>
                 out_mem'[writeList[i].out] = out_mem[writeList[i].out],
             wpc = "emit" => out_mem'[wjob.out] = out_mem[wjob.out],
             HasResult(w)' =>
                 [data  |-> out_mem'[djob'[w].out],
                  error |-> djob'[w].error] = Decoded(djob'[w].seq)
      PROVE  OutData'
  <2>1. \A v \in Workers : v # w =>
            (HasResult(v)' => HasResult(v) /\ djob'[v] = djob[v])
    BY <1>v DEF HasResult
  <2>2. \A v \in Workers : HasResult(v)' =>
            [data  |-> out_mem'[djob'[v].out],
             error |-> djob'[v].error] = Decoded(djob'[v].seq)
    BY <1>1, <2>1 DEF OutData, Shows
  <2>3. \A i \in DOMAIN writeList : writeList[i].more =>
            [data  |-> out_mem'[writeList[i].out],
             error |-> writeList[i].error] = Decoded(writeList[i].seq)
    BY <1>1, <1>v DEF OutData, Shows
  <2>4. wpc = "emit" =>
            [data  |-> out_mem'[wjob.out],
             error |-> wjob.error] = Decoded(wjob.seq)
    BY <1>1 DEF OutData, Shows
  <2> QED BY <1>1, <1>v, <2>2, <2>3, <2>4 DEF OutData, Shows, Decoded
<1>2. ASSUME UNCHANGED <<out_mem, writeList>>, ~HasResult(w)'
      PROVE  OutData'
  BY <1>1, <1>2
<1>3. CASE TakeJob(w)
  <2>1. UNCHANGED <<out_mem, writeList>> /\ djob'[w] = Head(decodeList)
        /\ dpc'[w] = IF Head(decodeList).more THEN "getOut" ELSE "insert"
    BY <1>3, <1>t DEF TakeJob
  <2> QED BY <1>2, <2>1 DEF HasResult
<1>4. CASE LeaveOnStop(w)
  BY <1>2, <1>4, <1>t DEF LeaveOnStop, HasResult
<1>5. CASE GetOutSpace(w)
  <2>1. writeList' = writeList /\ dpc'[w] = "decode"
    BY <1>5, <1>t DEF GetOutSpace
  <2>2. \A o \in OutSpaces : out_mem'[o] = out_mem[o]
    BY <1>5, <1>t DEF GetOutSpace, OutSpaces
  <2> QED BY <1>1, <1>n, <2>1, <2>2 DEF HasResult
<1>6. CASE DecodeFrame(w)
  <2> DEFINE o == djob[w].out
  <2>1. /\ dpc[w] = "decode" /\ writeList' = writeList
        /\ out_mem' = [out_mem EXCEPT ![o] = DST_FramDSTDecode(in_mem[djob[w].in])]
        /\ djob' = [djob EXCEPT ![w].error = in_mem[djob[w].in] \in Corrupt]
    BY <1>6 DEF DecodeFrame
  <2>2. o \in OutSpaces /\ o # None
    BY <1>n, <2>1 DEF IInv, OutSpacesExist
  <2>3. in_mem[djob[w].in] = djob[w].seq
    BY <2>1 DEF InData, Reading
  <2>4. /\ djob'[w].out = o /\ djob'[w].seq = djob[w].seq
        /\ djob'[w].error = (djob[w].seq \in Corrupt)
    BY <1>t, <2>1, <2>3 DEF Job
  <2>5. \A x \in OutSpaces :
            out_mem'[x] = IF x = o THEN DST_FramDSTDecode(djob[w].seq)
                          ELSE out_mem[x]
    <3> HIDE DEF o
    <3> QED BY <1>t, <2>1, <2>2, <2>3 DEF OutSpaces
  <2>6. /\ \A v \in Workers : v # w => djob[v].out # o
        /\ \A i \in DOMAIN writeList : writeList[i].out # o
        /\ wjob.out # o
    BY <1>s, <2>2 DEF OutApart
  <2>7. [data  |-> out_mem'[djob'[w].out],
         error |-> djob'[w].error] = Decoded(djob'[w].seq)
    BY <2>2, <2>4, <2>5 DEF Decoded
  <2> QED BY <1>1, <1>n, <2>1, <2>5, <2>6, <2>7
<1>7. CASE DropInSpace(w)
  <2>1. HasResult(w) /\ UNCHANGED <<out_mem, writeList, djob>>
    BY <1>7 DEF DropInSpace, HasResult
  <2>2. Shows(djob[w])
    BY <2>1 DEF OutData
  <2> QED BY <1>1, <2>1, <2>2 DEF Shows
<1>8. CASE InsertJob(w)
  <2> DEFINE p == Place(writeList, djob[w].seq)
  <2>1. p \in 1 .. Len(writeList) + 1
    BY <1>t, PlaceLemma DEF Job
  <2>2. /\ writeList' = InsertAt(writeList, p, djob[w]) /\ out_mem' = out_mem
        /\ dpc[w] = "insert" /\ dpc'[w] = "look"
    BY <1>8, <1>t DEF InsertJob
  <2> HIDE DEF p
  <2>3. \A i \in DOMAIN writeList' :
            \/ writeList'[i] = djob[w]
            \/ i \in DOMAIN writeList /\ writeList'[i] = writeList[i]
            \/ i - 1 \in DOMAIN writeList /\ writeList'[i] = writeList[i - 1]
    BY <1>t, <2>1, <2>2, InsertedAt
  <2>4. djob[w].more => Shows(djob[w])
    BY <2>2 DEF OutData, HasResult
  <2>5. \A i \in DOMAIN writeList' : writeList'[i].more =>
            [data  |-> out_mem[writeList'[i].out],
             error |-> writeList'[i].error] = Decoded(writeList'[i].seq)
    BY <1>v, <2>3, <2>4 DEF OutData, Shows
  <2>6. \A v \in Workers : HasResult(v)' => HasResult(v) /\ djob'[v] = djob[v]
    BY <1>v, <2>2 DEF HasResult
  <2> QED BY <1>v, <2>2, <2>5, <2>6 DEF OutData, Shows, Decoded
<1> QED BY <1>3, <1>4, <1>5, <1>6, <1>7, <1>8 DEF DecodeThread

(* The write thread writes no buffer; the job it takes shows its frame.    *)
LEMMA WriterOutData == IInv /\ OutData /\ WriteThread => OutData'
<1> SUFFICES ASSUME IInv, OutData, WriteThread PROVE OutData'
  OBVIOUS
<1> USE DEF caller, lists, workers, writer, yarn, inPool, outPool
<1>u. UNCHANGED <<out_mem, dpc, djob, mpc>> /\ mpc # "idle"
  BY DEF IInv, ThreadsListed, WriteThread, TakeWriteJob, Emit, DropOutSpace,
         WriterExit
<1>1. CASE TakeWriteJob
  <2>1. writeList # <<>> /\ writeList \in Seq(Job)
    BY <1>1, WriteListThere DEF IInv, TypeOK
  <2>2. /\ 1 \in DOMAIN writeList /\ Head(writeList) = writeList[1]
        /\ \A i \in DOMAIN writeList' :
               i + 1 \in DOMAIN writeList /\ writeList'[i] = writeList[i + 1]
    BY <1>1, <2>1, TailAt DEF TakeWriteJob
  <2>3. wjob' = writeList[1] /\ wpc' = IF wjob'.more THEN "emit" ELSE "verify"
    BY <1>1, <2>2 DEF TakeWriteJob
  <2>4. wpc' = "emit" => Shows(writeList[1])
    BY <1>u, <2>2, <2>3 DEF OutData
  <2>5. \A i \in DOMAIN writeList' : writeList'[i].more => Shows(writeList'[i])
    BY <1>u, <2>2 DEF OutData
  <2> QED BY <1>u, <2>3, <2>4, <2>5 DEF OutData, Shows, Decoded, HasResult
<1>2. CASE Emit \/ DropOutSpace \/ WriterExit
  <2>1. writeList' = writeList /\ wpc' # "emit"
    BY <1>2 DEF Emit, DropOutSpace, WriterExit
  <2> QED BY <1>u, <2>1, OutDataSame DEF HasResult
<1> QED BY <1>1, <1>2 DEF WriteThread

(* The caller only starts the count, and a new stream, with the decoder.   *)
LEMMA CallerCount ==
    ThreadState /\ Count /\ DeliveredInOrder /\ Caller
        => Count' /\ DeliveredInOrder'
<1> SUFFICES ASSUME ThreadState, Count, DeliveredInOrder, Caller
             PROVE  Count' /\ DeliveredInOrder'
  OBVIOUS
<1> USE DEF caller, lists, workers, writer, yarn, inPool, outPool
<1>1. CASE dst_decoder_create
  BY <1>1 DEF dst_decoder_create, Count, DeliveredInOrder
<1>2. CASE ~dst_decoder_create
  <2>1. /\ UNCHANGED <<wseq, wjob, delivered>>
        /\ wpc' = wpc \/ wpc' = "none"
    BY <1>2 DEF Caller, DecodeGetSpace, FinishWriteJob, LaunchIfNeeded,
                AppendJob, JoinWriter, StopWorkers, JoinAllRound,
                JoinAllReturns, FreeDecoder
  <2> QED BY <2>1 DEF Count, DeliveredInOrder, Decoded
<1> QED BY <1>1, <1>2

(* The write thread delivers the frame whose turn it is.                   *)
LEMMA WriterCount ==
    IInv /\ OutData /\ Count /\ DeliveredInOrder /\ WriteThread
        => Count' /\ DeliveredInOrder'
<1> SUFFICES ASSUME IInv, OutData, Count, DeliveredInOrder, WriteThread
             PROVE  Count' /\ DeliveredInOrder'
  OBVIOUS
<1> USE DEF caller, lists, workers, writer, yarn, inPool, outPool
<1>t. /\ wseq \in Nat
      /\ delivered \in Seq([data : Sample, error : BOOLEAN])
  BY DEF IInv, TypeOK
<1>1. CASE TakeWriteJob
  <2>1. writeList # <<>> /\ writeList \in Seq(Job)
    BY <1>1, WriteListThere DEF IInv, TypeOK
  <2>2. Head(writeList) = writeList[1]
    BY <2>1, TailAt
  <2>3. /\ wpc = "wait" /\ write_first = wseq /\ wjob' = writeList[1]
        /\ wpc' = IF wjob'.more THEN "emit" ELSE "verify"
        /\ wseq' = IF wjob'.more THEN wseq ELSE wseq + 1
        /\ delivered' = delivered
    BY <1>1, <2>2 DEF TakeWriteJob, NextJobReady
  <2>4. wjob'.seq = wseq
    BY <2>1, <2>3 DEF IInv, LocksMatchLists
  <2> QED BY <2>3, <2>4 DEF Count, DeliveredInOrder, Decoded
<1>2. CASE Emit
  <2>1. /\ wpc = "emit" /\ wpc' = "dropOut" /\ UNCHANGED <<wseq, wjob>>
        /\ delivered' = Append(delivered, [data  |-> out_mem[wjob.out],
                                           error |-> wjob.error])
    BY <1>2 DEF Emit
  <2>2. /\ [data |-> out_mem[wjob.out], error |-> wjob.error] = Decoded(wseq)
        /\ Len(delivered) = wseq
    BY <2>1 DEF OutData, Shows, Count
  <2>3. delivered' = Append(delivered, Decoded(wseq))
    BY <2>1, <2>2
  <2>4. /\ Len(delivered') = wseq + 1
        /\ \A i \in 1 .. wseq : delivered'[i] = delivered[i]
        /\ delivered'[wseq + 1] = Decoded(wseq)
    BY <1>t, <2>2, <2>3
  <2>5. \A i \in 1 .. wseq : delivered'[i] = Decoded(i - 1)
    BY <2>2, <2>4 DEF DeliveredInOrder
  <2>6. ASSUME NEW i \in 1 .. wseq + 1
        PROVE  delivered'[i] = Decoded(i - 1)
    <3>1. CASE i \in 1 .. wseq
      BY <2>5, <3>1
    <3>2. CASE i \notin 1 .. wseq
      <4>1. i = wseq + 1 /\ i - 1 = wseq
        BY <1>t, <3>2
      <4> QED BY <2>4, <4>1
    <3> QED BY <3>1, <3>2
  <2>7. \A i \in 1 .. Len(delivered') : delivered'[i] = Decoded(i - 1)
    BY <2>4, <2>6
  <2>8. DeliveredInOrder'
    BY <2>7 DEF DeliveredInOrder, Decoded
  <2> QED BY <2>1, <2>4, <2>8 DEF Count
<1>3. CASE DropOutSpace
  BY <1>3 DEF DropOutSpace, Count, DeliveredInOrder, Decoded
<1>4. CASE WriterExit
  BY <1>4 DEF WriterExit, Count, DeliveredInOrder, Decoded
<1> QED BY <1>1, <1>2, <1>3, <1>4 DEF WriteThread

(* Every step preserves DInv, given the other two.                         *)
LEMMA DNext == IInv /\ SInv /\ DInv /\ [Next]_vars => DInv'
<1> SUFFICES ASSUME IInv, SInv, DInv, [Next]_vars PROVE DInv'
  OBVIOUS
<1> USE DEF caller, lists, workers, writer, yarn, inPool, outPool
<1>s. ThreadState /\ InData /\ OutData /\ Count /\ DeliveredInOrder
  BY DEF SInv, DInv
<1>1. CASE Caller
  BY <1>1, <1>s, CallerInData, CallerOutData, CallerCount DEF DInv
<1>2. CASE WriteThread
  <2>1. UNCHANGED <<in_mem, mjob, decodeList, dpc, djob>>
    BY <1>2 DEF WriteThread, TakeWriteJob, Emit, DropOutSpace, WriterExit
  <2>2. InData'
    BY <1>s, <2>1, InDataSame DEF Reading
  <2> QED BY <1>2, <1>s, <2>2, WriterOutData, WriterCount DEF DInv
<1>3. ASSUME NEW w \in Workers, DecodeThread(w) PROVE DInv'
  <2>1. InData' /\ OutData'
    BY <1>3, <1>s, WorkerInData, WorkerOutData
  <2>2. UNCHANGED <<wpc, wseq, wjob, delivered>>
    BY <1>3 DEF DecodeThread, TakeJob, LeaveOnStop, GetOutSpace, DecodeFrame,
                DropInSpace, InsertJob
  <2> QED BY <1>s, <2>1, <2>2 DEF DInv, Count, DeliveredInOrder, Decoded
<1>4. CASE UNCHANGED vars
  BY <1>4, <1>s DEF vars, DInv, InData, OutData, Count, DeliveredInOrder,
     Shows, Decoded, Reading, HasResult
<1> QED BY <1>1, <1>2, <1>3, <1>4 DEF Next

(* Whatever order the decode threads finish in, the callbacks see frame 0, *)
(* 1, 2, ... once each, with its own samples and its own error             *)
(* (write_thread, dst_decoder.c:276-303).                                  *)
THEOREM Delivery == Spec => []DeliveredInOrder
<1>1. Init => SInv /\ DInv
  BY SInit, DInit
<1>2. IInv /\ SInv /\ DInv /\ [Next]_vars => SInv' /\ DInv'
  BY SNext, DNext
<1>3. DInv => DeliveredInOrder
  BY DEF DInv
<1> QED BY <1>1, <1>2, <1>3, Invariance, PTL DEF Spec

-----------------------------------------------------------------------------
(***************************************************************************)
(* No job of module DstDecoder is lost or made twice: the assertions of    *)
(* the code hold, and every step is a step of the ordered stream of module *)
(* FrameStream, for every number of threads, spaces and frames.            *)
(*                                                                         *)
(* The argument is about sequence numbers.  Each job that is on its way    *)
(* has a number that the caller has given out and the write thread has not *)
(* come to, no two have the same, and the last number is that of the job   *)
(* that ends the stream.  When the write thread takes that one, no number  *)
(* is left for another job, so all lists are empty; and a space that is    *)
(* not in the hands of a job is back in its free list.                     *)
(***************************************************************************)

(* The places where a job is on its way: the caller's hand, the decode     *)
(* list until the stop job replaces it, a decode thread's hand, and the    *)
(* write list.                                                             *)
Making  == mpc \in {"launch", "append"}
Queued  == mpc \notin {"joinAll", "free"}
Busy(w) == dpc[w] \in {"getOut", "decode", "dropIn", "insert"}
Writing == wpc \in {"emit", "dropOut"}

(* The caller has made the last job, and destroy has not returned.         *)
Closing ==
    \/ mpc \in {"joinWriter", "stop", "joinAll", "free"}
    \/ Making /\ ~mjob.more

(* The write thread has taken the last job.                                *)
Drained ==
    \/ wpc \in {"verify", "exited"}
    \/ mpc \in {"stop", "joinAll", "free"}

(* The least number that may still be on its way.                          *)
Oldest == IF Writing THEN wseq + 1 ELSE wseq

(* A job on its way: its number is in range, and it is the last job just   *)
(* when it has the last number of a stream that is closing.                *)
Pending(j) ==
    /\ Oldest <= j.seq
    /\ j.seq < sequence
    /\ j.more <=> ~(Closing /\ j.seq = sequence - 1)

AllPending ==
    /\ Making => Pending(mjob)
    /\ Queued => \A i \in DOMAIN decodeList : Pending(decodeList[i])
    /\ \A w \in Workers : Busy(w) => Pending(djob[w])
    /\ \A i \in DOMAIN writeList : Pending(writeList[i])
    /\ Writing => /\ wseq < sequence
                  /\ Closing => wseq # sequence - 1
    /\ wseq <= sequence

(* A number is in one place.                                               *)
OnePlace ==
    /\ Making => /\ \A i \in DOMAIN decodeList : decodeList[i].seq # mjob.seq
                 /\ \A w \in Workers : Busy(w) => djob[w].seq # mjob.seq
                 /\ \A i \in DOMAIN writeList : writeList[i].seq # mjob.seq
    /\ \A i \in DOMAIN decodeList :
           /\ \A k \in DOMAIN decodeList :
                  decodeList[i].seq = decodeList[k].seq => i = k
           /\ \A w \in Workers : Busy(w) => djob[w].seq # decodeList[i].seq
           /\ \A k \in DOMAIN writeList : writeList[k].seq # decodeList[i].seq
    /\ \A w \in Workers : Busy(w) =>
           /\ \A v \in Workers : Busy(v) /\ djob[v].seq = djob[w].seq => v = w
           /\ \A k \in DOMAIN writeList : writeList[k].seq # djob[w].seq
    /\ \A i, k \in DOMAIN writeList :
           writeList[i].seq = writeList[k].seq => i = k

(* How far the caller and the write thread are with each other.            *)
Stages ==
    /\ Drained => /\ mpc \in {"joinWriter", "stop", "joinAll", "free"}
                  /\ wseq = sequence
                  /\ Len(delivered) = sequence - 1
    /\ mpc \in {"idle", "stop", "joinAll", "free"} <=> wpc = "none"

(* The value of threads_lock is the number of threads that are done; the   *)
(* threads in yarn's list are those launched and not joined.               *)
ThreadsCounted ==
    /\ IsFiniteSet(exited) /\ threads_value = Cardinality(exited)
    /\ Writer \in threads <=> wpc # "none"
    /\ Queued => threads \ {Writer} = 1 .. cthreads
    /\ ~Queued => IsFiniteSet(threads) /\ caught + Cardinality(threads) = cthreads

(* Every space is free or named by a job.                                  *)
InKept ==
    \A s \in InSpaces :
        \/ \E i \in DOMAIN in_free : in_free[i] = s
        \/ mjob.in = s
        \/ \E i \in DOMAIN decodeList : decodeList[i].in = s
        \/ \E w \in Workers : Reading(w) /\ djob[w].in = s

OutKept ==
    \A s \in OutSpaces :
        \/ \E i \in DOMAIN out_free : out_free[i] = s
        \/ wjob.out = s
        \/ \E i \in DOMAIN writeList : writeList[i].out = s
        \/ \E w \in Workers : djob[w].out = s

(* Nothing is left of a decoder that was destroyed.                        *)
NothingThere ==
    mpc = "idle" => writeList = <<>> /\ in_mem = <<>> /\ out_mem = <<>>

NInv == AllPending /\ OnePlace
RInv == NInv /\ Stages /\ ThreadsCounted /\ InKept /\ OutKept /\ NothingThere
AllInv == IInv /\ SInv /\ DInv /\ RInv
-----------------------------------------------------------------------------
(* Nothing is on its way before the first decoder.                         *)
LEMMA RInit == Init => RInv
<1> SUFFICES ASSUME Init PROVE RInv
  OBVIOUS
<1>1. NInv
  BY DEF Init, NInv, AllPending, OnePlace, Making, Busy, Writing
<1>2. Stages /\ NothingThere
  BY DEF Init, Stages, Drained, NothingThere
<1>3. IsFiniteSet(exited) /\ threads_value = Cardinality(exited)
  BY FS_EmptySet DEF Init
<1>4. 1 .. cthreads = {}
  BY DEF Init
<1>5. ThreadsCounted
  BY <1>3, <1>4 DEF Init, ThreadsCounted, Queued
<1>6. InKept /\ OutKept
  BY DEF Init, InKept, OutKept, InSpaces, OutSpaces
<1> QED BY <1>1, <1>2, <1>5, <1>6 DEF RInv

(* Sequence numbers are integers, so the next one is a new one.            *)
LEMMA Numbers ==
    ASSUME IInv
    PROVE  /\ sequence \in Nat /\ wseq \in Nat
           /\ mjob \in Job /\ mjob.seq \in Int /\ mjob.more \in BOOLEAN
           /\ \A i \in DOMAIN decodeList :
                  decodeList[i] \in Job /\ decodeList[i].seq \in Int
           /\ \A w \in Workers : djob[w] \in Job /\ djob[w].seq \in Int
           /\ \A i \in DOMAIN writeList :
                  writeList[i] \in Job /\ writeList[i].seq \in Int
<1>1. /\ sequence \in Nat /\ wseq \in Nat /\ mjob \in Job
      /\ decodeList \in Seq(Job) /\ writeList \in Seq(Job)
      /\ djob \in [Workers -> Job]
  BY DEF IInv, TypeOK
<1>2. /\ \A i \in DOMAIN decodeList : decodeList[i] \in Job
      /\ \A i \in DOMAIN writeList : writeList[i] \in Job
      /\ \A w \in Workers : djob[w] \in Job
  BY <1>1, ElementOfSeq
<1>3. \A j \in Job : j.seq \in Int /\ j.more \in BOOLEAN
  BY DEF Job
<1> QED BY <1>1, <1>2, <1>3

(* Once the last job is taken there is no number left for another job, so  *)
(* there is no other job (dst_decoder.c:305-310).                          *)
LEMMA NothingLeft ==
    ASSUME IInv, AllPending, Stages, Drained
    PROVE  /\ ~Making
           /\ Queued => decodeList = <<>>
           /\ \A w \in Workers : ~Busy(w)
           /\ writeList = <<>>
<1>1. wseq = sequence /\ ~Writing
  BY DEF Stages, Drained, Writing
<1>2. ASSUME NEW j \in Job, Pending(j) PROVE FALSE
  <2>1. j.seq \in Int /\ sequence \in Nat
    BY Numbers DEF Job
  <2> QED BY <1>1, <1>2, <2>1 DEF Pending, Oldest
<1>3. ~Making
  BY DEF Stages, Making
<1>4. decodeList \in Seq(Job) /\ writeList \in Seq(Job)
  BY DEF IInv, TypeOK
<1>5. ASSUME NEW s \in Seq(Job), \A i \in DOMAIN s : Pending(s[i])
      PROVE  s = <<>>
  <2>1. s # <<>> => 1 \in DOMAIN s /\ s[1] \in Job
    BY TailAt
  <2> QED BY <1>2, <1>5, <2>1
<1>6. Queued => decodeList = <<>>
  BY <1>4, <1>5 DEF AllPending
<1>7. writeList = <<>>
  BY <1>4, <1>5 DEF AllPending
<1>8. \A w \in Workers : ~Busy(w)
  BY <1>2, Numbers DEF AllPending
<1> QED BY <1>3, <1>6, <1>7, <1>8

(* A step that moves no job but the one the caller holds or the write      *)
(* thread has.                                                             *)
LEMMA NumbersSame ==
    ASSUME NInv, sequence' = sequence, Oldest' = Oldest, Closing' <=> Closing,
           Writing' => Writing /\ wseq' = wseq, wseq' <= sequence,
           Making' => Making, mjob' = mjob,
           Queued' => Queued, decodeList' = decodeList, writeList' = writeList,
           \A w \in Workers :
               Busy(w)' => /\ Busy(w)
                           /\ djob'[w].seq = djob[w].seq
                           /\ djob'[w].more = djob[w].more
    PROVE  NInv'
<1>1. /\ Making' => mjob'.seq = mjob.seq /\ mjob'.more = mjob.more
      /\ AllPending /\ OnePlace
  BY DEF NInv
<1>2. AllPending'
  BY <1>1 DEF AllPending, Pending
<1>3. OnePlace'
  BY <1>1 DEF OnePlace
<1> QED BY <1>2, <1>3 DEF NInv

(* The caller gives out the next number, and queues jobs in order.         *)
LEMMA CallerNumbers ==
    IInv /\ SInv /\ NInv /\ Stages /\ NothingThere /\ Caller => NInv'
<1> SUFFICES ASSUME IInv, SInv, NInv, Stages, NothingThere, Caller
             PROVE  NInv'
  OBVIOUS
<1> USE DEF caller, lists, workers, writer, yarn, inPool, outPool
<1>n. AllPending /\ OnePlace /\ ThreadState
  BY DEF NInv, SInv
<1>t. /\ decodeList \in Seq(Job) /\ writeList \in Seq(Job)
      /\ sequence \in Nat /\ wseq \in Nat
  BY DEF IInv, TypeOK
<1>1. CASE dst_decoder_create
  <2>1. /\ decodeList' = <<>> /\ writeList' = <<>> /\ wpc' = "wait"
        /\ dpc' = dpc /\ mpc = "idle" /\ mpc' = "feed"
        /\ wseq' = 0 /\ sequence' = 0
    BY <1>1 DEF dst_decoder_create
  <2>2. \A w \in Workers : dpc[w] = "none"
    BY <2>1 DEF IInv, ThreadsListed
  <2> QED BY <2>1, <2>2 DEF NInv, AllPending, OnePlace, Making, Busy, Writing
<1>2. CASE DecodeGetSpace \/ FinishWriteJob
  <2>1. mjob'.seq = sequence
    <3>1. CASE DecodeGetSpace
      <4>1. PICK i : mjob' = [NoJob EXCEPT !.seq = sequence, !.more = TRUE,
                                           !.in = i]
        BY <3>1 DEF DecodeGetSpace
      <4> QED BY <4>1 DEF NoJob
    <3>2. CASE FinishWriteJob
      <4>1. mjob' = [NoJob EXCEPT !.seq = sequence]
        BY <3>2 DEF FinishWriteJob
      <4> QED BY <4>1 DEF NoJob
    <3> QED BY <1>2, <3>1, <3>2
  <2>2. /\ sequence' = sequence + 1 /\ mpc = "feed" /\ mpc' = "launch"
        /\ UNCHANGED <<decodeList, writeList, dpc, djob, wpc, wseq>>
    BY <1>2 DEF DecodeGetSpace, FinishWriteJob
  <2>3. ~Closing /\ ~Making /\ Queued /\ Oldest' = Oldest /\ ~Drained
    BY <2>2 DEF Closing, Making, Queued, Oldest, Writing, Stages, Drained
  <2>4. Oldest \in Int /\ Oldest <= sequence
    BY <1>n, <1>t DEF AllPending, Oldest
  <2>5. /\ Making' /\ Queued' /\ (Closing' <=> ~mjob'.more)
        /\ Writing' <=> Writing
        /\ \A w \in Workers : Busy(w)' <=> Busy(w)
    BY <2>2 DEF Making, Queued, Closing, Writing, Busy
  <2>6. Pending(mjob)'
    BY <1>t, <2>1, <2>2, <2>3, <2>4, <2>5 DEF Pending
  <2>7. ASSUME NEW j \in Job, Pending(j)
        PROVE  Pending(j)' /\ j.seq # sequence
    <3>1. j.seq \in Int /\ j.more
      BY <2>3, <2>7 DEF Job, Pending
    <3> QED BY <1>t, <2>2, <2>3, <2>7, <3>1 DEF Pending
  <2>8. AllPending'
    BY <1>n, <1>t, <2>2, <2>3, <2>5, <2>6, <2>7, Numbers DEF AllPending
  <2>9. OnePlace'
    BY <1>n, <2>1, <2>2, <2>3, <2>5, <2>7, Numbers DEF OnePlace, AllPending
  <2> QED BY <2>8, <2>9 DEF NInv
<1>3. CASE AppendJob
  <2>1. /\ decodeList' = Append(decodeList, mjob) /\ Making
        /\ mpc' = IF mjob.more THEN "feed" ELSE "joinWriter"
        /\ UNCHANGED <<sequence, writeList, dpc, djob, wpc, wseq>>
    BY <1>3 DEF AppendJob, Making
  <2>2. /\ ~Making' /\ Queued /\ (Closing' <=> Closing)
        /\ Oldest' = Oldest /\ (Writing' <=> Writing)
        /\ \A w \in Workers : Busy(w)' <=> Busy(w)
    BY <2>1 DEF Making, Queued, Closing, Oldest, Writing, Busy
  <2>3. \A i \in DOMAIN decodeList' :
            \/ i \in DOMAIN decodeList /\ decodeList'[i] = decodeList[i]
            \/ i = Len(decodeList) + 1 /\ decodeList'[i] = mjob
    BY <1>t, <2>1, Numbers, EndAt
  <2>4. \A j : Pending(j) => Pending(j)'
    BY <2>1, <2>2 DEF Pending
  <2>5. AllPending'
    BY <1>n, <2>1, <2>2, <2>3, <2>4 DEF AllPending
  <2>6. OnePlace'
    BY <1>n, <2>1, <2>2, <2>3 DEF OnePlace
  <2> QED BY <2>5, <2>6 DEF NInv
<1>4. CASE StopWorkers
  <2>1. /\ mpc = "stop" /\ mpc' = "joinAll" /\ decodeList' = <<StopJob>>
        /\ UNCHANGED <<sequence, writeList, dpc, djob, wpc, wseq>>
    BY <1>4 DEF StopWorkers
  <2>2. writeList' = <<>> /\ \A w \in Workers : ~Busy(w)'
    BY <1>n, <2>1, NothingLeft DEF Drained, Busy
  <2>3. ~Making' /\ ~Queued' /\ ~Writing'
    BY <2>1 DEF Making, Queued, Writing, Stages
  <2>4. \A i, k \in DOMAIN decodeList' : i = k
    BY <2>1
  <2>5. wseq' <= sequence'
    BY <1>n, <2>1 DEF AllPending
  <2> QED BY <2>2, <2>3, <2>4, <2>5 DEF NInv, AllPending, OnePlace
<1>5. CASE FreeDecoder
  <2>1. /\ mpc = "free" /\ mpc' = "idle" /\ decodeList' = <<>>
        /\ UNCHANGED <<sequence, writeList, dpc, djob, wpc, wseq>>
    BY <1>5 DEF FreeDecoder
  <2>2. writeList' = <<>> /\ \A w \in Workers : ~Busy(w)'
    BY <1>n, <2>1, NothingLeft DEF Drained, Busy
  <2>3. ~Making' /\ ~Writing'
    BY <2>1 DEF Making, Writing, Stages
  <2>4. wseq' <= sequence'
    BY <1>n, <2>1 DEF AllPending
  <2> QED BY <2>1, <2>2, <2>3, <2>4 DEF NInv, AllPending, OnePlace
<1>6. CASE LaunchIfNeeded
  <2>1. /\ mpc = "launch" /\ mpc' = "append"
        /\ UNCHANGED <<mjob, sequence, decodeList, writeList, djob, wpc, wseq>>
    BY <1>6 DEF LaunchIfNeeded
  <2>2. \A w \in Workers : Busy(w)' => Busy(w)
    BY <1>6, <1>n, LaunchStep DEF Busy
  <2>3. /\ Making /\ Queued /\ (Closing' <=> Closing) /\ Oldest' = Oldest
        /\ Writing' <=> Writing
    BY <2>1 DEF Making, Queued, Closing, Oldest, Writing
  <2> QED BY <1>n, <2>1, <2>2, <2>3, NumbersSame DEF AllPending
<1>7. CASE JoinWriter \/ JoinAllRound \/ JoinAllReturns
  <2>1. /\ mpc \in {"joinWriter", "joinAll"}
        /\ mpc' \in {"stop", "joinAll", "free"}
        /\ Queued' => Queued
        /\ UNCHANGED <<mjob, sequence, decodeList, writeList, djob, wseq>>
    BY <1>7 DEF JoinWriter, JoinAllRound, JoinAllReturns, Queued
  <2>2. /\ wpc' = wpc \/ (wpc = "exited" /\ wpc' = "none")
        /\ \A w \in Workers : Busy(w)' => Busy(w)
    <3>1. CASE JoinWriter
      <4>1. wpc = "exited"
        BY <1>n, <3>1 DEF JoinWriter, ThreadState
      <4> QED BY <3>1, <4>1 DEF JoinWriter, Busy
    <3>2. CASE JoinAllRound
      BY <1>n, <3>2, JoinStep DEF Busy
    <3>3. CASE JoinAllReturns
      BY <3>3 DEF JoinAllReturns, Busy
    <3> QED BY <1>7, <3>1, <3>2, <3>3
  <2>3. /\ Closing' /\ Closing /\ ~Making' /\ Oldest' = Oldest
        /\ Writing' <=> Writing
    BY <2>1, <2>2 DEF Closing, Making, Oldest, Writing
  <2> QED BY <1>n, <2>1, <2>2, <2>3, NumbersSame DEF AllPending
<1> QED BY <1>1, <1>2, <1>3, <1>4, <1>5, <1>6, <1>7 DEF Caller

(* Jobs keep their numbers from one place to the next.                     *)
LEMMA WorkerNumbers ==
    ASSUME NEW w \in Workers, IInv, NInv, DecodeThread(w)
    PROVE  NInv'
<1> USE DEF caller, lists, workers, writer, yarn, inPool, outPool
<1>n. AllPending /\ OnePlace
  BY DEF NInv
<1>t. /\ djob \in [Workers -> Job] /\ dpc \in [Workers -> WorkerPlaces]
      /\ decodeList \in Seq(Job) /\ writeList \in Seq(Job) /\ djob[w] \in Job
  BY DEF IInv, TypeOK
<1>v. /\ \A v \in Workers : v # w =>
             /\ djob'[v] = djob[v]
             /\ Busy(v)' <=> Busy(v)
      /\ UNCHANGED <<mpc, mjob, sequence, wpc, wseq>>
  <2>1. UNCHANGED <<sequence, wseq>>
    BY DEF DecodeThread, TakeJob, LeaveOnStop, GetOutSpace, DecodeFrame,
           DropInSpace, InsertJob
  <2> QED BY <2>1, WorkerStep DEF Busy
<1>u. /\ Making' <=> Making
      /\ Queued' <=> Queued
      /\ Closing' <=> Closing
      /\ Writing' <=> Writing
      /\ Oldest' = Oldest
  BY <1>v DEF Making, Queued, Closing, Writing, Oldest
<1>p. \A j : Pending(j) => Pending(j)'
  BY <1>u, <1>v DEF Pending
<1>1. ASSUME decodeList' = decodeList, writeList' = writeList,
             Busy(w)' => /\ Busy(w)
                         /\ djob'[w].seq = djob[w].seq
                         /\ djob'[w].more = djob[w].more
      PROVE  NInv'
  BY <1>1, <1>n, <1>u, <1>v, NumbersSame DEF AllPending
<1>2. CASE TakeJob(w)
  <2>1. decodeList # <<>> /\ Queued
    <3>1. decodeList # <<>>
      BY <1>2, DecodeListThere
    <3>2. Head(decodeList).seq # StopSeq
      BY <1>2 DEF TakeJob
    <3>3. decodeList # <<StopJob>>
      BY <3>2, NoJobFacts
    <3> QED BY <3>1, <3>3 DEF Queued, IInv, LocksMatchLists
  <2>2. /\ 1 \in DOMAIN decodeList /\ Head(decodeList) = decodeList[1]
        /\ \A i \in DOMAIN decodeList' :
               /\ i \in Nat /\ i + 1 \in DOMAIN decodeList /\ i + 1 # 1
               /\ decodeList'[i] = decodeList[i + 1]
    BY <1>2, <1>t, <2>1, TailAt DEF TakeJob
  <2>3. djob'[w] = decodeList[1] /\ ~Busy(w) /\ writeList' = writeList
    BY <1>2, <1>t, <2>2 DEF TakeJob, Busy
  <2>4. AllPending'
    BY <1>n, <1>p, <1>u, <1>v, <2>1, <2>2, <2>3 DEF AllPending
  <2>5. OnePlace'
    BY <1>n, <1>u, <1>v, <2>2, <2>3 DEF OnePlace
  <2> QED BY <2>4, <2>5 DEF NInv
<1>3. CASE LeaveOnStop(w)
  BY <1>1, <1>3, <1>t DEF LeaveOnStop, Busy
<1>4. CASE GetOutSpace(w)
  <2>1. PICK o : djob' = [djob EXCEPT ![w].out = o]
    BY <1>4 DEF GetOutSpace
  <2>2. djob'[w].seq = djob[w].seq /\ djob'[w].more = djob[w].more
    BY <1>t, <2>1 DEF Job
  <2> QED BY <1>1, <1>4, <2>2 DEF GetOutSpace, Busy
<1>5. CASE DecodeFrame(w)
  <2>1. djob'[w].seq = djob[w].seq /\ djob'[w].more = djob[w].more
    BY <1>5, <1>t DEF DecodeFrame, Job
  <2> QED BY <1>1, <1>5, <2>1 DEF DecodeFrame, Busy
<1>6. CASE DropInSpace(w)
  BY <1>1, <1>6, <1>t DEF DropInSpace, Busy
<1>7. CASE InsertJob(w)
  <2> DEFINE p == Place(writeList, djob[w].seq)
  <2>1. p \in 1 .. Len(writeList) + 1
    BY <1>t, PlaceLemma DEF Job
  <2>2. p \in Nat
    BY <1>t, <2>1
  <2>3. /\ writeList' = InsertAt(writeList, p, djob[w])
        /\ decodeList' = decodeList /\ Busy(w) /\ ~Busy(w)'
    BY <1>7, <1>t DEF InsertJob, Busy
  <2> HIDE DEF p
  <2>4. \A i \in DOMAIN writeList' :
            \/ i = p /\ writeList'[i] = djob[w]
            \/ i \in Nat /\ i < p /\ i \in DOMAIN writeList
                  /\ writeList'[i] = writeList[i]
            \/ i \in Nat /\ i > p /\ i - 1 \in DOMAIN writeList
                  /\ writeList'[i] = writeList[i - 1]
    BY <1>t, <2>1, <2>3, InsertedAt
  <2>5. AllPending'
    BY <1>n, <1>p, <1>u, <1>v, <2>3, <2>4 DEF AllPending
  <2>6. ASSUME NEW i \in DOMAIN writeList', NEW k \in DOMAIN writeList',
               writeList'[i].seq = writeList'[k].seq
        PROVE  i = k
    <3>1. \A l \in DOMAIN writeList : writeList[l].seq # djob[w].seq
      BY <1>n, <2>3 DEF OnePlace
    <3>2. CASE i = p \/ k = p
      BY <3>1, <3>2, <2>2, <2>4, <2>6
    <3>3. CASE i # p /\ k # p
      <4> DEFINE old(x) == IF x < p THEN x ELSE x - 1
      <4>1. /\ old(i) \in DOMAIN writeList /\ writeList'[i] = writeList[old(i)]
            /\ old(k) \in DOMAIN writeList /\ writeList'[k] = writeList[old(k)]
        BY <3>3, <2>2, <2>4
      <4>2. old(i) = old(k)
        BY <4>1, <2>6, <1>n DEF OnePlace
      <4>3. i \in Nat /\ k \in Nat
        BY <3>3, <2>4
      <4> QED BY <4>2, <4>3, <3>3, <2>2
    <3> QED BY <3>2, <3>3
  <2>7. \A i \in DOMAIN writeList' :
            \/ writeList'[i] = djob[w]
            \/ \E k \in DOMAIN writeList : writeList'[i] = writeList[k]
    BY <2>4
  <2>8. OnePlace'
    BY <1>n, <1>u, <1>v, <2>3, <2>6, <2>7 DEF OnePlace
  <2> QED BY <2>5, <2>8 DEF NInv
<1> QED BY <1>2, <1>3, <1>4, <1>5, <1>6, <1>7 DEF DecodeThread

(* The write thread takes the job with the least number of all: what is    *)
(* left has greater ones.                                                  *)
LEMMA WriterNumbers == IInv /\ NInv /\ WriteThread => NInv'
<1> SUFFICES ASSUME IInv, NInv, WriteThread PROVE NInv'
  OBVIOUS
<1> USE DEF caller, lists, workers, writer, yarn, inPool, outPool
<1>n. AllPending /\ OnePlace
  BY DEF NInv
<1>t. writeList \in Seq(Job) /\ wseq \in Nat /\ sequence \in Nat
  BY DEF IInv, TypeOK
<1>u. /\ UNCHANGED <<mpc, mjob, sequence, decodeList, dpc, djob>>
      /\ Making' <=> Making
      /\ Queued' <=> Queued
      /\ Closing' <=> Closing
      /\ \A w \in Workers : Busy(w)' <=> Busy(w)
  BY DEF WriteThread, TakeWriteJob, Emit, DropOutSpace, WriterExit, Making,
         Queued, Closing, Busy
<1>1. CASE TakeWriteJob
  <2>1. writeList # <<>>
    BY <1>1, WriteListThere
  <2>2. /\ 1 \in DOMAIN writeList /\ Head(writeList) = writeList[1]
        /\ \A i \in DOMAIN writeList' :
               /\ i \in Nat /\ i + 1 \in DOMAIN writeList /\ i + 1 # 1
               /\ writeList'[i] = writeList[i + 1]
    BY <1>1, <1>t, <2>1, TailAt DEF TakeWriteJob
  <2>3. /\ wpc = "wait" /\ write_first = wseq /\ wjob' = writeList[1]
        /\ wpc' = IF wjob'.more THEN "emit" ELSE "verify"
        /\ wseq' = IF wjob'.more THEN wseq ELSE wseq + 1
    BY <1>1, <2>2 DEF TakeWriteJob, NextJobReady
  <2>4. writeList[1].seq = wseq
    BY <2>1, <2>3 DEF IInv, LocksMatchLists
  <2>5. Oldest = wseq /\ Oldest' = wseq + 1
    BY <2>3 DEF Oldest, Writing
  <2>6. Pending(writeList[1])
    BY <1>n, <2>2 DEF AllPending
  <2>7. ASSUME NEW j \in Job, Pending(j), j.seq # wseq PROVE Pending(j)'
    <3>1. j.seq \in Int
      BY DEF Job
    <3> QED BY <1>t, <1>u, <2>5, <2>7, <3>1 DEF Pending
  <2>8. /\ Making => mjob.seq # wseq
        /\ \A i \in DOMAIN decodeList : decodeList[i].seq # wseq
        /\ \A w \in Workers : Busy(w) => djob[w].seq # wseq
        /\ \A i \in DOMAIN writeList' : writeList'[i].seq # wseq
    BY <1>n, <2>2, <2>4 DEF OnePlace
  <2>9. /\ Making => Pending(mjob)'
        /\ Queued => \A i \in DOMAIN decodeList : Pending(decodeList[i])'
        /\ \A w \in Workers : Busy(w) => Pending(djob[w])'
    BY <1>n, <1>u, <2>7, <2>8, Numbers DEF AllPending
  <2>10. (\A i \in DOMAIN writeList : Pending(writeList[i]))'
    <3> SUFFICES ASSUME NEW i \in DOMAIN writeList'
                 PROVE  Pending(writeList[i])'
      OBVIOUS
    <3>1. PICK j \in Job : j = writeList'[i] /\ Pending(j) /\ j.seq # wseq
      BY <1>n, <2>2, <2>8, Numbers DEF AllPending
    <3>2. Pending(j)'
      BY <2>7, <3>1
    <3> QED BY <3>1, <3>2 DEF Pending
  <2>11. /\ Writing' => wseq' < sequence'
         /\ Writing' /\ Closing' => wseq' # sequence' - 1
         /\ wseq' <= sequence'
    BY <1>t, <1>u, <2>3, <2>4, <2>6 DEF Pending, Writing
  <2>12. AllPending'
    BY <1>u, <2>9, <2>10, <2>11 DEF AllPending
  <2>13. OnePlace'
    BY <1>n, <1>u, <2>2 DEF OnePlace
  <2> QED BY <2>12, <2>13 DEF NInv
<1>2. CASE Emit
  <2>1. Oldest' = Oldest /\ Writing' /\ Writing /\ UNCHANGED <<writeList, wseq>>
    BY <1>2 DEF Emit, Oldest, Writing
  <2> QED BY <1>n, <1>u, <2>1, NumbersSame DEF AllPending
<1>3. CASE DropOutSpace
  <2>1. /\ Oldest' = Oldest /\ Writing /\ ~Writing' /\ writeList' = writeList
        /\ wseq' = wseq + 1
    BY <1>3 DEF DropOutSpace, Oldest, Writing
  <2>2. wseq' <= sequence'
    BY <1>n, <1>t, <1>u, <2>1 DEF AllPending
  <2> QED BY <1>n, <1>u, <2>1, <2>2, NumbersSame
<1>4. CASE WriterExit
  <2>1. Oldest' = Oldest /\ ~Writing' /\ UNCHANGED <<writeList, wseq>>
    BY <1>4 DEF WriterExit, Oldest, Writing
  <2> QED BY <1>n, <1>u, <2>1, NumbersSame DEF AllPending
<1> QED BY <1>1, <1>2, <1>3, <1>4 DEF WriteThread
-----------------------------------------------------------------------------
(* The caller goes on when the write thread has ended, and frees the       *)
(* decoder when nothing is left.                                           *)
LEMMA CallerStages ==
    IInv /\ ThreadState /\ AllPending /\ Stages /\ NothingThere /\ Caller
        => Stages' /\ NothingThere'
<1> SUFFICES ASSUME IInv, ThreadState, AllPending, Stages, NothingThere, Caller
             PROVE  Stages' /\ NothingThere'
  OBVIOUS
<1> USE DEF caller, lists, workers, writer, yarn, inPool, outPool
<1>1. CASE dst_decoder_create
  BY <1>1 DEF dst_decoder_create, Stages, Drained, NothingThere
<1>2. CASE DecodeGetSpace \/ FinishWriteJob \/ LaunchIfNeeded
  <2>1. /\ mpc \in {"feed", "launch"} /\ mpc' \in {"launch", "append"}
        /\ wpc' = wpc
    BY <1>2 DEF DecodeGetSpace, FinishWriteJob, LaunchIfNeeded
  <2> QED BY <2>1 DEF Stages, Drained, NothingThere
<1>3. CASE AppendJob
  BY <1>3 DEF AppendJob, Stages, Drained, NothingThere
<1>4. CASE JoinWriter
  <2>1. wpc = "exited"
    BY <1>4 DEF JoinWriter, ThreadState
  <2> QED BY <1>4, <2>1 DEF JoinWriter, Stages, Drained, NothingThere
<1>5. CASE StopWorkers \/ JoinAllRound \/ JoinAllReturns
  <2>1. /\ mpc \in {"stop", "joinAll"} /\ mpc' \in {"joinAll", "free"}
        /\ UNCHANGED <<wseq, sequence, delivered>>
        /\ wpc' = wpc \/ wpc' = "none"
    BY <1>5 DEF StopWorkers, JoinAllRound, JoinAllReturns
  <2> QED BY <2>1 DEF Stages, Drained, NothingThere
<1>6. CASE FreeDecoder
  <2>1. /\ mpc = "free" /\ mpc' = "idle" /\ wpc' = wpc
        /\ writeList' = writeList /\ in_mem' = <<>> /\ out_mem' = <<>>
    BY <1>6 DEF FreeDecoder
  <2>2. writeList = <<>>
    BY <2>1, NothingLeft DEF Drained
  <2> QED BY <2>1, <2>2 DEF Stages, Drained, NothingThere
<1> QED BY <1>1, <1>2, <1>3, <1>4, <1>5, <1>6 DEF Caller

(* The write thread ends after the last number.                            *)
LEMMA WriterStages ==
    IInv /\ NInv /\ Count /\ Stages /\ NothingThere /\ WriteThread
        => Stages' /\ NothingThere'
<1> SUFFICES ASSUME IInv, NInv, Count, Stages, NothingThere, WriteThread
             PROVE  Stages' /\ NothingThere'
  OBVIOUS
<1> USE DEF caller, lists, workers, writer, yarn, inPool, outPool
<1>n. AllPending /\ OnePlace
  BY DEF NInv
<1>t. /\ writeList \in Seq(Job) /\ wseq \in Nat /\ sequence \in Nat
      /\ mpc \in CallerPlaces
  BY DEF IInv, TypeOK
<1>u. /\ UNCHANGED <<mpc, mjob, sequence>>
      /\ wpc # "none" /\ mpc \notin {"idle", "stop", "joinAll", "free"}
  BY DEF WriteThread, TakeWriteJob, Emit, DropOutSpace, WriterExit, Stages
<1>1. CASE TakeWriteJob
  <2>1. writeList # <<>>
    BY <1>1, WriteListThere
  <2>2. 1 \in DOMAIN writeList /\ Head(writeList) = writeList[1]
    BY <1>t, <2>1, TailAt
  <2>3. /\ wpc = "wait" /\ write_first = wseq /\ wjob' = writeList[1]
        /\ wpc' = IF wjob'.more THEN "emit" ELSE "verify"
        /\ wseq' = IF wjob'.more THEN wseq ELSE wseq + 1
        /\ delivered' = delivered
    BY <1>1, <2>2 DEF TakeWriteJob, NextJobReady
  <2>4. writeList[1].seq = wseq /\ Len(delivered) = wseq
    BY <2>1, <2>3 DEF IInv, LocksMatchLists, Count
  <2>5. Pending(writeList[1])
    BY <1>n, <2>2 DEF AllPending
  <2>6. CASE writeList[1].more
    BY <1>u, <2>3, <2>6 DEF Stages, Drained, NothingThere
  <2>7. CASE ~writeList[1].more
    <3>1. Closing /\ wseq = sequence - 1
      BY <2>4, <2>5, <2>7 DEF Pending
    <3>2. ~Making
      <4>1. Making => ~mjob.more
        BY <3>1 DEF Closing, Making
      <4>2. Making => mjob.seq = sequence - 1
        BY <1>n, <4>1 DEF AllPending, Pending
      <4>3. Making => mjob.seq # writeList[1].seq
        BY <1>n, <2>2 DEF OnePlace
      <4> QED BY <2>4, <3>1, <4>2, <4>3
    <3>3. mpc = "joinWriter"
      BY <1>u, <3>1, <3>2 DEF Closing
    <3>4. wseq' = sequence /\ Len(delivered) = sequence - 1 /\ wpc' = "verify"
      BY <1>t, <2>3, <2>4, <2>7, <3>1
    <3> QED BY <1>u, <2>3, <3>3, <3>4 DEF Stages, Drained, NothingThere
  <2> QED BY <2>6, <2>7
<1>2. CASE Emit \/ DropOutSpace
  <2>1. wpc \in {"emit", "dropOut"} /\ wpc' \in {"dropOut", "wait"}
    BY <1>2 DEF Emit, DropOutSpace
  <2> QED BY <1>u, <2>1 DEF Stages, Drained, NothingThere
<1>3. CASE WriterExit
  BY <1>3, <1>u DEF WriterExit, Stages, Drained, NothingThere
<1> QED BY <1>1, <1>2, <1>3 DEF WriteThread

(* Decode threads leave this to them.                                      *)
LEMMA WorkerStages ==
    ASSUME NEW w \in Workers, IInv, Stages, NothingThere, DecodeThread(w)
    PROVE  Stages' /\ NothingThere'
<1> USE DEF caller, lists, workers, writer, yarn, inPool, outPool
<1>1. /\ UNCHANGED <<mpc, wpc>> /\ mpc # "idle"
  BY WorkerStep
<1>2. UNCHANGED <<wseq, sequence, delivered>>
  BY DEF DecodeThread, TakeJob, LeaveOnStop, GetOutSpace, DecodeFrame,
         DropInSpace, InsertJob
<1> QED BY <1>1, <1>2 DEF Stages, Drained, NothingThere
-----------------------------------------------------------------------------
(* Launching, ending and joining keep the counts (yarn.c:144-168, 226-250, *)
(* 329-353).                                                               *)
LEMMA ThreadsCountedNext ==
    IInv /\ ThreadState /\ Stages /\ ThreadsCounted /\ [Next]_vars
        => ThreadsCounted'
<1> SUFFICES ASSUME IInv, ThreadState, Stages, ThreadsCounted, [Next]_vars
             PROVE  ThreadsCounted'
  OBVIOUS
<1> USE DecoderAssumption
    DEF caller, lists, workers, writer, yarn, inPool, outPool
<1>t. /\ exited \subseteq threads /\ threads \subseteq Workers \cup {Writer}
      /\ threads_value \in Int /\ cthreads \in 0 .. Procs /\ caught \in Nat
      /\ Writer \notin Workers /\ mpc \in CallerPlaces
  BY DEF IInv, TypeOK, Workers, Writer
<1>c. /\ IsFiniteSet(exited) /\ threads_value = Cardinality(exited)
      /\ Cardinality(exited) \in Nat
  BY FS_CardinalityType DEF ThreadsCounted
<1>1. CASE dst_decoder_create
  <2>1. /\ mpc = "idle" /\ mpc' = "feed" /\ cthreads' = 0 /\ wpc' = "wait"
        /\ threads' = threads \cup {Writer}
        /\ UNCHANGED <<exited, threads_value>>
    BY <1>1 DEF dst_decoder_create
  <2>2. threads = {}
    BY <2>1 DEF IInv, ThreadsListed
  <2>3. threads' \ {Writer} = 1 .. cthreads'
    <3>1. 1 .. cthreads' = {}
      BY <2>1
    <3> QED BY <2>1, <2>2, <3>1
  <2> QED BY <1>c, <2>1, <2>3 DEF ThreadsCounted, Queued
<1>2. CASE DecodeGetSpace \/ FinishWriteJob \/ AppendJob
  <2>1. /\ UNCHANGED <<threads, exited, threads_value, cthreads, wpc>>
        /\ Queued /\ Queued'
    BY <1>2 DEF DecodeGetSpace, FinishWriteJob, AppendJob, Queued
  <2> QED BY <2>1 DEF ThreadsCounted
<1>3. CASE LaunchIfNeeded
  <2>1. /\ UNCHANGED <<exited, threads_value, wpc>> /\ Queued /\ Queued'
    BY <1>3 DEF LaunchIfNeeded, Queued
  <2>2. CASE ~MayLaunch
    BY <1>3, <2>1, <2>2 DEF LaunchIfNeeded, ThreadsCounted
  <2>3. CASE MayLaunch
    <3>1. /\ cthreads' = cthreads + 1 /\ threads' = threads \cup {cthreads + 1}
          /\ cthreads + 1 \in Workers
      BY <1>3, <1>t, <2>3 DEF LaunchIfNeeded, MayLaunch, Workers
    <3>2. 1 .. cthreads' = 1 .. cthreads \cup {cthreads + 1}
      BY <1>t, <3>1
    <3>3. threads' \ {Writer} = 1 .. cthreads'
      BY <1>t, <2>1, <3>1, <3>2 DEF ThreadsCounted
    <3> QED BY <1>t, <2>1, <3>1, <3>3 DEF ThreadsCounted
  <2> QED BY <2>2, <2>3
<1>4. CASE JoinWriter
  <2>1. /\ mpc = "joinWriter" /\ mpc' = "stop" /\ Writer \in exited
        /\ threads' = threads \ {Writer} /\ exited' = exited \ {Writer}
        /\ threads_value' = threads_value - 1 /\ wpc' = "none"
        /\ cthreads' = cthreads
    BY <1>4 DEF JoinWriter
  <2>2. IsFiniteSet(exited') /\ threads_value' = Cardinality(exited')
    BY <1>c, <2>1, FS_RemoveElement
  <2> QED BY <2>1, <2>2 DEF ThreadsCounted, Queued
<1>5. CASE StopWorkers
  <2>1. /\ mpc = "stop" /\ mpc' = "joinAll" /\ caught' = 0
        /\ UNCHANGED <<threads, exited, threads_value, cthreads, wpc>>
    BY <1>5 DEF StopWorkers
  <2>2. threads = 1 .. cthreads
    <3>1. Writer \notin threads /\ threads \ {Writer} = 1 .. cthreads
      BY <2>1 DEF ThreadsCounted, Stages, Queued
    <3> QED BY <3>1
  <2>3. /\ IsFiniteSet(1 .. cthreads)
        /\ \A n \in Nat : Cardinality(1 .. n) = n
    BY FS_Interval, <1>t
  <2>4. IsFiniteSet(threads) /\ Cardinality(threads) = cthreads
    BY <1>t, <2>2, <2>3
  <2>5. caught' + Cardinality(threads') = cthreads'
    BY <1>t, <2>1, <2>4
  <2> QED BY <2>1, <2>4, <2>5 DEF ThreadsCounted, Queued
<1>6. CASE JoinAllRound
  <2>1. PICK t \in threads \cap exited :
          /\ threads' = threads \ {t} /\ exited' = exited \ {t}
          /\ mpc = "joinAll" /\ mpc' = "joinAll"
          /\ threads_value' = threads_value - 1
          /\ caught' = caught + 1 /\ cthreads' = cthreads
          /\ wpc' = IF t = Writer THEN "none" ELSE wpc
    BY <1>6 DEF JoinAllRound
  <2>2. wpc = "none" /\ Writer \notin threads
    BY <2>1 DEF Stages, ThreadsCounted
  <2>3. IsFiniteSet(exited') /\ threads_value' = Cardinality(exited')
    BY <1>c, <2>1, FS_RemoveElement
  <2>4. /\ IsFiniteSet(threads') /\ Cardinality(threads') = Cardinality(threads) - 1
        /\ Cardinality(threads) \in Nat
    BY <2>1, FS_RemoveElement, FS_CardinalityType DEF ThreadsCounted, Queued
  <2>5. caught' + Cardinality(threads') = cthreads'
    BY <1>t, <2>1, <2>4 DEF ThreadsCounted, Queued
  <2> QED BY <2>1, <2>2, <2>3, <2>4, <2>5 DEF ThreadsCounted, Queued
<1>7. CASE JoinAllReturns \/ FreeDecoder
  <2>1. /\ UNCHANGED <<threads, exited, threads_value, caught, wpc>>
        /\ mpc \in {"joinAll", "free"}
        /\ \/ mpc' = "free" /\ cthreads' = cthreads
           \/ mpc' = "idle" /\ cthreads' = 0
    BY <1>7 DEF JoinAllReturns, FreeDecoder
  <2>2. mpc' = "idle" => threads = {} /\ 1 .. cthreads' = {}
    BY <1>7, <2>1 DEF JoinAllReturns, FreeDecoder, IInv, ThreadsListed
  <2> QED BY <2>1, <2>2 DEF ThreadsCounted, Queued
<1>8. CASE WriterExit
  <2>1. /\ wpc = "verify" /\ wpc' = "exited"
        /\ exited' = exited \cup {Writer}
        /\ threads_value' = threads_value + 1
        /\ UNCHANGED <<mpc, threads, cthreads, caught>>
    BY <1>8 DEF WriterExit
  <2>2. Writer \notin exited
    BY <2>1 DEF ThreadState
  <2>3. IsFiniteSet(exited') /\ threads_value' = Cardinality(exited')
    BY <1>c, <2>1, <2>2, FS_AddElement
  <2> QED BY <2>1, <2>3 DEF ThreadsCounted, Queued
<1>9. CASE TakeWriteJob \/ Emit \/ DropOutSpace
  <2>1. /\ UNCHANGED <<threads, exited, threads_value, cthreads, caught, mpc>>
        /\ wpc # "none" /\ wpc' # "none"
    BY <1>9 DEF TakeWriteJob, Emit, DropOutSpace
  <2> QED BY <2>1 DEF ThreadsCounted, Queued
<1>10. ASSUME NEW w \in Workers, LeaveOnStop(w) PROVE ThreadsCounted'
  <2>1. /\ dpc[w] = "look" /\ exited' = exited \cup {w}
        /\ threads_value' = threads_value + 1
        /\ UNCHANGED <<mpc, threads, cthreads, caught, wpc>>
    BY <1>10 DEF LeaveOnStop
  <2>2. w \notin exited
    BY <2>1 DEF ThreadState
  <2>3. IsFiniteSet(exited') /\ threads_value' = Cardinality(exited')
    BY <1>c, <2>1, <2>2, FS_AddElement
  <2> QED BY <2>1, <2>3 DEF ThreadsCounted, Queued
<1>11. ASSUME NEW w \in Workers, DecodeThread(w), ~LeaveOnStop(w)
       PROVE  ThreadsCounted'
  <2>1. UNCHANGED <<threads, exited, threads_value, cthreads, caught, mpc, wpc>>
    BY <1>11 DEF DecodeThread, TakeJob, GetOutSpace, DecodeFrame, DropInSpace,
                 InsertJob
  <2> QED BY <2>1 DEF ThreadsCounted, Queued
<1>12. CASE UNCHANGED vars
  BY <1>12 DEF vars, ThreadsCounted, Queued
<1> QED BY <1>1, <1>2, <1>3, <1>4, <1>5, <1>6, <1>7, <1>8, <1>9, <1>10, <1>11,
           <1>12 DEF Next, Caller, WriteThread
-----------------------------------------------------------------------------
(* A list has an element.                                                  *)
Has(list, e) == \E k \in DOMAIN list : list[k] = e

(* No element of a list is lost when its head is taken, when one is put in *)
(* front or at the end, and when one is inserted.                          *)
LEMMA TailKeeps ==
    ASSUME NEW S, NEW s \in Seq(S), s # <<>>
    PROVE  \A i \in DOMAIN s :
               s[i] = Head(s) \/ Has(Tail(s), s[i])
<1>1. /\ Head(s) = s[1] /\ Tail(s) \in Seq(S) /\ Len(Tail(s)) = Len(s) - 1
      /\ \A i \in 1 .. Len(Tail(s)) : Tail(s)[i] = s[i + 1]
  BY HeadTailProperties
<1>2. ASSUME NEW i \in DOMAIN s, i # 1
      PROVE  i - 1 \in DOMAIN Tail(s) /\ Tail(s)[i - 1] = s[i]
  <2>1. i \in 1 .. Len(s) /\ Len(s) \in Nat
    OBVIOUS
  <2>2. i - 1 \in 1 .. Len(Tail(s)) /\ (i - 1) + 1 = i
    BY <1>1, <1>2, <2>1
  <2> QED BY <1>1, <2>2
<1> QED BY <1>1, <1>2 DEF Has

LEMMA FrontKeeps ==
    ASSUME NEW S, NEW s \in Seq(S), NEW e \in S
    PROVE  /\ Has(<<e>> \o s, e)
           /\ \A i \in DOMAIN s : Has(<<e>> \o s, s[i])
<1> DEFINE o == <<e>>
<1>1. o \in Seq(S) /\ Len(o) = 1 /\ o[1] = e
  OBVIOUS
<1> HIDE DEF o
<1>2. /\ o \o s \in Seq(S) /\ Len(o \o s) = 1 + Len(s)
      /\ \A i \in 1 .. 1 + Len(s) :
             (o \o s)[i] = IF i <= 1 THEN o[i] ELSE s[i - 1]
  BY <1>1 DEF o
<1>3. /\ DOMAIN (o \o s) = 1 .. 1 + Len(s) /\ DOMAIN s = 1 .. Len(s)
      /\ Len(s) \in Nat
  BY <1>2
<1>4. 1 \in DOMAIN (o \o s) /\ (o \o s)[1] = e
  BY <1>1, <1>2, <1>3
<1>5. ASSUME NEW i \in DOMAIN s
      PROVE  i + 1 \in DOMAIN (o \o s) /\ (o \o s)[i + 1] = s[i]
  <2>1. i + 1 \in 1 .. 1 + Len(s) /\ ~(i + 1 <= 1) /\ (i + 1) - 1 = i
    BY <1>3
  <2> QED BY <1>2, <1>3, <2>1
<1>6. /\ \E k \in DOMAIN (o \o s) : (o \o s)[k] = e
      /\ \A i \in DOMAIN s : \E k \in DOMAIN (o \o s) : (o \o s)[k] = s[i]
  BY <1>4, <1>5
<1> QED BY <1>6 DEF o, Has

LEMMA EndKeeps ==
    ASSUME NEW S, NEW s \in Seq(S), NEW e \in S
    PROVE  /\ Has(Append(s, e), e)
           /\ \A i \in DOMAIN s : Has(Append(s, e), s[i])
<1>1. /\ Len(s) + 1 \in DOMAIN Append(s, e) /\ Append(s, e)[Len(s) + 1] = e
      /\ \A i \in DOMAIN s :
             i \in DOMAIN Append(s, e) /\ Append(s, e)[i] = s[i]
  OBVIOUS
<1> QED BY <1>1 DEF Has

LEMMA InsertKeeps ==
    ASSUME NEW S, NEW s \in Seq(S), NEW e \in S, NEW p \in 1 .. Len(s) + 1
    PROVE  /\ Has(InsertAt(s, p, e), e)
           /\ \A i \in DOMAIN s : Has(InsertAt(s, p, e), s[i])
<1> DEFINE t == InsertAt(s, p, e)
<1>1. /\ t \in Seq(S) /\ Len(t) = Len(s) + 1
      /\ \A i \in 1 .. Len(s) + 1 :
             t[i] = IF i < p THEN s[i] ELSE IF i = p THEN e ELSE s[i - 1]
  <2>1. t \in Seq(S) /\ IsInsertion(t, s, p, e)
    BY InsertAtLemma
  <2> QED BY <2>1 DEF IsInsertion
<1> HIDE DEF t
<1>2. /\ DOMAIN t = 1 .. Len(s) + 1 /\ DOMAIN s = 1 .. Len(s)
      /\ Len(s) \in Nat
  BY <1>1
<1>3. p \in DOMAIN t /\ t[p] = e
  BY <1>1, <1>2
<1>4. ASSUME NEW i \in DOMAIN s PROVE \E k \in DOMAIN t : t[k] = s[i]
  <2>1. CASE i < p
    <3>1. i \in DOMAIN t /\ t[i] = s[i]
      BY <1>1, <1>2, <2>1
    <3> QED BY <3>1
  <2>2. CASE ~(i < p)
    <3>1. /\ i + 1 \in 1 .. Len(s) + 1 /\ ~(i + 1 < p) /\ i + 1 # p
          /\ (i + 1) - 1 = i
      BY <1>2, <2>2
    <3>2. i + 1 \in DOMAIN t /\ t[i + 1] = s[i]
      BY <1>1, <1>2, <3>1
    <3> QED BY <3>2
  <2> QED BY <2>1, <2>2
<1>5. /\ \E k \in DOMAIN t : t[k] = e
      /\ \A i \in DOMAIN s : \E k \in DOMAIN t : t[k] = s[i]
  BY <1>3, <1>4
<1> QED BY <1>5 DEF t, Has
-----------------------------------------------------------------------------
(* A step that moves no input job loses no input space.                    *)
LEMMA InKeptSame ==
    ASSUME InKept, InSpaces' = InSpaces, in_free' = in_free,
           mjob'.in = mjob.in, decodeList' = decodeList,
           \A w \in Workers :
               Reading(w) => Reading(w)' /\ djob'[w].in = djob[w].in
    PROVE  InKept'
  BY DEF InKept, Has

(* Nor does one of the caller, who names the space it takes off the list.  *)
LEMMA CallerInKept ==
    IInv /\ SInv /\ AllPending /\ Stages /\ NothingThere /\ InKept /\ Caller
        => InKept'
<1> SUFFICES ASSUME IInv, SInv, AllPending, Stages, NothingThere, InKept, Caller
             PROVE  InKept'
  OBVIOUS
<1> USE DEF caller, lists, workers, writer, yarn, inPool, outPool
<1>t. /\ in_free \in Seq(Nat) /\ in_mem \in Seq(Sample) /\ sequence \in Nat
      /\ decodeList \in Seq(Job) /\ mjob \in Job
  BY DEF IInv, TypeOK
<1>s. ThreadState
  BY DEF SInv
<1>n. None \notin InSpaces
  BY DEF InSpaces, None
<1>1. CASE dst_decoder_create \/ FreeDecoder
  <2>1. in_mem' = <<>>
    BY <1>1 DEF dst_decoder_create, FreeDecoder, NothingThere
  <2> QED BY <2>1 DEF InKept, InSpaces
<1>2. CASE DecodeGetSpace
  <2>u. /\ decodeList' = decodeList /\ dpc' = dpc /\ djob' = djob
        /\ mjob.in = None
    BY <1>2, NoJobShape DEF DecodeGetSpace, IInv, InSpacesExist
  <2>1. CASE in_free # <<>>
    <3>1. /\ in_free' = Tail(in_free)
          /\ in_mem' = [in_mem EXCEPT ![Head(in_free)] = sequence]
          /\ mjob' = [NoJob EXCEPT !.seq = sequence, !.more = TRUE,
                                   !.in = Head(in_free)]
      BY <1>2, <2>1 DEF DecodeGetSpace, Unlinked
    <3>2. mjob'.in = Head(in_free)
      BY <3>1 DEF NoJob
    <3>3. Len(in_mem') = Len(in_mem)
      <4>1. Head(in_free) \in 1 .. Len(in_mem)
        BY <1>t, <2>1, TailAt DEF IInv, InSpacesExist, InSpaces
      <4>2. sequence \in Sample
        BY <1>t DEF Sample
      <4> QED BY <1>t, <3>1, <4>1, <4>2, ExceptSeq
    <3>4. \A i \in DOMAIN in_free : in_free[i] = mjob'.in \/ Has(in_free', in_free[i])
      BY <1>t, <2>1, <3>1, <3>2, TailKeeps
    <3>5. InSpaces' = InSpaces
      BY <3>3 DEF InSpaces
    <3> QED BY <1>n, <2>u, <3>4, <3>5 DEF InKept, Reading, Has
  <2>2. CASE in_free = <<>>
    <3>1. /\ in_mem' = Append(in_mem, sequence) /\ in_free' = in_free
          /\ mjob' = [NoJob EXCEPT !.seq = sequence, !.more = TRUE,
                                   !.in = Len(in_mem) + 1]
      BY <1>2, <2>2 DEF DecodeGetSpace
    <3>2. mjob'.in = Len(in_mem) + 1
      BY <3>1 DEF NoJob
    <3>3. \A s \in InSpaces' : s \in InSpaces \/ s = mjob'.in
      BY <1>t, <3>1, <3>2 DEF InSpaces
    <3> QED BY <1>n, <2>u, <3>1, <3>3 DEF InKept, Reading, Has
  <2> QED BY <2>1, <2>2
<1>3. CASE FinishWriteJob
  <2>1. /\ mjob' = [NoJob EXCEPT !.seq = sequence]
        /\ mjob.in = None
        /\ UNCHANGED <<in_mem, in_free, decodeList, dpc, djob>>
    BY <1>3, NoJobShape DEF FinishWriteJob, IInv, InSpacesExist
  <2>2. mjob'.in = None
    BY <2>1 DEF NoJob
  <2> QED BY <2>1, <2>2, InKeptSame DEF Reading, InSpaces
<1>4. CASE AppendJob
  <2>1. /\ decodeList' = Append(decodeList, mjob) /\ mjob' = NoJob
        /\ UNCHANGED <<in_mem, in_free, dpc, djob>>
    BY <1>4 DEF AppendJob
  <2>2. /\ Has(decodeList', mjob)
        /\ \A i \in DOMAIN decodeList : Has(decodeList', decodeList[i])
    BY <1>t, <2>1, EndKeeps
  <2>3. InSpaces' = InSpaces
    BY <2>1 DEF InSpaces
  <2> QED BY <2>1, <2>2, <2>3 DEF InKept, Reading, Has
<1>5. CASE StopWorkers
  <2>1. decodeList = <<>>
    BY <1>5, NothingLeft DEF StopWorkers, Drained, Queued
  <2>2. UNCHANGED <<in_mem, in_free, mjob, dpc, djob>>
    BY <1>5 DEF StopWorkers
  <2> QED BY <2>1, <2>2 DEF InKept, InSpaces, Reading
<1>6. CASE LaunchIfNeeded
  <2>1. \A w \in Workers : Reading(w) => Reading(w)'
    BY <1>6, <1>s, LaunchStep DEF Reading
  <2> QED BY <1>6, <2>1, InKeptSame DEF LaunchIfNeeded, InSpaces
<1>7. CASE JoinAllRound
  <2>1. \A w \in Workers : Reading(w) => Reading(w)'
    BY <1>7, <1>s, JoinStep DEF Reading
  <2> QED BY <1>7, <2>1, InKeptSame DEF JoinAllRound, InSpaces
<1>8. CASE JoinWriter \/ JoinAllReturns
  BY <1>8, InKeptSame DEF JoinWriter, JoinAllReturns, InSpaces, Reading
<1> QED BY <1>1, <1>2, <1>3, <1>4, <1>5, <1>6, <1>7, <1>8 DEF Caller

(* A decode thread hands its input space to the free list, and only then   *)
(* stops reading.                                                          *)
LEMMA WorkerInKept ==
    ASSUME NEW w \in Workers, IInv, SInv, InKept, DecodeThread(w)
    PROVE  InKept'
<1> USE DEF caller, lists, workers, writer, yarn, inPool, outPool
<1>t. /\ djob \in [Workers -> Job] /\ dpc \in [Workers -> WorkerPlaces]
      /\ decodeList \in Seq(Job) /\ in_free \in Seq(Nat) /\ djob[w] \in Job
  BY DEF IInv, TypeOK
<1>v. /\ \A v \in Workers : v # w =>
             /\ djob'[v] = djob[v]
             /\ Reading(v)' <=> Reading(v)
      /\ mjob' = mjob
      /\ InSpaces' = InSpaces
  <2>1. in_mem' = in_mem
    BY DEF DecodeThread, TakeJob, LeaveOnStop, GetOutSpace, DecodeFrame,
           DropInSpace, InsertJob
  <2> QED BY <2>1, WorkerStep DEF Reading, InSpaces
<1>n. None \notin InSpaces
  BY DEF InSpaces, None
<1>1. ASSUME decodeList' = decodeList, in_free' = in_free,
             Reading(w) => Reading(w)' /\ djob'[w].in = djob[w].in
      PROVE  InKept'
  BY <1>1, <1>v, InKeptSame
<1>2. CASE TakeJob(w)
  <2>1. decodeList # <<>>
    BY <1>2, DecodeListThere
  <2>2. 1 \in DOMAIN decodeList /\ Head(decodeList) = decodeList[1]
    BY <1>t, <2>1, TailAt
  <2>3. /\ djob'[w] = decodeList[1] /\ ~Reading(w) /\ in_free' = in_free
        /\ decodeList[1].more => Reading(w)'
        /\ decodeList' = Tail(decodeList)
    BY <1>2, <1>t, <2>2 DEF TakeJob, Reading
  <2>4. decodeList[1].in # None => Reading(w)'
    BY <2>2, <2>3 DEF SInv, JobShape
  <2>5. \A i \in DOMAIN decodeList : decodeList[i] = decodeList[1]
            \/ Has(decodeList', decodeList[i])
    BY <1>t, <2>1, <2>2, <2>3, TailKeeps
  <2> QED BY <1>n, <1>v, <2>3, <2>4, <2>5 DEF InKept, Has
<1>3. CASE LeaveOnStop(w)
  BY <1>1, <1>3 DEF LeaveOnStop, Reading
<1>4. CASE GetOutSpace(w)
  <2>1. PICK o : djob' = [djob EXCEPT ![w].out = o]
    BY <1>4 DEF GetOutSpace
  <2>2. djob'[w].in = djob[w].in /\ Reading(w)'
    BY <1>4, <1>t, <2>1 DEF GetOutSpace, Job, Reading
  <2> QED BY <1>1, <1>4, <2>2 DEF GetOutSpace
<1>5. CASE DecodeFrame(w)
  <2>1. djob'[w].in = djob[w].in /\ Reading(w)'
    BY <1>5, <1>t DEF DecodeFrame, Job, Reading
  <2> QED BY <1>1, <1>5, <2>1 DEF DecodeFrame
<1>6. CASE DropInSpace(w)
  <2>1. /\ in_free' = <<djob[w].in>> \o in_free
        /\ UNCHANGED <<decodeList, djob>>
    BY <1>6 DEF DropInSpace, Linked
  <2>2. djob[w].in \in Nat
    BY <1>t DEF Job
  <2>3. /\ Has(in_free', djob[w].in)
        /\ \A i \in DOMAIN in_free : Has(in_free', in_free[i])
    BY <1>t, <2>1, <2>2, FrontKeeps
  <2> QED BY <1>v, <2>1, <2>3, SMTT(30) DEF InKept, Has
<1>7. CASE InsertJob(w)
  BY <1>1, <1>7 DEF InsertJob, Reading
<1> QED BY <1>2, <1>3, <1>4, <1>5, <1>6, <1>7 DEF DecodeThread
-----------------------------------------------------------------------------
(* A step that moves no output job loses no output space.                  *)
LEMMA OutKeptSame ==
    ASSUME OutKept, OutSpaces' = OutSpaces, out_free' = out_free,
           wjob'.out = wjob.out, writeList' = writeList,
           \A w \in Workers : djob'[w].out = djob[w].out
    PROVE  OutKept'
  BY DEF OutKept, Has

(* The caller frees all output spaces or touches none.                     *)
LEMMA CallerOutKept == NothingThere /\ OutKept /\ Caller => OutKept'
<1> SUFFICES ASSUME NothingThere, OutKept, Caller PROVE OutKept'
  OBVIOUS
<1> USE DEF caller, lists, workers, writer, yarn, inPool, outPool
<1>1. CASE dst_decoder_create \/ FreeDecoder
  <2>1. out_mem' = <<>>
    BY <1>1 DEF dst_decoder_create, FreeDecoder, NothingThere
  <2> QED BY <2>1 DEF OutKept, OutSpaces
<1>2. ASSUME ~dst_decoder_create, ~FreeDecoder
      PROVE  UNCHANGED <<out_free, out_mem, wjob, writeList, djob>>
  BY <1>2 DEF Caller, DecodeGetSpace, FinishWriteJob, LaunchIfNeeded, AppendJob,
              JoinWriter, StopWorkers, JoinAllRound, JoinAllReturns
<1> QED BY <1>1, <1>2, OutKeptSame DEF OutSpaces

(* A decode thread hands the space it was given to the write list.         *)
LEMMA WorkerOutKept ==
    ASSUME NEW w \in Workers, IInv, SInv, OutKept, DecodeThread(w)
    PROVE  OutKept'
<1> USE DEF caller, lists, workers, writer, yarn, inPool, outPool
<1>t. /\ djob \in [Workers -> Job] /\ dpc \in [Workers -> WorkerPlaces]
      /\ decodeList \in Seq(Job) /\ writeList \in Seq(Job)
      /\ out_free \in Seq(Nat) /\ out_mem \in Seq(Sample) /\ djob[w] \in Job
  BY DEF IInv, TypeOK
<1>s. JobShape
  BY DEF SInv
<1>v. /\ \A v \in Workers : v # w => djob'[v] = djob[v]
      /\ wjob' = wjob
  BY WorkerStep
<1>n. None \notin OutSpaces
  BY DEF OutSpaces, None
<1>1. ASSUME UNCHANGED <<out_free, writeList>>, Len(out_mem') = Len(out_mem),
             djob'[w].out = djob[w].out
      PROVE  OutKept'
  BY <1>1, <1>v, OutKeptSame DEF OutSpaces
<1>2. CASE TakeJob(w)
  <2>1. decodeList # <<>>
    BY <1>2, DecodeListThere
  <2>2. 1 \in DOMAIN decodeList /\ Head(decodeList) = decodeList[1]
    BY <1>t, <2>1, TailAt
  <2>3. djob'[w].out = None /\ djob[w].out = None
    BY <1>2, <1>s, <1>t, <2>2 DEF TakeJob, JobShape
  <2> QED BY <1>1, <1>2, <2>3 DEF TakeJob
<1>3. CASE LeaveOnStop(w)
  BY <1>1, <1>3 DEF LeaveOnStop
<1>4. CASE GetOutSpace(w)
  <2>0. djob[w].out = None
    BY <1>4, <1>s DEF GetOutSpace, JobShape
  <2>1. CASE out_free # <<>>
    <3>1. /\ out_free' = Tail(out_free) /\ UNCHANGED <<writeList, out_mem>>
          /\ djob' = [djob EXCEPT ![w].out = Head(out_free)]
      BY <1>4, <2>1 DEF GetOutSpace, Unlinked
    <3>2. djob'[w].out = Head(out_free)
      BY <1>t, <3>1 DEF Job
    <3>3. \A i \in DOMAIN out_free : out_free[i] = djob'[w].out
              \/ Has(out_free', out_free[i])
      BY <1>t, <2>1, <3>1, <3>2, TailKeeps
    <3>4. OutSpaces' = OutSpaces
      BY <3>1 DEF OutSpaces
    <3> QED BY <1>n, <1>v, <2>0, <3>1, <3>3, <3>4 DEF OutKept, Has
  <2>2. CASE out_free = <<>>
    <3>1. /\ UNCHANGED <<out_free, writeList>>
          /\ djob' = [djob EXCEPT ![w].out = Len(out_mem) + 1]
          /\ out_mem' = Append(out_mem, Garbage)
      BY <1>4, <2>2 DEF GetOutSpace
    <3>2. djob'[w].out = Len(out_mem) + 1
      BY <1>t, <3>1 DEF Job
    <3>3. \A s \in OutSpaces' : s \in OutSpaces \/ s = djob'[w].out
      BY <1>t, <3>1, <3>2 DEF OutSpaces
    <3> QED BY <1>n, <1>v, <2>0, <3>1, <3>3 DEF OutKept, Has
  <2> QED BY <2>1, <2>2
<1>5. CASE DecodeFrame(w)
  <2>1. djob'[w].out = djob[w].out
    BY <1>5, <1>t DEF DecodeFrame, Job
  <2>2. Len(out_mem') = Len(out_mem)
    BY <1>5, <1>t DEF DecodeFrame
  <2> QED BY <1>1, <1>5, <2>1, <2>2 DEF DecodeFrame
<1>6. CASE DropInSpace(w)
  BY <1>1, <1>6 DEF DropInSpace
<1>7. CASE InsertJob(w)
  <2> DEFINE p == Place(writeList, djob[w].seq)
  <2>1. p \in 1 .. Len(writeList) + 1
    BY <1>t, PlaceLemma DEF Job
  <2>2. /\ writeList' = InsertAt(writeList, p, djob[w])
        /\ UNCHANGED <<out_free, out_mem>>
    BY <1>7 DEF InsertJob
  <2> HIDE DEF p
  <2>3. /\ Has(writeList', djob[w])
        /\ \A i \in DOMAIN writeList : Has(writeList', writeList[i])
    BY <1>t, <2>2, <2>1, InsertKeeps
  <2>4. OutSpaces' = OutSpaces
    BY <2>2 DEF OutSpaces
  <2> QED BY <1>v, <2>2, <2>3, <2>4 DEF OutKept, Has
<1> QED BY <1>2, <1>3, <1>4, <1>5, <1>6, <1>7 DEF DecodeThread

(* The write thread holds the space it has taken until it is free again.   *)
LEMMA WriterOutKept == IInv /\ SInv /\ OutKept /\ WriteThread => OutKept'
<1> SUFFICES ASSUME IInv, SInv, OutKept, WriteThread PROVE OutKept'
  OBVIOUS
<1> USE DEF caller, lists, workers, writer, yarn, inPool, outPool
<1>t. /\ writeList \in Seq(Job) /\ out_free \in Seq(Nat) /\ wjob \in Job
  BY DEF IInv, TypeOK
<1>s. JobShape
  BY DEF SInv
<1>n. None \notin OutSpaces
  BY DEF OutSpaces, None
<1>1. CASE TakeWriteJob
  <2>1. writeList # <<>>
    BY <1>1, WriteListThere
  <2>2. /\ wjob' = Head(writeList) /\ writeList' = Tail(writeList)
        /\ wjob.out = None
        /\ UNCHANGED <<out_free, out_mem, djob>>
    BY <1>1, <1>s DEF TakeWriteJob, JobShape
  <2>3. \A i \in DOMAIN writeList : writeList[i] = wjob' \/ Has(writeList', writeList[i])
    BY <1>t, <2>1, <2>2, TailKeeps
  <2>4. OutSpaces' = OutSpaces
    BY <2>2 DEF OutSpaces
  <2> QED BY <1>n, <2>2, <2>3, <2>4 DEF OutKept, Has
<1>2. CASE Emit
  BY <1>2, OutKeptSame DEF Emit, OutSpaces
<1>3. CASE DropOutSpace
  <2>1. /\ out_free' = <<wjob.out>> \o out_free
        /\ UNCHANGED <<writeList, djob, out_mem>>
    BY <1>3 DEF DropOutSpace, Linked
  <2>2. wjob.out \in Nat
    BY <1>t DEF Job
  <2>3. /\ Has(out_free', wjob.out)
        /\ \A i \in DOMAIN out_free : Has(out_free', out_free[i])
    BY <1>t, <2>1, <2>2, FrontKeeps
  <2>4. OutSpaces' = OutSpaces
    BY <2>1 DEF OutSpaces
  <2>5. ASSUME NEW s \in OutSpaces
        PROVE  \/ \E i \in DOMAIN out_free' : out_free'[i] = s
               \/ \E i \in DOMAIN writeList : writeList[i].out = s
               \/ \E w \in Workers : djob[w].out = s
    <3>1. CASE wjob.out = s
      BY <2>3, <3>1 DEF Has
    <3>2. CASE \E i \in DOMAIN out_free : out_free[i] = s
      BY <2>3, <3>2 DEF Has
    <3> QED BY <3>1, <3>2 DEF OutKept
  <2> QED BY <2>1, <2>4, <2>5 DEF OutKept, Has
<1>4. CASE WriterExit
  <2>1. wjob.out = None /\ wjob'.out = None
    BY <1>4, <1>s, NoJobShape DEF WriterExit, JobShape
  <2> QED BY <1>4, <2>1, OutKeptSame DEF WriterExit, OutSpaces
<1> QED BY <1>1, <1>2, <1>3, <1>4 DEF WriteThread
-----------------------------------------------------------------------------
(* Every step preserves RInv, given the other three.                       *)
LEMMA RNext == AllInv /\ [Next]_vars => RInv'
<1> SUFFICES ASSUME AllInv, [Next]_vars PROVE RInv'
  OBVIOUS
<1>i. /\ IInv /\ SInv /\ NInv /\ AllPending /\ Stages /\ ThreadsCounted
      /\ InKept /\ OutKept /\ NothingThere /\ ThreadState /\ Count
  BY DEF AllInv, RInv, NInv, SInv, DInv
<1>c. ThreadsCounted'
  BY <1>i, ThreadsCountedNext
<1>1. CASE Caller
  BY <1>1, <1>i, <1>c, CallerNumbers, CallerStages, CallerInKept, CallerOutKept
     DEF RInv
<1>2. CASE WriteThread
  <2>1. UNCHANGED <<in_mem, in_free, mjob, decodeList, dpc, djob>>
    BY <1>2 DEF WriteThread, TakeWriteJob, Emit, DropOutSpace, WriterExit,
                caller, lists, workers, writer, yarn, inPool, outPool
  <2>2. InKept'
    BY <1>i, <2>1, InKeptSame DEF InSpaces, Reading
  <2> QED BY <1>2, <1>i, <1>c, <2>2, WriterNumbers, WriterStages, WriterOutKept
          DEF RInv
<1>3. ASSUME NEW w \in Workers, DecodeThread(w) PROVE RInv'
  BY <1>3, <1>i, <1>c, WorkerNumbers, WorkerStages, WorkerInKept, WorkerOutKept
     DEF RInv
<1>4. CASE UNCHANGED vars
  <2>1. UNCHANGED <<mpc, mjob, sequence, decodeList, writeList, dpc, djob, wpc,
                    wjob, wseq, in_free, in_mem, out_free, out_mem, delivered>>
    BY <1>4 DEF vars, caller, lists, workers, writer, yarn, inPool, outPool
  <2>2. NInv'
    BY <1>i, <2>1 DEF NInv, AllPending, OnePlace, Pending, Oldest, Closing,
                      Making, Queued, Busy, Writing
  <2>3. Stages' /\ NothingThere'
    BY <1>i, <2>1 DEF Stages, NothingThere, Drained
  <2>4. InKept' /\ OutKept'
    BY <1>i, <2>1 DEF InKept, OutKept, InSpaces, OutSpaces, Reading
  <2> QED BY <1>c, <2>2, <2>3, <2>4 DEF RInv
<1> QED BY <1>1, <1>2, <1>3, <1>4 DEF Next

(* The four invariants together are inductive.                             *)
THEOREM StreamInvariance == Spec => []AllInv
<1>1. Init => AllInv
  BY InitInv, SInit, DInit, RInit DEF AllInv
<1>2. AllInv /\ [Next]_vars => AllInv'
  BY NextInv, SNext, DNext, RNext DEF AllInv
<1> QED BY <1>1, <1>2, PTL DEF Spec
-----------------------------------------------------------------------------
(* A list of spaces 1 .. n that has each of them once has length n.        *)
LEMMA AllBack ==
    ASSUME NEW n \in Nat, NEW free \in Seq(Nat),
           \A i \in DOMAIN free : free[i] \in 1 .. n,
           \A i, k \in DOMAIN free : free[i] = free[k] => i = k,
           \A s \in 1 .. n : \E i \in DOMAIN free : free[i] = s
    PROVE  Len(free) = n
<1>1. Len(free) \in Nat /\ DOMAIN free = 1 .. Len(free)
  OBVIOUS
<1>2. free \in [1 .. Len(free) -> 1 .. n]
  <2>1. free = [i \in 1 .. Len(free) |-> free[i]]
    OBVIOUS
  <2> QED BY <1>1, <2>1
<1>3. free \in Bijection(1 .. Len(free), 1 .. n)
  BY <1>1, <1>2 DEF Bijection, Injection, Surjection, IsInjective
<1>4. Cardinality(1 .. n) = Cardinality(1 .. Len(free))
  BY <1>1, <1>3, FS_Interval, FS_Bijection DEF ExistsBijection
<1>5. \A m \in Nat : Cardinality(1 .. m) = m
  BY FS_Interval
<1> QED BY <1>1, <1>4, <1>5

(* When destroy frees the pools every space is in its free list.           *)
LEMMA PoolsWhole ==
    ASSUME AllInv, mpc = "free"
    PROVE  Len(in_free) = Len(in_mem) /\ Len(out_free) = Len(out_mem)
<1>i. IInv /\ SInv /\ AllPending /\ Stages /\ InKept /\ OutKept
  BY DEF AllInv, RInv, NInv
<1>s. JobShape /\ InApart /\ OutApart
  BY <1>i DEF SInv
<1>t. /\ in_free \in Seq(Nat) /\ Len(in_mem) \in Nat
      /\ out_free \in Seq(Nat) /\ Len(out_mem) \in Nat
  BY <1>i DEF IInv, TypeOK
<1>1. /\ mjob.in = None
      /\ \A w \in Workers : dpc[w] = "none"
      /\ \A i \in DOMAIN decodeList : decodeList[i].in = None
      /\ writeList = <<>>
      /\ wpc = "none"
  <2>1. mjob = NoJob /\ decodeList = <<StopJob>> /\ wpc = "none"
    BY <1>i DEF IInv, InSpacesExist, LocksMatchLists, Stages
  <2>2. \A w \in Workers : dpc[w] = "none"
    BY <1>i DEF IInv, ThreadsListed
  <2>3. writeList = <<>>
    BY <1>i, NothingLeft DEF Drained
  <2>4. \A i \in DOMAIN decodeList : decodeList[i] = NoJob
    BY <2>1, NoJobFacts
  <2> QED BY <2>1, <2>2, <2>3, <2>4, NoJobShape
<1>2. Len(in_free) = Len(in_mem)
  <2>1. \A s \in 1 .. Len(in_mem) : \E i \in DOMAIN in_free : in_free[i] = s
    <3> TAKE s \in 1 .. Len(in_mem)
    <3>1. s \in InSpaces /\ s # None
      BY DEF InSpaces, None
    <3> QED BY <1>i, <1>1, <3>1 DEF InKept, Reading
  <2>2. \A i \in DOMAIN in_free : in_free[i] \in 1 .. Len(in_mem)
    BY <1>i DEF IInv, InSpacesExist, InSpaces
  <2>3. \A i, k \in DOMAIN in_free : in_free[i] = in_free[k] => i = k
    BY <1>s DEF InApart
  <2> QED BY <1>t, <2>1, <2>2, <2>3, AllBack
<1>3. Len(out_free) = Len(out_mem)
  <2>1. \A s \in 1 .. Len(out_mem) : \E i \in DOMAIN out_free : out_free[i] = s
    <3> TAKE s \in 1 .. Len(out_mem)
    <3>1. s \in OutSpaces /\ s # None
      BY DEF OutSpaces, None
    <3>2. wjob.out = None /\ \A w \in Workers : djob[w].out = None
      BY <1>s, <1>1 DEF JobShape
    <3> QED BY <1>i, <1>1, <3>1, <3>2 DEF OutKept
  <2>2. \A i \in DOMAIN out_free : out_free[i] \in 1 .. Len(out_mem)
    BY <1>i DEF IInv, OutSpacesExist, OutSpaces
  <2>3. \A i, k \in DOMAIN out_free : out_free[i] = out_free[k] => i = k
    BY <1>s DEF OutApart
  <2> QED BY <1>t, <2>1, <2>2, <2>3, AllBack
<1> QED BY <1>2, <1>3

(* The invariants imply what the code asserts.                             *)
LEMMA DecoderAsserts == AllInv => AssertionsHold
<1> SUFFICES ASSUME AllInv PROVE AssertionsHold
  OBVIOUS
<1>i. /\ IInv /\ SInv /\ AllPending /\ Stages /\ ThreadsCounted
  BY DEF AllInv, RInv, NInv
<1>1. ASSUME decode_have # 0, NEW w \in Workers, dpc[w] = "look"
      PROVE  decodeList # <<>>
  <2>1. decodeList = <<StopJob>> \/ decode_have = Len(decodeList)
    BY <1>i DEF IInv, LocksMatchLists
  <2> QED BY <1>1, <2>1
<1>2. ASSUME wpc = "verify"
      PROVE  decodeList = <<>> /\ decode_have = 0 /\ writeList = <<>>
  <2>1. mpc = "joinWriter"
    BY <1>i, <1>2 DEF Stages, Drained
  <2>2. decodeList = <<>> /\ writeList = <<>>
    BY <1>i, <1>2, <2>1, NothingLeft DEF Drained, Queued
  <2>3. decode_have = Len(decodeList)
    BY <1>i, <2>1 DEF IInv, LocksMatchLists
  <2> QED BY <2>2, <2>3
<1>3. ASSUME threads_value # 0
      PROVE  threads \cap exited # {}
  <2>1. exited # {}
    BY <1>i, <1>3, FS_EmptySet DEF ThreadsCounted
  <2>2. exited \subseteq threads
    BY <1>i DEF IInv, TypeOK
  <2> QED BY <2>1, <2>2
<1>4. ASSUME mpc = "free"
      PROVE  caught = cthreads
  <2>1. threads = {} /\ caught + Cardinality(threads) = cthreads
    BY <1>i, <1>4 DEF IInv, ThreadsListed, ThreadsCounted, Queued
  <2>2. Cardinality(threads) = 0 /\ caught \in Nat
    BY <1>i, <2>1, FS_EmptySet DEF IInv, TypeOK
  <2> QED BY <2>1, <2>2
<1> QED BY <1>1, <1>2, <1>3, <1>4, PoolsWhole DEF AssertionsHold

(* The assertions of dst_decoder.c (173, 210, 307, 310), of yarn.c (339)   *)
(* and of buffer_pool.c (138) never fail: a job is there when decode_have  *)
(* says so, nothing is left behind the last job, every thread is joined    *)
(* and every space is back when the decoder is freed.                      *)
THEOREM DecoderNeverFails == Spec => []AssertionsHold
<1>1. AllInv => AssertionsHold
  BY DecoderAsserts
<1> QED BY <1>1, StreamInvariance, PTL
-----------------------------------------------------------------------------
(* The steps that the ordered stream does not see.                         *)
LEMMA StreamStutters ==
    ASSUME StreamStatus' = StreamStatus, sequence' = sequence,
           delivered' = delivered
    PROVE  UNCHANGED Stream!streamVars
  BY DEF Stream!streamVars

(* The caller creates the stream, feeds it and destroys it; destroy        *)
(* returns after the last frame.                                           *)
LEMMA CallerStream ==
    AllInv /\ Caller => Stream!StreamNext \/ UNCHANGED Stream!streamVars
<1> SUFFICES ASSUME AllInv, Caller
             PROVE  Stream!StreamNext \/ UNCHANGED Stream!streamVars
  OBVIOUS
<1> USE DEF caller, lists, workers, writer, yarn, inPool, outPool
<1>i. Stages /\ sequence \in Nat
  BY DEF AllInv, RInv, IInv, TypeOK
<1>1. CASE dst_decoder_create
  <2>1. mpc = "idle" /\ mpc' = "feed" /\ sequence' = 0 /\ delivered' = <<>>
    BY <1>1 DEF dst_decoder_create
  <2>2. StreamStatus = "closed" /\ StreamStatus' = "open"
    BY <2>1 DEF StreamStatus
  <2>3. Stream!Create
    BY <2>1, <2>2 DEF Stream!Create
  <2> QED BY <2>3 DEF Stream!StreamNext
<1>2. CASE DecodeGetSpace
  <2>1. /\ mpc = "feed" /\ mpc' = "launch" /\ sequence' = sequence + 1
        /\ delivered' = delivered /\ sequence < MaxFrames
    BY <1>2 DEF DecodeGetSpace
  <2>2. mjob'.more = TRUE
    <3>1. PICK i : mjob' = [NoJob EXCEPT !.seq = sequence, !.more = TRUE,
                                         !.in = i]
      BY <1>2 DEF DecodeGetSpace
    <3> QED BY <3>1 DEF NoJob
  <2>3. StreamStatus = "open" /\ StreamStatus' = "open"
    BY <2>1, <2>2 DEF StreamStatus
  <2>4. Stream!Feed
    BY <2>1, <2>3 DEF Stream!Feed
  <2> QED BY <2>4 DEF Stream!StreamNext
<1>3. CASE FinishWriteJob
  <2>1. /\ mpc = "feed" /\ mpc' = "launch" /\ sequence' = sequence + 1
        /\ delivered' = delivered
        /\ mjob' = [NoJob EXCEPT !.seq = sequence]
    BY <1>3 DEF FinishWriteJob
  <2>2. mjob'.more = FALSE
    BY <2>1 DEF NoJob
  <2>3. StreamStatus = "open" /\ StreamStatus' = "closing"
    BY <2>1, <2>2 DEF StreamStatus
  <2>4. sequence' - 1 = sequence
    BY <1>i, <2>1
  <2>5. Stream!Destroy
    BY <2>1, <2>3, <2>4 DEF Stream!Destroy
  <2> QED BY <2>5 DEF Stream!StreamNext
<1>4. CASE LaunchIfNeeded
  <2>1. /\ mpc = "launch" /\ mpc' = "append"
        /\ UNCHANGED <<mjob, sequence, delivered>>
    BY <1>4 DEF LaunchIfNeeded
  <2>2. StreamStatus' = StreamStatus
    BY <2>1 DEF StreamStatus
  <2> QED BY <2>1, <2>2, StreamStutters
<1>5. CASE AppendJob
  <2>1. /\ mpc = "append" /\ UNCHANGED <<sequence, delivered>>
        /\ mpc' = IF mjob.more THEN "feed" ELSE "joinWriter"
    BY <1>5 DEF AppendJob
  <2>2. StreamStatus' = StreamStatus
    BY <2>1 DEF StreamStatus
  <2> QED BY <2>1, <2>2, StreamStutters
<1>6. CASE JoinWriter \/ StopWorkers \/ JoinAllRound \/ JoinAllReturns
  <2>1. /\ mpc \in {"joinWriter", "stop", "joinAll"}
        /\ mpc' \in {"stop", "joinAll", "free"}
        /\ UNCHANGED <<sequence, delivered>>
    BY <1>6 DEF JoinWriter, StopWorkers, JoinAllRound, JoinAllReturns
  <2>2. StreamStatus' = StreamStatus
    BY <2>1 DEF StreamStatus
  <2> QED BY <2>1, <2>2, StreamStutters
<1>7. CASE FreeDecoder
  <2>1. /\ mpc = "free" /\ mpc' = "idle" /\ UNCHANGED <<sequence, delivered>>
    BY <1>7 DEF FreeDecoder
  <2>2. StreamStatus = "closing" /\ StreamStatus' = "closed"
    BY <2>1 DEF StreamStatus
  <2>3. Len(delivered) = sequence - 1
    BY <1>i, <2>1 DEF Stages, Drained
  <2>4. Stream!Destroyed
    BY <2>1, <2>2, <2>3 DEF Stream!Destroyed
  <2> QED BY <2>4 DEF Stream!StreamNext
<1> QED BY <1>1, <1>2, <1>3, <1>4, <1>5, <1>6, <1>7 DEF Caller

(* A frame comes out when the write thread calls back: the next one, and   *)
(* one that was fed.                                                       *)
LEMMA WriterStream ==
    AllInv /\ WriteThread => Stream!StreamNext \/ UNCHANGED Stream!streamVars
<1> SUFFICES ASSUME AllInv, WriteThread
             PROVE  Stream!StreamNext \/ UNCHANGED Stream!streamVars
  OBVIOUS
<1> USE DEF caller, lists, workers, writer, yarn, inPool, outPool
<1>i. /\ IInv /\ OutData /\ Count /\ AllPending /\ Stages
      /\ sequence \in Nat /\ wseq \in Nat /\ mpc \in CallerPlaces
  BY DEF AllInv, RInv, NInv, DInv, IInv, TypeOK
<1>u. StreamStatus' = StreamStatus /\ sequence' = sequence
  <2>1. UNCHANGED <<mpc, mjob, sequence>>
    BY DEF WriteThread, TakeWriteJob, Emit, DropOutSpace, WriterExit
  <2> QED BY <2>1 DEF StreamStatus
<1>1. CASE Emit
  <2>1. /\ wpc = "emit"
        /\ delivered' = Append(delivered, [data  |-> out_mem[wjob.out],
                                           error |-> wjob.error])
    BY <1>1 DEF Emit
  <2>2. /\ [data |-> out_mem[wjob.out], error |-> wjob.error] = Decoded(wseq)
        /\ Len(delivered) = wseq
    BY <1>i, <2>1 DEF OutData, Shows, Count
  <2>3. Decoded(wseq) = Stream!Decoded(wseq)
    BY DEF Decoded, Stream!Decoded, DST_FramDSTDecode, Silence, Stream!Silence
  <2>4. delivered' = Append(delivered, Stream!Decoded(Len(delivered)))
    BY <2>1, <2>2, <2>3
  <2>5. \/ StreamStatus = "open" /\ wseq < sequence
        \/ StreamStatus = "closing" /\ wseq < sequence - 1
    <3>1. wseq < sequence /\ (Closing => wseq # sequence - 1)
      BY <1>i, <2>1 DEF AllPending, Writing
    <3>2. mpc # "idle"
      BY <1>i, <2>1 DEF Stages
    <3>3. StreamStatus = IF Closing THEN "closing" ELSE "open"
      BY <1>i, <3>2 DEF StreamStatus, Closing, Making, CallerPlaces
    <3>4. CASE Closing
      BY <1>i, <3>1, <3>3, <3>4
    <3>5. CASE ~Closing
      BY <1>i, <3>1, <3>3, <3>5
    <3> QED BY <3>4, <3>5
  <2>6. Stream!Deliver
    BY <1>u, <2>2, <2>4, <2>5 DEF Stream!Deliver
  <2> QED BY <2>6 DEF Stream!StreamNext
<1>2. CASE TakeWriteJob \/ DropOutSpace \/ WriterExit
  <2>1. delivered' = delivered
    BY <1>2 DEF TakeWriteJob, DropOutSpace, WriterExit
  <2> QED BY <1>u, <2>1, StreamStutters
<1> QED BY <1>1, <1>2 DEF WriteThread

(* The decoder takes the steps of the ordered stream: whatever the threads *)
(* do, frames come out in the order they were fed, and destroy returns     *)
(* after the last one (dst_decoder.c:276-312, 361-378).                    *)
THEOREM StreamRefinement == Spec => Stream!StreamSteps
<1>1. Init => Stream!StreamInit
  BY DEF Init, Stream!StreamInit, StreamStatus
<1>2. AllInv /\ [Next]_vars => [Stream!StreamNext]_(Stream!streamVars)
  <2> SUFFICES ASSUME AllInv, [Next]_vars
               PROVE  Stream!StreamNext \/ UNCHANGED Stream!streamVars
    OBVIOUS
  <2>1. CASE Caller
    BY <2>1, CallerStream
  <2>2. CASE WriteThread
    BY <2>2, WriterStream
  <2>3. ASSUME NEW w \in Workers, DecodeThread(w)
        PROVE  UNCHANGED Stream!streamVars
    <3>1. UNCHANGED <<mpc, mjob, sequence, delivered>>
      BY <2>3 DEF DecodeThread, TakeJob, LeaveOnStop, GetOutSpace, DecodeFrame,
                  DropInSpace, InsertJob, caller
    <3>2. StreamStatus' = StreamStatus
      BY <3>1 DEF StreamStatus
    <3> QED BY <3>1, <3>2, StreamStutters
  <2>4. CASE UNCHANGED vars
    <3>1. UNCHANGED <<mpc, mjob, sequence, delivered>>
      BY <2>4 DEF vars, caller
    <3>2. StreamStatus' = StreamStatus
      BY <3>1 DEF StreamStatus
    <3> QED BY <3>1, <3>2, StreamStutters
  <2> QED BY <2>1, <2>2, <2>3, <2>4 DEF Next
<1> QED BY <1>1, <1>2, StreamInvariance, PTL DEF Spec, Stream!StreamSteps
=============================================================================
