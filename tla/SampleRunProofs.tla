--------------------------- MODULE SampleRunProofs ---------------------------
(***************************************************************************)
(* Theorems about SampleRun, for every number of calls and slots and every *)
(* fault limit: its types, what a run leaves behind, the counters of the   *)
(* worker, that an answer is the result its job keeps, and that attempts   *)
(* and redeliveries are used up by faults only.                            *)
(***************************************************************************)
EXTENDS SampleRun, FiniteSetTheorems, TLAPS

Results == JudgeStatus \union {NoResult}

\* What holds of the executors and their runs.
RunInv ==
    /\ run \in [Executors -> RunPc]
    /\ timer \in [Executors -> BOOLEAN]
    /\ term \in [Executors -> BOOLEAN]
    /\ tooLarge \in [Executors -> BOOLEAN]
    /\ workdir \in [Executors -> BOOLEAN]
    /\ result \in [Executors -> Results]
    /\ cur \in [Executors -> Submissions \union {NoSub}]
    /\ \A e \in Executors :
         /\ run[e] \in {"cleanup", "returned"} => result[e] # NoResult
         /\ run[e] = "idle" <=> cur[e] = NoSub
         /\ timer[e] => run[e] = "running"
         /\ workdir[e] => run[e] \in {"prepare", "running", "cleanup"}

Busy == {e \in Executors : run[e] # "idle"}

\* The runs themselves: a step keeps what holds of them and frees no slot.
LEMMA StepOfRun ==
    ASSUME RunInv, NEW e \in Executors, ServiceStep(e) \/ ProgramStep(e), cur' = cur
    PROVE  RunInv' /\ Busy' = Busy
<1> USE DEF RunInv, Reach, RunPc, Busy, Results
<1>s. "INTERNAL_ERROR" \in JudgeStatus /\ NoResult \notin JudgeStatus
  BY DEF JudgeStatus, NoResult
<1>1. ASSUME NEW name, RunUnsupported(e, name) \/ MakeWorkdir(e, name)
      PROVE  RunInv' /\ Busy' = Busy
  <2>1. CASE RunUnsupported(e, name)
    BY <2>1, <1>s DEF RunUnsupported
  <2>2. CASE MakeWorkdir(e, name)
    BY <2>2 DEF MakeWorkdir
  <2> QED BY <1>1, <2>1, <2>2
<1>2. CASE MakeWorkdirFails(e)
  BY <1>2 DEF MakeWorkdirFails
<1>3. CASE PrepareAndSpawn(e)
  BY <1>3 DEF PrepareAndSpawn
<1>4. CASE PrepareFails(e)
  BY <1>4, <1>s DEF PrepareFails
<1>5. CASE TimerFires(e)
  BY <1>5 DEF TimerFires
<1>6. CASE RemoveWorkdir(e)
  BY <1>6 DEF RemoveWorkdir
<1>7. CASE RemoveWorkdirFails(e)
  BY <1>7 DEF RemoveWorkdirFails
<1>8. CASE OutputExceeds(e)
  BY <1>8 DEF OutputExceeds
<1>9. CASE ChildCloses(e)
  BY <1>9, <1>s DEF ChildCloses, Unterminated
<1> QED BY <1>1, <1>2, <1>3, <1>4, <1>5, <1>6, <1>7, <1>8, <1>9 DEF ServiceStep, ProgramStep

\* Forgotten runs are idle and the others as they were.
LEMMA ForgottenRuns ==
    ASSUME RunInv, NEW E \in SUBSET Executors, Forget(E),
           \A e \in Executors : cur'[e] = IF e \in E THEN NoSub ELSE cur[e],
           cur' \in [Executors -> Submissions \union {NoSub}]
    PROVE  RunInv' /\ Busy' = Busy \ E
BY DEF RunInv, Forget, RunPc, Busy, Results

\* A slot that takes a job starts its run.
LEMMA StartedRun ==
    ASSUME RunInv, NEW e \in Executors, NEW c \in Submissions, RunStarts(e),
           cur' = [cur EXCEPT ![e] = c],
           UNCHANGED <<timer, term, tooLarge, workdir, result>>
    PROVE  RunInv' /\ Busy' = Busy \union {e} /\ e \notin Busy
BY SubmissionsAssumption DEF RunInv, RunStarts, Reach, RunPc, Busy, Results

LEMMA RunUnchanged ==
    ASSUME RunInv, UNCHANGED <<sandboxVars, cur>>
    PROVE  RunInv' /\ Busy' = Busy
BY DEF RunInv, sandboxVars, runVars, Busy

LEMMA BusyFinite ==
    ASSUME NEW B \in SUBSET Executors
    PROVE  IsFiniteSet(B) /\ Cardinality(B) \in Nat
BY SlotsAssumption, FS_Subset, FS_CardinalityType

-----------------------------------------------------------------------------
(* The queue.                                                              *)

\* The operations on a job keep the types of the queue.
LEMMA QueueOperation ==
    ASSUME QueueTypeOK, NEW c \in Submissions, NEW e,
           \/ AddJob(c) \/ (e \in Executors /\ TakeJob(c, e)) \/ CompleteJob(c, e)
           \/ FailAttempt(c, e) \/ PromoteJob(c) \/ StallJob(c)
    PROVE  QueueTypeOK'
<1> USE QueueAssumption DEF QueueTypeOK, JobState, queueVars
<1>1. CASE AddJob(c)
  BY <1>1 DEF AddJob
<1>2. CASE e \in Executors /\ TakeJob(c, e)
  BY <1>2 DEF TakeJob
<1>3. CASE CompleteJob(c, e)
  BY <1>3 DEF CompleteJob, Owns
<1>4. CASE FailAttempt(c, e)
  BY <1>4 DEF FailAttempt, Owns
<1>5. CASE PromoteJob(c)
  BY <1>5 DEF PromoteJob
<1>6. CASE StallJob(c)
  BY <1>6 DEF StallJob
<1> QED BY <1>1, <1>2, <1>3, <1>4, <1>5, <1>6

LEMMA QueueUnchanged ==
    ASSUME QueueTypeOK, UNCHANGED queueVars
    PROVE  QueueTypeOK'
BY DEF QueueTypeOK, queueVars

LEMMA FaultsTyped ==
    ASSUME faults \in [FaultKinds -> Nat], NEW k \in FaultKinds, Suffer(k)
    PROVE  /\ faults' \in [FaultKinds -> Nat]
           /\ faults'[k] = faults[k] + 1
           /\ \A j \in FaultKinds : j # k => faults'[j] = faults[j]
BY DEF Suffer

-----------------------------------------------------------------------------
(* The inductive invariant.                                                *)

ServiceTypeOK ==
    /\ driver \in Drivers
    /\ call \in [Submissions -> CallPc]
    /\ answer \in [Submissions -> Results]
    /\ worker \in {"up", "closing", "down"}
    /\ value \in [Submissions -> Results]
    /\ faults \in [FaultKinds -> Nat]

\* Only the worker counts jobs; with the inline driver it has none.
Counted == tally = IF driver = "redis" THEN Cardinality(Busy) ELSE 0

LitterBound ==
    /\ litter \in Nat
    /\ litter <= faults["host"]
                   + ProcessDeaths * Cardinality(Executors)

\* A completed job has a value, which an answered call was given.
Kept ==
    driver = "redis" =>
        \A c \in Submissions :
            /\ jobState[c] = "completed" => value[c] # NoResult
            /\ call[c] = "answered" => jobState[c] = "completed" /\ value[c] = answer[c]

SampleInv ==
    RunInv /\ QueueTypeOK /\ ServiceTypeOK /\ Counted /\ LitterBound /\ Kept

\* A run's own step changes neither faults nor litter, or the host failed.
LEMMA LitterOfRun ==
    ASSUME NEW e \in Executors, ServiceStep(e) \/ ProgramStep(e)
    PROVE  \/ litter' = litter /\ (faults' = faults \/ Suffer("host"))
           \/ litter' = litter + 1 /\ Suffer("host")
BY DEF ServiceStep, ProgramStep, RunUnsupported, MakeWorkdir, MakeWorkdirFails, PrepareAndSpawn,
       PrepareFails, TimerFires, OutputExceeds, ChildCloses, RemoveWorkdir, RemoveWorkdirFails

LEMMA FaultsStep ==
    ASSUME ServiceTypeOK, [Next]_vars
    PROVE  /\ faults' \in [FaultKinds -> Nat]
           /\ \A k \in FaultKinds : faults[k] <= faults'[k]
<1>1. faults' = faults \/ \E k \in FaultKinds : Suffer(k)
  <2> USE DEF FaultKinds, vars
  <2>1. ASSUME NEW c \in Submissions,
               \/ LookupSample(c) \/ AddSample(c) \/ AddSampleFails(c)
               \/ SampleResult(c) \/ SampleTimesOut(c)
               \/ PromoteSample(c) \/ MoveStalledSample(c)
        PROVE  faults' = faults \/ \E k \in FaultKinds : Suffer(k)
    BY <2>1 DEF LookupSample, AddSample, AddSampleFails, SampleResult, SampleTimesOut,
            PromoteSample, MoveStalledSample
  <2>2. ASSUME NEW e \in Executors, Serving(e) \/ Computing(e) \/ EndSample(e) \/ EndInline(e)
        PROVE  faults' = faults \/ \E k \in FaultKinds : Suffer(k)
    BY <2>2, LitterOfRun DEF Serving, Computing, EndSample, EndInline
  <2>3. ASSUME NEW e \in Executors, NEW c \in Submissions, StartSample(e, c) \/ StartInline(e, c)
        PROVE  faults' = faults
    BY <2>3 DEF StartSample, StartInline
  <2>4. CASE ApiStops \/ WorkerDies \/ WorkerCloses \/ WorkerExits \/ WorkerBoots
    BY <2>4 DEF ApiStops, WorkerDies, WorkerCloses, WorkerExits, WorkerBoots, InputUnread
  <2>5. CASE Rest \/ UNCHANGED vars
    BY <2>5 DEF Rest
  <2> QED BY <2>1, <2>2, <2>3, <2>4, <2>5 DEF Next
<1>2. ASSUME NEW k \in FaultKinds, Suffer(k)
      PROVE  /\ faults' \in [FaultKinds -> Nat]
             /\ \A j \in FaultKinds : faults[j] <= faults'[j]
  BY <1>2, FaultsTyped DEF ServiceTypeOK
<1> QED BY <1>1, <1>2 DEF ServiceTypeOK

\* A process that dies is one of those ProcessDeaths counts.
LEMMA DeathsCounted ==
    ASSUME ServiceTypeOK, Suffer("workerCrash") \/ Suffer("apiCrash") \/ Suffer("unreadInput")
    PROVE  ProcessDeaths < ProcessDeaths'
<1>1. /\ {"workerCrash", "apiCrash", "unreadInput"} \subseteq FaultKinds
      /\ faults \in [FaultKinds -> Nat]
  BY DEF FaultKinds, ServiceTypeOK
<1>2. /\ faults["workerCrash"] \in Nat /\ faults["apiCrash"] \in Nat
      /\ faults["unreadInput"] \in Nat
  BY <1>1
<1>3. CASE Suffer("workerCrash")
  BY <1>1, <1>2, <1>3, FaultsTyped DEF ProcessDeaths
<1>4. CASE Suffer("apiCrash")
  BY <1>1, <1>2, <1>4, FaultsTyped DEF ProcessDeaths
<1>5. CASE Suffer("unreadInput")
  BY <1>1, <1>2, <1>5, FaultsTyped DEF ProcessDeaths
<1> QED BY <1>3, <1>4, <1>5

\* A larger number of crashes, or of failures of the host, leaves more room.
LEMMA Room ==
    ASSUME NEW h \in Nat, NEW n \in Nat, NEW m \in Nat, NEW h2 \in Nat, NEW n2 \in Nat,
           h <= h2, n <= n2
    PROVE  /\ h + n * m \in Nat /\ h2 + n2 * m \in Nat
           /\ h + n * m <= h2 + n2 * m
           /\ n < n2 => h + n * m + m <= h2 + n2 * m
           /\ h < h2 => h + n * m + 1 <= h2 + n2 * m
<1>1. PICK d \in Nat : n2 = n + d
  <2>1. n2 - n \in Nat /\ n2 = n + (n2 - n)
    OBVIOUS
  <2> QED BY <2>1
<1>2. n2 * m = n * m + d * m /\ d * m \in Nat /\ n * m \in Nat
  BY <1>1
<1>3. n < n2 => d * m >= m
  <2>1. d = 0 \/ \E b \in Nat : d = b + 1
    <3>1. d = 0 \/ (d - 1 \in Nat /\ d = (d - 1) + 1)
      OBVIOUS
    <3> QED BY <3>1
  <2>2. ASSUME NEW b \in Nat, d = b + 1 PROVE d * m >= m
    <3>1. d * m = b * m + m /\ b * m \in Nat
      BY <2>2
    <3> QED BY <3>1
  <2> QED BY <2>1, <2>2, <1>1
<1> QED BY <1>2, <1>3

LEMMA RunsStep ==
    ASSUME SampleInv, [Next]_vars
    PROVE  RunInv' /\ Counted' /\ LitterBound'
<1> DEFINE N == Cardinality(Executors)
           crashes == ProcessDeaths
<1>n. N \in Nat
  BY BusyFinite
<1>f. /\ faults["host"] \in Nat /\ faults'["host"] \in Nat /\ faults["host"] <= faults'["host"]
      /\ crashes \in Nat /\ crashes' \in Nat /\ crashes <= crashes'
  <2>1. /\ faults' \in [FaultKinds -> Nat] /\ \A k \in FaultKinds : faults[k] <= faults'[k]
        /\ faults \in [FaultKinds -> Nat]
    BY FaultsStep DEF SampleInv, ServiceTypeOK
  <2>2. {"host", "workerCrash", "apiCrash", "unreadInput"} \subseteq FaultKinds
    BY DEF FaultKinds
  <2> QED BY <2>1, <2>2 DEF ProcessDeaths
<1>i. RunInv /\ Counted /\ litter \in Nat /\ litter <= faults["host"] + crashes * N
  BY DEF SampleInv, LitterBound
<1> DEFINE room == faults["host"] + crashes * N
<1>r. /\ room \in Nat /\ room' \in Nat /\ room <= room'
      /\ crashes < crashes' => room + N <= room'
      /\ faults["host"] < faults'["host"] => room + 1 <= room'
  <2>1. \A m \in Nat : LET r == faults["host"] + crashes * m
                           r2 == faults'["host"] + crashes' * m
                       IN /\ r \in Nat /\ r2 \in Nat /\ r <= r2
                          /\ crashes < crashes' => r + m <= r2
                          /\ faults["host"] < faults'["host"] => r + 1 <= r2
    <3> HIDE DEF crashes
    <3> QED BY Room, <1>f
  <2>2. room' = faults'["host"] + crashes' * N
    OBVIOUS
  <2> HIDE DEF crashes
  <2> QED BY <2>1, <2>2, <1>n
<1>b. room' >= litter' /\ litter' \in Nat => LitterBound'
  BY DEF LitterBound
<1>l. litter' = litter => LitterBound'
  <2> HIDE DEF room
  <2> QED BY <1>b, <1>i, <1>r DEF room
<1> HIDE DEF room, crashes
<1>c. Busy' = Busy /\ tally' = tally /\ driver' = driver => Counted'
  BY <1>i DEF Counted
<1>1. ASSUME NEW c \in Submissions,
             \/ LookupSample(c) \/ AddSample(c) \/ AddSampleFails(c)
             \/ SampleResult(c) \/ SampleTimesOut(c)
             \/ PromoteSample(c) \/ MoveStalledSample(c)
      PROVE  RunInv' /\ Counted' /\ LitterBound'
  <2>1. UNCHANGED <<sandboxVars, cur, tally, driver>>
    BY <1>1 DEF LookupSample, AddSample, AddSampleFails, SampleResult, SampleTimesOut,
            PromoteSample, MoveStalledSample, serviceVars
  <2> QED BY <2>1, <1>i, <1>c, <1>l, RunUnchanged DEF sandboxVars
<1>2. ASSUME NEW e \in Executors, Serving(e) \/ Computing(e)
      PROVE  RunInv' /\ Counted' /\ LitterBound'
  <2>1. /\ ServiceStep(e) \/ ProgramStep(e)
        /\ cur' = cur /\ tally' = tally /\ driver' = driver
    BY <1>2 DEF Serving, Computing, serviceVars
  <2>2. RunInv' /\ Counted'
    BY <2>1, <1>i, <1>c, StepOfRun
  <2>3. CASE litter' = litter
    BY <2>2, <2>3, <1>l
  <2>4. CASE litter' = litter + 1 /\ Suffer("host")
    <3>1. faults["host"] < faults'["host"]
      BY <2>4, FaultsTyped, <1>f DEF SampleInv, ServiceTypeOK, FaultKinds
    <3> QED BY <3>1, <2>2, <2>4, <1>i, <1>r, <1>b DEF room
  <2> QED BY <2>1, <2>3, <2>4, LitterOfRun
<1>3. ASSUME NEW e \in Executors, EndSample(e) \/ EndInline(e)
      PROVE  RunInv' /\ Counted' /\ LitterBound'
  <2>1. RunEnded(e) /\ FreeSlot(e) /\ driver' = driver
    BY <1>3 DEF EndSample, EndInline
  <2>2. RunInv' /\ Busy' = Busy \ {e}
    <3>1. \A d \in Executors : cur'[d] = IF d \in {e} THEN NoSub ELSE cur[d]
      BY <2>1, <1>i DEF FreeSlot, RunInv
    <3>2. cur' \in [Executors -> Submissions \union {NoSub}]
      BY <2>1, <1>i DEF FreeSlot, RunInv
    <3>3. Forget({e}) /\ {e} \in SUBSET Executors
      BY <2>1 DEF FreeSlot
    <3> QED BY <3>1, <3>2, <3>3, <1>i, ForgottenRuns
  <2>3. litter' = litter
    <3>1. {d \in {e} : workdir[d]} = {}
      BY <2>1, <1>i DEF RunEnded, RunInv
    <3>2. litter' = litter + Cardinality({d \in {e} : workdir[d]})
      BY <2>1 DEF FreeSlot, Forget
    <3>3. litter' = litter + 0
      BY <3>1, <3>2, FS_EmptySet
    <3> QED BY <3>3, <1>i
  <2>4. Counted'
    <3>1. CASE EndInline(e)
      BY <3>1, <1>i DEF EndInline, Counted
    <3>2. CASE EndSample(e)
      <4>1. e \in Busy
        BY <2>1 DEF Busy, RunEnded
      <4>2. Cardinality(Busy \ {e}) = Cardinality(Busy) - 1
        BY <4>1, BusyFinite, FS_RemoveElement DEF Busy
      <4> QED BY <3>2, <4>2, <2>2, <1>i DEF EndSample, Counted
    <3> QED BY <1>3, <3>1, <3>2
  <2> QED BY <2>2, <2>3, <2>4, <1>l
<1>4. ASSUME NEW e \in Executors, NEW c \in Submissions, StartSample(e, c) \/ StartInline(e, c)
      PROVE  RunInv' /\ Counted' /\ LitterBound'
  <2>1. /\ RunStarts(e) /\ cur' = [cur EXCEPT ![e] = c] /\ driver' = driver
        /\ UNCHANGED <<timer, term, tooLarge, workdir, result, litter>>
    BY <1>4 DEF StartSample, StartInline
  <2>2. RunInv' /\ Busy' = Busy \union {e} /\ e \notin Busy
    BY <2>1, <1>i, StartedRun
  <2>3. Counted'
    <3>1. CASE StartInline(e, c)
      BY <3>1, <1>i DEF StartInline, Counted
    <3>2. CASE StartSample(e, c)
      <4>1. Cardinality(Busy \union {e}) = Cardinality(Busy) + 1
        BY <2>2, BusyFinite, FS_AddElement DEF Busy
      <4> QED BY <3>2, <4>1, <2>2, <1>i DEF StartSample, Counted
    <3> QED BY <1>4, <3>1, <3>2
  <2> QED BY <2>1, <2>2, <2>3, <1>l
<1>5. ASSUME Forget(Executors), cur' = [e \in Executors |-> NoSub]
      PROVE  RunInv' /\ Busy' = {} /\ (crashes < crashes' => LitterBound')
  <2>1. RunInv' /\ Busy' = Busy \ Executors
    BY <1>5, <1>i, ForgottenRuns
  <2> DEFINE left == {e \in Executors : workdir[e]}
  <2>2. Cardinality(left) \in Nat /\ Cardinality(left) <= N /\ litter' = litter + Cardinality(left)
    <3>1. left \in SUBSET Executors
      OBVIOUS
    <3>2. Cardinality(left) <= N
      BY <3>1, SlotsAssumption, FS_Subset
    <3> QED BY <3>1, <3>2, <1>5, BusyFinite DEF Forget
  <2>3. crashes < crashes' => LitterBound'
    <3> HIDE DEF left, N
    <3> QED BY <2>2, <1>i, <1>r, <1>b, <1>n DEF room
  <2> QED BY <2>1, <2>3 DEF Busy
<1>6. CASE ApiStops
  <2>1. CASE driver = "inline"
    <3>1. /\ Suffer("apiCrash") \/ Suffer("unreadInput")
          /\ Forget(Executors) /\ cur' = [e \in Executors |-> NoSub]
          /\ tally' = tally /\ driver' = driver
      BY <1>6, <2>1 DEF ApiStops, InputUnread
    <3>2. crashes < crashes'
      BY <3>1, DeathsCounted DEF SampleInv, crashes
    <3>3. Counted'
      BY <3>1, <2>1, <1>i DEF Counted
    <3> QED BY <3>1, <3>2, <3>3, <1>5
  <2>2. CASE driver # "inline"
    BY <1>6, <2>2, <1>i, <1>c, <1>l, RunUnchanged DEF ApiStops, sandboxVars
  <2> QED BY <2>1, <2>2
<1>7. CASE WorkerDies
  <2>1. crashes < crashes'
    BY <1>7, DeathsCounted DEF WorkerDies, InputUnread, SampleInv, crashes
  <2>2. Counted'
    BY <1>7, <1>5, FS_EmptySet DEF WorkerDies, Counted
  <2> QED BY <1>7, <2>1, <2>2, <1>5 DEF WorkerDies
<1>8. CASE WorkerExits
  <2>1. RunInv' /\ Busy' = Busy /\ litter' = litter
    BY <1>8, <1>i, RunUnchanged DEF WorkerExits, sandboxVars
  <2>2. Busy = {}
    BY <1>8 DEF WorkerExits, Busy
  <2>3. Counted'
    BY <1>8, <2>1, <2>2, FS_EmptySet DEF WorkerExits, Counted
  <2> QED BY <2>1, <2>3, <1>l
<1>9. CASE WorkerCloses \/ WorkerBoots \/ Rest \/ UNCHANGED vars
  <2>1. UNCHANGED <<sandboxVars, cur, tally, driver>>
    BY <1>9 DEF WorkerCloses, WorkerBoots, Rest, vars, serviceVars
  <2> QED BY <2>1, <1>i, <1>c, <1>l, RunUnchanged DEF sandboxVars
<1> QED BY <1>1, <1>2, <1>3, <1>4, <1>6, <1>7, <1>8, <1>9 DEF Next

LEMMA QueueStep ==
    ASSUME SampleInv, [Next]_vars
    PROVE  QueueTypeOK'
<1>i. QueueTypeOK
  BY DEF SampleInv
<1>1. ASSUME NEW c \in Submissions,
             \/ LookupSample(c) \/ AddSample(c) \/ AddSampleFails(c)
             \/ SampleResult(c) \/ SampleTimesOut(c)
             \/ PromoteSample(c) \/ MoveStalledSample(c)
      PROVE  QueueTypeOK'
  <2>1. UNCHANGED queueVars \/ AddJob(c) \/ PromoteJob(c) \/ StallJob(c)
    BY <1>1 DEF LookupSample, AddSample, AddSampleFails, SampleResult, SampleTimesOut,
            PromoteSample, MoveStalledSample
  <2> QED BY <2>1, <1>i, QueueOperation, QueueUnchanged
<1>2. ASSUME NEW e \in Executors, EndSample(e)
      PROVE  QueueTypeOK'
  <2>1. cur[e] \in Submissions
    BY <1>2 DEF EndSample, RunEnded, SampleInv, RunInv
  <2>2. CompleteJob(cur[e], e) \/ FailAttempt(cur[e], e)
    BY <1>2 DEF EndSample
  <2> QED BY <2>1, <2>2, <1>i, QueueOperation
<1>3. ASSUME NEW e \in Executors, NEW c \in Submissions, StartSample(e, c)
      PROVE  QueueTypeOK'
  BY <1>3, <1>i, QueueOperation DEF StartSample
<1>4. ASSUME NEW e \in Executors,
             \/ Serving(e) \/ Computing(e) \/ EndInline(e)
             \/ \E c \in Submissions : StartInline(e, c)
      PROVE  QueueTypeOK'
  BY <1>4, <1>i, QueueUnchanged DEF Serving, Computing, EndInline, StartInline
<1>5. CASE \/ ApiStops \/ WorkerDies \/ WorkerCloses \/ WorkerExits \/ WorkerBoots
           \/ Rest \/ UNCHANGED vars
  BY <1>5, <1>i, QueueUnchanged
     DEF ApiStops, WorkerDies, WorkerCloses, WorkerExits, WorkerBoots, Rest, vars
<1> QED BY <1>1, <1>2, <1>3, <1>4, <1>5 DEF Next

\* The result an executor that has returned ends its job or call with.
LEMMA Returned ==
    ASSUME RunInv, NEW e \in Executors, RunEnded(e)
    PROVE  /\ cur[e] \in Submissions
           /\ result[e] \in Results
           /\ run[e] = "returned" => result[e] # NoResult
BY DEF RunInv, RunEnded

LEMMA ServiceTypeStep ==
    ASSUME SampleInv, [Next]_vars
    PROVE  ServiceTypeOK'
<1>i. ServiceTypeOK /\ RunInv
  BY DEF SampleInv
<1> USE FaultsStep DEF ServiceTypeOK, CallPc
<1>1. ASSUME NEW c \in Submissions,
             LookupSample(c) \/ AddSample(c) \/ AddSampleFails(c) \/ SampleTimesOut(c)
      PROVE  ServiceTypeOK'
  BY <1>1, <1>i DEF LookupSample, AddSample, AddSampleFails, SampleTimesOut, MoveCall
<1>2. ASSUME NEW c \in Submissions, SampleResult(c)
      PROVE  ServiceTypeOK'
  BY <1>2, <1>i DEF SampleResult, MoveCall
<1>3. ASSUME NEW c \in Submissions, PromoteSample(c) \/ MoveStalledSample(c)
      PROVE  ServiceTypeOK'
  BY <1>3, <1>i DEF PromoteSample, MoveStalledSample, serviceVars
<1>4. ASSUME NEW e \in Executors, EndSample(e)
      PROVE  ServiceTypeOK'
  BY <1>4, <1>i, Returned DEF EndSample
<1>5. ASSUME NEW e \in Executors, EndInline(e)
      PROVE  ServiceTypeOK'
  BY <1>5, <1>i, Returned DEF EndInline, MoveCall
<1>6. ASSUME NEW e \in Executors, NEW c \in Submissions, StartSample(e, c) \/ StartInline(e, c)
      PROVE  ServiceTypeOK'
  BY <1>6, <1>i DEF StartSample, StartInline, MoveCall
<1>7. CASE ApiStops
  BY <1>7, <1>i DEF ApiStops
<1>8. CASE \/ WorkerDies \/ WorkerCloses \/ WorkerExits \/ WorkerBoots
           \/ Rest \/ UNCHANGED vars
  BY <1>8, <1>i DEF WorkerDies, WorkerCloses, WorkerExits, WorkerBoots, Rest, vars, serviceVars
<1>9. ASSUME NEW e \in Executors, Serving(e) \/ Computing(e)
      PROVE  ServiceTypeOK'
  BY <1>9, <1>i DEF Serving, Computing, serviceVars
<1> QED BY <1>1, <1>2, <1>3, <1>4, <1>5, <1>6, <1>7, <1>8, <1>9 DEF Next

\* A completed job stays completed with its value, so an answer stays right.
LEMMA KeptStep ==
    ASSUME SampleInv, [Next]_vars
    PROVE  Kept'
<1>i. Kept /\ QueueTypeOK /\ ServiceTypeOK /\ RunInv
  BY DEF SampleInv
<1>q. QueueTypeOK'
  BY QueueStep
<1> SUFFICES ASSUME driver' = "redis", NEW c \in Submissions
             PROVE  /\ jobState'[c] = "completed" => value'[c] # NoResult
                    /\ call'[c] = "answered" =>
                           jobState'[c] = "completed" /\ value'[c] = answer'[c]
  BY DEF Kept
<1> DEFINE Goal == /\ jobState'[c] = "completed" => value'[c] # NoResult
                   /\ call'[c] = "answered" =>
                          jobState'[c] = "completed" /\ value'[c] = answer'[c]
<1>k. driver = "redis" => /\ jobState[c] = "completed" => value[c] # NoResult
                          /\ call[c] = "answered" => jobState[c] = "completed" /\ value[c] = answer[c]
  BY <1>i DEF Kept
\* Steps that leave the values, and complete no job.
<1>g. ASSUME driver = "redis", value' = value, answer'[c] = answer[c],
             call'[c] = "answered" => call[c] = "answered",
             jobState'[c] = "completed" <=> jobState[c] = "completed"
      PROVE  Goal
  BY <1>g, <1>k
<1>1. ASSUME NEW d \in Submissions,
             LookupSample(d) \/ AddSample(d) \/ AddSampleFails(d) \/ SampleTimesOut(d)
      PROVE  Goal
  <2>1. driver' = driver /\ value' = value /\ answer' = answer
    BY <1>1 DEF LookupSample, AddSample, AddSampleFails, SampleTimesOut
  <2>2. call'[c] = "answered" => call[c] = "answered"
    BY <1>1, <1>i DEF LookupSample, AddSample, AddSampleFails, SampleTimesOut, MoveCall, ServiceTypeOK
  <2>3. jobState' = jobState \/ AddJob(d)
    BY <1>1 DEF LookupSample, AddSample, AddSampleFails, SampleTimesOut, queueVars
  <2>4. jobState'[c] = "completed" <=> jobState[c] = "completed"
    BY <2>3, <1>i DEF AddJob, queueVars, QueueTypeOK
  <2> QED BY <2>1, <2>2, <2>4, <1>g
<1>2. ASSUME NEW d \in Submissions, SampleResult(d)
      PROVE  Goal
  BY <1>2, <1>k, <1>i DEF SampleResult, MoveCall, queueVars, ServiceTypeOK
<1>3. ASSUME NEW d \in Submissions, PromoteSample(d) \/ MoveStalledSample(d)
      PROVE  Goal
  <2>1. UNCHANGED <<driver, value, answer, call>>
    BY <1>3 DEF PromoteSample, MoveStalledSample, serviceVars
  <2>2. jobState'[c] = "completed" <=> jobState[c] = "completed"
    BY <1>3, <1>i DEF PromoteSample, MoveStalledSample, PromoteJob, StallJob, QueueTypeOK
  <2> QED BY <2>1, <2>2, <1>g
<1>4. ASSUME NEW e \in Executors, EndSample(e)
      PROVE  Goal
  <2>0. /\ driver' = driver /\ call' = call /\ answer' = answer
        /\ cur[e] \in Submissions /\ RunEnded(e)
    BY <1>4, <1>i, Returned DEF EndSample
  <2>1. CASE run[e] = "returned" /\ Owns(e, cur[e])
    <3>1. /\ jobState' = [jobState EXCEPT ![cur[e]] = "completed"]
          /\ value' = [value EXCEPT ![cur[e]] = result[e]]
          /\ result[e] # NoResult /\ jobState[cur[e]] = "active"
      BY <1>4, <2>0, <2>1, <1>i, Returned DEF EndSample, CompleteJob, Owns
    <3> QED BY <2>0, <3>1, <1>k, <1>i DEF QueueTypeOK, ServiceTypeOK
  <2>2. CASE ~(run[e] = "returned" /\ Owns(e, cur[e]))
    <3>1. value' = value
      BY <1>4, <2>2 DEF EndSample
    <3>2. jobState'[c] = "completed" <=> jobState[c] = "completed"
      BY <1>4, <2>0, <2>2, <1>i DEF EndSample, CompleteJob, FailAttempt, Owns, queueVars, QueueTypeOK
    <3> QED BY <2>0, <3>1, <3>2, <1>g
  <2> QED BY <2>1, <2>2
<1>5. ASSUME NEW e \in Executors, NEW d \in Submissions, StartSample(e, d)
      PROVE  Goal
  <2>1. UNCHANGED <<driver, value, answer, call>>
    BY <1>5 DEF StartSample
  <2>2. jobState'[c] = "completed" <=> jobState[c] = "completed"
    BY <1>5, <1>i DEF StartSample, TakeJob, QueueTypeOK
  <2> QED BY <2>1, <2>2, <1>g
<1>6. ASSUME NEW e \in Executors, NEW d \in Submissions, StartInline(e, d)
      PROVE  Goal
  BY <1>6 DEF StartInline
<1>7. ASSUME NEW e \in Executors, EndInline(e)
      PROVE  Goal
  BY <1>7 DEF EndInline
<1>8. ASSUME NEW e \in Executors, Serving(e) \/ Computing(e)
      PROVE  Goal
  BY <1>8, <1>g DEF Serving, Computing, serviceVars, queueVars
<1>9. CASE ApiStops
  BY <1>9, <1>g, <1>i DEF ApiStops, queueVars, ServiceTypeOK
<1>10. CASE \/ WorkerDies \/ WorkerCloses \/ WorkerExits \/ WorkerBoots
            \/ Rest \/ UNCHANGED vars
  BY <1>10, <1>g DEF WorkerDies, WorkerCloses, WorkerExits, WorkerBoots, Rest, vars, serviceVars,
                 queueVars
<1> QED BY <1>1, <1>2, <1>3, <1>4, <1>5, <1>6, <1>7, <1>8, <1>9, <1>10 DEF Next

LEMMA SampleInit == Init => SampleInv
<1> SUFFICES ASSUME Init PROVE SampleInv
  OBVIOUS
<1> USE DEF Init
<1>1. RunInv
  BY DEF SandboxInit, RunInv, RunPc, Results, NoResult
<1>2. QueueTypeOK
  BY QueueAssumption DEF QueueInit, QueueTypeOK, JobState
<1>3. ServiceTypeOK
  BY DEF ServiceTypeOK, CallPc, Results
<1>4. Counted
  <2>1. Busy = {}
    BY DEF SandboxInit, Busy
  <2> QED BY <2>1, FS_EmptySet DEF Counted
<1>5. LitterBound
  <2>1. Cardinality(Executors) \in Nat
    BY BusyFinite
  <2>2. faults["host"] = 0 /\ ProcessDeaths = 0
    BY DEF FaultKinds, ProcessDeaths
  <2> QED BY <2>1, <2>2 DEF SandboxInit, LitterBound
<1>6. Kept
  BY DEF Kept, QueueInit
<1> QED BY <1>1, <1>2, <1>3, <1>4, <1>5, <1>6 DEF SampleInv

LEMMA SampleInvariant == Spec => []SampleInv
<1>1. SampleInv /\ [Next]_vars => SampleInv'
  <2> SUFFICES ASSUME SampleInv, [Next]_vars PROVE SampleInv'
    OBVIOUS
  <2> QED BY RunsStep, QueueStep, ServiceTypeStep, KeptStep DEF SampleInv
<1> QED BY <1>1, SampleInit, PTL DEF Spec

-----------------------------------------------------------------------------
(* What the faults account for: failed attempts and redeliveries.          *)

\* The executors whose run for c threw and was not reported to the queue yet.
Threw(c) == {e \in Executors : cur[e] = c /\ run[e] = "threw"}

\* Every attempt used up, or about to be, is a failure of the host.
HostBound ==
    \A c \in Submissions : attemptsMade[c] + Cardinality(Threw(c)) <= faults["host"]

\* An active job whose holder does not run it: its worker is gone.
Orphan(c) == jobState[c] = "active" /\ cur[holder[c]] # c

\* Every redelivery, or one to come, is a death of the worker or a lost lock.
StallBound ==
    LET bound == faults["workerCrash"] + faults["unreadInput"] + faults["lockLoss"] IN
    \A c \in Submissions :
        /\ stalledCount[c] <= bound
        /\ Orphan(c) => stalledCount[c] + 1 <= bound

InlineQueue == driver = "inline" => \A c \in Submissions : jobState[c] = "none"

FaultInv == HostBound /\ StallBound /\ InlineQueue

\* A run that throws does so because the host failed.
LEMMA ThrewOfRun ==
    ASSUME RunInv, NEW e \in Executors, ServiceStep(e) \/ ProgramStep(e), cur' = cur,
           NEW c \in Submissions
    PROVE  \/ Threw(c)' = Threw(c)
           \/ Threw(c)' \subseteq Threw(c) \union {e} /\ Suffer("host")
<1> USE DEF RunInv, Reach, Threw
<1>1. ASSUME NEW name, RunUnsupported(e, name) \/ MakeWorkdir(e, name)
      PROVE  Threw(c)' = Threw(c)
  BY <1>1 DEF RunUnsupported, MakeWorkdir
<1>2. CASE MakeWorkdirFails(e) \/ RemoveWorkdirFails(e)
  BY <1>2 DEF MakeWorkdirFails, RemoveWorkdirFails
<1>3. CASE PrepareAndSpawn(e) \/ TimerFires(e) \/ RemoveWorkdir(e) \/ OutputExceeds(e)
  BY <1>3 DEF PrepareAndSpawn, TimerFires, RemoveWorkdir, OutputExceeds
<1>4. CASE PrepareFails(e)
  BY <1>4 DEF PrepareFails
<1>5. CASE ChildCloses(e)
  BY <1>5 DEF ChildCloses
<1> QED BY <1>1, <1>2, <1>3, <1>4, <1>5 DEF ServiceStep, ProgramStep

LEMMA ThrewFinite ==
    ASSUME NEW e, NEW B \in SUBSET Executors
    PROVE  /\ Cardinality(B) \in Nat
           /\ \A A : A \subseteq B \union {e} => /\ Cardinality(A) \in Nat
                                                /\ Cardinality(A) <= Cardinality(B) + 1
           /\ \A A : A \subseteq B => /\ Cardinality(A) \in Nat
                                      /\ Cardinality(A) <= Cardinality(B)
           /\ e \in B => Cardinality(B \ {e}) = Cardinality(B) - 1
<1>1. IsFiniteSet(B) /\ Cardinality(B) \in Nat
  BY BusyFinite
<1>2. /\ IsFiniteSet(B \union {e}) /\ Cardinality(B \union {e}) \in Nat
      /\ Cardinality(B \union {e}) <= Cardinality(B) + 1
  BY <1>1, FS_AddElement, FS_CardinalityType
<1>3. ASSUME NEW A, NEW D, IsFiniteSet(D), Cardinality(D) \in Nat, A \subseteq D
      PROVE  Cardinality(A) \in Nat /\ Cardinality(A) <= Cardinality(D)
  BY <1>3, FS_Subset, FS_CardinalityType
<1>4. ASSUME NEW A, A \subseteq B \union {e}
      PROVE  Cardinality(A) \in Nat /\ Cardinality(A) <= Cardinality(B) + 1
  BY <1>2, <1>3, <1>4, <1>1
<1>5. e \in B => Cardinality(B \ {e}) = Cardinality(B) - 1
  BY <1>1, FS_RemoveElement
<1> QED BY <1>1, <1>3, <1>4, <1>5

\* Steps that use up no attempt and let no run throw.
LEMMA HostBoundKept ==
    ASSUME SampleInv, HostBound, [Next]_vars, NEW c \in Submissions,
           attemptsMade'[c] \in Nat, attemptsMade'[c] <= attemptsMade[c],
           Threw(c)' \subseteq Threw(c)
    PROVE  attemptsMade'[c] + Cardinality(Threw(c)') <= faults'["host"]
<1>1. /\ faults["host"] \in Nat /\ faults'["host"] \in Nat /\ faults["host"] <= faults'["host"]
  BY FaultsStep DEF SampleInv, ServiceTypeOK, FaultKinds
<1>2. /\ Cardinality(Threw(c)) \in Nat /\ Cardinality(Threw(c)') \in Nat
      /\ Cardinality(Threw(c)') <= Cardinality(Threw(c))
  <2>1. Threw(c) \in SUBSET Executors
    BY DEF Threw
  <2> QED BY <2>1, ThrewFinite
<1>3. attemptsMade[c] \in Nat
  BY QueueAssumption DEF SampleInv, QueueTypeOK
<1>4. attemptsMade[c] + Cardinality(Threw(c)) <= faults["host"]
  BY DEF HostBound
<1> QED BY <1>1, <1>2, <1>3, <1>4

LEMMA HostStep ==
    ASSUME SampleInv, HostBound, [Next]_vars
    PROVE  HostBound'
<1> SUFFICES ASSUME NEW c \in Submissions
             PROVE  attemptsMade'[c] + Cardinality(Threw(c)') <= faults'["host"]
  BY DEF HostBound
<1>i. RunInv /\ QueueTypeOK
  BY DEF SampleInv
<1>a. attemptsMade[c] \in Nat
  BY <1>i, QueueAssumption DEF QueueTypeOK
<1>s. ASSUME attemptsMade'[c] = attemptsMade[c] \/ attemptsMade'[c] = 0,
             Threw(c)' \subseteq Threw(c)
      PROVE  attemptsMade'[c] + Cardinality(Threw(c)') <= faults'["host"]
  BY <1>s, <1>a, HostBoundKept
<1>1. ASSUME NEW d \in Submissions,
             \/ LookupSample(d) \/ AddSample(d) \/ AddSampleFails(d)
             \/ SampleResult(d) \/ SampleTimesOut(d)
             \/ PromoteSample(d) \/ MoveStalledSample(d)
      PROVE  attemptsMade'[c] + Cardinality(Threw(c)') <= faults'["host"]
  <2>1. UNCHANGED <<run, cur>>
    BY <1>1 DEF LookupSample, AddSample, AddSampleFails, SampleResult, SampleTimesOut,
            PromoteSample, MoveStalledSample, serviceVars, sandboxVars, runVars
  <2>2. attemptsMade' = attemptsMade \/ attemptsMade' = [attemptsMade EXCEPT ![d] = 0]
    BY <1>1 DEF LookupSample, AddSample, AddSampleFails, SampleResult, SampleTimesOut,
            PromoteSample, MoveStalledSample, AddJob, PromoteJob, StallJob, queueVars
  <2>3. attemptsMade'[c] = attemptsMade[c] \/ attemptsMade'[c] = 0
    BY <2>2, <1>i DEF QueueTypeOK
  <2> QED BY <2>1, <2>3, <1>s DEF Threw
<1>2. ASSUME NEW e \in Executors, Serving(e) \/ Computing(e)
      PROVE  attemptsMade'[c] + Cardinality(Threw(c)') <= faults'["host"]
  <2>1. /\ ServiceStep(e) \/ ProgramStep(e)
        /\ cur' = cur /\ attemptsMade' = attemptsMade
    BY <1>2 DEF Serving, Computing, serviceVars, queueVars
  <2>2. CASE Threw(c)' = Threw(c)
    BY <2>1, <2>2, <1>s
  <2>3. CASE Threw(c)' \subseteq Threw(c) \union {e} /\ Suffer("host")
    <3>1. Threw(c) \in SUBSET Executors
      BY DEF Threw
    <3>2. /\ Cardinality(Threw(c)) \in Nat /\ Cardinality(Threw(c)') \in Nat
          /\ Cardinality(Threw(c)') <= Cardinality(Threw(c)) + 1
      BY <2>3, <3>1, ThrewFinite
    <3>3. faults["host"] \in Nat /\ faults'["host"] = faults["host"] + 1
      BY <2>3, FaultsTyped DEF SampleInv, ServiceTypeOK, FaultKinds
    <3>4. attemptsMade[c] + Cardinality(Threw(c)) <= faults["host"]
      BY DEF HostBound
    <3> QED BY <3>2, <3>3, <3>4, <2>1, <1>a
  <2> QED BY <2>1, <2>2, <2>3, <1>i, ThrewOfRun
<1>3. ASSUME NEW e \in Executors, EndSample(e) \/ EndInline(e)
      PROVE  attemptsMade'[c] + Cardinality(Threw(c)') <= faults'["host"]
  <2>1. Threw(c)' = Threw(c) \ {e}
    <3>1. FreeSlot(e)
      BY <1>3 DEF EndSample, EndInline
    <3> QED BY <3>1, <1>i, SubmissionsAssumption DEF FreeSlot, Forget, Threw, RunInv
  <2>2. CASE attemptsMade'[c] = attemptsMade[c]
    BY <2>1, <2>2, <1>s
  <2>3. CASE attemptsMade'[c] # attemptsMade[c]
    <3>1. /\ EndSample(e) /\ cur[e] \in Submissions /\ RunEnded(e)
      BY <1>3, <2>3, <1>i, Returned DEF EndInline, queueVars, EndSample
    <3>2. run[e] = "threw" /\ FailAttempt(cur[e], e)
      BY <2>3, <3>1 DEF EndSample, RunEnded, CompleteJob, queueVars
    <3>3. cur[e] = c /\ attemptsMade'[c] = attemptsMade[c] + 1
      BY <2>3, <3>1, <3>2, <1>i DEF FailAttempt, queueVars, QueueTypeOK
    <3>4. e \in Threw(c) /\ Threw(c) \in SUBSET Executors
      BY <3>2, <3>3 DEF Threw
    <3>5. /\ Cardinality(Threw(c)) \in Nat
          /\ Cardinality(Threw(c)') = Cardinality(Threw(c)) - 1
      BY <3>4, <2>1, ThrewFinite
    <3>6. faults["host"] \in Nat /\ faults' = faults
      BY <3>1 DEF EndSample, SampleInv, ServiceTypeOK, FaultKinds
    <3>7. attemptsMade[c] + Cardinality(Threw(c)) <= faults["host"]
      BY DEF HostBound
    <3> QED BY <3>3, <3>5, <3>6, <3>7, <1>a
  <2> QED BY <2>2, <2>3
<1>4. ASSUME NEW e \in Executors, NEW d \in Submissions, StartSample(e, d) \/ StartInline(e, d)
      PROVE  attemptsMade'[c] + Cardinality(Threw(c)') <= faults'["host"]
  <2>1. attemptsMade' = attemptsMade
    BY <1>4 DEF StartSample, StartInline, TakeJob, queueVars
  <2>2. run' = [run EXCEPT ![e] = "start"] /\ cur' = [cur EXCEPT ![e] = d]
    BY <1>4 DEF StartSample, StartInline, RunStarts, Reach
  <2>3. Threw(c)' \subseteq Threw(c)
    BY <2>2, <1>i DEF Threw, RunInv
  <2> QED BY <2>1, <2>3, <1>s
<1>5. CASE ApiStops \/ WorkerDies
  <2>1. attemptsMade' = attemptsMade
    BY <1>5 DEF ApiStops, WorkerDies, queueVars
  <2>2. UNCHANGED <<run, cur>> \/ (Forget(Executors) /\ cur' = [e \in Executors |-> NoSub])
    BY <1>5 DEF ApiStops, WorkerDies, sandboxVars, runVars
  <2>3. Threw(c)' \subseteq Threw(c)
    BY <2>2, SubmissionsAssumption DEF Threw, Forget
  <2> QED BY <2>1, <2>3, <1>s
<1>6. CASE WorkerCloses \/ WorkerExits \/ WorkerBoots \/ Rest \/ UNCHANGED vars
  <2>1. UNCHANGED <<attemptsMade, run, cur>>
    BY <1>6 DEF WorkerCloses, WorkerExits, WorkerBoots, Rest, vars, queueVars, serviceVars,
                sandboxVars, runVars
  <2> QED BY <2>1, <1>s DEF Threw
<1> QED BY <1>1, <1>2, <1>3, <1>4, <1>5, <1>6 DEF Next

\* A job of the inline driver never gets into the queue.
LEMMA InlineStep ==
    ASSUME SampleInv, InlineQueue, [Next]_vars
    PROVE  InlineQueue'
<1>d. driver' = driver
  <2>1. ASSUME NEW c \in Submissions,
               \/ LookupSample(c) \/ AddSample(c) \/ AddSampleFails(c)
               \/ SampleResult(c) \/ SampleTimesOut(c)
               \/ PromoteSample(c) \/ MoveStalledSample(c)
        PROVE  driver' = driver
    BY <2>1 DEF LookupSample, AddSample, AddSampleFails, SampleResult, SampleTimesOut,
            PromoteSample, MoveStalledSample, serviceVars
  <2>2. ASSUME NEW e \in Executors,
               \/ Serving(e) \/ Computing(e) \/ EndSample(e) \/ EndInline(e)
               \/ \E c \in Submissions : StartSample(e, c) \/ StartInline(e, c)
        PROVE  driver' = driver
    BY <2>2 DEF Serving, Computing, EndSample, EndInline, StartSample, StartInline, serviceVars
  <2>3. CASE \/ ApiStops \/ WorkerDies \/ WorkerCloses \/ WorkerExits \/ WorkerBoots
             \/ Rest \/ UNCHANGED vars
    BY <2>3 DEF ApiStops, WorkerDies, WorkerCloses, WorkerExits, WorkerBoots, Rest, vars,
                serviceVars
  <2> QED BY <2>1, <2>2, <2>3 DEF Next
<1> SUFFICES ASSUME driver = "inline" PROVE UNCHANGED jobState
  BY <1>d DEF InlineQueue
<1>n. \A c \in Submissions : jobState[c] = "none"
  BY DEF InlineQueue
<1>1. ASSUME NEW c \in Submissions,
             \/ LookupSample(c) \/ AddSample(c) \/ AddSampleFails(c)
             \/ SampleResult(c) \/ SampleTimesOut(c)
             \/ PromoteSample(c) \/ MoveStalledSample(c)
      PROVE  jobState' = jobState
  BY <1>1, <1>n DEF LookupSample, AddSample, AddSampleFails, SampleResult, SampleTimesOut,
          PromoteSample, MoveStalledSample, PromoteJob, StallJob, queueVars
<1>2. ASSUME NEW e \in Executors,
             \/ Serving(e) \/ Computing(e) \/ EndSample(e) \/ EndInline(e)
             \/ \E c \in Submissions : StartSample(e, c) \/ StartInline(e, c)
      PROVE  jobState' = jobState
  BY <1>2 DEF Serving, Computing, EndSample, EndInline, StartSample, StartInline, queueVars
<1>3. CASE \/ ApiStops \/ WorkerDies \/ WorkerCloses \/ WorkerExits \/ WorkerBoots
           \/ Rest \/ UNCHANGED vars
  BY <1>3 DEF ApiStops, WorkerDies, WorkerCloses, WorkerExits, WorkerBoots, Rest, vars, queueVars
<1> QED BY <1>1, <1>2, <1>3 DEF Next

LEMMA StallStep ==
    ASSUME SampleInv, StallBound, InlineQueue, [Next]_vars
    PROVE  StallBound'
<1> DEFINE bound == faults["workerCrash"] + faults["unreadInput"] + faults["lockLoss"]
<1> SUFFICES ASSUME NEW c \in Submissions
             PROVE  /\ stalledCount'[c] <= bound'
                    /\ Orphan(c)' => stalledCount'[c] + 1 <= bound'
  BY DEF StallBound
<1> DEFINE Goal == /\ stalledCount'[c] <= bound'
                   /\ Orphan(c)' => stalledCount'[c] + 1 <= bound'
<1>i. RunInv /\ QueueTypeOK /\ ServiceTypeOK
  BY DEF SampleInv
<1>f. /\ bound \in Nat /\ bound' \in Nat /\ bound <= bound'
      /\ Suffer("workerCrash") \/ Suffer("unreadInput") \/ Suffer("lockLoss")
            => bound + 1 <= bound'
  <2>1. /\ faults' \in [FaultKinds -> Nat] /\ \A k \in FaultKinds : faults[k] <= faults'[k]
        /\ faults \in [FaultKinds -> Nat]
    BY FaultsStep, <1>i DEF ServiceTypeOK
  <2>2. {"workerCrash", "unreadInput", "lockLoss"} \subseteq FaultKinds
    BY DEF FaultKinds
  <2>3. /\ faults["unreadInput"] \in Nat /\ faults'["unreadInput"] \in Nat
        /\ faults["unreadInput"] <= faults'["unreadInput"]
        /\ faults["workerCrash"] \in Nat /\ faults["lockLoss"] \in Nat
        /\ faults'["workerCrash"] \in Nat /\ faults'["lockLoss"] \in Nat
        /\ faults["workerCrash"] <= faults'["workerCrash"]
        /\ faults["lockLoss"] <= faults'["lockLoss"]
    BY <2>1, <2>2
  <2>4. Suffer("workerCrash") => faults'["workerCrash"] = faults["workerCrash"] + 1
    BY <2>1, <2>2 DEF Suffer
  <2>5. Suffer("lockLoss") => faults'["lockLoss"] = faults["lockLoss"] + 1
    BY <2>1, <2>2 DEF Suffer
  <2>6. Suffer("unreadInput") => faults'["unreadInput"] = faults["unreadInput"] + 1
    BY <2>1, <2>2 DEF Suffer
  <2> QED BY <2>3, <2>4, <2>5, <2>6
<1>c. /\ stalledCount[c] \in Nat /\ stalledCount[c] <= bound
      /\ Orphan(c) => stalledCount[c] + 1 <= bound
  BY <1>i, QueueAssumption DEF StallBound, QueueTypeOK
<1> HIDE DEF bound
\* Steps that make nobody an orphan and count no stall.
<1>s. ASSUME stalledCount'[c] = stalledCount[c] \/ stalledCount'[c] = 0,
             Orphan(c)' => Orphan(c) /\ stalledCount'[c] = stalledCount[c]
      PROVE  Goal
  BY <1>s, <1>c, <1>f
<1>1. ASSUME NEW d \in Submissions,
             \/ LookupSample(d) \/ AddSample(d) \/ AddSampleFails(d)
             \/ SampleResult(d) \/ SampleTimesOut(d) \/ PromoteSample(d)
      PROVE  Goal
  <2>1. cur' = cur
    BY <1>1 DEF LookupSample, AddSample, AddSampleFails, SampleResult, SampleTimesOut,
            PromoteSample, serviceVars
  <2>2. UNCHANGED queueVars \/ AddJob(d) \/ PromoteJob(d)
    BY <1>1 DEF LookupSample, AddSample, AddSampleFails, SampleResult, SampleTimesOut,
            PromoteSample
  <2>3. CASE UNCHANGED queueVars
    BY <2>1, <2>3, <1>s DEF queueVars, Orphan
  <2>4. CASE AddJob(d)
    BY <2>1, <2>4, <1>s, <1>i DEF AddJob, queueVars, QueueTypeOK, Orphan
  <2>5. CASE PromoteJob(d)
    BY <2>1, <2>5, <1>s, <1>i DEF PromoteJob, QueueTypeOK, Orphan
  <2> QED BY <2>2, <2>3, <2>4, <2>5
<1>2. ASSUME NEW d \in Submissions, MoveStalledSample(d)
      PROVE  Goal
  <2>1. StallJob(d) /\ cur' = cur
    BY <1>2 DEF MoveStalledSample, serviceVars
  <2>2. CASE c # d
    BY <2>1, <2>2, <1>s, <1>i DEF StallJob, QueueTypeOK, Orphan
  <2>3. CASE c = d
    <3>1. stalledCount'[c] = stalledCount[c] + 1 /\ jobState[c] = "active" /\ ~Orphan(c)'
      BY <2>1, <2>3, <1>i DEF StallJob, QueueTypeOK, Orphan
    <3>2. Orphan(c) \/ Suffer("lockLoss")
      BY <1>2, <2>3, <3>1, <1>i DEF MoveStalledSample, Orphan, QueueTypeOK
    <3>3. stalledCount[c] + 1 <= bound'
      BY <3>2, <1>c, <1>f
    <3> QED BY <3>1, <3>3
  <2> QED BY <2>2, <2>3
<1>3. ASSUME NEW e \in Executors, Serving(e) \/ Computing(e)
      PROVE  Goal
  BY <1>3, <1>s DEF Serving, Computing, serviceVars, queueVars, Orphan
<1>4. ASSUME NEW e \in Executors, EndSample(e)
      PROVE  Goal
  <2> DEFINE d == cur[e]
  <2>1. /\ d \in Submissions /\ cur' = [cur EXCEPT ![e] = NoSub]
        /\ CompleteJob(d, e) \/ FailAttempt(d, e)
    BY <1>4, <1>i, Returned DEF EndSample, FreeSlot
  <2>2. stalledCount' = stalledCount
    BY <2>1 DEF CompleteJob, FailAttempt, queueVars
  <2>3. Orphan(c)' => Orphan(c)
    <3>1. CASE Owns(e, d)
      <4>1. /\ c = d => jobState'[c] # "active"
            /\ c # d => jobState'[c] = jobState[c] /\ holder'[c] = holder[c]
        BY <2>1, <3>1, <1>i DEF CompleteJob, FailAttempt, QueueTypeOK
      <4>2. c # d => cur'[holder[c]] = cur[holder[c]] \/ holder[c] = e
        BY <2>1, <1>i DEF RunInv
      <4> QED BY <4>1, <4>2 DEF Orphan
    <3>2. CASE ~Owns(e, d)
      <4>1. UNCHANGED queueVars
        BY <2>1, <3>2 DEF CompleteJob, FailAttempt
      <4>2. jobState[c] = "active" /\ holder[c] = e => cur[e] # c
        BY <3>2 DEF Owns
      <4> QED BY <4>1, <4>2, <2>1, <1>i DEF Orphan, RunInv, QueueTypeOK, queueVars
    <3> QED BY <3>1, <3>2
  <2> QED BY <2>2, <2>3, <1>s
<1>5. ASSUME NEW e \in Executors, NEW d \in Submissions, StartSample(e, d)
      PROVE  Goal
  <2>1. TakeJob(d, e) /\ cur' = [cur EXCEPT ![e] = d] /\ cur[e] = NoSub
    BY <1>5, <1>i DEF StartSample, RunStarts, RunInv
  <2>2. stalledCount' = stalledCount
    BY <2>1 DEF TakeJob
  <2>3. Orphan(c)' => Orphan(c)
    BY <2>1, <1>i, SubmissionsAssumption DEF Orphan, TakeJob, RunInv, QueueTypeOK
  <2> QED BY <2>2, <2>3, <1>s
<1>6. ASSUME UNCHANGED queueVars, driver = "inline"
      PROVE  Goal
  BY <1>6, <1>s DEF InlineQueue, Orphan, queueVars
<1>7. ASSUME NEW e \in Executors, EndInline(e) \/ \E d \in Submissions : StartInline(e, d)
      PROVE  Goal
  BY <1>7, <1>6 DEF EndInline, StartInline
<1>8. CASE ApiStops
  <2>1. CASE driver = "inline"
    BY <1>8, <2>1, <1>6 DEF ApiStops
  <2>2. CASE driver # "inline"
    BY <1>8, <2>2, <1>s DEF ApiStops, queueVars, Orphan
  <2> QED BY <2>1, <2>2
<1>9. CASE WorkerDies
  <2>1. Suffer("workerCrash") \/ Suffer("unreadInput")
    BY <1>9 DEF WorkerDies, InputUnread
  <2>s. stalledCount' = stalledCount
    BY <1>9 DEF WorkerDies, queueVars
  <2> QED BY <2>1, <2>s, <1>c, <1>f
<1>10. CASE WorkerCloses \/ WorkerExits \/ WorkerBoots \/ Rest \/ UNCHANGED vars
  BY <1>10, <1>s DEF WorkerCloses, WorkerExits, WorkerBoots, Rest, vars, queueVars, serviceVars,
                Orphan
<1> QED BY <1>1, <1>2, <1>3, <1>4, <1>5, <1>7, <1>8, <1>9, <1>10 DEF Next

LEMMA FaultInvariant == Spec => []FaultInv
<1>1. Init => FaultInv
  <2> SUFFICES ASSUME Init PROVE FaultInv
    OBVIOUS
  <2> USE DEF Init, QueueInit
  <2>1. /\ faults["host"] = 0 /\ faults["workerCrash"] = 0
        /\ faults["unreadInput"] = 0 /\ faults["lockLoss"] = 0
    BY DEF FaultKinds
  <2>2. ASSUME NEW c \in Submissions PROVE attemptsMade[c] + Cardinality(Threw(c)) <= faults["host"]
    <3>1. Threw(c) = {}
      BY DEF SandboxInit, Threw
    <3>2. Cardinality(Threw(c)) = 0
      BY <3>1, FS_EmptySet
    <3> QED BY <2>1, <3>2
  <2> QED BY <2>1, <2>2 DEF FaultInv, HostBound, StallBound, Orphan, InlineQueue
<1>2. SampleInv /\ FaultInv /\ [Next]_vars => FaultInv'
  <2> SUFFICES ASSUME SampleInv, FaultInv, [Next]_vars PROVE FaultInv'
    OBVIOUS
  <2> QED BY HostStep, StallStep, InlineStep DEF FaultInv
<1> QED BY <1>1, <1>2, SampleInvariant, PTL DEF Spec

-----------------------------------------------------------------------------
(* The theorems.                                                           *)

\* Every variable of SampleRun has its type: an executor is idle exactly when
\* it has no job, and a run that is cleaned up or returned has its result.
THEOREM SampleTypes == Spec => []SampleTypeOK
<1>1. SampleInv => SampleTypeOK
  <2> SUFFICES ASSUME SampleInv PROVE SampleTypeOK
    OBVIOUS
  <2>1. SandboxTypeOK
    BY DEF SampleInv, RunInv, LitterBound, Results, SandboxTypeOK
  <2>2. tally \in Nat
    BY BusyFinite DEF SampleInv, Counted, Busy
  <2> QED BY <2>1, <2>2 DEF SampleInv, RunInv, ServiceTypeOK, Results, SampleTypeOK
<1> QED BY <1>1, SampleInvariant, PTL

\* No run outlives its timer or its directory, and directories are left behind
\* only by removals that failed and processes that died, however many.
THEOREM RunsLeaveNothing == Spec => []NothingLeftBehind
<1>1. SampleInv => NothingLeftBehind
  BY DEF SampleInv, RunInv, LitterBound, NothingLeftBehind
<1> QED BY <1>1, SampleInvariant, PTL

\* judge_jobs_total started - completed - failed is the number of runs going on.
THEOREM JobCountersAddUp == Spec => []CountersAddUp
<1>1. SampleInv => CountersAddUp
  BY DEF SampleInv, Counted, Busy, CountersAddUp
<1> QED BY <1>1, SampleInvariant, PTL

\* The answer a caller got is, for good, the result its job keeps.
THEOREM AnswersAreKept == Spec => []AnswerIsKept
<1>1. SampleInv => AnswerIsKept
  BY DEF SampleInv, Kept, AnswerIsKept
<1> QED BY <1>1, SampleInvariant, PTL

\* The attempts of a job are used up by failures of the worker's host alone,
\* with any number of slots, retries and lost locks.
THEOREM OnlyTheHostFailsJobs == Spec => []OnlyHostFailsJobs
<1>1. SampleInv /\ FaultInv => OnlyHostFailsJobs
  <2> SUFFICES ASSUME SampleInv, FaultInv, NEW c \in Submissions
               PROVE  attemptsMade[c] <= faults["host"]
    BY DEF OnlyHostFailsJobs
  <2>1. Cardinality(Threw(c)) \in Nat
    BY BusyFinite DEF Threw
  <2>2. attemptsMade[c] \in Nat /\ faults["host"] \in Nat
    BY QueueAssumption DEF SampleInv, QueueTypeOK, ServiceTypeOK, FaultKinds
  <2>3. attemptsMade[c] + Cardinality(Threw(c)) <= faults["host"]
    BY DEF FaultInv, HostBound
  <2> QED BY <2>1, <2>2, <2>3
<1> QED BY <1>1, SampleInvariant, FaultInvariant, PTL

\* A job is redelivered only after a death of the worker or a lost lock: a
\* worker that is closed leaves no job it holds unfinished.
THEOREM ClosingDrains == Spec => []CloseDrains
<1>1. FaultInv => CloseDrains
  BY DEF FaultInv, StallBound, CloseDrains
<1> QED BY <1>1, FaultInvariant, PTL

=============================================================================
