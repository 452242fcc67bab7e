---------------------------- MODULE JobQueueProofs ----------------------------
(***************************************************************************)
(* Proofs about JobQueue for every set of jobs, images and requests, every *)
(* clock and every runtime.  One lemma per group of actions shows that     *)
(* TypeOK is inductive; the two action properties follow from it, the      *)
(* second one with a further invariant about the jobs not counted yet.     *)
(***************************************************************************)
EXTENDS JobQueue, FiniteSetTheorems, WellFoundedInduction, TLAPS

(* The arithmetic of response ratios: who has waited longer (a > b) and    *)
(* yet ranks no higher is expected to run longer.                          *)
LEMMA LongerWaitLowerRank ==
  ASSUME NEW a \in Nat, NEW b \in Nat, NEW d \in Nat \ {0}, NEW e \in Nat \ {0},
         b < a, ~(a * d > b * e)
  PROVE  d < e
<1>1. SUFFICES ASSUME e <= d PROVE FALSE
  OBVIOUS
<1>2. PICK k \in Nat : d = e + k
  <2>1. d - e \in Nat /\ d = e + (d - e)
    BY <1>1
  <2> QED
    BY <2>1
<1>3. a * d = a * e + a * k /\ a * k \in Nat
  BY <1>2, SMT
<1>4. PICK m \in Nat : a = b + m /\ m > 0
  <2>1. a - b \in Nat /\ a = b + (a - b) /\ a - b > 0
    OBVIOUS
  <2> QED
    BY <2>1
<1>5. a * e = b * e + m * e /\ m * e > 0 /\ b * e \in Nat
  BY <1>4, SMT
<1> QED
  BY <1>3, <1>5, SMT

(* Products of natural numbers, which the provers do not see by themselves *)
(* once they stand in a record.                                            *)
LEMMA ProductIsNat ==
  /\ \A m, n \in Nat : m * n \in Nat
  /\ \A m, n \in Nat \ {0} : m * n \in Nat \ {0}
BY SMT

(* Whole seconds are seconds.                                              *)
LEMMA WholeIsSeconds ==
  \A n \in Nat : Whole(n) \in Seconds /\ Whole(n).num = n /\ Whole(n).den = 1
BY DEF Whole, Seconds

(* What a completion writes: one job more, and its runtime in the mean.    *)
LEMMA AverageWritten ==
  ASSUME NEW image \in Image, NEW runtime \in Nat
  PROVE  LET new == Averaged(image, runtime) IN
         /\ new \in Image
         /\ new.default = image.default /\ new.made = image.made
         /\ new.total = image.total + 1
         /\ image.total = 0 => new.avg = Whole(runtime)
         /\ image.total # 0 =>
              /\ new.avg.num = image.avg.num * image.total + runtime * image.avg.den
              /\ new.avg.den = image.avg.den * (image.total + 1)
<1> DEFINE num == image.avg.num * image.total + runtime * image.avg.den
           den == image.avg.den * (image.total + 1)
           avg == IF image.total = 0 THEN Whole(runtime) ELSE [num |-> num, den |-> den]
<1>1. Averaged(image, runtime) = [image EXCEPT !.avg = avg, !.total = image.total + 1]
  BY DEF Averaged
<1>2. /\ image.avg.num \in Nat /\ image.avg.den \in Nat \ {0}
      /\ image.total \in Nat /\ image.total + 1 \in Nat \ {0}
  BY DEF Image, Seconds
<1>3. num \in Nat /\ den \in Nat \ {0}
  <2>1. image.avg.num * image.total \in Nat /\ runtime * image.avg.den \in Nat
    BY <1>2, ProductIsNat
  <2>2. den \in Nat \ {0}
    BY <1>2, ProductIsNat
  <2> QED
    BY <2>1, <2>2
<1>4. avg \in Seconds
  <2> HIDE DEF num, den
  <2> QED
    BY <1>3, WholeIsSeconds DEF Seconds
<1>5. image.total # 0 => avg.num = num /\ avg.den = den
  OBVIOUS
<1>6. image.total = 0 => avg = Whole(runtime)
  OBVIOUS
<1> HIDE DEF avg
<1>7. /\ Averaged(image, runtime) \in Image
      /\ Averaged(image, runtime).default = image.default
      /\ Averaged(image, runtime).made = image.made
      /\ Averaged(image, runtime).total = image.total + 1
      /\ Averaged(image, runtime).avg = avg
  BY <1>1, <1>2, <1>4 DEF Image
<1> QED
  BY <1>5, <1>6, <1>7

(* A row may be written if it has a positive estimate and, while the job   *)
(* is in the system, an image configuration.                               *)
LEMMA RowWritten ==
  ASSUME TypeOK, NEW j \in Jobs, NEW row \in Job,
         row.est.num > 0, row.submitted <= now,
         row.status \in Active => row.image \in Images,
         jobs' = [jobs EXCEPT ![j] = row], now' = now
  PROVE  JobsOK'
BY DEF TypeOK, JobsOK

(* The rows of a job before its submission and after its end.              *)
LEMMA RowsOfJobs ==
  /\ NoJob \in Job /\ Ended \in Job
  /\ Ended.est.num > 0 /\ Ended.status \notin Active
  /\ Ended.submitted = 0
<1>1. 0 \in 0..MaxRetries
  BY BoundsAssumption
<1>2. NoJob \in Job
  BY <1>1, WholeIsSeconds DEF NoJob, Job, Active
<1>3. NoJob.est.num = 1 /\ NoJob.submitted = 0
  BY WholeIsSeconds DEF NoJob
<1>4. /\ Ended \in Job /\ Ended.status = "ended"
      /\ Ended.est = NoJob.est /\ Ended.submitted = NoJob.submitted
  BY <1>2 DEF Ended, Job
<1> QED
  BY <1>2, <1>3, <1>4 DEF Active

(* A job that ends stays well typed.                                       *)
LEMMA JobEnded ==
  ASSUME TypeOK, NEW j \in Jobs, jobs' = [jobs EXCEPT ![j] = Ended], now' = now
  PROVE  JobsOK'
<1>1. Ended.submitted <= now
  BY RowsOfJobs DEF TypeOK
<1> QED
  BY <1>1, RowWritten, RowsOfJobs

(* A request that goes on or ends.                                         *)
LEMMA FrameWritten ==
  ASSUME TypeOK, NEW c \in Clients, NEW frame \in ClientFrame,
         frame.pc = "create" => frame.image \in Images /\ frame.est.num > 0,
         client' = [client EXCEPT ![c] = frame]
  PROVE  ClientsOK'
BY DEF TypeOK, ClientsOK

(* The frames of a request.                                                *)
LEMMA FramesOfClients ==
  /\ ClientIdle \in ClientFrame
  /\ ClientIdle.pc = "idle"
  /\ \A j \in Jobs, pc \in {"store", "cancel"} :
       LET frame == [ClientIdle EXCEPT !.pc = pc, !.job = {j}] IN
       frame \in ClientFrame /\ frame.pc = pc
<1>1. ClientIdle \in ClientFrame /\ ClientIdle.pc = "idle"
  BY WholeIsSeconds DEF ClientIdle, ClientFrame
<1>2. ASSUME NEW j \in Jobs, NEW pc \in {"store", "cancel"}
      PROVE  LET frame == [ClientIdle EXCEPT !.pc = pc, !.job = {j}] IN
             frame \in ClientFrame /\ frame.pc = pc
  <2>1. {j} \in SUBSET Jobs
    OBVIOUS
  <2> QED
    BY <1>1, <2>1 DEF ClientFrame
<1> QED
  BY <1>1, <1>2

(* The initial tables are well typed.                                      *)
LEMMA InitTypeOK == Init => TypeOK
BY BoundsAssumption, WholeIsSeconds
   DEF Init, TypeOK, JobsOK, ClientsOK, Image, NoImage, Job, NoJob, Active,
       ClientFrame, ClientIdle, AdminIdle, ReaderIdle

(* An edit writes none of the columns that a completion writes.            *)
LEMMA SaveKeepsStatistics ==
  ASSUME NEW row \in Image, NEW snap \in Image, NEW new \in Image
  PROVE  LET saved == Saved(row, snap, new) IN
         /\ saved \in Image
         /\ saved.made = row.made /\ saved.avg = row.avg /\ saved.total = row.total
         /\ row.default > 0 /\ new.default > 0 => saved.default > 0
<1> DEFINE x == IF new.default = snap.default THEN row.default ELSE new.default
           y == IF new.active = snap.active THEN row.active ELSE new.active
<1>1. Saved(row, snap, new) = [row EXCEPT !.default = x, !.active = y]
  BY DEF Saved
<1>2. /\ x \in Nat /\ y \in BOOLEAN
      /\ row.default > 0 /\ new.default > 0 => x > 0
  BY DEF Image
<1> HIDE DEF x, y
<1> QED
  BY <1>1, <1>2 DEF Image

(* Image configurations keep a positive default estimate.                  *)
LEMMA ConfigurePreserves ==
  ASSUME TypeOK,
         \/ \E i \in Images : ImageInsert(i)
         \/ \E a \in Admins : Configure(a)
  PROVE  TypeOK'
<1>1. ASSUME NEW i \in Images, ImageInsert(i) PROVE TypeOK'
  <2>1. PICK default \in Defaults : images' = [images EXCEPT ![i] = NewImage(default)]
    BY <1>1 DEF ImageInsert
  <2>2. default \in Nat \ {0}
    BY RuntimesAssumption
  <2> QED
    BY <1>1, <2>1, <2>2, WholeIsSeconds
    DEF ImageInsert, NewImage, TypeOK, JobsOK, ClientsOK, Image
<1>2. ASSUME NEW a \in Admins, NEW i \in Images, ImageFind(a, i) PROVE TypeOK'
  BY <1>2 DEF ImageFind, TypeOK, JobsOK, ClientsOK
<1>3. ASSUME NEW a \in Admins, ImageSave(a) PROVE TypeOK'
  <2> DEFINE i == admin[a].image
             snap == admin[a].snap
  <2>1. PICK default \in Defaults, active \in BOOLEAN :
          images' = [images EXCEPT ![i] =
            Saved(@, snap, [snap EXCEPT !.default = default, !.active = active])]
    BY <1>3 DEF ImageSave
  <2>2. default \in Nat \ {0} /\ i \in Images
    BY <1>3, RuntimesAssumption DEF TypeOK, ImageSave
  <2>3. images[i] \in Image /\ snap \in Image
    BY <2>2 DEF TypeOK
  <2> DEFINE new == [snap EXCEPT !.default = default, !.active = active]
             saved == Saved(images[i], snap, new)
  <2>4. new \in Image /\ new.default = default
    BY <2>2, <2>3 DEF Image
  <2>5. /\ saved \in Image
        /\ saved.made = images[i].made
        /\ images[i].default > 0 => saved.default > 0
    <3> HIDE DEF new
    <3> QED
      BY <2>2, <2>3, <2>4, SaveKeepsStatistics
  <2>6. images' = [images EXCEPT ![i] = saved]
    BY <2>1
  <2> HIDE DEF saved
  <2> QED
    BY <1>3, <2>2, <2>5, <2>6, WholeIsSeconds
    DEF ImageSave, TypeOK, JobsOK, ClientsOK, AdminIdle, NoImage, Image
<1>4. ASSUME NEW a \in Admins, ImageRefused(a) PROVE TypeOK'
  BY <1>4, WholeIsSeconds DEF ImageRefused, TypeOK, JobsOK, ClientsOK, AdminIdle, NoImage, Image
<1> QED
  BY <1>1, <1>2, <1>3, <1>4 DEF Configure

(* A job is created with a positive estimate.                              *)
LEMMA SubmitPreserves ==
  ASSUME TypeOK, NEW c \in Clients, Submit(c)
  PROVE  TypeOK'
<1>1. ASSUME NEW i \in Images, SubmitFind(c, i) PROVE TypeOK'
  <2>1. Estimate(images[i]) \in Seconds /\ Estimate(images[i]).num > 0
    BY <1>1, WholeIsSeconds DEF SubmitFind, Usable, Estimate, TypeOK, Image
  <2> DEFINE frame == [pc |-> "create", job |-> {}, image |-> i,
                       est |-> Estimate(images[i])]
  <2>2. frame \in ClientFrame /\ frame.image = i /\ frame.est.num > 0
    BY <2>1 DEF ClientFrame
  <2>3. ClientsOK'
    BY <1>1, <2>2, FrameWritten DEF SubmitFind
  <2> QED
    BY <1>1, <2>3 DEF SubmitFind, TypeOK, JobsOK
<1>2. ASSUME NEW j \in Jobs, SubmitCreate(c, j) PROVE TypeOK'
  <2>1. /\ client[c].est \in Seconds /\ client[c].est.num > 0
        /\ client[c].image \in Images /\ now \in Nat
    BY <1>2 DEF SubmitCreate, TypeOK, ClientsOK, ClientFrame
  <2> DEFINE row == [NoJob EXCEPT !.status = "pending", !.submitted = now,
                                  !.est = client[c].est, !.image = client[c].image]
  <2>2. /\ row \in Job /\ row.est = client[c].est /\ row.submitted = now
        /\ row.image = client[c].image
    BY <2>1, RowsOfJobs DEF NoJob, Job, Active
  <2>3. jobs' = [jobs EXCEPT ![j] = row] /\ now' = now
    BY <1>2 DEF SubmitCreate
  <2>4. JobsOK'
    <3> HIDE DEF row
    <3>1. row.est.num > 0 /\ row.submitted <= now /\ row.image \in Images
      BY <2>1, <2>2
    <3> QED
      BY <2>2, <2>3, <3>1, RowWritten
  <2>5. ClientsOK'
    BY <1>2, FrameWritten, FramesOfClients DEF SubmitCreate
  <2> QED
    BY <1>2, <2>4, <2>5 DEF SubmitCreate, TypeOK
<1>3. ASSUME SubmitStore(c) PROVE TypeOK'
  <2>1. ClientsOK'
    BY <1>3, FrameWritten, FramesOfClients DEF SubmitStore
  <2> QED
    BY <1>3, <2>1 DEF SubmitStore, TypeOK, JobsOK
<1>4. ASSUME NEW j \in Jobs, SubmitUndo(c, j) PROVE TypeOK'
  <2>1. JobsOK'
    BY <1>4, JobEnded DEF SubmitUndo
  <2>2. ClientsOK'
    BY <1>4, FrameWritten, FramesOfClients DEF SubmitUndo
  <2> QED
    BY <1>4, <2>1, <2>2 DEF SubmitUndo, TypeOK
<1> QED
  BY <1>1, <1>2, <1>3, <1>4 DEF Submit

(* cancelJob keeps the types.                                              *)
LEMMA CancelPreserves ==
  ASSUME TypeOK, NEW c \in Clients, Cancel(c)
  PROVE  TypeOK'
<1>1. ASSUME NEW j \in Jobs, CancelFind(c, j) PROVE TypeOK'
  <2>1. ClientsOK'
    BY <1>1, FrameWritten, FramesOfClients DEF CancelFind
  <2> QED
    BY <1>1, <2>1 DEF CancelFind, TypeOK, JobsOK
<1>2. ASSUME NEW j \in Jobs, CancelSave(c, j) PROVE TypeOK'
  <2>1. JobsOK'
    BY <1>2, JobEnded DEF CancelSave
  <2>2. ClientsOK'
    BY <1>2, FrameWritten, FramesOfClients DEF CancelSave
  <2> QED
    BY <1>2, <2>1, <2>2 DEF CancelSave, TypeOK
<1> QED
  BY <1>1, <1>2 DEF Cancel

(* Claiming a job and all that ends it keep the types.                     *)
LEMMA GradePreserves ==
  ASSUME TypeOK, NEW j \in Jobs, Grade(j)
  PROVE  TypeOK'
<1>1. CASE Claim(j)
  <2>1. jobs[j].status \in Active
    BY <1>1 DEF Claim, Highest, Pending, Active
  <2>2. JobsOK'
    <3> DEFINE row == [jobs[j] EXCEPT !.status = "processing"]
    <3>1. /\ row \in Job /\ row.est = jobs[j].est /\ row.submitted = jobs[j].submitted
          /\ row.image = jobs[j].image
      BY DEF TypeOK, JobsOK, Job, Active
    <3>2. jobs' = [jobs EXCEPT ![j] = row] /\ now' = now
      BY <1>1 DEF Claim
    <3>3. jobs[j].est.num > 0 /\ jobs[j].submitted <= now /\ jobs[j].image \in Images
      BY <2>1 DEF TypeOK, JobsOK
    <3> HIDE DEF row
    <3> QED
      BY <3>1, <3>2, <3>3, RowWritten
  <2> QED
    BY <1>1, <2>2 DEF Claim, TypeOK, ClientsOK
<1>2. CASE Complete(j)
  <2> DEFINE i == jobs[j].image
  <2>1. i \in Images
    BY <1>2 DEF Complete, Processing, TypeOK, JobsOK, Active
  <2>2. PICK runtime \in Runtimes :
          /\ images' = [images EXCEPT ![i] = Averaged(@, runtime)]
          /\ spent' = [spent EXCEPT ![i] = @ + runtime]
    BY <1>2 DEF Complete
  <2>3. runtime \in Nat /\ images[i] \in Image
    BY <2>1, RuntimesAssumption DEF TypeOK
  <2>6. /\ images' \in [Images -> Image]
        /\ \A k \in Images : images'[k].made => images'[k].default > 0
    BY <2>1, <2>2, <2>3, AverageWritten DEF TypeOK
  <2>7. spent' \in [Images -> Nat]
    BY <2>1, <2>2, <2>3 DEF TypeOK
  <2>8. JobsOK'
    BY <1>2, JobEnded DEF Complete
  <2> QED
    BY <1>2, <2>6, <2>7, <2>8 DEF Complete, TypeOK, ClientsOK
<1>3. CASE Requeue(j)
  <2>1. PICK swept \in BOOLEAN :
          jobs' = [jobs EXCEPT ![j].status = "pending", ![j].retries = @ + 1,
                               ![j].stray = @ \/ swept]
    BY <1>3 DEF Requeue
  <2>2. jobs[j] \in Job /\ jobs[j].retries + 1 \in 0..MaxRetries
    BY <1>3, BoundsAssumption DEF Requeue, TypeOK, JobsOK, Job
  <2>3. jobs[j].stray \in BOOLEAN
    BY <2>2 DEF Job
  <2>4. (jobs[j].stray \/ swept) \in BOOLEAN
    OBVIOUS
  <2>5. jobs[j].image \in Images
    BY <1>3 DEF Requeue, Processing, TypeOK, JobsOK, Active
  <2> DEFINE row == [jobs[j] EXCEPT !.status = "pending", !.retries = @ + 1,
                                    !.stray = @ \/ swept]
  <2>6. row \in Job /\ row.est = jobs[j].est /\ row.submitted = jobs[j].submitted
                    /\ row.image = jobs[j].image
    BY <2>2, <2>4 DEF Job, Active
  <2>7. jobs' = [jobs EXCEPT ![j] = row]
    BY <2>1
  <2> HIDE DEF row
  <2>8. JobsOK'
    <3>1. jobs[j].est.num > 0 /\ jobs[j].submitted <= now /\ now' = now
      BY <1>3 DEF Requeue, TypeOK, JobsOK
    <3> QED
      BY <2>5, <2>6, <2>7, <3>1, RowWritten
  <2>9. reader' \in [Readers -> [pc : {"idle", "status"}, uncounted : SUBSET Jobs]]
    BY <1>3 DEF Requeue, TypeOK
  <2> QED
    BY <1>3, <2>8, <2>9 DEF Requeue, TypeOK, ClientsOK
<1>4. CASE Fail(j)
  <2>1. JobsOK'
    BY <1>4, JobEnded DEF Fail
  <2> QED
    BY <1>4, <2>1 DEF Fail, TypeOK, ClientsOK
<1>5. CASE StrayEnds(j)
  <2>1. JobsOK'
    <3> DEFINE row == [jobs[j] EXCEPT !.stray = FALSE]
    <3>0. jobs[j] \in Job
      BY DEF TypeOK, JobsOK
    <3>1. /\ row \in Job /\ row.est = jobs[j].est /\ row.submitted = jobs[j].submitted
          /\ row.image = jobs[j].image /\ row.status = jobs[j].status
      BY <3>0 DEF Job
    <3>2. jobs' = [jobs EXCEPT ![j] = row] /\ now' = now
      BY <1>5 DEF StrayEnds
    <3>3. /\ jobs[j].est.num > 0 /\ jobs[j].submitted <= now
          /\ jobs[j].status \in Active => jobs[j].image \in Images
      BY DEF TypeOK, JobsOK
    <3> HIDE DEF row
    <3> QED
      BY <3>1, <3>2, <3>3, RowWritten
  <2> QED
    BY <1>5, <2>1 DEF StrayEnds, TypeOK, ClientsOK
<1> QED
  BY <1>1, <1>2, <1>3, <1>4, <1>5 DEF Grade

(* The status queries keep the types.                                      *)
LEMMA StatusPreserves ==
  ASSUME TypeOK, NEW r \in Readers, Status(r)
  PROVE  TypeOK'
<1>1. CASE StatusFirst(r)
  BY <1>1 DEF StatusFirst, Pending, Processing, TypeOK, JobsOK, ClientsOK
<1>2. CASE StatusSecond(r)
  BY <1>2 DEF StatusSecond, ReaderIdle, TypeOK, JobsOK, ClientsOK
<1> QED
  BY <1>1, <1>2 DEF Status

(* Every step keeps the types.                                             *)
LEMMA NextTypeOK == TypeOK /\ [Next]_vars => TypeOK'
<1> SUFFICES ASSUME TypeOK, [Next]_vars PROVE TypeOK'
  OBVIOUS
<1>1. CASE Tick
  BY <1>1 DEF Tick, TypeOK, JobsOK, ClientsOK, Job
<1>2. CASE UNCHANGED vars
  BY <1>2 DEF vars, TypeOK, JobsOK, ClientsOK
<1>3. CASE \E c \in Clients : Submit(c) \/ Cancel(c)
  BY <1>3, SubmitPreserves, CancelPreserves
<1>4. CASE \E j \in Jobs : Grade(j)
  BY <1>4, GradePreserves
<1>5. CASE \E r \in Readers : Status(r)
  BY <1>5, StatusPreserves
<1> QED
  BY <1>1, <1>2, <1>3, <1>4, <1>5, ConfigurePreserves DEF Next

(* dequeueNext never divides by zero, nor do the queries that report on    *)
(* the queue: every estimate is positive.                                  *)
THEOREM QueueTypeCorrect == Spec => []TypeOK
BY InitTypeOK, NextTypeOK, PTL DEF Spec

--------------------------------------------------------------------------------
(* The claim of dequeueNext never lets a job pass one that was submitted   *)
(* earlier and is expected to run no longer.                               *)
THEOREM FairOrder == Spec => NoUnfairOvertaking
<1>1. ASSUME TypeOK, NEW i \in Jobs, NEW j \in Jobs, Claim(j),
             i \in Pending \ Touched, jobs[i].submitted < jobs[j].submitted
      PROVE  Less(jobs[j].est, jobs[i].est)
  <2>1. PICK locked \in SUBSET Touched : j \in Highest(Pending \ locked)
    BY <1>1 DEF Claim
  <2>2. ~Outranks(i, j)
    BY <1>1, <2>1 DEF Highest
  <2>3. /\ jobs[i].est \in Seconds /\ jobs[i].est.num > 0
        /\ jobs[j].est \in Seconds /\ jobs[j].est.num > 0
        /\ Age(i) \in Nat /\ Age(j) \in Nat /\ Age(j) < Age(i)
    BY <1>1 DEF TypeOK, JobsOK, Job, Age
  <2> DEFINE d == jobs[j].est.num * jobs[i].est.den
             e == jobs[i].est.num * jobs[j].est.den
  <2>4. d \in Nat \ {0} /\ e \in Nat \ {0}
    BY <2>3, ProductIsNat DEF Seconds
  <2>5. ~(Age(i) * d > Age(j) * e)
    BY <2>2 DEF Outranks
  <2>6. d < e
    <3> HIDE DEF d, e
    <3> QED
      BY <2>3, <2>4, <2>5, LongerWaitLowerRank
  <2> QED
    BY <2>6 DEF Less
<1>2. TypeOK =>
        [\A i, j \in Jobs :
           /\ Claim(j)
           /\ i \in Pending \ Touched
           /\ jobs[i].submitted < jobs[j].submitted
           => Less(jobs[j].est, jobs[i].est)]_vars
  BY <1>1
<1> QED
  BY <1>2, QueueTypeCorrect, PTL DEF NoUnfairOvertaking

--------------------------------------------------------------------------------
(* What the first query of the status did not count is being processed or  *)
(* has ended: it did not go back into the queue.                           *)
UncountedGoOn ==
  \A r \in Readers : \A j \in reader[r].uncounted :
    jobs[j].status \in {"processing", "ended"}

(* A job the status queries have not counted yet can still be counted.     *)
LEMMA NextUncountedGoOn ==
  ASSUME TypeOK, UncountedGoOn, [Next]_vars
  PROVE  UncountedGoOn'
<1>1. CASE \/ Tick \/ UNCHANGED vars \/ \E i \in Images : ImageInsert(i)
           \/ \E a \in Admins : Configure(a)
  BY <1>1 DEF Tick, vars, ImageInsert, Configure, ImageFind, ImageSave, ImageRefused,
              UncountedGoOn
<1>2. ASSUME NEW c \in Clients, Submit(c) \/ Cancel(c) PROVE UncountedGoOn'
  <2>1. UNCHANGED reader
    BY <1>2 DEF Submit, Cancel, SubmitFind, SubmitCreate, SubmitStore, SubmitUndo,
                CancelFind, CancelSave
  <2>2. \A j \in Jobs : jobs[j].status \in {"processing", "ended"}
          => jobs'[j].status \in {"processing", "ended"}
    <3>1. \/ UNCHANGED jobs
          \/ \E j \in Jobs : SubmitCreate(c, j)
          \/ \E j \in Jobs : jobs' = [jobs EXCEPT ![j] = Ended]
      BY <1>2 DEF Submit, Cancel, SubmitFind, SubmitStore, SubmitUndo, CancelFind,
                  CancelSave
    <3>2. CASE \E j \in Jobs : SubmitCreate(c, j)
      BY <3>2 DEF SubmitCreate, TypeOK, JobsOK
    <3>3. CASE \E j \in Jobs : jobs' = [jobs EXCEPT ![j] = Ended]
      BY <3>3 DEF Ended, NoJob, TypeOK, JobsOK
    <3> QED
      BY <3>1, <3>2, <3>3
  <2> QED
    BY <2>1, <2>2 DEF UncountedGoOn, TypeOK
<1>3. ASSUME NEW j \in Jobs, Grade(j) PROVE UncountedGoOn'
  <2>1. CASE Requeue(j)
    <3>1. \A k \in Jobs \ {j} : jobs'[k] = jobs[k]
      BY <2>1 DEF Requeue, TypeOK, JobsOK
    <3>2. \A r \in Readers : reader'[r].uncounted = reader[r].uncounted \ {j}
      BY <2>1 DEF Requeue, TypeOK
    <3>3. \A r \in Readers : reader[r].uncounted \subseteq Jobs
      BY DEF TypeOK
    <3> QED
      BY <3>1, <3>2, <3>3 DEF UncountedGoOn
  <2>2. CASE Claim(j) \/ Complete(j) \/ Fail(j) \/ StrayEnds(j)
    <3>1. UNCHANGED reader
      BY <2>2 DEF Claim, Complete, Fail, StrayEnds
    <3>2. \A k \in Jobs \ {j} : jobs'[k] = jobs[k]
      BY <2>2 DEF Claim, Complete, Fail, StrayEnds, TypeOK, JobsOK
    <3>3. jobs'[j].status \in {"processing", "ended"} \/ jobs'[j].status = jobs[j].status
      BY <2>2 DEF Claim, Complete, Fail, StrayEnds, Ended, NoJob, TypeOK, JobsOK, Job
    <3>4. \A r \in Readers : reader[r].uncounted \subseteq Jobs
      BY DEF TypeOK
    <3> QED
      BY <3>1, <3>2, <3>3, <3>4 DEF UncountedGoOn
  <2> QED
    BY <1>3, <2>1, <2>2 DEF Grade
<1>4. ASSUME NEW r \in Readers, Status(r) PROVE UncountedGoOn'
  <2>1. UNCHANGED jobs
    BY <1>4 DEF Status, StatusFirst, StatusSecond
  <2>2. \A q \in Readers : \/ reader'[q].uncounted = reader[q].uncounted
                           \/ reader'[q].uncounted \subseteq Processing
    BY <1>4 DEF Status, StatusFirst, StatusSecond, ReaderIdle, QueryOrder, Having,
                Pending, Processing, TypeOK
  <2> QED
    BY <2>1, <2>2 DEF UncountedGoOn, Processing
<1> QED
  BY <1>1, <1>2, <1>3, <1>4 DEF Next

(* GET /queue/status counts every job that stays in the system between its *)
(* queries and is not put back into the queue.                             *)
THEOREM StatusIsComplete == Spec => StatusMissesNoJob
<1>1. Init => UncountedGoOn
  BY DEF Init, ReaderIdle, UncountedGoOn
<1>2. UncountedGoOn =>
        [\A r \in Readers :
           StatusSecond(r) =>
             reader[r].uncounted \cap (Pending \cup Processing)
               \subseteq Having(QueryOrder[2])]_vars
  BY DEF UncountedGoOn, Pending, Processing, Having, QueryOrder
<1> QED
  BY <1>1, <1>2, QueueTypeCorrect, NextUncountedGoOn, PTL DEF Spec, StatusMissesNoJob

--------------------------------------------------------------------------------
(* No job ranks before itself.                                             *)
LEMMA OutranksIrreflexive ==
  ASSUME TypeOK, NEW j \in Jobs
  PROVE  ~Outranks(j, j)
<1>1. Age(j) \in Nat /\ jobs[j].est.num \in Nat /\ jobs[j].est.den \in Nat
  BY DEF TypeOK, JobsOK, Job, Seconds, Age
<1>2. jobs[j].est.num * jobs[j].est.den \in Nat
  BY <1>1, ProductIsNat
<1>3. Age(j) * (jobs[j].est.num * jobs[j].est.den) \in Nat
  BY <1>1, <1>2, ProductIsNat
<1> QED
  BY <1>3 DEF Outranks

(* A list without repetitions, as long as a set has members, names all of  *)
(* them.                                                                   *)
LEMMA ListingIsComplete ==
  ASSUME NEW S, IsFiniteSet(S), NEW list \in Listings(S)
  PROVE  LET n == Cardinality(S) IN
         /\ n \in Nat
         /\ list \in [1..n -> S]
         /\ list \in Injection(1..n, S)
         /\ \A i \in S : \E m \in 1..n : list[m] = i
<1> DEFINE n == Cardinality(S)
<1>1. n \in Nat /\ IsFiniteSet(1..n) /\ Cardinality(1..n) = n
  BY FS_CardinalityType, FS_Interval
<1>2. list \in [1..n -> S] /\ \A k, m \in 1..n : k < m => list[k] # list[m]
  BY DEF Listings
<1>3. list \in Injection(1..n, S)
  <2>1. \A k, m \in 1..n : list[k] = list[m] => k = m
    <3> HIDE DEF n
    <3> QED
      BY <1>1, <1>2
  <2> QED
    BY <1>2, <2>1 DEF Injection, IsInjective
<1>4. list \in Surjection(1..n, S)
  BY <1>1, <1>3, FS_Injection
<1> QED
  BY <1>1, <1>2, <1>3, <1>4 DEF Surjection

(* The place of a job in a sorted list: after all that rank before it, and *)
(* among those of the same rank.                                           *)
LEMMA PlaceInListing ==
  ASSUME TypeOK, NEW S \in SUBSET Jobs, NEW list \in Listings(S), NEW k \in DOMAIN list
  PROVE  LET ahead == {i \in S \ {list[k]} : Outranks(i, list[k])}
             equal == {i \in S \ ahead : ~Outranks(list[k], i)} IN
         k \in (Cardinality(ahead) + 1)..(Cardinality(ahead) + Cardinality(equal))
<1> DEFINE n == Cardinality(S)
           ahead == {i \in S \ {list[k]} : Outranks(i, list[k])}
           equal == {i \in S \ ahead : ~Outranks(list[k], i)}
<1>1. IsFiniteSet(S)
  BY JobsAssumption, FS_Subset
<1>2. /\ n \in Nat /\ k \in 1..n
      /\ list \in [1..n -> S] /\ list \in Injection(1..n, S)
      /\ \A i \in S : \E m \in 1..n : list[m] = i
  BY <1>1, ListingIsComplete
<1>3. \A l, m \in 1..n : l < m => list[l] # list[m] /\ ~Outranks(list[m], list[l])
  BY DEF Listings
<1>4. IsFiniteSet(ahead) /\ IsFiniteSet(equal) /\ ahead \cap equal = {}
  BY <1>1, FS_Subset
<1>5. Cardinality(ahead) \in Nat /\ Cardinality(equal) \in Nat
  BY <1>4, FS_CardinalityType
<1>6. Cardinality(ahead) <= k - 1
  <2> DEFINE first == [m \in 1..(k - 1) |-> list[m]]
             before == {list[m] : m \in 1..(k - 1)}
  <2>1. first \in Surjection(1..(k - 1), before)
    BY DEF Surjection
  <2>2. IsFiniteSet(1..(k - 1)) /\ Cardinality(1..(k - 1)) = k - 1
    <3>1. 1 \in Int /\ k - 1 \in Int /\ (1 > k - 1 => k - 1 = 0)
      BY <1>2
    <3>2. /\ IsFiniteSet(1..(k - 1))
          /\ Cardinality(1..(k - 1)) = IF 1 > k - 1 THEN 0 ELSE (k - 1) - 1 + 1
      BY <3>1, FS_Interval
    <3> QED
      BY <3>1, <3>2
  <2>3. IsFiniteSet(before) /\ Cardinality(before) <= k - 1
    <3> HIDE DEF first, before
    <3> QED
      BY <2>1, <2>2, FS_Surjection
  <2>4. ahead \subseteq before
    <3> SUFFICES ASSUME NEW i \in ahead PROVE i \in before
      OBVIOUS
    <3>1. PICK m \in 1..n : list[m] = i
      BY <1>2
    <3>2. m # k /\ ~(k < m)
      BY <1>2, <1>3, <3>1
    <3>3. m \in 1..(k - 1)
      <4> HIDE DEF n
      <4> QED
        BY <1>2, <3>2
    <3> QED
      BY <3>1, <3>3
  <2> HIDE DEF ahead, before
  <2>5. Cardinality(ahead) <= Cardinality(before) /\ Cardinality(before) \in Nat
    BY <2>3, <2>4, FS_Subset, FS_CardinalityType
  <2> QED
    BY <1>2, <1>5, <2>3, <2>5
<1>7. k <= Cardinality(ahead) + Cardinality(equal)
  <2> DEFINE upto == [m \in 1..k |-> list[m]]
             all == ahead \cup equal
  <2>1. \A m \in 1..k : list[m] \in all
    <3> SUFFICES ASSUME NEW m \in 1..k PROVE list[m] \in all
      OBVIOUS
    <3>1. m \in 1..n /\ list[m] \in S
      BY <1>2
    <3>2. ~Outranks(list[k], list[m])
      <4>1. CASE m = k
        BY <1>2, <4>1, OutranksIrreflexive
      <4>2. CASE m < k
        BY <1>2, <1>3, <3>1, <4>2
      <4> QED
        BY <1>2, <4>1, <4>2
    <3> QED
      BY <3>1, <3>2
  <2>2. upto \in Injection(1..k, all)
    <3>1. \A l, m \in 1..k : list[l] = list[m] => l = m
      BY <1>2 DEF Injection, IsInjective
    <3> HIDE DEF all
    <3> QED
      BY <2>1, <3>1 DEF Injection, IsInjective
  <2>3. IsFiniteSet(1..k) /\ Cardinality(1..k) = k
    BY <1>2, FS_Interval
  <2>4. IsFiniteSet(all)
    BY <1>4, FS_Union
  <2>5. k <= Cardinality(all)
    <3> HIDE DEF upto, all
    <3> QED
      BY <2>2, <2>3, <2>4, FS_Injection
  <2>6. Cardinality(all) = Cardinality(ahead) + Cardinality(equal)
    <3> HIDE DEF ahead, equal
    <3>1. Cardinality(all) = Cardinality(ahead) + Cardinality(equal)
                               - Cardinality(ahead \cap equal)
      BY <1>4, FS_Union
    <3>2. Cardinality(ahead \cap equal) = 0
      BY <1>4, FS_EmptySet
    <3> QED
      BY <1>5, <3>1, <3>2
  <2> QED
    BY <2>5, <2>6
<1> HIDE DEF ahead, equal
<1>8. k \in (Cardinality(ahead) + 1)..(Cardinality(ahead) + Cardinality(equal))
  BY <1>2, <1>5, <1>6, <1>7
<1> QED
  BY <1>8 DEF ahead, equal

(* GET /jobs/:id and GET /queue/position/:id agree with each other and     *)
(* with the claim, for a queue of any length.                              *)
THEOREM PositionsMatch == Spec => []PositionsAgree
<1>1. ASSUME TypeOK PROVE PositionsAgree
  <2>1. Pending \in SUBSET Jobs
    BY DEF Pending
  <2>2. ASSUME NEW j \in Pending PROVE JobsAhead(j) = {} <=> j \in Highest(Pending)
    <3>1. ~Outranks(j, j)
      BY <1>1, <2>1, OutranksIrreflexive
    <3> QED
      BY <3>1 DEF JobsAhead, Highest
  <2>3. ASSUME NEW list \in Listings(Pending), NEW k \in DOMAIN list
        PROVE  LET ahead == JobsAhead(list[k])
                   equal == {i \in Pending \ ahead : ~Outranks(list[k], i)} IN
               k \in (Cardinality(ahead) + 1)..(Cardinality(ahead) + Cardinality(equal))
    BY <1>1, <2>1, PlaceInListing DEF JobsAhead
  <2> QED
    BY <2>2, <2>3 DEF PositionsAgree
<1> QED
  BY <1>1, QueueTypeCorrect, PTL

--------------------------------------------------------------------------------
(* Nothing refers to a configuration that was not made, and nothing was    *)
(* counted for one.                                                        *)
UsedImagesAreMade ==
  /\ \A i \in Images : ~images[i].made => images[i].total = 0
  /\ \A c \in Clients : client[c].pc = "create" => images[client[c].image].made
  /\ \A j \in Jobs : jobs[j].status \in Active => images[jobs[j].image].made

(* How a step may change the configurations: one is made, one is edited,   *)
(* or a completion is added to one that exists.                            *)
ImagesMoves ==
  \/ UNCHANGED <<images, spent>>
  \/ \E i \in Images, default \in Nat :
       /\ ~images[i].made /\ images' = [images EXCEPT ![i] = NewImage(default)]
       /\ UNCHANGED spent
  \/ \E i \in Images, row \in Image :
       /\ row.made = images[i].made /\ row.avg = images[i].avg
       /\ row.total = images[i].total
       /\ images' = [images EXCEPT ![i] = row]
       /\ UNCHANGED spent
  \/ \E j \in Processing, runtime \in Nat :
       LET i == jobs[j].image IN
       /\ i \in Images
       /\ images' = [images EXCEPT ![i] = Averaged(images[i], runtime)]
       /\ spent' = [spent EXCEPT ![i] = spent[i] + runtime]

(* These are all the ways in which a step may change them.                 *)
LEMMA NextImagesMoves ==
  ASSUME TypeOK, [Next]_vars
  PROVE  ImagesMoves
<1>1. CASE \E i \in Images : ImageInsert(i)
  BY <1>1, RuntimesAssumption DEF ImageInsert, ImagesMoves
<1>2. ASSUME NEW a \in Admins, ImageSave(a) PROVE ImagesMoves
  <2> DEFINE i == admin[a].image
             snap == admin[a].snap
  <2>1. i \in Images /\ snap \in Image /\ images[i] \in Image /\ UNCHANGED spent
    BY <1>2 DEF ImageSave, TypeOK
  <2>2. PICK default \in Defaults, active \in BOOLEAN :
          images' = [images EXCEPT ![i] = Saved(images[i], snap,
                       [snap EXCEPT !.default = default, !.active = active])]
    BY <1>2 DEF ImageSave
  <2>3. default \in Nat
    BY RuntimesAssumption
  <2> DEFINE new == [snap EXCEPT !.default = default, !.active = active]
             saved == Saved(images[i], snap, new)
  <2>4. new \in Image
    BY <2>1, <2>3 DEF Image
  <2>5. /\ saved \in Image
        /\ saved.made = images[i].made /\ saved.avg = images[i].avg
        /\ saved.total = images[i].total
    <3> HIDE DEF new
    <3> QED
      BY <2>1, <2>4, SaveKeepsStatistics
  <2>6. images' = [images EXCEPT ![i] = saved]
    BY <2>2
  <2> HIDE DEF saved, i
  <2> QED
    BY <2>1, <2>5, <2>6 DEF ImagesMoves
<1>3. ASSUME NEW j \in Jobs, Complete(j) PROVE ImagesMoves
  <2>1. j \in Processing /\ jobs[j].image \in Images
    BY <1>3 DEF Complete, Processing, TypeOK, JobsOK, Active
  <2> QED
    BY <1>3, <2>1, RuntimesAssumption DEF Complete, ImagesMoves
<1>4. CASE \/ Tick \/ UNCHANGED vars
           \/ \E c \in Clients : Submit(c) \/ Cancel(c)
           \/ \E a \in Admins : (\E i \in Images : ImageFind(a, i)) \/ ImageRefused(a)
           \/ \E j \in Jobs : Claim(j) \/ Requeue(j) \/ Fail(j) \/ StrayEnds(j)
           \/ \E r \in Readers : Status(r)
  <2>1. UNCHANGED <<images, spent>>
    BY <1>4 DEF Tick, vars, Submit, SubmitFind, SubmitCreate, SubmitStore, SubmitUndo,
                Cancel, CancelFind, CancelSave, ImageFind, ImageRefused, Claim, Requeue,
                Fail, StrayEnds, Status, StatusFirst, StatusSecond
  <2> QED
    BY <2>1 DEF ImagesMoves
<1> QED
  BY <1>1, <1>2, <1>3, <1>4 DEF Next, Configure, Grade

(* A configuration is never unmade, and only a made one is counted for.    *)
LEMMA MadeStaysMade ==
  ASSUME TypeOK, UsedImagesAreMade, ImagesMoves, NEW i \in Images
  PROVE  /\ images[i].made => images'[i].made
         /\ ~images'[i].made => images'[i].total = 0
<1>1. images[i] \in Image /\ (~images[i].made => images[i].total = 0)
  BY DEF TypeOK, UsedImagesAreMade
<1>2. CASE UNCHANGED images
  BY <1>1, <1>2
<1>3. ASSUME NEW k \in Images, NEW default \in Nat,
             images' = [images EXCEPT ![k] = NewImage(default)]
      PROVE  /\ images[i].made => images'[i].made
             /\ ~images'[i].made => images'[i].total = 0
  BY <1>1, <1>3 DEF NewImage, TypeOK
<1>4. ASSUME NEW k \in Images, NEW row \in Image,
             row.made = images[k].made, row.total = images[k].total,
             images' = [images EXCEPT ![k] = row]
      PROVE  /\ images[i].made => images'[i].made
             /\ ~images'[i].made => images'[i].total = 0
  BY <1>1, <1>4 DEF TypeOK
<1>5. ASSUME NEW j \in Processing, NEW runtime \in Nat, jobs[j].image \in Images,
             images' = [images EXCEPT ![jobs[j].image]
                          = Averaged(images[jobs[j].image], runtime)]
      PROVE  /\ images[i].made => images'[i].made
             /\ ~images'[i].made => images'[i].total = 0
  <2> DEFINE k == jobs[j].image
  <2>1. images[k] \in Image /\ images[k].made
    BY <1>5 DEF TypeOK, UsedImagesAreMade, Processing, Active
  <2>2. Averaged(images[k], runtime).made = images[k].made
    BY <2>1, AverageWritten
  <2> QED
    BY <1>1, <1>5, <2>1, <2>2 DEF TypeOK
<1> QED
  BY <1>2, <1>3, <1>4, <1>5 DEF ImagesMoves

(* A request finds a configuration that exists, and jobs come from them.   *)
LEMMA NextUsedImagesAreMade ==
  ASSUME TypeOK, UsedImagesAreMade, [Next]_vars
  PROVE  UsedImagesAreMade'
<1>1. ImagesMoves
  BY NextImagesMoves
<1>2. \A i \in Images : /\ images[i].made => images'[i].made
                        /\ ~images'[i].made => images'[i].total = 0
  BY <1>1, MadeStaysMade
<1>3. \A c \in Clients : client'[c].pc = "create" =>
        \/ client'[c] = client[c]
        \/ client'[c].image \in Images /\ images[client'[c].image].made
  <2>1. CASE \E c \in Clients, i \in Images : SubmitFind(c, i)
    BY <2>1 DEF SubmitFind, TypeOK, ClientsOK
  <2>2. CASE \E c \in Clients : \/ \E j \in Jobs : SubmitCreate(c, j) \/ SubmitUndo(c, j)
                                \/ SubmitStore(c) \/ Cancel(c)
    <3>1. PICK c \in Clients : \E frame :
            client' = [client EXCEPT ![c] = frame] /\ frame.pc # "create"
      BY <2>2, FramesOfClients
      DEF SubmitCreate, SubmitUndo, SubmitStore, Cancel, CancelFind, CancelSave
    <3> QED
      BY <3>1 DEF TypeOK, ClientsOK
  <2>3. CASE ~\E c \in Clients : Submit(c) \/ Cancel(c)
    <3>1. UNCHANGED client
      BY <2>3 DEF Next, Tick, vars, ImageInsert, Configure, ImageFind, ImageSave,
                  ImageRefused, Grade, Claim, Complete, Requeue, Fail, StrayEnds, Status,
                  StatusFirst, StatusSecond
    <3> QED
      BY <3>1
  <2> QED
    BY <2>1, <2>2, <2>3 DEF Submit
<1>4. \A j \in Jobs : jobs'[j].status \in Active =>
        \/ jobs[j].status \in Active /\ jobs'[j].image = jobs[j].image
        \/ \E c \in Clients : client[c].pc = "create" /\ jobs'[j].image = client[c].image
  <2>1. CASE \E c \in Clients, j \in Jobs : SubmitCreate(c, j)
    <3>1. PICK c \in Clients, j \in Jobs : SubmitCreate(c, j)
      BY <2>1
    <3> DEFINE row == [NoJob EXCEPT !.status = "pending", !.submitted = now,
                         !.est = client[c].est, !.image = client[c].image]
    <3>2. row.image = client[c].image
      BY RowsOfJobs DEF Job
    <3>3. jobs' = [jobs EXCEPT ![j] = row] /\ client[c].pc = "create"
      BY <3>1 DEF SubmitCreate
    <3> HIDE DEF row
    <3> QED
      BY <3>2, <3>3 DEF TypeOK, JobsOK
  <2>2. CASE \E c \in Clients, j \in Jobs : SubmitUndo(c, j) \/ CancelSave(c, j)
    BY <2>2, RowsOfJobs DEF SubmitUndo, CancelSave, TypeOK, JobsOK
  <2>3. CASE \E j \in Jobs : Grade(j)
    <3>1. PICK j \in Jobs : Grade(j)
      BY <2>3
    <3>2. /\ \A k \in Jobs \ {j} : jobs'[k] = jobs[k]
          /\ jobs'[j].status \in Active => jobs[j].status \in Active
          /\ jobs'[j].status \in Active => jobs'[j].image = jobs[j].image
      <4>1. jobs \in [Jobs -> Job]
        BY DEF TypeOK, JobsOK
      <4>2. CASE Claim(j)
        BY <4>1, <4>2 DEF Claim, Highest, Pending, Active, Job
      <4>3. CASE Complete(j) \/ Fail(j)
        BY <4>1, <4>3, RowsOfJobs DEF Complete, Fail
      <4>4. CASE Requeue(j)
        BY <4>1, <4>4 DEF Requeue, Processing, Active, Job
      <4>5. CASE StrayEnds(j)
        BY <4>1, <4>5 DEF StrayEnds, Job
      <4> QED
        BY <3>1, <4>2, <4>3, <4>4, <4>5 DEF Grade
    <3> QED
      BY <3>2
  <2>4. CASE UNCHANGED jobs
    BY <2>4
  <2> QED
    BY <2>1, <2>2, <2>3, <2>4
    DEF Next, Tick, vars, ImageInsert, Submit, SubmitFind, SubmitStore, Cancel, CancelFind,
        Configure, ImageFind, ImageSave, ImageRefused, Status, StatusFirst, StatusSecond
<1> QED
  BY <1>2, <1>3, <1>4 DEF UsedImagesAreMade, TypeOK, JobsOK, ClientsOK

(* One more runtime in the sum and in the mean.                            *)
LEMMA MeanExtended ==
  ASSUME NEW num \in Nat, NEW den \in Nat, NEW n \in Nat, NEW sum \in Nat, NEW t \in Nat,
         num * n = sum * den
  PROVE  (num * n + t * den) * (n + 1) = (sum + t) * (den * (n + 1))
<1>1. num * n + t * den = (sum + t) * den
  <2>1. (sum + t) * den = sum * den + t * den
    BY SMT
  <2> QED
    BY <2>1
<1>2. ((sum + t) * den) * (n + 1) = (sum + t) * (den * (n + 1))
  BY SMT
<1> QED
  BY <1>1, <1>2

(* The statistics of an image are exact however completions, edits of the  *)
(* configuration and submissions interleave.                               *)
LEMMA NextAverageIsMean ==
  ASSUME TypeOK, UsedImagesAreMade, AverageIsMean, [Next]_vars
  PROVE  AverageIsMean'
<1> SUFFICES ASSUME NEW i \in Images
             PROVE  images'[i].avg.num * images'[i].total = spent'[i] * images'[i].avg.den
  BY DEF AverageIsMean
<1> USE DEF TypeOK
<1>1. ImagesMoves
  BY NextImagesMoves
<1>2. /\ images[i] \in Image /\ spent[i] \in Nat
      /\ images[i].avg.num * images[i].total = spent[i] * images[i].avg.den
      /\ images[i].avg.num \in Nat /\ images[i].avg.den \in Nat \ {0}
      /\ images[i].total \in Nat
  BY DEF AverageIsMean, Image, Seconds
<1>3. images[i].total = 0 => spent[i] = 0
  <2>1. images[i].total = 0 => spent[i] * images[i].avg.den = 0
    BY <1>2
  <2>2. spent[i] # 0 => spent[i] * images[i].avg.den \in Nat \ {0}
    BY <1>2, ProductIsNat
  <2> QED
    BY <2>1, <2>2
<1>4. CASE UNCHANGED <<images, spent>>
  BY <1>2, <1>4
<1>5. ASSUME NEW k \in Images, NEW default \in Nat, ~images[k].made, UNCHANGED spent,
             images' = [images EXCEPT ![k] = NewImage(default)]
      PROVE  images'[i].avg.num * images'[i].total = spent'[i] * images'[i].avg.den
  <2>1. CASE i = k
    <3>1. images[i].total = 0
      BY <1>5, <2>1 DEF UsedImagesAreMade
    <3> QED
      BY <1>3, <1>5, <2>1, <3>1, WholeIsSeconds DEF NewImage
  <2> QED
    BY <1>2, <1>5, <2>1
<1>6. ASSUME NEW k \in Images, NEW row \in Image, UNCHANGED spent,
             row.avg = images[k].avg, row.total = images[k].total,
             images' = [images EXCEPT ![k] = row]
      PROVE  images'[i].avg.num * images'[i].total = spent'[i] * images'[i].avg.den
  BY <1>2, <1>6
<1>7. ASSUME NEW k \in Images, NEW runtime \in Nat,
             images' = [images EXCEPT ![k] = Averaged(images[k], runtime)],
             spent' = [spent EXCEPT ![k] = spent[k] + runtime]
      PROVE  images'[i].avg.num * images'[i].total = spent'[i] * images'[i].avg.den
  <2>1. CASE i # k
    BY <1>2, <1>7, <2>1
  <2>2. CASE i = k
    <3> DEFINE new == Averaged(images[i], runtime)
    <3>1. images'[i] = new /\ spent'[i] = spent[i] + runtime
      BY <1>7, <2>2
    <3>2. /\ new.total = images[i].total + 1
          /\ images[i].total = 0 => new.avg = Whole(runtime)
          /\ images[i].total # 0 =>
               /\ new.avg.num = images[i].avg.num * images[i].total
                                  + runtime * images[i].avg.den
               /\ new.avg.den = images[i].avg.den * (images[i].total + 1)
      BY <1>2, AverageWritten
    <3> HIDE DEF new
    <3>3. CASE images[i].total = 0
      BY <1>2, <1>3, <3>1, <3>2, <3>3, WholeIsSeconds
    <3>4. CASE images[i].total # 0
      BY <1>2, <3>1, <3>2, <3>4, MeanExtended
    <3> QED
      BY <3>3, <3>4
  <2> QED
    BY <2>1, <2>2
<1> QED
  BY <1>1, <1>4, <1>5, <1>6, <1>7 DEF ImagesMoves

(* avg_runtime_seconds is the mean of the runtimes of all jobs that were   *)
(* graded with the image.                                                  *)
THEOREM MeanIsExact == Spec => []AverageIsMean
<1>1. Init => UsedImagesAreMade /\ AverageIsMean
  BY WholeIsSeconds
  DEF Init, NoImage, ClientIdle, NoJob, Active, UsedImagesAreMade, AverageIsMean
<1> QED
  BY <1>1, QueueTypeCorrect, NextUsedImagesAreMade, NextAverageIsMean, PTL DEF Spec

--------------------------------------------------------------------------------
(* A product grows with either factor, and a common factor can be dropped. *)
LEMMA ProductOrder ==
  \A x, y \in Nat, n \in Nat \ {0} : x * n > y * n <=> x > y
<1> SUFFICES ASSUME NEW x \in Nat, NEW y \in Nat, NEW n \in Nat \ {0}
             PROVE  x * n > y * n <=> x > y
  OBVIOUS
<1>1. ASSUME x > y PROVE x * n > y * n
  <2>1. PICK m \in Nat : x = y + m /\ m > 0
    <3>1. x - y \in Nat /\ x = y + (x - y) /\ x - y > 0
      BY <1>1
    <3> QED
      BY <3>1
  <2>2. x * n = y * n + m * n /\ m * n > 0 /\ y * n \in Nat
    BY <2>1, SMT
  <2> QED
    BY <2>2, SMT
<1>2. ASSUME ~(x > y) PROVE ~(x * n > y * n)
  <2>1. PICK m \in Nat : y = x + m
    <3>1. y - x \in Nat /\ y = x + (y - x)
      BY <1>2
    <3> QED
      BY <3>1
  <2>2. y * n = x * n + m * n /\ m * n \in Nat /\ x * n \in Nat
    BY <2>1, SMT
  <2> QED
    BY <2>2, SMT
<1> QED
  BY <1>1, <1>2

(* Ratios compared by cross products are in order as the ratios are.       *)
LEMMA RatiosInOrder ==
  ASSUME NEW x \in Nat, NEW y \in Nat, NEW z \in Nat,
         NEW l \in Nat \ {0}, NEW m \in Nat \ {0}, NEW n \in Nat \ {0},
         x * m > y * l, y * n > z * m
  PROVE  x * n > z * l
<1>1. (x * m) * n > (y * l) * n
  BY ProductOrder, ProductIsNat
<1>2. (y * n) * l > (z * m) * l
  BY ProductOrder, ProductIsNat
<1>3. /\ (x * m) * n = (x * n) * m /\ (y * l) * n = (y * n) * l
      /\ (z * m) * l = (z * l) * m
  BY SMT
<1>4. (x * n) * m > (z * l) * m
  <2>1. (x * m) * n \in Nat /\ (y * l) * n \in Nat /\ (z * m) * l \in Nat
    BY ProductIsNat
  <2> QED
    BY <1>1, <1>2, <1>3, <2>1
<1> QED
  BY <1>4, ProductOrder, ProductIsNat

(* To rank before is transitive, and no two jobs rank before each other.   *)
LEMMA OutranksOrders ==
  ASSUME TypeOK
  PROVE  /\ \A i, j, k \in Jobs : Outranks(i, j) /\ Outranks(j, k) => Outranks(i, k)
         /\ \A i, j \in Jobs : Outranks(i, j) => ~Outranks(j, i)
<1> DEFINE waited(j) == Age(j) * jobs[j].est.den
<1>1. \A j \in Jobs : /\ Age(j) \in Nat /\ jobs[j].est.den \in Nat \ {0}
                      /\ jobs[j].est.num \in Nat \ {0}
  BY DEF TypeOK, JobsOK, Job, Seconds, Age
<1>2. \A j \in Jobs : waited(j) \in Nat
  BY <1>1, ProductIsNat
<1>3. \A i, j \in Jobs :
        Outranks(i, j) <=> waited(i) * jobs[j].est.num > waited(j) * jobs[i].est.num
  <2> SUFFICES ASSUME NEW i \in Jobs, NEW j \in Jobs
               PROVE  Outranks(i, j) <=>
                        waited(i) * jobs[j].est.num > waited(j) * jobs[i].est.num
    OBVIOUS
  <2>1. \A a, n, d \in Nat : a * (n * d) = (a * d) * n
    BY SMT
  <2>2. /\ Age(i) * (jobs[j].est.num * jobs[i].est.den) = waited(i) * jobs[j].est.num
        /\ Age(j) * (jobs[i].est.num * jobs[j].est.den) = waited(j) * jobs[i].est.num
    BY <1>1, <2>1
  <2> QED
    BY <2>2 DEF Outranks
<1> HIDE DEF waited
<1>4. ASSUME NEW i \in Jobs, NEW j \in Jobs, NEW k \in Jobs, Outranks(i, j), Outranks(j, k)
      PROVE  Outranks(i, k)
  <2>1. /\ waited(i) * jobs[j].est.num > waited(j) * jobs[i].est.num
        /\ waited(j) * jobs[k].est.num > waited(k) * jobs[j].est.num
    BY <1>3, <1>4
  <2>2. waited(i) * jobs[k].est.num > waited(k) * jobs[i].est.num
    BY <1>1, <1>2, <2>1, RatiosInOrder
  <2> QED
    BY <1>3, <2>2
<1> QED
  BY <1>4, OutranksIrreflexive

(* Induction over the finite sets of jobs: of the sets in a collection     *)
(* there is one that is minimal.                                           *)
LEMMA MinimalSet ==
  ASSUME NEW C, C \subseteq SUBSET Jobs, C # {}
  PROVE  \E S \in C : \A T \in C : ~(T \subseteq S /\ T # S)
<1>1. FiniteSubsetsOf(Jobs) = SUBSET Jobs
  BY JobsAssumption, FS_FiniteSubsetsOfFinite
<1>2. IsWellFoundedOn(StrictSubsetOrdering(Jobs), SUBSET Jobs)
  BY <1>1, FS_StrictSubsetOrderingWellFounded
<1>3. PICK S \in C : \A T \in C : ~(<<T, S>> \in StrictSubsetOrdering(Jobs))
  BY <1>2, WFMin
<1>4. \A T \in C : T \subseteq S /\ T # S => <<T, S>> \in StrictSubsetOrdering(Jobs)
  BY DEF StrictSubsetOrdering
<1>5. \A T \in C : ~(T \subseteq S /\ T # S)
  BY <1>3, <1>4, Zenon
<1> QED
  BY <1>5, Zenon

(* Some job of every set of jobs ranks as high as any other.               *)
LEMMA HighestExists ==
  ASSUME TypeOK, NEW S \in SUBSET Jobs, S # {}
  PROVE  Highest(S) # {}
<1> DEFINE C == {T \in SUBSET Jobs : T # {} /\ Highest(T) = {}}
<1>1. SUFFICES ASSUME C # {} PROVE FALSE
  OBVIOUS
<1>2. PICK T \in C : \A U \in C : ~(U \subseteq T /\ U # T)
  <2> HIDE DEF C
  <2>1. C \subseteq SUBSET Jobs
    BY DEF C
  <2> QED
    BY <1>1, <2>1, MinimalSet
<1>3. T \in SUBSET Jobs /\ T # {} /\ Highest(T) = {}
  OBVIOUS
<1>4. PICK j \in T : TRUE
  BY <1>3
<1>5. CASE T = {j}
  <2>1. j \in Highest(T)
    BY <1>3, <1>5, OutranksIrreflexive DEF Highest
  <2> QED
    BY <1>3, <2>1
<1>6. CASE T # {j}
  <2>1. T \ {j} # {} /\ T \ {j} \notin C /\ T \ {j} \in SUBSET Jobs
    BY <1>2, <1>3, <1>4, <1>6
  <2>2. PICK h \in T \ {j} : \A i \in T \ {j} : ~Outranks(i, h)
    BY <2>1 DEF Highest
  <2>3. CASE Outranks(j, h)
    <3>1. \A i \in T : ~Outranks(i, j)
      BY <1>3, <2>2, <2>3, OutranksOrders
    <3> QED
      BY <1>3, <3>1 DEF Highest
  <2>4. CASE ~Outranks(j, h)
    BY <1>3, <2>2, <2>4 DEF Highest
  <2> QED
    BY <2>3, <2>4
<1> QED
  BY <1>5, <1>6

(* Every set of jobs can be listed in the order of the queue.              *)
LEMMA ListingExists ==
  ASSUME TypeOK, NEW S \in SUBSET Jobs
  PROVE  Listings(S) # {}
<1> DEFINE C == {T \in SUBSET Jobs : Listings(T) = {}}
<1>1. SUFFICES ASSUME C # {} PROVE FALSE
  OBVIOUS
<1>2. PICK T \in C : \A U \in C : ~(U \subseteq T /\ U # T)
  <2> HIDE DEF C
  <2>1. C \subseteq SUBSET Jobs
    BY DEF C
  <2> QED
    BY <1>1, <2>1, MinimalSet
<1>3. T \in SUBSET Jobs /\ Listings(T) = {} /\ IsFiniteSet(T)
  BY JobsAssumption, FS_Subset
<1>4. CASE T = {}
  <2>1. Cardinality(T) = 0
    BY <1>4, FS_EmptySet
  <2>2. [m \in 1..0 |-> 0] \in Listings(T)
    BY <1>4, <2>1 DEF Listings
  <2> QED
    BY <1>3, <2>2
<1>5. CASE T # {}
  <2>1. PICK h \in T : \A i \in T : ~Outranks(i, h)
    BY <1>3, <1>5, HighestExists DEF Highest
  <2> DEFINE U == T \ {h}
             n == Cardinality(U)
  <2>2. n \in Nat /\ Cardinality(T) = n + 1
    <3>1. IsFiniteSet(U) /\ Cardinality(U) = Cardinality(T) - 1
      BY <1>3, <2>1, FS_RemoveElement
    <3>2. Cardinality(U) \in Nat /\ Cardinality(T) \in Nat
      BY <1>3, <3>1, FS_CardinalityType
    <3> QED
      BY <3>1, <3>2
  <2>3. PICK tail \in [1..n -> U] :
          \A k, m \in 1..n : k < m => tail[k] # tail[m] /\ ~Outranks(tail[m], tail[k])
    <3>1. U \in SUBSET Jobs /\ U \notin C
      BY <1>2, <1>3, <2>1
    <3> QED
      BY <3>1 DEF Listings
  <2> DEFINE list == [m \in 1..(n + 1) |-> IF m = 1 THEN h ELSE tail[m - 1]]
  <2> HIDE DEF n
  <2>4. \A m \in 1..(n + 1) : m # 1 => m - 1 \in 1..n
    BY <2>2
  <2>5. list \in [1..(n + 1) -> T]
    BY <2>1, <2>3, <2>4
  <2>6. ASSUME NEW k \in 1..(n + 1), NEW m \in 1..(n + 1), k < m
        PROVE  list[k] # list[m] /\ ~Outranks(list[m], list[k])
    <3>1. m # 1 /\ m - 1 \in 1..n /\ list[m] = tail[m - 1] /\ list[m] \in U
      <4>1. m # 1
        BY <2>2, <2>6
      <4> QED
        BY <2>3, <2>4, <4>1
    <3>2. CASE k = 1
      BY <2>1, <3>1, <3>2
    <3>3. CASE k # 1
      <4>1. k - 1 \in 1..n /\ list[k] = tail[k - 1] /\ k - 1 < m - 1
        BY <2>2, <2>4, <2>6, <3>3
      <4> QED
        BY <2>3, <3>1, <4>1
    <3> QED
      BY <3>2, <3>3
  <2>7. list \in Listings(T)
    <3> HIDE DEF list
    <3> QED
      BY <2>2, <2>5, <2>6 DEF Listings
  <2> QED
    BY <1>3, <2>7
<1> QED
  BY <1>4, <1>5

(* As long as a pending row is not locked by another statement, the query  *)
(* of dequeueNext yields a job; and the list in which GET                  *)
(* /queue/position/:id looks a job up always exists, so that what          *)
(* PositionsAgree says of every list is said of some.                      *)
THEOREM QueueIsOrdered ==
  Spec => [](/\ \A locked \in SUBSET Jobs :
                  Pending \ locked # {} => Highest(Pending \ locked) # {}
             /\ Listings(Pending) # {})
<1>1. Pending \in SUBSET Jobs
  BY DEF Pending
<1>2. TypeOK => /\ \A locked \in SUBSET Jobs :
                     Pending \ locked # {} => Highest(Pending \ locked) # {}
                /\ Listings(Pending) # {}
  BY <1>1, HighestExists, ListingExists
<1> QED
  BY <1>2, QueueTypeCorrect, PTL
================================================================================
