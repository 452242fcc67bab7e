-------------------------------- MODULE JobQueue --------------------------------
(***************************************************************************)
(* The queue as its clients and operators see it: image configurations and *)
(* the statistics that completions add to them (image_config_service.ts,   *)
(* images_controller.ts), the admission of jobs with the runtime those     *)
(* statistics predict (submitJob), the order in which the scheduler claims *)
(* them (hrrn_strategy.ts) and the requests that report on the queue       *)
(* (queue_service.ts, getQueuePosition of job_lifecycle_service.ts).       *)
(*                                                                         *)
(* Every request is several queries, each of which sees the tables as they *)
(* are by then.  An average is an exact fraction, as the UPDATE computes   *)
(* it; the rounding of a double is left out.                               *)
(***************************************************************************)
EXTENDS Integers, FiniteSets, Sequences

CONSTANTS Jobs, Images,
          Defaults,    \* default_estimated_runtime, at least 1: the validators
          Runtimes,    \* of graded jobs: a difference of two clock readings
          MaxRetries,
          MaxNow,      \* bound of the clock
          Clients,     \* requests that submit or cancel a job
          Admins,      \* requests that change an image configuration
          Readers      \* requests that report on the queue

ASSUME JobsAssumption == IsFiniteSet(Jobs)
ASSUME RuntimesAssumption == Defaults \subseteq Nat \ {0} /\ Runtimes \subseteq Nat
ASSUME BoundsAssumption == MaxRetries \in Nat /\ MaxNow \in Nat

VARIABLES now,         \* NOW() of the database, which also sets submitted_at
          images,      \* rows of image_configs
          jobs,        \* rows of jobs
          client, admin, reader,  \* frames of the requests
          spent        \* runtime of all jobs graded with an image: history only

vars == <<now, images, jobs, client, admin, reader, spent>>

Active == {"pending", "processing"}

Seconds == [num : Nat, den : Nat \ {0}]

Whole(n) == [num |-> n, den |-> 1]

Less(s, t) == s.num * t.den < t.num * s.den

(* avg is NULL while total is 0.                                           *)
Image == [made : BOOLEAN, active : BOOLEAN, default : Nat, avg : Seconds, total : Nat]

NoImage ==
  [made |-> FALSE, active |-> FALSE, default |-> 0, avg |-> Whole(0), total |-> 0]

NewImage(default) ==
  [made |-> TRUE, active |-> TRUE, default |-> default, avg |-> Whole(0), total |-> 0]

(* stray: a run that the stuck-job sweep gave up may still write the row.  *)
Job == [status : Active \cup {"absent", "ended"}, submitted : Nat, est : Seconds,
        image : Images \cup {"none"}, retries : 0..MaxRetries, stray : BOOLEAN]

NoJob == [status |-> "absent", submitted |-> 0, est |-> Whole(1), image |-> "none",
          retries |-> 0, stray |-> FALSE]

(* Nothing here reads the other columns of a job that ended.               *)
Ended == [NoJob EXCEPT !.status = "ended"]

Pending == {j \in Jobs : jobs[j].status = "pending"}

Processing == {j \in Jobs : jobs[j].status = "processing"}

ClientFrame == [pc : {"idle", "create", "store", "cancel"}, job : SUBSET Jobs,
                image : Images \cup {"none"}, est : Seconds]

ClientIdle == [pc |-> "idle", job |-> {}, image |-> "none", est |-> Whole(1)]
AdminIdle == [pc |-> "idle", image |-> "none", snap |-> NoImage]
ReaderIdle == [pc |-> "idle", uncounted |-> {}]

(* Jobs whose row another statement may be writing: those of a request in  *)
(* flight and those with a stray run.                                      *)
Touched == UNION {client[c].job : c \in Clients} \cup {j \in Jobs : jobs[j].stray}

Init ==
  /\ now = 0
  /\ images = [i \in Images |-> NoImage]
  /\ jobs = [j \in Jobs |-> NoJob]
  /\ client = [c \in Clients |-> ClientIdle]
  /\ admin = [a \in Admins |-> AdminIdle]
  /\ reader = [r \in Readers |-> ReaderIdle]
  /\ spent = [i \in Images |-> 0]

Tick ==
  /\ now < MaxNow
  /\ now' = now + 1
  /\ UNCHANGED <<images, jobs, client, admin, reader, spent>>

--------------------------------------------------------------------------------
(* POST /images looks for the tag and inserts the row; a tag that another  *)
(* row has by then (UNIQUE) fails the request.  Tags are left out here.    *)
ImageInsert(i) ==
  /\ ~images[i].made
  /\ \E default \in Defaults : images' = [images EXCEPT ![i] = NewImage(default)]
  /\ UNCHANGED <<now, jobs, client, admin, reader, spent>>

(* PUT and DELETE /images/:id read the row; a new tag is looked up ...     *)
ImageFind(a, i) ==
  /\ admin[a].pc = "idle"
  /\ images[i].made
  /\ admin' = [admin EXCEPT ![a] = [pc |-> "save", image |-> i, snap |-> images[i]]]
  /\ UNCHANGED <<now, images, jobs, client, reader, spent>>

(* Mutant of Saved: the row is written as it was read.                     *)
SavedWhole(row, snap, new) == new

(* ... and save() the columns that were assigned another value.            *)
Saved(row, snap, new) ==
  [row EXCEPT !.default = IF new.default = snap.default THEN @ ELSE new.default,
              !.active = IF new.active = snap.active THEN @ ELSE new.active]

ImageSave(a) ==
  /\ admin[a].pc = "save"
  /\ \E default \in Defaults, active \in BOOLEAN :
       LET new == [admin[a].snap EXCEPT !.default = default, !.active = active] IN
       images' = [images EXCEPT ![admin[a].image] = Saved(@, admin[a].snap, new)]
  /\ admin' = [admin EXCEPT ![a] = AdminIdle]
  /\ UNCHANGED <<now, jobs, client, reader, spent>>

(* A tag that is taken, or the deletion of the wrong id.                   *)
ImageRefused(a) ==
  /\ admin[a].pc = "save"
  /\ admin' = [admin EXCEPT ![a] = AdminIdle]
  /\ UNCHANGED <<now, images, jobs, client, reader, spent>>

--------------------------------------------------------------------------------
(* avg_runtime_seconds ?? default_estimated_runtime                        *)
Estimate(image) == IF image.total = 0 THEN Whole(image.default) ELSE image.avg

(* Mutant of Usable: only the presence of an estimate is checked.          *)
Present(est) == est.num >= 0

(* An average of 0 is possible (jobs graded within the same millisecond)   *)
(* and refused, until a slower job that is already queued raises it.       *)
Usable(est) == est.num > 0

(* submitJob finds the configuration by tag, refuses an inactive one ...   *)
SubmitFind(c, i) ==
  /\ client[c].pc = "idle"
  /\ images[i].made /\ images[i].active /\ Usable(Estimate(images[i]))
  /\ client' = [client EXCEPT ![c] = [pc |-> "create", job |-> {}, image |-> i,
                                      est |-> Estimate(images[i])]]
  /\ UNCHANGED <<now, images, jobs, admin, reader, spent>>

(* ... and creates the job with what it read.                              *)
SubmitCreate(c, j) ==
  /\ client[c].pc = "create"
  /\ jobs[j].status = "absent"
  /\ jobs' = [jobs EXCEPT ![j] = [NoJob EXCEPT !.status = "pending", !.submitted = now,
                !.est = client[c].est, !.image = client[c].image]]
  /\ client' = [client EXCEPT ![c] = [ClientIdle EXCEPT !.pc = "store", !.job = {j}]]
  /\ UNCHANGED <<now, images, admin, reader, spent>>

(* The upload and the save of source_path, after which submitJob returns.  *)
SubmitStore(c) ==
  /\ client[c].pc = "store"
  /\ client' = [client EXCEPT ![c] = ClientIdle]
  /\ UNCHANGED <<now, images, jobs, admin, reader, spent>>

(* The catch block: the row goes, whoever has claimed it by now.           *)
SubmitUndo(c, j) ==
  /\ client[c].pc = "store" /\ client[c].job = {j}
  /\ jobs' = [jobs EXCEPT ![j] = Ended]
  /\ client' = [client EXCEPT ![c] = ClientIdle]
  /\ UNCHANGED <<now, images, admin, reader, spent>>

(* cancelJob: the check and the save, which does not repeat it.            *)
CancelFind(c, j) ==
  /\ client[c].pc = "idle"
  /\ j \in Pending
  /\ client' = [client EXCEPT ![c] = [ClientIdle EXCEPT !.pc = "cancel", !.job = {j}]]
  /\ UNCHANGED <<now, images, jobs, admin, reader, spent>>

CancelSave(c, j) ==
  /\ client[c].pc = "cancel" /\ client[c].job = {j}
  /\ jobs' = [jobs EXCEPT ![j] = Ended]
  /\ client' = [client EXCEPT ![c] = ClientIdle]
  /\ UNCHANGED <<now, images, admin, reader, spent>>

--------------------------------------------------------------------------------
Age(j) == now - jobs[j].submitted

(* (age + est) / est of i is greater than that of j, without the division. *)
Outranks(i, j) ==
  Age(i) * (jobs[j].est.num * jobs[i].est.den) > Age(j) * (jobs[i].est.num * jobs[j].est.den)

(* ORDER BY score DESC LIMIT 1: which of several equals is not said.       *)
Highest(S) == {j \in S : \A i \in S : ~Outranks(i, j)}

(* Mutant of Claim: the shortest job first, however long others wait.      *)
ClaimShortest(j) ==
  /\ j \in Pending /\ \A i \in Pending : ~Less(jobs[i].est, jobs[j].est)
  /\ jobs' = [jobs EXCEPT ![j].status = "processing"]
  /\ UNCHANGED <<now, images, client, admin, reader, spent>>

(* dequeueNext: SKIP LOCKED passes over a row that another statement is    *)
(* writing; such a row may, but need not, be locked at that moment.        *)
Claim(j) ==
  /\ \E locked \in SUBSET Touched : j \in Highest(Pending \ locked)
  /\ jobs' = [jobs EXCEPT ![j].status = "processing"]
  /\ UNCHANGED <<now, images, client, admin, reader, spent>>

(* The UPDATE in markCompleted's transaction.                              *)
Averaged(image, runtime) ==
  [image EXCEPT !.avg = IF image.total = 0 THEN Whole(runtime)
                        ELSE [num |-> @.num * image.total + runtime * @.den,
                              den |-> @.den * (image.total + 1)],
                !.total = @ + 1]

Complete(j) ==
  LET i == jobs[j].image IN
  /\ j \in Processing
  /\ \E runtime \in Runtimes :
       /\ images' = [images EXCEPT ![i] = Averaged(@, runtime)]
       /\ spent' = [spent EXCEPT ![i] = @ + runtime]
  /\ jobs' = [jobs EXCEPT ![j] = Ended]
  /\ UNCHANGED <<now, client, admin, reader>>

(* markFailed: a retry keeps submitted_at and so its age.  The run itself  *)
(* or the stuck-job sweep calls it, the latter while the run goes on.      *)
Requeue(j) ==
  /\ j \in Processing
  /\ jobs[j].retries < MaxRetries
  /\ \E swept \in BOOLEAN :
       jobs' = [jobs EXCEPT ![j].status = "pending", ![j].retries = @ + 1,
                            ![j].stray = @ \/ swept]
  /\ reader' = [r \in Readers |-> [reader[r] EXCEPT !.uncounted = @ \ {j}]]
  /\ UNCHANGED <<now, images, client, admin, spent>>

Fail(j) ==
  /\ j \in Processing
  /\ jobs[j].retries = MaxRetries
  /\ jobs' = [jobs EXCEPT ![j] = Ended]
  /\ UNCHANGED <<now, images, client, admin, reader, spent>>

(* The run that was given up ends, and writes the row no more.             *)
StrayEnds(j) ==
  /\ jobs[j].stray
  /\ jobs' = [jobs EXCEPT ![j].stray = FALSE]
  /\ UNCHANGED <<now, images, client, admin, reader, spent>>

--------------------------------------------------------------------------------
(* Mutant of QueryOrder.                                                   *)
QueryOrderSwapped == <<"processing", "pending">>

(* GET /queue/status: one query counts the pending jobs, a later one the   *)
(* processing ones.                                                        *)
QueryOrder == <<"pending", "processing">>

Having(status) == {j \in Jobs : jobs[j].status = status}

(* uncounted is history: the jobs in the system that the first query does  *)
(* not count, without those that are put back into the queue meanwhile.    *)
StatusFirst(r) ==
  /\ reader[r].pc = "idle"
  /\ reader' = [reader EXCEPT ![r] = [pc |-> "status",
                  uncounted |-> (Pending \cup Processing) \ Having(QueryOrder[1])]]
  /\ UNCHANGED <<now, images, jobs, client, admin, spent>>

StatusSecond(r) ==
  /\ reader[r].pc = "status"
  /\ reader' = [reader EXCEPT ![r] = ReaderIdle]
  /\ UNCHANGED <<now, images, jobs, client, admin, spent>>

(* Mutant of JobsAhead: equal ratios count as ahead.                       *)
JobsNotBehind(j) == {i \in Pending \ {j} : ~Outranks(j, i)}

(* countJobsAhead; getQueuePosition of the lifecycle service, which GET    *)
(* /jobs/:id uses, and the answer to a submission add one.                 *)
JobsAhead(j) == {i \in Pending \ {j} : Outranks(i, j)}

(* getQueuePosition of the queue service sorts the pending jobs and looks  *)
(* the job up in the list, S being the rows that its query sees.           *)
Listings(S) ==
  LET n == Cardinality(S) IN
  {list \in [1..n -> S] :
     \A k, m \in 1..n : k < m => list[k] # list[m] /\ ~Outranks(list[m], list[k])}

--------------------------------------------------------------------------------
Submit(c) ==
  \/ \E i \in Images : SubmitFind(c, i)
  \/ \E j \in Jobs : SubmitCreate(c, j) \/ SubmitUndo(c, j)
  \/ SubmitStore(c)

Cancel(c) == \E j \in Jobs : CancelFind(c, j) \/ CancelSave(c, j)

Configure(a) == (\E i \in Images : ImageFind(a, i)) \/ ImageSave(a) \/ ImageRefused(a)

Grade(j) == Claim(j) \/ Complete(j) \/ Requeue(j) \/ Fail(j) \/ StrayEnds(j)

Status(r) == StatusFirst(r) \/ StatusSecond(r)

Next ==
  \/ Tick
  \/ \E i \in Images : ImageInsert(i)
  \/ \E c \in Clients : Submit(c) \/ Cancel(c)
  \/ \E a \in Admins : Configure(a)
  \/ \E j \in Jobs : Grade(j)
  \/ \E r \in Readers : Status(r)

Spec == Init /\ [][Next]_vars

--------------------------------------------------------------------------------
JobsOK ==
  /\ jobs \in [Jobs -> Job]
  /\ \A j \in Jobs : /\ jobs[j].est.num > 0 /\ jobs[j].submitted <= now
                     /\ jobs[j].status \in Active => jobs[j].image \in Images

ClientsOK ==
  /\ client \in [Clients -> ClientFrame]
  /\ \A c \in Clients : client[c].pc = "create" =>
                          client[c].image \in Images /\ client[c].est.num > 0

(* An estimate is never 0, also when the jobs it is averaged from took no  *)
(* time: dequeueNext divides by it for every pending row, so one division  *)
(* by zero would stop the whole queue.                                     *)
TypeOK ==
  /\ now \in Nat
  /\ images \in [Images -> Image]
  /\ \A i \in Images : images[i].made => images[i].default > 0
  /\ JobsOK
  /\ ClientsOK
  /\ admin \in [Admins -> [pc : {"idle", "save"}, image : Images \cup {"none"},
                           snap : Image]]
  /\ \A a \in Admins : admin[a].pc = "save" => admin[a].image \in Images
  /\ reader \in [Readers -> [pc : {"idle", "status"}, uncounted : SUBSET Jobs]]
  /\ spent \in [Images -> Nat]

(* avg_runtime_seconds is the mean runtime of every job graded with the    *)
(* image, and no completion is lost: a configuration that is edited, with  *)
(* a row read before other jobs completed, keeps the statistics they made. *)
AverageIsMean ==
  \A i \in Images : images[i].avg.num * images[i].total = spent[i] * images[i].avg.den

(* A job whose row nobody else is writing is never overtaken by one that   *)
(* was submitted later and is expected to run no less long, also after a   *)
(* retry has put either of them back into the queue.                       *)
NoUnfairOvertaking ==
  [][\A i, j \in Jobs :
       /\ Claim(j)
       /\ i \in Pending \ Touched
       /\ jobs[i].submitted < jobs[j].submitted
       => Less(jobs[j].est, jobs[i].est)]_vars

(* The queue status misses no job that is in the system all the while,     *)
(* although it is computed by queries at different times: a job claimed    *)
(* between two of them is counted twice rather than not at all.  Only a    *)
(* job put back into the queue meanwhile may go uncounted.                 *)
StatusMissesNoJob ==
  [][\A r \in Readers :
       StatusSecond(r) =>
         reader[r].uncounted \cap (Pending \cup Processing)
           \subseteq Having(QueryOrder[2])]_vars

(* Three queries embody the order of the queue: the claim, the count that  *)
(* gives the position in GET /jobs/:id and the list that gives it in GET   *)
(* /queue/position/:id.  They agree: who is told to be first may be next,  *)
(* and the two positions differ only among jobs of the same ratio.         *)
PositionsAgree ==
  /\ \A j \in Pending : JobsAhead(j) = {} <=> j \in Highest(Pending)
  /\ \A list \in Listings(Pending) : \A k \in DOMAIN list :
       LET ahead == JobsAhead(list[k])
           equal == {i \in Pending \ ahead : ~Outranks(list[k], i)} IN
       k \in (Cardinality(ahead) + 1)..(Cardinality(ahead) + Cardinality(equal))
================================================================================
