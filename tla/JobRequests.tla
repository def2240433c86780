----------------------------- MODULE JobRequests -----------------------------
(***************************************************************************)
(* post_job() (app.py) and the bucket of a job (executor.py, JobBucket;    *)
(* minioclient.py): a request is parsed, its MinIO groups are checked and  *)
(* a machine is chosen for it; start_job() makes a bucket for the job and  *)
(* a user that may access it, the tear down makes another user for the     *)
(* client, and dropping the bucket removes them all.  Every call to MinIO  *)
(* may fail.                                                               *)
(*                                                                         *)
(* Two requests that start a job on one machine at once are the subject of *)
(* module Executor, and excluded here.                                     *)
(***************************************************************************)
EXTENDS Naturals, FiniteSets

CONSTANTS
  Requests, Machines,
  None,          \* no machine
  Unknown,       \* the ID of a machine that does not exist
  MaxFaults,     \* bound: failing calls to MinIO
  MaxRetires     \* bound: machines that are retired or activated, or train

ASSUME NoneAssumption == None \notin Machines \cup Requests

VARIABLES
  pc,        \* request |-> what is done for it
  target,    \* request |-> the machine it asks for, the machines with its tags
  groups,    \* request |-> does it ask for MinIO groups?
  same,      \* do all requests have the same job_id?
  machine,   \* request |-> the machine that was chosen
  code,      \* request |-> the answer
  idle,      \* machines in state IDLE; the others run a job, train or wait for a configuration
  retired,   \* machines with is_retired
  bucket,    \* request |-> its JobBucket: the name, and the roles with credentials
  buckets,   \* MinIO: name |-> the request it was made for, None if there is none
  users, policies,   \* MinIO: pairs of a name and a role
  failed,    \* the calls to MinIO that failed
  budget     \* how often calls failed; how often a machine was retired, or trained

minio == <<buckets, users, policies>>
farm == <<idle, retired>>
vars == <<pc, target, groups, same, machine, code, farm, bucket, minio, failed, budget>>

Roles == {"dut", "client"}
\* create_valid_bucket_name("job-<machine>-<job_id>"), and the same name made
\* unique by the time and a random number.
Plain(r) == <<machine[r], IF same THEN None ELSE r, None>>
UniqueByJobId(r) == <<machine[r], IF same THEN None ELSE r, None>>    \* mutant
Unique(r) == <<machine[r], IF same THEN None ELSE r, r>>
Names == Machines \X (Requests \cup {None}) \X (Requests \cup {None})
NoName == <<None, None, None>>
NoBucket == [name |-> NoName, roles |-> {}]
Live(r) == bucket[r].name # NoName

Starting == {"start", "bucket", "credentials", "queue"}
Final == {"refused", "over"}
States == {"parse", "check", "find", "hung", "failed", "run", "remove", "remove users"}
            \cup Starting \cup Final

\* The machine is in the hands of the request: from the check in start_job() until
\* session_end().
Uses(r) ==
  \/ pc[r] \in {"bucket", "credentials", "queue", "run"}
  \/ pc[r] \in {"remove", "remove users"} /\ code[r] = 200

TypeOK ==
  /\ pc \in [Requests -> States]
  /\ groups \in [Requests -> BOOLEAN] /\ same \in BOOLEAN
  /\ target \in [Requests -> [id : Machines \cup {None, Unknown}, tagged : SUBSET Machines]]
  /\ machine \in [Requests -> Machines \cup {None}]
  /\ code \in [Requests -> {0, 200, 400, 403, 404, 406, 409, 500}]
  /\ idle \subseteq Machines /\ retired \subseteq Machines
  /\ bucket \in [Requests -> [name : Names \cup {NoName}, roles : SUBSET Roles]]
  /\ buckets \in [Names -> Requests \cup {None}]
  /\ users \subseteq Names \X Roles /\ policies \subseteq Names \X Roles
  /\ failed \subseteq {"make", "credentials", "group", "remove", "missing"}
  /\ budget \in [faults : 0 .. MaxFaults, retires : 0 .. MaxRetires]
  /\ \A r \in Requests : ~ Live(r) => bucket[r] = NoBucket

Init ==
  /\ pc = [r \in Requests |-> "parse"]
  /\ target \in [Requests -> [id : Machines \cup {None, Unknown}, tagged : SUBSET Machines]]
  /\ groups \in [Requests -> BOOLEAN] /\ same \in BOOLEAN
  /\ machine = [r \in Requests |-> None] /\ code = [r \in Requests |-> 0]
  /\ idle \in SUBSET Machines /\ retired = {}
  /\ bucket = [r \in Requests |-> NoBucket]
  /\ buckets = [n \in Names |-> None] /\ users = {} /\ policies = {}
  /\ failed = {} /\ budget = [faults |-> 0, retires |-> 0]

Goto(r, s) == pc' = [pc EXCEPT ![r] = s]
Answer(r, c) == code' = [code EXCEPT ![r] = c]
\* Calls to MinIO fail.
Fail(calls) ==
  /\ budget.faults < MaxFaults /\ budget' = [budget EXCEPT !.faults = @ + 1]
  /\ failed' = failed \cup calls
Works == UNCHANGED <<failed, budget>>

-----------------------------------------------------------------------------
(* post_job()                                                               *)

\* JobRequest.parse(): a ValueError is answered with 400.
Parse(r) == \E ok \in BOOLEAN :
  /\ pc[r] = "parse"
  /\ IF ok THEN Goto(r, "check") /\ code' = code ELSE Goto(r, "refused") /\ Answer(r, 400)
  /\ UNCHANGED <<target, groups, same, machine, farm, bucket, minio, failed, budget>>

\* check_minio_credentials(): of the groups, if there are any; only a login that
\* fails is an answer, other failures of MinIO are internal errors.
CheckMinioCredentials(r) == \E outcome \in {"ok", "invalid", "error"} :
  /\ pc[r] = "check"
  /\ outcome # "ok" => groups[r]
  /\ CASE outcome = "ok" -> Goto(r, "find") /\ code' = code
       [] outcome = "invalid" -> Goto(r, "refused") /\ Answer(r, 403)
       [] OTHER -> Goto(r, "refused") /\ Answer(r, 500)
  /\ UNCHANGED <<target, groups, same, machine, farm, bucket, minio, failed, budget>>

\* The machine with the ID, or the first one that will do; the checks are made
\* in this order.
FindSuitableMachine(t) ==
  IF t.id # None
  THEN CASE t.id = Unknown -> [machines |-> {}, code |-> 404]
         [] t.id # Unknown /\ t.id \notin t.tagged -> [machines |-> {}, code |-> 406]
         [] t.id \in t.tagged \ idle -> [machines |-> {}, code |-> 409]
         [] t.id \in t.tagged \cap idle \cap retired -> [machines |-> {}, code |-> 409]
         [] OTHER -> [machines |-> {t.id}, code |-> 200]
  ELSE LET active == t.tagged \ retired IN
       CASE active \cap idle # {} -> [machines |-> active \cap idle, code |-> 200]
         [] active # {} /\ active \cap idle = {} -> [machines |-> {}, code |-> 409]
         [] OTHER -> [machines |-> {}, code |-> 406]

\* A client that waits for a machine (-w) posts its request again after a 409: but the
\* first post() has read the MultipartEncoder to its end, so that the server waits for
\* a body that does not come, and the client for an answer.
Find(r) ==
  LET found == FindSuitableMachine(target[r]) IN
  /\ pc[r] = "find"
  /\ Answer(r, found.code)
  /\ CASE found.code = 200 -> /\ \E m \in found.machines : machine' = [machine EXCEPT ![r] = m]
                              /\ Goto(r, "start")
       [] found.code = 409 -> (Goto(r, "hung") \/ Goto(r, "refused")) /\ UNCHANGED machine
       [] OTHER -> Goto(r, "refused") /\ UNCHANGED machine
  /\ UNCHANGED <<target, groups, same, farm, bucket, minio, failed, budget>>

\* The user stops that client: a request that ends here cannot be parsed.
GiveUp(r) ==
  /\ pc[r] = "hung" /\ Goto(r, "refused") /\ Answer(r, 400)
  /\ UNCHANGED <<target, groups, same, machine, farm, bucket, minio, failed, budget>>

-----------------------------------------------------------------------------
(* start_job()                                                              *)

\* The state is checked again; between two requests it is not IDLE any more.
StartCheck(r) ==
  /\ pc[r] = "start"
  /\ \A s \in Requests \ {r} : ~ (machine[s] = machine[r] /\ pc[s] \in Starting \ {"start"})
  /\ IF machine[r] \in idle THEN Goto(r, "bucket") /\ code' = code
                            ELSE Goto(r, "refused") /\ Answer(r, 400)
  /\ UNCHANGED <<target, groups, same, machine, farm, bucket, minio, failed, budget>>

\* A bucket whose start_job() raised is kept until the next one replaces it.
Kept(m) == {s \in Requests : machine[s] = m /\ pc[s] = "failed"}
Removing(m) == {s \in Requests : machine[s] = m /\ pc[s] \in {"remove", "remove users"}}
Own(r, name) ==
  /\ bucket' = [bucket EXCEPT ![r].name = name]
  /\ pc' = [s \in Requests |-> IF s = r THEN "credentials" ELSE
                                IF s \in Kept(machine[r]) THEN "remove" ELSE pc[s]]
  /\ code' = code

\* JobBucket.from_job_request(): if the name is taken, a unique one is tried. The
\* object that could not make its bucket is deleted after that, and removes the
\* bucket of this name (__del__), unless this fails.
FromJobRequest(r) ==
  /\ pc[r] = "bucket"
  /\ \/ /\ buckets[Plain(r)] = None
        /\ Own(r, Plain(r))
        /\ buckets' = [buckets EXCEPT ![Plain(r)] = r] /\ Works
     \/ /\ buckets[Plain(r)] # None
        /\ Own(r, Unique(r))
        /\ \/ buckets' = [buckets EXCEPT ![Unique(r)] = r, ![Plain(r)] = None] /\ Works
           \/ buckets' = [buckets EXCEPT ![Unique(r)] = r] /\ Fail({"remove"})
     \/ /\ Goto(r, "refused") /\ Answer(r, 400) /\ Fail({"make"}) /\ bucket' = bucket
        /\ buckets' = [buckets EXCEPT ![Plain(r)] = None]
  /\ UNCHANGED <<target, groups, same, machine, farm, users, policies>>

\* Mutant: the user that got no policy is not removed.
CreateOwnerCredentialsKeepUser(r, role) ==
  LET u == <<bucket[r].name, role>> IN
  \/ /\ users' = users \cup {u} /\ policies' = policies \cup {u} /\ Works
     /\ bucket' = [bucket EXCEPT ![r].roles = @ \cup {role}]
  \/ /\ Fail({"credentials"}) /\ bucket' = bucket
     /\ users' = users \cup {u} /\ policies' \in {policies, policies \cup {u}}

\* create_owner_credentials(role): add a user; add and set a policy, or remove the
\* user again, which may fail as well; add the user to the groups.  The credentials
\* are noted at the end.
CreateOwnerCredentials(r, role) ==
  LET u == <<bucket[r].name, role>> IN
  \/ /\ users' = users \cup {u} /\ policies' = policies \cup {u} /\ Works
     /\ bucket' = [bucket EXCEPT ![r].roles = @ \cup {role}]
  \/ /\ Fail({"credentials"}) /\ bucket' = bucket
     /\ users' = users \ {u} /\ policies' \in {policies, policies \cup {u}}
  \/ /\ Fail({"credentials", "remove"}) /\ bucket' = bucket
     /\ users' = users \cup {u} /\ policies' \in {policies, policies \cup {u}}
  \/ /\ role = "dut" /\ groups[r] /\ Fail({"group"}) /\ bucket' = bucket
     /\ users' = users \cup {u} /\ policies' = policies \cup {u}

\* An exception is an internal error.
DutCredentials(r) ==
  /\ pc[r] = "credentials" /\ Removing(machine[r]) = {}
  /\ CreateOwnerCredentials(r, "dut")
  /\ IF "dut" \in bucket'[r].roles THEN Goto(r, "queue") /\ code' = code
                                   ELSE Goto(r, "failed") /\ Answer(r, 500)
  /\ UNCHANGED <<target, groups, same, machine, farm, buckets>>

\* Rendering the job or connecting to SALAD raises, or the job is queued.
Queue(r) == \E ok \in BOOLEAN :
  /\ pc[r] = "queue"
  /\ IF ok THEN Goto(r, "run") /\ idle' = idle \ {machine[r]} /\ code' = code
           ELSE Goto(r, "failed") /\ Answer(r, 500) /\ idle' = idle
  /\ UNCHANGED <<target, groups, same, machine, retired, bucket, minio, failed, budget>>

-----------------------------------------------------------------------------
(* The end of the job.                                                      *)

\* The tear down gives the client access to the bucket, unless it fails or the
\* job was stopped before; session_end() drops the bucket.
TearDown(r) == \E skipped \in BOOLEAN :
  /\ pc[r] = "run"
  /\ IF skipped THEN UNCHANGED <<bucket, users, policies, failed, budget>>
                ELSE CreateOwnerCredentials(r, "client")
  /\ Goto(r, "remove")
  /\ UNCHANGED <<target, groups, same, machine, code, farm, buckets>>

\* Mutant: a call to MinIO that failed keeps the machine from being idle again.
ForgetIfClean(r) ==
  /\ bucket' = [bucket EXCEPT ![r] = NoBucket] /\ Goto(r, "over")
  /\ idle' = IF code[r] = 200 /\ failed = {} THEN idle \cup {machine[r]} ELSE idle

\* The machine is idle again once the bucket of its job is gone.
Forget(r) ==
  /\ bucket' = [bucket EXCEPT ![r] = NoBucket] /\ Goto(r, "over")
  /\ idle' = IF code[r] = 200 THEN idle \cup {machine[r]} ELSE idle

\* JobBucket.__del__(): remove() gives up at the first call that fails, and a
\* bucket that is not there cannot be removed.
RemoveBucket(r) ==
  /\ pc[r] = "remove"
  /\ \/ /\ buckets[bucket[r].name] # None /\ Works
        /\ buckets' = [buckets EXCEPT ![bucket[r].name] = None]
        /\ Goto(r, "remove users") /\ UNCHANGED <<bucket, idle>>
     \/ /\ IF buckets[bucket[r].name] # None THEN Fail({"remove"})
           ELSE failed' = failed \cup {"missing"} /\ budget' = budget
        /\ Forget(r) /\ buckets' = buckets
  /\ UNCHANGED <<target, groups, same, machine, code, retired, users, policies>>

RemoveUsers(r) ==
  /\ pc[r] = "remove users"
  /\ IF bucket[r].roles = {} THEN Forget(r) /\ Works /\ UNCHANGED <<users, policies>>
     ELSE \E role \in bucket[r].roles : LET u == <<bucket[r].name, role>> IN
            \/ /\ policies' = policies \ {u} /\ users' = users \ {u} /\ Works
               /\ bucket' = [bucket EXCEPT ![r].roles = @ \ {role}] /\ UNCHANGED <<pc, idle>>
            \/ /\ policies' \in {policies, policies \ {u}} /\ users' = users
               /\ Fail({"remove"}) /\ Forget(r)
  /\ UNCHANGED <<target, groups, same, machine, code, retired, buckets>>

\* The machine is retired or activated meanwhile.
Retire == \E m \in Machines :
  /\ budget.retires < MaxRetires /\ budget' = [budget EXCEPT !.retires = @ + 1]
  /\ retired' = IF m \in retired THEN retired \ {m} ELSE retired \cup {m}
  /\ UNCHANGED <<pc, target, groups, same, machine, code, idle, bucket, minio, failed>>

\* A machine that has no job begins to train or to wait for its configuration, or is
\* done with that.
Train == \E m \in Machines :
  /\ \A r \in Requests : Uses(r) => machine[r] # m
  /\ budget.retires < MaxRetires /\ budget' = [budget EXCEPT !.retires = @ + 1]
  /\ idle' = IF m \in idle THEN idle \ {m} ELSE idle \cup {m}
  /\ UNCHANGED <<pc, target, groups, same, machine, code, retired, bucket, minio, failed>>

-----------------------------------------------------------------------------
Serve(r) ==
  \/ Parse(r) \/ CheckMinioCredentials(r) \/ Find(r) \/ StartCheck(r)
  \/ FromJobRequest(r) \/ DutCredentials(r) \/ Queue(r)
  \/ TearDown(r) \/ RemoveBucket(r) \/ RemoveUsers(r)

Next == Retire \/ Train \/ \E r \in Requests : Serve(r) \/ GiveUp(r)

\* Requests are served, and jobs end (Executor).
Spec == Init /\ [][Next]_vars /\ \A r \in Requests : WF_vars(Serve(r))

-----------------------------------------------------------------------------
(* Properties.                                                              *)

\* From start_job() to the end of its session a job has a bucket of its own, and
\* the users it noted for it, whatever earlier jobs of the same name left behind
\* and whatever fails.  Only a bucket that could not be made may cost a later job
\* its bucket: its object removes a bucket that another JobBucket still stands for.
JobOwnsItsBucket ==
  \A r \in Requests : pc[r] \in {"credentials", "queue", "run"} =>
    /\ "make" \notin failed => buckets[bucket[r].name] = r
    /\ {bucket[r].name} \X bucket[r].roles \subseteq users

\* Nothing is left on MinIO but what belongs to a JobBucket, as long as no call
\* failed that is not undone: the user that got no policy, and the bucket in the
\* way of another one, are removed again.
Owned == UNION {{bucket[r].name} \X Roles : r \in Requests}
NothingLeaks ==
  /\ failed \cap {"remove"} = {} => \A n \in Names : buckets[n] # None => bucket[buckets[n]].name = n
  /\ failed \cap {"remove", "missing", "group"} = {} => users \subseteq Owned
  /\ failed = {} => policies \subseteq Owned

\* A machine that start_job() took for a request is idle again in the end, whatever fails
\* on the way; and every request comes to its end, except that of a client that was told
\* to wait: what it posts again (queue_job()) is never answered, even once its machine is
\* idle, until its user stops it.
RequestsEnd ==
  \A r \in Requests :
    /\ Uses(r) ~> ~ Uses(r) /\ machine[r] \in idle
    /\ <>(pc[r] \in Final \cup {"failed"}) \/ <>[](pc[r] = "hung" /\ code[r] = 409)
=============================================================================
