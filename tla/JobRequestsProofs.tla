-------------------------- MODULE JobRequestsProofs --------------------------
(***************************************************************************)
(* That a job has its bucket to itself, and that what is on MinIO belongs  *)
(* to a JobBucket, for any number of requests, machines and failures.      *)
(***************************************************************************)
EXTENDS JobRequests, TLAPS

\* A request in one of these states has a JobBucket.
Holding == {"credentials", "queue", "run", "failed", "remove", "remove users"}
Gone == {"remove", "remove users"}

RequestTypes ==
  /\ pc \in [Requests -> States] /\ code \in [Requests -> Nat]
  /\ target \in [Requests -> [id : Machines \cup {None, Unknown}, tagged : SUBSET Machines]]
  /\ machine \in [Requests -> Machines \cup {None}]
  /\ bucket \in [Requests -> [name : Names \cup {NoName}, roles : SUBSET Roles]]
  /\ buckets \in [Names -> Requests \cup {None}]
  /\ \A r \in Requests : pc[r] \in Starting \cup Holding => machine[r] \in Machines

\* What the state of a request says of its bucket and of its answer.
BucketFits(r) ==
  /\ pc[r] \in Holding => bucket[r].name \in {Plain(r), Unique(r)}
  /\ pc[r] \notin Holding => bucket[r] = NoBucket
  /\ pc[r] = "credentials" => bucket[r].roles = {}
  /\ pc[r] \in Starting \cup {"run"} => code[r] = 200
  /\ pc[r] = "failed" => code[r] # 200
BucketOfState == \A r \in Requests : BucketFits(r)

\* A machine is used by one request at a time, and is idle until the job is queued.
OneUser ==
  \A r \in Requests : Uses(r) =>
    /\ machine[r] \in idle <=> pc[r] \in {"bucket", "credentials", "queue"}
    /\ \A s \in Requests \ {r} : Uses(s) => machine[s] # machine[r]

\* The bucket of a start_job() that raised is the only one of its machine, until the
\* next one replaces it, which then waits for it to be removed.
OneLeftover ==
  \A s \in Requests :
    /\ pc[s] \in Gone /\ code[s] # 200
         => \E r \in Requests : machine[r] = machine[s] /\ pc[r] = "credentials"
    /\ pc[s] = "failed"
         => \A r \in Requests \ {s} : machine[r] = machine[s] => pc[r] \notin Holding

\* As long as no bucket could not be made: each JobBucket that is not being removed has
\* its bucket, and the one that is removed as it is replaced has another name.
BucketIsOwn ==
  "make" \notin failed =>
    \A r \in Requests :
      /\ pc[r] \in {"credentials", "queue", "run", "failed"} => buckets[bucket[r].name] = r
      /\ pc[r] = "credentials"
           => \A s \in Requests \ {r} :
                pc[s] \in Gone /\ machine[s] = machine[r] => bucket[s].name # bucket[r].name

UsersAreThere ==
  \A r \in Requests : pc[r] \in {"credentials", "queue", "run"} =>
    {bucket[r].name} \X bucket[r].roles \subseteq users

BucketInv ==
  /\ RequestTypes /\ BucketOfState /\ OneUser /\ OneLeftover /\ BucketIsOwn /\ UsersAreThere

-----------------------------------------------------------------------------
(* The names of buckets.                                                    *)

\* The request that a bucket was made for is not in the name of any other one's, unless
\* both have the plain name; and the machine is in every name.
LEMMA NamesOfRequests ==
  ASSUME RequestTypes, NEW r \in Requests, machine[r] \in Machines
  PROVE  /\ Plain(r) \in Names /\ Unique(r) \in Names
         /\ Plain(r) # NoName /\ Unique(r) # NoName
         /\ \A s \in Requests \ {r} : Unique(r) \notin {Plain(s), Unique(s)}
         /\ \A s \in Requests : Unique(r) # Plain(s)
BY NoneAssumption DEF RequestTypes, Plain, Unique, Names, NoName

\* Two requests whose buckets have one name are for one machine.
LEMMA SameNameSameMachine ==
  ASSUME RequestTypes, BucketOfState,
         NEW r \in Requests, NEW s \in Requests,
         pc[r] \in Holding, pc[s] \in Holding, bucket[r].name = bucket[s].name
  PROVE  machine[r] = machine[s]
<1>1. machine[r] \in Machines /\ machine[s] \in Machines
  BY DEF RequestTypes
<1>2. bucket[r].name \in {Plain(r), Unique(r)} /\ bucket[s].name \in {Plain(s), Unique(s)}
  BY DEF BucketOfState, BucketFits
<1>3. Unique(r) # Plain(s) /\ Unique(s) # Plain(r)
  BY <1>1, NamesOfRequests
<1>4. Plain(r) = Plain(s) \/ Unique(r) = Unique(s)
  BY <1>2, <1>3
<1> QED
  BY <1>4 DEF Plain, Unique

\* A search for a machine finds some of the machines with the tags.
LEMMA FoundIsTagged ==
  ASSUME NEW t \in [id : Machines \cup {None, Unknown}, tagged : SUBSET Machines],
         FindSuitableMachine(t).code = 200
  PROVE  FindSuitableMachine(t).machines \subseteq Machines
<1>1. CASE t.id # None
  BY <1>1 DEF FindSuitableMachine
<1>2. CASE t.id = None
  BY <1>2 DEF FindSuitableMachine
<1> QED
  BY <1>1, <1>2

\* While a request uses a machine, no other JobBucket of the machine is there, but one
\* that is being removed as it is replaced, or will be when the bucket is made.
LEMMA OtherBuckets ==
  ASSUME OneUser, OneLeftover, NEW r \in Requests, NEW s \in Requests \ {r},
         machine[s] = machine[r], pc[s] \in Holding, Uses(r)
  PROVE  /\ ~ Uses(s)
         /\ pc[s] \in Gone => pc[r] = "credentials"
         /\ pc[s] \notin Gone => pc[s] = "failed" /\ pc[r] = "bucket"
<1>1. ~ Uses(s)
  BY DEF OneUser
<1>2. ASSUME pc[s] \in Gone PROVE pc[r] = "credentials"
  <2>1. code[s] # 200
    BY <1>1, <1>2 DEF Uses, Gone
  <2>2. PICK q \in Requests : machine[q] = machine[s] /\ pc[q] = "credentials"
    BY <1>2, <2>1 DEF OneLeftover
  <2>3. Uses(q)
    BY <2>2 DEF Uses
  <2> QED
    BY <2>2, <2>3 DEF OneUser
<1>3. ASSUME pc[s] \notin Gone PROVE pc[s] = "failed" /\ pc[r] = "bucket"
  <2>1. pc[s] = "failed"
    BY <1>1, <1>3 DEF Uses, Holding, Gone
  <2>2. pc[r] \notin Holding
    BY <2>1 DEF OneLeftover
  <2> QED
    BY <2>1, <2>2 DEF Uses, Holding, Gone
<1> QED
  BY <1>1, <1>2, <1>3

-----------------------------------------------------------------------------
(* Every action keeps the buckets with their jobs.                          *)

\* Requests that have no bucket and do not make one come and go.
LEMMA OthersComeAndGo ==
  ASSUME BucketInv, RequestTypes', UNCHANGED <<same, idle, bucket, buckets, users, failed>>,
         \A r \in Requests : \/ pc'[r] = pc[r] /\ code'[r] = code[r] /\ machine'[r] = machine[r]
                             \/ /\ pc[r] \notin Holding \cup {"bucket"}
                                /\ pc'[r] \notin Holding \cup {"bucket"}
                                /\ pc'[r] = "start" => code'[r] = 200
  PROVE  BucketInv'
<1> USE DEF BucketInv
<1>1. ASSUME NEW r \in Requests
      PROVE  /\ pc'[r] \in Holding <=> pc[r] \in Holding
             /\ pc'[r] \in Gone <=> pc[r] \in Gone
             /\ Uses(r)' <=> Uses(r)
  <2>1. CASE pc'[r] = pc[r] /\ code'[r] = code[r]
    BY <2>1 DEF Uses
  <2>2. CASE pc[r] \notin Holding \cup {"bucket"} /\ pc'[r] \notin Holding \cup {"bucket"}
    BY <2>2 DEF Uses, Holding, Gone
  <2> QED
    BY <2>1, <2>2
<1>2. \A r \in Requests : pc[r] \in Holding \cup {"bucket"} \/ pc'[r] \in Holding \cup {"bucket"}
        => pc'[r] = pc[r] /\ code'[r] = code[r] /\ machine'[r] = machine[r]
  OBVIOUS
<1>3. BucketOfState'
  <2> SUFFICES ASSUME NEW r \in Requests PROVE BucketFits(r)'
    BY DEF BucketOfState
  <2>1. pc'[r] \in Holding => bucket'[r].name \in {Plain(r)', Unique(r)'}
    BY <1>1, <1>2 DEF BucketOfState, BucketFits, Plain, Unique
  <2>2. pc'[r] \in Starting \cup {"run"} => code'[r] = 200
    <3>1. CASE pc'[r] = "start"
      BY <3>1 DEF BucketOfState, BucketFits, Starting
    <3>2. CASE pc'[r] \in {"bucket", "credentials", "queue", "run"}
      <4>1. pc'[r] = pc[r] /\ code'[r] = code[r]
        BY <3>2, <1>2 DEF Holding
      <4> QED
        BY <3>2, <4>1 DEF BucketOfState, BucketFits, Starting
    <3> QED
      BY <3>1, <3>2 DEF Starting
  <2>3. pc'[r] \notin Holding => bucket'[r] = NoBucket'
    BY <1>1 DEF BucketOfState, BucketFits, NoBucket, NoName
  <2>4. /\ pc'[r] = "credentials" => bucket'[r].roles = {}
        /\ pc'[r] = "failed" => code'[r] # 200
    <3>1. pc'[r] \in {"credentials", "failed"} => pc'[r] = pc[r] /\ code'[r] = code[r]
      BY <1>2 DEF Holding
    <3> QED
      BY <3>1 DEF BucketOfState, BucketFits
  <2> QED
    BY <2>1, <2>2, <2>3, <2>4 DEF BucketFits
<1>4. OneUser'
  <2> SUFFICES ASSUME NEW r \in Requests, Uses(r)'
               PROVE  /\ machine'[r] \in idle' <=> pc'[r] \in {"bucket", "credentials", "queue"}
                      /\ \A s \in Requests \ {r} : Uses(s)' => machine'[s] # machine'[r]
    BY DEF OneUser
  <2>1. \A s \in Requests : Uses(s) => pc[s] \in Holding \cup {"bucket"}
    BY DEF Uses, Holding, Gone
  <2> QED
    BY <1>1, <1>2, <2>1 DEF OneUser
<1>5. OneLeftover'
  <2> SUFFICES ASSUME NEW s \in Requests
               PROVE  /\ pc'[s] \in Gone /\ code'[s] # 200
                            => \E r \in Requests : machine'[r] = machine'[s] /\ pc'[r] = "credentials"
                      /\ pc'[s] = "failed"
                            => \A r \in Requests \ {s} : machine'[r] = machine'[s] => pc'[r] \notin Holding
    BY DEF OneLeftover
  <2>1. ASSUME pc'[s] \in Gone, code'[s] # 200
        PROVE  \E r \in Requests : machine'[r] = machine'[s] /\ pc'[r] = "credentials"
    <3>1. pc[s] \in Gone /\ code[s] # 200 /\ machine'[s] = machine[s]
      BY <1>1, <1>2, <2>1 DEF Holding, Gone
    <3>2. PICK r \in Requests : machine[r] = machine[s] /\ pc[r] = "credentials"
      BY <3>1 DEF OneLeftover
    <3>3. machine'[r] = machine[r] /\ pc'[r] = pc[r]
      BY <3>2, <1>2 DEF Holding
    <3> QED
      BY <3>1, <3>2, <3>3
  <2>2. ASSUME pc'[s] = "failed", NEW r \in Requests \ {s}, machine'[r] = machine'[s]
        PROVE  pc'[r] \notin Holding
    <3>1. pc[s] = "failed" /\ machine'[s] = machine[s]
      BY <1>2, <2>2 DEF Holding
    <3>2. CASE pc'[r] \in Holding
      BY <1>1, <1>2, <2>2, <3>1, <3>2 DEF OneLeftover
    <3> QED
      BY <3>2
  <2> QED
    BY <2>1, <2>2
<1>6. BucketIsOwn'
  <2> SUFFICES ASSUME "make" \notin failed, NEW r \in Requests
               PROVE  /\ pc'[r] \in {"credentials", "queue", "run", "failed"}
                            => buckets'[bucket'[r].name] = r
                      /\ pc'[r] = "credentials"
                            => \A s \in Requests \ {r} : pc'[s] \in Gone /\ machine'[s] = machine'[r]
                                 => bucket'[s].name # bucket'[r].name
    BY DEF BucketIsOwn
  <2>1. \A s \in Requests : pc'[s] \in Gone => pc[s] \in Gone /\ machine'[s] = machine[s]
    BY <1>1, <1>2 DEF Gone, Holding
  <2>2. pc'[r] \in {"credentials", "queue", "run", "failed"}
          => pc'[r] = pc[r] /\ machine'[r] = machine[r]
    BY <1>2 DEF Holding
  <2> QED
    BY <2>1, <2>2 DEF BucketIsOwn
<1>7. UsersAreThere'
  BY <1>1, <1>2 DEF UsersAreThere, Holding
<1> QED
  BY <1>3, <1>4, <1>5, <1>6, <1>7

\* post_job() before start_job(), and a client that is stopped.
LEMMA EarlySteps ==
  ASSUME BucketInv, NEW q \in Requests, Parse(q) \/ CheckMinioCredentials(q) \/ GiveUp(q)
  PROVE  BucketInv'
<1>1. UNCHANGED <<target, same, machine, idle, bucket, buckets, users, failed>>
  BY DEF Parse, CheckMinioCredentials, GiveUp, farm, minio
<1>2. /\ pc[q] \in {"parse", "check", "hung"}
      /\ \E st \in {"check", "find", "refused"} : pc' = [pc EXCEPT ![q] = st]
  BY DEF Parse, CheckMinioCredentials, GiveUp, Goto
<1>3. code' = code \/ \E c \in {400, 403, 500} : code' = [code EXCEPT ![q] = c]
  BY DEF Parse, CheckMinioCredentials, GiveUp, Answer
<1>4. \A s \in Requests \ {q} : pc'[s] = pc[s] /\ code'[s] = code[s]
  BY <1>2, <1>3 DEF BucketInv, RequestTypes
<1>5. pc'[q] \in {"check", "find", "refused"}
  BY <1>2 DEF BucketInv, RequestTypes
<1>6. RequestTypes'
  <2>1. pc' \in [Requests -> States]
    BY <1>2 DEF BucketInv, RequestTypes, States, Final
  <2>2. code' \in [Requests -> Nat]
    BY <1>3 DEF BucketInv, RequestTypes
  <2>3. \A r \in Requests : pc'[r] \in Starting \cup Holding => machine'[r] \in Machines
    BY <1>1, <1>4, <1>5 DEF BucketInv, RequestTypes, Starting, Holding
  <2> QED
    BY <1>1, <2>1, <2>2, <2>3 DEF BucketInv, RequestTypes, NoName, Names
<1>7. pc[q] \notin Holding \cup {"bucket"} /\ pc'[q] \notin Holding \cup {"bucket", "start"}
  BY <1>2, <1>5 DEF Holding
<1> QED
  BY <1>1, <1>4, <1>6, <1>7, OthersComeAndGo

\* A request looks for a machine, or is refused.
LEMMA FindStep ==
  ASSUME BucketInv, NEW q \in Requests, Find(q)
  PROVE  BucketInv'
<1> DEFINE found == FindSuitableMachine(target[q])
<1>1. UNCHANGED <<target, same, idle, bucket, buckets, users, failed>> /\ pc[q] = "find"
  BY DEF Find, farm, minio
<1>2. code' = [code EXCEPT ![q] = found.code] /\ found.code \in Nat
  <2>1. found.code \in {200, 404, 406, 409}
    BY DEF FindSuitableMachine
  <2> QED
    BY <2>1 DEF Find, Answer
<1>3. \/ /\ found.code = 200 /\ pc' = [pc EXCEPT ![q] = "start"]
         /\ \E m \in found.machines : machine' = [machine EXCEPT ![q] = m]
      \/ pc' = [pc EXCEPT ![q] = "hung"] /\ machine' = machine
      \/ pc' = [pc EXCEPT ![q] = "refused"] /\ machine' = machine
  BY DEF Find, Goto
<1>4. found.code = 200 => found.machines \subseteq Machines
  BY FoundIsTagged DEF BucketInv, RequestTypes
<1> HIDE DEF found
<1>5. \A s \in Requests \ {q} : pc'[s] = pc[s] /\ code'[s] = code[s] /\ machine'[s] = machine[s]
  BY <1>2, <1>3 DEF BucketInv, RequestTypes
<1>6. pc'[q] \in {"start", "hung", "refused"}
  BY <1>1, <1>3 DEF BucketInv, RequestTypes
<1>7. pc'[q] = "start" => code'[q] = 200 /\ machine'[q] \in Machines
  BY <1>1, <1>2, <1>3, <1>4 DEF BucketInv, RequestTypes
<1>8. RequestTypes'
  <2>1. pc' \in [Requests -> States] /\ code' \in [Requests -> Nat]
    BY <1>2, <1>3 DEF BucketInv, RequestTypes, States, Starting, Final
  <2>2. machine' \in [Requests -> Machines \cup {None}]
    BY <1>3, <1>4 DEF BucketInv, RequestTypes
  <2>3. \A r \in Requests : pc'[r] \in Starting \cup Holding => machine'[r] \in Machines
    BY <1>5, <1>6, <1>7 DEF BucketInv, RequestTypes, Starting, Holding
  <2> QED
    BY <1>1, <2>1, <2>2, <2>3 DEF BucketInv, RequestTypes, NoName, Names
<1>9. pc[q] \notin Holding \cup {"bucket"} /\ pc'[q] \notin Holding \cup {"bucket"}
  BY <1>1, <1>6 DEF Holding
<1> QED
  BY <1>1, <1>5, <1>7, <1>8, <1>9, OthersComeAndGo

\* A machine is retired.
LEMMA RetireStep ==
  ASSUME BucketInv, Retire \/ UNCHANGED vars
  PROVE  BucketInv'
<1>1. UNCHANGED <<pc, code, target, same, machine, idle, bucket, buckets, users, failed>>
  BY DEF Retire, vars, farm, minio
<1>2. RequestTypes'
  BY <1>1 DEF BucketInv, RequestTypes, NoName, Names
<1> QED
  BY <1>1, <1>2, OthersComeAndGo

\* A machine trains, or is done with it: nobody uses it.
LEMMA TrainStep ==
  ASSUME BucketInv, Train
  PROVE  BucketInv'
<1> USE DEF BucketInv
<1>1. UNCHANGED <<pc, code, target, same, machine, bucket, buckets, users, failed>>
  BY DEF Train, minio
<1>2. \A r \in Requests : (Uses(r)' <=> Uses(r)) /\ (BucketFits(r)' <=> BucketFits(r))
  BY <1>1 DEF Uses, BucketFits, Plain, Unique, NoBucket, NoName
<1>3. \A r \in Requests : Uses(r) => (machine[r] \in idle' <=> machine[r] \in idle)
  BY DEF Train
<1>4. RequestTypes'
  BY <1>1 DEF RequestTypes, NoName, Names
<1>5. OneUser'
  BY <1>1, <1>2, <1>3 DEF OneUser
<1>6. BucketOfState' /\ OneLeftover'
  BY <1>1, <1>2 DEF BucketOfState, OneLeftover
<1>7. BucketIsOwn' /\ UsersAreThere'
  BY <1>1 DEF BucketIsOwn, UsersAreThere
<1> QED
  BY <1>4, <1>5, <1>6, <1>7

\* start_job() only goes on if the machine is idle: nobody uses it then, as requests that
\* start a job on the machine are one at a time.
LEMMA StartCheckStep ==
  ASSUME BucketInv, NEW q \in Requests, StartCheck(q)
  PROVE  BucketInv'
<1>1. UNCHANGED <<target, same, machine, idle, bucket, buckets, users, failed>> /\ pc[q] = "start"
  BY DEF StartCheck, farm, minio
<1>2. \/ machine[q] \in idle /\ pc' = [pc EXCEPT ![q] = "bucket"] /\ code' = code
      \/ pc' = [pc EXCEPT ![q] = "refused"] /\ code' = [code EXCEPT ![q] = 400]
  BY DEF StartCheck, Goto, Answer
<1>3. \A s \in Requests \ {q} : pc'[s] = pc[s] /\ code'[s] = code[s] /\ machine'[s] = machine[s]
  BY <1>1, <1>2 DEF BucketInv, RequestTypes
<1>4. \/ pc'[q] = "refused"
      \/ pc'[q] = "bucket" /\ machine[q] \in idle /\ code'[q] = code[q]
  BY <1>1, <1>2 DEF BucketInv, RequestTypes
<1>5. RequestTypes'
  <2>1. pc' \in [Requests -> States]
    BY <1>2 DEF BucketInv, RequestTypes, States, Starting, Final
  <2>0. code' \in [Requests -> Nat]
    BY <1>2 DEF BucketInv, RequestTypes
  <2>2. \A r \in Requests : pc'[r] \in Starting \cup Holding => machine'[r] \in Machines
    BY <1>1, <1>3, <1>4 DEF BucketInv, RequestTypes, Starting, Holding
  <2> QED
    BY <1>1, <2>0, <2>1, <2>2 DEF BucketInv, RequestTypes, NoName, Names
<1>6. CASE pc'[q] = "refused"
  <2>1. pc[q] \notin Holding \cup {"bucket"} /\ pc'[q] \notin Holding \cup {"bucket", "start"}
    BY <1>1, <1>6 DEF Holding
  <2> QED
    BY <1>1, <1>3, <1>5, <2>1, OthersComeAndGo
<1>7. CASE pc'[q] = "bucket" /\ machine[q] \in idle /\ code'[q] = code[q]
  <2>1. BucketOfState'
    <3> SUFFICES ASSUME NEW r \in Requests PROVE BucketFits(r)'
      BY DEF BucketOfState
    <3>1. Plain(r)' = Plain(r) /\ Unique(r)' = Unique(r) /\ NoBucket' = NoBucket
      BY <1>1 DEF Plain, Unique, NoBucket, NoName
    <3>2. CASE r = q
      BY <1>1, <1>7, <3>1, <3>2 DEF BucketInv, BucketOfState, BucketFits, Holding, Starting
    <3>3. CASE r # q
      BY <1>1, <1>3, <3>1, <3>3 DEF BucketInv, BucketOfState, BucketFits
    <3> QED
      BY <3>2, <3>3
  <2>2. \A s \in Requests \ {q} : Uses(s)' <=> Uses(s)
    BY <1>3 DEF Uses
  <2>3. OneUser'
    <3>1. \A s \in Requests \ {q} : Uses(s) => machine[s] # machine[q]
      <4> SUFFICES ASSUME NEW s \in Requests \ {q}, Uses(s), machine[s] = machine[q]
                   PROVE  FALSE
        OBVIOUS
      <4>1. pc[s] \in {"bucket", "credentials", "queue"}
        BY <1>7 DEF BucketInv, OneUser
      <4> QED
        BY <4>1 DEF StartCheck, Starting
    <3> SUFFICES ASSUME NEW r \in Requests, Uses(r)'
                 PROVE  /\ machine[r] \in idle <=> pc'[r] \in {"bucket", "credentials", "queue"}
                        /\ \A s \in Requests \ {r} : Uses(s)' => machine[s] # machine[r]
      BY <1>1 DEF OneUser
    <3>2. CASE r = q
      BY <1>7, <2>2, <3>1, <3>2
    <3>3. CASE r # q
      BY <1>3, <2>2, <3>1, <3>3 DEF BucketInv, OneUser
    <3> QED
      BY <3>2, <3>3
  <2>4. pc[q] \notin Holding /\ pc'[q] \notin Holding
    BY <1>1, <1>7 DEF Holding
  <2>5. OneLeftover'
    <3> SUFFICES ASSUME NEW s \in Requests
                 PROVE  /\ pc'[s] \in Gone /\ code'[s] # 200
                              => \E r \in Requests : machine[r] = machine[s] /\ pc'[r] = "credentials"
                        /\ pc'[s] = "failed"
                              => \A r \in Requests \ {s} : machine[r] = machine[s] => pc'[r] \notin Holding
      BY <1>1 DEF OneLeftover
    <3>1. s = q => pc'[s] \notin Gone \cup {"failed"}
      BY <1>7 DEF Gone
    <3>2. ASSUME s # q, pc'[s] \in Gone, code'[s] # 200
          PROVE  \E r \in Requests : machine[r] = machine[s] /\ pc'[r] = "credentials"
      <4>1. PICK r \in Requests : machine[r] = machine[s] /\ pc[r] = "credentials"
        BY <1>3, <3>2 DEF BucketInv, OneLeftover
      <4> QED
        BY <1>1, <1>3, <4>1
    <3>3. ASSUME s # q, pc'[s] = "failed", NEW r \in Requests \ {s}, machine[r] = machine[s]
          PROVE  pc'[r] \notin Holding
      BY <1>3, <2>4, <3>3 DEF BucketInv, OneLeftover
    <3> QED
      BY <3>1, <3>2, <3>3
  <2>6. BucketIsOwn'
    BY <1>1, <1>3, <1>7 DEF BucketInv, BucketIsOwn, Gone
  <2>7. UsersAreThere'
    BY <1>1, <1>3, <1>7 DEF BucketInv, UsersAreThere
  <2> QED
    BY <1>5, <2>1, <2>3, <2>5, <2>6, <2>7 DEF BucketInv
<1> QED
  BY <1>4, <1>6, <1>7

\* JobBucket.from_job_request() gave the request a bucket: the JobBucket of an earlier
\* start_job() that raised is replaced.
LEMMA OwnStep ==
  ASSUME BucketInv, NEW q \in Requests, NEW n \in {Plain(q), Unique(q)}, Own(q, n),
         pc[q] = "bucket", UNCHANGED <<target, same, machine, idle, users>>,
         buckets' \in [Names -> Requests \cup {None}], buckets'[n] = q,
         \A m \in Names \ {Plain(q), Unique(q)} : buckets'[m] = buckets[m],
         n = Unique(q) \/ buckets[n] = None,
         "make" \in failed => "make" \in failed'
  PROVE  BucketInv'
<1> USE DEF BucketInv
<1>1. machine[q] \in Machines /\ Uses(q) /\ code' = code /\ n \in Names
  BY NamesOfRequests DEF RequestTypes, Starting, Uses, Own
<1>2. /\ bucket'[q] = [name |-> n, roles |-> {}]
      /\ \A s \in Requests \ {q} : bucket'[s] = bucket[s]
      /\ bucket' \in [Requests -> [name : Names \cup {NoName}, roles : SUBSET Roles]]
  <2>1. bucket[q] = NoBucket
    BY DEF BucketOfState, BucketFits, Holding
  <2>2. bucket' = [bucket EXCEPT ![q].name = n]
    BY DEF Own
  <2>3. [bucket[q] EXCEPT !.name = n] = [name |-> n, roles |-> {}]
    BY <2>1 DEF NoBucket
  <2>4. bucket' = [bucket EXCEPT ![q] = [name |-> n, roles |-> {}]]
    BY <2>2, <2>3
  <2> QED
    BY <1>1, <2>4 DEF RequestTypes
<1>3. /\ pc'[q] = "credentials"
      /\ \A s \in Requests \ {q} :
           pc'[s] = IF machine[s] = machine[q] /\ pc[s] = "failed" THEN "remove" ELSE pc[s]
  BY DEF Own, Kept
<1>4. pc' \in [Requests -> States]
  BY <1>3 DEF Own, RequestTypes, States, Starting
<1>5. \A s \in Requests \ {q} : machine[s] = machine[q] /\ pc[s] \in Holding
        => pc[s] = "failed" /\ pc'[s] = "remove"
  <2> SUFFICES ASSUME NEW s \in Requests \ {q}, machine[s] = machine[q], pc[s] \in Holding
               PROVE  pc[s] = "failed" /\ pc'[s] = "remove"
    OBVIOUS
  <2>1. pc[s] = "failed"
    BY <1>1, OtherBuckets
  <2> QED
    BY <1>3, <2>1
<1>6. \A s \in Requests : Uses(s)' <=> Uses(s)
  <2> SUFFICES ASSUME NEW s \in Requests PROVE Uses(s)' <=> Uses(s)
    OBVIOUS
  <2>1. CASE s = q
    BY <1>1, <1>3, <2>1 DEF Uses
  <2>2. CASE s # q /\ machine[s] = machine[q] /\ pc[s] = "failed"
    <3>1. pc'[s] = "remove" /\ code'[s] = code[s] /\ code[s] # 200
      BY <1>1, <1>3, <2>2 DEF BucketOfState, BucketFits
    <3> QED
      BY <2>2, <3>1 DEF Uses, Gone
  <2>3. CASE s # q /\ ~ (machine[s] = machine[q] /\ pc[s] = "failed")
    BY <1>1, <1>3, <2>3 DEF Uses
  <2> QED
    BY <2>1, <2>2, <2>3
<1>7. RequestTypes'
  <2>1. ASSUME NEW r \in Requests, pc'[r] \in Starting \cup Holding
        PROVE  machine'[r] \in Machines
    BY <1>1, <1>3, <2>1 DEF RequestTypes, Starting, Holding
  <2> QED
    BY <1>1, <1>2, <1>4, <2>1 DEF RequestTypes, NoName, Names
<1>8. BucketOfState'
  <2> SUFFICES ASSUME NEW r \in Requests PROVE BucketFits(r)'
    BY DEF BucketOfState
  <2>1. Plain(r)' = Plain(r) /\ Unique(r)' = Unique(r) /\ NoBucket' = NoBucket
    BY DEF Plain, Unique, NoBucket, NoName
  <2>2. BucketFits(r)
    BY DEF BucketOfState
  <2>3. CASE r = q
    <3>1. pc[r] = "bucket" /\ pc'[r] = "credentials" /\ code'[r] = code[r]
      BY <1>1, <1>3, <2>3
    <3>2. code[r] = 200
      BY <2>2, <3>1 DEF BucketFits, Starting
    <3> QED
      BY <1>2, <2>1, <2>3, <3>1, <3>2 DEF BucketFits, Holding
  <2>4. CASE r # q /\ machine[r] = machine[q] /\ pc[r] = "failed"
    <3>1. pc'[r] = "remove" /\ bucket'[r] = bucket[r]
      BY <1>2, <1>3, <2>4
    <3>2. bucket[r].name \in {Plain(r), Unique(r)}
      BY <2>2, <2>4 DEF BucketFits, Holding
    <3> QED
      BY <2>1, <3>1, <3>2 DEF BucketFits, Holding, Starting
  <2>5. CASE r # q /\ ~ (machine[r] = machine[q] /\ pc[r] = "failed")
    BY <1>1, <1>2, <1>3, <2>1, <2>2, <2>5 DEF BucketFits
  <2> QED
    BY <2>3, <2>4, <2>5
<1>9. OneUser'
  <2> SUFFICES ASSUME NEW r \in Requests, Uses(r)'
               PROVE  /\ machine[r] \in idle <=> pc'[r] \in {"bucket", "credentials", "queue"}
                      /\ \A s \in Requests \ {r} : Uses(s)' => machine[s] # machine[r]
    BY DEF OneUser
  <2>1. pc'[r] \in {"bucket", "credentials", "queue"} <=> pc[r] \in {"bucket", "credentials", "queue"}
    BY <1>3
  <2> QED
    BY <1>6, <2>1 DEF OneUser
<1>10. OneLeftover'
  <2> SUFFICES ASSUME NEW s \in Requests
               PROVE  /\ pc'[s] \in Gone /\ code'[s] # 200
                            => \E r \in Requests : machine[r] = machine[s] /\ pc'[r] = "credentials"
                      /\ pc'[s] = "failed"
                            => \A r \in Requests \ {s} : machine[r] = machine[s] => pc'[r] \notin Holding
    BY DEF OneLeftover
  <2>1. ASSUME pc'[s] \in Gone, code'[s] # 200, machine[s] # machine[q]
        PROVE  \E r \in Requests : machine[r] = machine[s] /\ pc'[r] = "credentials"
    <3>1. pc[s] \in Gone /\ code[s] # 200
      BY <1>1, <1>3, <2>1
    <3>2. PICK r \in Requests : machine[r] = machine[s] /\ pc[r] = "credentials"
      BY <3>1 DEF OneLeftover
    <3> QED
      BY <1>3, <2>1, <3>2
  <2>2. ASSUME pc'[s] = "failed", NEW r \in Requests \ {s}, machine[r] = machine[s]
        PROVE  pc'[r] \notin Holding
    <3>1. s # q /\ pc[s] = "failed" /\ machine[s] # machine[q]
      BY <1>3, <2>2
    <3> QED
      BY <1>3, <2>2, <3>1 DEF OneLeftover
  <2> QED
    BY <1>3, <2>1, <2>2
<1>11. BucketIsOwn'
  <2> SUFFICES ASSUME "make" \notin failed, NEW r \in Requests
               PROVE  /\ pc'[r] \in {"credentials", "queue", "run", "failed"}
                            => buckets'[bucket'[r].name] = r
                      /\ pc'[r] = "credentials"
                            => \A s \in Requests \ {r} : pc'[s] \in Gone /\ machine[s] = machine[r]
                                 => bucket'[s].name # bucket'[r].name
    BY DEF BucketIsOwn
  <2>1. CASE r = q
    <3>1. ASSUME NEW s \in Requests \ {q}, pc'[s] \in Gone, machine[s] = machine[q]
          PROVE  bucket'[s].name # n
      <4>1. pc[s] = "failed"
        BY <1>3, <1>5, <3>1 DEF Gone, Holding
      <4>2. bucket[s].name \in {Plain(s), Unique(s)} /\ buckets[bucket[s].name] = s
        BY <4>1 DEF BucketIsOwn, BucketOfState, BucketFits, Holding
      <4>3. CASE n = Unique(q)
        BY <1>1, <1>2, <4>2, <4>3, NamesOfRequests
      <4>4. CASE buckets[n] = None
        BY <1>2, <4>2, <4>4, NoneAssumption
      <4> QED
        BY <4>3, <4>4
    <3> QED
      BY <1>2, <2>1, <3>1
  <2>2. CASE r # q /\ pc'[r] \in {"credentials", "queue", "run", "failed"}
    <3>1. pc[r] = pc'[r] /\ machine[r] # machine[q]
      BY <1>3, <1>5, <2>2 DEF Holding
    <3>2. bucket[r].name \in {Plain(r), Unique(r)} /\ bucket'[r].name = bucket[r].name
      <4>1. BucketFits(r) /\ pc[r] \in Holding
        BY <2>2, <3>1 DEF BucketOfState, Holding
      <4> QED
        BY <1>2, <2>2, <4>1 DEF BucketFits
    <3>3. machine[r] \in Machines
      BY <2>2, <3>1 DEF RequestTypes, Holding
    <3>4. bucket[r].name \in Names \ {Plain(q), Unique(q)}
      <4>1. bucket[r].name \in Names
        BY <3>2, <3>3, NamesOfRequests
      <4> QED
        BY <3>1, <3>2, <4>1 DEF Plain, Unique
    <3>5. \A s \in Requests \ {r} : machine[s] = machine[r]
            => pc'[s] = pc[s] /\ bucket'[s].name = bucket[s].name
      BY <1>2, <1>3, <3>1
    <3> QED
      BY <2>2, <3>1, <3>2, <3>4, <3>5 DEF BucketIsOwn
  <2> QED
    BY <2>1, <2>2
<1>12. UsersAreThere'
  <2> SUFFICES ASSUME NEW r \in Requests, pc'[r] \in {"credentials", "queue", "run"}
               PROVE  {bucket'[r].name} \X bucket'[r].roles \subseteq users
    BY DEF UsersAreThere
  <2>1. CASE r = q
    BY <1>2, <2>1
  <2>2. CASE r # q
    BY <1>2, <1>3, <2>2 DEF UsersAreThere
  <2> QED
    BY <2>1, <2>2
<1> QED
  BY <1>7, <1>8, <1>9, <1>10, <1>11, <1>12

\* A request that uses its machine, or whose JobBucket is left over, goes on: what it
\* does to its bucket and its users on MinIO disturbs no other job.
Moves(q) ==
  /\ UNCHANGED <<target, same, machine>>
  /\ pc[q] \in Holding \cup {"bucket"} /\ BucketFits(q)'
  /\ pc' \in [Requests -> States] /\ code' \in [Requests -> Nat]
  /\ bucket' \in [Requests -> [name : Names \cup {NoName}, roles : SUBSET Roles]]
  /\ buckets' \in [Names -> Requests \cup {None}]
  /\ \A s \in Requests \ {q} : pc'[s] = pc[s] /\ code'[s] = code[s] /\ bucket'[s] = bucket[s]
  /\ pc'[q] \in Holding => pc[q] \in Holding /\ bucket'[q].name = bucket[q].name
  /\ pc'[q] \notin {"bucket", "credentials"}
  /\ pc[q] = "credentials" => Removing(machine[q]) = {}
  /\ pc'[q] = "failed" => pc[q] \in {"credentials", "queue"}
  /\ pc'[q] \in {"queue", "run"} => pc[q] \in {"credentials", "queue", "run"}
  /\ pc'[q] \in Gone => pc[q] \in {"run"} \cup Gone /\ code'[q] = code[q]
  /\ \A m \in Machines \ {machine[q]} : m \in idle' <=> m \in idle
  /\ Uses(q) \/ idle' = idle
  /\ Uses(q)' => (machine[q] \in idle' <=> pc'[q] = "queue")
  /\ "make" \notin failed' => /\ "make" \notin failed
                              /\ \A m \in Names : buckets'[m] = buckets[m] \/ (pc[q] \in Gone /\ m = bucket[q].name)
  /\ \A u \in users : u \in users' \/ (pc[q] \in Holding /\ u[1] = bucket[q].name)
  /\ pc'[q] \in {"queue", "run"} => {bucket'[q].name} \X bucket'[q].roles \subseteq users'
\* A request that goes on, and leaves alone what the others have, keeps the invariant.
LEMMA OneMoves ==
  ASSUME BucketInv, NEW q \in Requests, Moves(q)
  PROVE  BucketInv'
<1> USE DEF BucketInv, Moves
<1>1. machine[q] \in Machines
  BY DEF RequestTypes, Starting
<1>2. RequestTypes'
  <2>1. ASSUME NEW r \in Requests, pc'[r] \in Starting \cup Holding
        PROVE  machine'[r] \in Machines
    BY <1>1, <2>1 DEF RequestTypes
  <2> QED
    BY <2>1 DEF RequestTypes, NoName, Names
<1>3. BucketOfState'
  <2> SUFFICES ASSUME NEW r \in Requests, r # q PROVE BucketFits(r)'
    BY DEF BucketOfState
  <2>1. Plain(r)' = Plain(r) /\ Unique(r)' = Unique(r) /\ NoBucket' = NoBucket
    BY DEF Plain, Unique, NoBucket, NoName
  <2>2. BucketFits(r)
    BY DEF BucketOfState
  <2> QED
    BY <2>1, <2>2 DEF BucketFits
<1>4. (Uses(q)' => Uses(q)) /\ \A s \in Requests \ {q} : Uses(s)' <=> Uses(s)
  <2>1. \A s \in Requests \ {q} : Uses(s)' <=> Uses(s)
    BY DEF Uses
  <2>2. Uses(q)' => Uses(q)
    BY DEF Uses, Gone
  <2> QED
    BY <2>1, <2>2
<1>5. OneUser'
  <2> SUFFICES ASSUME NEW r \in Requests, Uses(r)'
               PROVE  /\ machine[r] \in idle' <=> pc'[r] \in {"bucket", "credentials", "queue"}
                      /\ \A s \in Requests \ {r} : Uses(s)' => machine[s] # machine[r]
    BY DEF OneUser
  <2>1. \A s \in Requests \ {r} : Uses(s)' => machine[s] # machine[r]
    BY <1>4 DEF OneUser
  <2>2. CASE r = q
    BY <2>1, <2>2
  <2>3. CASE r # q
    <3>1. Uses(r) /\ machine[r] \in Machines
      <4>1. Uses(r)
        BY <1>4, <2>3
      <4> QED
        BY <4>1 DEF RequestTypes, Uses, Gone, Starting, Holding
    <3>2. machine[r] \in idle' <=> machine[r] \in idle
      <4>1. CASE machine[r] # machine[q]
        BY <3>1, <4>1
      <4>2. CASE machine[r] = machine[q]
        <5>1. ~ Uses(q)
          BY <2>3, <3>1, <4>2 DEF OneUser
        <5> QED
          BY <5>1
      <4> QED
        BY <4>1, <4>2
    <3> QED
      BY <2>1, <2>3, <3>1, <3>2 DEF OneUser
  <2> QED
    BY <2>2, <2>3
<1>6. OneLeftover'
  <2> SUFFICES ASSUME NEW s \in Requests
               PROVE  /\ pc'[s] \in Gone /\ code'[s] # 200
                            => \E r \in Requests : machine[r] = machine[s] /\ pc'[r] = "credentials"
                      /\ pc'[s] = "failed"
                            => \A r \in Requests \ {s} : machine[r] = machine[s] => pc'[r] \notin Holding
    BY DEF OneLeftover
  <2>1. ASSUME pc'[s] \in Gone, code'[s] # 200
        PROVE  \E r \in Requests : machine[r] = machine[s] /\ pc'[r] = "credentials"
    <3>1. pc[s] \in Gone /\ code[s] # 200
      <4>1. CASE s # q
        BY <2>1, <4>1
      <4>2. CASE s = q
        BY <2>1, <4>2 DEF BucketOfState, BucketFits
      <4> QED
        BY <4>1, <4>2
    <3>2. PICK r \in Requests : machine[r] = machine[s] /\ pc[r] = "credentials"
      BY <3>1 DEF OneLeftover
    <3>3. r # q
      BY <3>1, <3>2 DEF Removing, Gone
    <3> QED
      BY <3>2, <3>3
  <2>2. ASSUME pc'[s] = "failed", NEW r \in Requests \ {s}, machine[r] = machine[s], pc'[r] \in Holding
        PROVE  FALSE
    <3>1. CASE s = q
      <4>1. pc[q] \in {"credentials", "queue"} /\ pc[r] \in Holding
        BY <2>2, <3>1
      <4>2. Uses(q)
        BY <4>1 DEF Uses
      <4>3. pc[r] \in Gone /\ pc[q] = "credentials"
        BY <2>2, <3>1, <4>1, <4>2, OtherBuckets
      <4> QED
        BY <2>2, <3>1, <4>3 DEF Removing, Gone
    <3>2. CASE s # q
      <4>1. pc[s] = "failed" /\ pc[r] \in Holding
        BY <2>2, <3>2
      <4> QED
        BY <2>2, <4>1 DEF OneLeftover
    <3> QED
      BY <3>1, <3>2
  <2> QED
    BY <2>1, <2>2
<1>7. BucketIsOwn'
  <2> SUFFICES ASSUME "make" \notin failed', NEW r \in Requests
               PROVE  /\ pc'[r] \in {"credentials", "queue", "run", "failed"}
                            => buckets'[bucket'[r].name] = r
                      /\ pc'[r] = "credentials"
                            => \A s \in Requests \ {r} : pc'[s] \in Gone /\ machine[s] = machine[r]
                                 => bucket'[s].name # bucket'[r].name
    BY DEF BucketIsOwn
  <2>1. "make" \notin failed
    OBVIOUS
  <2>2. ASSUME pc'[r] \in {"credentials", "queue", "run", "failed"}
        PROVE  buckets'[bucket'[r].name] = r
    <3>1. /\ pc[r] \in {"credentials", "queue", "run", "failed"}
          /\ bucket'[r].name = bucket[r].name
      <4>1. CASE r = q
        BY <2>2, <4>1 DEF Holding
      <4>2. CASE r # q
        BY <2>2, <4>2
      <4> QED
        BY <4>1, <4>2
    <3>2. buckets[bucket[r].name] = r
      BY <2>1, <3>1 DEF BucketIsOwn
    <3>3. bucket[r].name \in Names
      <4>1. machine[r] \in Machines /\ bucket[r].name \in {Plain(r), Unique(r)}
        BY <3>1 DEF RequestTypes, BucketOfState, BucketFits, Holding
      <4> QED
        BY <4>1, NamesOfRequests
    <3>4. ASSUME pc[q] \in Gone, bucket[r].name = bucket[q].name PROVE FALSE
      <4>1. pc[r] \in Holding /\ pc[q] \in Holding /\ r # q
        BY <3>1, <3>4 DEF Holding, Gone
      <4>2. machine[r] = machine[q]
        BY <3>4, <4>1, SameNameSameMachine
      <4>3. ~ Uses(q)
        BY <3>1, <3>4, <4>1, <4>2, OtherBuckets DEF Gone
      <4>4. code[q] # 200
        BY <3>4, <4>3 DEF Uses, Gone
      <4>5. PICK k \in Requests : machine[k] = machine[q] /\ pc[k] = "credentials"
        BY <3>4, <4>4 DEF OneLeftover
      <4>6. CASE k = r
        BY <2>1, <3>4, <4>1, <4>2, <4>5, <4>6 DEF BucketIsOwn
      <4>7. CASE k # r
        <5>1. Uses(k) /\ pc[k] \in Holding
          BY <4>5 DEF Uses, Holding
        <5>2. pc[r] # "failed"
          BY <4>2, <4>5, <4>7, <5>1 DEF OneLeftover
        <5>3. Uses(r)
          BY <3>1, <5>2 DEF Uses
        <5> QED
          BY <4>2, <4>5, <4>7, <5>1, <5>3 DEF OneUser
      <4> QED
        BY <4>6, <4>7
    <3> QED
      BY <3>1, <3>2, <3>3, <3>4
  <2>3. ASSUME pc'[r] = "credentials", NEW s \in Requests \ {r},
               pc'[s] \in Gone, machine[s] = machine[r]
        PROVE  bucket'[s].name # bucket'[r].name
    <3>1. r # q /\ pc[r] = "credentials" /\ bucket'[r].name = bucket[r].name
      BY <2>3
    <3>2. Uses(r)
      BY <3>1 DEF Uses
    <3>3. pc[s] \in Gone /\ bucket'[s].name = bucket[s].name
      <4>1. CASE s # q
        BY <2>3, <4>1
      <4>2. CASE s = q
        <5>1. pc[q] \in {"run"} \cup Gone /\ bucket'[q].name = bucket[q].name
          BY <2>3, <4>2 DEF Holding, Gone
        <5>2. pc[q] # "run"
          BY <2>3, <3>1, <3>2, <4>2 DEF OneUser, Uses
        <5> QED
          BY <4>2, <5>1, <5>2
      <4> QED
        BY <4>1, <4>2
    <3> QED
      BY <2>1, <2>3, <3>1, <3>3 DEF BucketIsOwn
  <2> QED
    BY <2>2, <2>3
<1>8. UsersAreThere'
  <2> SUFFICES ASSUME NEW r \in Requests, pc'[r] \in {"credentials", "queue", "run"}
               PROVE  {bucket'[r].name} \X bucket'[r].roles \subseteq users'
    BY DEF UsersAreThere
  <2>1. CASE r = q
    BY <2>1
  <2>2. CASE r # q
    <3>1. /\ pc[r] \in {"credentials", "queue", "run"} /\ bucket'[r] = bucket[r]
          /\ {bucket[r].name} \X bucket[r].roles \subseteq users
      BY <2>2 DEF UsersAreThere
    <3>2. CASE pc[q] \in Holding /\ bucket[r].name = bucket[q].name
      <4>1. pc[r] \in Holding /\ Uses(r)
        BY <3>1 DEF Holding, Uses
      <4>2. machine[r] = machine[q]
        BY <3>2, <4>1, SameNameSameMachine
      <4>3. pc[r] = "credentials"
        BY <2>2, <3>1, <3>2, <4>1, <4>2, OtherBuckets
      <4>4. bucket[r].roles = {}
        BY <4>3 DEF BucketOfState, BucketFits
      <4> QED
        BY <3>1, <4>4
    <3>3. CASE ~ (pc[q] \in Holding /\ bucket[r].name = bucket[q].name)
      BY <3>1, <3>3
    <3> QED
      BY <3>2, <3>3
  <2> QED
    BY <2>1, <2>2
<1> QED
  BY <1>2, <1>3, <1>5, <1>6, <1>7, <1>8

\* A bucket is made with the plain name, with a unique name, or not at all.
LEMMA FromJobRequestStep ==
  ASSUME BucketInv, NEW q \in Requests, FromJobRequest(q)
  PROVE  BucketInv'
<1> USE DEF BucketInv
<1>1. /\ pc[q] = "bucket" /\ UNCHANGED <<target, same, machine, idle, users>>
      /\ machine[q] \in Machines
  BY DEF FromJobRequest, farm, RequestTypes, Starting
<1>2. /\ Plain(q) \in Names /\ Unique(q) \in Names /\ Unique(q) # Plain(q)
      /\ buckets \in [Names -> Requests \cup {None}]
  BY <1>1, NamesOfRequests DEF RequestTypes
<1>3. CASE /\ buckets[Plain(q)] = None /\ Own(q, Plain(q)) /\ Works
           /\ buckets' = [buckets EXCEPT ![Plain(q)] = q]
  <2>1. /\ buckets' \in [Names -> Requests \cup {None}] /\ buckets'[Plain(q)] = q
        /\ \A m \in Names \ {Plain(q), Unique(q)} : buckets'[m] = buckets[m]
    BY <1>2, <1>3
  <2>2. failed' = failed
    BY <1>3 DEF Works
  <2> QED
    BY <1>1, <1>3, <2>1, <2>2, OwnStep
<1>4. CASE /\ Own(q, Unique(q)) /\ (Works \/ Fail({"remove"}))
           /\ \/ buckets' = [buckets EXCEPT ![Unique(q)] = q, ![Plain(q)] = None]
              \/ buckets' = [buckets EXCEPT ![Unique(q)] = q]
  <2>1. /\ buckets' \in [Names -> Requests \cup {None}] /\ buckets'[Unique(q)] = q
        /\ \A m \in Names \ {Plain(q), Unique(q)} : buckets'[m] = buckets[m]
    BY <1>2, <1>4
  <2>2. "make" \in failed => "make" \in failed'
    BY <1>4 DEF Works, Fail
  <2> QED
    BY <1>1, <1>4, <2>1, <2>2, OwnStep
<1>5. CASE /\ Goto(q, "refused") /\ Answer(q, 400) /\ Fail({"make"}) /\ bucket' = bucket
           /\ buckets' = [buckets EXCEPT ![Plain(q)] = None]
  <2>1. /\ pc' = [pc EXCEPT ![q] = "refused"] /\ code' = [code EXCEPT ![q] = 400]
        /\ "make" \in failed' /\ buckets' \in [Names -> Requests \cup {None}]
    BY <1>2, <1>5 DEF Goto, Answer, Fail
  <2>2. pc'[q] = "refused" /\ pc' \in [Requests -> States] /\ code' \in [Requests -> Nat]
    <3>1. pc' \in [Requests -> States] /\ pc'[q] = "refused"
      BY <2>1 DEF RequestTypes, States, Final
    <3>2. code' \in [Requests -> Nat]
      BY <2>1 DEF RequestTypes
    <3> QED
      BY <3>1, <3>2
  <2>3. \A s \in Requests \ {q} : pc'[s] = pc[s] /\ code'[s] = code[s] /\ bucket'[s] = bucket[s]
    BY <1>5, <2>1 DEF RequestTypes
  <2>4. BucketFits(q)'
    <3>1. bucket[q] = NoBucket
      BY <1>1 DEF BucketOfState, BucketFits, Holding
    <3> QED
      BY <1>5, <2>2, <3>1 DEF BucketFits, Holding, Starting, NoBucket, NoName
  <2>5. pc'[q] \notin Holding \cup Gone \cup {"bucket"} /\ ~ Uses(q)'
    BY <2>2 DEF Holding, Gone, Uses
  <2>6. bucket' \in [Requests -> [name : Names \cup {NoName}, roles : SUBSET Roles]]
    BY <1>5 DEF RequestTypes
  <2> QED
    BY <1>1, <1>5, <2>1, <2>2, <2>3, <2>4, <2>5, <2>6, OneMoves DEF Moves
<1> QED
  BY <1>3, <1>4, <1>5 DEF FromJobRequest

\* The users that create_owner_credentials() adds and removes are those of the bucket.
LEMMA CredentialsOutcome ==
  ASSUME BucketInv, NEW q \in Requests, NEW role \in Roles, CreateOwnerCredentials(q, role)
  PROVE  /\ \A s \in Requests \ {q} : bucket'[s] = bucket[s]
         /\ bucket'[q].name = bucket[q].name
         /\ bucket' \in [Requests -> [name : Names \cup {NoName}, roles : SUBSET Roles]]
         /\ \A u \in users : u \in users' \/ u[1] = bucket[q].name
         /\ "make" \in failed' => "make" \in failed
         /\ "make" \in failed => "make" \in failed'
         /\ \/ bucket'[q].roles = bucket[q].roles
            \/ bucket'[q].roles = bucket[q].roles \cup {role} /\ <<bucket[q].name, role>> \in users'
         /\ bucket'[q].roles # bucket[q].roles => users \subseteq users'
<1>1. bucket \in [Requests -> [name : Names \cup {NoName}, roles : SUBSET Roles]]
  BY DEF BucketInv, RequestTypes
<1>2. CASE /\ users' = users \cup {<<bucket[q].name, role>>} /\ Works
           /\ bucket' = [bucket EXCEPT ![q].roles = @ \cup {role}]
  BY <1>1, <1>2 DEF Works
<1>3. CASE /\ bucket' = bucket /\ Fail({"credentials"})
           /\ users' = users \ {<<bucket[q].name, role>>}
  BY <1>1, <1>3 DEF Fail
<1>4. CASE /\ bucket' = bucket /\ (Fail({"group"}) \/ Fail({"credentials", "remove"}))
           /\ users' = users \cup {<<bucket[q].name, role>>}
  BY <1>1, <1>4 DEF Fail
<1> QED
  BY <1>2, <1>3, <1>4 DEF CreateOwnerCredentials

\* The credentials of the test machine are made.
LEMMA DutCredentialsStep ==
  ASSUME BucketInv, NEW q \in Requests, DutCredentials(q)
  PROVE  BucketInv'
<1> USE DEF BucketInv
<1>1. /\ pc[q] = "credentials" /\ UNCHANGED <<target, same, machine, idle, buckets>>
      /\ Removing(machine[q]) = {} /\ CreateOwnerCredentials(q, "dut") /\ "dut" \in Roles
  BY DEF DutCredentials, farm, Roles
<1>2. \/ pc' = [pc EXCEPT ![q] = "queue"] /\ code' = code /\ "dut" \in bucket'[q].roles
      \/ pc' = [pc EXCEPT ![q] = "failed"] /\ code' = [code EXCEPT ![q] = 500]
  BY DEF DutCredentials, Goto, Answer
<1>3. pc' \in [Requests -> States]
  BY <1>2 DEF RequestTypes, States, Starting
<1>4. code' \in [Requests -> Nat]
  BY <1>2 DEF RequestTypes
<1>5. \A s \in Requests \ {q} : pc'[s] = pc[s] /\ code'[s] = code[s]
  BY <1>2 DEF RequestTypes
<1>6. \/ pc'[q] = "queue" /\ code'[q] = code[q] /\ "dut" \in bucket'[q].roles
      \/ pc'[q] = "failed" /\ code'[q] = 500
  BY <1>2 DEF RequestTypes
<1>7. BucketFits(q) /\ Uses(q) /\ bucket[q].roles = {} /\ machine[q] \in idle
  <2>1. Uses(q)
    BY <1>1 DEF Uses
  <2>2. machine[q] \in idle
    BY <1>1, <2>1 DEF OneUser
  <2> QED
    BY <1>1, <2>1, <2>2 DEF BucketOfState, BucketFits
<1>8. bucket'[q].name = bucket[q].name /\ bucket[q].name \in {Plain(q), Unique(q)} /\ code[q] = 200
  BY <1>1, <1>7, CredentialsOutcome DEF BucketFits, Holding, Starting
<1>9. BucketFits(q)'
  <2>1. Plain(q)' = Plain(q) /\ Unique(q)' = Unique(q)
    BY <1>1 DEF Plain, Unique
  <2>2. CASE pc'[q] = "queue" /\ code'[q] = 200
    BY <1>8, <2>1, <2>2 DEF BucketFits, Holding, Starting
  <2>3. CASE pc'[q] = "failed" /\ code'[q] = 500
    BY <1>8, <2>1, <2>3 DEF BucketFits, Holding, Starting
  <2> QED
    BY <1>6, <1>8, <2>2, <2>3
<1>10. pc'[q] = "queue" => {bucket'[q].name} \X bucket'[q].roles \subseteq users'
  <2>1. pc'[q] = "queue" => bucket'[q].roles = {"dut"} /\ <<bucket[q].name, "dut">> \in users'
    BY <1>1, <1>6, <1>7, CredentialsOutcome
  <2> QED
    BY <1>8, <2>1
<1>11. /\ pc'[q] \in {"queue", "failed"} /\ pc[q] \in Holding
       /\ pc'[q] \notin Gone /\ (Uses(q)' => pc'[q] = "queue")
  BY <1>1, <1>6 DEF Holding, Gone, Uses
<1>12. /\ \A s \in Requests \ {q} : bucket'[s] = bucket[s]
       /\ bucket' \in [Requests -> [name : Names \cup {NoName}, roles : SUBSET Roles]]
       /\ buckets' \in [Names -> Requests \cup {None}]
       /\ \A u \in users : u \in users' \/ u[1] = bucket[q].name
       /\ "make" \notin failed' => "make" \notin failed
  BY <1>1, CredentialsOutcome DEF RequestTypes
<1>13. /\ pc'[q] \notin {"bucket", "credentials"}
       /\ pc[q] = "credentials" => Removing(machine[q]) = {}
       /\ pc'[q] = "failed" => pc[q] \in {"credentials", "queue"}
       /\ pc'[q] \in {"queue", "run"} => pc[q] \in {"credentials", "queue", "run"}
       /\ pc'[q] \in Gone => pc[q] \in {"run"} \cup Gone /\ code'[q] = code[q]
       /\ Uses(q)' => (machine[q] \in idle' <=> pc'[q] = "queue")
  BY <1>1, <1>7, <1>11
<1>14. Moves(q)
  BY <1>1, <1>3, <1>4, <1>5, <1>7, <1>8, <1>9, <1>10, <1>11, <1>12, <1>13 DEF Moves
<1> QED
  BY <1>14, OneMoves

\* The job is queued, or start_job() raises.
LEMMA QueueStep ==
  ASSUME BucketInv, NEW q \in Requests, Queue(q)
  PROVE  BucketInv'
<1> USE DEF BucketInv
<1>1. pc[q] = "queue" /\ UNCHANGED <<target, same, machine, bucket, buckets, users, failed>>
  BY DEF Queue, minio
<1>2. \/ pc' = [pc EXCEPT ![q] = "run"] /\ code' = code /\ idle' = idle \ {machine[q]}
      \/ pc' = [pc EXCEPT ![q] = "failed"] /\ code' = [code EXCEPT ![q] = 500] /\ idle' = idle
  BY DEF Queue, Goto, Answer
<1>3. pc' \in [Requests -> States]
  BY <1>2 DEF RequestTypes, States
<1>4. code' \in [Requests -> Nat]
  BY <1>2 DEF RequestTypes
<1>5. \A s \in Requests \ {q} : pc'[s] = pc[s] /\ code'[s] = code[s]
  BY <1>2 DEF RequestTypes
<1>6. \/ pc'[q] = "run" /\ code'[q] = code[q] /\ machine[q] \notin idle'
      \/ pc'[q] = "failed" /\ code'[q] = 500
  BY <1>2 DEF RequestTypes
<1>7. BucketFits(q) /\ Uses(q)
  BY <1>1 DEF BucketOfState, Uses
<1>8. bucket[q].name \in {Plain(q), Unique(q)} /\ code[q] = 200
  BY <1>1, <1>7 DEF BucketFits, Holding, Starting
<1>9. BucketFits(q)'
  <2>1. Plain(q)' = Plain(q) /\ Unique(q)' = Unique(q)
    BY <1>1 DEF Plain, Unique
  <2>2. CASE pc'[q] = "run" /\ code'[q] = 200
    BY <1>1, <1>8, <2>1, <2>2 DEF BucketFits, Holding, Starting
  <2>3. CASE pc'[q] = "failed" /\ code'[q] = 500
    BY <1>1, <1>8, <2>1, <2>3 DEF BucketFits, Holding, Starting
  <2> QED
    BY <1>6, <1>8, <2>2, <2>3
<1>10. {bucket'[q].name} \X bucket'[q].roles \subseteq users'
  BY <1>1 DEF UsersAreThere
<1>11. /\ pc'[q] \in {"run", "failed"} /\ pc[q] \in Holding
       /\ pc'[q] \notin Gone /\ (Uses(q)' => machine[q] \notin idle')
  BY <1>1, <1>6 DEF Holding, Gone, Uses
<1>12. \A m \in Machines \ {machine[q]} : m \in idle' <=> m \in idle
  BY <1>2
<1>13. /\ bucket' \in [Requests -> [name : Names \cup {NoName}, roles : SUBSET Roles]]
       /\ buckets' \in [Names -> Requests \cup {None}]
  BY <1>1 DEF RequestTypes
<1>14. /\ pc'[q] \notin {"bucket", "credentials"}
       /\ pc[q] = "credentials" => Removing(machine[q]) = {}
       /\ pc'[q] = "failed" => pc[q] \in {"credentials", "queue"}
       /\ pc'[q] \in {"queue", "run"} => pc[q] \in {"credentials", "queue", "run"}
       /\ pc'[q] \in Gone => pc[q] \in {"run"} \cup Gone /\ code'[q] = code[q]
       /\ Uses(q)' => (machine[q] \in idle' <=> pc'[q] = "queue")
  BY <1>1, <1>11
<1>15. Moves(q)
  BY <1>1, <1>3, <1>4, <1>5, <1>7, <1>9, <1>10, <1>11, <1>12, <1>13, <1>14 DEF Moves
<1> QED
  BY <1>15, OneMoves

\* The executor tears the job down.
LEMMA TearDownStep ==
  ASSUME BucketInv, NEW q \in Requests, TearDown(q)
  PROVE  BucketInv'
<1> USE DEF BucketInv
<1>1. /\ pc[q] = "run" /\ UNCHANGED <<target, same, machine, idle, code, buckets>>
      /\ pc' = [pc EXCEPT ![q] = "remove"]
  BY DEF TearDown, farm, Goto
<1>2. /\ \A s \in Requests \ {q} : bucket'[s] = bucket[s]
      /\ bucket'[q].name = bucket[q].name
      /\ bucket' \in [Requests -> [name : Names \cup {NoName}, roles : SUBSET Roles]]
      /\ \A u \in users : u \in users' \/ u[1] = bucket[q].name
      /\ "make" \in failed => "make" \in failed'
  <2>1. CASE UNCHANGED <<bucket, users, failed>>
    BY <2>1 DEF RequestTypes
  <2>2. CASE CreateOwnerCredentials(q, "client")
    BY <2>2, CredentialsOutcome DEF Roles
  <2> QED
    BY <2>1, <2>2 DEF TearDown
<1>3. /\ pc' \in [Requests -> States] /\ pc'[q] = "remove"
      /\ \A s \in Requests \ {q} : pc'[s] = pc[s]
  BY <1>1 DEF RequestTypes, States
<1>4. BucketFits(q) /\ Uses(q) /\ machine[q] \notin idle
  BY <1>1 DEF BucketOfState, Uses, OneUser
<1>5. BucketFits(q)'
  <2>1. Plain(q)' = Plain(q) /\ Unique(q)' = Unique(q)
    BY <1>1 DEF Plain, Unique
  <2>2. bucket[q].name \in {Plain(q), Unique(q)}
    BY <1>1, <1>4 DEF BucketFits, Holding
  <2> QED
    BY <1>2, <1>3, <2>1, <2>2 DEF BucketFits, Holding, Starting
<1>6. pc[q] \in Holding
  BY <1>1 DEF Holding
<1>7. code' \in [Requests -> Nat] /\ buckets' \in [Names -> Requests \cup {None}]
  BY <1>1 DEF RequestTypes
<1>8. /\ pc'[q] \notin {"bucket", "credentials"}
      /\ pc[q] = "credentials" => Removing(machine[q]) = {}
      /\ pc'[q] = "failed" => pc[q] \in {"credentials", "queue"}
      /\ pc'[q] \in {"queue", "run"} => pc[q] \in {"credentials", "queue", "run"}
      /\ pc'[q] \in Gone => pc[q] \in {"run"} \cup Gone /\ code'[q] = code[q]
      /\ Uses(q)' => (machine[q] \in idle' <=> pc'[q] = "queue")
  BY <1>1, <1>3, <1>4 DEF Gone
<1>9. Moves(q)
  BY <1>1, <1>2, <1>3, <1>4, <1>5, <1>6, <1>7, <1>8 DEF Moves
<1> QED
  BY <1>9, OneMoves

\* Dropping a JobBucket: its state after that, and the machine if it had one.
LEMMA ForgetOutcome ==
  ASSUME BucketInv, NEW q \in Requests, pc[q] \in Gone, Forget(q), UNCHANGED <<code, machine>>
  PROVE  /\ pc' \in [Requests -> States] /\ pc'[q] = "over"
         /\ \A s \in Requests \ {q} : pc'[s] = pc[s] /\ bucket'[s] = bucket[s]
         /\ bucket' \in [Requests -> [name : Names \cup {NoName}, roles : SUBSET Roles]]
         /\ bucket'[q] = NoBucket
         /\ \A m \in Machines \ {machine[q]} : m \in idle' <=> m \in idle
         /\ Uses(q) \/ idle' = idle
         /\ BucketFits(q)' /\ ~ Uses(q)' /\ pc'[q] \notin Holding \cup Gone
<1>1. pc' = [pc EXCEPT ![q] = "over"] /\ bucket' = [bucket EXCEPT ![q] = NoBucket]
  BY DEF Forget, Goto
<1>2. /\ pc' \in [Requests -> States] /\ pc'[q] = "over"
      /\ \A s \in Requests \ {q} : pc'[s] = pc[s]
  BY <1>1 DEF BucketInv, RequestTypes, States, Final
<1>3. /\ bucket' \in [Requests -> [name : Names \cup {NoName}, roles : SUBSET Roles]]
      /\ bucket'[q] = NoBucket
      /\ \A s \in Requests \ {q} : bucket'[s] = bucket[s]
  <2>1. NoBucket \in [name : Names \cup {NoName}, roles : SUBSET Roles]
    BY DEF NoBucket
  <2> QED
    BY <1>1, <2>1 DEF BucketInv, RequestTypes
<1>4. /\ \A m \in Machines \ {machine[q]} : m \in idle' <=> m \in idle
      /\ Uses(q) \/ idle' = idle
  BY DEF Forget, Uses, Gone
<1>5. BucketFits(q)' /\ ~ Uses(q)' /\ pc'[q] \notin Holding \cup Gone
  BY <1>2, <1>3 DEF BucketFits, Uses, Holding, Gone, Starting, NoBucket, NoName
<1> QED
  BY <1>2, <1>3, <1>4, <1>5

\* The first half of remove(): the bucket.
LEMMA RemoveBucketStep ==
  ASSUME BucketInv, NEW q \in Requests, RemoveBucket(q)
  PROVE  BucketInv'
<1> USE DEF BucketInv
<1>1. pc[q] = "remove" /\ UNCHANGED <<target, same, machine, code, users>>
  BY DEF RemoveBucket
<1>2. /\ pc[q] \in Gone /\ pc[q] \in Holding /\ BucketFits(q) /\ code' \in [Requests -> Nat]
      /\ bucket[q].name \in Names
  <2>1. pc[q] \in Gone /\ pc[q] \in Holding /\ BucketFits(q)
    BY <1>1 DEF Gone, Holding, BucketOfState
  <2>2. machine[q] \in Machines /\ code' \in [Requests -> Nat]
    BY <1>1, <2>1 DEF RequestTypes
  <2> QED
    BY <2>1, <2>2, NamesOfRequests DEF BucketFits
<1>3. CASE /\ buckets' = [buckets EXCEPT ![bucket[q].name] = None] /\ Works
           /\ Goto(q, "remove users") /\ UNCHANGED <<bucket, idle>>
  <2>1. /\ pc' \in [Requests -> States] /\ pc'[q] = "remove users"
        /\ \A s \in Requests \ {q} : pc'[s] = pc[s]
    BY <1>3 DEF Goto, RequestTypes, States
  <2>2. /\ buckets' \in [Names -> Requests \cup {None}] /\ failed' = failed
        /\ \A m \in Names : buckets'[m] = buckets[m] \/ m = bucket[q].name
        /\ bucket' \in [Requests -> [name : Names \cup {NoName}, roles : SUBSET Roles]]
    BY <1>2, <1>3 DEF Works, RequestTypes
  <2>3. pc'[q] \in Holding /\ pc'[q] \in Gone /\ (Uses(q)' <=> Uses(q))
    BY <1>1, <2>1 DEF Holding, Gone, Uses
  <2>4. BucketFits(q)'
    <3>1. Plain(q)' = Plain(q) /\ Unique(q)' = Unique(q)
      BY <1>1 DEF Plain, Unique
    <3>2. bucket[q].name \in {Plain(q), Unique(q)}
      BY <1>2 DEF BucketFits
    <3> QED
      BY <1>3, <2>1, <3>1, <3>2 DEF BucketFits, Holding, Starting
  <2>5. Uses(q)' => machine[q] \notin idle'
    BY <1>1, <1>3, <2>3 DEF OneUser
  <2>6. Moves(q)
    BY <1>1, <1>2, <1>3, <2>1, <2>2, <2>3, <2>4, <2>5 DEF Moves
  <2> QED
    BY <2>6, OneMoves
<1>4. CASE Forget(q) /\ buckets' = buckets /\ ("make" \in failed => "make" \in failed')
  <2>1. buckets' \in [Names -> Requests \cup {None}]
    BY <1>4 DEF RequestTypes
  <2>2. Moves(q)
    BY <1>1, <1>2, <1>4, <2>1, ForgetOutcome DEF Moves
  <2> QED
    BY <2>2, OneMoves
<1> QED
  BY <1>3, <1>4 DEF RemoveBucket, Fail

\* The second half of remove(): the users and the policies.
LEMMA RemoveUsersStep ==
  ASSUME BucketInv, NEW q \in Requests, RemoveUsers(q)
  PROVE  BucketInv'
<1> USE DEF BucketInv
<1>1. pc[q] = "remove users" /\ UNCHANGED <<target, same, machine, code, buckets>>
  BY DEF RemoveUsers
<1>2. pc[q] \in Gone /\ pc[q] \in Holding /\ BucketFits(q)
  BY <1>1 DEF Gone, Holding, BucketOfState
<1>3. code' \in [Requests -> Nat] /\ buckets' \in [Names -> Requests \cup {None}]
  BY <1>1 DEF RequestTypes
<1>4. ASSUME Forget(q), users' = users, "make" \in failed => "make" \in failed'
      PROVE  Moves(q)
  BY <1>1, <1>2, <1>3, <1>4, ForgetOutcome DEF Moves
<1>5. ASSUME NEW role \in bucket[q].roles, Works,
             users' = users \ {<<bucket[q].name, role>>}, UNCHANGED <<pc, idle>>,
             bucket' = [bucket EXCEPT ![q].roles = @ \ {role}]
      PROVE  Moves(q)
  <2>1. /\ bucket' \in [Requests -> [name : Names \cup {NoName}, roles : SUBSET Roles]]
        /\ bucket'[q].name = bucket[q].name
        /\ \A s \in Requests \ {q} : bucket'[s] = bucket[s]
    BY <1>5 DEF RequestTypes
  <2>2. BucketFits(q)'
    <3>1. Plain(q)' = Plain(q) /\ Unique(q)' = Unique(q)
      BY <1>1 DEF Plain, Unique
    <3>2. bucket[q].name \in {Plain(q), Unique(q)}
      BY <1>2 DEF BucketFits
    <3> QED
      BY <1>1, <1>5, <2>1, <3>1, <3>2 DEF BucketFits, Holding, Starting
  <2>3. Uses(q)' => machine[q] \notin idle'
    <3>1. Uses(q)' => Uses(q)
      BY <1>1, <1>5 DEF Uses
    <3> QED
      BY <1>1, <1>5, <3>1 DEF OneUser
  <2>4. \A u \in users : u \in users' \/ u[1] = bucket[q].name
    BY <1>5
  <2>5. failed' = failed /\ pc' \in [Requests -> States]
    BY <1>5 DEF Works, RequestTypes
  <2> QED
    BY <1>1, <1>2, <1>3, <1>5, <2>1, <2>2, <2>3, <2>4, <2>5 DEF Moves
<1>6. Moves(q)
  BY <1>4, <1>5 DEF RemoveUsers, Works, Fail
<1> QED
  BY <1>6, OneMoves

\* Initially there are no buckets.
LEMMA BucketInit == Init => BucketInv
<1> SUFFICES ASSUME Init PROVE BucketInv
  OBVIOUS
<1>1. \A r \in Requests : pc[r] = "parse" /\ bucket[r] = NoBucket
  BY DEF Init
<1>2. RequestTypes
  <2>1. NoBucket \in [name : Names \cup {NoName}, roles : SUBSET Roles]
    BY DEF NoBucket
  <2> QED
    BY <2>1 DEF Init, RequestTypes, States, Starting, Holding
<1>3. BucketOfState
  BY <1>1 DEF BucketOfState, BucketFits, Holding, Starting
<1>4. OneUser /\ OneLeftover
  BY <1>1 DEF OneUser, OneLeftover, Uses, Gone
<1>5. BucketIsOwn /\ UsersAreThere
  BY <1>1 DEF BucketIsOwn, UsersAreThere
<1> QED
  BY <1>2, <1>3, <1>4, <1>5 DEF BucketInv

\* Every step keeps the invariant of the buckets.
LEMMA BucketStep == BucketInv /\ [Next]_vars => BucketInv'
BY EarlySteps, FindStep, RetireStep, TrainStep, StartCheckStep, FromJobRequestStep, DutCredentialsStep,
   QueueStep, TearDownStep, RemoveBucketStep, RemoveUsersStep DEF Next, Serve

\* For any number of requests and machines, and whatever fails but the making of a
\* bucket: from start_job() to its end a job has the bucket that was made for it, and
\* its users are there.
THEOREM BucketsAreOwned == Spec => []JobOwnsItsBucket
<1>1. BucketInv => JobOwnsItsBucket
  BY DEF BucketInv, BucketIsOwn, UsersAreThere, JobOwnsItsBucket
<1> QED
  BY <1>1, BucketInit, BucketStep, PTL DEF Spec

-----------------------------------------------------------------------------
(* What is left on MinIO.                                                   *)

\* The users that the JobBuckets noted.
Noted(u) == \E r \in Requests : \E role \in bucket[r].roles : u = <<bucket[r].name, role>>

\* As long as nothing failed that is not undone: a bucket belongs to the JobBucket it was
\* made for, unless it was removed, and users and policies were noted.
BucketsBelong ==
  "remove" \notin failed => \A n \in Names : buckets[n] # None => bucket[buckets[n]].name = n
RemovedIsGone ==
  \A r \in Requests : pc[r] = "remove users" => buckets[bucket[r].name] # r
UsersBelong == failed \cap {"remove", "missing", "group"} = {} => \A u \in users : Noted(u)
PoliciesBelong == failed = {} => \A u \in policies : Noted(u)

LeakInv == BucketsBelong /\ RemovedIsGone /\ UsersBelong /\ PoliciesBelong

\* The roles of a JobBucket have its name.
LEMMA NotedByName ==
  ASSUME BucketInv, NEW r \in Requests, pc[r] \in Holding
  PROVE  bucket[r].name \in Names /\ bucket[r].roles \subseteq Roles
<1>1. machine[r] \in Machines /\ bucket[r].name \in {Plain(r), Unique(r)}
  BY DEF BucketInv, RequestTypes, BucketOfState, BucketFits
<1> QED
  BY <1>1, NamesOfRequests DEF BucketInv, RequestTypes

\* Steps that do not reach MinIO.
LEMMA LeakQuiet ==
  ASSUME BucketInv, LeakInv, UNCHANGED <<bucket, buckets, users, policies, failed>>,
         \A r \in Requests : pc'[r] = "remove users" => pc[r] = "remove users"
  PROVE  LeakInv'
<1>1. BucketsBelong'
  BY DEF LeakInv, BucketsBelong, Names
<1>2. RemovedIsGone'
  BY DEF LeakInv, RemovedIsGone
<1>3. UsersBelong' /\ PoliciesBelong'
  <2>1. ASSUME NEW u, Noted(u) PROVE Noted(u)'
    BY <2>1 DEF Noted
  <2> QED
    BY <2>1 DEF LeakInv, UsersBelong, PoliciesBelong
<1> QED
  BY <1>1, <1>2, <1>3 DEF LeakInv

\* The steps that make and remove nothing.
LEMMA LeakQuietSteps ==
  ASSUME BucketInv, LeakInv, NEW q \in Requests,
         \/ Parse(q) \/ CheckMinioCredentials(q) \/ Find(q) \/ GiveUp(q) \/ StartCheck(q)
         \/ Queue(q)
  PROVE  LeakInv'
<1>1. UNCHANGED <<bucket, buckets, users, policies>>
  BY DEF Parse, CheckMinioCredentials, Find, GiveUp, StartCheck, Queue, minio
<1>2. UNCHANGED failed
  BY DEF Parse, CheckMinioCredentials, Find, GiveUp, StartCheck, Queue
<1>3. \E st \in {"check", "refused", "find", "hung", "start", "bucket", "run", "failed"} :
        pc' = [pc EXCEPT ![q] = st]
  BY DEF Parse, CheckMinioCredentials, Find, GiveUp, StartCheck, Queue, Goto
<1>4. \A r \in Requests : pc'[r] = "remove users" => pc[r] = "remove users"
  BY <1>3 DEF BucketInv, RequestTypes
<1> QED
  BY <1>1, <1>2, <1>4, LeakQuiet

\* Making a bucket: the name that could not be had is removed, whoever it belonged to.
LEMMA LeakMake ==
  ASSUME BucketInv, LeakInv, NEW q \in Requests, FromJobRequest(q)
  PROVE  LeakInv'
<1>1. /\ pc[q] = "bucket" /\ UNCHANGED <<users, policies>> /\ machine[q] \in Machines
      /\ bucket[q] = NoBucket /\ buckets \in [Names -> Requests \cup {None}]
  BY DEF FromJobRequest, BucketInv, RequestTypes, Starting, BucketOfState, BucketFits, Holding
<1>2. Plain(q) \in Names /\ Unique(q) \in Names /\ Unique(q) # Plain(q)
  BY <1>1, NamesOfRequests DEF BucketInv
<1>3. failed \subseteq failed'
  BY DEF FromJobRequest, Works, Fail
<1>4. ASSUME "remove" \notin failed, NEW m \in Names, buckets[m] # None
      PROVE  buckets[m] \in Requests \ {q}
  <2>1. bucket[buckets[m]].name = m
    BY <1>4 DEF LeakInv, BucketsBelong
  <2>2. NoName \notin Names
    BY NoneAssumption DEF NoName, Names
  <2> QED
    BY <1>1, <1>4, <2>1, <2>2 DEF NoBucket
<1>5. ASSUME NEW n \in {Plain(q), Unique(q)}, Own(q, n), buckets'[n] = q,
             \A m \in Names \ {n} : buckets'[m] \in {buckets[m], None}
      PROVE  LeakInv'
  <2>1. /\ bucket'[q].name = n /\ bucket'[q].roles = {}
        /\ \A r \in Requests \ {q} : bucket'[r] = bucket[r]
    BY <1>1, <1>5 DEF Own, NoBucket, BucketInv, RequestTypes
  <2>2. \A r \in Requests : pc'[r] = "remove users" => r # q /\ pc[r] = "remove users"
    BY <1>5 DEF Own
  <2>3. BucketsBelong'
    <3> SUFFICES ASSUME "remove" \notin failed', NEW m \in Names, buckets'[m] # None
                 PROVE  bucket'[buckets'[m]].name = m
      BY DEF BucketsBelong, Names
    <3>1. CASE m = n
      BY <1>5, <2>1, <3>1
    <3>2. CASE m # n
      BY <1>3, <1>4, <1>5, <2>1, <3>2 DEF LeakInv, BucketsBelong
    <3> QED
      BY <3>1, <3>2
  <2>4. RemovedIsGone'
    <3> SUFFICES ASSUME NEW r \in Requests, pc'[r] = "remove users"
                 PROVE  buckets'[bucket'[r].name] # r
      BY DEF RemovedIsGone
    <3>1. r # q /\ bucket'[r] = bucket[r] /\ buckets[bucket[r].name] # r
      BY <2>1, <2>2 DEF LeakInv, RemovedIsGone
    <3>2. bucket[r].name \in Names
      BY <2>2, NotedByName DEF Holding
    <3> QED
      BY <1>5, <3>1, <3>2, NoneAssumption
  <2>5. ASSUME NEW u, Noted(u) PROVE Noted(u)'
    BY <1>1, <2>1, <2>5 DEF Noted, NoBucket
  <2> QED
    BY <1>1, <1>3, <2>3, <2>4, <2>5 DEF LeakInv, UsersBelong, PoliciesBelong
<1>6. ASSUME Goto(q, "refused"), bucket' = bucket, buckets' = [buckets EXCEPT ![Plain(q)] = None]
      PROVE  LeakInv'
  <2>1. \A m \in Names : buckets'[m] \in {buckets[m], None}
    BY <1>1, <1>6
  <2>2. \A r \in Requests : pc'[r] = "remove users" => pc[r] = "remove users"
    BY <1>6 DEF Goto, BucketInv, RequestTypes
  <2>3. BucketsBelong'
    BY <1>3, <1>6, <2>1 DEF LeakInv, BucketsBelong, Names
  <2>4. RemovedIsGone'
    <3> SUFFICES ASSUME NEW r \in Requests, pc'[r] = "remove users"
                 PROVE  buckets'[bucket'[r].name] # r
      BY DEF RemovedIsGone
    <3>1. buckets[bucket[r].name] # r /\ bucket[r].name \in Names
      BY <2>2, NotedByName DEF LeakInv, RemovedIsGone, Holding
    <3> QED
      BY <1>6, <2>1, <3>1, NoneAssumption
  <2>5. ASSUME NEW u, Noted(u) PROVE Noted(u)'
    BY <1>6, <2>5 DEF Noted
  <2> QED
    BY <1>1, <1>3, <2>3, <2>4, <2>5 DEF LeakInv, UsersBelong, PoliciesBelong
<1>7. CASE Own(q, Plain(q)) /\ buckets' = [buckets EXCEPT ![Plain(q)] = q]
  BY <1>1, <1>2, <1>5, <1>7
<1>8. CASE /\ Own(q, Unique(q))
           /\ \/ buckets' = [buckets EXCEPT ![Unique(q)] = q, ![Plain(q)] = None]
              \/ buckets' = [buckets EXCEPT ![Unique(q)] = q]
  BY <1>1, <1>2, <1>5, <1>8
<1> QED
  BY <1>6, <1>7, <1>8 DEF FromJobRequest

\* Credentials: what failed is undone, except for a user that no group took.
LEMMA LeakCredentials ==
  ASSUME BucketInv, LeakInv, NEW q \in Requests, NEW role \in Roles,
         pc[q] \in Holding, CreateOwnerCredentials(q, role), UNCHANGED buckets,
         \A r \in Requests : pc'[r] = "remove users" => pc[r] = "remove users"
  PROVE  LeakInv'
<1> DEFINE new == <<bucket[q].name, role>>
<1>1. bucket \in [Requests -> [name : Names \cup {NoName}, roles : SUBSET Roles]]
  BY DEF BucketInv, RequestTypes
<1>2. failed \subseteq failed'
  BY DEF CreateOwnerCredentials, Works, Fail
<1>3. \A r \in Requests : bucket'[r].name = bucket[r].name /\ bucket[r].roles \subseteq bucket'[r].roles
  <2>1. CASE bucket' = bucket
    BY <2>1
  <2>2. CASE bucket' = [bucket EXCEPT ![q].roles = @ \cup {role}]
    <3>1. \A r \in Requests \ {q} : bucket'[r] = bucket[r]
      BY <1>1, <2>2
    <3>2. bucket'[q].name = bucket[q].name /\ bucket'[q].roles = bucket[q].roles \cup {role}
      BY <1>1, <2>2
    <3> QED
      BY <3>1, <3>2
  <2> QED
    BY <2>1, <2>2 DEF CreateOwnerCredentials
<1>4. BucketsBelong'
  BY <1>2, <1>3 DEF LeakInv, BucketsBelong, Names, BucketInv, RequestTypes
<1>5. RemovedIsGone'
  BY <1>3 DEF LeakInv, RemovedIsGone
<1>6. ASSUME NEW u, Noted(u) PROVE Noted(u)'
  BY <1>3, <1>6 DEF Noted
<1>7. CASE /\ users' = users \cup {new} /\ policies' = policies \cup {new}
           /\ bucket' = [bucket EXCEPT ![q].roles = @ \cup {role}]
  <2>1. ASSUME NEW u, u = new PROVE Noted(u)'
    <3>1. role \in bucket'[q].roles /\ bucket'[q].name = bucket[q].name
      BY <1>1, <1>7
    <3> QED
      BY <2>1, <3>1 DEF Noted
  <2>2. UsersBelong'
    BY <1>2, <1>6, <1>7, <2>1 DEF LeakInv, UsersBelong
  <2>3. PoliciesBelong'
    BY <1>2, <1>6, <1>7, <2>1 DEF LeakInv, PoliciesBelong
  <2> QED
    BY <1>4, <1>5, <2>2, <2>3 DEF LeakInv
<1>8. CASE users' = users \ {new} /\ "credentials" \in failed'
  BY <1>2, <1>4, <1>5, <1>6, <1>8 DEF LeakInv, UsersBelong, PoliciesBelong
<1>9. CASE failed' \cap {"group", "remove"} # {}
  BY <1>2, <1>4, <1>5, <1>6, <1>9 DEF LeakInv, UsersBelong, PoliciesBelong
<1> QED
  BY <1>7, <1>8, <1>9 DEF CreateOwnerCredentials, Fail

\* The steps that make users and policies.
LEMMA LeakCredentialsSteps ==
  ASSUME BucketInv, LeakInv, NEW q \in Requests, DutCredentials(q) \/ TearDown(q)
  PROVE  LeakInv'
<1>1. pc[q] \in Holding /\ UNCHANGED buckets
  BY DEF DutCredentials, TearDown, Holding
<1>2. \E st \in {"queue", "failed", "remove"} : pc' = [pc EXCEPT ![q] = st]
  BY DEF DutCredentials, TearDown, Goto
<1>3. \A r \in Requests : pc'[r] = "remove users" => pc[r] = "remove users"
  BY <1>2 DEF BucketInv, RequestTypes
<1>4. CASE UNCHANGED <<bucket, users, policies, failed>>
  BY <1>1, <1>3, <1>4, LeakQuiet
<1>5. CASE \E role \in Roles : CreateOwnerCredentials(q, role)
  BY <1>1, <1>3, <1>5, LeakCredentials
<1> QED
  BY <1>4, <1>5 DEF DutCredentials, TearDown, Roles

\* A JobBucket whose bucket is gone, and which noted no users any more, is dropped.
LEMMA LeakForget ==
  ASSUME BucketInv, LeakInv, NEW q \in Requests, pc[q] \in Gone, Forget(q), UNCHANGED buckets,
         failed \subseteq failed', "remove" \in failed' \/ buckets[bucket[q].name] # q,
         \/ failed' \cap {"remove", "missing"} # {}
         \/ bucket[q].roles = {} /\ UNCHANGED <<users, policies>>
  PROVE  LeakInv'
<1>1. /\ pc' = [pc EXCEPT ![q] = "over"] /\ bucket' = [bucket EXCEPT ![q] = NoBucket]
      /\ bucket \in [Requests -> [name : Names \cup {NoName}, roles : SUBSET Roles]]
      /\ buckets \in [Names -> Requests \cup {None}]
  BY DEF Forget, Goto, BucketInv, RequestTypes
<1>2. \A r \in Requests \ {q} : bucket'[r] = bucket[r]
  BY <1>1
<1>3. \A r \in Requests : pc'[r] = "remove users" => r # q /\ pc[r] = "remove users"
  BY <1>1 DEF BucketInv, RequestTypes
<1>4. BucketsBelong'
  <2> SUFFICES ASSUME "remove" \notin failed', NEW m \in Names, buckets[m] # None
               PROVE  bucket'[buckets[m]].name = m
    BY DEF BucketsBelong, Names
  <2>1. bucket[buckets[m]].name = m /\ buckets[m] \in Requests
    BY <1>1 DEF LeakInv, BucketsBelong
  <2> QED
    BY <1>2, <2>1
<1>5. RemovedIsGone'
  BY <1>2, <1>3 DEF LeakInv, RemovedIsGone
<1>6. CASE failed' \cap {"remove", "missing"} # {}
  BY <1>4, <1>5, <1>6 DEF LeakInv, UsersBelong, PoliciesBelong
<1>7. CASE bucket[q].roles = {} /\ UNCHANGED <<users, policies>>
  <2>1. ASSUME NEW u, Noted(u) PROVE Noted(u)'
    BY <1>2, <1>7, <2>1 DEF Noted
  <2> QED
    BY <1>4, <1>5, <1>7, <2>1 DEF LeakInv, UsersBelong, PoliciesBelong
<1> QED
  BY <1>6, <1>7

\* The removal of the bucket.
LEMMA LeakRemoveBucket ==
  ASSUME BucketInv, LeakInv, NEW q \in Requests, RemoveBucket(q)
  PROVE  LeakInv'
<1>1. /\ pc[q] = "remove" /\ UNCHANGED <<users, policies>> /\ pc[q] \in Gone
      /\ bucket[q].name \in Names /\ buckets \in [Names -> Requests \cup {None}]
  BY NotedByName DEF RemoveBucket, Gone, Holding, BucketInv, RequestTypes
<1>2. CASE /\ buckets' = [buckets EXCEPT ![bucket[q].name] = None] /\ Works
           /\ Goto(q, "remove users") /\ bucket' = bucket
  <2>1. /\ \A m \in Names : buckets'[m] \in {buckets[m], None}
        /\ buckets'[bucket[q].name] = None /\ failed' = failed
    BY <1>1, <1>2 DEF Works
  <2>2. \A r \in Requests : pc'[r] = "remove users" => r = q \/ pc[r] = "remove users"
    BY <1>2 DEF Goto, BucketInv, RequestTypes
  <2>3. BucketsBelong'
    BY <1>2, <2>1 DEF LeakInv, BucketsBelong, Names
  <2>4. RemovedIsGone'
    <3> SUFFICES ASSUME NEW r \in Requests, pc'[r] = "remove users"
                 PROVE  buckets'[bucket[r].name] # r
      BY <1>2 DEF RemovedIsGone
    <3>1. CASE r = q
      BY <2>1, <3>1, NoneAssumption
    <3>2. CASE r # q
      <4>1. bucket[r].name \in Names /\ buckets[bucket[r].name] # r
        BY <2>2, <3>2, NotedByName DEF LeakInv, RemovedIsGone, Holding
      <4> QED
        BY <2>1, <4>1, NoneAssumption
    <3> QED
      BY <3>1, <3>2
  <2>5. UsersBelong' /\ PoliciesBelong'
    <3>1. ASSUME NEW u, Noted(u) PROVE Noted(u)'
      BY <1>2, <3>1 DEF Noted
    <3> QED
      BY <1>1, <2>1, <3>1 DEF LeakInv, UsersBelong, PoliciesBelong
  <2> QED
    BY <2>3, <2>4, <2>5 DEF LeakInv
<1>3. CASE buckets[bucket[q].name] # None /\ Fail({"remove"}) /\ Forget(q) /\ buckets' = buckets
  BY <1>1, <1>3, LeakForget DEF Fail
<1>4. CASE /\ buckets[bucket[q].name] = None /\ failed' = failed \cup {"missing"}
           /\ Forget(q) /\ buckets' = buckets
  BY <1>1, <1>4, LeakForget, NoneAssumption
<1> QED
  BY <1>2, <1>3, <1>4 DEF RemoveBucket

\* The removal of the users.
LEMMA LeakRemoveUsers ==
  ASSUME BucketInv, LeakInv, NEW q \in Requests, RemoveUsers(q)
  PROVE  LeakInv'
<1>1. /\ pc[q] = "remove users" /\ UNCHANGED buckets /\ pc[q] \in Gone
      /\ buckets[bucket[q].name] # q
  BY DEF RemoveUsers, Gone, LeakInv, RemovedIsGone
<1>2. CASE bucket[q].roles = {} /\ Forget(q) /\ Works /\ UNCHANGED <<users, policies>>
  BY <1>1, <1>2, LeakForget DEF Works
<1>3. CASE Fail({"remove"}) /\ Forget(q)
  BY <1>1, <1>3, LeakForget DEF Fail
<1>4. ASSUME NEW role \in bucket[q].roles, Works, UNCHANGED pc,
             policies' = policies \ {<<bucket[q].name, role>>},
             users' = users \ {<<bucket[q].name, role>>},
             bucket' = [bucket EXCEPT ![q].roles = @ \ {role}]
      PROVE  LeakInv'
  <2>1. /\ \A r \in Requests : bucket'[r].name = bucket[r].name
        /\ \A r \in Requests \ {q} : bucket'[r] = bucket[r]
        /\ bucket'[q].roles = bucket[q].roles \ {role} /\ failed' = failed
    BY <1>4 DEF BucketInv, RequestTypes, Works
  <2>2. BucketsBelong'
    BY <1>1, <2>1 DEF LeakInv, BucketsBelong, Names, BucketInv, RequestTypes
  <2>3. RemovedIsGone'
    BY <1>1, <1>4, <2>1 DEF LeakInv, RemovedIsGone
  <2>4. ASSUME NEW u, Noted(u), u # <<bucket[q].name, role>> PROVE Noted(u)'
    <3>0. PICK r \in Requests : \E k \in bucket[r].roles : u = <<bucket[r].name, k>>
      BY <2>4 DEF Noted
    <3>1. PICK k \in bucket[r].roles : u = <<bucket[r].name, k>>
      BY <3>0
    <3>2. k \in bucket'[r].roles /\ bucket'[r].name = bucket[r].name
      BY <2>1, <2>4, <3>1
    <3> QED
      BY <3>1, <3>2 DEF Noted
  <2> QED
    BY <1>4, <2>1, <2>2, <2>3, <2>4 DEF LeakInv, UsersBelong, PoliciesBelong
<1> QED
  BY <1>2, <1>3, <1>4 DEF RemoveUsers

\* Every step keeps that what there is belongs to a request.
LEMMA LeakStep == BucketInv /\ LeakInv /\ [Next]_vars => LeakInv'
<1> SUFFICES ASSUME BucketInv, LeakInv, [Next]_vars PROVE LeakInv'
  OBVIOUS
<1>1. CASE Retire \/ Train \/ UNCHANGED vars
  <2>1. UNCHANGED <<pc, bucket, buckets, users, policies, failed>>
    BY <1>1 DEF Retire, Train, vars, minio
  <2> QED
    BY <2>1, LeakQuiet
<1>2. ASSUME NEW q \in Requests, Serve(q) \/ GiveUp(q) PROVE LeakInv'
  BY <1>2, LeakQuietSteps, LeakMake, LeakCredentialsSteps, LeakRemoveBucket, LeakRemoveUsers
     DEF Serve
<1> QED
  BY <1>1, <1>2 DEF Next

\* Initially there is nothing.
LEMMA LeakInit == Init => LeakInv
BY DEF Init, LeakInv, BucketsBelong, RemovedIsGone, UsersBelong, PoliciesBelong

\* Whatever the requests do and fail with: as long as no removal failed, every bucket on
\* MinIO is that of a JobBucket; users and policies are too, unless a removal or a group
\* failed, or a bucket was gone before.
THEOREM NothingIsLeaked == Spec => []NothingLeaks
<1>1. BucketInv /\ LeakInv => NothingLeaks
  <2> SUFFICES ASSUME BucketInv, LeakInv PROVE NothingLeaks
    OBVIOUS
  <2>1. ASSUME NEW u, Noted(u) PROVE u \in Owned
    BY <2>1 DEF Noted, Owned, BucketInv, RequestTypes
  <2> QED
    BY <2>1 DEF LeakInv, BucketsBelong, UsersBelong, PoliciesBelong, NothingLeaks
<1> QED
  BY <1>1, BucketInit, BucketStep, LeakInit, LeakStep, PTL DEF Spec
=============================================================================
