---------------------------- MODULE MachineProofs ----------------------------
(*****************************************************************************)
(* The test machines: that once MaRS brought them in line with its database no*)
(* machine is left on a replaced one; that a machine stays off for long enough*)
(* although its PDUPort is replaced at any time; and that it boots the kernel*)
(* of its job.  Mars is extended, and PowerUp an instance.                   *)
(*****************************************************************************)
EXTENDS Mars, PowerUpState, FunctionTheorems, FiniteSetTheorems, SequenceTheorems, TLAPS

Power == INSTANCE PowerUp

-----------------------------------------------------------------------------
(* MaRS: the inductive invariant.                                           *)

\* A Machine has an entry in the database that its ConfigDUT is stored in, even one that
\* was removed and that a call under way still uses.
HomesHaveEntries ==
  \A d \in Duts : machines[d].home # 0 => heap[machines[d].home][d] # Absent

\* A call that updates a machine found it; a registration has its ConfigDUT; one that
\* writes knows its database.
Founded(op, m, h) ==
  /\ op.step = "set" => op.call # "register"
  /\ op.step \in {"set", "save"} /\ op.call # "register" =>
       op.call \in {"ready", "retire", "activate"} /\ m[op.dut].home # 0
  /\ op.step \in {"get", "update", "store"} =>
       /\ op.call = "register" /\ op.db # 0
       /\ op.obj \notin {0, mars_db} /\ h[op.obj][op.dut] # Absent
  /\ op.step \in {"write", "taint"} => op.db # 0
CallsAreFounded == \A t \in Threads : Founded(ops[t], machines, heap)

\* What the loops of sync_machines() have yet to go through is in the new database.
TodoIsThere == mpc \in {"update", "store", "expose"} => todo \subseteq In(Current)

\* The ConfigDUT that the first loop is at is there, and in the database unless a
\* registration took its place.
AtIsThere ==
  /\ at.obj # 0 <=> mpc = "store"
  /\ at.obj # 0 => heap[at.obj][at.dut] # Absent
  /\ at.obj \notin {0, mars_db} => at.dut \in registered

\* Every registration under way is one of these.
RegistrationsAreNoted == \A t \in Threads : ops[t].call = "register" => ops[t].dut \in registered

\* Any other machine of a replaced database is one that the loops will come to.
Reached(d) ==
  machines[d].known /\ machines[d].home # mars_db =>
    /\ mpc \in {"update", "store"} => d \in todo \cup local
    /\ mpc = "remove" => d \in todo
    /\ mpc \in {"idle", "update", "store", "remove"}
StaleIsDue == \A d \in Duts \ registered : Reached(d)

MarsInv ==
  /\ TypeOK /\ HomesHaveEntries /\ CallsAreFounded /\ TodoIsThere /\ AtIsThere
  /\ RegistrationsAreNoted /\ StaleIsDue

-----------------------------------------------------------------------------
(* The objects that a reload keeps.                                         *)

Kept == Referenced \ {0}

\* Only objects are referred to, of which there are finitely many.
LEMMA KeptIsFinite ==
  ASSUME TypeOK
  PROVE  /\ Len(heap) \in Nat /\ Kept \subseteq Objects /\ Referenced \subseteq Nat
         /\ IsFiniteSet(Kept) /\ Cardinality(Kept) \in Nat
<1>1. Len(heap) \in Nat
  BY LenProperties DEF TypeOK
<1>2. \A t \in Threads : ops[t].db \in Objects \cup {0} /\ ops[t].obj \in Objects \cup {0}
  BY DEF TypeOK
<1>3. \A d \in Duts : machines[d].home \in Objects \cup {0} /\ machines[d].db \in Objects \cup {0}
  BY DEF TypeOK, NoMachine
<1>4. Kept \subseteq Objects
  BY <1>2, <1>3 DEF Kept, Referenced
<1>5. IsFiniteSet(Objects)
  BY <1>1, FS_Interval DEF Objects
<1>6. Referenced \subseteq Nat
  BY <1>4 DEF Kept, Objects
<1> QED
  BY <1>1, <1>4, <1>5, <1>6, FS_Subset, FS_CardinalityType

\* The ages of the objects that are kept, in their order.
LEMMA AgeOfKept ==
  ASSUME TypeOK, NEW g \in Kept
  PROVE  Age[g] \in 2 .. Cardinality(Kept) + 1
<1> DEFINE Younger == {h \in Referenced : 0 < h /\ h <= g}
<1>1. g \in Nat \ {0}
  BY KeptIsFinite DEF Objects
<1>2. Younger \subseteq Kept /\ g \in Younger
  BY <1>1, KeptIsFinite DEF Kept
<1>3. IsFiniteSet(Younger) /\ Cardinality(Younger) <= Cardinality(Kept)
  BY <1>2, KeptIsFinite, FS_Subset
<1>4. Cardinality(Younger) \in Nat /\ Cardinality(Younger) # 0
  BY <1>2, <1>3, FS_CardinalityType, FS_EmptySet
<1>5. Age[g] = 1 + Cardinality(Younger)
  BY <1>1 DEF Age, Kept
<1> QED
  BY <1>3, <1>4, <1>5, KeptIsFinite

\* A reload keeps the order of the objects: no two of them become one.
LEMMA AgesAreDistinct ==
  ASSUME TypeOK, NEW g \in Kept, NEW h \in Kept, g < h
  PROVE  Age[g] < Age[h]
<1> DEFINE Younger(x) == {k \in Referenced : 0 < k /\ k <= x}
<1>1. g \in Nat \ {0} /\ h \in Nat \ {0} /\ Referenced \subseteq Nat
  BY KeptIsFinite DEF Objects
<1>2. Younger(g) \subseteq Younger(h) /\ Younger(h) \subseteq Kept
  <2>1. ASSUME NEW k \in Younger(g) PROVE k \in Younger(h)
    BY <1>1, <2>1
  <2>2. ASSUME NEW k \in Younger(h) PROVE k \in Kept
    BY <1>1, <2>2 DEF Kept
  <2> QED
    BY <2>1, <2>2
<1>3. h \in Younger(h) /\ h \notin Younger(g)
  BY <1>1 DEF Kept
<1>4. IsFiniteSet(Younger(h)) /\ IsFiniteSet(Younger(g))
  BY <1>2, KeptIsFinite, FS_Subset
<1>5. /\ Cardinality(Younger(g)) <= Cardinality(Younger(h))
      /\ Cardinality(Younger(g)) # Cardinality(Younger(h))
  BY <1>2, <1>3, <1>4, FS_Subset
<1>6. Cardinality(Younger(g)) \in Nat /\ Cardinality(Younger(h)) \in Nat
  BY <1>4, FS_CardinalityType
<1>7. Age[g] = 1 + Cardinality(Younger(g)) /\ Age[h] = 1 + Cardinality(Younger(h))
  BY <1>1 DEF Age, Kept
<1> QED
  BY <1>5, <1>6, <1>7

\* Every number from 2 on is the age of an object, so that a reload leaves no hole.
LEMMA EveryAge ==
  ASSUME TypeOK, NEW i \in 2 .. Cardinality(Kept) + 1
  PROVE  \E g \in Kept : Age[g] = i
<1> DEFINE age == [g \in Kept |-> Age[g]]
           Ages == {Age[g] : g \in Kept}
           All == 2 .. Cardinality(Kept) + 1
<1>1. Kept \subseteq Nat
  BY KeptIsFinite DEF Objects
<1>2. \A g, h \in Kept : g # h => age[g] # age[h]
  <2> SUFFICES ASSUME NEW g \in Kept, NEW h \in Kept, g # h PROVE Age[g] # Age[h]
    OBVIOUS
  <2>1. Age[g] \in Nat /\ Age[h] \in Nat
    BY AgeOfKept, KeptIsFinite
  <2> QED
    BY <1>1, <2>1, AgesAreDistinct
<1>3. age \in Bijection(Kept, Ages)
  <2>1. age \in [Kept -> Ages] /\ \A a \in Ages : \E g \in Kept : age[g] = a
    OBVIOUS
  <2> HIDE DEF age, Ages
  <2> QED
    BY <1>2, <2>1, Fun_IsBij
<1>4. Cardinality(Ages) = Cardinality(Kept)
  BY <1>3, KeptIsFinite, FS_Bijection DEF ExistsBijection
<1>5. Ages \subseteq All
  BY AgeOfKept
<1>6. IsFiniteSet(All) /\ Cardinality(All) = Cardinality(Kept)
  BY KeptIsFinite, FS_Interval
<1>7. Ages = All
  BY <1>4, <1>5, <1>6, FS_Subset
<1> QED
  BY <1>7

\* A reload puts the new database in front, and renumbers the ones that are kept.
LEMMA ReloadKeepsObjects ==
  ASSUME TypeOK, Load, file # Corrupt
  PROVE  /\ heap' \in Seq(Databases) /\ Len(heap') = Cardinality(Kept) + 1
         /\ heap'[1] = file
         /\ \A g \in Kept : heap'[Age[g]] = heap[g]
<1> DEFINE n == Cardinality(Kept)
           At(i) == CHOOSE g \in Referenced : Age[g] = i + 1
           old == [i \in 1 .. n |-> heap[At(i)]]
<1>1. heap' = <<file>> \o old
  BY DEF Load, Kept
<1>2. n \in Nat /\ Kept \subseteq Objects
  BY KeptIsFinite
<1>3. ASSUME NEW i \in 1 .. n PROVE At(i) \in Kept /\ Age[At(i)] = i + 1
  <2>1. i + 1 \in 2 .. n + 1
    BY <1>2
  <2>2. \E g \in Referenced : Age[g] = i + 1
    BY <2>1, EveryAge DEF Kept
  <2>3. At(i) \in Referenced /\ Age[At(i)] = i + 1
    BY <2>2
  <2>4. At(i) # 0
    <3>1. Age[0] = 0
      BY DEF Age
    <3> HIDE DEF At
    <3> QED
      BY <2>1, <2>3, <3>1
  <2> QED
    BY <2>3, <2>4 DEF Kept
<1>4. \A g \in Objects : heap[g] \in Databases
  BY ElementOfSeq DEF TypeOK, Objects
<1>5. old \in Seq(Databases) /\ Len(old) = n
  <2>1. \A i \in 1 .. n : heap[At(i)] \in Databases
    BY <1>2, <1>3, <1>4
  <2>2. old \in [1 .. n -> Databases]
    BY <2>1
  <2> HIDE DEF old
  <2>3. old \in Seq(Databases)
    BY <1>2, <2>2, SeqDef
  <2> QED
    BY <1>2, <2>2, <2>3, LenProperties
<1>6. <<file>> \in Seq(Databases) /\ Len(<<file>>) = 1 /\ <<file>>[1] = file
  BY DEF TypeOK
<1>7. /\ heap' \in Seq(Databases) /\ Len(heap') = 1 + n
      /\ \A i \in 1 .. 1 + n : heap'[i] = IF i <= 1 THEN <<file>>[i] ELSE old[i - 1]
  <2> HIDE DEF old
  <2> QED
    BY <1>1, <1>5, <1>6, ConcatProperties
<1>8. ASSUME NEW g \in Kept PROVE heap'[Age[g]] = heap[g]
  <2>1. Age[g] \in 2 .. n + 1
    BY AgeOfKept
  <2>2. PICK i \in 1 .. n : i + 1 = Age[g]
    BY <2>1, <1>2
  <2>3. heap'[Age[g]] = heap[At(i)]
    <3>1. heap'[i + 1] = old[i]
      <4> HIDE DEF old
      <4> QED
        BY <1>2, <1>7
    <3> HIDE DEF At
    <3> QED
      BY <2>2, <3>1
  <2>4. At(i) \in Kept /\ Age[At(i)] = Age[g]
    BY <1>3, <2>2
  <2>5. g \in Nat /\ At(i) \in Nat
    <3>1. Kept \subseteq Nat
      BY <1>2 DEF Objects
    <3> QED
      BY <2>4, <3>1
  <2>6. At(i) = g
    <3>1. Age[At(i)] \in Nat
      BY <1>2, <2>1, <2>4
    <3> HIDE DEF At
    <3> QED
      BY <2>4, <2>5, <3>1, AgesAreDistinct
  <2> QED
    BY <2>3, <2>6
<1>9. heap'[1] = file
  <2> HIDE DEF old
  <2> QED
    BY <1>2, <1>6, <1>7
<1> QED
  BY <1>2, <1>7, <1>8, <1>9

-----------------------------------------------------------------------------
(* Steps.                                                                   *)

MachineSet == {NoMachine} \cup [known : BOOLEAN, home : Objects, db : Objects]
OpSet == [call : {"idle", "ready", "retire", "activate", "register"}, dut : Duts,
          step : {"idle", "set", "get", "update", "store", "save", "write", "taint"},
          db : Objects \cup {0}, obj : Objects \cup {0}, new : BOOLEAN]

\* A machine that is known has both its databases.
LEMMA MachineTypes ==
  ASSUME TypeOK, NEW d \in Duts
  PROVE  /\ machines[d].home \in Objects \cup {0} /\ machines[d].db \in Objects \cup {0}
         /\ machines[d].home = 0 => machines[d] = NoMachine /\ ~ machines[d].known
         /\ machines[d].home # 0 => machines[d] \in [known : BOOLEAN, home : Objects, db : Objects]
         /\ machines[d].home # 0 => machines[d].db # 0
<1>1. 0 \notin Objects
  BY LenProperties DEF TypeOK, Objects
<1> QED
  BY <1>1 DEF TypeOK, NoMachine

\* What is true of the objects and machines after a reload.
LEMMA LoadStep ==
  ASSUME MarsInv, Load
  PROVE  MarsInv'
<1> USE DEF MarsInv
<1>1. CASE file = Corrupt
  <2>1. UNCHANGED <<heap, tainted, machines, ops, thread, file, watched, gitlab, registered, events>>
    BY <1>1 DEF Load
  <2>2. event' \in BOOLEAN
    BY DEF Load, TypeOK
  <2> QED
    BY <2>1, <2>2 DEF TypeOK, HomesHaveEntries, CallsAreFounded, Founded, TodoIsThere, AtIsThere,
       RegistrationsAreNoted, StaleIsDue, Reached, Objects, thread, gitlab, In, Current
<1>2. CASE file # Corrupt
  <2> DEFINE n == Cardinality(Kept)
  <2>1. /\ heap' \in Seq(Databases) /\ Len(heap') = n + 1 /\ heap'[1] = file
        /\ \A g \in Kept : heap'[Age[g]] = heap[g]
    BY <1>2, ReloadKeepsObjects
  <2>2. /\ n \in Nat /\ Objects' = 1 .. n + 1
        /\ \A g \in Kept : Age[g] \in Objects' /\ Age[g] # 0 /\ Age[g] # 1
    BY <2>1, KeptIsFinite, AgeOfKept DEF Objects
  <2>3. Age[0] = 0
    BY DEF Age
  <2>4. \A d \in Duts : /\ machines[d].home # 0 => machines[d].home \in Kept
                        /\ machines[d].db # 0 => machines[d].db \in Kept
    BY DEF Kept, Referenced
  <2>5. \A t \in Threads : /\ ops[t].db # 0 => ops[t].db \in Kept
                           /\ ops[t].obj # 0 => ops[t].obj \in Kept
    BY DEF Kept, Referenced
  <2>6. ASSUME NEW d \in Duts
        PROVE  /\ machines'[d].known = machines[d].known
               /\ machines'[d].home = Age[machines[d].home]
               /\ machines'[d] \in {NoMachine} \cup [known : BOOLEAN, home : Objects', db : Objects']
    <3>1. machines'[d] = [machines[d] EXCEPT !.home = Age[@], !.db = Age[@]]
      BY <1>2 DEF Load
    <3>2. CASE machines[d].home = 0
      <4>1. machines[d] = NoMachine
        BY <3>2, MachineTypes
      <4>2. machines'[d] = [NoMachine EXCEPT !.home = Age[0], !.db = Age[0]]
        BY <3>1, <4>1 DEF NoMachine
      <4> QED
        BY <2>3, <4>1, <4>2 DEF NoMachine
    <3>3. CASE machines[d].home # 0
      <4>1. /\ machines[d] \in [known : BOOLEAN, home : Objects, db : Objects]
            /\ machines[d].db # 0
        BY <3>3, MachineTypes
      <4>2. Age[machines[d].home] \in Objects' /\ Age[machines[d].db] \in Objects'
        <5>1. machines[d].home \in Kept /\ machines[d].db \in Kept
          BY <2>4, <3>3, <4>1
        <5>2. \A g \in Kept : Age[g] \in Objects'
          BY <2>2
        <5> QED
          BY <5>1, <5>2
      <4>3. machines'[d] = [known |-> machines[d].known, home |-> Age[machines[d].home],
                            db |-> Age[machines[d].db]]
        BY <3>1, <4>1
      <4> QED
        BY <4>1, <4>2, <4>3
    <3> QED
      BY <3>2, <3>3
  <2>7. ASSUME NEW t \in Threads
        PROVE  /\ ops'[t] \in OpSet'
               /\ ops'[t].call = ops[t].call /\ ops'[t].step = ops[t].step
               /\ ops'[t].dut = ops[t].dut
               /\ ops'[t].db = Age[ops[t].db] /\ ops'[t].obj = Age[ops[t].obj]
    <3>1. ops'[t] = [ops[t] EXCEPT !.db = Age[@], !.obj = Age[@]]
      BY <1>2 DEF Load
    <3>2. Age[ops[t].db] \in Objects' \cup {0} /\ Age[ops[t].obj] \in Objects' \cup {0}
      BY <2>2, <2>3, <2>5
    <3>3. ops[t] \in OpSet
      BY DEF TypeOK, OpSet
    <3> QED
      BY <3>1, <3>2, <3>3 DEF OpSet
  <2>8. TypeOK'
    <3>1. machines' \in [Duts -> {NoMachine} \cup [known : BOOLEAN, home : Objects', db : Objects']]
      BY <1>2, <2>6 DEF Load
    <3>2. ops' \in [Threads -> OpSet']
      BY <1>2, <2>7 DEF Load
    <3>3. tainted' \subseteq Objects'
      <4>1. tainted \cap Referenced \subseteq Kept
        <5>1. 0 \notin Objects
          BY LenProperties DEF TypeOK, Objects
        <5> QED
          BY <5>1 DEF TypeOK, Kept
      <4>2. tainted' = {Age[g] : g \in tainted \cap Referenced}
        BY <1>2 DEF Load
      <4>3. \A g \in tainted \cap Referenced : Age[g] \in Objects'
        BY <2>2, <4>1
      <4> QED
        BY <4>2, <4>3
    <3>4. heap' # <<>>
      BY <2>1, <2>2
    <3>5. /\ mpc' = "update" /\ todo' \subseteq Duts /\ keys' \subseteq Duts /\ local' \subseteq Duts
      BY <1>2 DEF Load, In
    <3>8. at' \in [dut : Duts, obj : Objects' \cup {0}]
      <4>1. at.obj = 0 /\ at' = at
        BY <1>2 DEF Load, AtIsThere
      <4> QED
        BY <4>1 DEF TypeOK
    <3>9. registered' \subseteq Duts
      <4>1. \A t \in Threads : ops[t].dut \in Duts
        BY DEF TypeOK
      <4>2. registered' = {ops[t].dut : t \in {u \in Threads : ops[u].call = "register"}}
        BY <1>2 DEF Load
      <4> QED
        BY <4>1, <4>2
    <3>6. file' = file /\ last_sync' = last_sync /\ runners' = runners /\ issued' = issued
      BY <1>2 DEF Load, gitlab
    <3>7. event' \in BOOLEAN /\ watched' = watched /\ events' = events
      BY <1>2 DEF Load, TypeOK
    <3> QED
      BY <2>1, <3>1, <3>2, <3>3, <3>4, <3>5, <3>6, <3>7, <3>8, <3>9 DEF TypeOK, OpSet
  <2>9. HomesHaveEntries'
    <3> SUFFICES ASSUME NEW d \in Duts, machines'[d].home # 0
                 PROVE  heap'[machines'[d].home][d] # Absent
      BY DEF HomesHaveEntries
    <3>1. machines'[d].home = Age[machines[d].home] /\ machines[d].home # 0
      BY <2>3, <2>6
    <3>2. heap'[machines'[d].home] = heap[machines[d].home]
      BY <2>1, <2>4, <3>1
    <3> QED
      BY <3>1, <3>2 DEF HomesHaveEntries
  <2>10. CallsAreFounded'
    <3>1. \A t \in Threads : ops[t].dut \in Duts
      BY DEF TypeOK
    <3>2. \A d \in Duts : machines[d].home # 0 => machines'[d].home # 0
      BY <2>2, <2>4, <2>6
    <3>3. \A t \in Threads :
            /\ ops'[t].call = ops[t].call /\ ops'[t].step = ops[t].step
            /\ ops'[t].dut = ops[t].dut /\ (ops[t].db # 0 => ops'[t].db # 0)
            /\ ops[t].obj # 0 => ops'[t].obj \notin {0, mars_db}
            /\ ops[t].obj # 0 => heap'[ops'[t].obj] = heap[ops[t].obj]
      BY <2>1, <2>2, <2>5, <2>7 DEF mars_db
    <3> QED
      BY <3>1, <3>2, <3>3 DEF CallsAreFounded, Founded
  <2>11. TodoIsThere' /\ AtIsThere'
    <3>1. at.obj = 0 /\ at' = at /\ mpc' = "update"
      BY <1>2 DEF Load, AtIsThere
    <3> QED
      BY <1>2, <2>1, <3>1 DEF TodoIsThere, AtIsThere, Load, In, Current, mars_db
  <2>12. RegistrationsAreNoted'
    <3>1. registered' = {ops[t].dut : t \in {u \in Threads : ops[u].call = "register"}}
      BY <1>2 DEF Load
    <3> QED
      BY <2>7, <3>1 DEF RegistrationsAreNoted
  <2>13. StaleIsDue'
    <3>1. /\ mpc' = "update" /\ todo' = In(file)
          /\ local' = {d \in Duts : machines[d].known} \ In(file)
      BY <1>2 DEF Load
    <3>2. ASSUME NEW d \in Duts PROVE Reached(d)'
      BY <2>6, <3>1 DEF Reached
    <3> QED
      BY <3>2 DEF StaleIsDue
  <2> QED
    BY <2>8, <2>9, <2>10, <2>11, <2>12, <2>13
<1> QED
  BY <1>1, <1>2

-----------------------------------------------------------------------------
(* The other steps: what they do to the objects.                            *)

\* No step but a reload or a restart drops an object, or removes an entry from one.
HeapGrows ==
  /\ heap' \in Seq(Databases) /\ heap' # <<>>
  /\ Objects \subseteq Objects' /\ tainted' \subseteq Objects'
  /\ \A g \in Objects, o \in Owners : heap[g][o] # Absent => heap'[g][o] # Absent

\* An object that is there, and the current one always is.
LEMMA ObjectTypes ==
  ASSUME TypeOK
  PROVE  /\ mars_db \in Objects /\ 0 \notin Objects
         /\ \A g \in Objects : heap[g] \in Databases
         /\ Current \in Databases
         /\ Len(heap) \in Nat \ {0}
<1>1. Len(heap) \in Nat
  BY LenProperties DEF TypeOK
<1>2. Len(heap) # 0
  BY EmptySeq DEF TypeOK
<1>3. mars_db \in Objects /\ 0 \notin Objects
  BY <1>1, <1>2 DEF Objects, mars_db
<1>4. \A g \in Objects : heap[g] \in Databases
  BY ElementOfSeq DEF TypeOK, Objects
<1> QED
  BY <1>1, <1>2, <1>3, <1>4 DEF Current

\* Writing an object to the file leaves the objects alone.
LEMMA UnchangedHeap ==
  ASSUME TypeOK, heap' = heap, tainted' \subseteq tainted
  PROVE  HeapGrows
BY DEF TypeOK, HeapGrows, Objects

\* The objects after an assignment to one entry.
Assigned(g, o, entry) == [heap EXCEPT ![g] = [heap[g] EXCEPT ![o] = entry]]

LEMMA AssignedHeap ==
  ASSUME TypeOK, NEW g \in Objects, NEW o \in Owners, NEW entry \in Entry
  PROVE  /\ Assigned(g, o, entry) \in Seq(Databases)
         /\ Len(Assigned(g, o, entry)) = Len(heap)
         /\ Assigned(g, o, entry)[g][o] = entry
         /\ \A k \in Objects, p \in Owners :
              heap[k][p] # Absent => Assigned(g, o, entry)[k][p] # Absent
<1> DEFINE db == [heap[g] EXCEPT ![o] = entry]
           h == [heap EXCEPT ![g] = db]
<1>1. heap[g] \in Databases
  BY ObjectTypes
<1>2. db \in Databases
  BY <1>1 DEF Databases
<1>3. h \in Seq(Databases) /\ Len(h) = Len(heap) /\ h[g] = db
      /\ \A k \in Objects : k # g => h[k] = heap[k]
  <2>1. heap \in Seq(Databases) /\ Objects = 1 .. Len(heap)
    BY DEF TypeOK, Objects
  <2> HIDE DEF db
  <2> QED
    BY <1>2, <2>1, ExceptSeq
<1>4. entry # Absent
  BY AbsentAssumption
<1> HIDE DEF h
<1>5. h[g][o] = entry
  BY <1>1, <1>3 DEF Databases
<1>6. \A k \in Objects, p \in Owners : heap[k][p] # Absent => h[k][p] # Absent
  BY <1>1, <1>3, <1>4 DEF Databases
<1> QED
  BY <1>3, <1>5, <1>6 DEF Assigned, h

\* An assignment keeps every entry, and makes the one it assigns.
LEMMA AssignStep ==
  ASSUME TypeOK, NEW g \in Objects, NEW o \in Owners, NEW entry \in Entry,
         Assign(g, o, entry)
  PROVE  HeapGrows /\ heap'[g][o] # Absent
<1>1. heap' = Assigned(g, o, entry)
  BY DEF Assign, Assigned
<1>2. /\ heap' \in Seq(Databases) /\ Len(heap') = Len(heap)
      /\ heap'[g][o] = entry
      /\ \A k \in Objects, p \in Owners : heap[k][p] # Absent => heap'[k][p] # Absent
  BY <1>1, AssignedHeap
<1>3. heap' # <<>> /\ Objects' = Objects
  BY <1>2, ObjectTypes DEF Objects
<1>4. entry # Absent
  BY AbsentAssumption
<1>5. tainted' \subseteq Objects
  BY DEF TypeOK, Assign
<1> QED
  BY <1>2, <1>3, <1>4, <1>5 DEF HeapGrows

\* A ConfigDUT in no database is an object as well.
LEMMA LooseIsAnObject ==
  ASSUME NEW d \in Duts, NEW entry \in Entry \cup {Absent}
  PROVE  Loose(d, entry) \in Databases /\ Loose(d, entry)[d] = entry
BY DEF Loose, Empty, Databases, Owners

\* The objects with one more behind them.
LEMMA AppendedHeap ==
  ASSUME TypeOK, NEW h \in Seq(Databases), Len(h) = Len(heap), NEW db \in Databases,
         \A k \in Objects, p \in Owners : heap[k][p] # Absent => h[k][p] # Absent,
         heap' = Append(h, db), tainted' \subseteq Objects
  PROVE  /\ HeapGrows
         /\ Len(heap) + 1 \in Objects' /\ heap'[Len(heap) + 1] = db
         /\ \A k \in Objects : heap'[k] = h[k]
<1>1. /\ heap' \in Seq(Databases) /\ Len(heap') = Len(h) + 1
      /\ heap'[Len(h) + 1] = db
      /\ \A k \in 1 .. Len(h) : heap'[k] = h[k]
  BY AppendProperties
<1>2. Len(heap) \in Nat \ {0}
  BY ObjectTypes
<1>3. Objects' = 1 .. Len(heap) + 1 /\ Objects = 1 .. Len(heap)
  BY <1>1 DEF Objects
<1>4. heap' # <<>>
  BY <1>1, <1>2
<1>5. \A k \in Objects : heap'[k] = h[k]
  BY <1>1, <1>3
<1>6. Objects \subseteq Objects' /\ Len(heap) + 1 \in Objects'
  BY <1>2, <1>3
<1> QED
  BY <1>1, <1>4, <1>5, <1>6 DEF HeapGrows

\* Where the ConfigDUT of a machine is once object g was stored in the database.
NewHome(h, g) == CASE h = g -> mars_db [] h = mars_db -> Len(heap) + 1 [] OTHER -> h

\* What StoreDut() does: the machine keeps a ConfigDUT, and the database has one.
LEMMA StoreStep ==
  ASSUME TypeOK, HomesHaveEntries, NEW d \in Duts, NEW g \in Objects, heap[g][d] # Absent,
         StoreDut(d, g)
  PROVE  /\ HeapGrows
         /\ machines' \in [Duts -> MachineSet']
         /\ \A c \in Duts : c # d => machines'[c] = machines[c]
         /\ machines'[d].known = machines[d].known
         /\ machines[d].home # 0 => machines'[d].home # 0
         /\ machines'[d].home # 0 => heap'[machines'[d].home][d] # Absent
         /\ g = mars_db => machines' = machines
         /\ g # mars_db => Len(heap) + 1 \in Objects' /\ heap'[Len(heap) + 1][d] = heap[mars_db][d]
<1>1. /\ mars_db \in Objects /\ 0 \notin Objects /\ Len(heap) \in Nat
      /\ heap[g] \in Databases /\ Current \in Databases /\ d \in Owners
  BY ObjectTypes DEF Owners
<1>2. CASE g = mars_db
  <2>1. UNCHANGED <<heap, tainted, machines>>
    BY <1>2 DEF StoreDut
  <2>2. HeapGrows /\ MachineSet' = MachineSet
    BY <2>1, UnchangedHeap DEF MachineSet, Objects
  <2> QED
    BY <1>2, <2>1, <2>2 DEF HomesHaveEntries, TypeOK, MachineSet
<1>3. CASE g # mars_db
  <2> DEFINE entry == heap[g][d]
             h == Assigned(mars_db, d, entry)
             db == Loose(d, Current[d])
  <2>1. entry \in Entry /\ Current[d] \in Entry \cup {Absent}
    BY <1>1 DEF Databases
  <2>2. db \in Databases /\ db[d] = Current[d]
    BY <2>1, LooseIsAnObject
  <2>3. /\ h \in Seq(Databases) /\ Len(h) = Len(heap)
        /\ h[mars_db][d] = entry
        /\ \A k \in Objects, p \in Owners : heap[k][p] # Absent => h[k][p] # Absent
    <3> HIDE DEF entry
    <3> QED
      BY <1>1, <2>1, AssignedHeap
  <2>4. heap' = Append(h, db) /\ tainted' \subseteq Objects
    BY <1>1, <1>3 DEF StoreDut, Assigned, TypeOK
  <2>5. /\ HeapGrows
        /\ Len(heap) + 1 \in Objects' /\ heap'[Len(heap) + 1] = db
        /\ \A k \in Objects : heap'[k] = h[k]
    <3> HIDE DEF h, db
    <3> QED
      BY <2>2, <2>3, <2>4, AppendedHeap
  <2>6. machines' = [machines EXCEPT ![d].home = NewHome(machines[d].home, g)]
    BY <1>3 DEF StoreDut, NewHome
  <2>7. /\ heap'[mars_db][d] # Absent /\ heap'[Len(heap) + 1][d] = Current[d]
        /\ \A k \in Objects : heap[k][d] # Absent => heap'[k][d] # Absent
    <3> HIDE DEF h, db
    <3> QED
      BY <1>1, <2>2, <2>3, <2>5
  <2> HIDE DEF entry, h, db
  <2>8. machines[d] \in MachineSet /\ Objects \subseteq Objects' /\ MachineSet \subseteq MachineSet'
    BY <2>5 DEF TypeOK, MachineSet, HeapGrows
  <2>9. CASE machines[d].home = 0
    <3>1. machines[d] = NoMachine /\ NewHome(0, g) = 0
      BY <1>1, <2>9, MachineTypes DEF NewHome, mars_db
    <3>2. [machines[d] EXCEPT !.home = 0] = machines[d]
      BY <3>1 DEF NoMachine
    <3>3. machines' = machines
      <4>1. machines' = [machines EXCEPT ![d] = [machines[d] EXCEPT !.home = 0]]
        BY <2>6, <2>9, <3>1
      <4> QED
        BY <3>2, <4>1 DEF TypeOK
    <3> QED
      BY <1>3, <2>5, <2>7, <2>8, <2>9, <3>3 DEF TypeOK, MachineSet, Current
  <2>10. CASE machines[d].home # 0
    <3>1. machines[d] \in [known : BOOLEAN, home : Objects, db : Objects]
      BY <2>10, MachineTypes
    <3>2. heap[machines[d].home][d] # Absent
      BY <2>10 DEF HomesHaveEntries
    <3> DEFINE home == NewHome(machines[d].home, g)
    <3>3. home \in Objects' /\ home # 0 /\ heap'[home][d] # Absent
      BY <1>1, <2>5, <2>7, <2>8, <2>10, <3>1, <3>2 DEF NewHome, mars_db, Current
    <3> HIDE DEF home
    <3>4. /\ machines'[d] = [machines[d] EXCEPT !.home = home]
          /\ \A c \in Duts : c # d => machines'[c] = machines[c]
      BY <2>6 DEF home, TypeOK
    <3>5. machines'[d].home = home /\ machines'[d].known = machines[d].known /\ machines'[d] \in MachineSet'
      BY <2>8, <3>1, <3>3, <3>4 DEF MachineSet
    <3>6. machines' \in [Duts -> MachineSet']
      <4>1. machines' = [c \in Duts |-> machines'[c]]
        BY <2>6 DEF TypeOK
      <4>2. \A c \in Duts : machines'[c] \in MachineSet'
        BY <2>8, <3>4, <3>5 DEF TypeOK, MachineSet
      <4> QED
        BY <4>1, <4>2
    <3> QED
      BY <1>3, <2>5, <2>7, <3>3, <3>4, <3>5, <3>6 DEF Current
  <2> QED
    BY <2>9, <2>10
<1> QED
  BY <1>2, <1>3

\* The entries that are assigned.
LEMMA WantedIsAnEntry ==
  ASSUME NEW entry \in Entry, NEW call \in {"ready", "retire", "activate"}
  PROVE  Wanted(call, entry) \in Entry
BY DEF Wanted, Entry

\* A registration begins with a ConfigDUT of its own.
LEMMA RegisterBegins ==
  ASSUME TypeOK, NEW t \in Threads, Register(t)
  PROVE  \E d \in Duts :
           /\ ops' = [ops EXCEPT ![t] = [call |-> "register", dut |-> d, step |-> "get", db |-> mars_db,
                                         obj |-> Len(heap) + 1, new |-> FALSE]]
           /\ HeapGrows /\ Len(heap) + 1 \in Objects' /\ heap'[Len(heap) + 1][d] # Absent
           /\ registered' = registered \cup {d}
<1>1. PICK d \in Duts :
        LET entry == IF Current[d] = Absent THEN NewEntry ELSE Current[d] IN
        /\ Begin(t, "register", d, "get", Len(heap) + 1)
        /\ heap' = Append(heap, Loose(d, entry))
        /\ registered' = registered \cup {d} /\ tainted' = tainted
  BY DEF Register
<1> DEFINE entry == IF Current[d] = Absent THEN NewEntry ELSE Current[d]
<1>2. NewEntry \in Entry
  BY BoundsAssumption DEF NewEntry, Entry, Invalid
<1>3. entry \in Entry
  BY <1>2, ObjectTypes DEF Databases, Owners
<1>4. heap' = Append(heap, Loose(d, entry)) /\ tainted' \subseteq Objects
  BY <1>1 DEF TypeOK
<1>5. entry # Absent
  BY <1>3, AbsentAssumption
<1> HIDE DEF entry
<1>6. Loose(d, entry) \in Databases /\ Loose(d, entry)[d] = entry
  BY <1>3, LooseIsAnObject
<1>7. HeapGrows /\ Len(heap) + 1 \in Objects' /\ heap'[Len(heap) + 1] = Loose(d, entry)
  BY <1>4, <1>6, AppendedHeap DEF TypeOK
<1> QED
  BY <1>1, <1>5, <1>6, <1>7 DEF Begin

\* What a registration, and the loop of sync_machines(), have in hand is there.
LEMMA InHand ==
  ASSUME MarsInv
  PROVE  /\ \A t \in Threads : ops[t].step \in {"get", "update", "store"} =>
              /\ ops[t].dut \in Duts /\ ops[t].dut \in registered
              /\ ops[t].obj \in Objects \ {mars_db} /\ ops[t].db \in Objects
              /\ heap[ops[t].obj][ops[t].dut] # Absent
         /\ mpc = "store" => at.dut \in Duts /\ at.obj \in Objects /\ heap[at.obj][at.dut] # Absent
BY DEF MarsInv, TypeOK, CallsAreFounded, Founded, RegistrationsAreNoted, AtIsThere

\* Every assignment is to an object that is there, of an entry: no call and no loop
\* writes to a database, or of a machine, that is gone.
LEMMA HeapStep ==
  ASSUME MarsInv, [Next]_vars
  PROVE  Load \/ Restart \/ HeapGrows
<1> USE DEF MarsInv
<1>1. \A d \in Duts : d \in Owners
  BY DEF Owners
<1>2. ASSUME NEW t \in Threads, UpdateSet(t) PROVE HeapGrows
  <2> DEFINE op == ops[t]
             g == machines[op.dut].home
  <2>1. op.dut \in Duts /\ op.step = "set"
    BY <1>2 DEF TypeOK, UpdateSet
  <2>2. op.call \in {"ready", "retire", "activate"} /\ g # 0
    BY <2>1 DEF CallsAreFounded, Founded
  <2>3. g \in Objects /\ heap[g][op.dut] # Absent
    BY <2>1, <2>2, MachineTypes DEF HomesHaveEntries
  <2>4. heap[g][op.dut] \in Entry
    BY <2>1, <2>3, <1>1, ObjectTypes DEF Databases
  <2>5. Wanted(op.call, heap[g][op.dut]) \in Entry
    BY <2>2, <2>4, WantedIsAnEntry
  <2>6. Assign(g, op.dut, Wanted(op.call, heap[g][op.dut]))
    BY <1>2 DEF UpdateSet
  <2> QED
    BY <1>1, <2>1, <2>3, <2>5, <2>6, AssignStep
<1>3. ASSUME NEW t \in Threads, RegisterStore(t) \/ Register(t) PROVE HeapGrows
  <2>1. CASE RegisterStore(t)
    BY <2>1, InHand, StoreStep DEF RegisterStore
  <2>2. CASE Register(t)
    BY <2>2, RegisterBegins
  <2> QED
    BY <1>3, <2>1, <2>2
<1>4. ASSUME NEW o \in Owners, Current[o] # Absent, NEW renewed \in 0 .. MaxTokens,
             Assign(mars_db, o, [Current[o] EXCEPT !.token = renewed])
      PROVE  HeapGrows
  <2>1. Current[o] \in Entry
    BY <1>4, ObjectTypes DEF Databases
  <2>2. [Current[o] EXCEPT !.token = renewed] \in Entry
    BY <2>1 DEF Entry
  <2> QED
    BY <1>4, <2>2, ObjectTypes, AssignStep
<1>5. CASE ExposeGateway
  <2>1. Gateway \in Owners
    BY DEF Owners
  <2>2. CASE Current[Gateway] = Absent
    BY <1>5, <2>2, UnchangedHeap DEF ExposeGateway
  <2>3. CASE Current[Gateway] # Absent
    BY <1>4, <1>5, <2>1, <2>3 DEF ExposeGateway
  <2> QED
    BY <2>2, <2>3
<1>6. CASE Expose
  <2>1. CASE todo = {}
    BY <1>6, <2>1, UnchangedHeap DEF Expose
  <2>2. CASE todo # {}
    <3>1. PICK d \in todo : ExposeOnForges(d)
      BY <1>6, <2>2 DEF Expose
    <3>2. d \in Owners /\ Current[d] # Absent
      BY <1>1, <1>6, <3>1 DEF TypeOK, TodoIsThere, Expose, In
    <3>3. CASE UNCHANGED <<heap, tainted>>
      BY <3>3, UnchangedHeap
    <3>4. CASE \E renewed \in 0 .. MaxTokens : Assign(mars_db, d, [Current[d] EXCEPT !.token = renewed])
      BY <1>4, <3>2, <3>4
    <3> QED
      BY <3>1, <3>3, <3>4 DEF ExposeOnForges
  <2> QED
    BY <2>1, <2>2
<1>7. CASE RegisterUnanswered
  <2>1. PICK o \in Owners : /\ Current[o] # Absent
                            /\ Assign(mars_db, o, [Current[o] EXCEPT !.token = Invalid])
    BY <1>7 DEF RegisterUnanswered, Owners, TypeOK
  <2>2. Invalid \in 0 .. MaxTokens
    BY BoundsAssumption DEF Invalid
  <2> QED
    BY <1>4, <2>1, <2>2
<1>8. CASE StoreMachine
  BY <1>8, InHand, StoreStep DEF StoreMachine
<1>9. ASSUME NEW t \in Threads,
              \/ UpdateCheck(t) \/ UpdateRaises(t) \/ RegisterRaises(t) \/ UpdateSave(t) \/ Write(t)
              \/ Written(t) \/ RegisterGet(t) \/ RegisterUpdate(t) \/ RegisterSave(t)
       PROVE  HeapGrows
  <2>1. heap' = heap /\ tainted' \subseteq tainted
    BY <1>9 DEF UpdateCheck, UpdateRaises, RegisterRaises, UpdateSave, Write, Written, ResetTaint,
       RegisterGet, RegisterUpdate, RegisterSave
  <2> QED
    BY <2>1, UnchangedHeap
<1>10. CASE \/ LoopRaises \/ UpdateMachine \/ RemoveMachine \/ SyncSave \/ SyncWrite \/ SyncWritten
            \/ SyncRaises \/ Poll \/ Edit \/ Revoke \/ UNCHANGED vars
  <2>1. heap' = heap /\ tainted' \subseteq tainted
    BY <1>10 DEF LoopRaises, SyncRaises, UpdateMachine, RemoveMachine, SyncSave, SyncWrite, SyncWritten,
       ResetTaint, Poll, Edit, Revoke, vars
  <2> QED
    BY <2>1, UnchangedHeap
<1> QED
  BY <1>2, <1>3, <1>5, <1>6, <1>7, <1>8, <1>9, <1>10 DEF Next, Sync, Call

-----------------------------------------------------------------------------
(* The other steps: types.                                                  *)

RunnerTypes == /\ runners \subseteq Owners \X (1 .. MaxTokens) /\ issued \in [Owners -> 0 .. MaxTokens]
               /\ events \in 0 .. MaxEvents
FileTypes == file \in Databases \cup {Corrupt} /\ event \in BOOLEAN /\ watched \in BOOLEAN
ThreadTypes == /\ mpc \in {"idle", "update", "store", "remove", "gateway", "expose", "config", "write",
                          "taint"}
               /\ todo \subseteq Duts /\ keys \subseteq Duts /\ local \subseteq Duts
               /\ last_sync \in BOOLEAN /\ registered \subseteq Duts
AtType == at \in [dut : Duts, obj : Objects \cup {0}]

\* What need not happen is counted up to the bound.
LEMMA HappensTypes ==
  ASSUME TypeOK, Happens
  PROVE  events' \in 0 .. MaxEvents
BY BoundsAssumption DEF TypeOK, Happens

\* What GitLab answers.
LEMMA VerifyTypes ==
  ASSUME TypeOK, NEW o \in Owners, NEW tok, NEW renewed \in 0 .. MaxTokens,
         VerifyOrRenewToken(o, tok, renewed) \/ Remove(o, tok, renewed)
  PROVE  RunnerTypes'
<1>1. RunnerTypes
  BY DEF TypeOK, RunnerTypes
<1>2. CASE UNCHANGED <<gitlab, events>>
  BY <1>1, <1>2 DEF RunnerTypes, gitlab
<1>3. ASSUME NEW agreed \in BOOLEAN, UnregisterRunner(o, tok, agreed) PROVE RunnerTypes'
  BY <1>1, <1>3, HappensTypes DEF RunnerTypes, UnregisterRunner
<1>4. CASE RegisterRunner(o, renewed)
  <2>1. CASE /\ renewed = issued[o] + 1 /\ renewed <= MaxTokens
             /\ issued' = [issued EXCEPT ![o] = renewed] /\ runners' = runners \cup {<<o, renewed>>}
             /\ events' = events
    <3>1. renewed \in 1 .. MaxTokens
      BY <1>1, <2>1, BoundsAssumption DEF RunnerTypes
    <3> QED
      BY <1>1, <2>1, <3>1 DEF RunnerTypes
  <2>2. CASE UNCHANGED gitlab /\ IF issued[o] = MaxTokens THEN events' = events ELSE Happens
    BY <1>1, <2>2, HappensTypes DEF RunnerTypes, gitlab
  <2> QED
    BY <1>4, <2>1, <2>2 DEF RegisterRunner
<1>5. CASE VerifyRunnerToken(o, tok)
  BY <1>1, <1>5, HappensTypes DEF RunnerTypes, VerifyRunnerToken, gitlab
<1> QED
  BY <1>2, <1>3, <1>4, <1>5 DEF VerifyOrRenewToken, Remove

\* GitLab's runners have owners and tokens that were issued.
LEMMA RunnerTypesStep ==
  ASSUME TypeOK, [Next]_vars
  PROVE  RunnerTypes'
<1>1. CASE UNCHANGED <<gitlab, events>>
  BY <1>1 DEF TypeOK, RunnerTypes, gitlab
<1>2. CASE Happens /\ UNCHANGED gitlab
  BY <1>2, HappensTypes DEF TypeOK, RunnerTypes, gitlab
<1>3. CASE ExposeGateway
  BY <1>1, <1>3, VerifyTypes DEF ExposeGateway, Owners
<1>4. CASE Expose
  BY <1>1, <1>4, VerifyTypes DEF Expose, ExposeOnForges, Owners, TypeOK
<1>5. CASE Revoke
  BY <1>5, HappensTypes DEF TypeOK, RunnerTypes, Revoke
<1>6. CASE RegisterUnanswered
  <2>1. PICK o \in Owners :
          /\ issued[o] < MaxTokens
          /\ issued' = [issued EXCEPT ![o] = @ + 1] /\ runners' = runners \cup {<<o, issued[o] + 1>>}
          /\ Happens
    BY <1>6 DEF RegisterUnanswered, Owners, TypeOK
  <2>2. issued[o] \in 0 .. MaxTokens
    BY DEF TypeOK
  <2>3. issued[o] + 1 \in 1 .. MaxTokens /\ issued[o] + 1 \in 0 .. MaxTokens
    BY <2>1, <2>2, BoundsAssumption
  <2> QED
    BY <2>1, <2>3, HappensTypes DEF TypeOK, RunnerTypes
<1>7. CASE \/ Load \/ LoopRaises \/ UpdateMachine \/ StoreMachine \/ RemoveMachine \/ SyncSave
           \/ SyncWrite \/ SyncWritten \/ Poll \/ UNCHANGED vars
  <2>1. UNCHANGED <<gitlab, events>>
    BY <1>7 DEF Load, LoopRaises, UpdateMachine, StoreMachine, RemoveMachine, SyncSave, SyncWrite,
       SyncWritten, Poll, vars
  <2> QED
    BY <1>1, <2>1
<1>8. CASE SyncRaises \/ Edit \/ Restart
  BY <1>2, <1>8 DEF SyncRaises, Edit, Restart
<1>9. ASSUME NEW t \in Threads, UpdateCheck(t) \/ Register(t) \/ UpdateRaises(t) \/ RegisterRaises(t)
      PROVE  RunnerTypes'
  BY <1>2, <1>9 DEF UpdateCheck, Register, UpdateRaises, RegisterRaises, Begin
<1>10. ASSUME NEW t \in Threads, Call(t) PROVE RunnerTypes'
  BY <1>1, <1>10 DEF Call, UpdateSet, UpdateSave, Write, Written, RegisterGet, RegisterUpdate,
     RegisterStore, RegisterSave
<1> QED
  BY <1>3, <1>4, <1>5, <1>6, <1>7, <1>8, <1>9, <1>10 DEF Next, Sync

\* What is written to the file is a database, or spoiled.
LEMMA FileTypesStep ==
  ASSUME MarsInv, [Next]_vars
  PROVE  FileTypes'
<1> USE DEF MarsInv
<1>1. CASE UNCHANGED <<file, watched, event>>
  BY <1>1 DEF TypeOK, FileTypes
<1>2. CASE Truncate /\ UNCHANGED watched
  BY <1>2 DEF TypeOK, FileTypes, Truncate, Empty, Databases
<1>3. ASSUME NEW g \in Objects, Dump(g), UNCHANGED watched PROVE FileTypes'
  <2>1. heap[g] \in Databases
    BY ObjectTypes
  <2> QED
    BY <1>3, <2>1 DEF TypeOK, FileTypes, Dump
<1>4. CASE Load \/ Restart
  BY <1>4 DEF TypeOK, FileTypes, Load, Restart
<1>5. CASE Edit
  <2>1. PICK d \in Duts, entry \in {Absent, NewEntry}, replaced \in BOOLEAN :
          /\ file # Corrupt /\ file' = [file EXCEPT ![d] = entry]
          /\ event' = (event \/ watched) /\ watched' = (watched /\ ~ replaced)
    BY <1>5 DEF Edit
  <2>2. entry \in Entry \cup {Absent}
    <3>1. NewEntry \in Entry
      BY BoundsAssumption DEF NewEntry, Entry, Invalid
    <3> QED
      BY <3>1
  <2>3. file \in Databases
    BY <2>1 DEF TypeOK
  <2>4. file' \in Databases
    BY <2>1, <2>2, <2>3 DEF Databases
  <2> QED
    BY <2>1, <2>4 DEF TypeOK, FileTypes
<1>6. CASE SyncSave
  BY <1>1, <1>2, <1>6 DEF SyncSave
<1>7. CASE SyncWrite
  BY <1>3, <1>7, ObjectTypes DEF SyncWrite
<1>8. CASE \/ ExposeGateway \/ Expose \/ LoopRaises \/ UpdateMachine \/ StoreMachine \/ RemoveMachine
           \/ SyncRaises \/ RegisterUnanswered \/ SyncWritten \/ Poll \/ Revoke \/ UNCHANGED vars
  <2>1. UNCHANGED <<file, watched, event>>
    BY <1>8 DEF ExposeGateway, Expose, LoopRaises, SyncRaises, RegisterUnanswered, Raise, UpdateMachine,
       StoreMachine, RemoveMachine, SyncWritten, Poll, Revoke, vars
  <2> QED
    BY <1>1, <2>1
<1>9. ASSUME NEW t \in Threads,
             UpdateCheck(t) \/ Register(t) \/ UpdateRaises(t) \/ RegisterRaises(t) \/ Call(t)
      PROVE  FileTypes'
  <2>1. CASE Write(t)
    <3>1. ops[t].db \in Objects
      BY <2>1 DEF TypeOK, CallsAreFounded, Founded, Write
    <3> QED
      BY <1>3, <2>1, <3>1 DEF Write
  <2>2. CASE UpdateSave(t)
    BY <1>2, <2>2 DEF UpdateSave
  <2>3. CASE RegisterSave(t)
    BY <1>1, <1>2, <2>3 DEF RegisterSave
  <2>4. CASE \/ UpdateCheck(t) \/ Register(t) \/ UpdateRaises(t) \/ RegisterRaises(t) \/ UpdateSet(t)
             \/ Written(t) \/ RegisterGet(t) \/ RegisterUpdate(t) \/ RegisterStore(t)
    BY <1>1, <2>4 DEF UpdateCheck, Register, UpdateRaises, RegisterRaises, UpdateSet, Written,
       RegisterGet, RegisterUpdate, RegisterStore
  <2> QED
    BY <1>9, <2>1, <2>2, <2>3, <2>4 DEF Call
<1> QED
  BY <1>4, <1>5, <1>6, <1>7, <1>8, <1>9 DEF Next, Sync

\* The Mars thread goes through sets of machines.
LEMMA ThreadTypesStep ==
  ASSUME TypeOK, [Next]_vars
  PROVE  ThreadTypes'
<1>1. CASE UNCHANGED <<mpc, todo, keys, local, last_sync, registered>>
  BY <1>1 DEF TypeOK, ThreadTypes
<1>2. CASE Load
  <2>1. CASE file = Corrupt
    BY <1>1, <1>2, <2>1 DEF Load, thread
  <2>2. CASE file # Corrupt
    <3>1. \A t \in Threads : ops[t].dut \in Duts
      BY DEF TypeOK
    <3>2. registered' = {ops[t].dut : t \in {u \in Threads : ops[u].call = "register"}}
      BY <1>2, <2>2 DEF Load
    <3>3. registered' \subseteq Duts
      BY <3>1, <3>2
    <3> QED
      BY <1>2, <2>2, <3>3 DEF TypeOK, ThreadTypes, Load, In
  <2> QED
    BY <2>1, <2>2
<1>3. CASE LoopRaises \/ SyncRaises \/ RegisterUnanswered
  BY <1>3 DEF TypeOK, ThreadTypes, LoopRaises, SyncRaises, RegisterUnanswered, Raise
<1>4. CASE UpdateMachine \/ RemoveMachine
  BY <1>4 DEF TypeOK, ThreadTypes, UpdateMachine, RemoveMachine, Goto
<1>5. CASE StoreMachine
  BY <1>5 DEF TypeOK, ThreadTypes, StoreMachine
<1>6. CASE ExposeGateway
  BY <1>6 DEF TypeOK, ThreadTypes, ExposeGateway, In
<1>7. CASE Expose
  BY <1>7 DEF TypeOK, ThreadTypes, Expose, Goto
<1>8. CASE SyncSave \/ SyncWrite \/ SyncWritten
  BY <1>8 DEF TypeOK, ThreadTypes, SyncSave, SyncWrite, SyncWritten, Goto, Done
<1>9. CASE Restart
  BY <1>9 DEF ThreadTypes, Restart
<1>10. CASE Poll \/ Edit \/ Revoke \/ UNCHANGED vars
  BY <1>1, <1>10 DEF Poll, Edit, Revoke, vars, thread
<1>11. ASSUME NEW t \in Threads, Register(t) PROVE ThreadTypes'
  BY <1>11 DEF TypeOK, ThreadTypes, Register, thread
<1>12. ASSUME NEW t \in Threads, UpdateCheck(t) \/ UpdateRaises(t) \/ RegisterRaises(t) \/ Call(t)
      PROVE  ThreadTypes'
  BY <1>1, <1>12 DEF UpdateCheck, UpdateRaises, RegisterRaises, Call, UpdateSet, UpdateSave, Write,
     Written, RegisterGet, RegisterUpdate, RegisterStore, RegisterSave, thread
<1> QED
  BY <1>2, <1>3, <1>4, <1>5, <1>6, <1>7, <1>8, <1>9, <1>10, <1>11, <1>12 DEF Next, Sync

-----------------------------------------------------------------------------
(* The other steps: what they do to a machine, and to a call.               *)

\* A machine keeps a ConfigDUT as long as a call uses it; and a step that leaves it on a
\* replaced database leaves it alone, and for the loops to come to: if it does not register.
Kempt(d) ==
  /\ machines'[d] \in MachineSet'
  /\ machines'[d].home # 0 => heap'[machines'[d].home][d] # Absent
  /\ machines[d].home # 0 /\ (\E t \in Threads : ops[t].dut = d) => machines'[d].home # 0
  /\ d \notin registered /\ machines'[d].known /\ machines'[d].home # mars_db =>
       /\ machines'[d] = machines[d]
       /\ mpc \in {"update", "remove"} /\ mpc' # "idle" => d \notin todo \ todo'

LEMMA MachineStep ==
  ASSUME MarsInv, [Next]_vars, HeapGrows, ~ Load, ~ Restart
  PROVE  machines' \in [Duts -> MachineSet'] /\ \A d \in Duts : Kempt(d)
<1> USE DEF MarsInv
<1> DEFINE Goal == machines' \in [Duts -> MachineSet'] /\ \A d \in Duts : Kempt(d)
<1>1. /\ machines \in [Duts -> MachineSet] /\ MachineSet \subseteq MachineSet'
      /\ Objects \subseteq Objects' /\ mars_db \in Objects /\ 0 \notin Objects /\ mars_db # 0
  BY ObjectTypes DEF TypeOK, MachineSet, HeapGrows
<1>2. ASSUME NEW d \in Duts, machines'[d] = machines[d],
             \/ mpc \notin {"update", "remove"} \/ mpc' = "idle" \/ d \notin todo \ todo'
             \/ ~ machines[d].known \/ machines[d].home = mars_db
      PROVE  Kempt(d)
  <2>1. machines'[d].home # 0 => heap'[machines'[d].home][d] # Absent
    BY <1>2, MachineTypes DEF HomesHaveEntries, HeapGrows, Owners
  <2> QED
    BY <1>1, <1>2, <2>1 DEF Kempt
<1>3. CASE /\ machines' = machines
           /\ mpc \notin {"update", "remove"} \/ mpc' = "idle" \/ todo' = todo \/ todo = {}
  BY <1>1, <1>2, <1>3
<1>4. ASSUME NEW d \in Duts, NEW m \in MachineSet', machines' = [machines EXCEPT ![d] = m],
             machines[d].home # 0 /\ (\E t \in Threads : ops[t].dut = d) => m.home # 0,
             m.home # 0 => heap'[m.home][d] # Absent,
             d \in registered \/ ~ m.known \/ m.home = mars_db,
             \A c \in Duts : c # d => mpc \notin {"update", "remove"} \/ c \notin todo \ todo'
      PROVE  Goal
  <2>1. machines'[d] = m /\ \A c \in Duts : c # d => machines'[c] = machines[c]
    BY <1>1, <1>4
  <2>2. Kempt(d)
    BY <1>4, <2>1 DEF Kempt
  <2>3. \A c \in Duts : c # d => Kempt(c)
    BY <1>2, <1>4, <2>1
  <2> QED
    BY <1>1, <1>4, <2>2, <2>3
<1>5. CASE UpdateMachine
  <2>1. CASE todo = {}
    BY <1>3, <1>5, <2>1 DEF UpdateMachine
  <2>2. CASE todo # {}
    <3> DEFINE m == [known |-> TRUE, home |-> mars_db, db |-> mars_db]
    <3>1. PICK d \in todo : machines' = [machines EXCEPT ![d] = m] /\ todo' = todo \ {d}
      BY <1>5, <2>2 DEF UpdateMachine
    <3>2. d \in Duts /\ heap'[mars_db][d] # Absent
      BY <1>5 DEF TypeOK, TodoIsThere, UpdateMachine, In, Current
    <3>3. m \in MachineSet' /\ m.home = mars_db
      BY <1>1 DEF MachineSet
    <3> HIDE DEF m
    <3> QED
      BY <1>1, <1>4, <3>1, <3>2, <3>3
  <2> QED
    BY <2>1, <2>2
<1>6. CASE RemoveMachine
  <2>1. CASE todo = {}
    BY <1>3, <1>6, <2>1 DEF RemoveMachine
  <2>2. CASE todo # {}
    <3>1. PICK d \in todo : /\ machines' = [machines EXCEPT ![d] = IF \E t \in Threads : ops[t].dut = d
                                                   THEN [@ EXCEPT !.known = FALSE] ELSE NoMachine]
                            /\ todo' = todo \ {d}
      BY <1>6, <2>2 DEF RemoveMachine, Goto
    <3> DEFINE m == IF \E t \in Threads : ops[t].dut = d
                    THEN [machines[d] EXCEPT !.known = FALSE] ELSE NoMachine
    <3>2. d \in Duts /\ machines' = [machines EXCEPT ![d] = m]
      BY <1>1, <3>1 DEF TypeOK
    <3>3. NoMachine \in MachineSet /\ NoMachine.known = FALSE /\ NoMachine.home = 0
      BY DEF MachineSet, NoMachine
    <3>4. /\ [machines[d] EXCEPT !.known = FALSE] \in MachineSet
          /\ [machines[d] EXCEPT !.known = FALSE].home = machines[d].home
          /\ ~ [machines[d] EXCEPT !.known = FALSE].known
      <4>1. CASE machines[d] = NoMachine
        <5>1. machines[d] \in [known : BOOLEAN, home : {0}, db : {0}] /\ machines[d].known = FALSE
          BY <4>1 DEF NoMachine
        <5>2. [machines[d] EXCEPT !.known = FALSE] = machines[d]
          BY <5>1
        <5> QED
          BY <3>3, <4>1, <5>2
      <4>2. CASE machines[d] \in [known : BOOLEAN, home : Objects, db : Objects]
        BY <4>2 DEF MachineSet
      <4> QED
        BY <1>1, <3>2, <4>1, <4>2 DEF MachineSet
    <3>5. m \in MachineSet' /\ ~ m.known /\ m.home \in {0, machines[d].home}
          /\ ((\E t \in Threads : ops[t].dut = d) => m.home = machines[d].home)
      BY <1>1, <3>3, <3>4
    <3>6. m.home # 0 => heap'[m.home][d] # Absent
      <4>1. heap' = heap
        BY <1>6 DEF RemoveMachine
      <4> QED
        BY <3>2, <3>5, <4>1 DEF HomesHaveEntries
    <3> HIDE DEF m
    <3> QED
      BY <1>4, <3>1, <3>2, <3>5, <3>6
  <2> QED
    BY <2>1, <2>2
<1>7. ASSUME NEW t \in Threads, ops[t].step = "update", heap' = heap, todo' = todo,
             machines' = [machines EXCEPT ![ops[t].dut] = UseDut(ops[t], @)]
      PROVE  Goal
  <2> DEFINE d == ops[t].dut
             m == UseDut(ops[t], machines[d])
  <2>1. /\ d \in Duts /\ d \in registered
        /\ ops[t].obj \in Objects /\ ops[t].db \in Objects /\ heap[ops[t].obj][d] # Absent
    BY <1>7, InHand
  <2>2. m \in MachineSet' /\ m.home = ops[t].obj
    <3>1. (ops[t].new \/ machines[d].known) \in BOOLEAN
      BY <2>1
    <3> QED
      BY <1>1, <2>1, <3>1 DEF UseDut, MachineSet
  <2>3. machines' = [machines EXCEPT ![d] = m]
    BY <1>1, <1>7, <2>1
  <2> HIDE DEF d, m
  <2> QED
    BY <1>1, <1>4, <1>7, <2>1, <2>2, <2>3
<1>8. ASSUME NEW d \in Duts, NEW g \in Objects, heap[g][d] # Absent, StoreDut(d, g),
             g = mars_db \/ d \in registered, todo' = todo
      PROVE  Goal
  <2>1. /\ machines' \in [Duts -> MachineSet']
        /\ \A c \in Duts : c # d => machines'[c] = machines[c]
        /\ machines[d].home # 0 => machines'[d].home # 0
        /\ machines'[d].home # 0 => heap'[machines'[d].home][d] # Absent
        /\ g = mars_db => machines' = machines
    BY <1>8, StoreStep
  <2>2. CASE g = mars_db
    BY <1>3, <1>8, <2>1, <2>2
  <2>3. CASE g # mars_db
    <3>1. Kempt(d)
      BY <1>8, <2>1, <2>3 DEF Kempt
    <3>2. \A c \in Duts : c # d => Kempt(c)
      BY <1>2, <1>8, <2>1
    <3> QED
      BY <2>1, <3>1, <3>2
  <2> QED
    BY <2>2, <2>3
<1>9. CASE StoreMachine
  <2>1. /\ mpc = "store" /\ StoreDut(at.dut, at.obj) /\ todo' = todo
    BY <1>9 DEF StoreMachine
  <2>2. /\ at.dut \in Duts /\ at.obj \in Objects /\ heap[at.obj][at.dut] # Absent
        /\ at.obj = mars_db \/ at.dut \in registered
    BY <2>1, InHand, <1>1 DEF AtIsThere
  <2> QED
    BY <1>8, <2>1, <2>2
<1>10. CASE \/ ExposeGateway \/ Expose \/ SyncSave \/ SyncWrite \/ SyncWritten
            \/ Poll \/ Edit \/ Revoke \/ UNCHANGED vars
  <2>1. machines' = machines /\ (mpc \notin {"update", "remove"} \/ todo' = todo)
    BY <1>10 DEF ExposeGateway, Expose, SyncSave, SyncWrite, SyncWritten, Poll, Edit, Revoke, vars, thread
  <2> QED
    BY <1>3, <2>1
<1>11. CASE LoopRaises \/ SyncRaises \/ RegisterUnanswered
  <2>1. machines' = machines /\ mpc' = "idle"
    BY <1>11 DEF LoopRaises, SyncRaises, RegisterUnanswered, Raise
  <2> QED
    BY <1>3, <2>1
<1>12. ASSUME NEW t \in Threads, RegisterStore(t) PROVE Goal
  <2>1. ops[t].step = "store" /\ StoreDut(ops[t].dut, ops[t].obj) /\ todo' = todo
    BY <1>12 DEF RegisterStore
  <2> QED
    BY <1>8, <2>1, InHand
<1>13. ASSUME NEW t \in Threads, RegisterUpdate(t) \/ RegisterRaises(t) PROVE Goal
  <2>1. ops[t].step = "update" /\ heap' = heap /\ todo' = todo
    BY <1>13 DEF RegisterUpdate, RegisterRaises, thread
  <2>2. machines' \in {machines, [machines EXCEPT ![ops[t].dut] = UseDut(ops[t], @)]}
    BY <1>13 DEF RegisterUpdate, RegisterRaises
  <2> QED
    BY <1>3, <1>7, <2>1, <2>2
<1>14. ASSUME NEW t \in Threads,
              \/ UpdateCheck(t) \/ Register(t) \/ UpdateRaises(t) \/ UpdateSet(t) \/ RegisterGet(t)
              \/ UpdateSave(t) \/ Write(t) \/ Written(t) \/ RegisterSave(t)
       PROVE  Goal
  <2>1. machines' = machines /\ todo' = todo
    BY <1>14 DEF UpdateCheck, Register, UpdateRaises, UpdateSet, UpdateSave, Write, Written, RegisterGet,
       RegisterSave, thread
  <2> QED
    BY <1>3, <2>1
<1>15. ASSUME NEW t \in Threads,
              UpdateCheck(t) \/ Register(t) \/ UpdateRaises(t) \/ RegisterRaises(t) \/ Call(t)
       PROVE  Goal
  BY <1>12, <1>13, <1>14, <1>15 DEF Call
<1> QED
  BY <1>5, <1>6, <1>9, <1>10, <1>11, <1>15 DEF Next, Sync

\* A call under way is at a statement that its object, or its machine, is there for.
LEMMA OpStep ==
  ASSUME MarsInv, [Next]_vars, HeapGrows, ~ Load, ~ Restart
  PROVE  ops' \in [Threads -> OpSet'] /\ CallsAreFounded' /\ RegistrationsAreNoted'
<1> USE DEF MarsInv
<1> DEFINE Good(op) == /\ op \in OpSet' /\ Founded(op, machines', heap')
                       /\ op.call = "register" => op.dut \in registered'
           Goal == ops' \in [Threads -> OpSet'] /\ CallsAreFounded' /\ RegistrationsAreNoted'
<1>1. /\ ops \in [Threads -> OpSet] /\ OpSet \subseteq OpSet'
      /\ Objects \subseteq Objects' /\ mars_db \in Objects /\ 0 \notin Objects /\ mars_db # 0
  BY ObjectTypes DEF TypeOK, OpSet, HeapGrows
<1>2. registered \subseteq registered'
  BY DEF Next, Sync, Call, UpdateCheck, Register, UpdateRaises, RegisterRaises, UpdateSet, UpdateSave,
     Write, Written, RegisterGet, RegisterUpdate, RegisterStore, RegisterSave, LoopRaises, UpdateMachine,
     StoreMachine, RemoveMachine, ExposeGateway, Expose, SyncSave, SyncWrite, SyncWritten, SyncRaises,
     RegisterUnanswered, Raise, Poll, Edit, Revoke, vars
<1>3. ASSUME NEW t \in Threads PROVE Good(ops[t])
  <2>1. ops[t] \in OpSet /\ ops[t].dut \in Duts /\ Founded(ops[t], machines, heap)
    BY <1>1 DEF OpSet, CallsAreFounded
  <2>2. machines[ops[t].dut].home # 0 => machines'[ops[t].dut].home # 0
    BY <2>1, MachineStep DEF Kempt
  <2>3. ops[t].obj # 0 /\ heap[ops[t].obj][ops[t].dut] # Absent => heap'[ops[t].obj][ops[t].dut] # Absent
    BY <2>1 DEF OpSet, HeapGrows, Owners
  <2>4. Founded(ops[t], machines', heap')
    BY <2>1, <2>2, <2>3 DEF Founded
  <2> QED
    BY <1>1, <1>2, <2>1, <2>4 DEF RegistrationsAreNoted
<1>4. CASE UNCHANGED ops
  <2>1. \A t \in Threads : Good(ops'[t])
    BY <1>3, <1>4
  <2> QED
    BY <1>1, <1>4, <2>1 DEF CallsAreFounded, RegistrationsAreNoted
<1>5. ASSUME NEW t \in Threads, NEW op, Good(op), ops' = [ops EXCEPT ![t] = op]
      PROVE  Goal
  <2>1. \A u \in Threads : Good(ops'[u])
    BY <1>1, <1>3, <1>5
  <2> QED
    BY <1>1, <1>5, <2>1 DEF CallsAreFounded, RegistrationsAreNoted
<1>6. Good(Idle)
  <2>1. Idle \in OpSet'
    BY DutsAssumption DEF OpSet, Idle
  <2> QED
    BY <2>1 DEF Idle, Founded
<1>7. ASSUME NEW t \in Threads, UpdateRaises(t) \/ RegisterRaises(t) \/ Written(t) PROVE Goal
  <2>1. ops' = [ops EXCEPT ![t] = Idle]
    BY <1>7 DEF UpdateRaises, RegisterRaises, Written
  <2> QED
    BY <1>5, <1>6, <2>1
<1>8. ASSUME NEW t \in Threads, UpdateCheck(t) PROVE Goal
  <2>1. PICK d \in Duts, call \in {"ready", "retire", "activate"} :
          /\ machines[d].known /\ Begin(t, call, d, "set", 0)
    BY <1>8 DEF UpdateCheck
  <2> DEFINE op == [call |-> call, dut |-> d, step |-> "set", db |-> mars_db, obj |-> 0, new |-> FALSE]
  <2>2. machines' = machines /\ machines[d].home # 0
    BY <1>8, <2>1, MachineTypes DEF UpdateCheck
  <2>3. op \in OpSet'
    BY <1>1 DEF OpSet
  <2>4. Good(op)
    BY <2>2, <2>3 DEF Founded
  <2>5. ops' = [ops EXCEPT ![t] = op]
    BY <2>1 DEF Begin
  <2> HIDE DEF op
  <2> QED
    BY <1>5, <2>4, <2>5
<1>9. ASSUME NEW t \in Threads, Register(t) PROVE Goal
  <2>1. PICK d \in Duts :
           /\ ops' = [ops EXCEPT ![t] = [call |-> "register", dut |-> d, step |-> "get", db |-> mars_db,
                                         obj |-> Len(heap) + 1, new |-> FALSE]]
           /\ Len(heap) + 1 \in Objects' /\ heap'[Len(heap) + 1][d] # Absent
           /\ registered' = registered \cup {d}
    BY <1>9, RegisterBegins
  <2> DEFINE op == [call |-> "register", dut |-> d, step |-> "get", db |-> mars_db,
                    obj |-> Len(heap) + 1, new |-> FALSE]
  <2>2. op \in OpSet'
    BY <1>1, <2>1 DEF OpSet
  <2>3. Len(heap) + 1 \notin {0, mars_db}
    BY ObjectTypes DEF mars_db
  <2>4. Good(op)
    BY <1>1, <2>1, <2>2, <2>3 DEF Founded
  <2>5. ops' = [ops EXCEPT ![t] = op]
    BY <2>1
  <2> HIDE DEF op
  <2> QED
    BY <1>5, <2>4, <2>5
<1>10. ASSUME NEW t \in Threads, NEW op \in OpSet', op.call = ops[t].call, op.dut = ops[t].dut,
              Founded(op, machines', heap'), ops' = [ops EXCEPT ![t] = op]
       PROVE  Goal
  BY <1>3, <1>5, <1>10
<1>11. ASSUME NEW t \in Threads PROVE ops[t] \in OpSet /\ ops[t] \in OpSet'
  BY <1>1
<1>12. ASSUME NEW t \in Threads, UpdateSet(t) PROVE Goal
  <2> DEFINE op == [ops[t] EXCEPT !.step = "save"]
  <2>1. op \in OpSet' /\ op.call = ops[t].call /\ op.dut = ops[t].dut /\ op.step = "save"
    BY <1>11 DEF OpSet
  <2>2. Founded(op, machines', heap')
    BY <1>3, <1>12, <2>1 DEF Founded, UpdateSet
  <2>3. ops' = [ops EXCEPT ![t] = op]
    BY <1>12 DEF UpdateSet
  <2> HIDE DEF op
  <2> QED
    BY <1>10, <2>1, <2>2, <2>3
<1>13. ASSUME NEW t \in Threads, UpdateSave(t) PROVE Goal
  <2> DEFINE g == machines[ops[t].dut].db
             op == [ops[t] EXCEPT !.step = "write", !.db = g]
  <2>1. g \in Objects /\ g \in Objects' /\ g # 0
    <3>1. ops[t].dut \in Duts /\ machines[ops[t].dut].home # 0
      BY <1>11, <1>13 DEF OpSet, CallsAreFounded, Founded, UpdateSave
    <3> QED
      BY <1>1, <3>1, MachineTypes
  <2>2. op \in OpSet' /\ op.call = ops[t].call /\ op.dut = ops[t].dut /\ op.step = "write" /\ op.db = g
    <3> HIDE DEF g
    <3> QED
      BY <1>11, <2>1 DEF OpSet
  <2>3. Founded(op, machines', heap')
    BY <2>1, <2>2 DEF Founded
  <2>4. ops' = [ops EXCEPT ![t] = op]
    BY <1>1, <1>13 DEF UpdateSave
  <2> HIDE DEF op
  <2> QED
    BY <1>10, <2>2, <2>3, <2>4
<1>14. ASSUME NEW t \in Threads, Write(t) PROVE Goal
  <2> DEFINE op == [ops[t] EXCEPT !.step = "taint"]
  <2>1. op \in OpSet' /\ op.call = ops[t].call /\ op.dut = ops[t].dut /\ op.step = "taint" /\ op.db = ops[t].db
    BY <1>11 DEF OpSet
  <2>2. Founded(op, machines', heap')
    BY <1>3, <1>14, <2>1 DEF Founded, Write
  <2>3. ops' = [ops EXCEPT ![t] = op]
    BY <1>14 DEF Write
  <2> HIDE DEF op
  <2> QED
    BY <1>10, <2>1, <2>2, <2>3
<1>15. ASSUME NEW t \in Threads, RegisterGet(t) PROVE Goal
  <2> DEFINE n == ~ machines[ops[t].dut].known
             op == [ops[t] EXCEPT !.step = "update", !.db = mars_db, !.new = n]
  <2>1. n \in BOOLEAN
    OBVIOUS
  <2>2. /\ op \in OpSet' /\ op.call = ops[t].call /\ op.dut = ops[t].dut /\ op.step = "update"
        /\ op.db = mars_db /\ op.obj = ops[t].obj
    <3> HIDE DEF n
    <3> QED
      BY <1>1, <1>11, <2>1 DEF OpSet
  <2>3. Founded(op, machines', heap')
    BY <1>1, <1>3, <1>15, <2>2 DEF Founded, RegisterGet
  <2>4. ops' = [ops EXCEPT ![t] = op]
    BY <1>15 DEF RegisterGet
  <2> HIDE DEF op
  <2> QED
    BY <1>10, <2>2, <2>3, <2>4
<1>16. ASSUME NEW t \in Threads, RegisterUpdate(t) PROVE Goal
  <2> DEFINE op == [ops[t] EXCEPT !.step = "store"]
  <2>1. /\ op \in OpSet' /\ op.call = ops[t].call /\ op.dut = ops[t].dut /\ op.step = "store"
        /\ op.db = ops[t].db /\ op.obj = ops[t].obj
    BY <1>11 DEF OpSet
  <2>2. Founded(op, machines', heap')
    BY <1>3, <1>16, <2>1 DEF Founded, RegisterUpdate
  <2>3. ops' = [ops EXCEPT ![t] = op]
    BY <1>16 DEF RegisterUpdate
  <2> HIDE DEF op
  <2> QED
    BY <1>10, <2>1, <2>2, <2>3
<1>17. ASSUME NEW t \in Threads, RegisterStore(t) PROVE Goal
  <2> DEFINE op == [ops[t] EXCEPT !.step = "save", !.obj = 0]
  <2>1. op \in OpSet' /\ op.call = ops[t].call /\ op.dut = ops[t].dut /\ op.step = "save"
    BY <1>11 DEF OpSet
  <2>2. Founded(op, machines', heap')
    BY <1>3, <1>17, <2>1 DEF Founded, RegisterStore
  <2>3. ops' = [ops EXCEPT ![t] = op]
    BY <1>17 DEF RegisterStore
  <2> HIDE DEF op
  <2> QED
    BY <1>10, <2>1, <2>2, <2>3
<1>18. ASSUME NEW t \in Threads, RegisterSave(t) PROVE Goal
  <2> DEFINE op == [ops[t] EXCEPT !.step = "write", !.db = mars_db]
  <2>1. op \in OpSet' /\ op.call = ops[t].call /\ op.dut = ops[t].dut /\ op.step = "write" /\ op.db = mars_db
    BY <1>1, <1>11 DEF OpSet
  <2>2. Founded(op, machines', heap')
    BY <1>1, <2>1 DEF Founded
  <2>3. ops' = [ops EXCEPT ![t] = op] \/ ops' = [ops EXCEPT ![t] = Idle]
    BY <1>1, <1>18 DEF RegisterSave
  <2> HIDE DEF op
  <2> QED
    BY <1>5, <1>6, <1>10, <2>1, <2>2, <2>3
<1>19. CASE \/ ExposeGateway \/ Expose \/ LoopRaises \/ SyncRaises \/ RegisterUnanswered \/ UpdateMachine
            \/ StoreMachine \/ RemoveMachine \/ SyncSave \/ SyncWrite \/ SyncWritten
            \/ Poll \/ Edit \/ Revoke \/ UNCHANGED vars
  <2>1. UNCHANGED ops
    BY <1>19 DEF ExposeGateway, Expose, LoopRaises, SyncRaises, RegisterUnanswered, Raise, UpdateMachine,
       StoreMachine, RemoveMachine, SyncSave, SyncWrite, SyncWritten, Poll, Edit, Revoke, vars
  <2> QED
    BY <1>4, <2>1
<1>20. ASSUME NEW t \in Threads,
              UpdateCheck(t) \/ Register(t) \/ UpdateRaises(t) \/ RegisterRaises(t) \/ Call(t)
       PROVE  Goal
  BY <1>7, <1>8, <1>9, <1>12, <1>13, <1>14, <1>15, <1>16, <1>17, <1>18, <1>20 DEF Call
<1> QED
  BY <1>19, <1>20 DEF Next, Sync

\* The ConfigDUT that the first loop of sync_machines() is at.
LEMMA AtStep ==
  ASSUME MarsInv, [Next]_vars, HeapGrows, ~ Load, ~ Restart
  PROVE  AtType' /\ AtIsThere'
<1> USE DEF MarsInv
<1>1. /\ at \in [dut : Duts, obj : Objects \cup {0}] /\ Objects \subseteq Objects'
      /\ mars_db \in Objects /\ 0 \notin Objects /\ mars_db # 0 /\ Duts \subseteq Owners
      /\ NoDut \in [dut : Duts, obj : {0}]
  BY ObjectTypes, DutsAssumption DEF TypeOK, HeapGrows, Owners, NoDut, Idle
<1>2. at.obj # 0 => heap'[at.obj][at.dut] # Absent
  BY <1>1 DEF AtIsThere, HeapGrows
<1>3. CASE /\ UNCHANGED at /\ (mpc' = "store" <=> mpc = "store")
           /\ at.obj = 0 \/ registered \subseteq registered'
  BY <1>1, <1>2, <1>3 DEF AtType, AtIsThere
<1>4. CASE at' = NoDut /\ mpc' # "store"
  <2>1. at'.obj = 0 /\ at' \in [dut : Duts, obj : {0}]
    BY <1>1, <1>4
  <2> QED
    BY <1>4, <2>1 DEF AtType, AtIsThere
<1>5. CASE UpdateMachine
  <2>1. CASE todo = {}
    BY <1>3, <1>5, <2>1 DEF UpdateMachine, Goto
  <2>2. CASE todo # {}
    <3>1. PICK d \in todo : at' = [dut |-> d, obj |-> mars_db] /\ mpc' = "store"
      BY <1>5, <2>2 DEF UpdateMachine
    <3>2. d \in Duts /\ heap'[mars_db][d] # Absent
      BY <1>5 DEF TypeOK, TodoIsThere, UpdateMachine, In, Current
    <3> QED
      BY <1>1, <3>1, <3>2 DEF AtType, AtIsThere
  <2> QED
    BY <2>1, <2>2
<1>6. CASE StoreMachine \/ LoopRaises \/ SyncRaises \/ RegisterUnanswered
  BY <1>4, <1>6 DEF StoreMachine, LoopRaises, SyncRaises, RegisterUnanswered, Raise
<1>7. CASE \/ RemoveMachine \/ ExposeGateway \/ Expose \/ SyncSave \/ SyncWrite \/ SyncWritten
           \/ Poll \/ Edit \/ Revoke \/ UNCHANGED vars
  <2>1. UNCHANGED <<at, registered>> /\ (mpc' = "store" <=> mpc = "store")
    BY <1>7 DEF RemoveMachine, ExposeGateway, Expose, SyncSave, SyncWrite, SyncWritten, Goto, Done,
       Poll, Edit, Revoke, vars, thread
  <2> QED
    BY <1>3, <2>1
<1>8. ASSUME NEW t \in Threads, RegisterStore(t) PROVE AtType' /\ AtIsThere'
  <2> DEFINE d == ops[t].dut
             g == ops[t].obj
  <2>1. /\ StoreDut(d, g) /\ mpc' = mpc /\ registered' = registered
        /\ at' = IF at = [dut |-> d, obj |-> mars_db] THEN [at EXCEPT !.obj = Len(heap) + 1] ELSE at
    BY <1>8 DEF RegisterStore
  <2>2. d \in Duts /\ d \in registered /\ g \in Objects \ {mars_db} /\ heap[g][d] # Absent
    BY <1>8, InHand DEF RegisterStore
  <2>3. CASE at # [dut |-> d, obj |-> mars_db]
    BY <1>3, <2>1, <2>3
  <2>4. CASE at = [dut |-> d, obj |-> mars_db]
    <3>1. Len(heap) + 1 \in Objects' /\ heap'[Len(heap) + 1][d] = heap[mars_db][d]
      BY <2>1, <2>2, <2>4, StoreStep
    <3>2. /\ at' = [dut |-> d, obj |-> Len(heap) + 1] /\ mpc = "store"
          /\ heap[mars_db][d] # Absent
      BY <1>1, <2>1, <2>4 DEF AtIsThere
    <3>3. Len(heap) + 1 # 0
      BY ObjectTypes
    <3> QED
      BY <2>1, <2>2, <3>1, <3>2, <3>3 DEF AtType, AtIsThere
  <2> QED
    BY <2>3, <2>4
<1>9. ASSUME NEW t \in Threads,
             \/ UpdateCheck(t) \/ Register(t) \/ UpdateRaises(t) \/ RegisterRaises(t) \/ UpdateSet(t)
             \/ UpdateSave(t) \/ Write(t) \/ Written(t) \/ RegisterGet(t) \/ RegisterUpdate(t)
             \/ RegisterSave(t)
      PROVE  AtType' /\ AtIsThere'
  <2>1. UNCHANGED <<at, mpc>> /\ registered \subseteq registered'
    BY <1>9 DEF UpdateCheck, Register, UpdateRaises, RegisterRaises, UpdateSet, UpdateSave, Write, Written,
       RegisterGet, RegisterUpdate, RegisterSave, thread
  <2> QED
    BY <1>3, <2>1
<1>10. ASSUME NEW t \in Threads,
              UpdateCheck(t) \/ Register(t) \/ UpdateRaises(t) \/ RegisterRaises(t) \/ Call(t)
       PROVE  AtType' /\ AtIsThere'
  BY <1>8, <1>9, <1>10 DEF Call
<1> QED
  BY <1>5, <1>6, <1>7, <1>10 DEF Next, Sync

-----------------------------------------------------------------------------
(* The other steps: the rest of the invariant.                              *)

\* Every step keeps the type invariant.
LEMMA TypeStep ==
  ASSUME MarsInv, [Next]_vars, HeapGrows, ~ Load, ~ Restart
  PROVE  TypeOK'
<1>1. heap' \in Seq(Databases) /\ heap' # <<>> /\ tainted' \subseteq Objects'
  BY DEF HeapGrows
<1>2. machines' \in [Duts -> MachineSet'] /\ ops' \in [Threads -> OpSet'] /\ AtType'
  BY MachineStep, OpStep, AtStep
<1>3. RunnerTypes' /\ FileTypes' /\ ThreadTypes'
  BY RunnerTypesStep, FileTypesStep, ThreadTypesStep DEF MarsInv
<1> QED
  BY <1>1, <1>2, <1>3 DEF TypeOK, MachineSet, OpSet, AtType, RunnerTypes, FileTypes, ThreadTypes

\* The loops go through machines of the database.
LEMMA TodoStep ==
  ASSUME MarsInv, [Next]_vars, HeapGrows, ~ Load, ~ Restart
  PROVE  TodoIsThere'
<1> USE DEF MarsInv
<1>1. In(Current) \subseteq In(Current)'
  BY ObjectTypes DEF In, Current, HeapGrows, Owners
<1>2. CASE todo' \subseteq todo /\ (mpc' \in {"update", "store", "expose"} => mpc \in {"update", "store", "expose"})
  BY <1>1, <1>2 DEF TodoIsThere
<1>3. CASE todo' = {}
  BY <1>3 DEF TodoIsThere
<1>4. CASE mpc' \notin {"update", "store", "expose"}
  BY <1>4 DEF TodoIsThere
<1>5. CASE ExposeGateway
  BY <1>1, <1>5 DEF TodoIsThere, ExposeGateway
<1>6. CASE UpdateMachine
  BY <1>2, <1>4, <1>6 DEF UpdateMachine, Goto
<1>7. CASE Expose
  BY <1>2, <1>4, <1>7 DEF Expose, Goto
<1>8. CASE StoreMachine
  BY <1>2, <1>8 DEF StoreMachine
<1>9. CASE \/ RemoveMachine \/ LoopRaises \/ SyncRaises \/ RegisterUnanswered \/ SyncSave \/ SyncWrite
           \/ SyncWritten
  <2>1. mpc' \notin {"update", "store", "expose"}
    BY <1>9 DEF RemoveMachine, LoopRaises, SyncRaises, RegisterUnanswered, Raise, SyncSave, SyncWrite,
       SyncWritten, Goto, Done
  <2> QED
    BY <1>4, <2>1
<1>10. CASE Poll \/ Edit \/ Revoke \/ UNCHANGED vars
  BY <1>2, <1>10 DEF Poll, Edit, Revoke, vars, thread
<1>11. ASSUME NEW t \in Threads,
              UpdateCheck(t) \/ Register(t) \/ UpdateRaises(t) \/ RegisterRaises(t) \/ Call(t)
       PROVE  TodoIsThere'
  <2>1. UNCHANGED <<todo, mpc>>
    BY <1>11 DEF UpdateCheck, Register, UpdateRaises, RegisterRaises, Call, UpdateSet, UpdateSave, Write,
       Written, RegisterGet, RegisterUpdate, RegisterStore, RegisterSave, thread
  <2> QED
    BY <1>2, <2>1
<1> QED
  BY <1>5, <1>6, <1>7, <1>8, <1>9, <1>10, <1>11 DEF Next, Sync

\* A machine of a replaced database, that does not register, is reached by the loops.
LEMMA StaleStep ==
  ASSUME MarsInv, [Next]_vars, HeapGrows, ~ Load, ~ Restart
  PROVE  StaleIsDue'
<1> USE DEF MarsInv
<1>1. registered \subseteq registered'
  BY DEF Next, Sync, Call, UpdateCheck, Register, UpdateRaises, RegisterRaises, UpdateSet, UpdateSave,
     Write, Written, RegisterGet, RegisterUpdate, RegisterStore, RegisterSave, LoopRaises, UpdateMachine,
     StoreMachine, RemoveMachine, ExposeGateway, Expose, SyncSave, SyncWrite, SyncWritten, SyncRaises,
     RegisterUnanswered, Raise, Poll, Edit, Revoke, vars
<1> SUFFICES ASSUME NEW d \in Duts \ registered, machines'[d].known, machines'[d].home # mars_db
             PROVE  Reached(d)'
  BY <1>1 DEF StaleIsDue, Reached
<1>2. /\ machines'[d] = machines[d]
      /\ mpc \in {"update", "remove"} /\ mpc' # "idle" => d \notin todo \ todo'
  BY MachineStep DEF Kempt
<1>3. /\ mpc \in {"update", "store"} => d \in todo \cup local
      /\ mpc = "remove" => d \in todo
      /\ mpc \in {"idle", "update", "store", "remove"}
  BY <1>2 DEF StaleIsDue, Reached
<1>4. CASE mpc' = "idle"
  BY <1>4 DEF Reached
<1>5. CASE UNCHANGED <<mpc, todo, local>>
  BY <1>3, <1>5 DEF Reached
<1>6. CASE UpdateMachine
  <2>1. CASE todo = {}
    BY <1>3, <1>6, <2>1 DEF UpdateMachine, Goto, Reached
  <2>2. CASE todo # {}
    BY <1>2, <1>3, <1>6, <2>2 DEF UpdateMachine, Reached
  <2> QED
    BY <2>1, <2>2
<1>7. CASE RemoveMachine
  <2>1. todo # {}
    BY <1>3, <1>7 DEF RemoveMachine
  <2>2. mpc' = "remove" /\ mpc = "remove"
    BY <1>7, <2>1 DEF RemoveMachine, Goto
  <2> QED
    BY <1>2, <1>3, <2>2 DEF Reached
<1>8. CASE StoreMachine
  BY <1>3, <1>8 DEF StoreMachine, Reached
<1>9. CASE LoopRaises \/ SyncRaises \/ RegisterUnanswered
  BY <1>4, <1>9 DEF LoopRaises, SyncRaises, RegisterUnanswered, Raise
<1>10. CASE ExposeGateway \/ Expose \/ SyncSave \/ SyncWrite \/ SyncWritten
  BY <1>3, <1>10 DEF ExposeGateway, Expose, SyncSave, SyncWrite, SyncWritten
<1>11. CASE Poll \/ Edit \/ Revoke \/ UNCHANGED vars
  BY <1>5, <1>11 DEF Poll, Edit, Revoke, vars, thread
<1>12. ASSUME NEW t \in Threads,
              UpdateCheck(t) \/ Register(t) \/ UpdateRaises(t) \/ RegisterRaises(t) \/ Call(t)
       PROVE  Reached(d)'
  <2>1. UNCHANGED <<mpc, todo, local>>
    BY <1>12 DEF UpdateCheck, Register, UpdateRaises, RegisterRaises, Call, UpdateSet, UpdateSave, Write,
       Written, RegisterGet, RegisterUpdate, RegisterStore, RegisterSave, thread
  <2> QED
    BY <1>5, <2>1
<1> QED
  BY <1>6, <1>7, <1>8, <1>9, <1>10, <1>11, <1>12 DEF Next, Sync

-----------------------------------------------------------------------------
(* MaRS: the theorems.                                                      *)

\* A process that begins knows no machine: at first, and after a restart.
Begun ==
  /\ FileTypes /\ RunnerTypes /\ last_sync = FALSE
  /\ heap = <<Empty>> /\ tainted = {} /\ machines = [d \in Duts |-> NoMachine]
  /\ ops = [t \in Threads |-> Idle]
  /\ mpc = "idle" /\ todo = {} /\ keys = {} /\ local = {} /\ at = NoDut /\ registered = {}

LEMMA MarsBegins == Begun => MarsInv
<1> SUFFICES ASSUME Begun PROVE MarsInv
  OBVIOUS
<1> USE DEF Begun
<1>1. Empty \in Databases /\ heap \in Seq(Databases) /\ Len(heap) = 1 /\ heap # <<>> /\ Objects = {1}
  BY DEF Empty, Databases, Objects
<1>2. Idle.dut \in Duts /\ Idle \in OpSet
  BY DutsAssumption DEF Idle, OpSet
<1>3. ops \in [Threads -> OpSet] /\ machines \in [Duts -> MachineSet]
  BY <1>2 DEF MachineSet
<1>4. at \in [dut : Duts, obj : Objects \cup {0}] /\ at.obj = 0
  BY <1>2 DEF NoDut
<1>5. TypeOK
  BY <1>1, <1>3, <1>4 DEF TypeOK, MachineSet, OpSet, RunnerTypes, FileTypes
<1>6. \A d \in Duts : machines[d].home = 0 /\ ~ machines[d].known
  BY DEF NoMachine
<1>7. \A t \in Threads : ops[t].step = "idle" /\ ops[t].call = "idle"
  BY DEF Idle
<1> QED
  BY <1>4, <1>5, <1>6, <1>7 DEF MarsInv, HomesHaveEntries, CallsAreFounded, Founded, TodoIsThere,
     AtIsThere, RegistrationsAreNoted, StaleIsDue, Reached

LEMMA MarsInitially ==
  ASSUME Init
  PROVE  MarsInv
<1>1. Idle.dut \in Duts
  BY DutsAssumption DEF Idle
<1>2. /\ [Empty EXCEPT ![Gateway] = GatewayEntry] \in Databases
      /\ \A r \in BOOLEAN : [Empty EXCEPT ![Idle.dut] = [NewEntry EXCEPT !.ready = r]] \in Databases
  <2>1. GatewayEntry \in Entry /\ \A r \in BOOLEAN : [NewEntry EXCEPT !.ready = r] \in Entry
    <3>1. NewEntry \in Entry
      BY BoundsAssumption DEF NewEntry, Entry, Invalid
    <3>2. \A r \in BOOLEAN : [NewEntry EXCEPT !.ready = r] \in Entry
      BY <3>1 DEF Entry
    <3> QED
      BY <3>2 DEF GatewayEntry
  <2> QED
    BY <1>1, <2>1 DEF Empty, Databases, Owners
<1>3. file \in Databases
  BY <1>2 DEF Init
<1>4. RunnerTypes
  BY BoundsAssumption DEF Init, RunnerTypes
<1> QED
  BY <1>3, <1>4, MarsBegins DEF Init, Begun, FileTypes

LEMMA MarsBeginsAgain == Begun' => MarsInv'
BY MarsBegins, PTL

LEMMA RestartStep ==
  ASSUME MarsInv, Restart
  PROVE  MarsInv'
<1>1. FileTypes' /\ RunnerTypes'
  BY RunnerTypesStep, FileTypesStep DEF MarsInv, Next
<1>2. Begun'
  BY <1>1 DEF Begun, Restart
<1> QED
  BY <1>2, MarsBeginsAgain

LEMMA MarsInductive ==
  ASSUME MarsInv, [Next]_vars
  PROVE  MarsInv'
<1>1. CASE Load
  BY <1>1, LoadStep
<1>2. CASE Restart
  BY <1>2, RestartStep
<1>3. CASE HeapGrows /\ ~ Load /\ ~ Restart
  <2>1. TypeOK' /\ TodoIsThere' /\ StaleIsDue' /\ AtIsThere' /\ CallsAreFounded' /\ RegistrationsAreNoted'
    BY <1>3, TypeStep, TodoStep, StaleStep, AtStep, OpStep
  <2>2. HomesHaveEntries'
    BY <1>3, MachineStep DEF HomesHaveEntries, Kempt
  <2> QED
    BY <2>1, <2>2 DEF MarsInv
<1> QED
  BY <1>1, <1>2, <1>3, HeapStep

\* MaRS' state has its type.
THEOREM MarsTypeCorrect == Spec => []TypeOK
<1>1. Init => MarsInv
  BY MarsInitially
<1>2. MarsInv /\ [Next]_vars => MarsInv'
  BY MarsInductive
<1>3. MarsInv => TypeOK
  BY DEF MarsInv
<1> QED
  BY <1>1, <1>2, <1>3, PTL DEF Spec

\* sync_machines() leaves no machine that did not register meanwhile on a replaced database
\* or without an entry, for any number of machines, calls, reloads, failures and restarts.
THEOREM NoMachineIsStale == Spec => []NoStaleMachine
<1>1. Init => MarsInv
  BY MarsInitially
<1>2. MarsInv /\ [Next]_vars => MarsInv'
  BY MarsInductive
<1>3. MarsInv => NoStaleMachine
  <2> SUFFICES ASSUME MarsInv, mpc \in {"gateway", "expose", "config", "write", "taint"},
                      NEW d \in Duts \ registered, machines[d].known
               PROVE  machines[d].home = mars_db /\ d \in In(Current)
    BY DEF NoStaleMachine
  <2>1. machines[d].home = mars_db
    BY DEF MarsInv, StaleIsDue, Reached
  <2> QED
    BY <2>1 DEF MarsInv, HomesHaveEntries, mars_db, In, Current
<1> QED
  BY <1>1, <1>2, <1>3, PTL DEF Spec

-----------------------------------------------------------------------------
(* PowerUp: how long a machine stays off.                                   *)

\* The constants, in the terms of the instance.
LEMMA PowerConstants ==
  /\ Remote \cap Local = {} /\ None \notin Remote \cup Local
  /\ {Power!Cached, Power!Default} \cap (Power!Urls \cup {None}) = {}
  /\ Power!Cached # Power!Default /\ None \notin Power!BootConfigs
  /\ MinOffTime \in Nat
BY UrlsAssumption, TimeAssumption, NamesAssumption, ConfigAssumption
   DEF Urls, Cached, Default, BootConfigs, Start, Continue,
       Power!Urls, Power!Cached, Power!Default, Power!BootConfigs, Power!Start, Power!Continue

\* The ports in use, and what update_config() is doing to them.
PortsInUse == Power!Slots \cap {port, new, held}

PortTypes ==
  /\ port \in Power!Slots /\ held \in Power!Slots \cup {0}
  /\ ppc \in {"idle", "assign"}
  /\ IF ppc = "assign" THEN new \in Power!Slots \ {port, held} ELSE new = 0
  /\ last \in [Power!Slots -> Power!Time] /\ off_for \in Power!Time
  /\ power \in {"ON", "OFF"} /\ behind \subseteq Power!Slots

\* No port believes that the machine has been off for longer than it has, but those
\* that the shutdown left behind.
NoPortIsAhead == power = "OFF" => \A s \in PortsInUse \ behind : last[s] <= off_for

OffInv == PortTypes /\ NoPortIsAhead

\* A new PDUPort takes the slot of one that nobody refers to.
LEMMA FreeSlot ==
  ASSUME PortTypes
  PROVE  Power!Min(Power!Slots \ {port, held}) \in Power!Slots \ {port, held}
<1> DEFINE free == Power!Slots \ {port, held}
<1>1. \E x \in free : \A y \in free : x <= y
  <2>1. CASE 1 \in free
    BY <2>1 DEF Power!Slots
  <2>2. CASE 1 \notin free /\ 2 \in free
    BY <2>2 DEF Power!Slots
  <2>3. CASE 1 \notin free /\ 2 \notin free
    BY <2>3 DEF Power!Slots, PortTypes
  <2> QED
    BY <2>1, <2>2, <2>3
<1> QED
  BY <1>1 DEF Power!Min
\* Set() is the only operation on the power, and its three outcomes.
LEMMA SetOutcomes ==
  ASSUME NEW wanted, Power!Set(wanted)
  PROVE  /\ held # 0 /\ held' = 0
         /\ \/ power = wanted /\ UNCHANGED <<power, off_for, last, behind, Power!dut>>
            \/ power # wanted /\ wanted = "OFF" /\ Power!TurnOff(held)
            \/ power # wanted /\ wanted # "OFF" /\ Power!TurnOn(held)
BY DEF Power!Set

\* Cutting the power through a port leaves the other ports behind.
LEMMA SetKeepsPorts ==
  ASSUME OffInv, NEW wanted, Power!Set(wanted), UNCHANGED Power!ports
  PROVE  OffInv'
<1> USE PowerConstants DEF OffInv, PortTypes, NoPortIsAhead, PortsInUse, Power!ports
<1>0. held \in Power!Slots /\ held' = 0 /\ 0 \notin Power!Slots
  BY SetOutcomes DEF Power!Slots
<1>1. CASE UNCHANGED <<power, off_for, last, behind>>
  BY <1>0, <1>1
<1>2. CASE Power!TurnOff(held)
  BY <1>0, <1>2 DEF Power!TurnOff, Power!CutPower, Power!LeftBehind, Power!Time
<1>3. CASE Power!TurnOn(held)
  BY <1>0, <1>3 DEF Power!TurnOn, Power!Time
<1> QED
  BY <1>1, <1>2, <1>3, SetOutcomes DEF Power!dut

\* Time passes for the ports and for the machine alike.
LEMMA TickKeepsPorts ==
  ASSUME OffInv, Power!Tick
  PROVE  OffInv'
<1> USE PowerConstants DEF OffInv, PortTypes, NoPortIsAhead, PortsInUse, Power!ports,
    Power!Time, Power!Older
<1>1. last' \in [Power!Slots -> Power!Time] /\ off_for' \in Power!Time
  BY DEF Power!Tick
<1>2. UNCHANGED <<port, new, held, ppc, power, behind>>
  BY DEF Power!Tick
<1>3. ASSUME power = "OFF", NEW s \in PortsInUse \ behind
      PROVE  last'[s] <= off_for'
  <2>1. last'[s] = Power!Older(last[s]) /\ off_for' = Power!Older(off_for)
    BY <1>3 DEF Power!Tick
  <2> QED
    BY <1>3, <2>1
<1> QED
  BY <1>1, <1>2, <1>3

\* A PDUPort that update_config() makes knows of no shutdown before its own making, and
\* the one that it replaces is forgotten.
LEMMA UpdateKeepsPorts ==
  ASSUME OffInv, Power!UpdateConfig
  PROVE  OffInv'
<1> USE PowerConstants DEF OffInv, PortTypes, NoPortIsAhead, PortsInUse
<1>1. CASE Power!CreatePduPort
  <2>1. new' \in Power!Slots \ {port, held}
    BY <1>1, FreeSlot DEF Power!CreatePduPort
  <2> QED
    BY <1>1, <2>1 DEF Power!CreatePduPort, Power!Time
<1>2. CASE Power!AssignPduPort
  <2>1. last' \in [Power!Slots -> Power!Time]
    BY <1>2 DEF Power!AssignPduPort, Power!Time
  <2> QED
    BY <1>2, <2>1 DEF Power!AssignPduPort, Power!Slots
<1> QED
  BY <1>1, <1>2 DEF Power!UpdateConfig

\* The Executor thread only touches a port through Set(), and the machine none.
LEMMA OthersKeepPorts ==
  ASSUME OffInv, [Power!Next]_Power!vars, ~Power!Tick, ~Power!UpdateConfig
  PROVE  OffInv'
<1> USE DEF Power!executor, Power!ports, Power!dut
<1>1. CASE Power!InitialOff \/ Power!Off \/ Power!On \/ Power!CutOff
  BY <1>1, SetKeepsPorts DEF Power!InitialOff, Power!Off, Power!On, Power!CutOff
<1>2. CASE Power!SessionInit \/ Power!Loop \/ Power!Config \/ Power!Cut
  BY <1>2 DEF Power!SessionInit, Power!Loop, Power!Config, Power!Cut, Power!Hold, OffInv,
     PortTypes, NoPortIsAhead,
              PortsInUse
<1>3. CASE Power!CacheRemoteArtifact \/ Power!SaveBootArtifact \/ Power!Query \/ Power!Load
  BY <1>3 DEF Power!CacheRemoteArtifact, Power!SaveBootArtifact, Power!Query, Power!Load,
     OffInv, PortTypes,
              NoPortIsAhead, PortsInUse
<1>4. CASE Power!Raises
  <2> USE PowerConstants DEF OffInv, PortTypes, NoPortIsAhead, PortsInUse, Power!Slots, Power!Time
  <2>1. held' = 0 /\ UNCHANGED <<ppc, new, port>>
    BY <1>4 DEF Power!Raises
  <2>2. CASE UNCHANGED <<power, off_for, last, behind>>
    BY <2>1, <2>2
  <2>3. CASE Power!CutPower /\ behind' = Power!LeftBehind /\ last' = last
    BY <2>1, <2>3 DEF Power!CutPower, Power!LeftBehind
  <2>4. CASE Power!TurnOn(held)
    BY <2>1, <2>4 DEF Power!TurnOn
  <2> QED
    BY <1>4, <2>2, <2>3, <2>4 DEF Power!Raises
<1>5. CASE UNCHANGED Power!vars
  BY <1>5 DEF Power!vars, OffInv, PortTypes, NoPortIsAhead, PortsInUse
<1> QED
  BY <1>1, <1>2, <1>3, <1>4, <1>5 DEF Power!Next, Power!Run

\* The gateway starts with one port, that was made as the machine was last seen off.
LEMMA OffInit ==
  Power!Init => OffInv
BY PowerConstants DEF Power!Init, OffInv, PortTypes, NoPortIsAhead, PortsInUse, Power!Slots,
   Power!Time

\* One step of a port keeps what its times say.
LEMMA OffStep ==
  OffInv /\ [Power!Next]_Power!vars => OffInv'
BY TickKeepsPorts, UpdateKeepsPorts, OthersKeepPorts

\* For any min_off_time, although the PDUPort of the machine is replaced at any time and
\* any call to the PDU may raise after it took effect: the machine is only turned on again
\* after it was off for that long, unless through a PDUPort that does not know of the shutdown.
THEOREM StaysOffLongEnough ==
  Power!Spec => OffLongEnough
<1>1. ASSUME OffInv, [Power!Next]_Power!vars, power = "OFF", power' = "ON"
      PROVE  off_for = MinOffTime \/ held \in behind
  <2>1. Power!On \/ Power!Raises
    <3>1. ~Power!Tick /\ ~Power!UpdateConfig
      BY <1>1 DEF Power!Tick, Power!UpdateConfig, Power!CreatePduPort, Power!AssignPduPort
    <3>2. ~(Power!InitialOff \/ Power!Off \/ Power!CutOff)
      BY <1>1, SetOutcomes DEF Power!InitialOff, Power!Off, Power!CutOff, Power!TurnOff, Power!CutPower
    <3>3. ~(\/ Power!SessionInit \/ Power!CacheRemoteArtifact \/ Power!SaveBootArtifact
            \/ Power!Loop \/ Power!Config \/ Power!Cut)
      BY <1>1 DEF Power!SessionInit, Power!CacheRemoteArtifact, Power!SaveBootArtifact,
         Power!Loop, Power!Config, Power!Cut
    <3>4. ~(Power!Query \/ Power!Load) /\ ~UNCHANGED Power!vars
      BY <1>1 DEF Power!Query, Power!Load, Power!vars
    <3> QED
      BY <1>1, <3>1, <3>2, <3>3, <3>4 DEF Power!Next, Power!Run
  <2>2. held # 0 /\ last[held] = MinOffTime
    <3>1. CASE Power!On
      BY <1>1, <3>1, SetOutcomes DEF Power!On, Power!TurnOn
    <3>2. CASE Power!Raises
      <4>1. epc = "on" /\ Power!TurnOn(held)
        BY <1>1, <3>2 DEF Power!Raises, Power!CutPower
      <4> QED
        BY <3>2, <4>1 DEF Power!Raises, Power!TurnOn
    <3> QED
      BY <2>1, <3>1, <3>2
  <2>3. held \in PortsInUse /\ off_for \in 0 .. MinOffTime
    BY <1>1, <2>2 DEF OffInv, PortTypes, PortsInUse, Power!Time
  <2> QED
    BY <1>1, <2>2, <2>3, PowerConstants DEF OffInv, NoPortIsAhead
<1>2. OffInv /\ [Power!Next]_Power!vars
        => [power = "OFF" /\ power' = "ON" => off_for = MinOffTime \/ held \in behind]_power
  BY <1>1
<1> QED
  BY <1>2, OffInit, OffStep, PTL DEF Power!Spec, OffLongEnough
-----------------------------------------------------------------------------
(* The kernel that a boot of a job loads.                                   *)

\* The URL that the mapping has to give for a kernel.
CachedUrl(url) == IF url \in Local THEN url ELSE Power!Cached

JobTypes ==
  /\ job \in [{Power!Start, Power!Continue} -> Power!Urls \cup {None}]
  /\ deployment \in {Power!Start, Power!Continue}
  /\ mapping \in [Power!Urls -> Power!Urls \cup {Power!Cached, None}]
  /\ epc # "init" => job \in [{Power!Start, Power!Continue} -> Power!Urls]

\* Once the artifact of the start deployment was prepared, the mapping and the cache are
\* those of this job, and not of an earlier one.
ArtifactOfJob ==
  /\ epc \in {"save", "loop", "off", "config", "on", "boot", "cut"}
       => mapping[job[Power!Start]] = CachedUrl(job[Power!Start])
  /\ epc \in {"loop", "off", "config", "on", "boot", "cut"} /\ job[Power!Start] \notin Local
       => cache = job[Power!Start]

\* A machine that is off has neither a script nor a kernel of an earlier boot.
OffMeansNothingRuns == power = "OFF" => script = None /\ running = None

\* What the machine loads in the boot at hand is what the boot configuration says.
BootOfConfig ==
  /\ epc \in {"config", "on"} => power = "OFF"
  /\ epc \in {"on", "boot"}
       => boot_config = [kernel |-> mapping[job[deployment]], cmdline |-> deployment]
  /\ epc = "boot" => /\ script \in {None, boot_config.kernel}
                     /\ running # None => script # None
                     /\ running \in {None, IF script = Power!Cached THEN cache ELSE script}

KernelInv == JobTypes /\ ArtifactOfJob /\ OffMeansNothingRuns /\ BootOfConfig

\* The Executor thread, the machine and the other threads keep the kernel of the job.
LEMMA KernelStep ==
  KernelInv /\ [Power!Next]_Power!vars => KernelInv'
<1> SUFFICES ASSUME KernelInv, [Power!Next]_Power!vars PROVE KernelInv'
  OBVIOUS
<1> USE PowerConstants DEF KernelInv, JobTypes, ArtifactOfJob, OffMeansNothingRuns,
    BootOfConfig, CachedUrl,
        Power!executor, Power!ports, Power!dut, Power!Urls, Power!Start, Power!Continue,
        Power!Cached, Power!Default
<1>1. CASE Power!SessionInit
  BY <1>1 DEF Power!SessionInit, Power!Hold
<1>2. CASE Power!InitialOff
  BY <1>2 DEF Power!InitialOff, Power!Set, Power!TurnOff, Power!CutPower, Power!TurnOn
<1>3. CASE Power!CacheRemoteArtifact
  BY <1>3 DEF Power!CacheRemoteArtifact
<1>4. CASE Power!SaveBootArtifact
  BY <1>4 DEF Power!SaveBootArtifact
<1>5. CASE Power!Loop
  BY <1>5 DEF Power!Loop, Power!Hold
<1>6. CASE Power!Off
  BY <1>6 DEF Power!Off, Power!Set, Power!TurnOff, Power!CutPower, Power!TurnOn
<1>7. CASE Power!Config
  BY <1>7 DEF Power!Config, Power!Hold
<1>8. CASE Power!On
  BY <1>8 DEF Power!On, Power!Set, Power!TurnOff, Power!CutPower, Power!TurnOn
<1>9. CASE Power!Cut
  BY <1>9 DEF Power!Cut, Power!Hold
<1>10. CASE Power!CutOff
  BY <1>10 DEF Power!CutOff, Power!Set, Power!TurnOff, Power!CutPower, Power!TurnOn, Power!SessionEnd, Power!NoJob
<1>11. CASE Power!Raises
  BY <1>11 DEF Power!Raises, Power!SessionEnd, Power!NoJob, Power!CutPower, Power!TurnOn
<1>12. CASE Power!Query
  <2>1. epc = "boot" => boot_config \in Power!BootConfigs
    BY DEF Power!BootConfigs
  <2>2. epc = "boot" => script' = boot_config.kernel
    BY <1>12, <2>1, PowerConstants DEF Power!Query, Power!IpxeBootScript
  <2>3. UNCHANGED <<epc, job, deployment, mapping, cache, boot_config, power, running>>
    BY <1>12 DEF Power!Query
  <2>4. power = "ON" /\ script = None
    BY <1>12 DEF Power!Query
  <2> QED
    BY <2>2, <2>3, <2>4
<1>13. CASE Power!Load
  BY <1>13 DEF Power!Load
<1>14. CASE Power!Tick \/ Power!UpdateConfig
  BY <1>14 DEF Power!Tick, Power!UpdateConfig, Power!CreatePduPort, Power!AssignPduPort
<1>15. CASE UNCHANGED Power!vars
  BY <1>15 DEF Power!vars
<1> QED
  BY <1>1, <1>2, <1>3, <1>4, <1>5, <1>6, <1>7, <1>8, <1>9, <1>10, <1>11, <1>12, <1>13, <1>14,
     <1>15 DEF Power!Next, Power!Run

\* The Executor thread starts without a job; the machine may be on, and then runs what
\* nobody asked for.
LEMMA KernelInit == Power!Init => KernelInv
BY DEF Power!Init, KernelInv, JobTypes, ArtifactOfJob, OffMeansNothingRuns, BootOfConfig,
   Power!NoJob,
       Power!Start, Power!Continue

\* Whatever earlier jobs left in the cache and in the mapping, whatever fails, and
\* however late the machine asks for its script and loads it: a boot of a job loads the
\* kernel of its start deployment.
THEOREM JobGetsItsKernel ==
  Power!Spec => []BootsItsKernel
<1>1. KernelInv => BootsItsKernel
  BY PowerConstants DEF KernelInv, JobTypes, ArtifactOfJob, BootOfConfig,
     CachedUrl, BootsItsKernel, Start, Power!Start, Power!Urls
<1> QED
  BY <1>1, KernelInit, KernelStep, PTL DEF Power!Spec
=============================================================================
