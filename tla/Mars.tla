-------------------------------- MODULE Mars --------------------------------
(***************************************************************************)
(* MaRS (mars.py, gitlab.py): the database of the test machines.  The Mars *)
(* thread reloads the file whenever it changes, brings the machines and    *)
(* their GitLab runners in line with it and writes its own changes back.   *)
(* The REST server's threads and the executors update the same objects,    *)
(* without a lock, and every one of them saves the whole database.         *)
(*                                                                         *)
(* A database is a Python object: a reload replaces it, while machines and *)
(* calls under way may still refer to an older one.  Objects are numbered: *)
(* 1 is Mars.mars_db, and a reload renumbers the ones that are still       *)
(* referred to.  A ConfigDUT that is in no database is an object with this *)
(* entry only.  A save truncates the file and writes it later.             *)
(***************************************************************************)
EXTENDS Naturals, FiniteSets, Sequences

CONSTANTS
  Absent,       \* no entry in a database
  Corrupt,      \* a file that cannot be parsed
  Duts,         \* MAC addresses
  Threads,      \* REST threads and executors
  MaxEvents,    \* bound: updates, edits, failures and refusals, together
  MaxTokens     \* bound: runners GitLab registers for one owner

ASSUME DutsAssumption == Duts # {}
ASSUME BoundsAssumption == MaxTokens \in Nat /\ MaxEvents \in Nat

VARIABLES
  file,       \* MARS_DB_FILE, Empty while it is truncated
  watched,    \* is the file still watched?
  event,      \* did inotify see a change that was not read yet?
  heap,       \* the MarsDB objects, mars_db first, and the ConfigDUTs that are in none
  tainted,    \* objects that differ from what they read or wrote last
  machines,   \* dut |-> the Machine
  ops,        \* thread |-> the call it is in
  mpc,        \* the Mars thread
  todo,       \* what the loop of sync_machines() has yet to do
  keys,       \* the machines of mars_db as that loop began
  local,      \* local_only_machines
  at,         \* the machine that loop is at, and the object with its ConfigDUT
  last_sync,  \* did a sync ever succeed?
  runners,    \* GitLab: the registered runners
  issued,     \* GitLab: owner |-> the number of tokens it was given
  registered, \* history: the machines that registered since the last reload began
  events      \* how many updates, edits and failures happened

gitlab == <<runners, issued>>
thread == <<mpc, todo, keys, local, at, last_sync>>
vars == <<file, watched, event, heap, tainted, machines, ops, thread, gitlab, registered, events>>

Gateway == "gateway"
Owners == Duts \cup {Gateway}
Invalid == 0                                  \* "<invalid default>"
Entry == [ready : BOOLEAN, retired : BOOLEAN, token : 0 .. MaxTokens]
ASSUME AbsentAssumption == Absent \notin Entry
NewEntry == [ready |-> FALSE, retired |-> FALSE, token |-> Invalid]
\* The gateway's runner has a token and is always available.
GatewayEntry == [NewEntry EXCEPT !.ready = TRUE]
Databases == [Owners -> Entry \cup {Absent}]
Empty == [o \in Owners |-> Absent]
Objects == 1 .. Len(heap)
mars_db == 1
Current == heap[mars_db]
In(db) == {d \in Duts : db[d] # Absent}

NoMachine == [known |-> FALSE, home |-> 0, db |-> 0]
Idle == [call |-> "idle", dut |-> CHOOSE d \in Duts : TRUE, step |-> "idle", db |-> 0,
         obj |-> 0, new |-> FALSE]
NoDut == [dut |-> Idle.dut, obj |-> 0]

TypeOK ==
  /\ file \in Databases \cup {Corrupt}
  /\ event \in BOOLEAN /\ watched \in BOOLEAN /\ last_sync \in BOOLEAN
  /\ heap \in Seq(Databases) /\ heap # <<>> /\ tainted \subseteq Objects
  /\ machines \in [Duts -> {NoMachine} \cup [known : BOOLEAN, home : Objects, db : Objects]]
  /\ ops \in [Threads -> [call : {"idle", "ready", "retire", "activate", "register"}, dut : Duts,
                           step : {"idle", "set", "get", "update", "store", "save", "write",
                                   "taint"},
                           db : Objects \cup {0}, obj : Objects \cup {0}, new : BOOLEAN]]
  /\ mpc \in {"idle", "update", "store", "remove", "gateway", "expose", "config", "write",
              "taint"}
  /\ at \in [dut : Duts, obj : Objects \cup {0}] /\ registered \subseteq Duts
  /\ todo \subseteq Duts /\ keys \subseteq Duts /\ local \subseteq Duts
  /\ runners \subseteq Owners \X (1 .. MaxTokens) /\ issued \in [Owners -> 0 .. MaxTokens]
  /\ events \in 0 .. MaxEvents

\* Before the first sync; run() made sure that the file exists.
Init ==
  /\ file \in {[Empty EXCEPT ![Gateway] = GatewayEntry]} \cup
              {[Empty EXCEPT ![Idle.dut] = [NewEntry EXCEPT !.ready = r]] : r \in BOOLEAN}
  /\ event = FALSE /\ watched = TRUE /\ last_sync = FALSE
  /\ heap = <<Empty>> /\ tainted = {}
  /\ machines = [d \in Duts |-> NoMachine]
  /\ ops = [t \in Threads |-> Idle]
  /\ mpc = "idle" /\ todo = {} /\ keys = {} /\ local = {} /\ at = NoDut /\ registered = {}
  /\ runners = {} /\ issued = [o \in Owners |-> 0]
  /\ events = 0

\* Something happens that need not happen.
Happens == events < MaxEvents /\ events' = events + 1

-----------------------------------------------------------------------------
(* MarsDB.save(): open() truncates the file, the dump is flushed later.     *)

Truncate == file' = Empty /\ event' = (event \/ watched)

\* Two saves at once write over each other: what is left of the longer one
\* behind the shorter one may spoil the file.
Dump(g) ==
  /\ file' \in IF file \in {Empty, heap[g]} THEN {heap[g]} ELSE {heap[g], Corrupt}
  /\ event' = (event \/ watched)

\* A change that was made since the dump is forgotten as well.
ResetTaint(g) == tainted' = tainted \ {g}

\* An assignment to one entry of an object.
Assign(g, o, entry) ==
  /\ heap' = [heap EXCEPT ![g][o] = entry]
  /\ tainted' = IF heap[g][o] = entry THEN tainted ELSE tainted \cup {g}

Loose(d, entry) == [Empty EXCEPT ![d] = entry]

\* self.mars_db.duts[d] = db_dut, the ConfigDUT of object g.  The one it takes the place
\* of, if there is one, is in no database any more, whoever still uses it.
StoreDut(d, g) ==
  LET Moved(h) == CASE h = g -> mars_db [] h = mars_db -> Len(heap) + 1 [] OTHER -> h IN
  IF g = mars_db THEN UNCHANGED <<heap, tainted, machines>>
  ELSE /\ heap' = Append([heap EXCEPT ![mars_db][d] = heap[g][d]], Loose(d, Current[d]))
       /\ tainted' = IF Current[d] = heap[g][d] THEN tainted ELSE tainted \cup {mars_db}
       /\ machines' = [machines EXCEPT ![d].home = Moved(@)]

-----------------------------------------------------------------------------
(* gitlab.py: the calls.  GitLab may refuse one: any answer but 204 or 201. *)

\* False for a 403 only, that is, for a token that GitLab does not know; any other
\* answer, such as an error, is taken for a valid token.
VerifyRunnerToken(o, tok) ==
  /\ UNCHANGED gitlab
  /\ IF <<o, tok>> \in runners THEN events' = events ELSE Happens

\* GitLab may or may not agree to unregister a token it does not know.
UnregisterRunner(o, tok, agreed) ==
  /\ runners' = IF agreed THEN runners \ {<<o, tok>>} ELSE runners
  /\ IF agreed \/ <<o, tok>> \notin runners THEN events' = events ELSE Happens
  /\ issued' = issued

RegisterRunner(o, tok) ==
  \/ /\ tok = issued[o] + 1 /\ tok <= MaxTokens
     /\ issued' = [issued EXCEPT ![o] = tok] /\ runners' = runners \cup {<<o, tok>>}
     /\ events' = events
  \/ /\ tok = Invalid /\ UNCHANGED gitlab
     /\ IF issued[o] = MaxTokens THEN events' = events ELSE Happens

(* ConfigGitlabRunner: what becomes of the token tok of owner o.            *)

Remove(o, tok, new) ==
  IF tok = Invalid THEN new = Invalid /\ UNCHANGED <<gitlab, events>>
  ELSE \E agreed \in BOOLEAN : /\ UnregisterRunner(o, tok, agreed)
                               /\ new = IF agreed THEN Invalid ELSE tok

\* A runner that cannot be unregistered is not replaced.
VerifyOrRenewToken(o, tok, new) ==
  \/ new = tok /\ VerifyRunnerToken(o, tok)
  \/ /\ <<o, tok>> \notin runners
     /\ \/ tok # Invalid /\ new = tok /\ UnregisterRunner(o, tok, FALSE)
        \/ RegisterRunner(o, new)

-----------------------------------------------------------------------------
(* Machine.update_fields(): an executor changes ready_for_service, a REST   *)
(* thread retires or activates a machine it found in Mars._machines.        *)

Wanted(call, entry) ==
  CASE call = "ready" -> [entry EXCEPT !.ready = ~ @]
    [] call = "retire" -> [entry EXCEPT !.retired = TRUE]
    [] call = "activate" -> [entry EXCEPT !.retired = FALSE]

Begin(t, call, d, step, obj) ==
  /\ ops[t] = Idle /\ last_sync
  /\ ops' = [ops EXCEPT ![t] = [call |-> call, dut |-> d, step |-> step, db |-> mars_db,
                                obj |-> obj, new |-> FALSE]]
  /\ Happens

\* The setter of ready_for_service, and retire_activate_machine(), look for a
\* change first.
UpdateCheck(t) == \E d \in Duts, call \in {"ready", "retire", "activate"} :
  LET entry == heap[machines[d].home][d] IN
  /\ machines[d].known
  /\ call = "ready" => \A u \in Threads : ops[u].call = "ready" => ops[u].dut # d
  /\ Wanted(call, entry) # entry
  /\ Begin(t, call, d, "set", 0)
  /\ UNCHANGED <<file, watched, event, heap, tainted, machines, thread, gitlab, registered>>

\* setattr() on the machine's ConfigDUT, whatever database it belongs to by now.
UpdateSet(t) ==
  LET op == ops[t] g == machines[op.dut].home IN
  /\ op.step = "set"
  /\ Assign(g, op.dut, Wanted(op.call, heap[g][op.dut]))
  /\ ops' = [ops EXCEPT ![t].step = "save"]
  /\ UNCHANGED <<file, watched, event, machines, thread, gitlab, registered, events>>

\* update_config() raises: the change stays in memory and is not saved.
UpdateRaises(t) ==
  /\ ops[t].step = "save" /\ ops[t].call # "register" /\ Happens
  /\ ops' = [ops EXCEPT ![t] = Idle]
  /\ UNCHANGED <<file, watched, event, heap, tainted, machines, thread, gitlab, registered>>

\* db_dut.mars_db.save(), of the database this ConfigDUT was read from.
UpdateSave(t) ==
  /\ ops[t].step = "save" /\ ops[t].call # "register"
  /\ Truncate
  /\ ops' = [ops EXCEPT ![t].step = "write", ![t].db = machines[ops[t].dut].db]
  /\ UNCHANGED <<watched, heap, tainted, machines, thread, gitlab, registered, events>>

Write(t) ==
  /\ ops[t].step = "write"
  /\ Dump(ops[t].db)
  /\ ops' = [ops EXCEPT ![t].step = "taint"]
  /\ UNCHANGED <<watched, heap, tainted, machines, thread, gitlab, registered, events>>

Written(t) ==
  /\ ops[t].step = "taint"
  /\ ResetTaint(ops[t].db)
  /\ ops' = [ops EXCEPT ![t] = Idle]
  /\ UNCHANGED <<file, watched, event, heap, machines, thread, gitlab, registered, events>>

-----------------------------------------------------------------------------
(* add_or_update_machine(), called when a machine registers itself.  It     *)
(* leaves readiness, retirement and token of a known machine alone.         *)

\* A new ConfigDUT, with what the database says of this machine.
Register(t) == \E d \in Duts :
  LET entry == IF Current[d] = Absent THEN NewEntry ELSE Current[d] IN
  /\ Begin(t, "register", d, "get", Len(heap) + 1)
  /\ heap' = Append(heap, Loose(d, entry))
  /\ registered' = registered \cup {d}
  /\ UNCHANGED <<file, watched, event, tainted, machines, thread, gitlab>>

\* db_dut.mars_db is the database that is current by now.  Is the machine known?
RegisterGet(t) ==
  /\ ops[t].step = "get"
  /\ ops' = [ops EXCEPT ![t] = [@ EXCEPT !.step = "update", !.db = mars_db,
                                         !.new = ~ machines[ops[t].dut].known]]
  /\ UNCHANGED <<file, watched, event, heap, tainted, machines, thread, gitlab, registered, events>>

\* _machine_update_or_create(): a new Machine becomes known, the ConfigDUT of a known one
\* is replaced, even if it was removed meanwhile.
UseDut(op, m) == [known |-> op.new \/ m.known, home |-> op.obj, db |-> op.db]

RegisterUpdate(t) ==
  /\ ops[t].step = "update"
  /\ machines' = [machines EXCEPT ![ops[t].dut] = UseDut(ops[t], @)]
  /\ ops' = [ops EXCEPT ![t].step = "store"]
  /\ UNCHANGED <<file, watched, event, heap, tainted, thread, gitlab, registered, events>>

\* The PDU or the network configuration fails: a known machine has its new ConfigDUT,
\* which is in no database.
RegisterRaises(t) ==
  /\ ops[t].step = "update" /\ Happens
  /\ machines' = IF ops[t].new THEN machines
                 ELSE [machines EXCEPT ![ops[t].dut] = UseDut(ops[t], @)]
  /\ ops' = [ops EXCEPT ![t] = Idle]
  /\ UNCHANGED <<file, watched, event, heap, tainted, thread, gitlab, registered>>

\* It is stored in the database that is current by now.
RegisterStore(t) ==
  LET op == ops[t] IN
  /\ op.step = "store"
  /\ StoreDut(op.dut, op.obj)
  /\ at' = IF at = [dut |-> op.dut, obj |-> mars_db] THEN [at EXCEPT !.obj = Len(heap) + 1] ELSE at
  /\ ops' = [ops EXCEPT ![t] = [@ EXCEPT !.step = "save", !.obj = 0]]
  /\ UNCHANGED <<file, watched, event, mpc, todo, keys, local, last_sync, gitlab, registered,
                 events>>

\* save_db_if_needed() of the current database.
RegisterSave(t) ==
  /\ ops[t].step = "save" /\ ops[t].call = "register"
  /\ IF mars_db \in tainted
     THEN Truncate /\ ops' = [ops EXCEPT ![t].step = "write", ![t].db = mars_db]
     ELSE ops' = [ops EXCEPT ![t] = Idle] /\ UNCHANGED <<file, event>>
  /\ UNCHANGED <<watched, heap, tainted, machines, thread, gitlab, registered, events>>

-----------------------------------------------------------------------------
(* The Mars thread: run() and sync_machines().                              *)

Referenced ==
  {ops[t].db : t \in Threads} \cup {ops[t].obj : t \in Threads}
    \cup {machines[d].home : d \in Duts} \cup {machines[d].db : d \in Duts}
Age == [g \in Referenced \cup {0} |->
          IF g = 0 THEN 0 ELSE 1 + Cardinality({h \in Referenced : 0 < h /\ h <= g})]

\* Mutant: there is no periodic check.
DueOnChange == ~ last_sync \/ event

\* Nothing was synced yet, inotify saw a change, or 30 minutes passed.
Due == ~ last_sync \/ event \/ last_sync

\* inotify.read() timed out and nothing is due.
Poll == mpc = "idle" /\ last_sync /\ ~ event /\ UNCHANGED vars

\* MarsDB.from_file(); a file that cannot be parsed raises.  The changes seen by
\* inotify are read, and forgotten, before that.
Load ==
  /\ mpc = "idle" /\ Due
  /\ event' = (event /\ ~ last_sync)
  /\ IF file = Corrupt
     THEN UNCHANGED <<heap, tainted, machines, ops, thread, registered>>
     ELSE /\ heap' = <<file>> \o [i \in 1 .. Cardinality(Referenced \ {0}) |->
                                    heap[CHOOSE g \in Referenced : Age[g] = i + 1]]
          /\ tainted' = {Age[g] : g \in tainted \cap Referenced}
          /\ machines' = [d \in Duts |-> [machines[d] EXCEPT !.home = Age[@], !.db = Age[@]]]
          /\ ops' = [t \in Threads |-> [ops[t] EXCEPT !.db = Age[@], !.obj = Age[@]]]
          /\ mpc' = "update" /\ todo' = In(file) /\ keys' = In(file)
          /\ local' = {d \in Duts : machines[d].known} \ In(file)
          /\ registered' = {ops[t].dut : t \in {u \in Threads : ops[u].call = "register"}}
          /\ UNCHANGED <<at, last_sync>>
  /\ UNCHANGED <<file, watched, gitlab, events>>

Goto(pc, work) == mpc' = pc /\ todo' = work /\ UNCHANGED <<keys, local, at, last_sync>>
\* The dictionary of the machines may not grow while a loop goes through it.
Grown == In(Current) # keys

\* The exception is printed, and run() tries again in 60 seconds: if something
\* is due by then.
Raise ==
  /\ mpc' = "idle" /\ todo' = {} /\ keys' = {} /\ local' = {} /\ at' = NoDut
  /\ UNCHANGED <<file, watched, event, machines, ops, last_sync, registered>>

\* A PDU, the network configuration, GitLab or a template fails.
SyncRaises ==
  /\ mpc \in {"update", "store", "gateway", "expose", "config"} /\ Happens
  /\ Raise /\ UNCHANGED <<heap, tainted, gitlab>>
LoopRaises ==
  /\ mpc \in {"update", "expose"} /\ Grown
  /\ Raise /\ UNCHANGED <<heap, tainted, gitlab, events>>

\* Mutant: update_config() of a known machine keeps its ConfigDUT.
UpdateUnknownMachine ==
  /\ mpc = "update" /\ ~ Grown
  /\ IF todo = {}
     THEN Goto("remove", local) /\ UNCHANGED machines
     ELSE \E d \in todo :
            /\ machines' = [machines EXCEPT ![d] = IF @.known THEN @ ELSE
                              [known |-> TRUE, home |-> mars_db, db |-> mars_db]]
            /\ mpc' = "store" /\ todo' = todo \ {d} /\ at' = [dut |-> d, obj |-> mars_db]
            /\ UNCHANGED <<keys, local, last_sync>>
  /\ UNCHANGED <<file, watched, event, heap, tainted, ops, gitlab, registered, events>>

\* _machine_update_or_create() of a machine of the database, which stores its ConfigDUT
\* there again: in spite of a registration that stored another one meanwhile.
UpdateMachine ==
  /\ mpc = "update" /\ ~ Grown
  /\ IF todo = {}
     THEN Goto("remove", local) /\ UNCHANGED machines
     ELSE \E d \in todo :
            /\ machines' = [machines EXCEPT ![d] = [known |-> TRUE, home |-> mars_db, db |-> mars_db]]
            /\ mpc' = "store" /\ todo' = todo \ {d} /\ at' = [dut |-> d, obj |-> mars_db]
            /\ UNCHANGED <<keys, local, last_sync>>
  /\ UNCHANGED <<file, watched, event, heap, tainted, ops, gitlab, registered, events>>

StoreMachine ==
  /\ mpc = "store"
  /\ StoreDut(at.dut, at.obj)
  /\ mpc' = "update" /\ at' = NoDut
  /\ UNCHANGED <<file, watched, event, ops, todo, keys, local, last_sync, gitlab, registered, events>>

\* Machine.remove() stops the executor and waits for the end of its thread.
RemoveMachine ==
  /\ mpc = "remove"
  /\ IF todo = {}
     THEN Goto("gateway", {}) /\ UNCHANGED machines
     ELSE \E d \in todo :
            /\ \A t \in Threads : ~ (ops[t].call = "ready" /\ ops[t].dut = d)
            /\ machines' = [machines EXCEPT ![d] = IF \E t \in Threads : ops[t].dut = d
                                                   THEN [@ EXCEPT !.known = FALSE] ELSE NoMachine]
            /\ Goto("remove", todo \ {d})
  /\ UNCHANGED <<file, watched, event, heap, tainted, ops, gitlab, registered, events>>

ExposeGateway ==
  LET entry == Current[Gateway] IN
  /\ mpc = "gateway"
  /\ IF entry = Absent
     THEN UNCHANGED <<heap, tainted, gitlab, events>>
     ELSE \E new \in 0 .. MaxTokens :
            /\ VerifyOrRenewToken(Gateway, entry.token, new)
            /\ Assign(mars_db, Gateway, [entry EXCEPT !.token = new])
  /\ mpc' = "expose" /\ todo' = In(Current) /\ keys' = In(Current)
  /\ UNCHANGED <<file, watched, event, machines, ops, local, at, last_sync, registered>>

\* Mutant: the token of a new runner is not kept.
ExposeOnForgesUnsaved(d) ==
  LET entry == Current[d] IN
  /\ IF ~ entry.retired /\ ~ entry.ready
     THEN UNCHANGED <<gitlab, events>>
     ELSE \E new \in 0 .. MaxTokens : IF entry.retired THEN Remove(d, entry.token, new)
                                      ELSE VerifyOrRenewToken(d, entry.token, new)
  /\ UNCHANGED <<heap, tainted>>

\* expose_on_forges(): an available machine gets a runner, a retired one loses it.
ExposeOnForges(d) ==
  LET entry == Current[d] IN
  IF ~ entry.retired /\ ~ entry.ready
  THEN UNCHANGED <<heap, tainted, gitlab, events>>
  ELSE \E new \in 0 .. MaxTokens :
         /\ IF entry.retired THEN Remove(d, entry.token, new)
                             ELSE VerifyOrRenewToken(d, entry.token, new)
         /\ Assign(mars_db, d, [entry EXCEPT !.token = new])

Expose ==
  /\ mpc = "expose" /\ ~ Grown
  /\ IF todo = {}
     THEN Goto("config", {}) /\ UNCHANGED <<heap, tainted, gitlab, events>>
     ELSE \E d \in todo : ExposeOnForges(d) /\ Goto("expose", todo \ {d})
  /\ UNCHANGED <<file, watched, event, machines, ops, registered>>

\* GitLab registers a runner, and its answer is lost: nobody has the token.
RegisterUnanswered == \E o \in IF mpc = "gateway" THEN {Gateway} ELSE todo :
  LET entry == Current[o] IN
  /\ mpc = "gateway" \/ (mpc = "expose" /\ ~ Grown)
  /\ entry # Absent /\ entry.ready /\ ~ entry.retired
  /\ <<o, entry.token>> \notin runners /\ issued[o] < MaxTokens
  /\ issued' = [issued EXCEPT ![o] = @ + 1] /\ runners' = runners \cup {<<o, issued[o] + 1>>}
  /\ Assign(mars_db, o, [entry EXCEPT !.token = Invalid])
  /\ Happens /\ Raise

Done ==
  /\ mpc' = "idle" /\ todo' = {} /\ keys' = {} /\ local' = {} /\ last_sync' = TRUE
  /\ UNCHANGED at

\* generate_runner_config() and save_db_if_needed().
SyncSave ==
  /\ mpc = "config"
  /\ IF mars_db \in tainted THEN Truncate /\ Goto("write", {})
                            ELSE Done /\ UNCHANGED <<file, event>>
  /\ UNCHANGED <<watched, heap, tainted, machines, ops, gitlab, registered, events>>

SyncWrite ==
  /\ mpc = "write"
  /\ Dump(mars_db) /\ Goto("taint", {})
  /\ UNCHANGED <<watched, heap, tainted, machines, ops, gitlab, registered, events>>

SyncWritten ==
  /\ mpc = "taint"
  /\ ResetTaint(mars_db) /\ Done
  /\ UNCHANGED <<file, watched, event, heap, machines, ops, gitlab, registered, events>>

-----------------------------------------------------------------------------
(* The administrator adds or removes a machine, in place or by replacing    *)
(* the file, which ends the watch; or removes a runner on GitLab.           *)

Edit == \E d \in Duts, entry \in {Absent, NewEntry}, replaced \in BOOLEAN :
  /\ file # Corrupt /\ entry # file[d]
  /\ Happens
  /\ file' = [file EXCEPT ![d] = entry]
  /\ event' = (event \/ watched) /\ watched' = (watched /\ ~ replaced)
  /\ UNCHANGED <<heap, tainted, machines, ops, thread, gitlab, registered>>

\* The executor's process is killed and started again: what was not written is lost.
Restart ==
  /\ last_sync /\ Happens
  /\ event' = FALSE /\ watched' = TRUE /\ last_sync' = FALSE
  /\ heap' = <<Empty>> /\ tainted' = {} /\ machines' = [d \in Duts |-> NoMachine]
  /\ ops' = [t \in Threads |-> Idle]
  /\ mpc' = "idle" /\ todo' = {} /\ keys' = {} /\ local' = {} /\ at' = NoDut /\ registered' = {}
  /\ UNCHANGED <<file, gitlab>>

Revoke == \E r \in runners :
  /\ Happens
  /\ runners' = runners \ {r}
  /\ UNCHANGED <<file, watched, event, heap, tainted, machines, ops, thread, issued, registered>>

-----------------------------------------------------------------------------
Call(t) ==
  \/ UpdateSet(t) \/ UpdateSave(t) \/ Write(t) \/ Written(t)
  \/ RegisterGet(t) \/ RegisterUpdate(t) \/ RegisterStore(t) \/ RegisterSave(t)
Sync ==
  \/ Load \/ LoopRaises \/ UpdateMachine \/ StoreMachine \/ RemoveMachine \/ ExposeGateway
  \/ Expose \/ SyncSave \/ SyncWrite \/ SyncWritten

Next ==
  \/ Sync \/ SyncRaises \/ RegisterUnanswered \/ Poll \/ Edit \/ Revoke \/ Restart
  \/ \E t \in Threads : UpdateCheck(t) \/ Register(t) \/ UpdateRaises(t) \/ RegisterRaises(t) \/ Call(t)

\* Neither the Mars thread nor a call that began stops half-way.
Spec == Init /\ [][Next]_vars /\ WF_vars(Sync) /\ \A t \in Threads : WF_vars(Call(t))

-----------------------------------------------------------------------------
(* Properties.                                                              *)

\* Once sync_machines() removed what it did not find, every machine reads its
\* configuration in Mars.mars_db: no reload leaves a machine, and its executor, on a
\* replaced database or without an entry; unless the machine registered meanwhile.
NoStaleMachine ==
  mpc \in {"gateway", "expose", "config", "write", "taint"} =>
    \A d \in Duts \ registered :
      machines[d].known => machines[d].home = mars_db /\ d \in In(Current)

\* When nobody updates the database any more, the machines and their
\* configurations come to be those of the file, and stay so, whatever syncs
\* failed, whatever was read of a half-written file and even if the file is not
\* watched any more; unless two saves at once spoiled the file.  A machine whose
\* configuration is in no database, or in a replaced one, finds the current one again.
InSync ==
  file # Corrupt =>
    \A d \in Duts : /\ machines[d].known <=> d \in In(file)
                    /\ machines[d].known => heap[machines[d].home][d] = file[d]
Attached == \A d \in Duts : machines[d].known => machines[d].home = mars_db
EventuallyInSync == <>[]InSync /\ []<>(file # Corrupt => Attached)

\* The runners of a machine whose token is not in the file.
Orphans(d) == {r \in runners : r[1] = d /\ r[2] # file[d].token}

\* A machine that stays retired is unregistered from GitLab in the end
\* (expose_on_forges()), even if GitLab refused at first.  Each runner that nobody can
\* unregister any more was lost by something that went wrong: a sync that failed after it
\* registered one, an answer or an update that was lost, an edit; the retirement itself
\* loses none.
RetiredIsUnregistered ==
  <>[](file # Corrupt =>
         \A d \in In(file) : file[d].retired =>
           /\ <<d, file[d].token>> \notin runners
           /\ Cardinality(Orphans(d)) < events)
=============================================================================
