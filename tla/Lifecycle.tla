----------------------------- MODULE Lifecycle -----------------------------
(***************************************************************************)
(* The instances of one *arr type from startup to shutdown: the settings   *)
(* in memory and in the TOML file, the clients, jobs and state entries     *)
(* that follow them, the handlers that change them and the searches that   *)
(* use them, all around one search lock (triggarr/search/scheduler.py,     *)
(* triggarr/web/routes.py, triggarr/config.py).                            *)
(*                                                                         *)
(* A handler reads what it needs, waits for the lock, and changes things   *)
(* under it; an action ends where the coroutine awaits.  What a search     *)
(* does with its entry is in SearchCycle; here an entry is absent, fresh   *)
(* or used.                                                                *)
(***************************************************************************)
EXTENDS Integers, Sequences, FiniteSets

CONSTANTS
  Names,         \* names an instance may have
  Urls,          \* addresses of *arr servers
  NoUrl,         \* the empty address
  Fresh,         \* the configuration an added instance gets
  FormConfigs,   \* what a settings form may say of an instance
  FirstConfigs,  \* the instances the program may find in its first file
  MaxInstances,  \* 5 in the code
  Requests,      \* web requests that may run at the same time
  MaxRequests,   \* bound: web requests of a run
  MaxFaults      \* bound: failed writes and crashes of a run

Cfg == [enabled : BOOLEAN, url : Urls \cup {NoUrl}]

Instances == UNION {[N -> Cfg] : N \in SUBSET Names}

(* A name has at most 32 characters of a fixed alphabet.                   *)
ASSUME NamesAssumption == IsFiniteSet(Names)

ASSUME ConfigsAssumption ==
  /\ NoUrl \notin Urls /\ Fresh \in Cfg /\ ~Fresh.enabled
  /\ FormConfigs \subseteq Cfg /\ FirstConfigs \subseteq Instances
  /\ \A f \in FirstConfigs : Cardinality(DOMAIN f) <= MaxInstances

ASSUME ProcessesAssumption ==
  /\ Names \cap Requests = {} /\ "drain" \notin Names \cup Requests
  /\ {MaxInstances, MaxRequests, MaxFaults} \subseteq Nat

VARIABLES
  up,         \* the lifespan: "up", "draining", "closed" or "forced"
  file,       \* triggarr.toml: instances and credentials
  stateFile,  \* state.json: the entries
  settings,   \* app.state.settings, its identity and how often it changed
  clients,    \* app.state.*_clients: which of its clients a name has, or 0
  conns,      \* per name, every client made for it
  jobs,       \* the names with a job in the scheduler
  entries,    \* app.state.triggarr_state
  queue,      \* the search lock: its holder, then those who wait, in order
  proc,       \* the coroutines: a request's, and a job's, named as its instance
  overlap,    \* history: a change was applied over one its handler never saw
  sent,       \* history: web requests so far
  faults      \* history: faults so far

disk    == <<file, stateFile>>
live    == <<settings, clients, conns, jobs, entries>>
history == <<overlap, sent, faults>>
vars    == <<up, disk, live, queue, proc, history>>

None == <<>>   \* no instances

Active(cfg) == cfg.enabled /\ cfg.url # NoUrl

Enabled == {x \in DOMAIN settings.insts : Active(settings.insts[x])}

Without(f, x) == [y \in DOMAIN f \ {x} |-> f[y]]

(* The settings library fills what is not given to Settings(...) from the  *)
(* file, instance by instance.                                             *)
FilledFromFile(insts) ==
  [x \in DOMAIN insts \cup DOMAIN file.insts |->
     IF x \in DOMAIN insts THEN insts[x] ELSE file.insts[x]]

Valid(insts) == Cardinality(DOMAIN insts) <= MaxInstances

Config(insts, auth) == [insts |-> insts, auth |-> auth]

(* Settings hold the content of a Config; object tells one from the next,  *)
(* rev counts changes.                                                     *)
NewSettings(config) ==
  [object |-> settings.object + 1, rev |-> settings.rev + 1,
   insts |-> config.insts, auth |-> config.auth]

Idle == [pc |-> "idle", kind |-> "none", name |-> "none", conn |-> 0,
         seen |-> [object |-> 0, rev |-> 0, insts |-> None, auth |-> 0,
                   whole |-> TRUE],
         new |-> Config(None, 0), closing |-> {}]

Holds(p) == queue # <<>> /\ Head(queue) = p

At(p, kinds, pc) == Holds(p) /\ proc[p].kind \in kinds /\ proc[p].pc = pc

Becomes(p, pc) == proc' = [proc EXCEPT ![p].pc = pc]

(* The client a job or request took hold of is still open. *)
IsOpen(p) == conns[proc[p].name][proc[p].conn].open

(* Changed form: who comes waits before those who wait already. *)
EnqueueFirst(q, p) ==
  IF q = <<>> THEN <<p>> ELSE <<Head(q), p>> \o Tail(q)

(* asyncio.Lock is fair: first come, first served. *)
Enqueue(q, p) == Append(q, p)

Wait(p, kind, rec) ==
  /\ queue' = Enqueue(queue, p)
  /\ proc' = [proc EXCEPT ![p] = [rec EXCEPT !.pc = "queued", !.kind = kind]]

(* The request or job gives the lock back and is over. *)
Return(p) == queue' = Tail(queue) /\ proc' = [proc EXCEPT ![p] = Idle]

Fault == faults < MaxFaults /\ faults' = faults + 1

----------------------------------------------------------------------------
(* From the files to a running program. *)

(* state.json without the entries of instances that are gone, and a fresh  *)
(* entry for every instance that has none.                                 *)
EntriesFor(insts, stored) ==
  [x \in Names |-> IF x \notin DOMAIN insts THEN "absent"
                   ELSE IF stored[x] = "absent" THEN "fresh" ELSE stored[x]]

Started(insts) == {x \in DOMAIN insts : Active(insts[x])}

FirstClients(insts) == [x \in Names |-> IF x \in Started(insts) THEN 1 ELSE 0]

FirstConns(insts) ==
  [x \in Names |-> IF x \in Started(insts)
                   THEN <<[url |-> insts[x].url, open |-> TRUE]>> ELSE <<>>]

FirstSettings(config) ==
  [object |-> 1, rev |-> 1, insts |-> config.insts, auth |-> config.auth]

Nobody == [p \in Requests \cup Names |-> Idle]

Init ==
  /\ \E insts \in FirstConfigs : file = Config(insts, 0)
  /\ stateFile = [x \in Names |-> "absent"]
  /\ up = "up" /\ queue = <<>> /\ proc = Nobody
  /\ settings = FirstSettings(file)
  /\ entries = EntriesFor(file.insts, stateFile)
  /\ clients = FirstClients(file.insts) /\ conns = FirstConns(file.insts)
  /\ jobs = Started(file.insts)
  /\ overlap = FALSE /\ sent = 0 /\ faults = 0

(* The lifespan sets everything up from the files before it yields. *)
Boot ==
  /\ up' = "up" /\ queue' = <<>> /\ proc' = Nobody
  /\ settings' = FirstSettings(file)
  /\ entries' = EntriesFor(file.insts, stateFile)
  /\ clients' = FirstClients(file.insts) /\ conns' = FirstConns(file.insts)
  /\ jobs' = Started(file.insts)
  /\ overlap' = FALSE
  /\ UNCHANGED <<disk, sent>>

Restart == up \in {"closed", "forced"} /\ Boot /\ UNCHANGED faults

Crash == up \in {"up", "draining"} /\ Fault /\ Boot

----------------------------------------------------------------------------
(* Up to the lock. *)

(* The settings as a handler sees them before it waits; whole says whether *)
(* the file held the same then.                                            *)
View == [object |-> settings.object, rev |-> settings.rev,
         insts |-> settings.insts, auth |-> settings.auth,
         whole |-> file = Config(settings.insts, settings.auth)]

(* Requests are alike: the next one is any that is free. *)
Submit(r) ==
  /\ up = "up" /\ proc[r] = Idle /\ r = CHOOSE q \in Requests : proc[q] = Idle
  /\ sent < MaxRequests /\ sent' = sent + 1
  /\ UNCHANGED <<up, disk, live, overlap, faults>>

(* Changed form: what the form does not say is empty. *)
EmptyAuth == 0

(* A form says nothing of the credentials: they are filled from the file.  *)
FilledAuth == file.auth

(* A form lists the instances its page showed, which may be out of date; a *)
(* form without any keeps those of the settings.                           *)
SubmitSave(r) ==
  \E N \in SUBSET Names : \E form \in [N -> FormConfigs] :
    LET new == FilledFromFile(IF N = {} THEN settings.insts ELSE form) IN
    /\ Submit(r) /\ Valid(new)
    /\ Wait(r, "save", [Idle EXCEPT !.seen = View,
                                    !.new = Config(new, FilledAuth)])

SubmitAdd(r, x) ==
  LET insts == [y \in DOMAIN settings.insts \cup {x} |->
                  IF y = x THEN Fresh ELSE settings.insts[y]]
      new == FilledFromFile(insts) IN
  /\ Submit(r)
  /\ x \notin DOMAIN settings.insts /\ Valid(insts) /\ Valid(new)
  /\ Wait(r, "add", [Idle EXCEPT !.name = x, !.seen = View,
                                 !.new = Config(new, settings.auth)])

SubmitRemove(r, x) ==
  /\ Submit(r) /\ x \in DOMAIN settings.insts
  /\ Wait(r, "remove", [Idle EXCEPT !.name = x, !.seen = View])

(* First setup, a new password, another method, a new API key: they read   *)
(* the settings when they have the lock.                                   *)
SubmitAuth(r) == Submit(r) /\ Wait(r, "auth", Idle)

(* A job and a search request take the client and the configuration that   *)
(* are current before they wait.                                           *)
Found(x) == [Idle EXCEPT !.name = x, !.conn = clients[x]]

MaySearch(x) == x \in Enabled /\ clients[x] # 0

SubmitSearch(r, x) == Submit(r) /\ MaySearch(x) /\ Wait(r, "search", Found(x))

SubmitRefresh(r, x) == Submit(r) /\ MaySearch(x) /\ Wait(r, "refresh", Found(x))

JobFires(x) ==
  /\ up = "up" /\ x \in jobs /\ proc[x] = Idle
  /\ MaySearch(x) /\ Wait(x, "job", Found(x))
  /\ UNCHANGED <<up, disk, live, history>>

----------------------------------------------------------------------------
(* Under the lock: the file first, then the memory. *)

SeenIsCurrent(r) ==
  /\ proc[r].seen.object = settings.object /\ proc[r].seen.rev = settings.rev
  /\ proc[r].seen.whole

(* remove_instance deletes from the dictionary it saw, which every holder  *)
(* of the same settings object shares.                                     *)
RemoveFromSettings(r) ==
  LET x == proc[r].name
      o == proc[r].seen.object IN
  /\ At(r, {"remove"}, "queued")
  /\ IF x \notin DOMAIN proc[r].seen.insts
     THEN Return(r) /\ UNCHANGED <<settings, overlap>>
     ELSE /\ proc' = [p \in DOMAIN proc |->
                LET q == IF p = r THEN [proc[p] EXCEPT !.pc = "removed"]
                         ELSE proc[p] IN
                IF q.seen.object = o
                THEN [q EXCEPT !.seen.insts = Without(q.seen.insts, x)] ELSE q]
          /\ settings' = IF settings.object # o THEN settings
                         ELSE [settings EXCEPT !.insts = Without(settings.insts, x),
                                               !.rev = settings.rev + 1]
          /\ overlap' = (overlap \/ ~SeenIsCurrent(r))
          /\ UNCHANGED queue
  /\ UNCHANGED <<up, disk, clients, conns, jobs, entries, sent, faults>>

(* What a request writes, and from where it may. *)
Content(r) ==
  CASE proc[r].kind \in {"save", "add"} -> proc[r].new
    [] proc[r].kind = "remove" -> Config(proc[r].seen.insts, proc[r].seen.auth)
    [] proc[r].kind = "auth"   -> Config(settings.insts, settings.auth + 1)

MayWrite(r) == At(r, {"save", "add", "auth"}, "queued") \/ At(r, {"remove"}, "removed")

Write(r) ==
  /\ MayWrite(r)
  /\ file' = Content(r) /\ Becomes(r, "written")
  /\ UNCHANGED <<up, stateFile, live, queue, history>>

(* The file stays as it was; what remove_instance deleted stays deleted. *)
WriteFails(r) ==
  /\ MayWrite(r) /\ Fault /\ Return(r)
  /\ overlap' = (overlap \/ proc[r].kind = "remove")
  /\ UNCHANGED <<up, disk, live, sent>>

(* Setup found an account, or the current password was wrong. *)
AuthRefused(r) ==
  At(r, {"auth"}, "queued") /\ Return(r) /\ UNCHANGED <<up, disk, live, history>>

ApplyAuth(r) ==
  /\ At(r, {"auth"}, "written") /\ Return(r)
  /\ settings' = NewSettings(file)
  /\ UNCHANGED <<up, disk, clients, conns, jobs, entries, history>>

ApplyAdd(r) ==
  /\ At(r, {"add"}, "written") /\ Return(r)
  /\ settings' = NewSettings(proc[r].new)
  /\ entries' = [entries EXCEPT ![proc[r].name] = "fresh"]
  /\ overlap' = (overlap \/ ~SeenIsCurrent(r))
  /\ UNCHANGED <<up, disk, clients, conns, jobs, sent, faults>>

(* Clients of instances that are gone or disabled. *)
DroppedBy(new) ==
  {x \in Names : clients[x] # 0 /\ ~(x \in DOMAIN new /\ new[x].enabled)}

(* Changed form: the address is not compared. *)
RenewedIfMissing(old, new) ==
  {x \in DOMAIN new : new[x].enabled /\ (x \notin DOMAIN old \/ clients[x] = 0)}

(* Enabled instances that need a new client, old being the settings as     *)
(* they were before the handler waited.                                    *)
RenewedBy(old, new) ==
  {x \in DOMAIN new :
     /\ new[x].enabled
     /\ \/ x \notin DOMAIN old \/ clients[x] = 0
        \/ new[x].url # old[x].url}

(* Changed form: a client that is replaced is forgotten, not closed. *)
ClosedDropped(dropped, renewed) == {<<x, clients[x]>> : x \in dropped}

(* Clients to close once the lock is released. *)
ToClose(dropped, renewed) ==
  {<<x, clients[x]>> : x \in {y \in dropped \cup renewed : clients[y] # 0}}

ApplySave(r) ==
  LET new     == proc[r].new.insts
      on      == {x \in DOMAIN new : new[x].enabled}
      dropped == DroppedBy(new)
      renewed == RenewedBy(proc[r].seen.insts, new) IN
  /\ At(r, {"save"}, "written")
  /\ settings' = NewSettings(proc[r].new)
  /\ clients' = [x \in Names |-> IF x \in dropped THEN 0
                                 ELSE IF x \in renewed THEN Len(conns[x]) + 1
                                 ELSE clients[x]]
  /\ conns' = [x \in Names |-> IF x \notin renewed THEN conns[x]
                 ELSE Append(conns[x], [url |-> new[x].url, open |-> TRUE])]
  /\ jobs' = (jobs \ dropped) \cup on
  /\ entries' = [x \in Names |-> IF x \in on /\ entries[x] = "absent"
                                 THEN "fresh" ELSE entries[x]]
  /\ proc' = [proc EXCEPT ![r].pc = "applied",
                          ![r].closing = ToClose(dropped, renewed)]
  /\ overlap' = (overlap \/ ~SeenIsCurrent(r))
  /\ UNCHANGED <<up, disk, queue, sent, faults>>

Closed(set) ==
  [x \in Names |-> [i \in DOMAIN conns[x] |->
     IF <<x, i>> \in set THEN [conns[x][i] EXCEPT !.open = FALSE] ELSE conns[x][i]]]

(* The request closes one of the clients and goes on with the rest. *)
CloseOneOf(r, set) ==
  IF set = {} THEN proc' = [proc EXCEPT ![r] = Idle] /\ UNCHANGED conns
  ELSE \E c \in set :
         /\ conns' = Closed({c})
         /\ proc' = [proc EXCEPT ![r] =
              IF set = {c} THEN Idle
              ELSE [proc[r] EXCEPT !.pc = "closing", !.closing = set \ {c}]]

(* state.json follows, the lock is released, and without another await the *)
(* first client is closed.                                                 *)
FinishSave(r) ==
  /\ At(r, {"save"}, "applied")
  /\ stateFile' = entries /\ queue' = Tail(queue)
  /\ CloseOneOf(r, proc[r].closing)
  /\ UNCHANGED <<up, file, settings, clients, jobs, entries, history>>

FinishFails(r) ==
  /\ At(r, {"save"}, "applied") /\ Fault /\ Return(r)
  /\ UNCHANGED <<up, disk, live, overlap, sent>>

ApplyRemove(r) ==
  LET x == proc[r].name IN
  /\ At(r, {"remove"}, "written") /\ queue' = Tail(queue)
  /\ jobs' = jobs \ {x} /\ clients' = [clients EXCEPT ![x] = 0]
  /\ entries' = [entries EXCEPT ![x] = "absent"]
  /\ CloseOneOf(r, ToClose({x}, {}))
  /\ UNCHANGED <<up, disk, settings, history>>

CloseNext(r) ==
  /\ proc[r].pc = "closing" /\ CloseOneOf(r, proc[r].closing)
  /\ UNCHANGED <<up, disk, settings, clients, jobs, entries, queue, history>>

----------------------------------------------------------------------------
(* Under the lock: searches. *)

(* A cycle leaves its mark on the entry and saves the state.  Without an   *)
(* entry it searches nothing and saves all the same.                       *)
CycleSaves(p) ==
  LET x == proc[p].name IN
  /\ At(p, {"job", "search"}, "queued") /\ (entries[x] = "absent" \/ IsOpen(p))
  /\ entries' = [entries EXCEPT ![x] = IF @ = "absent" THEN @ ELSE "used"]
  /\ stateFile' = entries' /\ Return(p)
  /\ UNCHANGED <<up, file, settings, clients, conns, jobs, history>>

(* A closed client raises what no handler of a cycle names. *)
CycleFails(p) ==
  LET x == proc[p].name IN
  /\ At(p, {"job", "search"}, "queued") /\ entries[x] # "absent" /\ Return(p)
  /\ \/ ~IsOpen(p) /\ UNCHANGED <<entries, faults>>
     \/ IsOpen(p) /\ Fault /\ entries' = [entries EXCEPT ![x] = "used"]
  /\ UNCHANGED <<up, disk, settings, clients, conns, jobs, overlap, sent>>

(* A count refresh saves nothing, and a request that finds another was     *)
(* quicker is turned away by the rate limit.                               *)
SavesNothing(r) ==
  At(r, {"search", "refresh"}, "queued") /\ Return(r)
  /\ UNCHANGED <<up, disk, live, history>>

----------------------------------------------------------------------------
(* Shutdown. *)

(* The server has answered every request; the lifespan asks for the lock.  *)
Stop ==
  /\ up = "up" /\ \A r \in Requests : proc[r] = Idle
  /\ up' = "draining" /\ queue' = Enqueue(queue, "drain")
  /\ UNCHANGED <<disk, live, proc, history>>

(* Changed form: who leaves takes the first place away. *)
LeaveFirst(p) == queue' = Tail(queue)

(* Everybody has one place in the queue.                                   *)
LeaveQueue(p) ==
  \E i \in DOMAIN queue :
    /\ queue[i] = p
    /\ queue' = SubSeq(queue, 1, i - 1) \o SubSeq(queue, i + 1, Len(queue))

(* A scheduler that shuts down cancels its jobs, which leave the lock. *)
JobCancelled(x) ==
  /\ up \in {"draining", "forced"} /\ proc[x] # Idle
  /\ LeaveQueue(x) /\ proc' = [proc EXCEPT ![x] = Idle]
  /\ UNCHANGED <<up, disk, live, history>>

CloseClients ==
  /\ conns' = Closed({<<x, clients[x]>> : x \in Names})
  /\ UNCHANGED <<disk, settings, clients, jobs, entries, proc, history>>

Drain ==
  /\ up = "draining" /\ queue # <<>> /\ Head(queue) = "drain"
  /\ up' = "closed" /\ queue' = Tail(queue) /\ CloseClients

DrainTimeout ==
  /\ up = "draining" /\ Head(queue) # "drain"
  /\ up' = "forced" /\ LeaveQueue("drain") /\ CloseClients

----------------------------------------------------------------------------
Arrive ==
  \/ \E r \in Requests :
       \/ SubmitSave(r) \/ SubmitAuth(r)
       \/ \E x \in Names : \/ SubmitAdd(r, x) \/ SubmitRemove(r, x)
                           \/ SubmitSearch(r, x) \/ SubmitRefresh(r, x)
  \/ \E x \in Names : JobFires(x)

(* What the holder of the lock does without a fault. *)
LockStep ==
  \/ \E r \in Requests :
       \/ RemoveFromSettings(r) \/ Write(r) \/ AuthRefused(r)
       \/ ApplyAuth(r) \/ ApplyAdd(r) \/ ApplySave(r) \/ ApplyRemove(r)
       \/ FinishSave(r) \/ SavesNothing(r)
  \/ \E p \in Requests \cup Names : CycleSaves(p) \/ CycleFails(p)

Next ==
  \/ Arrive \/ LockStep
  \/ \E r \in Requests : WriteFails(r) \/ FinishFails(r) \/ CloseNext(r)
  \/ Stop \/ Drain \/ DrainTimeout \/ Restart \/ Crash
  \/ \E x \in Names : JobCancelled(x)

Spec == Init /\ [][Next]_vars

(* The event loop serves the holder of the lock and every request that     *)
(* closes clients; timeouts bound each of their awaits.                    *)
FairSpec ==
  /\ Spec /\ WF_vars(LockStep)
  /\ \A r \in Requests : WF_vars(CloseNext(r))

----------------------------------------------------------------------------
TypeOK ==
  /\ up \in {"up", "draining", "closed", "forced"}
  /\ file.insts \in Instances /\ Valid(file.insts)
  /\ settings.insts \in Instances /\ Valid(settings.insts)
  /\ {file.auth, settings.auth} \subseteq 0 .. MaxRequests
  /\ stateFile \in [Names -> {"absent", "fresh", "used"}]
  /\ entries \in [Names -> {"absent", "fresh", "used"}]
  /\ \A x \in Names : clients[x] \in 0 .. Len(conns[x])
  /\ jobs \subseteq Names
  /\ Cardinality({queue[i] : i \in DOMAIN queue}) = Len(queue)
  /\ \A p \in Requests \cup Names :
       (\E i \in DOMAIN queue : queue[i] = p) <=> proc[p].pc \notin {"idle", "closing"}

(* Between two requests the parts agree, unless a handler worked on an     *)
(* outdated view: the file holds the settings; an enabled instance has its *)
(* job, a client for its address and an entry; nothing runs for others.    *)
InSync ==
  up = "up" /\ queue = <<>> /\ ~overlap =>
    /\ file = Config(settings.insts, settings.auth)
    /\ \A x \in Enabled :
         /\ x \in jobs /\ clients[x] # 0 /\ entries[x] # "absent"
         /\ conns[x][clients[x]].url = settings.insts[x].url
    /\ \A x \in Names : x \in jobs \/ clients[x] # 0 =>
         x \in DOMAIN settings.insts /\ settings.insts[x].enabled

(* A registered client is open for as long as the program is up; once no   *)
(* request is under way, any other is closed (unless a save failed), even  *)
(* if handlers worked on outdated views.                                   *)
OpenWhileRegistered ==
  up = "up" => \A x \in Names : \A i \in DOMAIN conns[x] :
    /\ i = clients[x] => conns[x][i].open
    /\ faults = 0 /\ (\A r \in Requests : proc[r] = Idle) /\ i # clients[x]
         => ~conns[x][i].open

(* The comment at the end of the lifespan: when the drain has succeeded    *)
(* and the connections are closed, nobody is left who might still write.   *)
ClosedAfterDrain ==
  up = "closed" => \A p \in Requests \cup Names : proc[p] = Idle

(* Whoever waits for the lock gets it: every request is answered, however  *)
(* often the jobs fire.                                                    *)
EveryRequestAnswered ==
  \A r \in Requests : (proc[r] # Idle) ~> (proc[r] = Idle)

(* The comment in change_password: the session secret is rotated, so old   *)
(* cookies are invalid from then on; old credentials never come back.      *)
AuthNeverReverts == [][settings'.auth >= settings.auth]_vars

(* What is true of it: they come back only because a handler has written   *)
(* what it read before others changed it, or has applied that since the    *)
(* program started.                                                        *)
Outdated(r) ==
  proc[r].kind \in {"save", "add"} /\ proc[r].pc = "written" /\ ~SeenIsCurrent(r)

OnlyOutdatedReverts ==
  [][settings'.auth < settings.auth => overlap \/ \E r \in Requests : Outdated(r)]_vars
============================================================================
