-------------------------- MODULE Lifecycle_proofs --------------------------
(***************************************************************************)
(* For any names, configurations, requests and faults: what is registered  *)
(* is open and what is not is closed; file, memory, clients and jobs agree *)
(* between two requests; the drain leaves nobody behind; everything keeps  *)
(* its type; old credentials come back only with an outdated view.         *)
(***************************************************************************)
EXTENDS Lifecycle, SequenceTheorems, FiniteSetTheorems, TLAPS

Processes == Requests \cup Names

(* Every client has its address and is open or not; the one registered for *)
(* a name is one of those made for it.                                     *)
AreClients(s) == \E U : s \in [Names -> Seq([url : U, open : BOOLEAN])]

ClientsInv ==
  /\ AreClients(conns)
  /\ clients \in [Names -> Nat] /\ \A x \in Names : clients[x] <= Len(conns[x])
  /\ faults \in Nat

(* What a request is going to close is not registered any more, and it     *)
(* goes on until all of it is closed.                                      *)
ClosingInv ==
  /\ DOMAIN proc = Processes /\ \A p \in Processes : DOMAIN proc[p] = DOMAIN Idle
  /\ \A p \in Processes : proc[p].closing # {} => proc[p].pc \in {"applied", "closing"}
  /\ \A p \in Processes, x \in Names, i \in Int :
       <<x, i>> \in proc[p].closing =>
         i \in 1..Len(conns[x]) /\ i # clients[x]

(* What is registered is open; what is open is registered or going to be   *)
(* closed, unless a fault has made a request forget it.                    *)
RegisteredInv ==
  up = "up" => \A x \in Names : \A i \in 1..Len(conns[x]) :
    /\ i = clients[x] => conns[x][i].open
    /\ faults = 0 /\ conns[x][i].open =>
         i = clients[x] \/ \E r \in Requests : <<x, i>> \in proc[r].closing

LifecycleInv == ClientsInv /\ ClosingInv /\ RegisteredInv

(* A sequence of clients stays one, with some of them closed or a new one. *)
WithClosed(s, I) ==
  [i \in DOMAIN s |-> IF i \in I THEN [s[i] EXCEPT !.open = FALSE] ELSE s[i]]

LEMMA ClientsAreClosed ==
  ASSUME NEW U, NEW s \in Seq([url : U, open : BOOLEAN]), NEW I
  PROVE  /\ WithClosed(s, I) \in Seq([url : U, open : BOOLEAN])
         /\ Len(WithClosed(s, I)) = Len(s)
         /\ \A i \in 1..Len(s) :
              WithClosed(s, I)[i].open <=> (s[i].open /\ i \notin I)
<1> DEFINE C == [url : U, open : BOOLEAN]
           t == WithClosed(s, I)
<1>1. DOMAIN s = 1..Len(s) /\ Len(s) \in Nat /\ \A i \in 1..Len(s) : s[i] \in C
  BY LenProperties, ElementOfSeq
<1>2. \A i \in 1..Len(s) : /\ t[i] \in C
                           /\ t[i].open <=> (s[i].open /\ i \notin I)
  BY <1>1 DEF WithClosed
<1>3. t \in [1..Len(s) -> C]
  BY <1>1, <1>2 DEF WithClosed
<1>4. t \in Seq(C) /\ Len(t) = Len(s)
  <2> HIDE DEF C, t
  <2>1. QED
    BY <1>1, <1>3
<1>5. QED
  BY <1>2, <1>4

LEMMA ClientIsMade ==
  ASSUME NEW U, NEW s \in Seq([url : U, open : BOOLEAN]), NEW u \in U
  PROVE  LET t == Append(s, [url |-> u, open |-> TRUE])
         IN  /\ t \in Seq([url : U, open : BOOLEAN]) /\ Len(t) = Len(s) + 1
             /\ t[Len(s) + 1].open /\ \A i \in 1..Len(s) : t[i] = s[i]
<1> DEFINE C == [url : U, open : BOOLEAN]
           c == [url |-> u, open |-> TRUE]
<1>1. s \in Seq(C)
  OBVIOUS
<1>2. c \in C /\ c.open
  OBVIOUS
<1> HIDE DEF C, c
<1>3. /\ Append(s, c) \in Seq(C) /\ Len(Append(s, c)) = Len(s) + 1
      /\ Append(s, c)[Len(s) + 1] = c
      /\ \A i \in 1..Len(s) : Append(s, c)[i] = s[i]
  BY <1>1, <1>2, AppendProperties
<1>4. QED
  BY <1>2, <1>3 DEF C, c

-----------------------------------------------------------------------------

(* After a start each instance that is active has one client.              *)
LEMMA FirstClientsFacts ==
  ASSUME NEW insts, NEW k \in {clients, clients'}, NEW s \in {conns, conns'},
         k = FirstClients(insts), s = FirstConns(insts)
  PROVE  /\ AreClients(s)
         /\ k \in [Names -> Nat]
         /\ \A x \in Names :
              /\ k[x] <= Len(s[x])
              /\ \A i \in 1..Len(s[x]) : i = k[x] /\ s[x][i].open
<1> DEFINE U == {insts[x].url : x \in DOMAIN insts}
<1>1. \A x \in Started(insts) : insts[x].url \in U
  BY DEF Started
<1>2. \A x \in Names :
        /\ s[x] \in Seq([url : U, open : BOOLEAN])
        /\ k[x] \in Nat /\ k[x] <= Len(s[x])
        /\ \A i \in 1..Len(s[x]) : i = k[x] /\ s[x][i].open
  <2>1. SUFFICES ASSUME NEW x \in Names
                 PROVE  /\ s[x] \in Seq([url : U, open : BOOLEAN])
                        /\ k[x] \in Nat /\ k[x] <= Len(s[x])
                        /\ \A i \in 1..Len(s[x]) : i = k[x] /\ s[x][i].open
    OBVIOUS
  <2> HIDE DEF U
  <2>2. CASE x \in Started(insts)
    <3> DEFINE c == [url |-> insts[x].url, open |-> TRUE]
    <3>1. c \in [url : U, open : BOOLEAN] /\ c.open
      BY <1>1, <2>2
    <3>2. s[x] = <<c>> /\ k[x] = 1
      BY <2>2 DEF FirstConns, FirstClients
    <3> HIDE DEF c
    <3>3. QED
      BY <3>1, <3>2
  <2>3. CASE x \notin Started(insts)
    <3>1. s[x] = <<>> /\ k[x] = 0
      BY <2>3 DEF FirstConns, FirstClients
    <3>2. QED
      BY <3>1
  <2>4. QED
    BY <2>2, <2>3
<1>3. DOMAIN s = Names /\ DOMAIN k = Names /\ s = [x \in Names |-> s[x]] /\ k = [x \in Names |-> k[x]]
  BY DEF FirstConns, FirstClients
<1> HIDE DEF U
<1>4. QED
  BY <1>2, <1>3 DEF AreClients

LEMMA LifecycleInit == Init => LifecycleInv
<1> SUFFICES ASSUME Init PROVE LifecycleInv
  OBVIOUS
<1>1. clients = FirstClients(file.insts) /\ conns = FirstConns(file.insts)
  BY DEF Init
<1>2. /\ AreClients(conns)
      /\ clients \in [Names -> Nat]
      /\ \A x \in Names :
           /\ clients[x] <= Len(conns[x])
           /\ \A i \in 1..Len(conns[x]) : i = clients[x] /\ conns[x][i].open
  BY <1>1, FirstClientsFacts
<1>3. ClosingInv
  BY DEF Init, Nobody, Idle, ClosingInv, Processes
<1>4. ClientsInv /\ RegisteredInv
  BY <1>2 DEF Init, ClientsInv, RegisteredInv
<1>5. QED
  BY <1>3, <1>4 DEF LifecycleInv

LEMMA BootStep ==
  ASSUME LifecycleInv, Boot, faults' \in {faults, faults + 1}
  PROVE  LifecycleInv'
<1>1. clients' = FirstClients(file.insts) /\ conns' = FirstConns(file.insts)
  BY DEF Boot
<1>2. /\ AreClients(conns')
      /\ clients' \in [Names -> Nat]
      /\ \A x \in Names :
           /\ clients'[x] <= Len(conns'[x])
           /\ \A i \in 1..Len(conns'[x]) : i = clients'[x] /\ conns'[x][i].open
  BY <1>1, FirstClientsFacts
<1>3. ClosingInv'
  BY DEF Boot, Nobody, Idle, ClosingInv, Processes
<1>4. ClientsInv' /\ RegisteredInv'
  BY <1>2 DEF LifecycleInv, ClientsInv, RegisteredInv
<1>5. QED
  BY <1>3, <1>4 DEF LifecycleInv

(* Most steps leave the clients alone, and what is going to be closed.     *)
LEMMA ClientsKept ==
  ASSUME LifecycleInv, UNCHANGED <<up, conns, clients>>, faults' \in {faults, faults + 1},
         DOMAIN proc' = Processes,
         \A p \in Processes :
           /\ DOMAIN proc'[p] = DOMAIN Idle /\ proc'[p].closing = proc[p].closing
           /\ proc[p].closing # {} => proc'[p].pc = proc[p].pc
  PROVE  LifecycleInv'
<1>1. ClientsInv'
  BY DEF LifecycleInv, ClientsInv
<1>2. ClosingInv'
  BY DEF LifecycleInv, ClosingInv
<1>3. RegisteredInv'
  BY DEF LifecycleInv, ClientsInv, RegisteredInv, Processes
<1>4. QED
  BY <1>1, <1>2, <1>3 DEF LifecycleInv

(* One process goes on; it has nothing to close before or after.           *)
LEMMA OneGoesOn ==
  ASSUME LifecycleInv, UNCHANGED <<up, conns, clients>>, faults' \in {faults, faults + 1},
         NEW p \in Processes, NEW rec, DOMAIN rec = DOMAIN Idle, rec.closing = {},
         proc[p].closing = {}, proc' = [proc EXCEPT ![p] = rec]
  PROVE  LifecycleInv'
<1>1. /\ DOMAIN proc' = Processes
      /\ \A q \in Processes : proc'[q] = IF q = p THEN rec ELSE proc[q]
  BY DEF LifecycleInv, ClosingInv
<1>2. QED
  BY <1>1, ClientsKept DEF LifecycleInv, ClosingInv

(* A process that is not about to close anything has nothing to close.     *)
LEMMA NothingToClose ==
  ASSUME LifecycleInv, NEW p \in Processes, proc[p].pc \notin {"applied", "closing"}
  PROVE  proc[p].closing = {}
BY DEF LifecycleInv, ClosingInv

(* A process begins to wait for the lock.                                  *)
LEMMA WaitStep ==
  ASSUME LifecycleInv, NEW p \in Processes, NEW kind, NEW rec,
         proc[p].closing = {}, DOMAIN rec = DOMAIN Idle, rec.closing = {},
         Wait(p, kind, rec), UNCHANGED <<up, conns, clients, faults>>
  PROVE  LifecycleInv'
<1> DEFINE new == [rec EXCEPT !.pc = "queued", !.kind = kind]
<1>1. DOMAIN new = DOMAIN Idle /\ new.closing = {}
  OBVIOUS
<1>2. proc' = [proc EXCEPT ![p] = new]
  BY DEF Wait
<1> HIDE DEF new
<1>3. QED
  BY <1>1, <1>2, OneGoesOn

LEMMA SubmitStep ==
  ASSUME LifecycleInv, NEW r \in Requests, NEW kind, NEW rec,
         DOMAIN rec = DOMAIN Idle, rec.closing = {}, Submit(r), Wait(r, kind, rec)
  PROVE  LifecycleInv'
<1>1. r \in Processes /\ proc[r].closing = {} /\ UNCHANGED <<up, conns, clients, faults>>
  BY DEF Submit, Idle, Processes, live
<1>2. QED
  BY <1>1, WaitStep

LEMMA IdleFields ==
  /\ Idle.closing = {}
  /\ \A name, conn, seen, new :
       /\ DOMAIN [Idle EXCEPT !.seen = seen, !.new = new] = DOMAIN Idle
       /\ [Idle EXCEPT !.seen = seen, !.new = new].closing = {}
       /\ DOMAIN [Idle EXCEPT !.name = name, !.seen = seen, !.new = new] = DOMAIN Idle
       /\ [Idle EXCEPT !.name = name, !.seen = seen, !.new = new].closing = {}
       /\ DOMAIN [Idle EXCEPT !.name = name, !.seen = seen] = DOMAIN Idle
       /\ [Idle EXCEPT !.name = name, !.seen = seen].closing = {}
       /\ DOMAIN [Idle EXCEPT !.name = name, !.conn = conn] = DOMAIN Idle
       /\ [Idle EXCEPT !.name = name, !.conn = conn].closing = {}
BY DEF Idle

LEMMA ArriveStep ==
  ASSUME LifecycleInv, Arrive
  PROVE  LifecycleInv'
<1>1. ASSUME NEW r \in Requests, SubmitSave(r)
      PROVE  LifecycleInv'
  <2>1. PICK new : Submit(r) /\ Wait(r, "save", [Idle EXCEPT !.seen = View, !.new = new])
    BY <1>1 DEF SubmitSave, FilledAuth
  <2>2. QED
    BY <2>1, IdleFields, SubmitStep
<1>2. ASSUME NEW r \in Requests, SubmitAuth(r)
      PROVE  LifecycleInv'
  BY <1>2, IdleFields, SubmitStep DEF SubmitAuth
<1>3. ASSUME NEW r \in Requests, NEW x \in Names, SubmitAdd(r, x)
      PROVE  LifecycleInv'
  <2>1. PICK new :
          Submit(r) /\ Wait(r, "add", [Idle EXCEPT !.name = x, !.seen = View, !.new = new])
    BY <1>3 DEF SubmitAdd
  <2>2. QED
    BY <2>1, IdleFields, SubmitStep
<1>4. ASSUME NEW r \in Requests, NEW x \in Names, SubmitRemove(r, x)
      PROVE  LifecycleInv'
  BY <1>4, IdleFields, SubmitStep DEF SubmitRemove
<1>5. ASSUME NEW r \in Requests, NEW x \in Names, SubmitSearch(r, x) \/ SubmitRefresh(r, x)
      PROVE  LifecycleInv'
  BY <1>5, IdleFields, SubmitStep DEF SubmitSearch, SubmitRefresh, Found
<1>6. ASSUME NEW x \in Names, JobFires(x)
      PROVE  LifecycleInv'
  <2>1. x \in Processes /\ proc[x].closing = {} /\ UNCHANGED <<up, conns, clients, faults>>
    BY <1>6 DEF JobFires, Idle, Processes, live, history
  <2>2. QED
    BY <1>6, <2>1, IdleFields, WaitStep DEF JobFires, Found
<1>7. QED
  BY <1>1, <1>2, <1>3, <1>4, <1>5, <1>6 DEF Arrive

(* A request gives the lock back without having anything to close.         *)
LEMMA ReturnStep ==
  ASSUME LifecycleInv, NEW p \in Processes, proc[p].closing = {}, Return(p),
         UNCHANGED <<up, conns, clients>>, faults' \in {faults, faults + 1}
  PROVE  LifecycleInv'
<1>1. proc' = [proc EXCEPT ![p] = Idle]
  BY DEF Return
<1>2. Idle.closing = {}
  BY DEF Idle
<1>3. QED
  BY <1>1, <1>2, OneGoesOn

LEMMA WriteStep ==
  ASSUME LifecycleInv, NEW r \in Requests, Write(r)
  PROVE  LifecycleInv'
<1>1. /\ r \in Processes /\ proc[r].pc \notin {"applied", "closing"}
      /\ UNCHANGED <<up, conns, clients, faults>> /\ Becomes(r, "written")
  BY DEF Write, MayWrite, At, live, history, Processes
<1>2. proc[r].closing = {} /\ DOMAIN proc[r] = DOMAIN Idle
  BY <1>1, NothingToClose DEF LifecycleInv, ClosingInv
<1> DEFINE rec == [proc[r] EXCEPT !.pc = "written"]
<1>3. DOMAIN rec = DOMAIN Idle /\ rec.closing = {} /\ proc' = [proc EXCEPT ![r] = rec]
  BY <1>1, <1>2 DEF Becomes, Idle
<1> HIDE DEF rec
<1>4. QED
  BY <1>1, <1>2, <1>3, OneGoesOn

LEMMA RemoveFromSettingsStep ==
  ASSUME LifecycleInv, NEW r \in Requests, RemoveFromSettings(r)
  PROVE  LifecycleInv'
<1>1. /\ r \in Processes /\ proc[r].pc = "queued" /\ proc[r].closing = {}
      /\ UNCHANGED <<up, conns, clients, faults>>
  BY NothingToClose DEF RemoveFromSettings, At, Processes
<1>2. CASE proc[r].name \notin DOMAIN proc[r].seen.insts
  BY <1>1, <1>2, ReturnStep DEF RemoveFromSettings
<1>3. CASE proc[r].name \in DOMAIN proc[r].seen.insts
  <2> DEFINE turn(p) == IF p = r THEN [proc[p] EXCEPT !.pc = "removed"] ELSE proc[p]
             o == proc[r].seen.object
             kept(p) == [turn(p) EXCEPT
                           !.seen.insts = Without(turn(p).seen.insts, proc[r].name)]
  <2>1. proc' = [p \in DOMAIN proc |->
                   IF turn(p).seen.object = o THEN kept(p) ELSE turn(p)]
    BY <1>3 DEF RemoveFromSettings
  <2>2. \A p \in Processes :
          /\ DOMAIN turn(p) = DOMAIN Idle /\ turn(p).closing = proc[p].closing
          /\ p # r => turn(p).pc = proc[p].pc
    BY DEF LifecycleInv, ClosingInv, Idle
  <2> HIDE DEF turn
  <2>3. \A p \in Processes :
          /\ DOMAIN kept(p) = DOMAIN Idle /\ kept(p).closing = turn(p).closing
          /\ kept(p).pc = turn(p).pc
    BY <2>2 DEF Idle
  <2> HIDE DEF kept, o
  <2>4. DOMAIN proc' = Processes /\ \A p \in Processes :
          /\ DOMAIN proc'[p] = DOMAIN Idle /\ proc'[p].closing = proc[p].closing
          /\ p # r => proc'[p].pc = proc[p].pc
    BY <2>1, <2>2, <2>3 DEF LifecycleInv, ClosingInv
  <2>5. QED
    BY <1>1, <2>4, ClientsKept
<1>4. QED
  BY <1>2, <1>3

(* The steps of a holder that gives the lock back with nothing to close.   *)
LEMMA ReturnSteps ==
  ASSUME LifecycleInv, NEW p \in Processes,
         \/ WriteFails(p) \/ AuthRefused(p) \/ ApplyAuth(p) \/ ApplyAdd(p)
         \/ SavesNothing(p) \/ CycleSaves(p) \/ CycleFails(p)
  PROVE  LifecycleInv'
<1>1. /\ Return(p) /\ proc[p].pc \notin {"applied", "closing"}
      /\ UNCHANGED <<up, conns, clients>> /\ faults' \in {faults, faults + 1}
  BY DEF WriteFails, MayWrite, AuthRefused, ApplyAuth, ApplyAdd, SavesNothing,
         CycleSaves, CycleFails, At, Fault, live, history
<1>2. QED
  BY <1>1, NothingToClose, ReturnStep

(* A failed save of the state forgets what was to be closed, and is a      *)
(* fault.                                                                  *)
LEMMA FinishFailsStep ==
  ASSUME LifecycleInv, NEW r \in Requests, FinishFails(r)
  PROVE  LifecycleInv'
<1>1. /\ UNCHANGED <<up, conns, clients>> /\ faults' = faults + 1
      /\ proc' = [proc EXCEPT ![r] = Idle]
  BY DEF FinishFails, Fault, Return, live
<1>2. ClientsInv' /\ faults' # 0
  BY <1>1 DEF LifecycleInv, ClientsInv
<1>3. ClosingInv'
  BY <1>1 DEF LifecycleInv, ClosingInv, Idle, Processes
<1>4. RegisteredInv'
  BY <1>1, <1>2 DEF LifecycleInv, RegisteredInv
<1>5. QED
  BY <1>2, <1>3, <1>4 DEF LifecycleInv

(* Steps of the shutdown.                                                  *)
LEMMA StopStep ==
  ASSUME LifecycleInv, Stop
  PROVE  LifecycleInv'
BY DEF LifecycleInv, ClientsInv, ClosingInv, RegisteredInv, Stop, live, history

LEMMA JobCancelledStep ==
  ASSUME LifecycleInv, NEW x \in Names, JobCancelled(x)
  PROVE  LifecycleInv'
<1>1. /\ UNCHANGED <<up, conns, clients, faults>> /\ up # "up"
      /\ proc' = [proc EXCEPT ![x] = Idle]
  BY DEF JobCancelled, live, history
<1>2. ClientsInv' /\ RegisteredInv'
  BY <1>1 DEF LifecycleInv, ClientsInv, RegisteredInv
<1>3. ClosingInv'
  BY <1>1 DEF LifecycleInv, ClosingInv, Idle, Processes
<1>4. QED
  BY <1>2, <1>3 DEF LifecycleInv

(* Whatever is closed, the clients stay what they are otherwise.           *)
LEMMA ClosedFacts ==
  ASSUME LifecycleInv, NEW set, conns' = Closed(set)
  PROVE  /\ AreClients(conns')
         /\ \A x \in Names :
              /\ Len(conns'[x]) = Len(conns[x])
              /\ \A i \in 1..Len(conns[x]) :
                   conns'[x][i].open <=> (conns[x][i].open /\ <<x, i>> \notin set)
<1>1. PICK U : conns \in [Names -> Seq([url : U, open : BOOLEAN])]
  BY DEF LifecycleInv, ClientsInv, AreClients
<1>2. ASSUME NEW x \in Names
      PROVE  /\ conns'[x] \in Seq([url : U, open : BOOLEAN])
             /\ Len(conns'[x]) = Len(conns[x])
             /\ \A i \in 1..Len(conns[x]) :
                  conns'[x][i].open <=> (conns[x][i].open /\ <<x, i>> \notin set)
  <2> DEFINE I == {i \in Nat : <<x, i>> \in set}
  <2>1. conns[x] \in Seq([url : U, open : BOOLEAN])
    BY <1>1
  <2>2. DOMAIN conns[x] = 1..Len(conns[x]) /\ Len(conns[x]) \in Nat
    BY <2>1, LenProperties
  <2>3. conns'[x] = WithClosed(conns[x], I)
    BY <2>2 DEF Closed, WithClosed
  <2>4. \A i \in 1..Len(conns[x]) : i \in I <=> <<x, i>> \in set
    BY <2>2
  <2> HIDE DEF I
  <2>5. /\ WithClosed(conns[x], I) \in Seq([url : U, open : BOOLEAN])
        /\ Len(WithClosed(conns[x], I)) = Len(conns[x])
        /\ \A i \in 1..Len(conns[x]) :
             WithClosed(conns[x], I)[i].open <=> (conns[x][i].open /\ i \notin I)
    BY <2>1, ClientsAreClosed
  <2>6. QED
    BY <2>3, <2>4, <2>5
<1>3. conns' \in [Names -> Seq([url : U, open : BOOLEAN])]
  BY <1>2 DEF Closed
<1>4. QED
  BY <1>2, <1>3 DEF AreClients

LEMMA DrainStep ==
  ASSUME LifecycleInv, Drain \/ DrainTimeout
  PROVE  LifecycleInv'
<1> DEFINE set == {<<x, clients[x]>> : x \in Names}
<1>1. conns' = Closed(set) /\ UNCHANGED <<clients, proc, faults>> /\ up' # "up"
  BY DEF Drain, DrainTimeout, CloseClients, history
<1> HIDE DEF set
<1>2. AreClients(conns') /\ \A x \in Names : Len(conns'[x]) = Len(conns[x])
  BY <1>1, ClosedFacts
<1>3. QED
  BY <1>1, <1>2 DEF LifecycleInv, ClientsInv, ClosingInv, RegisteredInv

(* A request closes one of the clients it is going to close.               *)
LEMMA CloseOneStep ==
  ASSUME LifecycleInv, NEW r \in Requests, CloseOneOf(r, proc[r].closing),
         UNCHANGED <<up, clients, faults>>
  PROVE  LifecycleInv'
<1>1. r \in Processes /\ DOMAIN proc[r] = DOMAIN Idle
  BY DEF LifecycleInv, ClosingInv, Processes
<1>2. CASE proc[r].closing = {}
  <2>1. proc' = [proc EXCEPT ![r] = Idle] /\ conns' = conns
    BY <1>2 DEF CloseOneOf
  <2>2. QED
    BY <1>1, <1>2, <2>1, IdleFields, OneGoesOn
<1>3. CASE proc[r].closing # {}
  <2>1. PICK c \in proc[r].closing :
          /\ conns' = Closed({c})
          /\ proc' = [proc EXCEPT ![r] =
               IF proc[r].closing = {c} THEN Idle
               ELSE [proc[r] EXCEPT !.pc = "closing", !.closing = proc[r].closing \ {c}]]
    BY <1>3 DEF CloseOneOf
  <2>2. /\ DOMAIN proc' = Processes
        /\ \A p \in Processes :
             /\ DOMAIN proc'[p] = DOMAIN Idle
             /\ proc'[p].closing = IF p = r THEN proc[p].closing \ {c} ELSE proc[p].closing
             /\ proc'[p].closing # {} => proc'[p].pc \in {"applied", "closing"}
    BY <1>1, <2>1 DEF LifecycleInv, ClosingInv, Idle
  <2>3. /\ AreClients(conns')
        /\ \A x \in Names :
             /\ Len(conns'[x]) = Len(conns[x])
             /\ \A i \in 1..Len(conns[x]) :
                  conns'[x][i].open <=> (conns[x][i].open /\ <<x, i>> # c)
    BY <2>1, ClosedFacts
  <2>4. ClientsInv'
    BY <2>3 DEF LifecycleInv, ClientsInv
  <2>5. ClosingInv'
    <3>1. ASSUME NEW p \in Processes, NEW x \in Names, NEW i \in Int,
                 <<x, i>> \in proc'[p].closing
          PROVE  i \in 1..Len(conns'[x]) /\ i # clients'[x]
      <4>1. <<x, i>> \in proc[p].closing
        BY <2>2, <3>1
      <4>2. i \in 1..Len(conns[x]) /\ i # clients[x]
        BY <4>1 DEF LifecycleInv, ClosingInv
      <4>3. QED
        BY <2>3, <4>2
    <3>2. \A p \in Processes, x \in Names, i \in Int :
            <<x, i>> \in proc'[p].closing => i \in 1..Len(conns'[x]) /\ i # clients'[x]
      BY <3>1
    <3>3. QED
      BY <2>2, <3>2 DEF ClosingInv
  <2>6. RegisteredInv'
    <3>1. SUFFICES ASSUME up = "up", NEW x \in Names, NEW i \in 1..Len(conns'[x])
                   PROVE  /\ i = clients[x] => conns'[x][i].open
                          /\ faults = 0 /\ conns'[x][i].open =>
                               i = clients[x] \/ \E q \in Requests : <<x, i>> \in proc'[q].closing
      BY DEF RegisteredInv
    <3>2. i \in 1..Len(conns[x]) /\ i \in Int
      BY <2>3, <3>1
    <3>3. i = clients[x] => <<x, i>> # c
      BY <1>1, <3>2 DEF LifecycleInv, ClosingInv
    <3>4. /\ i = clients[x] => conns[x][i].open
          /\ faults = 0 /\ conns[x][i].open =>
               i = clients[x] \/ \E q \in Requests : <<x, i>> \in proc[q].closing
      BY <3>1, <3>2 DEF LifecycleInv, RegisteredInv
    <3>5. ASSUME NEW q \in Requests, <<x, i>> \in proc[q].closing, <<x, i>> # c
          PROVE  <<x, i>> \in proc'[q].closing
      BY <2>2, <3>5 DEF Processes
    <3>6. QED
      BY <2>3, <3>2, <3>3, <3>4, <3>5
  <2>7. QED
    BY <2>4, <2>5, <2>6 DEF LifecycleInv
<1>4. QED
  BY <1>2, <1>3

LEMMA CloseSteps ==
  ASSUME LifecycleInv, NEW r \in Requests, FinishSave(r) \/ CloseNext(r)
  PROVE  LifecycleInv'
<1>1. CloseOneOf(r, proc[r].closing) /\ UNCHANGED <<up, clients, faults>>
  BY DEF FinishSave, CloseNext, history
<1>2. QED
  BY <1>1, CloseOneStep

(* An instance that is removed has its client taken away and closed.       *)
LEMMA ApplyRemoveStep ==
  ASSUME LifecycleInv, NEW r \in Requests, ApplyRemove(r)
  PROVE  LifecycleInv'
<1> DEFINE n == proc[r].name
           set == ToClose({n}, {})
<1>1. /\ UNCHANGED <<up, faults>> /\ clients' = [clients EXCEPT ![n] = 0]
      /\ CloseOneOf(r, set) /\ r \in Processes /\ proc[r].closing = {}
  BY NothingToClose DEF ApplyRemove, At, history, Processes
<1>2. set = IF clients[n] # 0 THEN {<<n, clients[n]>>} ELSE {}
  BY DEF ToClose
<1> HIDE DEF set
<1>3. /\ proc' = [proc EXCEPT ![r] = Idle]
      /\ IF set = {} THEN conns' = conns ELSE conns' = Closed(set)
  BY <1>1, <1>2 DEF CloseOneOf
<1>4. /\ DOMAIN proc' = Processes
      /\ \A p \in Processes :
           /\ DOMAIN proc'[p] = DOMAIN Idle
           /\ proc'[p].closing = proc[p].closing
           /\ proc'[p].closing # {} => proc'[p].pc \in {"applied", "closing"}
  BY <1>1, <1>3, IdleFields DEF LifecycleInv, ClosingInv
<1>5. /\ AreClients(conns')
      /\ \A x \in Names :
           /\ Len(conns'[x]) = Len(conns[x])
           /\ \A i \in 1..Len(conns[x]) :
                conns'[x][i].open <=> (conns[x][i].open /\ <<x, i>> \notin set)
  <2>1. CASE set = {}
    BY <1>3, <2>1 DEF LifecycleInv, ClientsInv, RegisteredInv
  <2>2. CASE set # {}
    BY <1>3, <2>2, ClosedFacts
  <2>3. QED
    BY <2>1, <2>2
<1>6. /\ clients' \in [Names -> Nat]
      /\ \A x \in Names : clients'[x] = IF x = n THEN 0 ELSE clients[x]
  BY <1>1 DEF LifecycleInv, ClientsInv
<1>7. \A x \in Names : Len(conns[x]) \in Nat
  BY LenProperties DEF LifecycleInv, ClientsInv, AreClients
<1>8. ClientsInv'
  BY <1>1, <1>5, <1>6, <1>7 DEF LifecycleInv, ClientsInv
<1>9. ClosingInv'
  BY <1>4, <1>5, <1>6 DEF LifecycleInv, ClosingInv
<1>10. RegisteredInv'
  <2>1. SUFFICES ASSUME up = "up", NEW x \in Names, NEW i \in 1..Len(conns'[x])
                 PROVE  /\ i = clients'[x] => conns'[x][i].open
                        /\ faults = 0 /\ conns'[x][i].open =>
                             i = clients'[x] \/ \E q \in Requests : <<x, i>> \in proc'[q].closing
    BY <1>1 DEF RegisteredInv
  <2>2. i \in 1..Len(conns[x]) /\ i # 0
    BY <1>5, <1>7, <2>1
  <2>3. /\ i = clients[x] => conns[x][i].open
        /\ faults = 0 /\ conns[x][i].open =>
             i = clients[x] \/ \E q \in Requests : <<x, i>> \in proc[q].closing
    BY <2>1, <2>2 DEF LifecycleInv, RegisteredInv
  <2>4. \A q \in Requests : proc'[q].closing = proc[q].closing
    BY <1>4 DEF Processes
  <2>5. <<x, i>> \in set <=> x = n /\ i = clients[x]
    BY <1>2, <2>2
  <2>6. QED
    BY <1>5, <1>6, <2>2, <2>3, <2>4, <2>5
<1>11. QED
  BY <1>8, <1>9, <1>10 DEF LifecycleInv

(* A save that is applied takes clients away and makes new ones; the ones  *)
(* they replace are going to be closed.                                    *)
LEMMA ApplySaveStep ==
  ASSUME LifecycleInv, NEW r \in Requests, ApplySave(r)
  PROVE  LifecycleInv'
<1> DEFINE new == proc[r].new.insts
           D   == DroppedBy(new)
           R   == RenewedBy(proc[r].seen.insts, new)
           set == ToClose(D, R)
<1>1. /\ UNCHANGED <<up, faults>> /\ r \in Processes /\ proc[r].closing = {}
      /\ clients' = [x \in Names |-> IF x \in D THEN 0
                                     ELSE IF x \in R THEN Len(conns[x]) + 1
                                     ELSE clients[x]]
      /\ conns' = [x \in Names |-> IF x \notin R THEN conns[x]
                     ELSE Append(conns[x], [url |-> new[x].url, open |-> TRUE])]
      /\ proc' = [proc EXCEPT ![r].pc = "applied", ![r].closing = set]
  BY NothingToClose DEF ApplySave, At, Processes
<1> r \in Processes
  BY <1>1
<1>2. \A x \in Names : x \in D => x \notin R
  BY DEF DroppedBy, RenewedBy
<1>3. \A x, i : <<x, i>> \in set <=> x \in D \cup R /\ clients[x] # 0 /\ i = clients[x]
  BY DEF ToClose
<1> DEFINE urls == {new[x].url : x \in R}
<1>4. \A x \in R : new[x].url \in urls
  OBVIOUS
<1> HIDE DEF D, R, set, urls
<1>5. /\ DOMAIN proc' = Processes
      /\ \A p \in Processes :
           /\ DOMAIN proc'[p] = DOMAIN Idle
           /\ proc'[p].closing = IF p = r THEN set ELSE proc[p].closing
           /\ proc'[p].closing # {} => proc'[p].pc \in {"applied", "closing"}
  BY <1>1 DEF LifecycleInv, ClosingInv, Idle
<1>6. /\ AreClients(conns')
      /\ \A x \in Names :
           /\ Len(conns[x]) \in Nat
           /\ Len(conns'[x]) = IF x \in R THEN Len(conns[x]) + 1 ELSE Len(conns[x])
           /\ x \in R => conns'[x][Len(conns[x]) + 1].open
           /\ \A i \in 1..Len(conns[x]) : conns'[x][i] = conns[x][i]
  <2>1. PICK U : conns \in [Names -> Seq([url : U, open : BOOLEAN])]
    BY DEF LifecycleInv, ClientsInv, AreClients
  <2> DEFINE V == U \cup urls
             C == [url : U, open : BOOLEAN]
             W == [url : V, open : BOOLEAN]
  <2>2. \A x \in Names : conns[x] \in Seq(W) /\ Len(conns[x]) \in Nat
    <3>1. C \subseteq W
      OBVIOUS
    <3>2. \A x \in Names : conns[x] \in Seq(C)
      BY <2>1
    <3> HIDE DEF C, W
    <3>3. QED
      BY <3>1, <3>2, LenProperties, ElementOfSeq, IsASeq, SeqDef
  <2>3. ASSUME NEW x \in Names
        PROVE  /\ conns'[x] \in Seq(W)
               /\ Len(conns'[x]) = IF x \in R THEN Len(conns[x]) + 1 ELSE Len(conns[x])
               /\ x \in R => conns'[x][Len(conns[x]) + 1].open
               /\ \A i \in 1..Len(conns[x]) : conns'[x][i] = conns[x][i]
    <3>1. CASE x \notin R
      BY <1>1, <2>2, <3>1
    <3>2. CASE x \in R
      <4> DEFINE u == new[x].url
                 s == conns[x]
      <4>1. u \in V /\ s \in Seq([url : V, open : BOOLEAN])
        BY <1>4, <2>2, <3>2
      <4>2. conns'[x] = Append(s, [url |-> u, open |-> TRUE])
        BY <1>1, <3>2
      <4> HIDE DEF V, u, s
      <4>3. LET t == Append(s, [url |-> u, open |-> TRUE])
            IN  /\ t \in Seq([url : V, open : BOOLEAN]) /\ Len(t) = Len(s) + 1
                /\ t[Len(s) + 1].open /\ \A i \in 1..Len(s) : t[i] = s[i]
        BY <4>1, ClientIsMade
      <4>4. QED
        BY <3>2, <4>2, <4>3 DEF s
    <3>3. QED
      BY <3>1, <3>2
  <2>4. conns' \in [Names -> Seq(W)]
    BY <1>1, <2>3
  <2>5. QED
    BY <2>2, <2>3, <2>4 DEF AreClients
<1>7. /\ clients' \in [Names -> Nat]
      /\ \A x \in Names :
           /\ clients'[x] = IF x \in D THEN 0 ELSE IF x \in R THEN Len(conns[x]) + 1
                            ELSE clients[x]
           /\ clients[x] \in Nat /\ clients[x] <= Len(conns[x])
  BY <1>1, <1>6 DEF LifecycleInv, ClientsInv
<1>8. ClientsInv'
  BY <1>1, <1>2, <1>6, <1>7 DEF LifecycleInv, ClientsInv
<1>9. ClosingInv'
  <2>1. SUFFICES ASSUME NEW p \in Processes, NEW x \in Names, NEW i \in Int,
                        <<x, i>> \in proc'[p].closing
                 PROVE  i \in 1..Len(conns'[x]) /\ i # clients'[x]
    BY <1>5 DEF ClosingInv
  <2>2. CASE p = r
    BY <1>2, <1>3, <1>5, <1>6, <1>7, <2>1, <2>2
  <2>3. CASE p # r
    <3>1. i \in 1..Len(conns[x]) /\ i # clients[x]
      BY <1>5, <2>1, <2>3 DEF LifecycleInv, ClosingInv
    <3>2. QED
      BY <1>6, <1>7, <3>1
  <2>4. QED
    BY <2>2, <2>3
<1>10. RegisteredInv'
  <2>1. SUFFICES ASSUME up = "up", NEW x \in Names, NEW i \in 1..Len(conns'[x])
                 PROVE  /\ i = clients'[x] => conns'[x][i].open
                        /\ faults = 0 /\ conns'[x][i].open =>
                             i = clients'[x] \/ \E q \in Requests : <<x, i>> \in proc'[q].closing
    BY <1>1 DEF RegisteredInv
  <2>2. CASE i \notin 1..Len(conns[x])
    BY <1>2, <1>6, <1>7, <2>2
  <2>3. CASE i \in 1..Len(conns[x])
    <3>1. /\ i = clients[x] => conns[x][i].open
          /\ faults = 0 /\ conns[x][i].open =>
               i = clients[x] \/ \E q \in Requests : <<x, i>> \in proc[q].closing
      BY <2>1, <2>3 DEF LifecycleInv, RegisteredInv
    <3>2. i # 0 /\ conns'[x][i] = conns[x][i]
      BY <1>6, <2>3
    <3>3. i = clients'[x] => i = clients[x]
      BY <1>6, <1>7, <2>3
    <3>4. i = clients[x] => i = clients'[x] \/ <<x, i>> \in proc'[r].closing
      BY <1>3, <1>5, <1>7, <3>2
    <3>5. ASSUME NEW q \in Requests, <<x, i>> \in proc[q].closing
          PROVE  <<x, i>> \in proc'[q].closing
      BY <1>1, <1>5, <3>5 DEF Processes
    <3>6. QED
      BY <3>1, <3>2, <3>3, <3>4, <3>5
  <2>4. QED
    BY <2>2, <2>3
<1>11. QED
  BY <1>8, <1>9, <1>10 DEF LifecycleInv

LEMMA LifecycleNext == LifecycleInv /\ [Next]_vars => LifecycleInv'
<1> SUFFICES ASSUME LifecycleInv, [Next]_vars
             PROVE  LifecycleInv'
  OBVIOUS
<1>1. CASE Arrive
  BY <1>1, ArriveStep
<1>2. ASSUME NEW r \in Requests,
             RemoveFromSettings(r) \/ Write(r) \/ ApplySave(r) \/ ApplyRemove(r)
      PROVE  LifecycleInv'
  BY <1>2, RemoveFromSettingsStep, WriteStep, ApplySaveStep, ApplyRemoveStep
<1>3. ASSUME NEW r \in Requests, FinishSave(r) \/ CloseNext(r) \/ FinishFails(r)
      PROVE  LifecycleInv'
  BY <1>3, CloseSteps, FinishFailsStep
<1>4. ASSUME NEW p \in Requests \cup Names,
             \/ WriteFails(p) \/ AuthRefused(p) \/ ApplyAuth(p) \/ ApplyAdd(p)
             \/ SavesNothing(p) \/ CycleSaves(p) \/ CycleFails(p)
      PROVE  LifecycleInv'
  BY <1>4, ReturnSteps DEF Processes
<1>5. CASE Stop \/ Drain \/ DrainTimeout
  BY <1>5, StopStep, DrainStep
<1>6. CASE Restart \/ Crash
  BY <1>6, BootStep DEF Restart, Crash, Fault
<1>7. ASSUME NEW x \in Names, JobCancelled(x)
      PROVE  LifecycleInv'
  BY <1>7, JobCancelledStep
<1>8. CASE UNCHANGED vars
  BY <1>8 DEF vars, live, history, LifecycleInv, ClientsInv, ClosingInv, RegisteredInv
<1>9. CASE LockStep
  BY <1>2, <1>3, <1>4, <1>9 DEF LockStep
<1>10. QED
  BY <1>1, <1>3, <1>4, <1>5, <1>6, <1>7, <1>8, <1>9 DEF Next

LEMMA LifecycleHolds == Spec => []LifecycleInv
<1>1. QED
  BY LifecycleInit, LifecycleNext, PTL DEF Spec

-----------------------------------------------------------------------------

(* A registered client is open while the program is up, and once the       *)
(* requests are answered every other client is closed, whatever views they *)
(* worked on: save_settings and remove_instance take a client out of       *)
(* app.state under the lock and close it after they have released it.      *)
THEOREM RegisteredIsOpen == Spec => []OpenWhileRegistered
<1>1. LifecycleInv => OpenWhileRegistered
  <2>1. SUFFICES ASSUME LifecycleInv, up = "up", NEW x \in Names, NEW i \in DOMAIN conns[x]
                 PROVE  /\ i = clients[x] => conns[x][i].open
                        /\ faults = 0 /\ (\A r \in Requests : proc[r] = Idle) /\ i # clients[x]
                             => ~conns[x][i].open
    BY DEF OpenWhileRegistered
  <2>2. i \in 1..Len(conns[x])
    BY <2>1, LenProperties DEF LifecycleInv, ClientsInv, AreClients
  <2>3. /\ i = clients[x] => conns[x][i].open
        /\ faults = 0 /\ conns[x][i].open =>
             i = clients[x] \/ \E r \in Requests : <<x, i>> \in proc[r].closing
    BY <2>1, <2>2 DEF LifecycleInv, RegisteredInv
  <2>4. QED
    BY <2>3, IdleFields
<1>2. QED
  BY <1>1, LifecycleHolds, PTL

-----------------------------------------------------------------------------
(* File, memory, clients and jobs.                                         *)

(* What a process saw and what it is going to write: if nothing has        *)
(* happened since, it saw the settings, and an instance it adds is new.    *)
Sees(rec, now) ==
  /\ DOMAIN rec.seen = DOMAIN Idle.seen /\ rec.seen.rev \in Nat
  /\ rec.seen.rev <= now.rev /\ DOMAIN rec.seen.insts \subseteq Names
  /\ rec.new = Config(rec.new.insts, rec.new.auth)
  /\ DOMAIN rec.new.insts \subseteq Names
  /\ /\ rec.kind \in {"save", "add", "remove"} /\ rec.seen.whole
     /\ rec.seen.object = now.object /\ rec.seen.rev = now.rev
     => /\ rec.seen.insts = now.insts /\ rec.seen.auth = now.auth
        /\ rec.kind = "add" =>
             /\ rec.name \in Names \ DOMAIN now.insts
             /\ rec.new = Config([y \in DOMAIN now.insts \cup {rec.name} |->
                                    IF y = rec.name THEN Fresh ELSE now.insts[y]],
                                 now.auth)

ViewsInv ==
  /\ file = Config(file.insts, file.auth) /\ DOMAIN file.insts \subseteq Names
  /\ DOMAIN settings = {"object", "rev", "insts", "auth"} /\ settings.rev \in Nat
  /\ DOMAIN settings.insts \subseteq Names /\ DOMAIN entries = Names
  /\ \A p \in Processes : Sees(proc[p], settings)

(* Who is in the middle of its changes holds the lock.                     *)
Busy(p) == proc[p].pc \in {"removed", "written", "applied"}

HolderInv ==
  up = "up" => queue \in Seq(Processes) /\ \A p \in Processes : Busy(p) => Holds(p)

(* The parts of InSync: the file, what enabled instances have, and what    *)
(* nothing but listed instances and those of a set may have.               *)
Agreed == file = Config(settings.insts, settings.auth)

Equipped ==
  \A x \in Enabled :
    /\ x \in jobs /\ clients[x] # 0 /\ entries[x] # "absent"
    /\ conns[x][clients[x]].url = settings.insts[x].url

OnlyListed(X) ==
  \A x \in Names :
    /\ x \in jobs => clients[x] # 0
    /\ clients[x] # 0 =>
         x \in X \/ (x \in DOMAIN settings.insts /\ settings.insts[x].enabled)

(* How far the parts agree while p makes its changes.                      *)
Halfway(p) ==
  /\ proc[p].pc = "removed" =>
       /\ proc[p].seen.insts = settings.insts /\ proc[p].seen.auth = settings.auth
       /\ proc[p].kind = "remove"
  /\ proc[p].pc = "written" /\ proc[p].kind = "remove" => Agreed
  /\ proc[p].pc = "written" /\ proc[p].kind \in {"save", "add"} => file = proc[p].new
  /\ proc[p].pc = "written" /\ proc[p].kind = "auth" => file.insts = settings.insts
  /\ proc[p].pc = "applied" => Agreed
  /\ IF proc[p].kind = "remove"
     THEN proc[p].name \notin DOMAIN settings.insts /\ OnlyListed({proc[p].name})
     ELSE OnlyListed({})

SyncInv ==
  up = "up" /\ ~overlap =>
    /\ Equipped
    /\ \A p \in Processes : Busy(p) => Halfway(p)
    /\ (\A p \in Processes : ~Busy(p)) => Agreed /\ OnlyListed({})

AgreementInv == ViewsInv /\ HolderInv /\ SyncInv

(* What a process sees stays what it is, or the settings have changed.     *)
LEMMA SeesKept ==
  ASSUME NEW now, NEW then, now.rev \in Nat, then = now \/ then.rev = now.rev + 1,
         NEW rec, NEW new, Sees(rec, now),
         new.seen = rec.seen, new.new = rec.new, new.kind = rec.kind, new.name = rec.name
  PROVE  Sees(new, then)
<1>1. CASE then = now
  BY <1>1 DEF Sees
<1>2. CASE then.rev = now.rev + 1
  BY <1>2 DEF Sees
<1>3. QED
  BY <1>1, <1>2

LEMMA IdleSees ==
  ASSUME NEW now, now.rev \in Nat
  PROVE  Sees(Idle, now)
BY DEF Sees, Idle, None, Config

(* After a start the parts agree.                                          *)
LEMMA StartFacts ==
  ASSUME NEW insts, DOMAIN insts \subseteq Names, NEW k, NEW s, NEW e, NEW stored,
         k = FirstClients(insts), s = FirstConns(insts), e = EntriesFor(insts, stored)
  PROVE  /\ DOMAIN e = Names
         /\ \A x \in Started(insts) :
              /\ k[x] # 0 /\ e[x] # "absent" /\ s[x][k[x]].url = insts[x].url
         /\ \A x \in Names : k[x] # 0 =>
              x \in Started(insts) /\ x \in DOMAIN insts /\ insts[x].enabled
<1>1. Started(insts) \subseteq DOMAIN insts
  BY DEF Started
<1>2. ASSUME NEW x \in Started(insts)
      PROVE  k[x] = 1 /\ e[x] # "absent" /\ s[x][1].url = insts[x].url
  <2>1. x \in Names /\ x \in DOMAIN insts
    BY <1>1
  <2>2. k[x] = 1
    BY <2>1 DEF FirstClients
  <2>3. e[x] # "absent"
    BY <2>1 DEF EntriesFor
  <2>4. s[x] = <<[url |-> insts[x].url, open |-> TRUE]>>
    BY <2>1 DEF FirstConns
  <2>5. QED
    BY <2>2, <2>3, <2>4
<1>3. \A x \in Names : k[x] # 0 => x \in Started(insts) /\ insts[x].enabled
  BY DEF FirstClients, Started, Active
<1>4. DOMAIN e = Names
  BY DEF EntriesFor
<1>5. QED
  BY <1>1, <1>2, <1>3, <1>4

LEMMA AgreementInit == Init => AgreementInv
<1> SUFFICES ASSUME Init PROVE AgreementInv
  OBVIOUS
<1>1. PICK insts \in FirstConfigs : file = Config(insts, 0)
  BY DEF Init
<1>2. /\ file.insts = insts /\ file.auth = 0 /\ DOMAIN insts \subseteq Names
      /\ settings = [object |-> 1, rev |-> 1, insts |-> insts, auth |-> 0]
  BY <1>1, ConfigsAssumption DEF Init, Config, FirstSettings, Instances
<1>3. \A p \in Processes : proc[p] = Idle
  BY DEF Init, Nobody, Processes
<1>4. /\ DOMAIN entries = Names
      /\ \A x \in Started(insts) :
           /\ clients[x] # 0 /\ entries[x] # "absent"
           /\ conns[x][clients[x]].url = insts[x].url
      /\ \A x \in Names : clients[x] # 0 =>
           x \in Started(insts) /\ x \in DOMAIN insts /\ insts[x].enabled
  BY <1>2, StartFacts DEF Init
<1>5. jobs = Started(insts) /\ Enabled = Started(insts)
  BY <1>2 DEF Init, Enabled, Started
<1>6. Sees(Idle, settings)
  BY <1>2, IdleSees
<1>7. ViewsInv
  BY <1>1, <1>2, <1>3, <1>4, <1>6 DEF ViewsInv
<1>8. HolderInv
  BY <1>3 DEF Init, HolderInv, Busy, Idle
<1>9. SyncInv
  BY <1>1, <1>2, <1>3, <1>4, <1>5 DEF SyncInv, Busy, Idle, Agreed, Equipped, OnlyListed
<1>10. QED
  BY <1>7, <1>8, <1>9 DEF AgreementInv

LEMMA BootAgrees ==
  ASSUME AgreementInv, Boot
  PROVE  AgreementInv'
<1> DEFINE insts == file.insts
<1>1. /\ file = Config(insts, file.auth) /\ DOMAIN insts \subseteq Names /\ file' = file
      /\ settings' = [object |-> 1, rev |-> 1, insts |-> insts, auth |-> file.auth]
  BY DEF AgreementInv, ViewsInv, Boot, disk, FirstSettings
<1>2. \A p \in Processes : proc'[p] = Idle
  BY DEF Boot, Nobody, Processes
<1>3. /\ DOMAIN entries' = Names
      /\ \A x \in Started(insts) :
           /\ clients'[x] # 0 /\ entries'[x] # "absent"
           /\ conns'[x][clients'[x]].url = insts[x].url
      /\ \A x \in Names : clients'[x] # 0 =>
           x \in Started(insts) /\ x \in DOMAIN insts /\ insts[x].enabled
  BY <1>1, StartFacts DEF Boot
<1>4. jobs' = Started(insts) /\ Enabled' = Started(insts) /\ up' = "up" /\ queue' = <<>>
  BY <1>1 DEF Boot, Enabled, Started
<1>5. Sees(Idle, settings')
  BY <1>1, IdleSees
<1> HIDE DEF insts
<1>6. settings'.insts = insts /\ settings'.auth = file.auth
  BY <1>1
<1>7. file'.insts = insts
  BY <1>1 DEF insts
<1>8. ViewsInv'
  BY <1>1, <1>2, <1>3, <1>5, <1>7 DEF ViewsInv
<1>9. HolderInv'
  BY <1>2, <1>4 DEF HolderInv, Busy, Idle
<1>10. SyncInv'
  BY <1>1, <1>2, <1>3, <1>4, <1>6 DEF SyncInv, Busy, Idle, Agreed, Equipped, OnlyListed
<1>11. QED
  BY <1>8, <1>9, <1>10 DEF AgreementInv

(* Between the changes of one process and those of the next the parts      *)
(* agree.                                                                  *)
LEMMA QuietBefore ==
  ASSUME AgreementInv, NEW p \in Processes, Holds(p), ~Busy(p), up = "up", ~overlap
  PROVE  Equipped /\ Agreed /\ OnlyListed({})
BY DEF AgreementInv, HolderInv, SyncInv, Holds

LEMMA HalfwayBefore ==
  ASSUME AgreementInv, NEW p \in Processes, Busy(p), up = "up", ~overlap
  PROVE  Equipped /\ Halfway(p)
BY DEF AgreementInv, SyncInv

(* The holder goes on, and nobody else gets into the middle of changes.    *)
LEMMA HolderGoesOn ==
  ASSUME AgreementInv, NEW p \in Processes, Holds(p), UNCHANGED <<up, queue>>,
         \A q \in Processes \ {p} : proc'[q].pc = proc[q].pc,
         Busy(p)', up = "up" /\ ~overlap' => Equipped' /\ Halfway(p)'
  PROVE  HolderInv' /\ SyncInv'
<1>1. \A q \in Processes : up = "up" /\ Busy(q)' => q = p
  BY DEF AgreementInv, HolderInv, Busy, Holds
<1>2. HolderInv'
  BY <1>1 DEF AgreementInv, HolderInv, Holds
<1>3. SyncInv'
  BY <1>1 DEF SyncInv
<1>4. QED
  BY <1>2, <1>3

(* The holder gives the lock back: the parts have to agree.                *)
LEMMA HolderLeaves ==
  ASSUME AgreementInv, NEW p \in Processes, Holds(p), up' = up, queue' = Tail(queue),
         \A q \in Processes \ {p} : proc'[q].pc = proc[q].pc,
         ~Busy(p)', up = "up" /\ ~overlap' => (Equipped /\ Agreed /\ OnlyListed({}))'
  PROVE  HolderInv' /\ SyncInv'
<1>1. \A q \in Processes : up = "up" => ~Busy(q)'
  BY DEF AgreementInv, HolderInv, Busy, Holds
<1>2. up = "up" => queue' \in Seq(Processes)
  BY DEF AgreementInv, HolderInv, Holds
<1>3. HolderInv'
  BY <1>1, <1>2 DEF HolderInv
<1>4. SyncInv'
  BY <1>1 DEF SyncInv
<1>5. QED
  BY <1>3, <1>4

(* Somebody begins to wait.                                                *)
LEMMA WaitAgrees ==
  ASSUME LifecycleInv, AgreementInv, NEW p \in Processes, proc[p] = Idle,
         NEW kind, NEW rec, DOMAIN rec = DOMAIN Idle, Wait(p, kind, rec),
         Sees([rec EXCEPT !.kind = kind], settings), UNCHANGED <<up, file, live, overlap>>
  PROVE  AgreementInv'
<1> DEFINE new == [rec EXCEPT !.pc = "queued", !.kind = kind]
           seen == [rec EXCEPT !.kind = kind]
<1>1. /\ new.pc = "queued" /\ new.kind = seen.kind /\ new.name = seen.name
      /\ new.seen = seen.seen /\ new.new = seen.new
  BY DEF Idle
<1>2. /\ \A q \in Processes : proc'[q] = IF q = p THEN new ELSE proc[q]
      /\ queue' = Append(queue, p) /\ settings' = settings
  BY DEF Wait, Enqueue, LifecycleInv, ClosingInv, live
<1>3. Sees(seen, settings) /\ settings.rev \in Nat
  BY DEF AgreementInv, ViewsInv
<1> HIDE DEF new, seen
<1>4. \A q \in Processes : Sees(proc'[q], settings')
  BY <1>1, <1>2, <1>3, SeesKept DEF AgreementInv, ViewsInv
<1>5. ViewsInv'
  BY <1>4 DEF AgreementInv, ViewsInv, live
<1>6. \A q \in Processes : Busy(q)' <=> Busy(q)
  BY <1>1, <1>2 DEF Busy, Idle
<1>7. HolderInv'
  <2>1. SUFFICES ASSUME up = "up"
                 PROVE  queue' \in Seq(Processes) /\ \A q \in Processes : Busy(q)' => Holds(q)'
    BY DEF HolderInv
  <2>2. queue \in Seq(Processes) /\ \A q \in Processes : Busy(q) => Holds(q)
    BY <2>1 DEF AgreementInv, HolderInv
  <2>3. queue' \in Seq(Processes) /\ queue' # <<>>
    BY <1>2, <2>2
  <2>4. queue # <<>> => Head(queue') = Head(queue)
    BY <1>2, <2>2
  <2>5. QED
    BY <1>6, <2>2, <2>3, <2>4 DEF Holds
<1>8. SyncInv'
  <2>1. \A q \in Processes : Busy(q) => proc'[q] = proc[q]
    BY <1>2 DEF Busy, Idle
  <2>2. \A q \in Processes : Busy(q) => (Halfway(q)' <=> Halfway(q))
    BY <2>1 DEF Halfway, Agreed, OnlyListed, live
  <2>3. (Equipped' <=> Equipped) /\ (Agreed' <=> Agreed) /\ (OnlyListed({})' <=> OnlyListed({}))
    BY DEF Equipped, Agreed, OnlyListed, Enabled, live
  <2>4. QED
    BY <1>6, <2>2, <2>3 DEF AgreementInv, SyncInv
<1>9. QED
  BY <1>5, <1>7, <1>8 DEF AgreementInv

(* What the file does not have is not filled in.                           *)
LEMMA FillFacts ==
  ASSUME NEW insts, DOMAIN insts \subseteq Names, DOMAIN file.insts \subseteq Names
  PROVE  /\ DOMAIN FilledFromFile(insts) \subseteq Names
         /\ DOMAIN file.insts \subseteq DOMAIN insts =>
              FilledFromFile(insts) = [x \in DOMAIN insts |-> insts[x]]
<1>1. DOMAIN FilledFromFile(insts) = DOMAIN insts \cup DOMAIN file.insts
  BY DEF FilledFromFile
<1>2. ASSUME DOMAIN file.insts \subseteq DOMAIN insts
      PROVE  FilledFromFile(insts) = [x \in DOMAIN insts |-> insts[x]]
  <2>1. DOMAIN insts \cup DOMAIN file.insts = DOMAIN insts
    BY <1>2
  <2>2. QED
    BY <2>1 DEF FilledFromFile
<1>3. QED
  BY <1>1, <1>2

(* What a handler sees when it begins to wait.                             *)
LEMMA SeesWhatIs ==
  ASSUME ViewsInv, NEW rec, rec.seen = View,
         rec.new = Config(rec.new.insts, rec.new.auth),
         DOMAIN rec.new.insts \subseteq Names,
         rec.kind = "add" /\ Agreed =>
           /\ rec.name \in Names \ DOMAIN settings.insts
           /\ rec.new = Config([y \in DOMAIN settings.insts \cup {rec.name} |->
                                  IF y = rec.name THEN Fresh ELSE settings.insts[y]],
                               settings.auth)
  PROVE  Sees(rec, settings)
<1> DEFINE whole == file = Config(settings.insts, settings.auth)
<1>1. /\ DOMAIN rec.seen = DOMAIN Idle.seen /\ rec.seen.rev = settings.rev
      /\ rec.seen.insts = settings.insts /\ rec.seen.auth = settings.auth
      /\ rec.seen.whole = whole
  <2>1. rec.seen = [object |-> settings.object, rev |-> settings.rev,
                    insts |-> settings.insts, auth |-> settings.auth, whole |-> whole]
    BY DEF View
  <2> HIDE DEF whole
  <2>2. QED
    BY <2>1 DEF Idle
<1> HIDE DEF whole
<1>2. settings.rev \in Nat /\ DOMAIN settings.insts \subseteq Names
  BY DEF ViewsInv
<1>3. whole => Agreed
  BY DEF whole, Agreed
<1>4. QED
  BY <1>1, <1>2, <1>3 DEF Sees

LEMMA SubmitAgrees ==
  ASSUME LifecycleInv, AgreementInv, NEW r \in Requests, Submit(r),
         NEW kind, NEW rec, DOMAIN rec = DOMAIN Idle, Wait(r, kind, rec),
         Sees([rec EXCEPT !.kind = kind], settings)
  PROVE  AgreementInv'
<1>1. r \in Processes /\ proc[r] = Idle /\ UNCHANGED <<up, file, live, overlap>>
  BY DEF Submit, Processes, disk
<1>2. QED
  BY <1>1, WaitAgrees

LEMMA ArriveAgrees ==
  ASSUME LifecycleInv, AgreementInv, Arrive
  PROVE  AgreementInv'
<1>1. /\ ViewsInv /\ DOMAIN settings.insts \subseteq Names /\ DOMAIN file.insts \subseteq Names
      /\ settings.rev \in Nat
  BY DEF AgreementInv, ViewsInv
<1>2. ASSUME NEW r \in Requests, SubmitSave(r)
      PROVE  AgreementInv'
  <2>1. PICK insts :
          /\ insts = settings.insts \/ \E N \in SUBSET Names : insts \in [N -> FormConfigs]
          /\ Submit(r)
          /\ Wait(r, "save", [Idle EXCEPT !.seen = View,
                                !.new = Config(FilledFromFile(insts), file.auth)])
    BY <1>2 DEF SubmitSave, FilledAuth
  <2> DEFINE new   == Config(FilledFromFile(insts), file.auth)
             rec   == [Idle EXCEPT !.seen = View, !.new = new]
             rec2  == [rec EXCEPT !.kind = "save"]
  <2>2. DOMAIN insts \subseteq Names
    BY <1>1, <2>1
  <2>3. new = Config(new.insts, new.auth) /\ DOMAIN new.insts \subseteq Names
    BY <1>1, <2>2, FillFacts DEF Config
  <2> HIDE DEF new
  <2>4. DOMAIN rec = DOMAIN Idle /\ rec2.kind = "save" /\ rec2.seen = View /\ rec2.new = new
    BY DEF Idle
  <2> HIDE DEF rec2
  <2>5. Sees(rec2, settings)
    BY <1>1, <2>3, <2>4, SeesWhatIs
  <2>6. QED
    BY <2>1, <2>4, <2>5, SubmitAgrees DEF new, rec2
<1>3. ASSUME NEW r \in Requests, NEW x \in Names, SubmitAdd(r, x)
      PROVE  AgreementInv'
  <2> DEFINE insts == [y \in DOMAIN settings.insts \cup {x} |->
                         IF y = x THEN Fresh ELSE settings.insts[y]]
             new  == Config(FilledFromFile(insts), settings.auth)
             rec  == [Idle EXCEPT !.name = x, !.seen = View, !.new = new]
             rec2 == [rec EXCEPT !.kind = "add"]
  <2>1. Submit(r) /\ Wait(r, "add", rec) /\ x \notin DOMAIN settings.insts
    BY <1>3 DEF SubmitAdd
  <2>2. /\ DOMAIN insts = DOMAIN settings.insts \cup {x}
        /\ insts = [y \in DOMAIN insts |-> insts[y]]
    OBVIOUS
  <2>3. Agreed => file.insts = settings.insts
    BY DEF Agreed, Config
  <2> HIDE DEF insts
  <2>4. /\ new = Config(new.insts, new.auth) /\ DOMAIN new.insts \subseteq Names
        /\ Agreed => new = Config(insts, settings.auth)
    BY <1>1, <2>2, <2>3, FillFacts DEF Config
  <2> HIDE DEF new
  <2>5. /\ DOMAIN rec = DOMAIN Idle /\ rec2.kind = "add" /\ rec2.seen = View
        /\ rec2.new = new /\ rec2.name = x
    BY DEF Idle
  <2> HIDE DEF rec2
  <2>6. Sees(rec2, settings)
    BY <1>1, <2>1, <2>4, <2>5, SeesWhatIs DEF insts
  <2>7. QED
    BY <2>1, <2>5, <2>6, SubmitAgrees DEF rec2
<1>4. ASSUME NEW r \in Requests, NEW x \in Names, SubmitRemove(r, x)
      PROVE  AgreementInv'
  <2> DEFINE rec  == [Idle EXCEPT !.name = x, !.seen = View]
             rec2 == [rec EXCEPT !.kind = "remove"]
  <2>1. Submit(r) /\ Wait(r, "remove", rec)
    BY <1>4 DEF SubmitRemove
  <2>2. /\ DOMAIN rec = DOMAIN Idle /\ rec2.kind = "remove" /\ rec2.seen = View
        /\ rec2.new = Idle.new
    BY DEF Idle
  <2>3. Idle.new = Config(Idle.new.insts, Idle.new.auth) /\ DOMAIN Idle.new.insts \subseteq Names
    BY DEF Idle, None, Config
  <2> HIDE DEF rec2
  <2>4. Sees(rec2, settings)
    BY <1>1, <2>2, <2>3, SeesWhatIs
  <2>5. QED
    BY <2>1, <2>2, <2>4, SubmitAgrees DEF rec2
<1>5. ASSUME NEW kind \in {"auth", "search", "refresh", "job"}, NEW rec,
             rec = Idle \/ \E x : rec = Found(x)
      PROVE  DOMAIN rec = DOMAIN Idle /\ Sees([rec EXCEPT !.kind = kind], settings)
  <2> DEFINE new == [rec EXCEPT !.kind = kind]
  <2>1. /\ DOMAIN rec = DOMAIN Idle /\ rec.seen = Idle.seen /\ rec.new = Idle.new
    BY <1>5 DEF Found, Idle
  <2>2. new.kind = kind /\ new.seen = Idle.seen /\ new.new = Idle.new
    BY <2>1 DEF Idle
  <2> HIDE DEF new
  <2>3. Sees(new, settings)
    BY <1>1, <2>2 DEF Sees, Idle, None, Config
  <2>4. QED
    BY <2>1, <2>3 DEF new
<1>6. ASSUME NEW r \in Requests, SubmitAuth(r)
      PROVE  AgreementInv'
  BY <1>5, <1>6, SubmitAgrees DEF SubmitAuth
<1>7. ASSUME NEW r \in Requests, NEW x \in Names, SubmitSearch(r, x) \/ SubmitRefresh(r, x)
      PROVE  AgreementInv'
  BY <1>5, <1>7, SubmitAgrees DEF SubmitSearch, SubmitRefresh
<1>8. ASSUME NEW x \in Names, JobFires(x)
      PROVE  AgreementInv'
  <2>1. /\ x \in Processes /\ proc[x] = Idle /\ Wait(x, "job", Found(x))
        /\ UNCHANGED <<up, file, live, overlap>>
    BY <1>8 DEF JobFires, Processes, disk, history
  <2>2. QED
    BY <1>5, <2>1, WaitAgrees
<1>9. QED
  BY <1>2, <1>3, <1>4, <1>6, <1>7, <1>8 DEF Arrive

(* Files, settings and entries keep their shape, and processes what they   *)
(* have seen.                                                              *)
LEMMA ViewsKept ==
  ASSUME AgreementInv,
         \A q \in Processes :
           \/ proc'[q] = Idle
           \/ /\ proc'[q].seen = proc[q].seen /\ proc'[q].new = proc[q].new
              /\ proc'[q].kind = proc[q].kind /\ proc'[q].name = proc[q].name,
         \/ file' = file
         \/ file' = Config(file'.insts, file'.auth) /\ DOMAIN file'.insts \subseteq Names,
         \/ settings' = settings
         \/ \E config : settings' = NewSettings(config) /\ DOMAIN config.insts \subseteq Names,
         DOMAIN entries' = Names
  PROVE  ViewsInv'
<1>1. /\ settings.rev \in Nat /\ \A q \in Processes : Sees(proc[q], settings)
  BY DEF AgreementInv, ViewsInv
<1>2. /\ DOMAIN settings' = {"object", "rev", "insts", "auth"} /\ settings'.rev \in Nat
      /\ DOMAIN settings'.insts \subseteq Names
      /\ settings' = settings \/ settings'.rev = settings.rev + 1
  BY <1>1 DEF AgreementInv, ViewsInv, NewSettings
<1>3. file' = Config(file'.insts, file'.auth) /\ DOMAIN file'.insts \subseteq Names
  BY DEF AgreementInv, ViewsInv
<1>4. \A q \in Processes : Sees(proc'[q], settings')
  BY <1>1, <1>2, SeesKept, IdleSees
<1>5. QED
  BY <1>2, <1>3, <1>4 DEF ViewsInv

(* A holder that changed nothing, or has changed everything, leaves.       *)
LEMMA QuietReturn ==
  ASSUME LifecycleInv, AgreementInv, NEW p \in Processes, Holds(p), Return(p),
         UNCHANGED <<up, file, settings, clients, conns, jobs>>,
         ~overlap' => /\ ~overlap
                      /\ ~Busy(p) \/ (proc[p].pc = "applied" /\ proc[p].kind # "remove"),
         DOMAIN entries' = Names,
         \A x \in Names : entries'[x] = "absent" => entries[x] = "absent"
  PROVE  AgreementInv'
<1>1. /\ \A q \in Processes : proc'[q] = IF q = p THEN Idle ELSE proc[q]
      /\ queue' = Tail(queue)
  BY DEF Return, LifecycleInv, ClosingInv
<1>2. ViewsInv'
  BY <1>1, ViewsKept
<1>3. ~Busy(p)'
  BY <1>1 DEF Busy, Idle
<1>4. up = "up" /\ ~overlap' => Equipped /\ Agreed /\ OnlyListed({})
  BY QuietBefore, HalfwayBefore DEF Halfway, Busy
<1>5. DOMAIN settings.insts \subseteq Names
  BY DEF AgreementInv, ViewsInv
<1>6. up = "up" /\ ~overlap' => (Equipped /\ Agreed /\ OnlyListed({}))'
  BY <1>4, <1>5 DEF Equipped, Agreed, OnlyListed, Enabled
<1>7. HolderInv' /\ SyncInv'
  BY <1>1, <1>3, <1>6, HolderLeaves
<1>8. QED
  BY <1>2, <1>7 DEF AgreementInv

LEMMA ReturnsAgree ==
  ASSUME LifecycleInv, AgreementInv, NEW p \in Processes,
         \/ WriteFails(p) \/ AuthRefused(p) \/ SavesNothing(p)
         \/ CycleSaves(p) \/ CycleFails(p) \/ FinishFails(p)
  PROVE  AgreementInv'
<1>1. DOMAIN entries = Names
  BY DEF AgreementInv, ViewsInv
<1>2. /\ Holds(p) /\ Return(p) /\ UNCHANGED <<up, file, settings, clients, conns, jobs>>
      /\ DOMAIN entries' = Names
      /\ \A x \in Names : entries'[x] = "absent" => entries[x] = "absent"
  BY <1>1 DEF WriteFails, MayWrite, AuthRefused, SavesNothing, CycleSaves, CycleFails,
              FinishFails, At, disk, live
<1>3. ~overlap' => /\ ~overlap
                   /\ ~Busy(p) \/ (proc[p].pc = "applied" /\ proc[p].kind # "remove")
  BY DEF WriteFails, MayWrite, AuthRefused, SavesNothing, CycleSaves, CycleFails,
         FinishFails, At, Busy, history
<1>4. QED
  BY <1>2, <1>3, QuietReturn

(* An instance is deleted from what somebody sees.                         *)
LEMMA SeesLess ==
  ASSUME NEW seen, DOMAIN seen = DOMAIN Idle.seen, NEW insts
  PROVE  LET less == [seen EXCEPT !.insts = insts]
         IN  /\ DOMAIN less = DOMAIN Idle.seen /\ less.insts = insts
             /\ less.object = seen.object /\ less.rev = seen.rev
             /\ less.auth = seen.auth /\ less.whole = seen.whole
BY DEF Idle

LEMMA SeesOtherwise ==
  ASSUME NEW now, NEW then, now.rev \in Nat, NEW rec, NEW new, Sees(rec, now),
         then.rev = now.rev + 1 \/ (then = now /\ now.object # rec.seen.object),
         DOMAIN new.seen = DOMAIN Idle.seen, new.seen.rev = rec.seen.rev,
         new.seen.object = rec.seen.object, new.new = rec.new,
         DOMAIN new.seen.insts \subseteq DOMAIN rec.seen.insts
  PROVE  Sees(new, then)
<1>1. /\ new.seen.rev \in Nat /\ new.seen.rev <= then.rev
      /\ ~(new.seen.object = then.object /\ new.seen.rev = then.rev)
  BY DEF Sees
<1>2. QED
  BY <1>1 DEF Sees

(* remove_instance deletes from the settings, which are the ones it saw.   *)
LEMMA RemoveAgrees ==
  ASSUME LifecycleInv, AgreementInv, NEW r \in Requests, RemoveFromSettings(r)
  PROVE  AgreementInv'
<1>0. PICK x, o : x = proc[r].name /\ o = proc[r].seen.object
  OBVIOUS
<1>1. /\ r \in Processes /\ Holds(r) /\ proc[r].kind = "remove" /\ proc[r].pc = "queued"
      /\ UNCHANGED <<up, file, clients, conns, jobs, entries>> /\ ~Busy(r)
  BY DEF RemoveFromSettings, At, Processes, disk, Busy
<1>2. CASE x \notin DOMAIN proc[r].seen.insts
  <2>1. Return(r) /\ UNCHANGED <<settings, overlap>>
    BY <1>0, <1>2 DEF RemoveFromSettings
  <2>2. QED
    BY <1>1, <2>1, QuietReturn DEF AgreementInv, ViewsInv
<1>3. CASE x \in DOMAIN proc[r].seen.insts
  <2> DEFINE turn(p) == IF p = r THEN [proc[p] EXCEPT !.pc = "removed"] ELSE proc[p]
             kept(p) == [turn(p) EXCEPT !.seen.insts = Without(turn(p).seen.insts, x)]
  <2>1. /\ proc' = [p \in DOMAIN proc |->
                      IF turn(p).seen.object = o THEN kept(p) ELSE turn(p)]
        /\ settings' = IF settings.object # o THEN settings
                       ELSE [settings EXCEPT !.insts = Without(settings.insts, x),
                                             !.rev = settings.rev + 1]
        /\ overlap' = (overlap \/ ~SeenIsCurrent(r)) /\ queue' = queue
    BY <1>0, <1>3 DEF RemoveFromSettings
  <2>2. /\ DOMAIN proc = Processes
        /\ \A p \in Processes : DOMAIN proc[p] = DOMAIN Idle /\ Sees(proc[p], settings)
        /\ settings.rev \in Nat /\ DOMAIN settings.insts \subseteq Names
        /\ DOMAIN settings = {"object", "rev", "insts", "auth"}
    BY DEF LifecycleInv, ClosingInv, AgreementInv, ViewsInv
  <2>3. ASSUME NEW p \in Processes
        PROVE  /\ DOMAIN turn(p) = DOMAIN Idle /\ turn(p).pc = IF p = r THEN "removed" ELSE proc[p].pc
               /\ turn(p).seen = proc[p].seen /\ turn(p).new = proc[p].new
               /\ turn(p).kind = proc[p].kind /\ turn(p).name = proc[p].name
    BY <2>2 DEF Idle
  <2> HIDE DEF turn
  <2>4. ASSUME NEW p \in Processes
        PROVE  /\ kept(p).pc = turn(p).pc /\ kept(p).new = turn(p).new
               /\ kept(p).kind = turn(p).kind /\ kept(p).name = turn(p).name
               /\ kept(p).seen = [turn(p).seen EXCEPT !.insts = Without(turn(p).seen.insts, x)]
    BY <2>2, <2>3 DEF Idle
  <2> HIDE DEF kept
  <2>5. ASSUME NEW p \in Processes
        PROVE  /\ proc'[p].pc = IF p = r THEN "removed" ELSE proc[p].pc
               /\ proc'[p].new = proc[p].new /\ proc'[p].kind = proc[p].kind
               /\ proc'[p].name = proc[p].name
               /\ proc'[p].seen = IF proc[p].seen.object = o
                                  THEN [proc[p].seen EXCEPT !.insts = Without(proc[p].seen.insts, x)]
                                  ELSE proc[p].seen
    BY <2>1, <2>2, <2>3, <2>4
  <2>6. /\ settings.object # o => settings' = settings
        /\ settings.object = o =>
             /\ settings'.rev = settings.rev + 1 /\ settings'.auth = settings.auth
             /\ settings'.insts = Without(settings.insts, x)
             /\ DOMAIN settings' = DOMAIN settings
    BY <2>1, <2>2
  <2> DEFINE others == Without(settings.insts, x)
  <2>7. /\ DOMAIN others = DOMAIN settings.insts \ {x}
        /\ \A y \in DOMAIN settings.insts \ {x} : others[y] = settings.insts[y]
        /\ settings.object = o => settings'.insts = others
    BY <2>6 DEF Without
  <2> HIDE DEF others
  <2>8. \A p \in Processes : Sees(proc'[p], settings')
    <3>1. SUFFICES ASSUME NEW p \in Processes PROVE Sees(proc'[p], settings')
      OBVIOUS
    <3> DEFINE insts == Without(proc[p].seen.insts, x)
               less  == [proc[p].seen EXCEPT !.insts = insts]
    <3>2. Sees(proc[p], settings) /\ DOMAIN proc[p].seen = DOMAIN Idle.seen
      BY <2>2 DEF Sees
    <3>3. /\ DOMAIN less = DOMAIN Idle.seen /\ less.insts = insts
          /\ less.object = proc[p].seen.object /\ less.rev = proc[p].seen.rev
          /\ less.auth = proc[p].seen.auth /\ less.whole = proc[p].seen.whole
      BY <3>2, SeesLess
    <3>4. proc'[p].seen = IF proc[p].seen.object = o THEN less ELSE proc[p].seen
      BY <2>5
    <3>5. DOMAIN insts \subseteq DOMAIN proc[p].seen.insts
      BY DEF Without
    <3> HIDE DEF insts, less
    <3>6. CASE proc[p].seen.object # o
      <4>1. /\ settings' = settings \/ settings'.rev = settings.rev + 1
            /\ proc'[p].seen = proc[p].seen
        BY <2>6, <3>4, <3>6
      <4>2. QED
        BY <2>2, <2>5, <3>2, <4>1, SeesKept
    <3>7. CASE proc[p].seen.object = o
      <4>1. /\ proc'[p].seen = less
            /\ settings'.rev = settings.rev + 1 \/ (settings' = settings /\ settings.object # o)
        BY <2>6, <3>4, <3>7
      <4>2. /\ DOMAIN proc'[p].seen = DOMAIN Idle.seen
            /\ proc'[p].seen.rev = proc[p].seen.rev
            /\ proc'[p].seen.object = proc[p].seen.object
            /\ DOMAIN proc'[p].seen.insts \subseteq DOMAIN proc[p].seen.insts
            /\ proc'[p].new = proc[p].new
        BY <2>5, <3>3, <3>5, <4>1
      <4>3. settings'.rev = settings.rev + 1 \/ (settings' = settings /\ settings.object # proc[p].seen.object)
        BY <3>7, <4>1
      <4>4. settings.rev \in Nat
        BY <2>2
      <4>5. QED
        BY <3>2, <4>2, <4>3, <4>4, SeesOtherwise
    <3>8. QED
      BY <3>6, <3>7
  <2>9. ViewsInv'
    <3>1. /\ DOMAIN settings' = {"object", "rev", "insts", "auth"} /\ settings'.rev \in Nat
          /\ DOMAIN settings'.insts \subseteq Names
      BY <2>2, <2>6, <2>7
    <3>2. QED
      BY <1>1, <2>8, <3>1 DEF AgreementInv, ViewsInv
  <2>10. ASSUME up = "up", ~overlap'
         PROVE  Equipped' /\ Halfway(r)'
    <3>1. SeenIsCurrent(r) /\ Equipped /\ Agreed /\ OnlyListed({})
      BY <1>1, <2>1, <2>10, QuietBefore
    <3>2. /\ settings.object = o /\ proc[r].seen.insts = settings.insts
          /\ proc[r].seen.auth = settings.auth
      <4>1. Sees(proc[r], settings)
        BY <1>1, <2>2
      <4>2. QED
        BY <1>0, <1>1, <3>1, <4>1 DEF SeenIsCurrent, Sees
    <3>3. /\ settings'.insts = others /\ settings'.auth = settings.auth
          /\ x \notin DOMAIN settings'.insts
          /\ DOMAIN settings'.insts \subseteq DOMAIN settings.insts
          /\ \A y \in Names : y # x =>
               /\ y \in DOMAIN settings.insts <=> y \in DOMAIN settings'.insts
               /\ y \in DOMAIN settings.insts => settings'.insts[y] = settings.insts[y]
      BY <2>2, <2>6, <2>7, <3>2
    <3>4. /\ proc'[r].seen.insts = settings'.insts /\ proc'[r].seen.auth = settings'.auth
          /\ proc'[r].pc = "removed" /\ proc'[r].kind = "remove" /\ proc'[r].name = x
      <4>1. DOMAIN proc[r].seen = DOMAIN Idle.seen
        BY <1>1, <2>2 DEF Sees
      <4>2. proc'[r].seen = [proc[r].seen EXCEPT !.insts = Without(proc[r].seen.insts, x)]
        BY <1>0, <1>1, <2>5
      <4>3. proc'[r].seen.insts = Without(proc[r].seen.insts, x) /\ proc'[r].seen.auth = proc[r].seen.auth
        BY <4>1, <4>2, SeesLess
      <4>4. QED
        BY <1>0, <1>1, <2>5, <3>2, <3>3, <4>3 DEF others
    <3>5. Enabled' \subseteq Enabled /\ \A y \in Enabled' : settings'.insts[y] = settings.insts[y]
      <4>1. \A y \in DOMAIN settings'.insts :
              y \in DOMAIN settings.insts /\ settings'.insts[y] = settings.insts[y]
        BY <2>2, <3>3
      <4>2. QED
        BY <4>1 DEF Enabled
    <3>6. Equipped'
      BY <1>1, <3>1, <3>5 DEF Equipped
    <3>7. OnlyListed({x})'
      BY <1>1, <3>1, <3>3 DEF OnlyListed
    <3>8. OnlyListed({proc[r].name})'
      BY <3>4, <3>7 DEF OnlyListed
    <3>9. QED
      BY <3>3, <3>4, <3>6, <3>8 DEF Halfway
  <2>11. Busy(r)' /\ \A q \in Processes \ {r} : proc'[q].pc = proc[q].pc
    BY <1>1, <2>5 DEF Busy
  <2>12. HolderInv' /\ SyncInv'
    BY <1>1, <2>1, <2>10, <2>11, HolderGoesOn
  <2>13. QED
    BY <2>9, <2>12 DEF AgreementInv
<1>4. QED
  BY <1>2, <1>3

(* The file is written.                                                    *)
LEMMA WriteAgrees ==
  ASSUME LifecycleInv, AgreementInv, NEW r \in Requests, Write(r)
  PROVE  AgreementInv'
<1>1. /\ r \in Processes /\ Holds(r) /\ file' = Content(r)
      /\ UNCHANGED <<up, settings, clients, conns, jobs, entries, queue, overlap>>
      /\ \/ proc[r].kind \in {"save", "add", "auth"} /\ proc[r].pc = "queued"
         \/ proc[r].kind = "remove" /\ proc[r].pc = "removed"
  BY DEF Write, MayWrite, At, Processes, live, history
<1>2. \A q \in Processes :
        /\ proc'[q].pc = IF q = r THEN "written" ELSE proc[q].pc
        /\ proc'[q].seen = proc[q].seen /\ proc'[q].new = proc[q].new
        /\ proc'[q].kind = proc[q].kind /\ proc'[q].name = proc[q].name
  BY DEF Write, Becomes, LifecycleInv, ClosingInv, Idle
<1>3. /\ DOMAIN settings.insts \subseteq Names /\ Sees(proc[r], settings)
      /\ DOMAIN entries = Names
  BY <1>1 DEF AgreementInv, ViewsInv
<1>4. /\ proc[r].kind \in {"save", "add"} => file' = proc[r].new
      /\ proc[r].kind = "remove" => file' = Config(proc[r].seen.insts, proc[r].seen.auth)
      /\ proc[r].kind = "auth" => file' = Config(settings.insts, settings.auth + 1)
  BY <1>1 DEF Content
<1>5. file' = Config(file'.insts, file'.auth) /\ DOMAIN file'.insts \subseteq Names
  BY <1>1, <1>3, <1>4 DEF Sees, Config
<1>6. ViewsInv'
  BY <1>1, <1>2, <1>3, <1>5, ViewsKept
<1>7. ASSUME up = "up", ~overlap'
      PROVE  Equipped' /\ Halfway(r)'
  <2>1. Equipped
    BY <1>1, <1>7, QuietBefore, HalfwayBefore DEF Busy
  <2>2. Equipped'
    BY <1>1, <2>1 DEF Equipped, Enabled
  <2>3. /\ proc'[r].pc = "written" /\ proc'[r].kind = proc[r].kind
        /\ proc'[r].name = proc[r].name /\ proc'[r].new = proc[r].new
    BY <1>1, <1>2
  <2>4. CASE proc[r].pc = "queued"
    <3>1. OnlyListed({}) /\ proc[r].kind # "remove"
      BY <1>1, <1>7, <2>4, QuietBefore DEF Busy
    <3>2. OnlyListed({})'
      BY <1>1, <3>1 DEF OnlyListed
    <3>3. proc[r].kind = "auth" => file'.insts = settings'.insts
      BY <1>1, <1>4 DEF Config
    <3>4. QED
      BY <1>4, <2>2, <2>3, <3>1, <3>2, <3>3 DEF Halfway
  <2>5. CASE proc[r].pc = "removed"
    <3>1. Halfway(r) /\ proc[r].kind = "remove"
      BY <1>1, <1>7, <2>5, HalfwayBefore DEF Busy
    <3>2. /\ proc[r].seen.insts = settings.insts /\ proc[r].seen.auth = settings.auth
          /\ proc[r].name \notin DOMAIN settings.insts /\ OnlyListed({proc[r].name})
      BY <2>5, <3>1 DEF Halfway
    <3>3. Agreed' /\ OnlyListed({proc[r].name})'
      BY <1>1, <1>4, <2>3, <3>1, <3>2 DEF Agreed, OnlyListed
    <3>4. QED
      BY <1>1, <2>2, <2>3, <3>1, <3>2, <3>3 DEF Halfway
  <2>6. QED
    BY <1>1, <2>4, <2>5
<1>8. Busy(r)' /\ \A q \in Processes \ {r} : proc'[q].pc = proc[q].pc
  BY <1>1, <1>2 DEF Busy
<1>9. HolderInv' /\ SyncInv'
  BY <1>1, <1>7, <1>8, HolderGoesOn
<1>10. QED
  BY <1>6, <1>9 DEF AgreementInv

(* New credentials, and a new instance, are applied.                       *)
LEMMA ApplyAuthAgrees ==
  ASSUME LifecycleInv, AgreementInv, NEW r \in Requests, ApplyAuth(r)
  PROVE  AgreementInv'
<1>1. /\ r \in Processes /\ Holds(r) /\ proc[r].kind = "auth" /\ proc[r].pc = "written"
      /\ UNCHANGED <<up, file, clients, conns, jobs, entries, overlap>>
      /\ settings' = NewSettings(file) /\ Return(r)
  BY DEF ApplyAuth, At, Processes, disk, history
<1>2. /\ \A q \in Processes : proc'[q] = IF q = r THEN Idle ELSE proc[q]
      /\ queue' = Tail(queue)
  BY <1>1 DEF Return, LifecycleInv, ClosingInv
<1>3. /\ file = Config(file.insts, file.auth) /\ DOMAIN file.insts \subseteq Names
      /\ DOMAIN entries = Names
      /\ settings'.insts = file.insts /\ settings'.auth = file.auth
  BY <1>1 DEF AgreementInv, ViewsInv, NewSettings
<1>4. ViewsInv'
  BY <1>1, <1>2, <1>3, ViewsKept
<1>5. ASSUME up = "up", ~overlap'
      PROVE  (Equipped /\ Agreed /\ OnlyListed({}))'
  <2>1. Equipped /\ Halfway(r)
    BY <1>1, <1>5, HalfwayBefore DEF Busy
  <2>2. file.insts = settings.insts /\ OnlyListed({})
    BY <1>1, <2>1 DEF Halfway
  <2>3. settings'.insts = settings.insts
    BY <1>3, <2>2
  <2>4. QED
    BY <1>1, <1>3, <2>1, <2>2, <2>3 DEF Equipped, Agreed, OnlyListed, Enabled
<1>6. ~Busy(r)'
  BY <1>1, <1>2 DEF Busy, Idle
<1>7. HolderInv' /\ SyncInv'
  BY <1>1, <1>2, <1>5, <1>6, HolderLeaves
<1>8. QED
  BY <1>4, <1>7 DEF AgreementInv

LEMMA ApplyAddAgrees ==
  ASSUME LifecycleInv, AgreementInv, NEW r \in Requests, ApplyAdd(r)
  PROVE  AgreementInv'
<1> DEFINE new == proc[r].new
           x   == proc[r].name
<1>1. /\ r \in Processes /\ Holds(r) /\ proc[r].kind = "add" /\ proc[r].pc = "written"
      /\ UNCHANGED <<up, file, clients, conns, jobs>>
      /\ settings' = NewSettings(new) /\ Return(r)
      /\ entries' = [entries EXCEPT ![x] = "fresh"]
      /\ overlap' = (overlap \/ ~SeenIsCurrent(r))
  BY DEF ApplyAdd, At, Processes, disk
<1>2. /\ \A q \in Processes : proc'[q] = IF q = r THEN Idle ELSE proc[q]
      /\ queue' = Tail(queue)
  BY <1>1 DEF Return, LifecycleInv, ClosingInv
<1>3. /\ Sees(proc[r], settings) /\ DOMAIN entries = Names /\ DOMAIN settings.insts \subseteq Names
  BY <1>1 DEF AgreementInv, ViewsInv
<1>4. /\ new = Config(new.insts, new.auth) /\ DOMAIN new.insts \subseteq Names
      /\ settings'.insts = new.insts /\ settings'.auth = new.auth
  BY <1>1, <1>3 DEF Sees, NewSettings
<1>5. ViewsInv'
  BY <1>1, <1>2, <1>3, <1>4, ViewsKept
<1>6. ASSUME up = "up", ~overlap'
      PROVE  (Equipped /\ Agreed /\ OnlyListed({}))'
  <2>1. Equipped /\ Halfway(r) /\ SeenIsCurrent(r)
    BY <1>1, <1>6, HalfwayBefore DEF Busy
  <2>2. file = new /\ OnlyListed({})
    BY <1>1, <2>1 DEF Halfway
  <2> DEFINE insts == [y \in DOMAIN settings.insts \cup {x} |->
                         IF y = x THEN Fresh ELSE settings.insts[y]]
  <2>3. x \in Names \ DOMAIN settings.insts /\ new = Config(insts, settings.auth)
    BY <1>1, <1>3, <2>1 DEF Sees, SeenIsCurrent
  <2>4. /\ DOMAIN insts = DOMAIN settings.insts \cup {x} /\ ~insts[x].enabled
        /\ \A y \in DOMAIN settings.insts : insts[y] = settings.insts[y]
    BY <2>3, ConfigsAssumption
  <2> HIDE DEF insts
  <2>5. settings'.insts = insts
    BY <1>4, <2>3 DEF Config
  <2>6. Agreed'
    BY <1>1, <1>4, <2>2 DEF Agreed
  <2>7. \A y \in Enabled' : y \in Enabled /\ settings'.insts[y] = settings.insts[y]
    BY <2>4, <2>5 DEF Enabled, Active
  <2>8. \A y \in Names : entries[y] # "absent" => entries'[y] # "absent"
    BY <1>1, <1>3
  <2>9. Equipped'
    BY <1>1, <1>3, <2>1, <2>7, <2>8 DEF Equipped, Enabled
  <2>10. OnlyListed({})'
    BY <1>1, <2>2, <2>4, <2>5 DEF OnlyListed
  <2>11. QED
    BY <2>6, <2>9, <2>10
<1>7. ~Busy(r)'
  BY <1>1, <1>2 DEF Busy, Idle
<1>8. HolderInv' /\ SyncInv'
  BY <1>1, <1>2, <1>6, <1>7, HolderLeaves
<1>9. QED
  BY <1>5, <1>8 DEF AgreementInv

(* New settings are applied to clients, jobs and entries.                  *)
LEMMA ApplySaveAgrees ==
  ASSUME LifecycleInv, AgreementInv, NEW r \in Requests, ApplySave(r)
  PROVE  AgreementInv'
<1> DEFINE config == proc[r].new
           new == config.insts
           on  == {x \in DOMAIN new : new[x].enabled}
           D   == DroppedBy(new)
           R   == RenewedBy(proc[r].seen.insts, new)
           set == ToClose(D, R)
<1>1. /\ r \in Processes /\ Holds(r) /\ proc[r].kind = "save" /\ proc[r].pc = "written"
      /\ UNCHANGED <<up, file, queue>> /\ settings' = NewSettings(config)
      /\ clients' = [x \in Names |-> IF x \in D THEN 0
                                     ELSE IF x \in R THEN Len(conns[x]) + 1
                                     ELSE clients[x]]
      /\ conns' = [x \in Names |-> IF x \notin R THEN conns[x]
                     ELSE Append(conns[x], [url |-> new[x].url, open |-> TRUE])]
      /\ jobs' = (jobs \ D) \cup on
      /\ entries' = [x \in Names |-> IF x \in on /\ entries[x] = "absent"
                                     THEN "fresh" ELSE entries[x]]
      /\ proc' = [proc EXCEPT ![r].pc = "applied", ![r].closing = set]
      /\ overlap' = (overlap \/ ~SeenIsCurrent(r))
  BY DEF ApplySave, At, Processes, disk
<1> r \in Processes
  BY <1>1
<1>2. \A q \in Processes :
        /\ proc'[q].pc = IF q = r THEN "applied" ELSE proc[q].pc
        /\ proc'[q].seen = proc[q].seen /\ proc'[q].new = proc[q].new
        /\ proc'[q].kind = proc[q].kind /\ proc'[q].name = proc[q].name
  <2> HIDE DEF set
  <2>1. QED
    BY <1>1 DEF LifecycleInv, ClosingInv, Idle
<1>3. Sees(proc[r], settings)
  BY DEF AgreementInv, ViewsInv
<1>4. /\ config = Config(new, config.auth) /\ DOMAIN new \subseteq Names
      /\ settings'.insts = new /\ settings'.auth = config.auth
  BY <1>1, <1>3 DEF Sees, NewSettings
<1>5. ViewsInv'
  BY <1>1, <1>2, <1>4, ViewsKept
<1>6. ASSUME up = "up", ~overlap'
      PROVE  (Equipped /\ Agreed /\ OnlyListed({}))'
  <2>1. Equipped /\ Halfway(r) /\ SeenIsCurrent(r)
    BY <1>1, <1>6, HalfwayBefore DEF Busy
  <2>2. file = config /\ OnlyListed({})
    BY <1>1, <2>1 DEF Halfway
  <2>3. proc[r].seen.insts = settings.insts
    BY <1>1, <1>3, <2>1 DEF Sees, SeenIsCurrent
  <2>4. Agreed'
    BY <1>1, <1>4, <2>2 DEF Agreed
  <2>5. \A x \in Names :
          /\ x \in D <=> clients[x] # 0 /\ ~(x \in DOMAIN new /\ new[x].enabled)
          /\ x \in R <=> /\ x \in DOMAIN new /\ new[x].enabled
                         /\ \/ x \notin DOMAIN settings.insts \/ clients[x] = 0
                            \/ new[x].url # settings.insts[x].url
          /\ x \in on <=> x \in DOMAIN new /\ new[x].enabled
    BY <2>3 DEF DroppedBy, RenewedBy
  <2> HIDE DEF D, R, on, new, set, config
  <2>6. \A x \in Names : Len(conns[x]) \in Nat
    BY LenProperties DEF LifecycleInv, ClientsInv, AreClients
  <2>7. \A x \in Names : x \in R =>
          conns'[x][Len(conns[x]) + 1] = [url |-> new[x].url, open |-> TRUE]
    <3>1. PICK U : conns \in [Names -> Seq([url : U, open : BOOLEAN])]
      BY DEF LifecycleInv, ClientsInv, AreClients
    <3>2. SUFFICES ASSUME NEW x \in Names, x \in R
                   PROVE  conns'[x][Len(conns[x]) + 1] = [url |-> new[x].url, open |-> TRUE]
      OBVIOUS
    <3> DEFINE c == [url |-> new[x].url, open |-> TRUE]
               C == [url : U, open : BOOLEAN]
    <3>3. conns'[x] = Append(conns[x], c)
      BY <1>1, <3>2
    <3>4. conns[x] \in Seq(C)
      BY <3>1
    <3> HIDE DEF c, C
    <3>5. Append(conns[x], c)[Len(conns[x]) + 1] = c
      BY <3>4
    <3>6. QED
      BY <3>3, <3>5 DEF c
  <2>8. \A x \in Enabled' : x \in Names /\ x \in DOMAIN new /\ new[x].enabled /\ new[x].url # NoUrl
    BY <1>4 DEF Enabled, Active
  <2>9. Equipped'
    <3>1. SUFFICES ASSUME NEW x \in Enabled'
                   PROVE  /\ x \in jobs' /\ clients'[x] # 0 /\ entries'[x] # "absent"
                          /\ conns'[x][clients'[x]].url = new[x].url
      BY <1>4 DEF Equipped
    <3>2. x \in Names /\ x \in on /\ x \notin D
      BY <2>5, <2>8
    <3>3. x \in jobs' /\ entries'[x] # "absent"
      BY <1>1, <3>2
    <3>4. CASE x \in R
      BY <1>1, <2>6, <2>7, <3>2, <3>3, <3>4
    <3>5. CASE x \notin R
      <4>1. /\ x \in DOMAIN settings.insts /\ clients[x] # 0
            /\ new[x].url = settings.insts[x].url
        BY <2>5, <2>8, <3>2, <3>5
      <4>2. settings.insts[x].enabled
        BY <2>2, <3>2, <4>1 DEF OnlyListed
      <4>3. x \in Enabled
        BY <2>8, <4>1, <4>2 DEF Enabled, Active
      <4>4. conns[x][clients[x]].url = settings.insts[x].url
        BY <2>1, <4>3 DEF Equipped
      <4>5. conns'[x] = conns[x] /\ clients'[x] = clients[x]
        BY <1>1, <3>2, <3>5
      <4>6. QED
        BY <3>3, <4>1, <4>4, <4>5
    <3>6. QED
      BY <3>4, <3>5
  <2>10. OnlyListed({})'
    <3>1. SUFFICES ASSUME NEW x \in Names
                   PROVE  /\ x \in jobs' => clients'[x] # 0
                          /\ clients'[x] # 0 => x \in DOMAIN new /\ new[x].enabled
      BY <1>4 DEF OnlyListed
    <3>2. clients'[x] = IF x \in D THEN 0 ELSE IF x \in R THEN Len(conns[x]) + 1
                        ELSE clients[x]
      BY <1>1
    <3>3. x \in jobs' => x \in on \/ (clients[x] # 0 /\ x \notin D)
      BY <1>1, <2>2 DEF OnlyListed
    <3>4. QED
      BY <2>5, <2>6, <3>2, <3>3
  <2>11. QED
    BY <2>4, <2>9, <2>10
<1>7. up = "up" /\ ~overlap' => Equipped' /\ Halfway(r)'
  <2>1. proc'[r].pc = "applied" /\ proc'[r].kind = "save"
    BY <1>1, <1>2
  <2>2. QED
    BY <1>6, <2>1 DEF Halfway
<1>8. Busy(r)' /\ \A q \in Processes \ {r} : proc'[q].pc = proc[q].pc
  BY <1>2 DEF Busy
<1>9. HolderInv' /\ SyncInv'
  BY <1>1, <1>7, <1>8, HolderGoesOn
<1>10. QED
  BY <1>5, <1>9 DEF AgreementInv

(* Closing a client does not change its address.                           *)
LEMMA ClosedUrls ==
  ASSUME LifecycleInv, NEW set, conns' = Closed(set), NEW x \in Names,
         NEW i \in 1..Len(conns[x])
  PROVE  conns'[x][i].url = conns[x][i].url
<1>1. PICK U : conns \in [Names -> Seq([url : U, open : BOOLEAN])]
  BY DEF LifecycleInv, ClientsInv, AreClients
<1> DEFINE C == [url : U, open : BOOLEAN]
<1>2. conns[x] \in Seq(C)
  BY <1>1
<1>3. i \in DOMAIN conns[x] /\ conns[x][i] \in C
  <2> HIDE DEF C
  <2>1. QED
    BY <1>2, LenProperties, ElementOfSeq
<1>4. conns'[x][i] = IF <<x, i>> \in set THEN [conns[x][i] EXCEPT !.open = FALSE]
                     ELSE conns[x][i]
  BY <1>3 DEF Closed
<1>5. QED
  BY <1>3, <1>4

(* A request that closes a client, or has closed its last.                 *)
LEMMA CloseOneFacts ==
  ASSUME LifecycleInv, NEW r \in Requests, NEW set, CloseOneOf(r, set)
  PROVE  /\ \A q \in Processes \ {r} : proc'[q] = proc[q]
         /\ \/ proc'[r] = Idle
            \/ /\ proc'[r].pc = "closing" /\ proc'[r].seen = proc[r].seen
               /\ proc'[r].new = proc[r].new /\ proc'[r].kind = proc[r].kind
               /\ proc'[r].name = proc[r].name
         /\ \A x \in Names : clients[x] # 0 =>
              conns'[x][clients[x]].url = conns[x][clients[x]].url
<1>1. r \in Processes /\ DOMAIN proc[r] = DOMAIN Idle /\ DOMAIN proc = Processes
  BY DEF LifecycleInv, ClosingInv, Processes
<1>2. \A x \in Names : clients[x] # 0 => clients[x] \in 1..Len(conns[x])
  BY LenProperties DEF LifecycleInv, ClientsInv, AreClients
<1>3. \A x \in Names : clients[x] # 0 =>
        conns'[x][clients[x]].url = conns[x][clients[x]].url
  <2>1. CASE set = {}
    BY <2>1 DEF CloseOneOf
  <2>2. CASE set # {}
    BY <1>2, <2>2, ClosedUrls DEF CloseOneOf
  <2>3. QED
    BY <2>1, <2>2
<1>4. PICK rec : /\ proc' = [proc EXCEPT ![r] = rec]
                 /\ \/ rec = Idle
                    \/ \E c : rec = [proc[r] EXCEPT !.pc = "closing", !.closing = set \ {c}]
  BY DEF CloseOneOf
<1>5. \/ rec = Idle
      \/ /\ rec.pc = "closing" /\ rec.seen = proc[r].seen /\ rec.new = proc[r].new
         /\ rec.kind = proc[r].kind /\ rec.name = proc[r].name
  BY <1>1, <1>4 DEF Idle
<1>6. QED
  BY <1>1, <1>3, <1>4, <1>5

LEMMA FinishSaveAgrees ==
  ASSUME LifecycleInv, AgreementInv, NEW r \in Requests, FinishSave(r)
  PROVE  AgreementInv'
<1>1. /\ r \in Processes /\ Holds(r) /\ proc[r].kind = "save" /\ proc[r].pc = "applied"
      /\ UNCHANGED <<up, file, settings, clients, jobs, entries, overlap>>
      /\ queue' = Tail(queue) /\ CloseOneOf(r, proc[r].closing)
  BY DEF FinishSave, At, Processes, history
<1>2. /\ \A q \in Processes \ {r} : proc'[q] = proc[q]
      /\ \/ proc'[r] = Idle
         \/ /\ proc'[r].pc = "closing" /\ proc'[r].seen = proc[r].seen
            /\ proc'[r].new = proc[r].new /\ proc'[r].kind = proc[r].kind
            /\ proc'[r].name = proc[r].name
      /\ \A x \in Names : clients[x] # 0 =>
           conns'[x][clients[x]].url = conns[x][clients[x]].url
  BY <1>1, CloseOneFacts
<1>3. DOMAIN entries = Names /\ DOMAIN settings.insts \subseteq Names
  BY DEF AgreementInv, ViewsInv
<1>4. ViewsInv'
  BY <1>1, <1>2, <1>3, ViewsKept
<1>5. ASSUME up = "up", ~overlap'
      PROVE  (Equipped /\ Agreed /\ OnlyListed({}))'
  <2>1. Equipped /\ Agreed /\ OnlyListed({})
    BY <1>1, <1>5, HalfwayBefore DEF Busy, Halfway
  <2>2. \A x \in Enabled : x \in Names
    BY <1>3 DEF Enabled
  <2>3. QED
    BY <1>1, <1>2, <2>1, <2>2 DEF Equipped, Agreed, OnlyListed, Enabled
<1>6. ~Busy(r)'
  BY <1>2 DEF Busy, Idle
<1>7. HolderInv' /\ SyncInv'
  BY <1>1, <1>2, <1>5, <1>6, HolderLeaves
<1>8. QED
  BY <1>4, <1>7 DEF AgreementInv

(* The job, the client and the entry of an instance follow it.             *)
LEMMA ApplyRemoveAgrees ==
  ASSUME LifecycleInv, AgreementInv, NEW r \in Requests, ApplyRemove(r)
  PROVE  AgreementInv'
<1>0. PICK n : n = proc[r].name
  OBVIOUS
<1>1. /\ r \in Processes /\ Holds(r) /\ proc[r].kind = "remove" /\ proc[r].pc = "written"
      /\ UNCHANGED <<up, file, settings, overlap>>
      /\ queue' = Tail(queue) /\ CloseOneOf(r, ToClose({n}, {}))
      /\ jobs' = jobs \ {n} /\ clients' = [clients EXCEPT ![n] = 0]
      /\ entries' = [entries EXCEPT ![n] = "absent"]
  BY <1>0 DEF ApplyRemove, At, Processes, history, disk
<1>2. /\ \A q \in Processes \ {r} : proc'[q] = proc[q]
      /\ \/ proc'[r] = Idle
         \/ /\ proc'[r].pc = "closing" /\ proc'[r].seen = proc[r].seen
            /\ proc'[r].new = proc[r].new /\ proc'[r].kind = proc[r].kind
            /\ proc'[r].name = proc[r].name
      /\ \A x \in Names : clients[x] # 0 =>
           conns'[x][clients[x]].url = conns[x][clients[x]].url
  BY <1>1, CloseOneFacts
<1>3. /\ DOMAIN entries = Names /\ DOMAIN clients = Names
      /\ DOMAIN settings.insts \subseteq Names
  BY DEF AgreementInv, ViewsInv, LifecycleInv, ClientsInv
<1>4. \A x \in Names :
        /\ clients'[x] = IF x = n THEN 0 ELSE clients[x]
        /\ x # n => entries'[x] = entries[x] /\ (x \in jobs' <=> x \in jobs)
        /\ x = n => x \notin jobs'
  BY <1>1, <1>3
<1>5. ViewsInv'
  BY <1>1, <1>2, <1>3, ViewsKept
<1>6. ASSUME up = "up", ~overlap'
      PROVE  (Equipped /\ Agreed /\ OnlyListed({}))'
  <2>1. Equipped /\ Halfway(r)
    BY <1>1, <1>6, HalfwayBefore DEF Busy
  <2>2. Agreed /\ n \notin DOMAIN settings.insts /\ OnlyListed({n})
    BY <1>0, <1>1, <2>1 DEF Halfway
  <2>3. \A x \in Enabled : x \in Names /\ x # n
    BY <1>3, <2>2 DEF Enabled
  <2>4. Enabled' = Enabled /\ Agreed'
    BY <1>1, <2>2 DEF Enabled, Agreed
  <2>5. Equipped'
    BY <1>1, <1>2, <1>4, <2>1, <2>3, <2>4 DEF Equipped
  <2>6. OnlyListed({})'
    BY <1>1, <1>4, <2>2 DEF OnlyListed
  <2>7. QED
    BY <2>4, <2>5, <2>6
<1>7. ~Busy(r)'
  BY <1>2 DEF Busy, Idle
<1>8. HolderInv' /\ SyncInv'
  BY <1>1, <1>2, <1>6, <1>7, HolderLeaves
<1>9. QED
  BY <1>5, <1>8 DEF AgreementInv

LEMMA CloseNextAgrees ==
  ASSUME LifecycleInv, AgreementInv, NEW r \in Requests, CloseNext(r)
  PROVE  AgreementInv'
<1>1. /\ r \in Processes /\ proc[r].pc = "closing" /\ CloseOneOf(r, proc[r].closing)
      /\ UNCHANGED <<up, file, settings, clients, jobs, entries, queue, overlap>>
  BY DEF CloseNext, Processes, history, disk
<1>2. /\ \A q \in Processes \ {r} : proc'[q] = proc[q]
      /\ \/ proc'[r] = Idle
         \/ /\ proc'[r].pc = "closing" /\ proc'[r].seen = proc[r].seen
            /\ proc'[r].new = proc[r].new /\ proc'[r].kind = proc[r].kind
            /\ proc'[r].name = proc[r].name
      /\ \A x \in Names : clients[x] # 0 =>
           conns'[x][clients[x]].url = conns[x][clients[x]].url
  BY <1>1, CloseOneFacts
<1>3. DOMAIN entries = Names /\ DOMAIN settings.insts \subseteq Names
  BY DEF AgreementInv, ViewsInv
<1>4. ViewsInv'
  BY <1>1, <1>2, <1>3, ViewsKept
<1>5. /\ \A q \in Processes : Busy(q)' <=> Busy(q)
      /\ \A q \in Processes : Busy(q) => proc'[q] = proc[q]
  BY <1>1, <1>2 DEF Busy, Idle
<1>6. HolderInv'
  BY <1>1, <1>5 DEF AgreementInv, HolderInv, Holds
<1>7. /\ Agreed' <=> Agreed
      /\ \A X : OnlyListed(X)' <=> OnlyListed(X)
      /\ \A q \in Processes : Busy(q) => (Halfway(q)' <=> Halfway(q))
  BY <1>1, <1>5 DEF Agreed, OnlyListed, Halfway
<1>8. Equipped => Equipped'
  BY <1>1, <1>2, <1>3 DEF Equipped, Enabled
<1>9. SyncInv'
  BY <1>1, <1>5, <1>7, <1>8 DEF AgreementInv, SyncInv
<1>10. QED
  BY <1>4, <1>6, <1>9 DEF AgreementInv

(* A program that shuts down has only its files to look after.             *)
LEMMA ShutdownAgrees ==
  ASSUME LifecycleInv, AgreementInv,
         Stop \/ Drain \/ DrainTimeout \/ \E x \in Names : JobCancelled(x)
  PROVE  AgreementInv'
<1>1. /\ up' # "up" /\ UNCHANGED <<file, settings, entries>>
      /\ proc' = proc \/ \E x \in Names : proc' = [proc EXCEPT ![x] = Idle]
  BY DEF Stop, Drain, DrainTimeout, JobCancelled, CloseClients, disk, live
<1>2. \A q \in Processes : proc'[q] \in {proc[q], Idle}
  BY <1>1 DEF LifecycleInv, ClosingInv
<1>3. DOMAIN entries = Names
  BY DEF AgreementInv, ViewsInv
<1>4. ViewsInv'
  BY <1>1, <1>2, <1>3, ViewsKept
<1>5. QED
  BY <1>1, <1>4 DEF AgreementInv, HolderInv, SyncInv

LEMMA AgreementNext ==
  LifecycleInv /\ AgreementInv /\ [Next]_vars => AgreementInv'
<1> SUFFICES ASSUME LifecycleInv, AgreementInv, [Next]_vars
             PROVE  AgreementInv'
  OBVIOUS
<1>1. CASE Arrive
  BY <1>1, ArriveAgrees
<1>2. ASSUME NEW r \in Requests,
             \/ RemoveFromSettings(r) \/ Write(r) \/ ApplyAuth(r) \/ ApplyAdd(r)
             \/ ApplySave(r) \/ ApplyRemove(r) \/ FinishSave(r) \/ CloseNext(r)
      PROVE  AgreementInv'
  BY <1>2, RemoveAgrees, WriteAgrees, ApplyAuthAgrees, ApplyAddAgrees,
     ApplySaveAgrees, ApplyRemoveAgrees, FinishSaveAgrees, CloseNextAgrees
<1>3. ASSUME NEW p \in Requests \cup Names,
             \/ WriteFails(p) \/ AuthRefused(p) \/ SavesNothing(p)
             \/ CycleSaves(p) \/ CycleFails(p) \/ FinishFails(p)
      PROVE  AgreementInv'
  BY <1>3, ReturnsAgree DEF Processes
<1>4. CASE LockStep
  BY <1>2, <1>3, <1>4 DEF LockStep
<1>5. CASE Stop \/ Drain \/ DrainTimeout \/ \E x \in Names : JobCancelled(x)
  BY <1>5, ShutdownAgrees
<1>6. CASE Restart \/ Crash
  BY <1>6, BootAgrees DEF Restart, Crash
<1>7. CASE UNCHANGED vars
  BY <1>7 DEF vars, disk, live, history, AgreementInv, ViewsInv, HolderInv, SyncInv,
              Busy, Holds, Halfway, Agreed, Equipped, OnlyListed, Enabled
<1>8. QED
  BY <1>1, <1>2, <1>3, <1>4, <1>5, <1>6, <1>7 DEF Next

(* Whenever nobody holds the search lock the file holds the settings, and  *)
(* clients, jobs and entries fit them, unless a handler of routes.py has   *)
(* applied what it read before it waited over something it never saw.      *)
THEOREM PartsAgree == Spec => []InSync
<1>1. AgreementInv => InSync
  <2>1. SUFFICES ASSUME AgreementInv, up = "up", queue = <<>>, ~overlap
                 PROVE  Agreed /\ Equipped /\ OnlyListed({})
    BY DEF InSync, Agreed, Equipped, OnlyListed
  <2>2. \A p \in Processes : ~Busy(p)
    BY <2>1 DEF AgreementInv, HolderInv, Holds
  <2>3. QED
    BY <2>1, <2>2 DEF AgreementInv, SyncInv
<1>2. QED
  BY <1>1, AgreementInit, AgreementNext, LifecycleInit, LifecycleNext, PTL DEF Spec

-----------------------------------------------------------------------------
(* The drain.                                                              *)

In(v, s) == \E i \in 1..Len(s) : s[i] = v

(* The lock's queue: everybody has one place in it.                        *)
IsQueue(s) ==
  /\ s \in Seq(Processes \cup {"drain"})
  /\ \A i, j \in 1..Len(s) : s[i] = s[j] => i = j

Waits(p) == proc[p].pc \notin {"idle", "closing"}

(* A process that is idle has nothing left of its last errand, and jobs    *)
(* close nothing.                                                          *)
RecordsInv ==
  /\ settings.object \in Nat \ {0}
  /\ \A p \in Processes :
       /\ proc[p].pc = "idle" => proc[p] = Idle
       /\ proc[p].kind = "remove" => proc[p].seen.object # 0
       /\ p \in Names => proc[p].pc # "closing"

(* In the queue are those who wait, and the lifespan behind all of them.   *)
PlacesInv ==
  /\ IsQueue(queue) /\ \A p \in Processes : Waits(p) <=> In(p, queue)
  /\ up # "draining" => ~In("drain", queue)

LastInv ==
  /\ up # "up" => \A r \in Requests : proc[r] = Idle
  /\ up = "draining" => queue # <<>> /\ queue[Len(queue)] = "drain"
  /\ up = "closed" => \A p \in Processes : proc[p] = Idle

DrainInv == RecordsInv /\ PlacesInv /\ LastInv

(* Who comes gets the last place.                                          *)
LEMMA PlaceIsLast ==
  ASSUME NEW s, IsQueue(s), NEW v \in Processes \cup {"drain"}, ~In(v, s)
  PROVE  LET t == Append(s, v)
         IN  /\ IsQueue(t) /\ t # <<>> /\ t[Len(t)] = v
             /\ \A w : In(w, t) <=> In(w, s) \/ w = v
<1> DEFINE P == Processes \cup {"drain"}
           t == Append(s, v)
<1>1. s \in Seq(P) /\ v \in P /\ Len(s) \in Nat
  BY DEF IsQueue
<1> HIDE DEF P
<1>2. /\ t \in Seq(P) /\ Len(t) = Len(s) + 1 /\ t[Len(s) + 1] = v
      /\ \A i \in 1..Len(s) : t[i] = s[i]
  BY <1>1, AppendProperties
<1> HIDE DEF t
<1>3. \A i, j \in 1..Len(t) : t[i] = t[j] => i = j
  BY <1>1, <1>2 DEF IsQueue, In
<1>4. t # <<>> /\ t[Len(t)] = v
  BY <1>1, <1>2
<1>5. \A w : In(w, t) <=> In(w, s) \/ w = v
  BY <1>1, <1>2 DEF In
<1>6. QED
  BY <1>2, <1>3, <1>4, <1>5 DEF IsQueue, P, t

(* A sequence without its kth element.                                     *)
LEMMA OneLess ==
  ASSUME NEW P, NEW s \in Seq(P), NEW k \in 1..Len(s)
  PROVE  LET t == SubSeq(s, 1, k - 1) \o SubSeq(s, k + 1, Len(s))
         IN  /\ t \in Seq(P) /\ Len(t) = Len(s) - 1
             /\ \A i \in 1..Len(t) : t[i] = IF i < k THEN s[i] ELSE s[i + 1]
<1> DEFINE a == SubSeq(s, 1, k - 1)
           b == SubSeq(s, k + 1, Len(s))
           t == a \o b
           n == Len(s)
<1>1. n \in Nat /\ k \in 1..n /\ \A i \in 1..n : s[i] \in P
  BY LenProperties, ElementOfSeq
<1> HIDE DEF n
<1>2. /\ a \in Seq(P) /\ Len(a) = k - 1 /\ \A i \in 1 .. k - 1 : a[i] = s[i]
  <2>1. 1 \in Int /\ k - 1 \in Int /\ \A i \in 1 .. k - 1 : s[i] \in P
    BY <1>1
  <2>2. /\ a \in Seq(P) /\ Len(a) = IF 1 <= k - 1 THEN k - 1 - 1 + 1 ELSE 0
        /\ \A i \in 1 .. k - 1 - 1 + 1 : a[i] = s[1 + i - 1]
    BY <2>1, SubSeqProperties
  <2> HIDE DEF a
  <2>3. Len(a) = k - 1
    BY <1>1, <2>2
  <2>4. \A i \in 1 .. k - 1 : i \in 1 .. k - 1 - 1 + 1 /\ 1 + i - 1 = i
    BY <1>1
  <2>5. QED
    BY <2>2, <2>3, <2>4
<1>3. /\ b \in Seq(P) /\ Len(b) = n - k
      /\ \A i \in 1 .. n - k : b[i] = s[i + k]
  <2>1. k + 1 \in Int /\ n \in Int /\ \A i \in k + 1 .. n : s[i] \in P
    BY <1>1
  <2>2. /\ b \in Seq(P)
        /\ Len(b) = IF k + 1 <= n THEN n - (k + 1) + 1 ELSE 0
        /\ \A i \in 1 .. n - (k + 1) + 1 : b[i] = s[k + 1 + i - 1]
    BY <2>1, SubSeqProperties DEF n
  <2> HIDE DEF b
  <2>3. Len(b) = n - k
    BY <1>1, <2>2
  <2>4. \A i \in 1 .. n - k : i \in 1 .. n - (k + 1) + 1 /\ k + 1 + i - 1 = i + k
    BY <1>1
  <2>5. QED
    BY <2>2, <2>3, <2>4
<1> HIDE DEF a, b
<1>4. /\ t \in Seq(P) /\ Len(t) = Len(a) + Len(b)
      /\ \A i \in 1 .. Len(a) + Len(b) : t[i] = IF i <= Len(a) THEN a[i] ELSE b[i - Len(a)]
  BY <1>2, <1>3, ConcatProperties
<1> HIDE DEF t
<1>5. Len(t) = n - 1
  BY <1>1, <1>2, <1>3, <1>4
<1>6. ASSUME NEW i \in 1..Len(t)
      PROVE  t[i] = IF i < k THEN s[i] ELSE s[i + 1]
  <2>1. CASE i < k
    <3>1. i \in 1 .. k - 1 /\ i <= Len(a) /\ i \in 1 .. Len(a) + Len(b)
      BY <1>1, <1>2, <1>3, <1>5, <1>6, <2>1
    <3>2. QED
      BY <1>2, <1>4, <2>1, <3>1
  <2>2. CASE ~(i < k)
    <3>1. /\ i - (k - 1) \in 1 .. n - k /\ ~(i <= Len(a)) /\ i \in 1 .. Len(a) + Len(b)
          /\ i - (k - 1) + k = i + 1 /\ i - Len(a) = i - (k - 1)
      BY <1>1, <1>2, <1>3, <1>5, <1>6, <2>2
    <3>2. t[i] = b[i - (k - 1)]
      BY <1>4, <3>1
    <3>3. QED
      BY <1>3, <2>2, <3>1, <3>2
  <2>3. QED
    BY <2>1, <2>2
<1>7. QED
  BY <1>4, <1>5, <1>6 DEF a, b, t, n

(* Who leaves gives up a place, and nobody else does.                      *)
LEMMA PlaceIsLeft ==
  ASSUME NEW s, IsQueue(s), NEW k \in 1..Len(s), NEW t,
         t \in Seq(Processes \cup {"drain"}), Len(t) = Len(s) - 1,
         \A i \in 1..Len(t) : t[i] = IF i < k THEN s[i] ELSE s[i + 1]
  PROVE  /\ IsQueue(t) /\ \A w : In(w, t) <=> In(w, s) /\ w # s[k]
         /\ k < Len(s) => t # <<>> /\ t[Len(t)] = s[Len(s)]
<1>1. Len(s) \in Nat /\ Len(t) \in Nat
  BY LenProperties DEF IsQueue
<1>2. ASSUME NEW i \in 1..Len(t), NEW j \in 1..Len(t), t[i] = t[j]
      PROVE  i = j
  <2> DEFINE m(n) == IF n < k THEN n ELSE n + 1
  <2>1. /\ m(i) \in 1..Len(s) /\ m(j) \in 1..Len(s) /\ s[m(i)] = t[i] /\ s[m(j)] = t[j]
    BY <1>1
  <2>2. m(i) = m(j)
    BY <1>2, <2>1 DEF IsQueue
  <2>3. QED
    BY <1>1, <2>2
<1>3. ASSUME NEW w
      PROVE  In(w, t) <=> In(w, s) /\ w # s[k]
  <2>1. ASSUME NEW i \in 1..Len(t), t[i] = w
        PROVE  In(w, s) /\ w # s[k]
    <3> DEFINE m == IF i < k THEN i ELSE i + 1
    <3>1. m \in 1..Len(s) /\ s[m] = w /\ m # k
      BY <1>1, <2>1
    <3>2. QED
      BY <3>1 DEF IsQueue, In
  <2>2. ASSUME NEW j \in 1..Len(s), s[j] = w, w # s[k]
        PROVE  In(w, t)
    <3>1. CASE j < k
      <4>1. j \in 1..Len(t) /\ t[j] = w
        BY <1>1, <2>2, <3>1
      <4>2. QED
        BY <4>1 DEF In
    <3>2. CASE j > k
      <4>1. j - 1 \in 1..Len(t) /\ ~(j - 1 < k) /\ j - 1 + 1 = j
        BY <1>1, <3>2
      <4>2. t[j - 1] = w
        BY <2>2, <4>1
      <4>3. QED
        BY <4>1, <4>2 DEF In
    <3>3. QED
      BY <1>1, <2>2, <3>1, <3>2
  <2>3. QED
    BY <2>1, <2>2 DEF In
<1>4. ASSUME k < Len(s)
      PROVE  t # <<>> /\ t[Len(t)] = s[Len(s)]
  <2>1. Len(t) \in 1..Len(t) /\ ~(Len(t) < k) /\ Len(t) + 1 = Len(s)
    BY <1>1, <1>4
  <2>2. t[Len(t)] = s[Len(s)]
    BY <2>1
  <2>3. t # <<>>
    BY <2>1
  <2>4. QED
    BY <2>2, <2>3
<1>5. QED
  BY <1>2, <1>3, <1>4 DEF IsQueue

(* The first place is a place like any other.                              *)
LEMMA FirstPlaceIsLeft ==
  ASSUME NEW s, IsQueue(s), s # <<>>
  PROVE  /\ 1 \in 1..Len(s) /\ Head(s) = s[1]
         /\ Tail(s) = SubSeq(s, 1, 1 - 1) \o SubSeq(s, 1 + 1, Len(s))
<1> DEFINE P == Processes \cup {"drain"}
<1>1. s \in Seq(P) /\ Len(s) \in Nat /\ Len(s) > 0
  BY EmptySeq DEF IsQueue
<1> HIDE DEF P
<1>2. SubSeq(s, 1, 1 - 1) = <<>>
  BY SubSeqEmpty
<1>3. Tail(s) = SubSeq(s, 2, Len(s)) /\ Tail(s) \in Seq(P)
  BY <1>1, TailIsSubSeq, HeadTailProperties
<1>4. <<>> \o Tail(s) = Tail(s)
  BY <1>3, ConcatEmptySeq
<1>5. 1 + 1 = 2 /\ 1 \in 1..Len(s) /\ Head(s) = s[1]
  BY <1>1
<1>6. QED
  BY <1>2, <1>3, <1>4, <1>5

(* The holder of the lock gives up its place.                              *)
LEMMA FirstLeaves ==
  ASSUME NEW s, IsQueue(s), s # <<>>
  PROVE  /\ IsQueue(Tail(s)) /\ \A w : In(w, Tail(s)) <=> In(w, s) /\ w # Head(s)
         /\ In(Head(s), s)
         /\ s[Len(s)] # Head(s) => Tail(s) # <<>> /\ Tail(s)[Len(Tail(s))] = s[Len(s)]
<1> DEFINE t == SubSeq(s, 1, 1 - 1) \o SubSeq(s, 1 + 1, Len(s))
<1>1. /\ 1 \in 1..Len(s) /\ Head(s) = s[1] /\ Tail(s) = t
  BY FirstPlaceIsLeft
<1>2. s \in Seq(Processes \cup {"drain"})
  BY DEF IsQueue
<1>3. /\ t \in Seq(Processes \cup {"drain"}) /\ Len(t) = Len(s) - 1
      /\ \A i \in 1..Len(t) : t[i] = IF i < 1 THEN s[i] ELSE s[i + 1]
  BY <1>1, <1>2, OneLess
<1> HIDE DEF t
<1>4. /\ IsQueue(t) /\ \A w : In(w, t) <=> In(w, s) /\ w # s[1]
      /\ 1 < Len(s) => t # <<>> /\ t[Len(t)] = s[Len(s)]
  BY <1>1, <1>3, PlaceIsLeft
<1>5. In(s[1], s)
  BY <1>1 DEF In
<1>6. Len(s) \in Nat /\ (s[Len(s)] # s[1] => 1 < Len(s))
  BY <1>1, <1>2, LenProperties
<1>7. QED
  BY <1>1, <1>4, <1>5, <1>6

LEMMA OneLeaves ==
  ASSUME IsQueue(queue), NEW v, LeaveQueue(v)
  PROVE  /\ IsQueue(queue') /\ \A w : In(w, queue') <=> In(w, queue) /\ w # v
         /\ queue[Len(queue)] # v => queue' # <<>> /\ queue'[Len(queue')] = queue[Len(queue)]
<1>1. queue \in Seq(Processes \cup {"drain"}) /\ DOMAIN queue = 1..Len(queue)
  BY LenProperties DEF IsQueue
<1>2. PICK k \in 1..Len(queue) :
        /\ queue[k] = v
        /\ queue' = SubSeq(queue, 1, k - 1) \o SubSeq(queue, k + 1, Len(queue))
  BY <1>1 DEF LeaveQueue
<1> DEFINE t == SubSeq(queue, 1, k - 1) \o SubSeq(queue, k + 1, Len(queue))
<1>3. /\ t \in Seq(Processes \cup {"drain"}) /\ Len(t) = Len(queue) - 1
      /\ \A i \in 1..Len(t) : t[i] = IF i < k THEN queue[i] ELSE queue[i + 1]
  BY <1>1, OneLess
<1>4. queue' = t /\ queue[k] = v
  BY <1>2
<1>5. Len(queue) \in Nat /\ (queue[Len(queue)] # v => k < Len(queue))
  BY <1>1, <1>4, LenProperties
<1> HIDE DEF t
<1>6. /\ IsQueue(t) /\ \A w : In(w, t) <=> In(w, queue) /\ w # queue[k]
      /\ k < Len(queue) => t # <<>> /\ t[Len(t)] = queue[Len(queue)]
  BY <1>3, PlaceIsLeft
<1>7. QED
  BY <1>4, <1>5, <1>6

LEMMA IdleWaitsNot ==
  /\ Idle.pc = "idle" /\ Idle.kind = "none"
  /\ \A p \in Processes : proc[p] = Idle => ~Waits(p)
  /\ \A p \in Processes : proc'[p] = Idle => ~Waits(p)'
BY DEF Idle, Waits

(* A process becomes idle, or keeps what it is about.                      *)
LEMMA RecordsKept ==
  ASSUME DrainInv, settings'.object \in Nat \ {0},
         \A q \in Processes :
           \/ proc'[q] \in {Idle, proc[q]}
           \/ /\ proc'[q].pc # "idle" /\ (q \in Names => proc'[q].pc # "closing")
              /\ proc'[q].kind = "remove" => proc'[q].seen.object # 0
  PROVE  RecordsInv'
BY IdleWaitsNot DEF DrainInv, RecordsInv

(* Nothing happens to the queue: some process goes on.                     *)
LEMMA StaysInQueue ==
  ASSUME LifecycleInv, DrainInv, UNCHANGED <<up, queue>>, RecordsInv',
         \A q \in Processes : Waits(q)' <=> Waits(q),
         up = "up" \/ proc' = proc
  PROVE  DrainInv'
<1>1. PlacesInv'
  BY DEF DrainInv, PlacesInv
<1>2. LastInv'
  BY DEF DrainInv, LastInv
<1>3. QED
  BY <1>1, <1>2 DEF DrainInv

(* The holder gives the lock back; the lifespan waits behind it.           *)
LEMMA HolderLeavesQueue ==
  ASSUME LifecycleInv, DrainInv, NEW p \in Processes, Holds(p), Waits(p), up' = up,
         queue' = Tail(queue), RecordsInv', ~Waits(p)',
         \A q \in Processes \ {p} : proc'[q] = proc[q]
  PROVE  DrainInv'
<1>1. queue # <<>> /\ Head(queue) = p /\ p # "drain"
  BY ProcessesAssumption DEF Holds, Processes
<1>2. /\ IsQueue(queue) /\ \A q \in Processes : Waits(q) <=> In(q, queue)
      /\ up # "draining" => ~In("drain", queue)
  BY DEF DrainInv, PlacesInv
<1>3. /\ IsQueue(queue') /\ \A w : In(w, queue') <=> In(w, queue) /\ w # p
      /\ queue[Len(queue)] # p => queue' # <<>> /\ queue'[Len(queue')] = queue[Len(queue)]
  BY <1>1, <1>2, FirstLeaves
<1>4. \A q \in Processes \ {p} : Waits(q)' <=> Waits(q)
  BY DEF Waits
<1>5. PlacesInv'
  BY <1>2, <1>3, <1>4 DEF PlacesInv
<1>6. /\ up # "up" => \A r \in Requests : proc'[r] = Idle
      /\ up = "draining" => queue' # <<>> /\ queue'[Len(queue')] = "drain"
  <2>1. /\ up # "up" => \A r \in Requests : proc[r] = Idle
        /\ up = "draining" => queue[Len(queue)] = "drain"
    BY DEF DrainInv, LastInv
  <2>2. up # "up" => \A r \in Requests : r \in Processes \ {p}
    BY <2>1, IdleWaitsNot DEF Processes
  <2>3. QED
    BY <1>1, <1>3, <2>1, <2>2
<1>7. up # "closed"
  BY IdleWaitsNot DEF DrainInv, LastInv
<1>8. LastInv'
  BY <1>6, <1>7 DEF LastInv
<1>9. QED
  BY <1>5, <1>8 DEF DrainInv

(* A request that is under way is one the server has not answered: the     *)
(* lifespan does not shut down yet.                                        *)
LEMMA RequestsKeepItUp ==
  ASSUME DrainInv, NEW r \in Requests, proc[r].pc # "idle"
  PROVE  up = "up"
BY IdleWaitsNot DEF DrainInv, LastInv, Processes

(* Somebody begins to wait.                                                *)
LEMMA ComerWaits ==
  ASSUME LifecycleInv, DrainInv, NEW p \in Processes, proc[p] = Idle, up = "up",
         NEW kind, NEW rec, DOMAIN rec = DOMAIN Idle, Wait(p, kind, rec),
         kind = "remove" => rec.seen.object # 0, UNCHANGED <<up, settings>>
  PROVE  DrainInv'
<1> DEFINE new == [rec EXCEPT !.pc = "queued", !.kind = kind]
<1>1. new.pc = "queued" /\ new.kind = kind /\ new.seen = rec.seen
  BY DEF Idle
<1>2. /\ \A q \in Processes : proc'[q] = IF q = p THEN new ELSE proc[q]
      /\ queue' = Append(queue, p)
  BY DEF Wait, Enqueue, LifecycleInv, ClosingInv
<1> HIDE DEF new
<1>3. RecordsInv'
  BY <1>1, <1>2, RecordsKept DEF DrainInv, RecordsInv
<1>4. \A q \in Processes : Waits(q)' <=> Waits(q) \/ q = p
  BY <1>1, <1>2 DEF Waits
<1>5. /\ IsQueue(queue) /\ \A q \in Processes : Waits(q) <=> In(q, queue)
      /\ ~In("drain", queue) /\ ~In(p, queue)
  BY IdleWaitsNot DEF DrainInv, PlacesInv
<1>6. IsQueue(queue') /\ \A w : In(w, queue') <=> In(w, queue) \/ w = p
  BY <1>2, <1>5, PlaceIsLast
<1>7. p # "drain"
  BY ProcessesAssumption DEF Processes
<1>8. PlacesInv' /\ LastInv'
  BY <1>4, <1>5, <1>6, <1>7 DEF PlacesInv, LastInv
<1>9. QED
  BY <1>3, <1>8 DEF DrainInv

LEMMA ArriveDrains ==
  ASSUME LifecycleInv, DrainInv, Arrive
  PROVE  DrainInv'
<1>1. ASSUME NEW r \in Requests, NEW kind, NEW rec, Submit(r), Wait(r, kind, rec),
             DOMAIN rec = DOMAIN Idle, kind = "remove" => rec.seen.object # 0
      PROVE  DrainInv'
  <2>1. /\ r \in Processes /\ proc[r] = Idle /\ up = "up" /\ UNCHANGED <<up, settings>>
    BY <1>1 DEF Submit, Processes, live
  <2>2. QED
    BY <1>1, <2>1, ComerWaits
<1>2. ASSUME NEW r \in Requests,
             \/ SubmitSave(r) \/ SubmitAuth(r)
             \/ \E x \in Names : SubmitAdd(r, x) \/ SubmitSearch(r, x) \/ SubmitRefresh(r, x)
      PROVE  DrainInv'
  <2>1. CASE SubmitSave(r)
    <3>1. PICK new : Submit(r) /\ Wait(r, "save", [Idle EXCEPT !.seen = View, !.new = new])
      BY <2>1 DEF SubmitSave, FilledAuth
    <3>2. QED
      BY <1>1, <3>1, IdleFields
  <2>2. CASE SubmitAuth(r)
    BY <1>1, <2>2 DEF SubmitAuth
  <2>3. ASSUME NEW x \in Names, SubmitAdd(r, x)
        PROVE  DrainInv'
    <3>1. PICK new :
            Submit(r) /\ Wait(r, "add", [Idle EXCEPT !.name = x, !.seen = View, !.new = new])
      BY <2>3 DEF SubmitAdd
    <3>2. QED
      BY <1>1, <3>1, IdleFields
  <2>4. ASSUME NEW x \in Names, SubmitSearch(r, x) \/ SubmitRefresh(r, x)
        PROVE  DrainInv'
    <3>1. /\ Submit(r) /\ DOMAIN Found(x) = DOMAIN Idle
          /\ \/ Wait(r, "search", Found(x)) \/ Wait(r, "refresh", Found(x))
      BY <2>4, IdleFields DEF SubmitSearch, SubmitRefresh, Found
    <3>2. QED
      BY <1>1, <3>1
  <2>5. QED
    BY <1>2, <2>1, <2>2, <2>3, <2>4
<1>3. ASSUME NEW r \in Requests, NEW x \in Names, SubmitRemove(r, x)
      PROVE  DrainInv'
  <2> DEFINE rec == [Idle EXCEPT !.name = x, !.seen = View]
  <2>1. Submit(r) /\ Wait(r, "remove", rec)
    BY <1>3 DEF SubmitRemove
  <2>2. rec.seen.object = settings.object
    BY DEF Idle, View
  <2>3. DOMAIN rec = DOMAIN Idle
    BY IdleFields
  <2> HIDE DEF rec
  <2>4. QED
    BY <1>1, <2>1, <2>2, <2>3 DEF DrainInv, RecordsInv
<1>4. ASSUME NEW x \in Names, JobFires(x)
      PROVE  DrainInv'
  <2>1. /\ x \in Processes /\ proc[x] = Idle /\ up = "up" /\ UNCHANGED <<up, settings>>
        /\ Wait(x, "job", Found(x))
    BY <1>4 DEF JobFires, Processes, live
  <2>2. DOMAIN Found(x) = DOMAIN Idle
    BY IdleFields DEF Found
  <2>3. QED
    BY <2>1, <2>2, ComerWaits
<1>5. QED
  BY <1>2, <1>3, <1>4 DEF Arrive

(* Who gives the lock back and is over.                                    *)
LEMMA ReturnDrains ==
  ASSUME LifecycleInv, DrainInv, NEW p \in Processes, Holds(p), Return(p),
         proc[p].pc \notin {"idle", "closing"}, up' = up,
         settings' = settings \/ settings'.object = settings.object + 1
  PROVE  DrainInv'
<1>1. /\ \A q \in Processes : proc'[q] = IF q = p THEN Idle ELSE proc[q]
      /\ queue' = Tail(queue)
  BY DEF Return, LifecycleInv, ClosingInv
<1>2. settings'.object \in Nat \ {0}
  BY DEF DrainInv, RecordsInv
<1>3. RecordsInv'
  BY <1>1, <1>2, RecordsKept
<1>4. Waits(p) /\ ~Waits(p)'
  BY <1>1, IdleWaitsNot DEF Waits
<1>5. QED
  BY <1>1, <1>3, <1>4, HolderLeavesQueue

LEMMA ReturnsDrain ==
  ASSUME LifecycleInv, DrainInv, NEW p \in Processes,
         \/ WriteFails(p) \/ AuthRefused(p) \/ ApplyAuth(p) \/ ApplyAdd(p)
         \/ SavesNothing(p) \/ CycleSaves(p) \/ CycleFails(p) \/ FinishFails(p)
  PROVE  DrainInv'
<1>1. /\ Holds(p) /\ Return(p) /\ proc[p].pc \notin {"idle", "closing"} /\ up' = up
  BY DEF WriteFails, MayWrite, AuthRefused, ApplyAuth, ApplyAdd, SavesNothing,
         CycleSaves, CycleFails, FinishFails, At
<1>2. settings' = settings \/ \E config : settings' = NewSettings(config)
  BY DEF WriteFails, AuthRefused, ApplyAuth, ApplyAdd, SavesNothing,
         CycleSaves, CycleFails, FinishFails, live
<1>3. settings' = settings \/ settings'.object = settings.object + 1
  BY <1>2 DEF NewSettings
<1>4. QED
  BY <1>1, <1>3, ReturnDrains

(* The holder goes on.                                                     *)
LEMMA GoesOnDrains ==
  ASSUME LifecycleInv, DrainInv, NEW r \in Requests, Write(r) \/ ApplySave(r)
  PROVE  DrainInv'
<1>1. /\ r \in Processes /\ proc[r].pc \notin {"idle", "closing"} /\ UNCHANGED <<up, queue>>
      /\ settings' = settings \/ settings' = NewSettings(proc[r].new)
  BY DEF Write, MayWrite, ApplySave, At, live, Processes
<1>2. r \notin Names
  BY ProcessesAssumption
<1>3. \A q \in Processes :
        /\ q # r => proc'[q] = proc[q]
        /\ proc'[r].pc \in {"written", "applied"}
        /\ proc'[r].kind = proc[r].kind /\ proc'[r].seen = proc[r].seen
  <2>1. CASE Write(r)
    BY <1>1, <2>1 DEF Write, Becomes, LifecycleInv, ClosingInv, Idle
  <2>2. CASE ApplySave(r)
    <3>1. PICK set : proc' = [proc EXCEPT ![r].pc = "applied", ![r].closing = set]
      BY <2>2 DEF ApplySave
    <3>2. QED
      BY <1>1, <3>1 DEF LifecycleInv, ClosingInv, Idle
  <2>3. QED
    BY <2>1, <2>2
<1>4. settings'.object \in Nat \ {0}
  BY <1>1 DEF NewSettings, DrainInv, RecordsInv
<1>5. RecordsInv'
  BY <1>1, <1>2, <1>3, <1>4, RecordsKept DEF DrainInv, RecordsInv
<1>6. \A q \in Processes : Waits(q)' <=> Waits(q)
  BY <1>1, <1>3 DEF Waits
<1>7. QED
  BY <1>1, <1>5, <1>6, RequestsKeepItUp, StaysInQueue

LEMMA RemoveDrains ==
  ASSUME LifecycleInv, AgreementInv, DrainInv, NEW r \in Requests, RemoveFromSettings(r)
  PROVE  DrainInv'
<1>0. PICK x, o : x = proc[r].name /\ o = proc[r].seen.object
  OBVIOUS
<1>1. /\ r \in Processes /\ r \notin Names /\ Holds(r) /\ up' = up
      /\ proc[r].kind = "remove" /\ proc[r].pc = "queued"
  BY ProcessesAssumption DEF RemoveFromSettings, At, Processes
<1>2. CASE x \notin DOMAIN proc[r].seen.insts
  BY <1>0, <1>1, <1>2, ReturnDrains DEF RemoveFromSettings
<1>3. CASE x \in DOMAIN proc[r].seen.insts
  <2> DEFINE turn(p) == IF p = r THEN [proc[p] EXCEPT !.pc = "removed"] ELSE proc[p]
             kept(p) == [turn(p) EXCEPT !.seen.insts = Without(turn(p).seen.insts, x)]
  <2>1. /\ proc' = [p \in DOMAIN proc |->
                      IF turn(p).seen.object = o THEN kept(p) ELSE turn(p)]
        /\ settings' = IF settings.object # o THEN settings
                       ELSE [settings EXCEPT !.insts = Without(settings.insts, x),
                                             !.rev = settings.rev + 1]
        /\ queue' = queue
    BY <1>0, <1>3 DEF RemoveFromSettings
  <2>2. /\ DOMAIN proc = Processes /\ \A p \in Processes : DOMAIN proc[p] = DOMAIN Idle
        /\ \A p \in Processes : DOMAIN proc[p].seen = DOMAIN Idle.seen
    BY DEF LifecycleInv, ClosingInv, AgreementInv, ViewsInv, Sees
  <2>3. \A p \in Processes :
          /\ DOMAIN turn(p) = DOMAIN Idle /\ turn(p).seen = proc[p].seen
          /\ turn(p).kind = proc[p].kind
          /\ p # r => turn(p) = proc[p]
          /\ turn(p).pc = IF p = r THEN "removed" ELSE proc[p].pc
    BY <2>2 DEF Idle
  <2> HIDE DEF turn
  <2>4. \A p \in Processes :
          /\ kept(p).pc = turn(p).pc /\ kept(p).kind = turn(p).kind
          /\ kept(p).seen.object = turn(p).seen.object
    BY <2>2, <2>3 DEF Idle
  <2> HIDE DEF kept
  <2>5. \A p \in Processes :
          /\ proc'[p].pc = IF p = r THEN "removed" ELSE proc[p].pc
          /\ proc'[p].kind = proc[p].kind /\ proc'[p].seen.object = proc[p].seen.object
          /\ p # r /\ proc[p].seen.object # o => proc'[p] = proc[p]
    <3>1. \A p \in Processes :
            proc'[p] = IF turn(p).seen.object = o THEN kept(p) ELSE turn(p)
      BY <2>1, <2>2
    <3>2. QED
      BY <2>3, <2>4, <3>1
  <2>6. o # 0 /\ Idle.seen.object = 0 /\ Idle.pc = "idle"
    BY <1>0, <1>1 DEF DrainInv, RecordsInv, Idle
  <2>7. settings'.object = settings.object
    BY <2>1
  <2>8. RecordsInv'
    BY <1>1, <2>5, <2>6, <2>7, RecordsKept DEF DrainInv, RecordsInv
  <2>9. \A q \in Processes : Waits(q)' <=> Waits(q)
    BY <1>1, <2>5 DEF Waits
  <2>10. QED
    BY <1>1, <2>1, <2>8, <2>9, RequestsKeepItUp, StaysInQueue
<1>4. QED
  BY <1>2, <1>3

(* A request that closes the clients it replaced is not in the queue.      *)
LEMMA ClosingDrains ==
  ASSUME LifecycleInv, DrainInv, NEW r \in Requests,
         FinishSave(r) \/ ApplyRemove(r) \/ CloseNext(r)
  PROVE  DrainInv'
<1>1. /\ r \in Processes /\ r \notin Names /\ proc[r].pc # "idle"
      /\ UNCHANGED <<up, settings>> /\ \E set : CloseOneOf(r, set)
  BY ProcessesAssumption DEF FinishSave, ApplyRemove, CloseNext, At, Processes
<1>2. /\ \A q \in Processes \ {r} : proc'[q] = proc[q]
      /\ \/ proc'[r] = Idle
         \/ /\ proc'[r].pc = "closing" /\ proc'[r].seen = proc[r].seen
            /\ proc'[r].kind = proc[r].kind
  BY <1>1, CloseOneFacts
<1>3. RecordsInv'
  BY <1>1, <1>2, RecordsKept DEF DrainInv, RecordsInv
<1>4. ~Waits(r)'
  BY <1>2 DEF Waits, Idle
<1>5. CASE CloseNext(r)
  <2>1. UNCHANGED queue /\ ~Waits(r)
    BY <1>5 DEF CloseNext, Waits
  <2>2. \A q \in Processes : Waits(q)' <=> Waits(q)
    BY <1>2, <1>4, <2>1 DEF Waits
  <2>3. QED
    BY <1>1, <1>3, <2>1, <2>2, RequestsKeepItUp, StaysInQueue
<1>6. CASE FinishSave(r) \/ ApplyRemove(r)
  <2>1. Holds(r) /\ queue' = Tail(queue) /\ Waits(r)
    BY <1>6 DEF FinishSave, ApplyRemove, At, Waits
  <2>2. QED
    BY <1>1, <1>2, <1>3, <1>4, <2>1, HolderLeavesQueue
<1>7. QED
  BY <1>5, <1>6

-----------------------------------------------------------------------------

(* The lifespan gets in line behind whoever is still there.                *)
LEMMA StopDrains ==
  ASSUME DrainInv, Stop
  PROVE  DrainInv'
<1>1. /\ up = "up" /\ up' = "draining" /\ queue' = Append(queue, "drain")
      /\ UNCHANGED <<settings, proc>> /\ \A r \in Requests : proc[r] = Idle
  BY DEF Stop, Enqueue, live
<1>2. IsQueue(queue) /\ ~In("drain", queue)
  BY <1>1 DEF DrainInv, PlacesInv
<1>3. /\ IsQueue(queue') /\ queue' # <<>> /\ queue'[Len(queue')] = "drain"
      /\ \A w : In(w, queue') <=> In(w, queue) \/ w = "drain"
  BY <1>1, <1>2, PlaceIsLast
<1>4. RecordsInv' /\ \A q \in Processes : Waits(q)' <=> Waits(q)
  BY <1>1 DEF DrainInv, RecordsInv, Waits
<1>5. \A q \in Processes : q # "drain"
  BY ProcessesAssumption DEF Processes
<1>6. PlacesInv' /\ LastInv'
  BY <1>1, <1>3, <1>4, <1>5 DEF DrainInv, PlacesInv, LastInv
<1>7. QED
  BY <1>4, <1>6 DEF DrainInv

(* A job that is cancelled gives up its place; the lifespan keeps its own. *)
LEMMA CancelDrains ==
  ASSUME LifecycleInv, DrainInv, NEW x \in Names, JobCancelled(x)
  PROVE  DrainInv'
<1>1. /\ x \in Processes /\ x # "drain" /\ x \notin Requests
      /\ up \in {"draining", "forced"} /\ proc[x] # Idle /\ LeaveQueue(x)
      /\ UNCHANGED <<up, settings>>
      /\ \A q \in Processes : proc'[q] = IF q = x THEN Idle ELSE proc[q]
  BY ProcessesAssumption DEF JobCancelled, Processes, live, LifecycleInv, ClosingInv
<1>2. RecordsInv'
  BY <1>1, RecordsKept DEF DrainInv, RecordsInv
<1>3. /\ IsQueue(queue) /\ \A q \in Processes : Waits(q) <=> In(q, queue)
      /\ up # "draining" => ~In("drain", queue)
  BY DEF DrainInv, PlacesInv
<1>4. /\ IsQueue(queue') /\ \A w : In(w, queue') <=> In(w, queue) /\ w # x
      /\ queue[Len(queue)] # x => queue' # <<>> /\ queue'[Len(queue')] = queue[Len(queue)]
  BY <1>1, <1>3, OneLeaves
<1>5. \A q \in Processes : Waits(q)' <=> Waits(q) /\ q # x
  BY <1>1, IdleWaitsNot DEF Waits
<1>6. PlacesInv'
  BY <1>1, <1>3, <1>4, <1>5 DEF PlacesInv
<1>7. LastInv'
  BY <1>1, <1>4 DEF DrainInv, LastInv, Processes
<1>8. QED
  BY <1>2, <1>6, <1>7 DEF DrainInv

(* The lifespan holds the lock: being the last, it is alone.               *)
LEMMA DrainCloses ==
  ASSUME LifecycleInv, DrainInv, Drain \/ DrainTimeout
  PROVE  DrainInv'
<1>1. UNCHANGED <<settings, proc>> /\ up = "draining"
  BY DEF Drain, DrainTimeout, CloseClients
<1>2. RecordsInv'
  BY <1>1 DEF DrainInv, RecordsInv
<1>3. CASE DrainTimeout
  <2>1. up' = "forced" /\ LeaveQueue("drain")
    BY <1>3 DEF DrainTimeout
  <2>2. /\ IsQueue(queue) /\ \A q \in Processes : Waits(q) <=> In(q, queue)
        /\ \A r \in Requests : proc[r] = Idle
    BY <1>1 DEF DrainInv, PlacesInv, LastInv
  <2>3. IsQueue(queue') /\ \A w : In(w, queue') <=> In(w, queue) /\ w # "drain"
    BY <2>1, <2>2, OneLeaves
  <2>4. \A q \in Processes : q # "drain" /\ (Waits(q)' <=> Waits(q))
    BY <1>1, ProcessesAssumption DEF Processes, Waits
  <2>5. PlacesInv' /\ LastInv'
    BY <1>1, <2>1, <2>2, <2>3, <2>4 DEF PlacesInv, LastInv
  <2>6. QED
    BY <1>2, <2>5 DEF DrainInv
<1>4. CASE Drain
  <2>1. up' = "closed" /\ queue # <<>> /\ Head(queue) = "drain"
    BY <1>4 DEF Drain
  <2>2. /\ IsQueue(queue) /\ \A q \in Processes : Waits(q) <=> In(q, queue)
        /\ queue[Len(queue)] = "drain" /\ \A r \in Requests : proc[r] = Idle
    BY <1>1 DEF DrainInv, PlacesInv, LastInv
  <2>3. Head(queue) = queue[1] /\ 1 \in 1..Len(queue) /\ Len(queue) \in 1..Len(queue)
    BY <2>1, <2>2, FirstPlaceIsLeft
  <2>4. Len(queue) = 1
    BY <2>1, <2>2, <2>3 DEF IsQueue
  <2>5. /\ \A q \in Processes : ~In(q, queue)
        /\ IsQueue(queue') /\ \A w : In(w, queue') <=> In(w, queue) /\ w # "drain"
    <3>1. \A q \in Processes : ~In(q, queue)
      BY <2>1, <2>3, <2>4, ProcessesAssumption DEF In, Processes
    <3>2. queue' = Tail(queue)
      BY <1>4 DEF Drain
    <3>3. QED
      BY <2>1, <2>2, <3>1, <3>2, FirstLeaves
  <2>6. \A q \in Processes : proc[q] = Idle
    BY <2>2, <2>5 DEF Waits, DrainInv, RecordsInv, Processes
  <2>7. PlacesInv' /\ LastInv'
    BY <1>1, <2>1, <2>2, <2>5, <2>6 DEF PlacesInv, LastInv, Waits
  <2>8. QED
    BY <1>2, <2>7 DEF DrainInv
<1>5. QED
  BY <1>3, <1>4

LEMMA DrainStart ==
  ASSUME NEW q, q = <<>>, NEW f, f = Nobody
  PROVE  IsQueue(q) /\ (\A v : ~In(v, q)) /\ \A p \in Processes : f[p] = Idle
BY EmptySeq DEF IsQueue, In, Nobody, Processes

LEMMA DrainInit == Init => DrainInv
<1> SUFFICES ASSUME Init PROVE DrainInv
  OBVIOUS
<1>1. queue = <<>> /\ up = "up" /\ proc = Nobody /\ settings.object = 1
  BY DEF Init, FirstSettings
<1>2. IsQueue(queue) /\ (\A v : ~In(v, queue)) /\ \A p \in Processes : proc[p] = Idle
  BY <1>1, DrainStart
<1>3. RecordsInv
  BY <1>1, <1>2, IdleWaitsNot DEF RecordsInv
<1>4. PlacesInv /\ LastInv
  BY <1>1, <1>2, IdleWaitsNot DEF PlacesInv, LastInv
<1>5. QED
  BY <1>3, <1>4 DEF DrainInv

LEMMA BootDrains == Boot => DrainInv'
<1> SUFFICES ASSUME Boot PROVE DrainInv'
  OBVIOUS
<1>1. queue' = <<>> /\ up' = "up" /\ proc' = Nobody /\ settings'.object = 1
  BY DEF Boot, FirstSettings
<1>2. IsQueue(queue') /\ (\A v : ~In(v, queue')) /\ \A p \in Processes : proc'[p] = Idle
  BY <1>1, DrainStart
<1>3. RecordsInv'
  BY <1>1, <1>2, IdleWaitsNot DEF RecordsInv
<1>4. PlacesInv' /\ LastInv'
  BY <1>1, <1>2, IdleWaitsNot DEF PlacesInv, LastInv
<1>5. QED
  BY <1>3, <1>4 DEF DrainInv

LEMMA DrainNext == LifecycleInv /\ AgreementInv /\ DrainInv /\ [Next]_vars => DrainInv'
<1> SUFFICES ASSUME LifecycleInv, AgreementInv, DrainInv, [Next]_vars
             PROVE  DrainInv'
  OBVIOUS
<1>1. CASE Arrive
  BY <1>1, ArriveDrains
<1>2. ASSUME NEW r \in Requests,
             \/ RemoveFromSettings(r) \/ Write(r) \/ ApplySave(r)
             \/ ApplyRemove(r) \/ FinishSave(r) \/ CloseNext(r)
      PROVE  DrainInv'
  BY <1>2, RemoveDrains, GoesOnDrains, ClosingDrains
<1>3. ASSUME NEW p \in Requests \cup Names,
             \/ WriteFails(p) \/ AuthRefused(p) \/ ApplyAuth(p) \/ ApplyAdd(p)
             \/ SavesNothing(p) \/ CycleSaves(p) \/ CycleFails(p) \/ FinishFails(p)
      PROVE  DrainInv'
  BY <1>3, ReturnsDrain DEF Processes
<1>4. CASE LockStep
  BY <1>2, <1>3, <1>4 DEF LockStep
<1>5. CASE Stop \/ Drain \/ DrainTimeout \/ \E x \in Names : JobCancelled(x)
  BY <1>5, StopDrains, DrainCloses, CancelDrains
<1>6. CASE Restart \/ Crash
  BY <1>6, BootDrains DEF Restart, Crash
<1>7. CASE UNCHANGED vars
  BY <1>7 DEF vars, live, DrainInv, RecordsInv, PlacesInv, LastInv, Waits
<1>8. QED
  BY <1>1, <1>2, <1>3, <1>4, <1>5, <1>6, <1>7 DEF Next

(* When the lifespan has got the lock and the clients are closed, nobody   *)
(* is left who might still write, as its comment says: the lock is fair    *)
(* and the lifespan came last, however many jobs waited or were cancelled. *)
THEOREM NobodyAfterDrain == Spec => []ClosedAfterDrain
<1>1. DrainInv => ClosedAfterDrain
  BY DEF DrainInv, LastInv, ClosedAfterDrain, Processes
<1>2. QED
  BY <1>1, DrainInit, DrainNext, AgreementInit, AgreementNext,
     LifecycleInit, LifecycleNext, PTL DEF Spec

-----------------------------------------------------------------------------
(* Types.                                                                  *)

(* What may be configured: known instances, not too many.                  *)
Good(f) == f \in Instances /\ Valid(f)

(* Requests for new credentials that have not written them yet.            *)
Pending == {r \in Requests : proc[r].kind = "auth" /\ proc[r].pc = "queued"}

(* Each of n requests that are pending may still raise a by one.           *)
Room(a, n, max) == a \in Nat /\ a + n <= max

RecordTyped(rec, n, max) ==
  /\ rec.kind \in {"save", "add", "remove"} => Good(rec.seen.insts)
  /\ rec.kind \in {"save", "add"} => Good(rec.new.insts)
  /\ Room(rec.seen.auth, n, max) /\ Room(rec.new.auth, n, max)

FilesInv ==
  /\ up \in {"up", "draining", "closed", "forced"}
  /\ Good(file.insts) /\ Good(settings.insts) /\ jobs \subseteq Names
  /\ stateFile \in [Names -> {"absent", "fresh", "used"}]
  /\ entries \in [Names -> {"absent", "fresh", "used"}]

CountInv ==
  LET n == Cardinality(Pending) IN
  /\ IsFiniteSet(Pending) /\ sent \in 0..MaxRequests
  /\ Room(file.auth, n, sent) /\ Room(settings.auth, n, sent)
  /\ \A p \in Processes : RecordTyped(proc[p], n, sent)

TypeInv == FilesInv /\ CountInv

LEMMA InstancesFacts ==
  /\ \A f : f \in Instances <=>
       DOMAIN f \subseteq Names /\ f = [x \in DOMAIN f |-> f[x]] /\ \A x \in DOMAIN f : f[x] \in Cfg
  /\ \A f, x : Good(f) => Good(Without(f, x))
<1>1. ASSUME NEW f
      PROVE  f \in Instances <=>
               /\ DOMAIN f \subseteq Names /\ f = [x \in DOMAIN f |-> f[x]]
               /\ \A x \in DOMAIN f : f[x] \in Cfg
  <2>1. ASSUME f \in Instances
        PROVE  /\ DOMAIN f \subseteq Names /\ f = [x \in DOMAIN f |-> f[x]]
               /\ \A x \in DOMAIN f : f[x] \in Cfg
    <3>1. PICK N \in SUBSET Names : f \in [N -> Cfg]
      BY <2>1 DEF Instances
    <3>2. QED
      BY <3>1
  <2>2. ASSUME DOMAIN f \subseteq Names, f = [x \in DOMAIN f |-> f[x]],
               \A x \in DOMAIN f : f[x] \in Cfg
        PROVE  f \in Instances
    <3>1. f \in [DOMAIN f -> Cfg]
      BY <2>2
    <3>2. QED
      BY <2>2, <3>1 DEF Instances
  <2>3. QED
    BY <2>1, <2>2
<1>2. ASSUME NEW f, NEW x, Good(f)
      PROVE  Good(Without(f, x))
  <2>1. /\ DOMAIN f \subseteq Names /\ IsFiniteSet(DOMAIN f)
        /\ \A y \in DOMAIN f : f[y] \in Cfg
    BY <1>1, <1>2, NamesAssumption, FS_Subset DEF Good
  <2>2. Cardinality(DOMAIN f \ {x}) <= Cardinality(DOMAIN f)
    BY <2>1, FS_Subset
  <2>3. /\ Cardinality(DOMAIN f \ {x}) \in Nat /\ Cardinality(DOMAIN f) \in Nat
    BY <2>1, FS_Subset, FS_CardinalityType
  <2>4. /\ DOMAIN Without(f, x) = DOMAIN f \ {x}
        /\ Without(f, x) = [y \in DOMAIN f \ {x} |-> Without(f, x)[y]]
        /\ \A y \in DOMAIN f \ {x} : Without(f, x)[y] \in Cfg
    BY <2>1 DEF Without
  <2>5. Without(f, x) \in Instances
    BY <1>1, <2>1, <2>4
  <2>6. MaxInstances \in Nat /\ Cardinality(DOMAIN f) <= MaxInstances
    BY <1>2, ProcessesAssumption DEF Good, Valid
  <2>7. QED
    BY <2>2, <2>3, <2>4, <2>5, <2>6 DEF Good, Valid
<1>3. QED
  BY <1>1, <1>2

(* Filled from the file, instances are instances still.                    *)
LEMMA FillTyped ==
  ASSUME NEW f \in Instances, file.insts \in Instances
  PROVE  FilledFromFile(f) \in Instances
<1> DEFINE g == FilledFromFile(f)
<1>1. /\ DOMAIN g = DOMAIN f \cup DOMAIN file.insts /\ g = [x \in DOMAIN g |-> g[x]]
      /\ \A x \in DOMAIN g : g[x] = IF x \in DOMAIN f THEN f[x] ELSE file.insts[x]
  BY DEF FilledFromFile
<1> HIDE DEF g
<1>2. DOMAIN g \subseteq Names /\ \A x \in DOMAIN g : g[x] \in Cfg
  BY <1>1, InstancesFacts
<1>3. QED
  BY <1>1, <1>2, InstancesFacts DEF g

(* Whether somebody comes, goes or goes on: who had room before has it.    *)
LEMMA RoomIsLeft ==
  ASSUME NEW P, IsFiniteSet(P), NEW Q, NEW r, NEW s \in Nat, NEW t \in Nat,
         \/ Q \subseteq P /\ t = s
         \/ Q \subseteq P \cup {r} /\ t = s + 1
  PROVE  /\ IsFiniteSet(Q)
         /\ \A a : Room(a, Cardinality(P), s) => Room(a, Cardinality(Q), t)
         /\ \A a : r \in P /\ r \notin Q /\ t = s /\ Room(a, Cardinality(P), s)
                     => Room(a + 1, Cardinality(Q), t)
<1>1. IsFiniteSet(P \cup {r}) /\ IsFiniteSet(P \ {r})
  BY FS_AddElement, FS_RemoveElement
<1>2. IsFiniteSet(Q) /\ Cardinality(Q) \in Nat /\ Cardinality(P) \in Nat
  BY <1>1, FS_Subset, FS_CardinalityType
<1>3. Q \subseteq P => Cardinality(Q) <= Cardinality(P)
  BY FS_Subset
<1>4. Q \subseteq P \cup {r} => Cardinality(Q) <= Cardinality(P) + 1
  <2>1. Cardinality(P \cup {r}) \in {Cardinality(P), Cardinality(P) + 1}
    BY FS_AddElement
  <2>2. Q \subseteq P \cup {r} => Cardinality(Q) <= Cardinality(P \cup {r})
    BY <1>1, FS_Subset
  <2>3. QED
    BY <1>2, <2>1, <2>2
<1>5. r \in P /\ r \notin Q /\ Q \subseteq P => Cardinality(Q) <= Cardinality(P) - 1
  <2>1. r \in P => Cardinality(P \ {r}) = Cardinality(P) - 1
    BY FS_RemoveElement
  <2>2. r \notin Q /\ Q \subseteq P => Q \subseteq P \ {r} /\ Cardinality(Q) <= Cardinality(P \ {r})
    BY <1>1, FS_Subset
  <2>3. QED
    BY <2>1, <2>2
<1>6. \A a : Room(a, Cardinality(P), s) => Room(a, Cardinality(Q), t)
  BY <1>2, <1>3, <1>4 DEF Room
<1>7. t = s => Q \subseteq P
  OBVIOUS
<1>8. QED
  BY <1>2, <1>5, <1>6, <1>7 DEF Room

LEMMA IdleTyped ==
  ASSUME TypeInv
  PROVE  LET n == Cardinality(Pending)
         IN  /\ n \in Nat /\ sent \in Nat /\ Room(0, n, sent) /\ RecordTyped(Idle, n, sent)
<1> DEFINE n == Cardinality(Pending)
<1>1. n \in Nat /\ sent \in Nat /\ Room(settings.auth, n, sent)
  BY FS_CardinalityType, ProcessesAssumption DEF TypeInv, CountInv
<1> HIDE DEF n
<1>2. Room(0, n, sent)
  BY <1>1 DEF Room
<1>3. Idle.kind = "none" /\ Idle.seen.auth = 0 /\ Idle.new.auth = 0
  BY DEF Idle, Config
<1>4. RecordTyped(Idle, n, sent)
  BY <1>2, <1>3 DEF RecordTyped
<1>5. QED
  BY <1>1, <1>2, <1>4 DEF n

(* A step that raises no credentials.                                      *)
LEMMA TypeStep ==
  ASSUME TypeInv, FilesInv', NEW r, NEW new \in {0, 1},
         sent' = sent + new, sent' <= MaxRequests,
         \A q \in Requests : proc'[q].kind = "auth" /\ proc'[q].pc = "queued" =>
           q \in Pending \/ (q = r /\ new = 1),
         Room(file'.auth, Cardinality(Pending), sent),
         Room(settings'.auth, Cardinality(Pending), sent),
         \A p \in Processes : RecordTyped(proc'[p], Cardinality(Pending), sent)
  PROVE  TypeInv'
<1>1. /\ sent \in Nat /\ sent' \in Nat /\ sent' \in 0..MaxRequests /\ IsFiniteSet(Pending)
      /\ new = 0 => sent' = sent
  BY IdleTyped, ProcessesAssumption DEF TypeInv, CountInv
<1>2. Pending' \subseteq Pending \cup {r} /\ (new = 0 => Pending' \subseteq Pending)
  BY DEF Pending
<1> HIDE DEF Pending
<1>3. \/ Pending' \subseteq Pending /\ sent' = sent
      \/ Pending' \subseteq Pending \cup {r} /\ sent' = sent + 1
  BY <1>1, <1>2
<1>4. /\ IsFiniteSet(Pending')
      /\ \A a : Room(a, Cardinality(Pending), sent) => Room(a, Cardinality(Pending'), sent')
  BY <1>1, <1>3, RoomIsLeft
<1>5. ASSUME NEW p \in Processes
      PROVE  RecordTyped(proc'[p], Cardinality(Pending'), sent')
  BY <1>4 DEF RecordTyped
<1>6. CountInv'
  BY <1>1, <1>4, <1>5 DEF CountInv
<1>7. QED
  BY <1>6 DEF TypeInv

(* Nobody comes: processes become idle, go on, or stay as they are.        *)
LEMMA OthersTyped ==
  ASSUME TypeInv, FilesInv', sent' = sent,
         Room(file'.auth, Cardinality(Pending), sent),
         Room(settings'.auth, Cardinality(Pending), sent),
         \A p \in Processes :
           \/ proc'[p] \in {proc[p], Idle}
           \/ /\ proc'[p].seen = proc[p].seen /\ proc'[p].new = proc[p].new
              /\ proc'[p].kind = proc[p].kind /\ proc'[p].pc # "queued"
  PROVE  TypeInv'
<1>1. \A p \in Processes : RecordTyped(proc'[p], Cardinality(Pending), sent)
  BY IdleTyped DEF TypeInv, CountInv, RecordTyped
<1>2. \A q \in Requests : proc'[q].kind = "auth" /\ proc'[q].pc = "queued" => q \in Pending
  BY DEF Pending, Idle, Processes
<1>3. sent \in Nat /\ sent' = sent + 0 /\ sent' <= MaxRequests
  BY IdleTyped, ProcessesAssumption DEF TypeInv, CountInv
<1>4. QED
  BY <1>1, <1>2, <1>3, TypeStep

LEMMA ReturnsTyped ==
  ASSUME LifecycleInv, AgreementInv, TypeInv, NEW p \in Processes,
         \/ WriteFails(p) \/ AuthRefused(p) \/ ApplyAuth(p) \/ ApplyAdd(p)
         \/ SavesNothing(p) \/ CycleSaves(p) \/ CycleFails(p) \/ FinishFails(p)
  PROVE  TypeInv'
<1>1. /\ Return(p) /\ UNCHANGED <<up, file, jobs, sent>>
  BY DEF WriteFails, AuthRefused, ApplyAuth, ApplyAdd, SavesNothing,
         CycleSaves, CycleFails, FinishFails, disk, live, history
<1>2. \A q \in Processes : proc'[q] \in {proc[q], Idle}
  BY <1>1 DEF Return, LifecycleInv, ClosingInv
<1>3. /\ \/ settings' = settings \/ settings' = NewSettings(file)
         \/ proc[p].kind = "add" /\ settings' = NewSettings(proc[p].new)
      /\ \/ entries' = entries
         \/ \E x : entries' = [entries EXCEPT ![x] = "fresh"]
         \/ \E x : entries' = [entries EXCEPT ![x] = "used"]
         \/ \E x : entries' = [entries EXCEPT ![x] = IF @ = "absent" THEN @ ELSE "used"]
      /\ stateFile' = stateFile \/ stateFile' = entries'
  <2>1. CASE WriteFails(p) \/ AuthRefused(p) \/ SavesNothing(p) \/ FinishFails(p)
    BY <2>1 DEF WriteFails, AuthRefused, SavesNothing, FinishFails, disk, live
  <2>2. CASE ApplyAuth(p) \/ ApplyAdd(p)
    BY <2>2 DEF ApplyAuth, ApplyAdd, At, disk
  <2>3. CASE CycleSaves(p) \/ CycleFails(p)
    BY <2>3 DEF CycleSaves, CycleFails, disk
  <2>4. QED
    BY <2>1, <2>2, <2>3
<1>4. /\ Good(settings'.insts)
      /\ Room(settings'.auth, Cardinality(Pending), sent)
      /\ Room(file'.auth, Cardinality(Pending), sent)
  <2>1. /\ Room(file.auth, Cardinality(Pending), sent)
        /\ Room(settings.auth, Cardinality(Pending), sent)
        /\ Room(proc[p].new.auth, Cardinality(Pending), sent)
        /\ Good(file.insts) /\ Good(settings.insts)
        /\ proc[p].kind = "add" => Good(proc[p].new.insts)
    BY DEF TypeInv, CountInv, FilesInv, RecordTyped
  <2>2. \A config : NewSettings(config).insts = config.insts /\ NewSettings(config).auth = config.auth
    BY DEF NewSettings
  <2>3. QED
    BY <1>1, <1>3, <2>1, <2>2
<1>5. /\ entries' \in [Names -> {"absent", "fresh", "used"}]
      /\ stateFile' \in [Names -> {"absent", "fresh", "used"}]
  <2>1. /\ entries \in [Names -> {"absent", "fresh", "used"}]
        /\ stateFile \in [Names -> {"absent", "fresh", "used"}]
    BY DEF TypeInv, FilesInv
  <2>2. entries' \in [Names -> {"absent", "fresh", "used"}]
    BY <1>3, <2>1
  <2>3. QED
    BY <1>3, <2>1, <2>2
<1>6. FilesInv'
  BY <1>1, <1>4, <1>5 DEF TypeInv, FilesInv
<1>7. QED
  BY <1>1, <1>2, <1>4, <1>6, OthersTyped

LEMMA WriteTyped ==
  ASSUME LifecycleInv, AgreementInv, TypeInv, NEW r \in Requests, Write(r)
  PROVE  TypeInv'
<1> DEFINE n == Cardinality(Pending)
<1>1. /\ r \in Processes /\ MayWrite(r) /\ file' = Content(r) /\ Becomes(r, "written")
      /\ UNCHANGED <<up, stateFile, settings, jobs, entries, sent>>
  BY DEF Write, Processes, live, history
<1>2. \A q \in Processes :
        /\ q # r => proc'[q] = proc[q]
        /\ proc'[r].seen = proc[r].seen /\ proc'[r].new = proc[r].new
        /\ proc'[r].kind = proc[r].kind /\ proc'[r].pc = "written"
  BY <1>1 DEF Becomes, LifecycleInv, ClosingInv, Idle
<1>3. /\ IsFiniteSet(Pending) /\ sent \in Nat
      /\ Room(file.auth, n, sent) /\ Room(settings.auth, n, sent)
      /\ Good(settings.insts) /\ RecordTyped(proc[r], n, sent)
  BY <1>1, IdleTyped DEF TypeInv, FilesInv, CountInv
<1> HIDE DEF n
<1>4. CASE proc[r].kind # "auth"
  <2>1. /\ proc[r].kind \in {"save", "add"} => file' = proc[r].new
        /\ proc[r].kind \in {"save", "add", "remove"}
        /\ proc[r].kind = "remove" =>
             file'.insts = proc[r].seen.insts /\ file'.auth = proc[r].seen.auth
    BY <1>1, <1>4 DEF MayWrite, At, Content, Config
  <2>2. Good(file'.insts) /\ Room(file'.auth, n, sent)
    BY <1>3, <2>1 DEF RecordTyped
  <2>3. FilesInv'
    BY <1>1, <2>2 DEF TypeInv, FilesInv
  <2>4. QED
    BY <1>1, <1>2, <1>3, <2>2, <2>3, OthersTyped DEF n
<1>5. CASE proc[r].kind = "auth"
  <2>1. /\ file'.insts = settings.insts /\ file'.auth = settings.auth + 1
        /\ r \in Pending
    BY <1>1, <1>5 DEF MayWrite, At, Content, Config, Pending
  <2>2. Pending' \subseteq Pending /\ r \notin Pending'
    BY <1>2 DEF Pending, Processes
  <2>3. FilesInv'
    BY <1>1, <1>3, <2>1 DEF TypeInv, FilesInv
  <2> DEFINE m == Cardinality(Pending')
  <2>4. /\ IsFiniteSet(Pending') /\ \A a : Room(a, n, sent) => Room(a, m, sent)
        /\ \A a : Room(a, n, sent) => Room(a + 1, m, sent)
    BY <1>3, <2>1, <2>2, RoomIsLeft DEF n
  <2> HIDE DEF m
  <2>5. ASSUME NEW p \in Processes
        PROVE  RecordTyped(proc'[p], m, sent)
    <3>1. RecordTyped(proc[p], n, sent)
      BY DEF TypeInv, CountInv, n
    <3>2. proc'[p].seen = proc[p].seen /\ proc'[p].new = proc[p].new /\ proc'[p].kind = proc[p].kind
      BY <1>2
    <3>3. QED
      BY <2>4, <3>1, <3>2 DEF RecordTyped
  <2>6. sent' \in 0..MaxRequests
    BY <1>1 DEF TypeInv, CountInv
  <2>7. CountInv'
    BY <1>1, <1>3, <2>1, <2>4, <2>5, <2>6 DEF CountInv, m
  <2>8. QED
    BY <2>3, <2>7 DEF TypeInv
<1>6. QED
  BY <1>4, <1>5

LEMMA ApplySaveTyped ==
  ASSUME LifecycleInv, AgreementInv, TypeInv, NEW r \in Requests, ApplySave(r)
  PROVE  TypeInv'
<1> DEFINE new == proc[r].new.insts
           on  == {x \in DOMAIN new : new[x].enabled}
<1>1. /\ r \in Processes /\ proc[r].kind = "save" /\ settings' = NewSettings(proc[r].new)
      /\ UNCHANGED <<up, file, stateFile, sent>>
      /\ \E X : jobs' = (jobs \ X) \cup on
      /\ entries' = [x \in Names |-> IF x \in on /\ entries[x] = "absent"
                                     THEN "fresh" ELSE entries[x]]
      /\ \E set : proc' = [proc EXCEPT ![r].pc = "applied", ![r].closing = set]
  BY DEF ApplySave, At, Processes, disk
<1>2. \A q \in Processes :
        /\ q # r => proc'[q] = proc[q]
        /\ proc'[r].seen = proc[r].seen /\ proc'[r].new = proc[r].new
        /\ proc'[r].kind = proc[r].kind /\ proc'[r].pc # "queued"
  BY <1>1 DEF LifecycleInv, ClosingInv, Idle
<1>3. RecordTyped(proc[r], Cardinality(Pending), sent) /\ Good(new)
  BY <1>1 DEF TypeInv, CountInv, RecordTyped
<1>4. on \subseteq Names
  BY <1>3, InstancesFacts DEF Good
<1>5. settings'.insts = new /\ settings'.auth = proc[r].new.auth
  BY <1>1 DEF NewSettings
<1>6. entries' \in [Names -> {"absent", "fresh", "used"}]
  BY <1>1 DEF TypeInv, FilesInv
<1> HIDE DEF new, on
<1>7. FilesInv'
  BY <1>1, <1>3, <1>4, <1>5, <1>6 DEF TypeInv, FilesInv
<1>8. /\ Room(file'.auth, Cardinality(Pending), sent)
      /\ Room(settings'.auth, Cardinality(Pending), sent)
  BY <1>1, <1>3, <1>5 DEF TypeInv, CountInv, RecordTyped
<1>9. QED
  BY <1>1, <1>2, <1>7, <1>8, OthersTyped

LEMMA ClosingTyped ==
  ASSUME LifecycleInv, AgreementInv, TypeInv, NEW r \in Requests,
         FinishSave(r) \/ ApplyRemove(r) \/ CloseNext(r)
  PROVE  TypeInv'
<1>1. /\ UNCHANGED <<up, file, settings, sent>> /\ \E set : CloseOneOf(r, set)
      /\ jobs' \subseteq jobs /\ stateFile' \in {stateFile, entries}
      /\ entries' = entries \/ \E x : entries' = [entries EXCEPT ![x] = "absent"]
  BY DEF FinishSave, ApplyRemove, CloseNext, disk, history
<1>2. \A q \in Processes :
        \/ proc'[q] \in {proc[q], Idle}
        \/ /\ proc'[q].seen = proc[q].seen /\ proc'[q].new = proc[q].new
           /\ proc'[q].kind = proc[q].kind /\ proc'[q].pc # "queued"
  BY <1>1, CloseOneFacts
<1>3. entries' \in [Names -> {"absent", "fresh", "used"}]
  BY <1>1 DEF TypeInv, FilesInv
<1>4. FilesInv'
  BY <1>1, <1>3 DEF TypeInv, FilesInv
<1>5. QED
  BY <1>1, <1>2, <1>4, OthersTyped DEF TypeInv, CountInv

LEMMA ShutdownTyped ==
  ASSUME LifecycleInv, AgreementInv, TypeInv,
         Stop \/ Drain \/ DrainTimeout \/ \E x \in Names : JobCancelled(x)
  PROVE  TypeInv'
<1>1. /\ UNCHANGED <<file, stateFile, settings, jobs, entries, sent>>
      /\ up' \in {up, "draining", "closed", "forced"}
      /\ proc' = proc \/ \E x \in Names : proc' = [proc EXCEPT ![x] = Idle]
  <2>1. CASE Stop \/ \E x \in Names : JobCancelled(x)
    BY <2>1 DEF Stop, JobCancelled, disk, live, history
  <2>2. CASE Drain \/ DrainTimeout
    BY <2>2 DEF Drain, DrainTimeout, CloseClients, disk, history
  <2>3. QED
    BY <2>1, <2>2
<1>2. \A q \in Processes : proc'[q] \in {proc[q], Idle}
  BY <1>1 DEF LifecycleInv, ClosingInv
<1>3. FilesInv'
  BY <1>1 DEF TypeInv, FilesInv
<1>4. QED
  BY <1>1, <1>2, <1>3, OthersTyped DEF TypeInv, CountInv

(* From files of the right type, everything starts with its type.          *)
LEMMA StartTyped ==
  ASSUME NEW insts, Good(insts), NEW stored, stored \in [Names -> {"absent", "fresh", "used"}]
  PROVE  /\ EntriesFor(insts, stored) \in [Names -> {"absent", "fresh", "used"}]
         /\ Started(insts) \subseteq Names
<1>1. DOMAIN insts \subseteq Names
  BY InstancesFacts DEF Good
<1>2. QED
  BY <1>1 DEF EntriesFor, Started

LEMMA BootTyped == TypeInv /\ Boot => TypeInv'
<1> SUFFICES ASSUME TypeInv, Boot PROVE TypeInv'
  OBVIOUS
<1>1. /\ up' = "up" /\ proc' = Nobody /\ UNCHANGED <<file, stateFile, sent>>
      /\ settings' = FirstSettings(file)
      /\ entries' = EntriesFor(file.insts, stateFile) /\ jobs' = Started(file.insts)
  BY DEF Boot, disk
<1>2. settings'.insts = file.insts /\ settings'.auth = file.auth
  BY <1>1 DEF FirstSettings
<1>3. Good(file.insts) /\ stateFile \in [Names -> {"absent", "fresh", "used"}]
  BY DEF TypeInv, FilesInv
<1>4. FilesInv'
  BY <1>1, <1>2, <1>3, StartTyped DEF FilesInv
<1>5. \A q \in Processes : proc'[q] = Idle
  BY <1>1 DEF Nobody, Processes
<1>6. QED
  BY <1>1, <1>2, <1>4, <1>5, OthersTyped DEF TypeInv, CountInv

LEMMA RemoveTyped ==
  ASSUME LifecycleInv, AgreementInv, TypeInv, NEW r \in Requests, RemoveFromSettings(r)
  PROVE  TypeInv'
<1> DEFINE n == Cardinality(Pending)
<1>0. PICK x, o : x = proc[r].name /\ o = proc[r].seen.object
  OBVIOUS
<1>1. /\ r \in Processes /\ proc[r].kind = "remove" /\ proc[r].pc = "queued"
      /\ UNCHANGED <<up, file, stateFile, jobs, entries, sent>>
  BY DEF RemoveFromSettings, At, Processes, disk
<1>2. /\ Room(file.auth, n, sent) /\ Room(settings.auth, n, sent)
      /\ \A p \in Processes : RecordTyped(proc[p], n, sent)
      /\ Good(settings.insts) /\ sent \in Nat /\ sent <= MaxRequests
  BY IdleTyped, ProcessesAssumption DEF TypeInv, FilesInv, CountInv
<1>3. CASE x \notin DOMAIN proc[r].seen.insts
  <2>1. Return(r) /\ settings' = settings
    BY <1>0, <1>3 DEF RemoveFromSettings
  <2>2. \A q \in Processes : proc'[q] \in {proc[q], Idle}
    BY <2>1 DEF Return, LifecycleInv, ClosingInv
  <2>3. FilesInv'
    BY <1>1, <2>1 DEF TypeInv, FilesInv
  <2>4. QED
    BY <1>1, <1>2, <2>1, <2>2, <2>3, OthersTyped
<1>4. CASE x \in DOMAIN proc[r].seen.insts
  <2> DEFINE turn(p) == IF p = r THEN [proc[p] EXCEPT !.pc = "removed"] ELSE proc[p]
             kept(p) == [turn(p) EXCEPT !.seen.insts = Without(turn(p).seen.insts, x)]
  <2>1. /\ proc' = [p \in DOMAIN proc |->
                      IF turn(p).seen.object = o THEN kept(p) ELSE turn(p)]
        /\ settings' = IF settings.object # o THEN settings
                       ELSE [settings EXCEPT !.insts = Without(settings.insts, x),
                                             !.rev = settings.rev + 1]
    BY <1>0, <1>4 DEF RemoveFromSettings
  <2>2. /\ DOMAIN proc = Processes /\ \A p \in Processes : DOMAIN proc[p] = DOMAIN Idle
        /\ \A p \in Processes : DOMAIN proc[p].seen = DOMAIN Idle.seen
        /\ DOMAIN settings = {"object", "rev", "insts", "auth"}
    BY DEF LifecycleInv, ClosingInv, AgreementInv, ViewsInv, Sees
  <2>3. \A p \in Processes :
          /\ DOMAIN turn(p) = DOMAIN Idle /\ turn(p).seen = proc[p].seen
          /\ turn(p).new = proc[p].new /\ turn(p).kind = proc[p].kind
          /\ turn(p).pc = IF p = r THEN "removed" ELSE proc[p].pc
    BY <2>2 DEF Idle
  <2> HIDE DEF turn
  <2>4. \A p \in Processes :
          /\ kept(p).pc = turn(p).pc /\ kept(p).kind = turn(p).kind
          /\ kept(p).new = turn(p).new /\ kept(p).seen.auth = turn(p).seen.auth
          /\ kept(p).seen.insts = Without(turn(p).seen.insts, x)
    BY <2>2, <2>3 DEF Idle
  <2> HIDE DEF kept
  <2>5. \A p \in Processes :
          /\ proc'[p].pc = IF p = r THEN "removed" ELSE proc[p].pc
          /\ proc'[p].kind = proc[p].kind /\ proc'[p].new = proc[p].new
          /\ proc'[p].seen.auth = proc[p].seen.auth
          /\ \/ proc'[p].seen.insts = proc[p].seen.insts
             \/ proc'[p].seen.insts = Without(proc[p].seen.insts, x)
    <3>1. \A p \in Processes :
            proc'[p] = IF turn(p).seen.object = o THEN kept(p) ELSE turn(p)
      BY <2>1, <2>2
    <3>2. QED
      BY <2>3, <2>4, <3>1
  <2>6. settings'.auth = settings.auth /\ Good(settings'.insts)
    BY <1>2, <2>1, <2>2, InstancesFacts
  <2>7. FilesInv'
    BY <1>1, <2>6 DEF TypeInv, FilesInv
  <2>8. ASSUME NEW p \in Processes
        PROVE  RecordTyped(proc'[p], n, sent)
    <3>1. RecordTyped(proc[p], n, sent)
      BY <1>2
    <3> HIDE DEF n
    <3>2. Good(proc[p].seen.insts) => Good(proc'[p].seen.insts)
      BY <2>5, InstancesFacts
    <3>3. QED
      BY <2>5, <3>1, <3>2 DEF RecordTyped
  <2>9. \A q \in Requests : proc'[q].kind = "auth" /\ proc'[q].pc = "queued" => q \in Pending
    BY <2>5 DEF Pending, Processes
  <2>10. sent' = sent + 0 /\ sent' <= MaxRequests
    BY <1>1, <1>2
  <2>11. QED
    BY <1>1, <1>2, <2>6, <2>7, <2>8, <2>9, <2>10, TypeStep
<1>5. QED
  BY <1>3, <1>4

(* Who comes has read settings of the right type.                          *)
LEMMA ComerTyped ==
  ASSUME LifecycleInv, TypeInv, NEW p \in Processes, NEW kind, NEW rec,
         DOMAIN rec = DOMAIN Idle, Wait(p, kind, rec),
         UNCHANGED <<up, file, stateFile, settings, jobs, entries>>,
         \/ sent' = sent /\ kind # "auth"
         \/ sent < MaxRequests /\ sent' = sent + 1,
         RecordTyped([rec EXCEPT !.kind = kind], Cardinality(Pending), sent)
  PROVE  TypeInv'
<1> DEFINE n   == Cardinality(Pending)
           old == [rec EXCEPT !.kind = kind]
           new == [rec EXCEPT !.pc = "queued", !.kind = kind]
<1>1. /\ new.kind = kind /\ old.kind = kind
      /\ new.seen = rec.seen /\ old.seen = rec.seen /\ new.new = rec.new /\ old.new = rec.new
  BY DEF Idle
<1>2. \A q \in Processes : proc'[q] = IF q = p THEN new ELSE proc[q]
  BY DEF Wait, LifecycleInv, ClosingInv
<1> HIDE DEF old, new
<1>3. RecordTyped(new, n, sent)
  BY <1>1 DEF RecordTyped, old
<1>4. \A q \in Processes : RecordTyped(proc'[q], n, sent)
  BY <1>2, <1>3 DEF TypeInv, CountInv
<1>5. FilesInv'
  BY DEF TypeInv, FilesInv
<1>6. PICK m \in {0, 1} : sent' = sent + m /\ sent' <= MaxRequests /\ (m = 0 => kind # "auth")
  <2>1. sent \in Nat /\ sent <= MaxRequests /\ MaxRequests \in Nat
    BY IdleTyped, ProcessesAssumption DEF TypeInv, CountInv
  <2>2. CASE sent' = sent /\ kind # "auth"
    <3>1. sent' = sent + 0 /\ sent' <= MaxRequests
      BY <2>1, <2>2
    <3>2. QED
      BY <2>2, <3>1
  <2>3. CASE sent < MaxRequests /\ sent' = sent + 1
    BY <2>1, <2>3
  <2>4. QED
    BY <2>2, <2>3
<1>7. \A q \in Requests : proc'[q].kind = "auth" /\ proc'[q].pc = "queued" =>
        q \in Pending \/ (q = p /\ m = 1)
  BY <1>1, <1>2, <1>6 DEF Pending, Processes
<1>8. Room(file'.auth, n, sent) /\ Room(settings'.auth, n, sent)
  BY DEF TypeInv, CountInv
<1>9. QED
  BY <1>4, <1>5, <1>6, <1>7, <1>8, TypeStep

LEMMA ArriveTyped ==
  ASSUME LifecycleInv, AgreementInv, TypeInv, Arrive
  PROVE  TypeInv'
<1> DEFINE n == Cardinality(Pending)
<1>1. /\ Good(settings.insts) /\ Good(file.insts)
      /\ Room(settings.auth, n, sent) /\ Room(file.auth, n, sent) /\ Room(0, n, sent)
  BY IdleTyped DEF TypeInv, FilesInv, CountInv
<1>2. /\ View.insts = settings.insts /\ View.auth = settings.auth
      /\ Idle.seen.auth = 0 /\ Idle.new.auth = 0
      /\ \A insts, auth : Config(insts, auth).insts = insts /\ Config(insts, auth).auth = auth
  BY DEF View, Idle, Config
<1> HIDE DEF n
<1>3. ASSUME NEW r \in Requests, Submit(r), NEW kind, NEW rec, DOMAIN rec = DOMAIN Idle,
             Wait(r, kind, rec), RecordTyped([rec EXCEPT !.kind = kind], n, sent)
      PROVE  TypeInv'
  <2>1. /\ r \in Processes /\ UNCHANGED <<up, file, stateFile, settings, jobs, entries>>
        /\ sent < MaxRequests /\ sent' = sent + 1
    BY <1>3 DEF Submit, Processes, disk, live
  <2>2. QED
    BY <1>3, <2>1, ComerTyped DEF n
<1>4. ASSUME NEW kind \in {"auth", "search", "refresh", "job"}, NEW rec,
             rec = Idle \/ \E x : rec = Found(x)
      PROVE  DOMAIN rec = DOMAIN Idle /\ RecordTyped([rec EXCEPT !.kind = kind], n, sent)
  <2> DEFINE new == [rec EXCEPT !.kind = kind]
  <2>1. DOMAIN rec = DOMAIN Idle /\ rec.seen = Idle.seen /\ rec.new = Idle.new
    BY <1>4 DEF Found, Idle
  <2>2. new.kind = kind /\ new.seen = Idle.seen /\ new.new = Idle.new
    BY <2>1 DEF Idle
  <2> HIDE DEF new
  <2>3. RecordTyped(new, n, sent)
    BY <1>1, <1>2, <2>2 DEF RecordTyped
  <2>4. QED
    BY <2>1, <2>3 DEF new
<1>5. ASSUME NEW r \in Requests, SubmitSave(r)
      PROVE  TypeInv'
  <2>1. PICK insts :
          /\ insts = settings.insts \/ \E N \in SUBSET Names : insts \in [N -> FormConfigs]
          /\ Submit(r) /\ Valid(FilledFromFile(insts))
          /\ Wait(r, "save", [Idle EXCEPT !.seen = View,
                                !.new = Config(FilledFromFile(insts), file.auth)])
    BY <1>5 DEF SubmitSave, FilledAuth
  <2> DEFINE full == FilledFromFile(insts)
             rec  == [Idle EXCEPT !.seen = View, !.new = Config(full, file.auth)]
             rec2 == [rec EXCEPT !.kind = "save"]
  <2>2. insts \in Instances
    <3>1. ASSUME NEW N \in SUBSET Names, insts \in [N -> FormConfigs]
          PROVE  insts \in Instances
      <4>1. insts \in [N -> Cfg]
        BY <3>1, ConfigsAssumption
      <4>2. QED
        BY <4>1 DEF Instances
    <3>2. QED
      BY <1>1, <2>1, <3>1 DEF Good
  <2>3. Good(full)
    BY <1>1, <2>1, <2>2, FillTyped DEF Good
  <2> HIDE DEF full
  <2>4. /\ DOMAIN rec = DOMAIN Idle /\ rec2.kind = "save" /\ rec2.seen = View
        /\ rec2.new = Config(full, file.auth)
    BY DEF Idle
  <2> HIDE DEF rec2
  <2>5. RecordTyped(rec2, n, sent)
    BY <1>1, <1>2, <2>3, <2>4 DEF RecordTyped
  <2>6. QED
    BY <1>3, <2>1, <2>4, <2>5 DEF full, rec2
<1>6. ASSUME NEW r \in Requests, NEW x \in Names, SubmitAdd(r, x)
      PROVE  TypeInv'
  <2> DEFINE insts == [y \in DOMAIN settings.insts \cup {x} |->
                         IF y = x THEN Fresh ELSE settings.insts[y]]
             full == FilledFromFile(insts)
             rec  == [Idle EXCEPT !.name = x, !.seen = View,
                                  !.new = Config(full, settings.auth)]
             rec2 == [rec EXCEPT !.kind = "add"]
  <2>1. Submit(r) /\ Wait(r, "add", rec) /\ Valid(full)
    BY <1>6 DEF SubmitAdd
  <2>2. insts \in Instances
    <3>1. /\ DOMAIN settings.insts \subseteq Names
          /\ \A y \in DOMAIN settings.insts : settings.insts[y] \in Cfg
      BY <1>1, InstancesFacts DEF Good
    <3>2. /\ DOMAIN insts = DOMAIN settings.insts \cup {x}
          /\ insts = [y \in DOMAIN insts |-> insts[y]]
          /\ \A y \in DOMAIN insts : insts[y] \in Cfg
      BY <3>1, ConfigsAssumption
    <3> HIDE DEF insts
    <3>3. QED
      BY <3>1, <3>2, InstancesFacts
  <2> HIDE DEF insts
  <2>3. Good(full)
    BY <1>1, <2>1, <2>2, FillTyped DEF Good
  <2> HIDE DEF full
  <2>4. /\ DOMAIN rec = DOMAIN Idle /\ rec2.kind = "add" /\ rec2.seen = View
        /\ rec2.new = Config(full, settings.auth)
    BY DEF Idle
  <2> HIDE DEF rec2
  <2>5. RecordTyped(rec2, n, sent)
    BY <1>1, <1>2, <2>3, <2>4 DEF RecordTyped
  <2>6. QED
    BY <1>3, <2>1, <2>4, <2>5 DEF rec2
<1>7. ASSUME NEW r \in Requests, NEW x \in Names, SubmitRemove(r, x)
      PROVE  TypeInv'
  <2> DEFINE rec  == [Idle EXCEPT !.name = x, !.seen = View]
             rec2 == [rec EXCEPT !.kind = "remove"]
  <2>1. Submit(r) /\ Wait(r, "remove", rec)
    BY <1>7 DEF SubmitRemove
  <2>2. /\ DOMAIN rec = DOMAIN Idle /\ rec2.kind = "remove" /\ rec2.seen = View
        /\ rec2.new = Idle.new
    BY DEF Idle
  <2> HIDE DEF rec2
  <2>3. RecordTyped(rec2, n, sent)
    BY <1>1, <1>2, <2>2 DEF RecordTyped
  <2>4. QED
    BY <1>3, <2>1, <2>2, <2>3 DEF rec2
<1>8. ASSUME NEW r \in Requests, NEW x \in Names, SubmitSearch(r, x) \/ SubmitRefresh(r, x)
      PROVE  TypeInv'
  BY <1>3, <1>4, <1>8 DEF SubmitSearch, SubmitRefresh
<1>9. ASSUME NEW r \in Requests, SubmitAuth(r)
      PROVE  TypeInv'
  BY <1>3, <1>4, <1>9 DEF SubmitAuth
<1>10. ASSUME NEW x \in Names, JobFires(x)
      PROVE  TypeInv'
  <2>1. /\ x \in Processes /\ Wait(x, "job", Found(x)) /\ sent' = sent
        /\ UNCHANGED <<up, file, stateFile, settings, jobs, entries>>
    BY <1>10 DEF JobFires, Processes, disk, live, history
  <2>2. DOMAIN Found(x) = DOMAIN Idle /\ RecordTyped([Found(x) EXCEPT !.kind = "job"], n, sent)
    BY <1>4
  <2>3. QED
    BY <2>1, <2>2, ComerTyped DEF n
<1>11. QED
  BY <1>5, <1>6, <1>7, <1>8, <1>9, <1>10 DEF Arrive

LEMMA TypeInit == Init => TypeInv
<1> SUFFICES ASSUME Init PROVE TypeInv
  OBVIOUS
<1>1. PICK insts \in FirstConfigs : file = Config(insts, 0)
  BY DEF Init
<1>2. /\ settings = FirstSettings(file) /\ stateFile = [x \in Names |-> "absent"]
      /\ entries = EntriesFor(file.insts, stateFile) /\ jobs = Started(file.insts)
      /\ up = "up" /\ proc = Nobody /\ sent = 0
  BY DEF Init
<1>3. /\ file.insts = insts /\ file.auth = 0
      /\ settings.insts = insts /\ settings.auth = 0
  BY <1>1, <1>2 DEF Config, FirstSettings
<1>4. Good(insts)
  BY ConfigsAssumption DEF Good, Valid
<1>5. stateFile \in [Names -> {"absent", "fresh", "used"}]
  BY <1>2
<1>6. FilesInv
  BY <1>2, <1>3, <1>4, <1>5, StartTyped DEF FilesInv
<1>7. \A p \in Processes : proc[p] = Idle
  BY <1>2 DEF Nobody, Processes
<1>8. Pending = {}
  BY <1>7 DEF Pending, Idle, Processes
<1>9. IsFiniteSet(Pending) /\ Cardinality(Pending) = 0
  BY <1>8, FS_EmptySet
<1>10. Room(0, 0, 0) /\ RecordTyped(Idle, 0, 0)
  BY DEF Room, RecordTyped, Idle, Config
<1>11. sent \in 0..MaxRequests
  BY <1>2, ProcessesAssumption
<1>12. CountInv
  BY <1>2, <1>3, <1>7, <1>9, <1>10, <1>11 DEF CountInv
<1>13. QED
  BY <1>6, <1>12 DEF TypeInv

LEMMA TypeNext == LifecycleInv /\ AgreementInv /\ TypeInv /\ [Next]_vars => TypeInv'
<1> SUFFICES ASSUME LifecycleInv, AgreementInv, TypeInv, [Next]_vars
             PROVE  TypeInv'
  OBVIOUS
<1>1. CASE Arrive
  BY <1>1, ArriveTyped
<1>2. ASSUME NEW r \in Requests,
             \/ RemoveFromSettings(r) \/ Write(r) \/ ApplySave(r)
             \/ ApplyRemove(r) \/ FinishSave(r) \/ CloseNext(r)
      PROVE  TypeInv'
  BY <1>2, RemoveTyped, WriteTyped, ApplySaveTyped, ClosingTyped
<1>3. ASSUME NEW p \in Requests \cup Names,
             \/ WriteFails(p) \/ AuthRefused(p) \/ ApplyAuth(p) \/ ApplyAdd(p)
             \/ SavesNothing(p) \/ CycleSaves(p) \/ CycleFails(p) \/ FinishFails(p)
      PROVE  TypeInv'
  BY <1>3, ReturnsTyped DEF Processes
<1>4. CASE LockStep
  BY <1>2, <1>3, <1>4 DEF LockStep
<1>5. CASE Stop \/ Drain \/ DrainTimeout \/ \E x \in Names : JobCancelled(x)
  BY <1>5, ShutdownTyped
<1>6. CASE Restart \/ Crash
  BY <1>6, BootTyped DEF Restart, Crash
<1>7. CASE UNCHANGED vars
  <2>1. UNCHANGED <<up, file, stateFile, settings, jobs, entries, proc, sent>>
    BY <1>7 DEF vars, disk, live, history
  <2>2. FilesInv'
    BY <2>1 DEF TypeInv, FilesInv
  <2>3. QED
    BY <2>1, <2>2, OthersTyped DEF TypeInv, CountInv
<1>8. QED
  BY <1>1, <1>2, <1>3, <1>4, <1>5, <1>6, <1>7 DEF Next

(* Everybody in the queue has one place, so there are as many as it is long. *)
LEMMA PlacesAreCounted ==
  ASSUME NEW s, IsQueue(s)
  PROVE  /\ DOMAIN s = 1..Len(s) /\ Cardinality({s[i] : i \in DOMAIN s}) = Len(s)
<1>1. s \in Seq(Processes \cup {"drain"}) /\ \A i, j \in 1..Len(s) : s[i] = s[j] => i = j
  BY DEF IsQueue
<1>2. DOMAIN s = 1..Len(s) /\ Len(s) \in Nat
  BY <1>1, LenProperties
<1> DEFINE T == {s[i] : i \in DOMAIN s}
           f == [i \in 1..Len(s) |-> s[i]]
<1>3. f \in Bijection(1..Len(s), T)
  BY <1>1, <1>2 DEF Bijection, Injection, Surjection, IsInjective
<1>4. Cardinality(T) = Len(s)
  BY <1>2, <1>3, FS_CountingElements DEF ExistsBijection
<1>5. QED
  BY <1>2, <1>4

(* Settings and file hold known instances, never too many, and never more  *)
(* credentials than were asked for; what is registered was made; those who *)
(* wait for the lock have one place each in its queue, and nobody else.    *)
THEOREM TypeCorrect == Spec => []TypeOK
<1>1. LifecycleInv /\ DrainInv /\ TypeInv => TypeOK
  <2> SUFFICES ASSUME LifecycleInv, DrainInv, TypeInv PROVE TypeOK
    OBVIOUS
  <2>1. {file.auth, settings.auth} \subseteq 0..MaxRequests
    <3> DEFINE n == Cardinality(Pending)
    <3>1. /\ Room(file.auth, n, sent) /\ Room(settings.auth, n, sent)
          /\ n \in Nat /\ sent \in 0..MaxRequests
      BY IdleTyped DEF TypeInv, CountInv
    <3> HIDE DEF n
    <3>2. QED
      BY <3>1, ProcessesAssumption DEF Room
  <2>2. \A x \in Names : clients[x] \in 0..Len(conns[x])
    BY LenProperties DEF LifecycleInv, ClientsInv, AreClients
  <2>3. /\ Cardinality({queue[i] : i \in DOMAIN queue}) = Len(queue)
        /\ DOMAIN queue = 1..Len(queue)
    BY PlacesAreCounted DEF DrainInv, PlacesInv
  <2>4. \A p \in Requests \cup Names :
          (\E i \in DOMAIN queue : queue[i] = p) <=> proc[p].pc \notin {"idle", "closing"}
    BY <2>3 DEF DrainInv, PlacesInv, In, Waits, Processes
  <2>5. QED
    BY <2>1, <2>2, <2>3, <2>4 DEF TypeOK, TypeInv, FilesInv, Good
<1>2. QED
  BY <1>1, TypeInit, TypeNext, DrainInit, DrainNext, AgreementInit, AgreementNext,
     LifecycleInit, LifecycleNext, PTL DEF Spec

-----------------------------------------------------------------------------
(* Credentials.                                                            *)

WroteAuth(r) == proc[r].kind = "auth" /\ proc[r].pc = "written"

(* What a request is going to write has the credentials of the settings,   *)
(* if these have not changed since it read them.                           *)
FormsInv ==
  \A r \in Requests : proc[r].kind \in {"save", "add"} /\ SeenIsCurrent(r) =>
    proc[r].new.auth = settings.auth

(* The file has the credentials of the settings, or newer ones that their  *)
(* request is about to apply, or older ones that come from an outdated     *)
(* view.                                                                   *)
FileInv ==
  ~overlap =>
    \/ file.auth = settings.auth /\ \A r \in Requests : ~WroteAuth(r)
    \/ file.auth = settings.auth + 1 /\ \E r \in Requests : WroteAuth(r)
    \/ \E r \in Requests : Outdated(r)

CredentialsInv == FormsInv /\ FileInv

NoneComeBack ==
  settings'.auth < settings.auth => overlap \/ \E r \in Requests : Outdated(r)

LEMMA AuthIsNat ==
  ASSUME TypeInv
  PROVE  settings.auth \in Nat /\ file.auth \in Nat
BY DEF TypeInv, CountInv, Room

(* Only the holder of the lock is between writing and applying.            *)
LEMMA HolderAlone ==
  ASSUME AgreementInv, DrainInv, NEW r \in Requests, Holds(r), proc[r].pc # "idle"
  PROVE  up = "up" /\ \A q \in Requests : proc[q].pc = "written" => q = r
<1>1. up = "up"
  BY RequestsKeepItUp
<1>2. \A q \in Requests : proc[q].pc = "written" => Holds(q)
  BY <1>1 DEF AgreementInv, HolderInv, Busy, Processes
<1>3. QED
  BY <1>1, <1>2 DEF Holds

(* Neither file nor settings change, and whoever has written something it  *)
(* is going to apply stays where it is.                                    *)
LEMMA OthersKeepAuth ==
  ASSUME TypeInv, CredentialsInv, UNCHANGED <<file, settings>>, ~overlap' => ~overlap,
         \A r \in Requests :
           \/ proc'[r] = proc[r]
           \/ /\ proc[r].pc # "written" \/ proc[r].kind = "remove"
              /\ \/ proc'[r] = Idle
                 \/ /\ proc'[r].kind = proc[r].kind /\ proc'[r].pc # "written"
                    /\ proc'[r].seen = proc[r].seen /\ proc'[r].new = proc[r].new
  PROVE  CredentialsInv' /\ NoneComeBack
<1>1. Idle.kind = "none" /\ Idle.pc = "idle"
  BY DEF Idle
<1>2. FormsInv'
  BY <1>1 DEF CredentialsInv, FormsInv, SeenIsCurrent
<1>3. \A r \in Requests : WroteAuth(r)' <=> WroteAuth(r)
  BY <1>1 DEF WroteAuth
<1>4. \A r \in Requests : Outdated(r) => Outdated(r)'
  BY DEF Outdated, SeenIsCurrent
<1>5. FileInv'
  BY <1>3, <1>4 DEF CredentialsInv, FileInv
<1>6. NoneComeBack
  BY AuthIsNat DEF NoneComeBack
<1>7. QED
  BY <1>2, <1>5, <1>6 DEF CredentialsInv

LEMMA ReturnsKeepAuth ==
  ASSUME LifecycleInv, TypeInv, CredentialsInv, NEW p \in Processes,
         \/ WriteFails(p) \/ AuthRefused(p) \/ SavesNothing(p)
         \/ CycleSaves(p) \/ CycleFails(p) \/ FinishFails(p)
  PROVE  CredentialsInv' /\ NoneComeBack
<1>1. /\ Return(p) /\ UNCHANGED <<file, settings>> /\ proc[p].pc # "written"
      /\ overlap' = overlap \/ overlap' = (overlap \/ proc[p].kind = "remove")
  <2>1. CASE WriteFails(p) \/ AuthRefused(p) \/ SavesNothing(p) \/ FinishFails(p)
    BY <2>1 DEF WriteFails, MayWrite, At, AuthRefused, SavesNothing, FinishFails,
                disk, live, history
  <2>2. CASE CycleSaves(p) \/ CycleFails(p)
    BY <2>2 DEF CycleSaves, CycleFails, At, disk, history
  <2>3. QED
    BY <2>1, <2>2
<1>2. \A r \in Requests : proc'[r] = IF r = p THEN Idle ELSE proc[r]
  BY <1>1 DEF Return, LifecycleInv, ClosingInv, Processes
<1>3. ~overlap' => ~overlap
  BY <1>1
<1>4. QED
  BY <1>1, <1>2, <1>3, OthersKeepAuth

LEMMA ClosingKeepsAuth ==
  ASSUME LifecycleInv, TypeInv, CredentialsInv, NEW r \in Requests,
         FinishSave(r) \/ ApplyRemove(r) \/ CloseNext(r)
  PROVE  CredentialsInv' /\ NoneComeBack
<1>1. /\ UNCHANGED <<file, settings, overlap>> /\ \E set : CloseOneOf(r, set)
      /\ proc[r].pc # "written" \/ proc[r].kind = "remove"
  BY DEF FinishSave, ApplyRemove, CloseNext, At, disk, history
<1>2. \A q \in Requests :
        \/ proc'[q] = proc[q]
        \/ /\ proc[q].pc # "written" \/ proc[q].kind = "remove"
           /\ \/ proc'[q] = Idle
              \/ /\ proc'[q].kind = proc[q].kind /\ proc'[q].pc # "written"
                 /\ proc'[q].seen = proc[q].seen /\ proc'[q].new = proc[q].new
  BY <1>1, CloseOneFacts DEF Processes
<1>3. QED
  BY <1>1, <1>2, OthersKeepAuth

LEMMA ShutdownKeepsAuth ==
  ASSUME LifecycleInv, TypeInv, CredentialsInv,
         Stop \/ Drain \/ DrainTimeout \/ \E x \in Names : JobCancelled(x)
  PROVE  CredentialsInv' /\ NoneComeBack
<1>1. /\ UNCHANGED <<file, settings, overlap>>
      /\ proc' = proc \/ \E x \in Names : proc' = [proc EXCEPT ![x] = Idle]
  <2>1. CASE Stop \/ \E x \in Names : JobCancelled(x)
    BY <2>1 DEF Stop, JobCancelled, disk, live, history
  <2>2. CASE Drain \/ DrainTimeout
    BY <2>2 DEF Drain, DrainTimeout, CloseClients, disk, history
  <2>3. QED
    BY <2>1, <2>2
<1>2. \A q \in Requests : proc'[q] = proc[q]
  BY <1>1, ProcessesAssumption DEF LifecycleInv, ClosingInv, Processes
<1>3. QED
  BY <1>1, <1>2, OthersKeepAuth

(* The program starts with what is in the file.                            *)
LEMMA BootKeepsAuth ==
  ASSUME TypeInv, CredentialsInv, Boot
  PROVE  CredentialsInv' /\ NoneComeBack
<1>1. settings'.auth = file.auth /\ file' = file
  BY DEF Boot, FirstSettings, disk
<1>2. \A r \in Requests : proc'[r].kind = "none"
  BY DEF Boot, Nobody, Idle
<1>3. CredentialsInv'
  BY <1>1, <1>2 DEF CredentialsInv, FormsInv, FileInv, WroteAuth
<1>4. NoneComeBack
  BY <1>1, AuthIsNat DEF NoneComeBack, CredentialsInv, FileInv
<1>5. QED
  BY <1>3, <1>4

(* New settings: whoever read the old ones has an outdated view.           *)
LEMMA NewSettingsKeepAuth ==
  ASSUME LifecycleInv, AgreementInv, DrainInv, TypeInv, CredentialsInv,
         NEW r \in Requests, ApplyAuth(r) \/ ApplyAdd(r) \/ ApplySave(r)
  PROVE  CredentialsInv' /\ NoneComeBack
<1>1. /\ Holds(r) /\ proc[r].pc = "written" /\ file' = file
      /\ proc[r].kind = "auth" =>
           overlap' = overlap /\ settings' = NewSettings(file)
      /\ proc[r].kind # "auth" =>
           /\ proc[r].kind \in {"save", "add"}
           /\ settings' = NewSettings(proc[r].new)
           /\ overlap' = (overlap \/ ~SeenIsCurrent(r))
      /\ \/ proc' = [proc EXCEPT ![r] = Idle]
         \/ \E set : proc' = [proc EXCEPT ![r].pc = "applied", ![r].closing = set]
  <2>1. CASE ApplyAuth(r)
    BY <2>1 DEF ApplyAuth, At, Return, disk, history
  <2>2. CASE ApplyAdd(r)
    BY <2>2 DEF ApplyAdd, At, Return, disk, history
  <2>3. CASE ApplySave(r)
    BY <2>3 DEF ApplySave, At, disk, history
  <2>4. QED
    BY <2>1, <2>2, <2>3
<1>2. \A q \in Requests :
        /\ q # r => proc'[q] = proc[q]
        /\ \/ proc'[r] = Idle
           \/ /\ proc'[r].seen = proc[r].seen /\ proc'[r].new = proc[r].new
              /\ proc'[r].kind = proc[r].kind /\ proc'[r].pc = "applied"
  <2>1. DOMAIN proc = Processes /\ r \in Processes /\ DOMAIN proc[r] = DOMAIN Idle
    BY DEF LifecycleInv, ClosingInv, Processes
  <2>2. CASE proc' = [proc EXCEPT ![r] = Idle]
    BY <2>1, <2>2
  <2>3. ASSUME NEW set, proc' = [proc EXCEPT ![r].pc = "applied", ![r].closing = set]
        PROVE  /\ \A q \in Requests : q # r => proc'[q] = proc[q]
               /\ proc'[r].seen = proc[r].seen /\ proc'[r].new = proc[r].new
               /\ proc'[r].kind = proc[r].kind /\ proc'[r].pc = "applied"
    BY <2>1, <2>3 DEF Idle, Processes
  <2>4. QED
    BY <1>1, <2>2, <2>3
<1>3. \A q \in Requests : proc[q].pc = "written" => q = r
  BY <1>1, HolderAlone
<1>4. \A q \in Requests : ~WroteAuth(q)'
  BY <1>2, <1>3 DEF WroteAuth, Idle
<1>5. /\ settings'.rev = settings.rev + 1
      /\ proc[r].kind = "auth" => settings'.auth = file.auth
      /\ proc[r].kind # "auth" => settings'.auth = proc[r].new.auth
  BY <1>1 DEF NewSettings
<1>6. \A q \in Requests : proc'[q].kind \in {"save", "add"} => ~SeenIsCurrent(q)'
  <2>1. \A q \in Requests : proc[q].seen.rev \in Nat /\ proc[q].seen.rev <= settings.rev
    BY DEF AgreementInv, ViewsInv, Sees, Processes
  <2>2. settings.rev \in Nat
    BY DEF AgreementInv, ViewsInv
  <2>3. \A q \in Requests : proc'[q].kind = "none" \/ proc'[q].seen = proc[q].seen
    BY <1>2 DEF Idle
  <2>4. QED
    BY <1>5, <2>1, <2>2, <2>3 DEF SeenIsCurrent
<1>7. FormsInv'
  BY <1>6 DEF FormsInv
<1>8. CASE proc[r].kind = "auth"
  <2>1. overlap \/ file.auth = settings.auth + 1
    BY <1>1, <1>3, <1>8 DEF CredentialsInv, FileInv, WroteAuth, Outdated
  <2>2. FileInv'
    BY <1>1, <1>4, <1>5, <1>8 DEF FileInv
  <2>3. NoneComeBack
    BY <1>5, <1>8, <2>1, AuthIsNat DEF NoneComeBack
  <2>4. QED
    BY <1>7, <2>2, <2>3 DEF CredentialsInv
<1>9. CASE proc[r].kind # "auth"
  <2>1. CASE overlap \/ Outdated(r)
    <3>1. overlap'
      BY <1>1, <1>9, <2>1 DEF Outdated
    <3>2. QED
      BY <1>7, <2>1, <3>1 DEF CredentialsInv, FileInv, NoneComeBack
  <2>2. CASE ~overlap /\ ~Outdated(r)
    <3>1. file.auth = settings.auth
      BY <1>3, <1>9, <2>2 DEF CredentialsInv, FileInv, WroteAuth, Outdated
    <3>2. SeenIsCurrent(r)
      BY <1>1, <1>9, <2>2 DEF Outdated
    <3>3. settings'.auth = settings.auth
      BY <1>1, <1>5, <1>9, <3>2 DEF CredentialsInv, FormsInv
    <3>4. QED
      BY <1>1, <1>4, <1>7, <3>1, <3>3, AuthIsNat DEF CredentialsInv, FileInv, NoneComeBack
  <2>3. QED
    BY <2>1, <2>2
<1>10. QED
  BY <1>8, <1>9

(* Under the lock the file had the credentials of the settings.            *)
LEMMA WriteKeepsAuth ==
  ASSUME LifecycleInv, AgreementInv, DrainInv, TypeInv, CredentialsInv,
         NEW r \in Requests, Write(r)
  PROVE  CredentialsInv' /\ NoneComeBack
<1>1. /\ r \in Processes /\ Holds(r) /\ MayWrite(r) /\ file' = Content(r)
      /\ Becomes(r, "written") /\ UNCHANGED <<settings, overlap>>
      /\ proc[r].pc \in {"queued", "removed"}
      /\ proc[r].kind \in {"save", "add", "auth", "remove"}
      /\ proc[r].kind = "remove" => proc[r].pc = "removed"
  BY DEF Write, MayWrite, At, Processes, live, history
<1>2. \A q \in Requests :
        /\ q # r => proc'[q] = proc[q]
        /\ proc'[r].seen = proc[r].seen /\ proc'[r].new = proc[r].new
        /\ proc'[r].kind = proc[r].kind /\ proc'[r].pc = "written"
  BY <1>1 DEF Becomes, LifecycleInv, ClosingInv, Idle, Processes
<1>3. up = "up" /\ \A q \in Requests : proc[q].pc # "written"
  BY <1>1, HolderAlone
<1>4. FormsInv'
  BY <1>1, <1>2 DEF CredentialsInv, FormsInv, SeenIsCurrent
<1>5. NoneComeBack
  BY <1>1, AuthIsNat DEF NoneComeBack
<1>6. ASSUME ~overlap'
      PROVE  \/ file'.auth = settings'.auth /\ \A q \in Requests : ~WroteAuth(q)'
             \/ file'.auth = settings'.auth + 1 /\ \E q \in Requests : WroteAuth(q)'
             \/ \E q \in Requests : Outdated(q)'
  <2>1. CASE proc[r].kind = "auth"
    <3>1. file'.auth = settings.auth + 1
      BY <1>1, <2>1 DEF Content, Config
    <3>2. WroteAuth(r)'
      BY <1>2, <2>1 DEF WroteAuth
    <3>3. QED
      BY <1>1, <3>1, <3>2
  <2>2. CASE proc[r].kind # "auth"
    <3>1. \A q \in Requests : ~WroteAuth(q)'
      BY <1>2, <1>3, <2>2 DEF WroteAuth
    <3>2. CASE proc[r].kind = "remove"
      <4>1. /\ proc[r].pc = "removed" /\ file'.auth = proc[r].seen.auth
        BY <1>1, <3>2 DEF Content, Config
      <4>2. Halfway(r)
        BY <1>1, <1>3, <1>6, <4>1 DEF AgreementInv, SyncInv, Busy
      <4>3. file'.auth = settings.auth
        BY <4>1, <4>2 DEF Halfway
      <4>4. QED
        BY <1>1, <3>1, <4>3
    <3>3. CASE proc[r].kind \in {"save", "add"}
      <4>1. file'.auth = proc[r].new.auth
        BY <1>1, <3>3 DEF Content
      <4>2. CASE SeenIsCurrent(r)
        <5>1. file'.auth = settings.auth
          BY <3>3, <4>1, <4>2 DEF CredentialsInv, FormsInv
        <5>2. QED
          BY <1>1, <3>1, <5>1
      <4>3. CASE ~SeenIsCurrent(r)
        <5>1. Outdated(r)'
          BY <1>1, <1>2, <3>3, <4>3 DEF Outdated, SeenIsCurrent
        <5>2. QED
          BY <5>1
      <4>4. QED
        BY <4>2, <4>3
    <3>4. QED
      BY <1>1, <2>2, <3>2, <3>3
  <2>3. QED
    BY <2>1, <2>2
<1>7. FileInv'
  BY <1>6 DEF FileInv
<1>8. QED
  BY <1>4, <1>5, <1>7 DEF CredentialsInv

LEMMA RemoveKeepsAuth ==
  ASSUME LifecycleInv, AgreementInv, DrainInv, TypeInv, CredentialsInv,
         NEW r \in Requests, RemoveFromSettings(r)
  PROVE  CredentialsInv' /\ NoneComeBack
<1>0. PICK x, o : x = proc[r].name /\ o = proc[r].seen.object
  OBVIOUS
<1>1. /\ r \in Processes /\ Holds(r) /\ proc[r].kind = "remove" /\ proc[r].pc = "queued"
      /\ file' = file
  BY DEF RemoveFromSettings, At, Processes, disk
<1>2. CASE x \notin DOMAIN proc[r].seen.insts
  <2>1. Return(r) /\ UNCHANGED <<settings, overlap>>
    BY <1>0, <1>2 DEF RemoveFromSettings
  <2>2. \A q \in Requests : proc'[q] = IF q = r THEN Idle ELSE proc[q]
    BY <2>1 DEF Return, LifecycleInv, ClosingInv, Processes
  <2>3. QED
    BY <1>1, <2>1, <2>2, OthersKeepAuth
<1>3. CASE x \in DOMAIN proc[r].seen.insts
  <2> DEFINE turn(p) == IF p = r THEN [proc[p] EXCEPT !.pc = "removed"] ELSE proc[p]
             kept(p) == [turn(p) EXCEPT !.seen.insts = Without(turn(p).seen.insts, x)]
  <2>1. /\ proc' = [p \in DOMAIN proc |->
                      IF turn(p).seen.object = o THEN kept(p) ELSE turn(p)]
        /\ settings' = IF settings.object # o THEN settings
                       ELSE [settings EXCEPT !.insts = Without(settings.insts, x),
                                             !.rev = settings.rev + 1]
        /\ overlap' = (overlap \/ ~SeenIsCurrent(r))
    BY <1>0, <1>3 DEF RemoveFromSettings
  <2>2. /\ DOMAIN proc = Processes /\ \A p \in Processes : DOMAIN proc[p] = DOMAIN Idle
        /\ \A p \in Processes :
             /\ DOMAIN proc[p].seen = DOMAIN Idle.seen
             /\ proc[p].seen.rev \in Nat /\ proc[p].seen.rev <= settings.rev
        /\ DOMAIN settings = {"object", "rev", "insts", "auth"} /\ settings.rev \in Nat
    BY DEF LifecycleInv, ClosingInv, AgreementInv, ViewsInv, Sees
  <2>3. \A p \in Processes :
          /\ DOMAIN turn(p) = DOMAIN Idle /\ turn(p).seen = proc[p].seen
          /\ turn(p).new = proc[p].new /\ turn(p).kind = proc[p].kind
          /\ turn(p).pc = IF p = r THEN "removed" ELSE proc[p].pc
    BY <2>2 DEF Idle
  <2> HIDE DEF turn
  <2>4. \A p \in Processes :
          /\ kept(p).pc = turn(p).pc /\ kept(p).kind = turn(p).kind
          /\ kept(p).new = turn(p).new
          /\ kept(p).seen.object = turn(p).seen.object
          /\ kept(p).seen.rev = turn(p).seen.rev
          /\ kept(p).seen.whole = turn(p).seen.whole
    BY <2>2, <2>3 DEF Idle
  <2> HIDE DEF kept
  <2>5. \A p \in Processes :
          /\ proc'[p].pc = IF p = r THEN "removed" ELSE proc[p].pc
          /\ proc'[p].kind = proc[p].kind /\ proc'[p].new = proc[p].new
          /\ proc'[p].seen.object = proc[p].seen.object
          /\ proc'[p].seen.rev = proc[p].seen.rev
          /\ proc'[p].seen.whole = proc[p].seen.whole
    <3>1. \A p \in Processes :
            proc'[p] = IF turn(p).seen.object = o THEN kept(p) ELSE turn(p)
      BY <2>1, <2>2
    <3>2. QED
      BY <2>3, <2>4, <3>1
  <2>6. /\ settings'.auth = settings.auth
        /\ settings' = settings \/ settings'.rev = settings.rev + 1
    BY <2>1, <2>2
  <2>7. FormsInv'
    <3>1. CASE settings' = settings
      BY <2>5, <3>1 DEF CredentialsInv, FormsInv, SeenIsCurrent, Processes
    <3>2. CASE settings'.rev = settings.rev + 1
      <4>1. \A q \in Requests : ~SeenIsCurrent(q)'
        BY <2>2, <2>5, <3>2 DEF SeenIsCurrent, Processes
      <4>2. QED
        BY <4>1 DEF FormsInv
    <3>3. QED
      BY <2>6, <3>1, <3>2
  <2>8. \A q \in Requests : proc[q].pc # "written" /\ proc'[q].pc # "written"
    <3>1. \A q \in Requests : proc[q].pc # "written"
      BY <1>1, HolderAlone
    <3>2. QED
      BY <2>5, <3>1 DEF Processes
  <2>9. ~overlap => file.auth = settings.auth
    BY <2>8 DEF CredentialsInv, FileInv, WroteAuth, Outdated
  <2>10. FileInv'
    BY <1>1, <2>1, <2>6, <2>8, <2>9 DEF FileInv, WroteAuth
  <2>11. NoneComeBack
    BY <2>6, AuthIsNat DEF NoneComeBack
  <2>12. QED
    BY <2>7, <2>10, <2>11 DEF CredentialsInv
<1>4. QED
  BY <1>2, <1>3

(* A form and a new instance come with the credentials of the file, or of  *)
(* the settings, which were the same if the view was whole.                *)
LEMMA ComerKeepsAuth ==
  ASSUME LifecycleInv, TypeInv, CredentialsInv, NEW p \in Processes, proc[p] = Idle,
         NEW kind, NEW rec, DOMAIN rec = DOMAIN Idle, Wait(p, kind, rec),
         UNCHANGED <<file, settings, overlap>>,
         kind \in {"save", "add"} =>
           rec.seen = View /\ rec.new.auth \in {file.auth, settings.auth}
  PROVE  CredentialsInv' /\ NoneComeBack
<1> DEFINE new == [rec EXCEPT !.pc = "queued", !.kind = kind]
<1>1. /\ new.pc = "queued" /\ new.kind = kind /\ new.seen = rec.seen /\ new.new = rec.new
  BY DEF Idle
<1>2. \A q \in Requests : proc'[q] = IF q = p THEN new ELSE proc[q]
  BY DEF Wait, LifecycleInv, ClosingInv, Processes
<1> HIDE DEF new
<1>3. View.whole => file.auth = settings.auth
  <2> DEFINE whole == file = Config(settings.insts, settings.auth)
  <2>1. View = [object |-> settings.object, rev |-> settings.rev,
                insts |-> settings.insts, auth |-> settings.auth, whole |-> whole]
    BY DEF View
  <2>2. whole => file.auth = settings.auth
    BY DEF Config
  <2> HIDE DEF whole
  <2>3. View.whole = whole
    BY <2>1
  <2>4. QED
    BY <2>2, <2>3
<1>4. FormsInv'
  <2>1. ASSUME NEW q \in Requests, proc'[q].kind \in {"save", "add"}, SeenIsCurrent(q)'
        PROVE  proc'[q].new.auth = settings'.auth
    <3>1. CASE q = p
      <4>1. rec.seen = View /\ View.whole /\ rec.new.auth \in {file.auth, settings.auth}
        BY <1>1, <1>2, <2>1, <3>1 DEF SeenIsCurrent
      <4>2. QED
        BY <1>1, <1>2, <1>3, <3>1, <4>1
    <3>2. CASE q # p
      BY <1>2, <2>1, <3>2 DEF CredentialsInv, FormsInv, SeenIsCurrent
    <3>3. QED
      BY <3>1, <3>2
  <2>2. QED
    BY <2>1 DEF FormsInv
<1>5. \A q \in Requests : (WroteAuth(q)' <=> WroteAuth(q)) /\ (Outdated(q) => Outdated(q)')
  <2>1. \A q \in Requests : q = p => proc[q].pc # "written" /\ proc'[q].pc # "written"
    BY <1>1, <1>2 DEF Idle
  <2>2. QED
    BY <1>2, <2>1 DEF WroteAuth, Outdated, SeenIsCurrent
<1>6. FileInv'
  BY <1>5 DEF CredentialsInv, FileInv
<1>7. NoneComeBack
  BY AuthIsNat DEF NoneComeBack
<1>8. QED
  BY <1>4, <1>6, <1>7 DEF CredentialsInv

LEMMA ArriveKeepsAuth ==
  ASSUME LifecycleInv, TypeInv, CredentialsInv, Arrive
  PROVE  CredentialsInv' /\ NoneComeBack
<1>1. ASSUME NEW r \in Requests, Submit(r), NEW kind, NEW rec, DOMAIN rec = DOMAIN Idle,
             Wait(r, kind, rec),
             kind \in {"save", "add"} =>
               rec.seen = View /\ rec.new.auth \in {file.auth, settings.auth}
      PROVE  CredentialsInv' /\ NoneComeBack
  <2>1. /\ r \in Processes /\ proc[r] = Idle /\ UNCHANGED <<file, settings, overlap>>
    BY <1>1 DEF Submit, Processes, disk, live
  <2>2. QED
    BY <1>1, <2>1, ComerKeepsAuth
<1>2. ASSUME NEW r \in Requests, SubmitSave(r)
      PROVE  CredentialsInv' /\ NoneComeBack
  <2>1. PICK insts :
          /\ Submit(r)
          /\ Wait(r, "save", [Idle EXCEPT !.seen = View, !.new = Config(insts, file.auth)])
    BY <1>2 DEF SubmitSave, FilledAuth
  <2> DEFINE rec == [Idle EXCEPT !.seen = View, !.new = Config(insts, file.auth)]
  <2>2. DOMAIN rec = DOMAIN Idle /\ rec.seen = View /\ rec.new.auth = file.auth
    BY DEF Idle, Config
  <2> HIDE DEF rec
  <2>3. QED
    BY <1>1, <2>1, <2>2 DEF rec
<1>3. ASSUME NEW r \in Requests, NEW x \in Names, SubmitAdd(r, x)
      PROVE  CredentialsInv' /\ NoneComeBack
  <2>1. PICK insts :
          /\ Submit(r)
          /\ Wait(r, "add", [Idle EXCEPT !.name = x, !.seen = View,
                                         !.new = Config(insts, settings.auth)])
    BY <1>3 DEF SubmitAdd
  <2> DEFINE rec == [Idle EXCEPT !.name = x, !.seen = View,
                                 !.new = Config(insts, settings.auth)]
  <2>2. DOMAIN rec = DOMAIN Idle /\ rec.seen = View /\ rec.new.auth = settings.auth
    BY DEF Idle, Config
  <2> HIDE DEF rec
  <2>3. QED
    BY <1>1, <2>1, <2>2 DEF rec
<1>4. ASSUME NEW r \in Requests, NEW x \in Names,
             SubmitRemove(r, x) \/ SubmitSearch(r, x) \/ SubmitRefresh(r, x)
      PROVE  CredentialsInv' /\ NoneComeBack
  BY <1>1, <1>4, IdleFields DEF SubmitRemove, SubmitSearch, SubmitRefresh, Found
<1>5. ASSUME NEW r \in Requests, SubmitAuth(r)
      PROVE  CredentialsInv' /\ NoneComeBack
  BY <1>1, <1>5 DEF SubmitAuth
<1>6. ASSUME NEW x \in Names, JobFires(x)
      PROVE  CredentialsInv' /\ NoneComeBack
  <2>1. /\ x \in Processes /\ proc[x] = Idle /\ Wait(x, "job", Found(x))
        /\ UNCHANGED <<file, settings, overlap>>
    BY <1>6 DEF JobFires, Processes, disk, live, history
  <2>2. DOMAIN Found(x) = DOMAIN Idle
    BY IdleFields DEF Found
  <2>3. QED
    BY <2>1, <2>2, ComerKeepsAuth
<1>7. QED
  BY <1>2, <1>3, <1>4, <1>5, <1>6 DEF Arrive

LEMMA CredentialsInit == Init => CredentialsInv
<1> SUFFICES ASSUME Init PROVE CredentialsInv
  OBVIOUS
<1>1. settings.auth = file.auth
  BY DEF Init, FirstSettings
<1>2. \A r \in Requests : proc[r].kind = "none"
  BY DEF Init, Nobody, Idle
<1>3. QED
  BY <1>1, <1>2 DEF CredentialsInv, FormsInv, FileInv, WroteAuth

LEMMA CredentialsNext ==
  LifecycleInv /\ AgreementInv /\ DrainInv /\ TypeInv /\ CredentialsInv /\ [Next]_vars
    => CredentialsInv' /\ NoneComeBack
<1> SUFFICES ASSUME LifecycleInv, AgreementInv, DrainInv, TypeInv, CredentialsInv, [Next]_vars
             PROVE  CredentialsInv' /\ NoneComeBack
  OBVIOUS
<1>1. CASE Arrive
  BY <1>1, ArriveKeepsAuth
<1>2. ASSUME NEW r \in Requests, RemoveFromSettings(r) \/ Write(r)
      PROVE  CredentialsInv' /\ NoneComeBack
  BY <1>2, RemoveKeepsAuth, WriteKeepsAuth
<1>3. ASSUME NEW r \in Requests, ApplyAuth(r) \/ ApplyAdd(r) \/ ApplySave(r)
      PROVE  CredentialsInv' /\ NoneComeBack
  BY <1>3, NewSettingsKeepAuth
<1>4. ASSUME NEW r \in Requests, FinishSave(r) \/ ApplyRemove(r) \/ CloseNext(r)
      PROVE  CredentialsInv' /\ NoneComeBack
  BY <1>4, ClosingKeepsAuth
<1>5. ASSUME NEW p \in Requests \cup Names,
             \/ WriteFails(p) \/ AuthRefused(p) \/ SavesNothing(p)
             \/ CycleSaves(p) \/ CycleFails(p) \/ FinishFails(p)
      PROVE  CredentialsInv' /\ NoneComeBack
  BY <1>5, ReturnsKeepAuth DEF Processes
<1>6. CASE LockStep
  BY <1>2, <1>3, <1>4, <1>5, <1>6 DEF LockStep
<1>7. CASE Stop \/ Drain \/ DrainTimeout \/ \E x \in Names : JobCancelled(x)
  BY <1>7, ShutdownKeepsAuth
<1>8. CASE Restart \/ Crash
  BY <1>8, BootKeepsAuth DEF Restart, Crash
<1>9. CASE UNCHANGED vars
  <2>1. UNCHANGED <<file, settings, proc, overlap>>
    BY <1>9 DEF vars, disk, live, history
  <2>2. QED
    BY <2>1, OthersKeepAuth
<1>10. QED
  BY <1>1, <1>4, <1>5, <1>6, <1>7, <1>8, <1>9 DEF Next

(* Old credentials come back only with a settings form, an added or a      *)
(* removed instance whose handler read the settings before they changed:   *)
(* no crash, failed write or restart brings them back by itself.           *)
THEOREM OldCredentialsStayAway == Spec => OnlyOutdatedReverts
<1>1. LifecycleInv /\ AgreementInv /\ DrainInv /\ TypeInv /\ CredentialsInv /\ [Next]_vars
        => [settings'.auth < settings.auth =>
              overlap \/ \E r \in Requests : Outdated(r)]_vars
  BY CredentialsNext DEF NoneComeBack
<1>2. QED
  BY <1>1, CredentialsInit, CredentialsNext, TypeInit, TypeNext, DrainInit, DrainNext,
     AgreementInit, AgreementNext, LifecycleInit, LifecycleNext, PTL
     DEF Spec, OnlyOutdatedReverts
=============================================================================
