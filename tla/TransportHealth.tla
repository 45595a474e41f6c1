-------------------------- MODULE TransportHealth --------------------------
(***************************************************************************)
(* The circuit breaker of one transport (internal/sender/health.go): each  *)
(* replica counts the failures it sees and routes by its own circuit, by   *)
(* the status row all replicas share, and by a cached copy of that row     *)
(* (cache.go).  Actors are the delivery workers (process.go) and, one per  *)
(* replica, the probe pass (sender.go); an actor that changes the circuit  *)
(* writes the row itself, in a read and a write that other actors can      *)
(* come between.                                                           *)
(*                                                                         *)
(* Times are kept as distances from now: status_until and the next probe   *)
(* as what is left, down to just past; replies and copies as their age.    *)
(***************************************************************************)
EXTENDS SmtpClassify

CONSTANTS
  Replicas,       \* the replicas modelled in full; the others only write the row
  SendWorkers,    \* delivery workers
  Probers,        \* the probe passes
  Home,           \* the replica of each actor
  None,           \* no copy, no window
  Threshold,      \* TransportFailureThreshold
  ProbeEvery,     \* TransportProbeInterval in ticks
  RateThreshold,  \* rateLimitThreshold
  RateWindow,     \* rateLimitWindow in ticks
  CacheTTL,       \* CacheTTL in ticks
  MaxUpsets       \* bound: crashes, operator edits, failed store calls

Actors == SendWorkers \cup Probers

ASSUME TransportAssumption ==
  /\ Home \in [Actors -> Replicas]
  /\ Threshold \in Nat \ {0}
  /\ ProbeEvery \in Nat \ {0}
  /\ None \notin -1..ProbeEvery
  /\ RateThreshold \in Nat \ {0}
  /\ RateWindow \in Nat
  /\ CacheTTL \in Nat \ {0}
  /\ MaxUpsets \in Nat

VARIABLES
  relay,    \* what the SMTP relay is doing
  row,      \* the transport's status columns
  circuit,  \* transportHealth of each replica
  copy,     \* the cached row of each replica
  job,      \* where each actor is
  fresh,    \* the actors whose read of the row no write has overtaken
  upsets,   \* how many of them the environment has left
  settled,  \* history: ticks since the row was last written
  recovered \* history: circuits that recovered from unhealthy and have not cooled down since

healthVars == <<relay, row, circuit, copy, job, fresh, upsets, settled, recovered>>

Status == {"healthy", "cooldown", "unhealthy"}

Relays == {"failing", "up"}

\* What is left of a window, if there is one.
Window == (-1..ProbeEvery) \cup {None}

StatusRow == [status : Status, until : Window]

\* A rate_limited reply older than the window, or that never came.
Pruned == RateWindow + 1

\* failures stops counting at the threshold, beyond which nothing looks; of the
\* rate_limited replies the newest RateThreshold decide everything, and rates has
\* their ages, newest first.
Circuit == [failures : 0..Threshold, status : Status, next : 0..ProbeEvery,
            rates : [1..RateThreshold -> 0..Pruned]]

\* Where an actor is: between deliveries, in a load of the row, in an attempt, in
\* a probe, or in a write of the row.
Task ==
  [stage : {"idle", "probing"}]
  \cup [stage : {"filling"}, row : StatusRow, age : 0..CacheTTL, late : BOOLEAN]
  \cup [stage : {"sending"}, late : BOOLEAN]
  \cup [stage : {"reading", "updating"}, status : Status, left : Window, tries : 1..2]

HealthTypeOK ==
  /\ relay \in Relays
  /\ row \in StatusRow
  /\ circuit \in [Replicas -> Circuit]
  /\ copy \in [Replicas -> [row : StatusRow, age : 0..CacheTTL - 1] \cup {None}]
  /\ job \in [Actors -> Task]
  /\ fresh \subseteq Actors
  /\ upsets \in 0..MaxUpsets
  /\ settled \in 0..CacheTTL
  /\ recovered \subseteq Replicas

\* A window when n ticks have passed, and a row with it.
Passed(left, n) == IF left = None THEN None ELSE IF left - n < 0 THEN -1 ELSE left - n

PassedRow(tr, n) == [tr EXCEPT !.until = Passed(@, n)]

Older(age, cap) == IF age < cap THEN age + 1 ELSE age

-----------------------------------------------------------------------------
(* The circuit of a replica.                                               *)

NewCircuit == [failures |-> 0, status |-> "healthy", next |-> 0,
               rates |-> [i \in 1..RateThreshold |-> Pruned]]

\* pruneRateLimits, and one more reply: the oldest falls out of sight.
Newest(rates) == [i \in 1..RateThreshold |-> IF i = 1 THEN 0 ELSE rates[i - 1]]

\* fail.
Fail(c, class) ==
  LET failures == IF c.failures < Threshold THEN c.failures + 1 ELSE Threshold
      rates    == Newest(c.rates)
  IN CASE class = "auth" /\ c.status = "unhealthy" ->
            [c EXCEPT !.failures = failures, !.next = ProbeEvery]
       [] class = "auth" /\ c.status # "unhealthy" /\ failures < Threshold ->
            [c EXCEPT !.failures = failures]
       [] class = "auth" /\ c.status # "unhealthy" /\ failures >= Threshold ->
            [c EXCEPT !.failures = failures, !.status = "unhealthy", !.next = ProbeEvery]
       [] class = "rate_limited" ->
            [c EXCEPT !.rates = rates,
                      !.status = IF @ = "healthy" /\ rates[RateThreshold] <= RateWindow
                                   THEN "cooldown" ELSE @]
       [] OTHER -> c

\* Mutant: one success ends a cooldown.
SuccessEndsCooldown(c) == [c EXCEPT !.failures = 0, !.status = "healthy"]

\* success: a cooldown lasts until its window is clear.
Success(c) ==
  [c EXCEPT !.failures = 0,
            !.status = IF @ = "cooldown" /\ c.rates[1] <= RateWindow THEN @ ELSE "healthy"]

\* What process.go does with the class of an attempt.
Observe(c, class) ==
  CASE class = "none"                     -> Success(c)
    [] class \in {"auth", "rate_limited"} -> Fail(c, class)
    [] OTHER                              -> c

\* Mutant: a status that is not healthy is trusted for ever.
StatusForEver(status) == None

\* statusUntil.
StatusUntil(status) == IF status = "healthy" THEN None ELSE ProbeEvery

\* transportUsable: a window that has passed overrides everything else.
TransportUsable(tr, c) ==
  \/ tr.status # "healthy" /\ tr.until # None /\ tr.until < 0
  \/ tr.status # "unhealthy" /\ (c.status # "unhealthy" \/ c.next <= 0)

-----------------------------------------------------------------------------
(* Relays.                                                                 *)

\* Accepted, or refused for the sake of this recipient or this moment.
Good == {Sent, SmtpReply(550, <<5, 1, 1>>, {}), SmtpReply(554, <<5, 7, 1>>, {"reputation"}),
         SmtpReply(452, <<4, 2, 2>>, {}), NetworkFailure("timeout")}

\* The transport is at fault, or sends too fast.
Bad == {SmtpReply(535, <<5, 7, 8>>, {}), NetworkFailure("tls"), SmtpReply(421, <<4, 7, 0>>, {}),
        SmtpReply(451, <<>>, {"throttle"})}

\* What a relay may answer to a delivery: anything, until it is mended.
Replies == IF relay = "up" THEN Good ELSE Good \cup Bad

Upset == upsets > 0 /\ upsets' = upsets - 1

Idle == [stage |-> "idle"]

Goto(a, j) == job' = [job EXCEPT ![a] = j]

HealthInit ==
  /\ relay = "failing"
  /\ row = [status |-> "healthy", until |-> None]
  /\ circuit = [r \in Replicas |-> NewCircuit]
  /\ copy = [r \in Replicas |-> None]
  /\ job = [a \in Actors |-> Idle]
  /\ fresh = {}
  /\ upsets = MaxUpsets
  /\ settled = CacheTTL
  /\ recovered = {}

-----------------------------------------------------------------------------
(* A delivery.                                                             *)

\* The row is shut, and has been for long enough that every copy of the row as
\* it was before has expired.
Shut == row.status = "unhealthy" /\ row.until # None /\ row.until >= 0 /\ settled >= CacheTTL

\* Send, or defer the delivery without an attempt.  The window is compared with
\* the time the worker started at, as tr has it.
Route(w, tr, late) ==
  Goto(w, IF TransportUsable(tr, circuit[Home[w]]) THEN [stage |-> "sending", late |-> late]
                                                   ELSE Idle)

\* A worker starts on a delivery and looks the transport up at that time, in the
\* cache or, when no copy is young enough, in the store.
Lookup(w) ==
  LET cached == copy[Home[w]]
  IN /\ job[w] = Idle
     /\ IF cached # None
          THEN Route(w, cached.row, Shut)
          ELSE Goto(w, [stage |-> "filling", row |-> row, age |-> 0, late |-> Shut])
     /\ UNCHANGED <<relay, row, circuit, copy, fresh, upsets, settled, recovered>>

\* Mutant: the copy is as old as the time it was stored, not as the lookup.
CopyStampedLate(tr, age) == [row |-> PassedRow(tr, age), age |-> 0]

\* A copy that has reached CacheTTL is never used again.
Copy(tr, age) == IF age < CacheTTL THEN [row |-> PassedRow(tr, age), age |-> age] ELSE None

\* The loaded row is stored in the cache, after whatever invalidated it since.
Fill(w) ==
  /\ job[w].stage = "filling"
  /\ copy' = [copy EXCEPT ![Home[w]] = Copy(job[w].row, job[w].age)]
  /\ Route(w, job[w].row, job[w].late)
  /\ UNCHANGED <<relay, row, circuit, fresh, upsets, settled, recovered>>

\* A circuit that changed status has the actor write it, with a window from now.
Report(a, c) ==
  /\ circuit' = [circuit EXCEPT ![Home[a]] = c]
  /\ recovered' = CASE c.status = "healthy" /\ circuit[Home[a]].status = "unhealthy" ->
                         recovered \cup {Home[a]}
                   [] c.status = "cooldown" -> recovered \ {Home[a]}
                   [] OTHER                 -> recovered
  /\ Goto(a, IF c.status = circuit[Home[a]].status THEN Idle
             ELSE [stage |-> "reading", status |-> c.status,
                   left |-> StatusUntil(c.status), tries |-> 2])

\* The attempt ends and its class reaches the circuit.
Attempt(w) ==
  /\ job[w].stage = "sending"
  /\ \E reply \in Replies :
       Report(w, Observe(circuit[Home[w]], Classify(reply)))
  /\ UNCHANGED <<relay, row, copy, fresh, upsets, settled>>

-----------------------------------------------------------------------------
(* Probes.                                                                 *)

\* due: the next probe is put off before this one is made.
ProbeDue(p) ==
  LET c == circuit[Home[p]]
  IN /\ job[p] = Idle
     /\ c.status = "unhealthy" /\ c.next <= 0
     /\ circuit' = [circuit EXCEPT ![Home[p]].next = ProbeEvery]
     /\ Goto(p, [stage |-> "probing"])
     /\ UNCHANGED <<relay, row, copy, fresh, upsets, settled, recovered>>

\* The probe connects and logs in; recover on success, nothing on failure.
Probe(p) ==
  /\ job[p].stage = "probing"
  /\ \/ Report(p, Success(circuit[Home[p]]))
     \/ relay = "failing" /\ Goto(p, Idle) /\ UNCHANGED <<circuit, recovered>>
  /\ UNCHANGED <<relay, row, copy, fresh, upsets, settled>>

-----------------------------------------------------------------------------
(* setTransportStatus: read the row, write it if nobody has meanwhile, and  *)
(* start again once if somebody has.                                        *)

ReadRow(a) ==
  /\ job[a].stage = "reading"
  /\ IF row = [status |-> job[a].status, until |-> job[a].left]
       THEN Goto(a, Idle) /\ UNCHANGED fresh
       ELSE Goto(a, [job[a] EXCEPT !.stage = "updating"]) /\ fresh' = fresh \cup {a}
  /\ UNCHANGED <<relay, row, circuit, copy, upsets, settled, recovered>>

\* Both outcomes of Update drop the replica's copy.
UpdateRow(a) ==
  LET j == job[a]
  IN /\ j.stage = "updating"
     /\ copy' = [copy EXCEPT ![Home[a]] = None]
     /\ \/ /\ a \in fresh
           /\ row' = [status |-> j.status, until |-> j.left]
           /\ fresh' = {}
           /\ settled' = 0
           /\ Goto(a, Idle)
        \/ /\ a \notin fresh
           /\ Goto(a, IF j.tries > 1 THEN [j EXCEPT !.stage = "reading", !.tries = @ - 1]
                                     ELSE Idle)
           /\ UNCHANGED <<row, fresh, settled>>
     /\ UNCHANGED <<relay, circuit, upsets, recovered>>

\* The store fails: Get ends the write, Update's error is taken for a conflict.
StoreFails(a) ==
  LET j == job[a]
  IN /\ j.stage \in {"reading", "updating"}
     /\ Upset
     /\ Goto(a, IF j.stage = "updating" /\ j.tries > 1
                  THEN [j EXCEPT !.stage = "reading", !.tries = @ - 1] ELSE Idle)
     /\ copy' = IF j.stage = "updating" THEN [copy EXCEPT ![Home[a]] = None] ELSE copy
     /\ fresh' = fresh \ {a}
     /\ UNCHANGED <<relay, row, circuit, settled, recovered>>

-----------------------------------------------------------------------------
(* The environment.                                                        *)

RelayMended ==
  /\ relay = "failing"
  /\ relay' = "up"
  /\ UNCHANGED <<row, circuit, copy, job, fresh, upsets, settled, recovered>>

\* UpdateTransport keeps the status columns and bumps the version.
UpdateTransport ==
  /\ Upset
  /\ fresh' = {}
  /\ UNCHANGED <<relay, row, circuit, copy, job, settled, recovered>>

\* A replica outside the model writes what its own circuit says: anything while
\* the relay fails, and afterwards a recovery or what it was late to write.
PeerWrites ==
  /\ \E status \in Status :
       /\ IF relay = "failing" \/ status = "healthy" THEN UNCHANGED upsets ELSE Upset
       /\ row' = [status |-> status, until |-> StatusUntil(status)]
  /\ fresh' = {}
  /\ settled' = 0
  /\ UNCHANGED <<relay, circuit, copy, job, recovered>>

\* A replica restarts with an empty tracker and an empty cache.
Restart(r) ==
  /\ Upset
  /\ circuit' = [circuit EXCEPT ![r] = NewCircuit]
  /\ copy' = [copy EXCEPT ![r] = None]
  /\ job' = [a \in Actors |-> IF Home[a] = r THEN Idle ELSE job[a]]
  /\ fresh' = {a \in fresh : Home[a] # r}
  /\ recovered' = recovered \ {r}
  /\ UNCHANGED <<relay, row, settled>>

AgedJob(j) ==
  CASE j.stage = "filling"                 -> [j EXCEPT !.age = Older(@, CacheTTL)]
    [] j.stage \in {"reading", "updating"} -> [j EXCEPT !.left = Passed(@, 1)]
    [] OTHER                               -> j

Tick ==
  /\ row' = PassedRow(row, 1)
  /\ circuit' = [r \in Replicas |->
                   [circuit[r] EXCEPT
                      !.next = IF @ > 0 THEN @ - 1 ELSE 0,
                      !.rates = [i \in 1..RateThreshold |-> Older(@[i], Pruned)]]]
  /\ copy' = [r \in Replicas |->
                IF copy[r] = None THEN None
                ELSE IF copy[r].age + 1 >= CacheTTL THEN None
                ELSE [row |-> PassedRow(copy[r].row, 1), age |-> copy[r].age + 1]]
  /\ job' = [a \in Actors |-> AgedJob(job[a])]
  /\ settled' = Older(settled, CacheTTL)
  /\ UNCHANGED <<relay, fresh, upsets, recovered>>

-----------------------------------------------------------------------------

Process(w) == Lookup(w) \/ Fill(w) \/ Attempt(w)

ProbePass(p) == ProbeDue(p) \/ Probe(p)

SetTransportStatus(a) == ReadRow(a) \/ UpdateRow(a)

HealthNext ==
  \/ \E w \in SendWorkers : Process(w)
  \/ \E p \in Probers : ProbePass(p)
  \/ \E a \in Actors : SetTransportStatus(a) \/ StoreFails(a)
  \/ RelayMended \/ UpdateTransport \/ PeerWrites
  \/ \E r \in Replicas : Restart(r)
  \/ Tick

HealthSpec == HealthInit /\ [][HealthNext]_healthVars

\* Time passes, the probe pass runs on the refresh ticker, and a status write
\* that began is carried through.  Nothing is assumed of the deliveries.
HealthFairness ==
  /\ WF_healthVars(Tick)
  /\ \A p \in Probers : WF_healthVars(ProbePass(p))
  /\ \A a \in Actors : WF_healthVars(SetTransportStatus(a))

FairHealthSpec == HealthSpec /\ HealthFairness

-----------------------------------------------------------------------------
(* Properties.                                                             *)

\* A status the whole cluster can see is obeyed by every replica, however its
\* cache was filled and invalidated: no delivery is sent that started while the
\* window was open and the row older than CacheTTL.
ShutStaysShut == \A w \in SendWorkers : job[w].stage = "sending" => ~job[w].late

\* As long as RateThreshold of the replies a replica has had within the window
\* were rate_limited, its circuit is not healthy, whatever successes, probes and
\* other failures come between them.  Two things the code does are excepted: a
\* circuit that was unhealthy recovers unconditionally, burst or no burst, and a
\* replica that restarts has had no replies.
BurstsAreCooled ==
  \A r \in Replicas \ recovered :
    circuit[r].rates[RateThreshold] <= RateWindow => circuit[r].status # "healthy"

Usable(r) == TransportUsable(row, circuit[r])

\* A relay that works again is used again by every replica, whoever shut it
\* has crashed, lost its write or overwritten a newer status.
EventuallyRouted ==
  <>[](relay = "up") => \A r \in Replicas : <>[]Usable(r)
=============================================================================
