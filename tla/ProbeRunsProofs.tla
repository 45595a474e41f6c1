--------------------------- MODULE ProbeRunsProofs ---------------------------
(* Proofs about ProbeRuns, for any mailboxes, webhook requests, thresholds   *)
(* and attempts, and any number of runs and faults.                          *)
EXTENDS ProbeRuns, Counting, TLAPS, FiniteSetTheorems

USE DEF config, absences

-----------------------------------------------------------------------------
(* The inductive invariant.                                                *)

Stages == {"idle", "collecting", "completing", "queueing", "creating", "listing", "writing",
           "emitting"}

Job == [stage : Stages, todo : SUBSET (Ids \cup Mailboxes), late : SUBSET Ids,
        shut : SUBSET Mailboxes, absent : SUBSET Mailboxes, touched : BOOLEAN,
        run : Ids \cup {None}, status : Health, before : Health, over : Health, tries : Nat,
        stale : BOOLEAN, clears : BOOLEAN]

Mail == [at : {"none", "sending", "arrived", "gone"}, shows : Observations \cup {None}]

Types ==
  /\ enabled \subseteq Mailboxes /\ deleted \subseteq Mailboxes /\ dns \in {"off", "green", "red"}
  /\ run \in [Ids -> Run \cup {None}] /\ mail \in [Ids -> Mail]
  /\ health \in Health /\ due \in BOOLEAN /\ behind \in BOOLEAN
  /\ current \subseteq Actors
  /\ seen \subseteq Ids /\ answered \subseteq Ids /\ missed \subseteq Ids /\ orphaned \subseteq Ids
  /\ spoke \in Ids \cup {None}
  /\ job \in [Actors -> Job] /\ \A a \in Actors : job[a].tries < Attempts
  /\ faults \in 0..MaxFaults

\* The health the finished runs add up to.
Summary == Worst({run[i].status : i \in Latest})

\* The health that the last refresh should have left.
Shown == IF spoke = None THEN Summary ELSE run[spoke].status

\* The health that a refresh is to write: a trigger's is that of its DNS-only run.
Claim(a) == IF a \in Triggers THEN run[job[a].run].status ELSE Summary

\* The runs closed for want of their mail.
Unseen == missed \cup orphaned

\* A session has what its stage stands on: mailboxes to write to, a mail without
\* a run, runs that exist, a run to answer for, a run to summarise.
SessionOK(a) ==
  /\ job[a].stage = "idle" => ~job[a].touched
  /\ job[a].stage \in {"queueing", "creating"} => job[a].todo \subseteq Mailboxes
  /\ job[a].stage = "creating" => /\ job[a].run \in Ids
                                  /\ run[job[a].run] = None /\ mail[job[a].run].at # "none"
  /\ job[a].stage = "collecting" => \A i \in job[a].todo : i \in Ids /\ run[i] # None
  /\ job[a].stage = "completing" => job[a].run \in Ids /\ run[job[a].run] # None
  /\ a # Collector /\ job[a].stage \in {"listing", "writing", "emitting"} => job[a].run \in Finished
  /\ a \in Triggers => job[a].stage # "listing"
  /\ job[a].stage = "listing" \/ (job[a].stage = "collecting" /\ job[a].touched) => Finished # {}
  /\ job[a].absent \subseteq deleted

\* A refresh that no write of the sender has overtaken knows its health, one that
\* no write of a run has overtaken knows what to write, and an event tells of the
\* health it replaced.
RefreshOK(a) ==
  /\ job[a].stage = "writing" => /\ a \in current => job[a].before = health
                                 /\ ~job[a].stale => job[a].status = Claim(a)
  /\ job[a].stage = "emitting" => job[a].before = job[a].over

\* Two triggers never create the same run.
CreatorsDiffer ==
  \A a, b \in Actors :
    job[a].stage = "creating" /\ job[b].stage = "creating" /\ a # b => job[a].run # job[b].run

\* Accepted and remembered mails are those of finished runs.
AcceptedFinished == seen \cup answered \subseteq Finished

\* A finished run without its mail was missed, unless its mailbox did not open;
\* what was missed stays on its mailbox.
MissesKnown ==
  /\ Unseen \subseteq Finished
  /\ \A i \in Finished : ~run[i].delivered /\ run[i].status # "unknown" /\ run[i].box # None
                           => i \in Unseen

\* A run is red for want of its mail after so many.
RedKnown ==
  \A i \in Finished : run[i].status = "red" /\ ~run[i].delivered /\ run[i].box # None =>
    Cardinality({k \in Unseen : run[k].box = run[i].box}) >= FailuresForRed

\* Only the runs of deleted mailboxes are orphans.
OrphansKnown == \A k \in orphaned : run[k].box \in deleted

\* A DNS-only run that spoke for the sender is finished.
SpokeOK == spoke # None => spoke \in Finished

\* The sessions that have written a run and will refresh the sender.
Owes(a) == job[a].stage \in Refreshing \/ (job[a].stage = "collecting" /\ job[a].touched)

HealthKnown ==
  ~behind /\ Finished # {} /\ (\A a \in Actors : ~Owes(a)) => health = Shown

ProbeInv ==
  /\ Types
  /\ \A a \in Actors : SessionOK(a) /\ RefreshOK(a)
  /\ CreatorsDiffer /\ AcceptedFinished /\ MissesKnown /\ RedKnown /\ OrphansKnown
  /\ SpokeOK /\ HealthKnown /\ rumours = {}

-----------------------------------------------------------------------------
(* Smallest and largest ids.                                               *)

\* Min(Unused) is an unused id.
LEMMA SmallestId ==
  ASSUME NEW S \in SUBSET Nat, S # {}
  PROVE  Min(S) \in S
<1>1. \E m \in S : \A n \in S : m <= n
  BY SmallestOf
<1> QED BY <1>1 DEF Min

\* The worst of some healths is one of them.
LEMMA WorstHealth ==
  ASSUME NEW S \in SUBSET Health, S # {}
  PROVE  Worst(S) \in S
<1>1. \A s \in Health : Rank[s] \in 0..3
  BY DEF Health, Rank
<1>2. \E s \in S : \A t \in S : Rank[t] <= Rank[s]
  <2>1. CASE "red" \in S
    BY <1>1, <2>1 DEF Rank, Health
  <2>2. CASE "red" \notin S /\ "yellow" \in S
    <3>1. \A t \in S : t \in {"unknown", "green", "yellow"}
      BY <2>2 DEF Health
    <3> QED BY <2>2, <3>1 DEF Rank
  <2>3. CASE "red" \notin S /\ "yellow" \notin S /\ "green" \in S
    <3>1. \A t \in S : t \in {"unknown", "green"}
      BY <2>3 DEF Health
    <3> QED BY <2>3, <3>1 DEF Rank
  <2>4. CASE "red" \notin S /\ "yellow" \notin S /\ "green" \notin S
    <3>1. S = {"unknown"}
      BY <2>4 DEF Health
    <3> QED BY <3>1 DEF Rank
  <2> QED BY <2>1, <2>2, <2>3, <2>4
<1> QED BY <1>2 DEF Worst

\* There is something to summarise once a run is finished.
LEMMA SummaryType ==
  ASSUME Types, Finished # {}
  PROVE  Summary \in Health
<1>1. Finished \subseteq Ids
  BY DEF Finished
<1>2. PICK m \in Finished : \A n \in Finished : n <= m
  BY <1>1, LargestOf, ProbeAssumption DEF Ids
<1>3. m \in Latest
  BY <1>2 DEF Latest
<1>4. {run[i].status : i \in Latest} \subseteq Health
  BY DEF Latest, Finished, Types, Run
<1>5. {run[i].status : i \in Latest} # {}
  BY <1>3
<1> QED BY <1>4, <1>5, WorstHealth DEF Summary, Health

\* The summary depends on the finished runs only.
LEMMA SummarySame ==
  ASSUME \A i \in Ids : /\ i \in Finished' <=> i \in Finished
                        /\ i \in Finished => /\ run'[i].box = run[i].box
                                             /\ run'[i].status = run[i].status
  PROVE  Finished' = Finished /\ Summary' = Summary
<1>1. Finished' = Finished /\ Finished \subseteq Ids
  BY DEF Finished
<1>2. Latest' = Latest
  BY <1>1 DEF Latest
<1>3. Latest \subseteq Finished
  BY DEF Latest
<1>4. {run'[i].status : i \in Latest} = {run[i].status : i \in Latest}
  BY <1>1, <1>3
<1> QED BY <1>1, <1>2, <1>4 DEF Summary

-----------------------------------------------------------------------------
(* What a step leaves alone.                                               *)

\* The fields of a session.
LEMMA JobFields ==
  ASSUME NEW j \in Job
  PROVE  /\ j.stage \in Stages /\ j.todo \subseteq Ids \cup Mailboxes /\ j.late \subseteq Ids
         /\ j.shut \subseteq Mailboxes /\ j.absent \subseteq Mailboxes /\ j.touched \in BOOLEAN /\ j.run \in Ids \cup {None}
         /\ j.status \in Health /\ j.before \in Health /\ j.over \in Health /\ j.tries \in Nat
         /\ j.stale \in BOOLEAN /\ j.clears \in BOOLEAN
BY DEF Job

\* A finished run is a run.
LEMMA FinishedRuns ==
  ASSUME Types
  PROVE  /\ Finished \subseteq Ids
         /\ \A i \in Ids : run[i] # None => run[i] \in Run
         /\ \A i \in Finished : run[i] \in Run /\ ~run[i].pending
BY DEF Types, Finished

\* A session that a step leaves alone still has what its stage stands on, for
\* runs are never deleted nor reopened.
LEMMA SessionKept ==
  ASSUME ProbeInv, NEW b \in Actors,
         \A i \in Ids : (run[i] # None => run'[i] # None) /\ (i \in Finished => i \in Finished'),
         deleted \subseteq deleted',
         job[b].stage = "creating" => run'[job[b].run] = None /\ mail'[job[b].run].at # "none",
         job'[b].stage = job[b].stage, job'[b].todo = job[b].todo,
         job'[b].touched = job[b].touched, job'[b].run = job[b].run,
         job'[b].absent = job[b].absent
  PROVE  SessionOK(b)'
<1>1. SessionOK(b)
  BY DEF ProbeInv
<1>2. Finished \subseteq Ids
  BY DEF Finished
<1>3. Finished # {} => Finished' # {}
  BY <1>2
<1>4. job[b].absent \subseteq deleted'
  BY <1>1 DEF SessionOK
<1> QED BY <1>1, <1>2, <1>3, <1>4 DEF SessionOK

\* Its summary and its read of the sender are as good as before.
LEMMA RefreshKept ==
  ASSUME ProbeInv, NEW b \in Actors,
         job'[b].stage = job[b].stage, job'[b].status = job[b].status,
         job'[b].before = job[b].before, job'[b].over = job[b].over,
         job[b].stage = "writing" =>
           /\ b \in current' => b \in current /\ health' = health
           /\ ~job'[b].stale => ~job[b].stale /\ Claim(b)' = Claim(b)
  PROVE  RefreshOK(b)'
<1>1. RefreshOK(b)
  BY DEF ProbeInv
<1> QED BY <1>1 DEF RefreshOK

\* No step that leaves the summary and the health alone and drops nobody's debt
\* makes the health wrong.
LEMMA HealthKept ==
  ASSUME ProbeInv, Finished' = Finished, Shown' = Shown, health' = health, behind => behind',
         \A b \in Actors : Owes(b) => Owes(b)' \/ behind'
  PROVE  HealthKnown'
BY DEF ProbeInv, HealthKnown

\* The finished runs are as they were.
RunsQuiet ==
  \A i \in Ids : /\ run[i] # None => run'[i] # None
                 /\ i \in Finished' <=> i \in Finished
                 /\ i \in Finished => run'[i] = run[i]

\* What follows for the invariants about runs.
LEMMA QuietRuns ==
  ASSUME ProbeInv, RunsQuiet, UNCHANGED absences, deleted \subseteq deleted'
  PROVE  /\ Finished' = Finished /\ Summary' = Summary
         /\ MissesKnown' /\ RedKnown' /\ OrphansKnown'
<1>1. Finished' = Finished /\ Summary' = Summary
  BY SummarySame DEF RunsQuiet
<1>2. Finished \subseteq Ids
  BY DEF Finished
<1>3. Unseen \subseteq Finished /\ Unseen' = Unseen
  BY DEF ProbeInv, MissesKnown, Unseen
<1>4. MissesKnown'
  BY <1>1, <1>2, <1>3 DEF ProbeInv, MissesKnown, RunsQuiet
<1>5. ASSUME NEW i \in Finished
      PROVE  {k \in Unseen : run'[k].box = run'[i].box} = {k \in Unseen : run[k].box = run[i].box}
  BY <1>2, <1>3 DEF RunsQuiet
<1>6. \A i \in Finished : run'[i] = run[i]
  BY <1>2 DEF RunsQuiet
<1>7. RedKnown'
  BY <1>1, <1>3, <1>5, <1>6 DEF ProbeInv, RedKnown
<1>8. OrphansKnown'
  <2>1. orphaned \subseteq Finished
    BY <1>3 DEF Unseen
  <2> QED BY <1>6, <2>1 DEF ProbeInv, OrphansKnown
<1> QED BY <1>1, <1>4, <1>7, <1>8

\* What the sender shows, and what a refresh is to write, depend on them too.
LEMMA ShownSame ==
  ASSUME ProbeInv, RunsQuiet, Summary' = Summary, spoke' = spoke
  PROVE  Shown' = Shown /\ SpokeOK'
<1>1. Finished \subseteq Ids /\ (spoke # None => spoke \in Finished)
  BY DEF Finished, ProbeInv, SpokeOK
<1>2. spoke # None => run'[spoke] = run[spoke] /\ spoke \in Finished'
  BY <1>1 DEF RunsQuiet
<1> QED BY <1>2 DEF Shown, SpokeOK

LEMMA ClaimSame ==
  ASSUME ProbeInv, RunsQuiet, Summary' = Summary, NEW b \in Actors, job[b].stage = "writing",
         job'[b].run = job[b].run
  PROVE  Claim(b)' = Claim(b)
<1>1. Finished \subseteq Ids /\ (b # Collector => job[b].run \in Finished)
  BY DEF Finished, ProbeInv, SessionOK
<1>2. b \in Triggers => b # Collector
  BY ProbeAssumption
<1>3. b \in Triggers => run'[job[b].run] = run[job[b].run]
  BY <1>1, <1>2 DEF RunsQuiet
<1> QED BY <1>3 DEF Claim

\* A step that touches no run.
LEMMA SameRuns ==
  ASSUME ProbeInv, run' = run
  PROVE  /\ RunsQuiet /\ Finished' = Finished
         /\ \A i \in Ids : (run[i] # None => run'[i] # None) /\ (i \in Finished => i \in Finished')
<1>1. Finished' = Finished
  BY DEF Finished
<1> QED BY <1>1 DEF RunsQuiet

\* The other sessions: untouched, and their runs to create still to be created.
OthersAlone(a) ==
  \A b \in Actors \ {a} :
    /\ job'[b] = job[b]
    /\ job[b].stage = "creating" => run'[job[b].run] = None /\ mail'[job[b].run].at # "none"

\* The sessions that a step leaves alone are in order after it.
LEMMA OthersKept ==
  ASSUME ProbeInv, NEW a \in Actors, OthersAlone(a), RunsQuiet, deleted \subseteq deleted',
         Summary' = Summary, current' \subseteq current \cup {a}, health' = health \/ current' = {}
  PROVE  \A b \in Actors \ {a} : SessionOK(b)' /\ RefreshOK(b)' /\ (Owes(b) => Owes(b)')
<1> SUFFICES ASSUME NEW b \in Actors \ {a}
             PROVE  SessionOK(b)' /\ RefreshOK(b)' /\ (Owes(b) => Owes(b)')
  OBVIOUS
<1>1. job'[b] = job[b] /\ b \in Actors /\ b # a
  BY DEF OthersAlone
<1>2. SessionOK(b)'
  BY <1>1, SessionKept DEF OthersAlone, RunsQuiet
<1>3. RefreshOK(b)'
  BY <1>1, RefreshKept, ClaimSame
<1>4. Owes(b) => Owes(b)'
  BY <1>1 DEF Owes
<1> QED BY <1>2, <1>3, <1>4

\* A step of one actor that writes no finished run.
LEMMA ActorStep ==
  ASSUME ProbeInv, Types', NEW a \in Actors, OthersAlone(a), RunsQuiet,
         deleted' = deleted, UNCHANGED absences, health' = health, spoke' = spoke,
         rumours' = rumours, behind => behind', current' \subseteq current \cup {a},
         SessionOK(a)', RefreshOK(a)', Owes(a) => Owes(a)' \/ behind',
         job'[a].stage = "creating" =>
           \A b \in Actors \ {a} : job[b].stage = "creating" => job[b].run # job'[a].run,
         seen' \cup answered' \subseteq Finished
  PROVE  ProbeInv'
<1>1. /\ Finished' = Finished /\ Summary' = Summary
      /\ MissesKnown' /\ RedKnown' /\ OrphansKnown'
  BY QuietRuns
<1>2. \A b \in Actors \ {a} : SessionOK(b)' /\ RefreshOK(b)' /\ (Owes(b) => Owes(b)')
  BY <1>1, OthersKept
<1>3. CreatorsDiffer'
  <2> SUFFICES ASSUME NEW b \in Actors, NEW c \in Actors, job'[b].stage = "creating",
                      job'[c].stage = "creating", b # c
               PROVE  job'[b].run # job'[c].run
    BY DEF CreatorsDiffer
  <2>1. CASE b # a /\ c # a
    BY <2>1 DEF OthersAlone, ProbeInv, CreatorsDiffer
  <2>2. CASE b = a
    BY <2>2 DEF OthersAlone
  <2>3. CASE c = a
    BY <2>3 DEF OthersAlone
  <2> QED BY <2>1, <2>2, <2>3
<1>4. AcceptedFinished'
  BY <1>1 DEF AcceptedFinished
<1>5. Shown' = Shown /\ SpokeOK'
  BY <1>1, ShownSame
<1>6. HealthKnown'
  BY <1>1, <1>2, <1>5, HealthKept
<1>7. rumours' = {}
  BY DEF ProbeInv
<1> QED BY <1>1, <1>2, <1>3, <1>4, <1>5, <1>6, <1>7 DEF ProbeInv

\* A step of the world outside: sessions change in nothing that matters.
LEMMA WorldStep ==
  ASSUME ProbeInv, Types', RunsQuiet, deleted \subseteq deleted', UNCHANGED absences,
         health' = health, spoke' = spoke, rumours' = rumours,
         behind' = behind, current' \subseteq current, seen' = seen, answered' = answered,
         \A b \in Actors :
           /\ job[b].stage = "creating" => run'[job[b].run] = None /\ mail'[job[b].run].at # "none"
           /\ job'[b].stage = job[b].stage /\ job'[b].todo = job[b].todo
           /\ job'[b].touched = job[b].touched /\ job'[b].run = job[b].run
           /\ job'[b].status = job[b].status /\ job'[b].before = job[b].before
           /\ job'[b].over = job[b].over /\ job'[b].stale = job[b].stale
           /\ job'[b].absent = job[b].absent
  PROVE  ProbeInv'
<1>1. /\ Finished' = Finished /\ Summary' = Summary
      /\ MissesKnown' /\ RedKnown' /\ OrphansKnown'
  BY QuietRuns
<1>2. ASSUME NEW b \in Actors PROVE SessionOK(b)' /\ RefreshOK(b)' /\ (Owes(b) <=> Owes(b)')
  <2>1. SessionOK(b)'
    BY SessionKept DEF RunsQuiet
  <2>2. RefreshOK(b)'
    BY <1>1, RefreshKept, ClaimSame
  <2> QED BY <2>1, <2>2 DEF Owes
<1>3. CreatorsDiffer' /\ AcceptedFinished' /\ rumours' = {}
  BY <1>1 DEF ProbeInv, CreatorsDiffer, AcceptedFinished
<1>4. Shown' = Shown /\ SpokeOK'
  BY <1>1, ShownSame
<1>5. HealthKnown'
  BY <1>1, <1>2, <1>4, HealthKept
<1> QED BY <1>1, <1>2, <1>3, <1>4, <1>5 DEF ProbeInv

-----------------------------------------------------------------------------
(* The world outside.                                                      *)

LEMMA ArriveStep ==
  ASSUME ProbeInv, NEW i \in Ids, Arrive(i)
  PROVE  ProbeInv'
<1>1. PICK o \in Observations : mail' = [mail EXCEPT ![i] = [at |-> "arrived", shows |-> o]]
  BY DEF Arrive
<1>2. Types /\ mail \in [Ids -> Mail]
  BY DEF ProbeInv, Types
<1>3. [at |-> "arrived", shows |-> o] \in Mail
  BY DEF Mail
<1>4. Types'
  BY <1>1, <1>2, <1>3 DEF Types, Arrive
<1>5. run' = run /\ RunsQuiet /\ job' = job
  BY SameRuns DEF Arrive
<1>6. ASSUME NEW b \in Actors, job[b].stage = "creating"
      PROVE  run'[job[b].run] = None /\ mail'[job[b].run].at # "none"
  <2>1. job[b].run \in Ids /\ run[job[b].run] = None /\ mail[job[b].run].at # "none"
    BY <1>6 DEF ProbeInv, SessionOK
  <2> QED BY <1>1, <1>2, <1>5, <2>1
<1> QED BY <1>4, <1>5, <1>6, WorldStep DEF Arrive

\* A fault is one of those left.
LEMMA FaultType ==
  ASSUME Types, Fault
  PROVE  faults' \in 0..MaxFaults
BY ProbeAssumption DEF Types, Fault

LEMMA ExpireStep ==
  ASSUME ProbeInv, NEW i \in Ids, Expire(i)
  PROVE  ProbeInv'
<1>0. Types /\ run[i] # None /\ run[i].pending /\ run' = [run EXCEPT ![i].expired = TRUE]
  BY DEF ProbeInv, Expire
<1>1. run[i] \in Run /\ run \in [Ids -> Run \cup {None}]
  BY <1>0 DEF Types
<1>2. run'[i] \in Run /\ run'[i].pending /\ \A k \in Ids \ {i} : run'[k] = run[k]
  BY <1>0, <1>1 DEF Run
<1>3. Types'
  BY <1>0, <1>1, <1>2 DEF Types, Expire
<1>4. run'[i] # None
  BY <1>2, NoRunAssumption
<1>5. RunsQuiet
  BY <1>0, <1>1, <1>2, <1>4 DEF RunsQuiet, Finished
<1>6. ASSUME NEW b \in Actors, job[b].stage = "creating"
      PROVE  run'[job[b].run] = None /\ mail'[job[b].run].at # "none"
  <2>1. job[b].run \in Ids /\ run[job[b].run] = None /\ mail[job[b].run].at # "none"
    BY <1>6 DEF ProbeInv, SessionOK
  <2> QED BY <1>0, <1>2, <2>1 DEF Expire
<1> QED BY <1>3, <1>5, <1>6, WorldStep DEF Expire

LEMMA IntervalElapsedStep ==
  ASSUME ProbeInv, IntervalElapsed
  PROVE  ProbeInv'
<1>1. Types'
  BY DEF ProbeInv, Types, IntervalElapsed
<1>2. RunsQuiet
  BY SameRuns DEF IntervalElapsed
<1> QED BY <1>1, <1>2, WorldStep DEF IntervalElapsed, ProbeInv, SessionOK

LEMMA UpdateSenderStep ==
  ASSUME ProbeInv, UpdateSender
  PROVE  ProbeInv'
<1>1. Types'
  BY FaultType DEF ProbeInv, Types, UpdateSender
<1>2. RunsQuiet
  BY SameRuns DEF UpdateSender
<1> QED BY <1>1, <1>2, WorldStep DEF UpdateSender, ProbeInv, SessionOK

LEMMA ChangeMailboxStep ==
  ASSUME ProbeInv, NEW b \in Mailboxes, ChangeMailbox(b)
  PROVE  ProbeInv'
<1>1. /\ enabled' \subseteq Mailboxes /\ deleted' \subseteq Mailboxes /\ deleted \subseteq deleted'
      /\ job' = job
  BY DEF ProbeInv, Types, ChangeMailbox
<1>2. Types'
  BY <1>1, FaultType DEF ProbeInv, Types, ChangeMailbox
<1>3. RunsQuiet
  BY SameRuns DEF ChangeMailbox
<1> QED BY <1>1, <1>2, <1>3, WorldStep DEF ChangeMailbox, ProbeInv, SessionOK

LEMMA ChangeConfigStep ==
  ASSUME ProbeInv, ChangeConfig
  PROVE  ProbeInv'
<1>1. RunsQuiet
  BY SameRuns DEF ChangeConfig
<1>2. Types /\ job' = [a \in Actors |-> [job[a] EXCEPT !.clears = job[a].stage = "idle"]]
  BY DEF ProbeInv, ChangeConfig
<1>3. ASSUME NEW b \in Actors
      PROVE  /\ job'[b] \in Job /\ job'[b].tries < Attempts
             /\ job'[b].stage = job[b].stage /\ job'[b].todo = job[b].todo
             /\ job'[b].touched = job[b].touched /\ job'[b].run = job[b].run
             /\ job'[b].status = job[b].status /\ job'[b].before = job[b].before
             /\ job'[b].over = job[b].over /\ job'[b].stale = job[b].stale
             /\ job'[b].absent = job[b].absent
  <2>1. job[b] \in Job /\ job[b].tries < Attempts
    BY <1>2 DEF Types
  <2>2. job'[b] = [job[b] EXCEPT !.clears = job[b].stage = "idle"]
    BY <1>2
  <2> HIDE DEF Stages
  <2> QED BY <2>1, <2>2 DEF Job
<1>4. Types'
  <2>1. job' \in [Actors -> Job]
    BY <1>2, <1>3
  <2> QED BY <1>2, <1>3, <2>1, FaultType DEF Types, ChangeConfig
<1> QED BY <1>1, <1>3, <1>4, WorldStep DEF ChangeConfig, ProbeInv, SessionOK

-----------------------------------------------------------------------------
(* Steps of one actor that write no finished run.                          *)

\* A session that is over.
LEMMA IdleJob ==
  Idle \in Job /\ Idle.tries < Attempts
BY ProbeAssumption DEF Idle, Job, Stages, Health

\* The sessions after a step of a.
LEMMA JobsType ==
  ASSUME Types, NEW a \in Actors, NEW j \in Job, j.tries < Attempts, job' = [job EXCEPT ![a] = j]
  PROVE  /\ job' \in [Actors -> Job] /\ \A b \in Actors : job'[b].tries < Attempts
         /\ job'[a] = j /\ \A b \in Actors \ {a} : job'[b] = job[b]
BY DEF Types

\* Nobody else's run or mail is touched when no run is written and no mail unsent.
LEMMA OthersUntouched ==
  ASSUME ProbeInv, NEW a \in Actors, run' = run, \A b \in Actors \ {a} : job'[b] = job[b],
         \A i \in Ids : mail[i].at # "none" => mail'[i].at # "none"
  PROVE  OthersAlone(a)
BY DEF OthersAlone, ProbeInv, SessionOK

\* An idle session stands on nothing and owes nothing.
LEMMA IdleOK ==
  ASSUME NEW a \in Actors, job'[a] = Idle
  PROVE  /\ SessionOK(a)' /\ RefreshOK(a)' /\ ~Owes(a)' /\ job'[a].stage # "creating"
BY DEF SessionOK, RefreshOK, Owes, Idle, Refreshing

LEMMA CrashStep ==
  ASSUME ProbeInv, NEW a \in Actors, Crash(a)
  PROVE  ProbeInv'
<1>0. Types /\ run' = run
  BY DEF ProbeInv, Crash
<1>1. /\ job' \in [Actors -> Job] /\ \A b \in Actors : job'[b].tries < Attempts
      /\ job'[a] = Idle /\ \A b \in Actors \ {a} : job'[b] = job[b]
  BY <1>0, JobsType, IdleJob DEF Crash
<1>2. behind' \in BOOLEAN
  <2>1. job[a].touched \in BOOLEAN /\ behind \in BOOLEAN
    BY <1>0, JobFields DEF Types
  <2> QED BY <2>1 DEF Crash
<1>3. Types'
  BY <1>0, <1>1, <1>2, FaultType DEF Types, Crash
<1>4. RunsQuiet /\ OthersAlone(a)
  BY <1>0, <1>1, SameRuns, OthersUntouched DEF Crash
<1>5. Owes(a) => behind'
  BY DEF Crash, Owes
<1>6. seen' \cup answered' \subseteq Finished
  BY DEF Crash, ProbeInv, AcceptedFinished
<1> QED BY <1>0, <1>1, <1>3, <1>4, <1>5, <1>6, IdleOK, ActorStep DEF Crash

LEMMA EnqueueStep ==
  ASSUME ProbeInv, NEW a \in Triggers, Enqueue(a)
  PROVE  ProbeInv'
<1> DEFINE n == Min(Unused)
           j == [job[a] EXCEPT !.stage = "creating", !.run = n]
<1>0. a \in Actors /\ Types /\ run' = run /\ job[a] \in Job /\ job[a].tries < Attempts
  BY DEF Actors, ProbeInv, Types, Enqueue
<1>1. n \in Ids /\ run[n] = None /\ mail[n].at = "none"
  <2>1. Unused \subseteq Nat /\ Unused # {}
    BY DEF Enqueue, Unused, Ids
  <2>2. n \in Unused
    BY <2>1, SmallestId
  <2> QED BY <2>2 DEF Unused
<1> HIDE DEF n
<1>2. j \in Job /\ j.tries < Attempts /\ j.stage = "creating" /\ j.run = n /\ j.todo = job[a].todo
  <2>1. "creating" \in Stages
    BY DEF Stages
  <2>2. j \in Job
    BY <1>0, <1>1, <2>1 DEF Job
  <2> QED BY <1>0, <2>2 DEF Job
<1>3. job' = [job EXCEPT ![a] = j] /\ mail' = [mail EXCEPT ![n].at = "sending"]
  BY DEF Enqueue, n
<1> HIDE DEF j
<1>4. /\ job' \in [Actors -> Job] /\ \A b \in Actors : job'[b].tries < Attempts
      /\ job'[a] = j /\ \A b \in Actors \ {a} : job'[b] = job[b]
  BY <1>0, <1>2, <1>3, JobsType
<1>5. mail' \in [Ids -> Mail] /\ mail'[n].at = "sending" /\ \A i \in Ids \ {n} : mail'[i] = mail[i]
  BY <1>0, <1>1, <1>3 DEF Types, Mail
<1>6. Types'
  BY <1>0, <1>4, <1>5 DEF Types, Enqueue
<1>7. \A i \in Ids : mail[i].at # "none" => mail'[i].at # "none"
  BY <1>5
<1>8. RunsQuiet /\ OthersAlone(a)
  BY <1>0, <1>4, <1>7, SameRuns, OthersUntouched DEF Enqueue
<1>9. SessionOK(a)' /\ RefreshOK(a)' /\ ~Owes(a)
  <2>1. SessionOK(a) /\ job[a].stage = "queueing"
    BY <1>0 DEF ProbeInv, Enqueue
  <2> QED BY <1>0, <1>1, <1>2, <1>4, <1>5, <2>1
          DEF SessionOK, RefreshOK, Owes, Refreshing, Enqueue
<1>10. \A b \in Actors \ {a} : job[b].stage = "creating" => job[b].run # job'[a].run
  BY <1>1, <1>2, <1>4 DEF ProbeInv, SessionOK
<1>11. seen' \cup answered' \subseteq Finished
  BY DEF Enqueue, ProbeInv, AcceptedFinished
<1> QED BY <1>0, <1>6, <1>8, <1>9, <1>10, <1>11, ActorStep DEF Enqueue

\* A run that waits for its mail.
LEMMA WaitingRun ==
  ASSUME NEW b \in Mailboxes \cup {None}
  PROVE  /\ Waiting(b) \in Run /\ Waiting(b) # None /\ Waiting(b).pending
         /\ Waiting(b).box = b /\ Waiting(b).status = "unknown" /\ ~Waiting(b).delivered
<1>1. Waiting(b) \in Run
  BY DEF Waiting, Run, Health
<1> QED BY <1>1, NoRunAssumption DEF Waiting

LEMMA CreateStep ==
  ASSUME ProbeInv, NEW a \in Triggers, Create(a)
  PROVE  ProbeInv'
<1> DEFINE n == job[a].run
<1>0. a \in Actors /\ Types /\ job[a] \in Job /\ job[a].tries < Attempts /\ a \notin Handlers
  BY ProbeAssumption DEF Actors, ProbeInv, Types, Triggers
<1>1. /\ job[a].stage = "creating" /\ job[a].todo \subseteq Mailboxes
      /\ n \in Ids /\ run[n] = None /\ job[a].absent \subseteq deleted
  BY <1>0 DEF Create, ProbeInv, SessionOK
<1>2. PICK b \in job[a].todo :
        /\ run' = [run EXCEPT ![n] = Waiting(b)]
        /\ job' = [job EXCEPT ![a] = IF job[a].todo = {b} THEN Idle
                      ELSE [job[a] EXCEPT !.stage = "queueing", !.todo = @ \ {b}, !.run = None]]
  BY DEF Create
<1> DEFINE w == Waiting(b)
           q == [job[a] EXCEPT !.stage = "queueing", !.todo = job[a].todo \ {b}, !.run = None]
           j == IF job[a].todo = {b} THEN Idle ELSE q
<1>3. w \in Run /\ w # None /\ w.pending
  BY <1>1, WaitingRun
<1>4. /\ q \in Job /\ q.tries < Attempts /\ q.stage = "queueing" /\ q.todo \subseteq Mailboxes
      /\ q.absent = job[a].absent
  <2>1. "queueing" \in Stages /\ job[a].todo \ {b} \in SUBSET (Ids \cup Mailboxes)
    BY <1>1 DEF Stages
  <2>2. q \in Job
    BY <1>0, <2>1 DEF Job
  <2> QED BY <1>0, <1>1, <2>2 DEF Job
<1>5. job' = [job EXCEPT ![a] = j]
  <2>1. CASE job[a].todo = {b}
    BY <1>2, <2>1
  <2>2. CASE job[a].todo # {b}
    BY <1>2, <2>2
  <2> QED BY <2>1, <2>2
<1> HIDE DEF w, q
<1>6. j \in Job /\ j.tries < Attempts
  BY <1>4, IdleJob
<1>7. /\ j.stage \in {"idle", "queueing"} /\ (j.stage = "queueing" => j.todo \subseteq Mailboxes)
      /\ (j.stage = "idle" => ~j.touched) /\ j.absent \subseteq deleted
  BY <1>1, <1>4 DEF Idle
<1> HIDE DEF j
<1>8. /\ job' \in [Actors -> Job] /\ \A c \in Actors : job'[c].tries < Attempts
      /\ job'[a] = j /\ \A c \in Actors \ {a} : job'[c] = job[c]
  BY <1>0, <1>5, <1>6, JobsType
<1>9. run' \in [Ids -> Run \cup {None}] /\ run'[n] = w /\ \A i \in Ids \ {n} : run'[i] = run[i]
  BY <1>0, <1>1, <1>2, <1>3 DEF Types, w
<1>10. Types'
  BY <1>0, <1>8, <1>9 DEF Types, Create
<1>11. RunsQuiet
  BY <1>1, <1>3, <1>9 DEF RunsQuiet, Finished
<1>12. OthersAlone(a)
  <2> SUFFICES ASSUME NEW c \in Actors \ {a}, job[c].stage = "creating"
               PROVE  run'[job[c].run] = None /\ mail'[job[c].run].at # "none"
    BY <1>8 DEF OthersAlone
  <2>1. job[c].run \in Ids \ {n} /\ run[job[c].run] = None /\ mail[job[c].run].at # "none"
    BY <1>0, <1>1 DEF ProbeInv, SessionOK, CreatorsDiffer
  <2> QED BY <1>9, <2>1 DEF Create
<1>13. SessionOK(a)' /\ RefreshOK(a)' /\ ~Owes(a) /\ job'[a].stage # "creating"
  BY <1>0, <1>1, <1>7, <1>8 DEF SessionOK, RefreshOK, Owes, Refreshing, Create
<1>14. seen' \cup answered' \subseteq Finished
  BY DEF Create, ProbeInv, AcceptedFinished
<1> QED BY <1>0, <1>10, <1>11, <1>12, <1>13, <1>14, ActorStep DEF Create

\* A trigger with mailboxes to write to.
LEMMA BeginStep ==
  ASSUME ProbeInv, NEW a \in Triggers, Begin(a), enabled # {}, faults' \in 0..MaxFaults
  PROVE  ProbeInv'
<1> DEFINE j == [job[a] EXCEPT !.stage = "queueing", !.todo = enabled]
<1>0. /\ a \in Actors /\ Types /\ job[a] \in Job /\ job[a].tries < Attempts /\ a \notin Handlers
      /\ enabled \subseteq Mailboxes /\ run' = run /\ current' = current
  BY ProbeAssumption DEF Actors, ProbeInv, Types, Triggers, Begin
<1>1. /\ j \in Job /\ j.tries < Attempts /\ j.stage = "queueing" /\ j.todo = enabled
      /\ j.absent = job[a].absent
  <2>1. "queueing" \in Stages /\ enabled \in SUBSET (Ids \cup Mailboxes)
    BY <1>0 DEF Stages
  <2>2. j \in Job
    BY <1>0, <2>1 DEF Job
  <2> QED BY <1>0, <2>2 DEF Job
<1>2. job' = [job EXCEPT ![a] = j] /\ job[a].stage = "idle"
  BY DEF Begin
<1> HIDE DEF j
<1>3. /\ job' \in [Actors -> Job] /\ \A b \in Actors : job'[b].tries < Attempts
      /\ job'[a] = j /\ \A b \in Actors \ {a} : job'[b] = job[b]
  BY <1>0, <1>1, <1>2, JobsType
<1>4. Types'
  BY <1>0, <1>3 DEF Types, Begin
<1>5. RunsQuiet /\ OthersAlone(a)
  BY <1>0, <1>3, SameRuns, OthersUntouched DEF Begin
<1>6. SessionOK(a)' /\ RefreshOK(a)' /\ ~Owes(a) /\ job'[a].stage # "creating"
  <2>1. job[a].absent \subseteq deleted
    BY <1>0 DEF ProbeInv, SessionOK
  <2> QED BY <1>0, <1>1, <1>2, <1>3, <2>1 DEF SessionOK, RefreshOK, Owes, Refreshing, Begin
<1>7. seen' \cup answered' \subseteq Finished
  BY DEF Begin, ProbeInv, AcceptedFinished
<1> QED BY <1>0, <1>4, <1>5, <1>6, <1>7, ActorStep DEF Begin

LEMMA CollectListStep ==
  ASSUME ProbeInv, Collect
  PROVE  ProbeInv'
<1> DEFINE pending == {i \in Ids : run[i] # None /\ run[i].pending}
<1>0. /\ Collector \in Actors /\ Types /\ job[Collector] \in Job /\ job[Collector].tries < Attempts
      /\ Collector \notin Handlers /\ run' = run
  BY ProbeAssumption DEF Actors, ProbeInv, Types, Collect
<1>1. PICK shut \in SUBSET ((Imaps \cap {run[i].box : i \in pending}) \ deleted) :
        /\ IF shut = {} THEN UNCHANGED faults ELSE Fault
        /\ job' = [job EXCEPT ![Collector] =
                     [@ EXCEPT !.stage = "collecting", !.todo = pending, !.shut = shut,
                               !.absent = deleted, !.late = TimedOut(pending)]]
  BY DEF Collect
<1> DEFINE j == [job[Collector] EXCEPT !.stage = "collecting", !.todo = pending, !.shut = shut,
                                       !.absent = deleted, !.late = TimedOut(pending)]
<1>2. job' = [job EXCEPT ![Collector] = j]
  BY <1>1
<1>3. pending \subseteq Ids /\ pending # {} /\ \A i \in pending : run[i] # None
  BY DEF Collect
<1>4. TimedOut(pending) \subseteq Ids /\ shut \subseteq Mailboxes /\ deleted \subseteq Mailboxes
  BY <1>0, <1>3 DEF TimedOut, Mailboxes, Types
<1>5. Collector \notin Triggers
  BY ProbeAssumption
<1> HIDE DEF pending
<1>6. /\ j \in Job /\ j.tries < Attempts /\ j.stage = "collecting" /\ j.todo = pending
      /\ j.touched = job[Collector].touched /\ j.absent = deleted
  <2>1. "collecting" \in Stages /\ pending \in SUBSET (Ids \cup Mailboxes)
    BY <1>3 DEF Stages
  <2>2. j \in Job
    BY <1>0, <1>4, <2>1 DEF Job
  <2> QED BY <1>0, <2>2 DEF Job
<1> HIDE DEF j
<1>7. /\ job' \in [Actors -> Job] /\ \A b \in Actors : job'[b].tries < Attempts
      /\ job'[Collector] = j /\ \A b \in Actors \ {Collector} : job'[b] = job[b]
  BY <1>0, <1>2, <1>6, JobsType
<1>8. faults' \in 0..MaxFaults
  BY <1>0, <1>1, FaultType DEF Types
<1>9. Types'
  BY <1>0, <1>7, <1>8 DEF Types, Collect
<1>10. RunsQuiet /\ OthersAlone(Collector) /\ Finished' = Finished
  BY <1>0, <1>7, SameRuns, OthersUntouched DEF Collect
<1>11. SessionOK(Collector)' /\ RefreshOK(Collector)' /\ ~Owes(Collector)
  <2>1. job[Collector].stage = "idle" /\ ~job[Collector].touched
    BY <1>0 DEF Collect, ProbeInv, SessionOK
  <2> QED BY <1>0, <1>3, <1>5, <1>6, <1>7, <2>1 DEF SessionOK, RefreshOK, Owes, Refreshing, Collect
<1>12. seen' \cup answered' \subseteq Finished
  BY DEF Collect, ProbeInv, AcceptedFinished
<1> QED BY <1>0, <1>6, <1>7, <1>9, <1>10, <1>11, <1>12, ActorStep DEF Collect

\* What the collector goes on with: the runs left, a refresh, or nothing.
LEMMA VisitedJob ==
  ASSUME ProbeInv, NEW i \in Ids, NEW t \in BOOLEAN,
         job[Collector].stage = "collecting"
  PROVE  LET j == Visited(i, t)
         IN /\ j \in Job /\ j.tries < Attempts
            /\ j.absent \subseteq deleted
            /\ \/ /\ j.stage = "collecting" /\ j.todo = job[Collector].todo \ {i}
                  /\ j.touched = (job[Collector].touched \/ t)
               \/ j.stage = "listing" /\ (job[Collector].touched \/ t)
               \/ j = Idle /\ ~(job[Collector].touched \/ t)
<1> DEFINE c == job[Collector]
           job1 == [c EXCEPT !.todo = c.todo \ {i}, !.touched = c.touched \/ t]
           job2 == [job1 EXCEPT !.stage = "listing"]
<1>0. c \in Job /\ c.tries < Attempts /\ c.touched \in BOOLEAN /\ c.absent \subseteq deleted
  BY JobFields DEF ProbeInv, Types, Actors, SessionOK
<1>1. /\ job1 \in Job /\ job1.tries < Attempts /\ job1.stage = "collecting"
      /\ job1.todo = c.todo \ {i} /\ job1.touched = (c.touched \/ t) /\ job1.absent = c.absent
  BY <1>0 DEF Job
<1>2. job2 \in Job /\ job2.tries < Attempts /\ job2.stage = "listing" /\ job2.absent = c.absent
  <2>1. "listing" \in Stages
    BY DEF Stages
  <2> HIDE DEF job1
  <2> QED BY <1>1, <2>1 DEF Job
<1>3. Visited(i, t) = IF job1.todo # {} THEN job1 ELSE IF job1.touched THEN job2 ELSE Idle
  BY DEF Visited
<1> HIDE DEF job1, job2
<1>4. CASE job1.todo # {}
  <2>1. Visited(i, t) = job1
    BY <1>3, <1>4
  <2> QED BY <2>1, <1>0, <1>1
<1>5. CASE job1.todo = {} /\ job1.touched
  <2>1. Visited(i, t) = job2
    BY <1>3, <1>5
  <2> QED BY <2>1, <1>0, <1>1, <1>2, <1>5
<1>6. CASE job1.todo = {} /\ ~job1.touched
  <2>1. Visited(i, t) = Idle
    BY <1>3, <1>6
  <2>2. Idle.absent = {}
    BY DEF Idle
  <2> QED BY <2>1, <2>2, <1>1, <1>6, IdleJob
<1> QED BY <1>4, <1>5, <1>6

LEMMA CollectNothingStep ==
  ASSUME ProbeInv, NEW i \in Ids, CollectNothing(i)
  PROVE  ProbeInv'
<1> DEFINE c == job[Collector]
           j == Visited(i, FALSE)
<1>0. /\ Collector \in Actors /\ Types /\ Collector \notin Handlers /\ run' = run
      /\ c.stage = "collecting" /\ c.touched \in BOOLEAN /\ job' = [job EXCEPT ![Collector] = j]
  BY ProbeAssumption, JobFields DEF Actors, ProbeInv, Types, CollectNothing
<1>1. /\ j \in Job /\ j.tries < Attempts /\ j.absent \subseteq deleted
      /\ \/ j.stage = "collecting" /\ j.todo = c.todo \ {i} /\ j.touched = c.touched
         \/ j.stage = "listing" /\ c.touched
         \/ j = Idle /\ ~c.touched
  BY <1>0, VisitedJob
<1> HIDE DEF j
<1>2. /\ job' \in [Actors -> Job] /\ \A b \in Actors : job'[b].tries < Attempts
      /\ job'[Collector] = j /\ \A b \in Actors \ {Collector} : job'[b] = job[b]
  BY <1>0, <1>1, JobsType
<1>3. faults' \in 0..MaxFaults
  BY <1>0, FaultType DEF Types, CollectNothing
<1>4. Types'
  BY <1>0, <1>2, <1>3 DEF Types, CollectNothing
<1>5. RunsQuiet /\ OthersAlone(Collector) /\ Finished' = Finished
  BY <1>0, <1>2, SameRuns, OthersUntouched DEF CollectNothing
<1>6. /\ SessionOK(Collector)' /\ RefreshOK(Collector)' /\ (Owes(Collector) => Owes(Collector)')
      /\ job'[Collector].stage # "creating"
  <2>1. /\ \A k \in c.todo : k \in Ids /\ run[k] # None
        /\ c.touched => Finished # {}
        /\ Collector \notin Triggers
    BY <1>0, ProbeAssumption DEF ProbeInv, SessionOK
  <2>2. CASE j = Idle /\ ~c.touched
    BY <1>0, <1>2, <2>2, IdleOK DEF Owes, Refreshing
  <2>3. CASE j.stage = "collecting" /\ j.todo = c.todo \ {i} /\ j.touched = c.touched
    BY <1>0, <1>1, <1>2, <1>5, <2>1, <2>3 DEF SessionOK, RefreshOK, Owes, Refreshing, CollectNothing
  <2>4. CASE j.stage = "listing" /\ c.touched
    BY <1>0, <1>1, <1>2, <1>5, <2>1, <2>4 DEF SessionOK, RefreshOK, Owes, Refreshing, CollectNothing
  <2> QED BY <1>1, <2>2, <2>3, <2>4
<1>7. seen' \cup answered' \subseteq Finished
  BY DEF CollectNothing, ProbeInv, AcceptedFinished
<1> QED BY <1>0, <1>4, <1>5, <1>6, <1>7, ActorStep DEF CollectNothing

LEMMA PostStep ==
  ASSUME ProbeInv, NEW h \in Handlers, NEW i \in Ids, Post(h, i)
  PROVE  ProbeInv'
<1> DEFINE j == [job[h] EXCEPT !.stage = "completing", !.run = i]
<1>0. /\ h \in Actors /\ Types /\ job[h] \in Job /\ job[h].tries < Attempts /\ run' = run
      /\ job[h].stage = "idle"
  BY DEF Actors, ProbeInv, Types, Post
<1>1. seen \cup answered \subseteq Finished /\ Finished \subseteq Ids
  BY DEF ProbeInv, AcceptedFinished, Finished
<1>2. seen' \subseteq Finished
  BY <1>1 DEF Post, Remembered, Finished
<1>3. CASE i \notin seen /\ run[i] # None /\ run[i].pending
  <2>1. job' = [job EXCEPT ![h] = j] /\ answered' = answered
    BY <1>3 DEF Post
  <2>2. /\ j \in Job /\ j.tries < Attempts /\ j.stage = "completing" /\ j.run = i
        /\ j.absent = job[h].absent
    <3>1. "completing" \in Stages
      BY DEF Stages
    <3>2. j \in Job
      BY <1>0, <3>1 DEF Job
    <3> QED BY <1>0, <3>2 DEF Job
  <2> HIDE DEF j
  <2>3. /\ job' \in [Actors -> Job] /\ \A b \in Actors : job'[b].tries < Attempts
        /\ job'[h] = j /\ \A b \in Actors \ {h} : job'[b] = job[b]
    BY <1>0, <2>1, <2>2, JobsType
  <2>4. Types'
    BY <1>0, <1>1, <1>2, <2>1, <2>3 DEF Types, Post
  <2>5. RunsQuiet /\ OthersAlone(h)
    BY <1>0, <2>1, <2>3, SameRuns, OthersUntouched DEF Post
  <2>6. job[h].absent \subseteq deleted
    BY <1>0 DEF ProbeInv, SessionOK
  <2>7. SessionOK(h)' /\ RefreshOK(h)' /\ ~Owes(h) /\ job'[h].stage # "creating"
    BY <1>0, <1>3, <2>2, <2>3, <2>6 DEF SessionOK, RefreshOK, Owes, Refreshing, Post
  <2> QED BY <1>0, <1>1, <1>2, <2>1, <2>4, <2>5, <2>7, ActorStep DEF Post
<1>4. CASE ~(i \notin seen /\ run[i] # None /\ run[i].pending)
  <2>1. /\ job' = job
        /\ answered' = IF run[i] # None THEN answered \cup {i} ELSE answered
    BY <1>4 DEF Post
  <2>2. answered' \subseteq Finished
    BY <1>1, <1>4, <2>1 DEF Finished
  <2>3. mail' = mail
    BY DEF Post
  <2>4. Types'
    BY <1>0, <1>1, <1>2, <2>1, <2>2, <2>3 DEF Types, Post
  <2>5. RunsQuiet /\ OthersAlone(h) /\ Finished' = Finished
    BY <1>0, <2>1, <2>3, SameRuns, OthersUntouched DEF Post
  <2>6. SessionOK(h)' /\ RefreshOK(h)' /\ ~Owes(h) /\ job'[h].stage # "creating"
    <3>1. SessionOK(h)
      BY <1>0 DEF ProbeInv
    <3> QED BY <1>0, <2>1, <3>1 DEF SessionOK, RefreshOK, Owes, Refreshing, Post
  <2> QED BY <1>0, <1>1, <1>2, <2>2, <2>4, <2>5, <2>6, ActorStep DEF Post
<1> QED BY <1>3, <1>4

-----------------------------------------------------------------------------
(* The refresh of the sender's health.                                     *)

\* Leaving: the session is over, and a handler's mail is accepted for a run that
\* is finished.
LEMMA Left ==
  ASSUME ProbeInv, NEW a \in Actors, Leave(a), run' = run, mail' = mail,
         job[a].stage \in {"listing", "writing", "emitting"}
  PROVE  /\ job' \in [Actors -> Job] /\ \A b \in Actors : job'[b].tries < Attempts
         /\ job'[a] = Idle /\ OthersAlone(a)
         /\ seen' \subseteq Ids /\ answered' \subseteq Ids
         /\ seen' \cup answered' \subseteq Finished
<1>0. Types /\ seen \cup answered \subseteq Finished /\ Finished \subseteq Ids
  BY DEF ProbeInv, AcceptedFinished, Finished
<1>1. /\ job' \in [Actors -> Job] /\ \A b \in Actors : job'[b].tries < Attempts
      /\ job'[a] = Idle /\ \A b \in Actors \ {a} : job'[b] = job[b]
  BY <1>0, JobsType, IdleJob DEF Leave
<1>2. seen' \cup answered' \subseteq Finished
  <2>1. CASE a \in Handlers
    <3>1. job[a].run \in Finished
      BY <2>1, ProbeAssumption DEF ProbeInv, SessionOK
    <3> QED BY <1>0, <2>1, <3>1 DEF Leave
  <2>2. CASE a \notin Handlers
    BY <1>0, <2>2 DEF Leave, Types
  <2> QED BY <2>1, <2>2
<1>3. OthersAlone(a)
  BY <1>1, OthersUntouched
<1> QED BY <1>0, <1>1, <1>2, <1>3

\* Got reads the sender.
LEMMA GotJob ==
  ASSUME Types, NEW a \in Actors, NEW s \in Health
  PROVE  /\ Got(a, s) \in Job /\ Got(a, s).stage = "writing" /\ Got(a, s).status = s
         /\ Got(a, s).before = health /\ Got(a, s).run = job[a].run
         /\ Got(a, s).stale = job[a].stale /\ Got(a, s).tries = job[a].tries
         /\ Got(a, s).touched = job[a].touched /\ Got(a, s).absent = job[a].absent
<1>1. job[a] \in Job /\ health \in Health /\ "writing" \in Stages
  BY DEF Types, Stages
<1>2. Got(a, s) \in Job
  BY <1>1 DEF Got, Job
<1> QED BY <1>1, <1>2 DEF Got, Job

LEMMA ListStep ==
  ASSUME ProbeInv, NEW a \in Actors, List(a)
  PROVE  ProbeInv'
<1> DEFINE j == Got(a, Summary)
<1>0. Types /\ run' = run /\ job[a].stage = "listing" /\ job[a].tries < Attempts
  BY DEF ProbeInv, Types, List
<1>1. /\ Finished # {} /\ (a # Collector => job[a].run \in Finished)
      /\ a \notin Triggers /\ job[a].absent \subseteq deleted
  BY <1>0 DEF ProbeInv, SessionOK
<1>2. Summary \in Health
  BY <1>0, <1>1, SummaryType
<1>3. /\ j \in Job /\ j.stage = "writing" /\ j.status = Summary /\ j.before = health
      /\ j.run = job[a].run /\ j.tries = job[a].tries /\ j.absent = job[a].absent
  BY <1>0, <1>2, GotJob
<1>4. job' = [job EXCEPT ![a] = j]
  BY DEF List, Summary
<1> HIDE DEF j
<1>5. /\ job' \in [Actors -> Job] /\ \A b \in Actors : job'[b].tries < Attempts
      /\ job'[a] = j /\ \A b \in Actors \ {a} : job'[b] = job[b]
  BY <1>0, <1>3, <1>4, JobsType
<1>6. Types'
  BY <1>0, <1>5 DEF Types, List
<1>7. RunsQuiet /\ OthersAlone(a) /\ Finished' = Finished
  BY <1>0, <1>5, SameRuns, OthersUntouched DEF List
<1>8. Summary' = Summary
  BY <1>7, QuietRuns DEF List
<1>9. SessionOK(a)' /\ RefreshOK(a)' /\ Owes(a)' /\ job'[a].stage # "creating"
  BY <1>1, <1>3, <1>5, <1>7, <1>8 DEF SessionOK, RefreshOK, Claim, Owes, Refreshing, List
<1>10. seen' \cup answered' \subseteq Finished
  BY DEF List, ProbeInv, AcceptedFinished
<1> QED BY <1>6, <1>7, <1>9, <1>10, ActorStep DEF List

LEMMA WriteStep ==
  ASSUME ProbeInv, NEW a \in Actors, Write(a)
  PROVE  ProbeInv'
<1> DEFINE j == [job[a] EXCEPT !.stage = "emitting", !.over = health]
<1>0. /\ Types /\ run' = run /\ mail' = mail /\ UNCHANGED <<config, absences>>
      /\ job[a].stage = "writing" /\ a \in current
      /\ job[a] \in Job /\ job[a].tries < Attempts /\ health \in Health
  BY DEF ProbeInv, Types, Write, UpToDate
<1>1. /\ job[a].before = health /\ (~job[a].stale => job[a].status = Claim(a))
      /\ (a # Collector => job[a].run \in Finished) /\ job[a].absent \subseteq deleted
  BY <1>0 DEF ProbeInv, RefreshOK, SessionOK
<1>2. RunsQuiet /\ Finished' = Finished
  BY <1>0, SameRuns
<1>3. /\ Finished' = Finished /\ Summary' = Summary
      /\ MissesKnown' /\ RedKnown' /\ OrphansKnown'
  BY <1>0, <1>2, QuietRuns
<1>4. /\ job' \in [Actors -> Job] /\ \A b \in Actors : job'[b].tries < Attempts
      /\ OthersAlone(a) /\ seen' \subseteq Ids /\ answered' \subseteq Ids
      /\ seen' \cup answered' \subseteq Finished
      /\ SessionOK(a)' /\ RefreshOK(a)' /\ job'[a].stage # "creating"
  <2>1. CASE job[a].before = job[a].status
    <3>1. Leave(a)
      BY <2>1 DEF Write
    <3> QED BY <1>0, <3>1, Left, IdleOK
  <2>2. CASE job[a].before # job[a].status
    <3>1. job' = [job EXCEPT ![a] = j] /\ seen' = seen /\ answered' = answered
      BY <2>2 DEF Write
    <3>2. /\ j \in Job /\ j.tries < Attempts /\ j.stage = "emitting" /\ j.over = health
          /\ j.before = job[a].before /\ j.run = job[a].run /\ j.absent = job[a].absent
      <4>1. "emitting" \in Stages
        BY DEF Stages
      <4>2. j \in Job
        BY <1>0, <4>1 DEF Job
      <4> QED BY <1>0, <4>2 DEF Job
    <3> HIDE DEF j
    <3>3. /\ job' \in [Actors -> Job] /\ \A b \in Actors : job'[b].tries < Attempts
          /\ job'[a] = j /\ \A b \in Actors \ {a} : job'[b] = job[b]
      BY <1>0, <3>1, <3>2, JobsType
    <3>4. OthersAlone(a)
      BY <1>0, <3>1, <3>3, OthersUntouched
    <3>5. SessionOK(a)' /\ RefreshOK(a)' /\ job'[a].stage # "creating"
      BY <1>0, <1>1, <1>2, <3>2, <3>3 DEF SessionOK, RefreshOK
    <3> QED BY <1>0, <3>1, <3>3, <3>4, <3>5 DEF Types, ProbeInv, AcceptedFinished
  <2> QED BY <2>1, <2>2
<1>5. /\ health' = job[a].status /\ current' = {} /\ behind' = job[a].stale /\ due' \in BOOLEAN
      /\ spoke' = IF a \in Triggers THEN job[a].run ELSE None
  BY DEF Write
<1>6. Types'
  <2>1. health' \in Health /\ behind' \in BOOLEAN /\ spoke' \in Ids \cup {None}
    BY <1>0, <1>5, JobFields
  <2> QED BY <1>0, <1>4, <1>5, <2>1 DEF Types, Write
<1>7. \A b \in Actors \ {a} : SessionOK(b)' /\ RefreshOK(b)'
  BY <1>0, <1>2, <1>3, <1>4, <1>5, OthersKept
<1>8. CreatorsDiffer'
  BY <1>4 DEF ProbeInv, CreatorsDiffer, OthersAlone
<1>9. AcceptedFinished' /\ rumours' = {}
  BY <1>2, <1>4 DEF AcceptedFinished, ProbeInv, Write
<1>10. SpokeOK'
  <2>1. a \in Triggers => a # Collector
    BY ProbeAssumption
  <2> QED BY <1>1, <1>2, <1>5, <2>1 DEF SpokeOK
<1>11. HealthKnown'
  <2>1. CASE spoke' = None /\ a \notin Triggers
    BY <1>0, <1>1, <1>3, <1>5, <2>1 DEF HealthKnown, Shown, Claim
  <2>2. CASE a \in Triggers /\ spoke' # None
    BY <1>0, <1>1, <1>3, <1>5, <2>2 DEF HealthKnown, Shown, Claim
  <2>3. a \in Triggers => spoke' # None
    BY <1>0, <1>1, <1>5, ProbeAssumption DEF Finished
  <2> QED BY <1>5, <2>1, <2>2, <2>3
<1> QED BY <1>2, <1>3, <1>4, <1>6, <1>7, <1>8, <1>9, <1>10, <1>11 DEF ProbeInv

LEMMA ConflictStep ==
  ASSUME ProbeInv, NEW a \in Actors, Conflict(a)
  PROVE  ProbeInv'
<1> DEFINE g == Got(a, job[a].status)
           j == [g EXCEPT !.tries = g.tries + 1]
<1>0. /\ Types /\ run' = run /\ mail' = mail /\ UNCHANGED <<config, absences, spoke>>
      /\ job[a].stage = "writing" /\ health' = health /\ rumours' = rumours
      /\ job[a] \in Job /\ job[a].tries < Attempts /\ health \in Health /\ job[a].status \in Health
  BY JobFields DEF ProbeInv, Types, Conflict
<1>1. RunsQuiet /\ Finished' = Finished
  BY <1>0, SameRuns
<1>2. Summary' = Summary
  BY <1>0, <1>1, QuietRuns
<1>3. CASE MayRetry(a)
  <2>1. /\ job' = [job EXCEPT ![a] = j] /\ current' = current \cup {a} /\ behind' = behind
        /\ seen' = seen /\ answered' = answered
    BY <1>3 DEF Conflict
  <2>2. /\ g \in Job /\ g.stage = "writing" /\ g.status = job[a].status /\ g.before = health
        /\ g.run = job[a].run /\ g.stale = job[a].stale /\ g.tries = job[a].tries
        /\ g.absent = job[a].absent
    BY <1>0, GotJob
  <2> HIDE DEF g
  <2>3. g.tries + 1 \in Nat /\ g.tries + 1 < Attempts
    BY <1>0, <1>3, <2>2 DEF MayRetry, Job
  <2>4. /\ j \in Job /\ j.tries < Attempts /\ j.stage = "writing" /\ j.status = job[a].status
        /\ j.before = health /\ j.run = job[a].run /\ j.stale = job[a].stale
        /\ j.absent = job[a].absent
    <3>1. j \in Job
      BY <2>2, <2>3 DEF Job
    <3> QED BY <2>2, <2>3, <3>1 DEF Job
  <2> HIDE DEF j
  <2>5. /\ job' \in [Actors -> Job] /\ \A b \in Actors : job'[b].tries < Attempts
        /\ job'[a] = j /\ \A b \in Actors \ {a} : job'[b] = job[b]
    BY <1>0, <2>1, <2>4, JobsType
  <2>6. Types'
    BY <1>0, <2>1, <2>5 DEF Types, Conflict
  <2>7. OthersAlone(a)
    BY <1>0, <2>1, <2>5, OthersUntouched
  <2>8. SessionOK(a)' /\ RefreshOK(a)' /\ Owes(a)' /\ job'[a].stage # "creating"
    <3>1. SessionOK(a) /\ RefreshOK(a)
      BY DEF ProbeInv
    <3>2. Claim(a)' = Claim(a)
      BY <1>0, <1>1, <1>2, <2>4, <2>5, ClaimSame
    <3> QED BY <1>0, <1>1, <1>2, <2>4, <2>5, <3>1, <3>2 DEF SessionOK, RefreshOK, Owes, Refreshing
  <2>9. seen' \cup answered' \subseteq Finished
    BY <2>1 DEF ProbeInv, AcceptedFinished
  <2> QED BY <1>0, <1>1, <2>1, <2>6, <2>7, <2>8, <2>9, ActorStep
<1>4. CASE ~MayRetry(a)
  <2>1. Leave(a) /\ behind' = TRUE /\ current' = current
    BY <1>4 DEF Conflict
  <2>2. /\ job' \in [Actors -> Job] /\ \A b \in Actors : job'[b].tries < Attempts
        /\ job'[a] = Idle /\ OthersAlone(a) /\ seen' \subseteq Ids /\ answered' \subseteq Ids
        /\ seen' \cup answered' \subseteq Finished
    BY <1>0, <2>1, Left
  <2>3. Types'
    BY <1>0, <2>1, <2>2 DEF Types, Conflict
  <2> QED BY <1>0, <1>1, <2>1, <2>2, <2>3, IdleOK, ActorStep
<1> QED BY <1>3, <1>4

LEMMA EmitStep ==
  ASSUME ProbeInv, NEW a \in Actors, Emit(a)
  PROVE  ProbeInv'
<1>0. /\ Types /\ run' = run /\ mail' = mail /\ UNCHANGED <<config, absences, spoke>>
      /\ job[a].stage = "emitting" /\ Leave(a) /\ current' = current
  BY DEF ProbeInv, Emit
<1>1. RunsQuiet
  BY <1>0, SameRuns
<1>2. /\ job' \in [Actors -> Job] /\ \A b \in Actors : job'[b].tries < Attempts
      /\ job'[a] = Idle /\ OthersAlone(a) /\ seen' \subseteq Ids /\ answered' \subseteq Ids
      /\ seen' \cup answered' \subseteq Finished
  BY <1>0, Left
<1>3. Types'
  BY <1>0, <1>2 DEF Types, Emit
<1>4. rumours' = rumours /\ ~Owes(a)
  BY <1>0 DEF ProbeInv, RefreshOK, Emit, Owes, Refreshing
<1> QED BY <1>0, <1>1, <1>2, <1>3, <1>4, IdleOK, ActorStep DEF Emit

LEMMA RefreshFailsStep ==
  ASSUME ProbeInv, NEW a \in Actors, RefreshFails(a)
  PROVE  ProbeInv'
<1>0. /\ Types /\ run' = run /\ mail' = mail /\ UNCHANGED <<config, absences, spoke>>
      /\ job[a].stage \in {"listing", "writing", "emitting"} /\ Leave(a) /\ current' \subseteq current
  BY DEF ProbeInv, RefreshFails, Refreshing
<1>1. RunsQuiet
  BY <1>0, SameRuns
<1>2. /\ job' \in [Actors -> Job] /\ \A b \in Actors : job'[b].tries < Attempts
      /\ job'[a] = Idle /\ OthersAlone(a) /\ seen' \subseteq Ids /\ answered' \subseteq Ids
      /\ seen' \cup answered' \subseteq Finished
  BY <1>0, Left
<1>3. behind' \in BOOLEAN /\ (behind => behind') /\ (Owes(a) => behind')
  BY <1>0 DEF RefreshFails, Owes, Refreshing, Types
<1>4. Types'
  BY <1>0, <1>2, <1>3, FaultType DEF Types, RefreshFails
<1> QED BY <1>0, <1>1, <1>2, <1>3, <1>4, IdleOK, ActorStep DEF RefreshFails

-----------------------------------------------------------------------------
(* Steps that finish a run.                                                *)

\* A session but for the note that its summary is out of date.
SameButStale(b) ==
  /\ job'[b].stage = job[b].stage /\ job'[b].todo = job[b].todo
  /\ job'[b].touched = job[b].touched /\ job'[b].run = job[b].run
  /\ job'[b].status = job[b].status /\ job'[b].before = job[b].before
  /\ job'[b].over = job[b].over /\ job'[b].absent = job[b].absent
  /\ job[b].stage = "writing" => job'[b].stale

LEMMA OutdatedJobs ==
  ASSUME Types, NEW a \in Actors, NEW j \in Job, j.tries < Attempts, job' = Outdated(a, j)
  PROVE  /\ job' \in [Actors -> Job] /\ \A b \in Actors : job'[b].tries < Attempts
         /\ job'[a] = j /\ \A b \in Actors \ {a} : SameButStale(b)
<1>1. job'[a] = j
  BY DEF Outdated
<1>2. ASSUME NEW b \in Actors \ {a}
      PROVE  job'[b] \in Job /\ job'[b].tries < Attempts /\ SameButStale(b)
  <2>1. job[b] \in Job /\ job[b].tries < Attempts /\ job[b].stale \in BOOLEAN
    BY JobFields DEF Types
  <2>2. job'[b] = [job[b] EXCEPT !.stale = job[b].stale \/ job[b].stage = "writing"]
    BY DEF Outdated
  <2>3. job'[b] \in Job
    BY <2>1, <2>2 DEF Job
  <2> QED BY <2>1, <2>2, <2>3 DEF Job, SameButStale
<1>3. job' = [b \in Actors |-> job'[b]]
  BY DEF Outdated
<1> QED BY <1>1, <1>2, <1>3

\* Who finishes a run owes the refresh, or it is lost and the health falls behind,
\* so the health need not be known; the other sessions know at most that their
\* summary is out of date.
LEMMA RunStep ==
  ASSUME ProbeInv, Types', NEW a \in Actors, NEW i \in Ids, NEW r \in Run, ~r.pending,
         run' = [run EXCEPT ![i] = r],
         \A b \in Actors \ {a} : SameButStale(b) /\ (job[b].stage = "creating" => job[b].run # i),
         \A k \in Ids : mail[k].at # "none" => mail'[k].at # "none",
         deleted' = deleted, health' = health, spoke' = spoke, rumours' = rumours, seen' = seen,
         answered' = answered, current' \subseteq current \cup {a},
         SessionOK(a)', RefreshOK(a)', Owes(a)' \/ behind', job'[a].stage # "creating",
         MissesKnown', RedKnown', OrphansKnown'
  PROVE  ProbeInv'
<1>0. Types /\ r # None /\ run \in [Ids -> Run \cup {None}]
  BY NoRunAssumption DEF ProbeInv, Types
<1>1. run'[i] = r /\ \A k \in Ids \ {i} : run'[k] = run[k]
  BY <1>0
<1>2. \A k \in Ids : (run[k] # None => run'[k] # None) /\ (k \in Finished => k \in Finished')
  BY <1>0, <1>1 DEF Finished
<1>3. ASSUME NEW b \in Actors \ {a} PROVE SessionOK(b)' /\ RefreshOK(b)'
  <2>1. SessionOK(b)'
    <3>1. ASSUME job[b].stage = "creating"
          PROVE  run'[job[b].run] = None /\ mail'[job[b].run].at # "none"
      <4>1. job[b].run \in Ids \ {i} /\ run[job[b].run] = None /\ mail[job[b].run].at # "none"
        BY <3>1 DEF ProbeInv, SessionOK
      <4> QED BY <1>1, <4>1
    <3> QED BY <1>2, <3>1, SessionKept DEF SameButStale
  <2>2. RefreshOK(b)'
    BY RefreshKept DEF SameButStale
  <2> QED BY <2>1, <2>2
<1>4. CreatorsDiffer'
  BY DEF ProbeInv, CreatorsDiffer, SameButStale
<1>5. AcceptedFinished' /\ rumours' = {}
  <2>1. Finished \subseteq Ids /\ seen \cup answered \subseteq Finished
    BY DEF Finished, ProbeInv, AcceptedFinished
  <2> QED BY <1>2, <2>1 DEF ProbeInv, AcceptedFinished
<1>6. HealthKnown'
  BY DEF HealthKnown
<1>7. SpokeOK'
  <2>1. spoke # None => spoke \in Finished /\ spoke \in Ids
    BY DEF ProbeInv, SpokeOK, Finished
  <2> QED BY <1>2, <2>1 DEF SpokeOK
<1> QED BY <1>3, <1>4, <1>5, <1>6, <1>7 DEF ProbeInv

\* There are finitely many ids.
LEMMA IdsFinite ==
  ASSUME NEW S \in SUBSET Ids
  PROVE  IsFiniteSet(S) /\ Cardinality(S) \in Nat
<1>1. 1 \in Int /\ MaxRuns \in Int
  BY ProbeAssumption
<1>2. IsFiniteSet(Ids)
  BY <1>1, FS_Interval DEF Ids
<1>3. IsFiniteSet(S)
  BY <1>2, FS_Subset
<1> QED BY <1>3, FS_CardinalityType

\* What was missed stays on its mailbox, so a red run keeps its misses.
LEMMA MissesKept ==
  ASSUME ProbeInv, NEW i \in Ids, NEW r \in Run, ~r.pending, run' = [run EXCEPT ![i] = r],
         run[i] # None => r.box = run[i].box, Unseen' \in {Unseen, Unseen \cup {i}},
         \/ r.delivered \/ r.status = "unknown" \/ r.box = None
         \/ /\ i \in Unseen'
            /\ r.status = "red" =>
                 Cardinality({k \in Unseen' : run'[k].box = r.box}) >= FailuresForRed
  PROVE  MissesKnown' /\ RedKnown'
<1>0. Types /\ r # None /\ run \in [Ids -> Run \cup {None}] /\ Unseen \subseteq Finished
  BY NoRunAssumption DEF ProbeInv, Types, MissesKnown
<1>1. run'[i] = r /\ \A k \in Ids \ {i} : run'[k] = run[k]
  BY <1>0
<1>2. Finished' = Finished \cup {i} /\ Finished \subseteq Ids
  BY <1>0, <1>1 DEF Finished
<1>3. Unseen' \subseteq Finished' /\ Unseen \subseteq Unseen'
  BY <1>0, <1>2
<1>4. MissesKnown'
  <2> SUFFICES ASSUME NEW k \in Finished', ~run'[k].delivered, run'[k].status # "unknown",
                      run'[k].box # None
               PROVE  k \in Unseen'
    BY <1>3 DEF MissesKnown
  <2>1. CASE k = i
    BY <1>1, <2>1
  <2>2. CASE k # i
    <3>1. k \in Finished /\ run'[k] = run[k]
      BY <1>1, <1>2, <2>2
    <3> QED BY <1>3, <3>1 DEF ProbeInv, MissesKnown
  <2> QED BY <2>1, <2>2
<1>5. \A k \in Unseen : run'[k].box = run[k].box
  <2>1. \A k \in Unseen : k \in Ids /\ run[k] # None
    BY <1>0 DEF Finished
  <2> QED BY <1>1, <2>1
<1>6. RedKnown'
  <2> SUFFICES ASSUME NEW k \in Finished', run'[k].status = "red", ~run'[k].delivered,
                      run'[k].box # None
               PROVE  Cardinality({l \in Unseen' : run'[l].box = run'[k].box}) >= FailuresForRed
    BY DEF RedKnown
  <2>1. CASE k = i
    BY <1>1, <2>1
  <2>2. CASE k # i
    <3> DEFINE B == run[k].box
               S == {l \in Unseen : run[l].box = B}
               T == {l \in Unseen' : run'[l].box = B}
    <3>1. k \in Finished /\ run'[k] = run[k]
      BY <1>1, <1>2, <2>2
    <3>2. Cardinality(S) >= FailuresForRed
      BY <3>1 DEF ProbeInv, RedKnown
    <3>3. S \subseteq T
      BY <1>3, <1>5
    <3>4. T \subseteq Ids
      BY <1>2, <1>3
    <3>5. /\ IsFiniteSet(T) /\ Cardinality(T) \in Nat
          /\ IsFiniteSet(S) /\ Cardinality(S) \in Nat
      BY <3>3, <3>4, IdsFinite
    <3>6. Cardinality(S) <= Cardinality(T)
      BY <3>3, <3>5, FS_Subset
    <3>7. Cardinality(T) >= FailuresForRed
      BY <3>2, <3>5, <3>6, ProbeAssumption
    <3> QED BY <3>1, <3>7
  <2> QED BY <2>1, <2>2
<1> QED BY <1>4, <1>6

\* Nor does a run that a deleted mailbox orphaned leave it.
LEMMA OrphansKept ==
  ASSUME ProbeInv, NEW i \in Ids, NEW r \in Run, run' = [run EXCEPT ![i] = r],
         run[i] # None => r.box = run[i].box, deleted' = deleted,
         \/ orphaned' = orphaned
         \/ orphaned' = orphaned \cup {i} /\ r.box \in deleted
  PROVE  OrphansKnown'
<1>1. /\ run \in [Ids -> Run \cup {None}] /\ OrphansKnown
      /\ \A k \in orphaned : k \in Ids /\ run[k] # None
  BY DEF ProbeInv, Types, MissesKnown, Unseen, Finished
<1>2. run'[i] = r /\ \A k \in Ids \ {i} : run'[k] = run[k]
  BY <1>1
<1>3. \A k \in orphaned : run'[k].box \in deleted
  BY <1>1, <1>2 DEF OrphansKnown
<1> QED BY <1>2, <1>3 DEF OrphansKnown

\* A completed run has its mail.
LEMMA CompletedRun ==
  ASSUME NEW i \in Ids, run[i] \in Run
  PROVE  /\ Completed(i) \in Run /\ ~Completed(i).pending /\ Completed(i).delivered
         /\ Completed(i).box = run[i].box
<1>1. Verdict(mail[i].shows) \in Health
  BY DEF Verdict, Health
<1>2. (IF Verdict(mail[i].shows) = "green" /\ dns = "red" THEN "yellow"
       ELSE Verdict(mail[i].shows)) \in Health
  BY <1>1 DEF Health
<1> QED BY <1>2 DEF Completed, Run

LEMMA CompleteStep ==
  ASSUME ProbeInv, NEW h \in Handlers, Complete(h)
  PROVE  ProbeInv'
<1> DEFINE i == job[h].run
           r == Completed(i)
           j == [job[h] EXCEPT !.stage = "listing"]
<1>0. /\ h \in Actors /\ Types /\ job[h] \in Job /\ job[h].tries < Attempts
      /\ job[h].stage = "completing"
  BY DEF Actors, ProbeInv, Types, Complete
<1>1. /\ i \in Ids /\ run[i] # None /\ run[i] \in Run
      /\ h \notin Triggers /\ job[h].absent \subseteq deleted
  BY <1>0, ProbeAssumption DEF ProbeInv, SessionOK, Types
<1>2. r \in Run /\ ~r.pending /\ r.delivered /\ r.box = run[i].box /\ r # None
  BY <1>1, CompletedRun, NoRunAssumption
<1>3. /\ j \in Job /\ j.tries < Attempts /\ j.stage = "listing" /\ j.run = i
      /\ j.absent = job[h].absent
  <2>1. "listing" \in Stages
    BY DEF Stages
  <2>2. j \in Job
    BY <1>0, <2>1 DEF Job
  <2> QED BY <1>0, <2>2 DEF Job
<1>4. run' = [run EXCEPT ![i] = r] /\ job' = Outdated(h, j)
  BY DEF Complete
<1> HIDE DEF i, r, j
<1>5. /\ job' \in [Actors -> Job] /\ \A b \in Actors : job'[b].tries < Attempts
      /\ job'[h] = j /\ \A b \in Actors \ {h} : SameButStale(b)
  BY <1>0, <1>3, <1>4, OutdatedJobs
<1>6. run' \in [Ids -> Run \cup {None}] /\ i \in Finished'
  BY <1>0, <1>1, <1>2, <1>4 DEF Types, Finished
<1>7. Types'
  BY <1>0, <1>5, <1>6 DEF Types, Complete
<1>8. MissesKnown' /\ RedKnown'
  BY <1>1, <1>2, <1>4, MissesKept DEF Complete, Unseen
<1>9. OrphansKnown' /\ deleted' = deleted
  BY <1>1, <1>2, <1>4, OrphansKept DEF Complete
<1>10. SessionOK(h)' /\ RefreshOK(h)' /\ Owes(h)' /\ job'[h].stage # "creating"
  BY <1>1, <1>3, <1>5, <1>6, <1>9 DEF SessionOK, RefreshOK, Owes, Refreshing
<1>11. \A b \in Actors \ {h} : job[b].stage = "creating" => job[b].run # i
  BY <1>1 DEF ProbeInv, SessionOK
<1> QED BY <1>0, <1>1, <1>2, <1>4, <1>5, <1>7, <1>8, <1>9, <1>10, <1>11, RunStep DEF Complete

LEMMA DeferStep ==
  ASSUME ProbeInv, NEW h \in Handlers, Defer(h)
  PROVE  ProbeInv'
<1> DEFINE i == job[h].run
           r == Completed(i)
<1>0. /\ h \in Actors /\ Types /\ job[h].stage = "completing" /\ faults' \in 0..MaxFaults
  BY FaultType DEF Actors, ProbeInv, Defer
<1>1. CASE job' = [job EXCEPT ![h] = Idle] /\ UNCHANGED <<run, behind>>
  <2>1. /\ job' \in [Actors -> Job] /\ \A b \in Actors : job'[b].tries < Attempts
        /\ job'[h] = Idle /\ \A b \in Actors \ {h} : job'[b] = job[b]
    BY <1>0, <1>1, JobsType, IdleJob
  <2>2. Types'
    BY <1>0, <1>1, <2>1 DEF Types, Defer
  <2>3. RunsQuiet /\ OthersAlone(h)
    BY <1>0, <1>1, <2>1, SameRuns, OthersUntouched DEF Defer
  <2>4. ~Owes(h)
    BY <1>0 DEF Owes, Refreshing
  <2>5. seen' \cup answered' \subseteq Finished
    BY DEF Defer, ProbeInv, AcceptedFinished
  <2> QED BY <1>0, <1>1, <2>1, <2>2, <2>3, <2>4, <2>5, IdleOK, ActorStep DEF Defer
<1>2. CASE run' = [run EXCEPT ![i] = r] /\ job' = Outdated(h, Idle) /\ behind' = TRUE
  <2>1. i \in Ids /\ run[i] # None /\ run[i] \in Run
    BY <1>0 DEF ProbeInv, SessionOK, Types
  <2>2. r \in Run /\ ~r.pending /\ r.delivered /\ r.box = run[i].box /\ r # None
    BY <2>1, CompletedRun, NoRunAssumption
  <2>3. run' = [run EXCEPT ![i] = r]
    BY <1>2
  <2> HIDE DEF i, r
  <2>4. /\ job' \in [Actors -> Job] /\ \A b \in Actors : job'[b].tries < Attempts
        /\ job'[h] = Idle /\ \A b \in Actors \ {h} : SameButStale(b)
    BY <1>0, <1>2, IdleJob, OutdatedJobs
  <2>5. run' \in [Ids -> Run \cup {None}]
    BY <1>0, <2>1, <2>2, <2>3 DEF Types
  <2>6. Types'
    BY <1>0, <1>2, <2>4, <2>5 DEF Types, Defer
  <2>7. MissesKnown' /\ RedKnown'
    BY <2>1, <2>2, <2>3, MissesKept DEF Defer, Unseen
  <2>8. OrphansKnown' /\ deleted' = deleted
    BY <2>1, <2>2, <2>3, OrphansKept DEF Defer
  <2>9. \A b \in Actors \ {h} : job[b].stage = "creating" => job[b].run # i
    BY <2>1 DEF ProbeInv, SessionOK
  <2>10. /\ UNCHANGED <<health, spoke, rumours, seen, answered, current>>
         /\ \A k \in Ids : mail[k].at # "none" => mail'[k].at # "none"
    BY DEF Defer
  <2>11. SessionOK(h)' /\ RefreshOK(h)' /\ job'[h].stage # "creating" /\ behind'
    BY <1>0, <1>2, <2>4, IdleOK
  <2> QED BY <1>0, <2>1, <2>2, <2>3, <2>4, <2>6, <2>7, <2>8, <2>9, <2>10, <2>11, RunStep
<1> QED BY <1>1, <1>2 DEF Defer

\* A pass of the collector over a run, with the run it leaves.
LEMMA CollectedStep ==
  ASSUME ProbeInv, NEW i \in Ids, NEW r \in Run, ~r.pending, run' = [run EXCEPT ![i] = r],
         job[Collector].stage = "collecting", i \in job[Collector].todo,
         NEW t \in BOOLEAN, job' = Outdated(Collector, Visited(i, t)), t \/ behind', mail' \in [Ids -> Mail],
         \A k \in Ids : mail[k].at # "none" => mail'[k].at # "none",
         missed' \subseteq Ids, orphaned' \subseteq Ids, faults' \in 0..MaxFaults,
         behind' \in BOOLEAN, MissesKnown', RedKnown', OrphansKnown',
         UNCHANGED <<config, health, spoke, due, current, seen, answered, rumours>>
  PROVE  ProbeInv'
<1> DEFINE c == job[Collector]
           j == Visited(i, t)
<1>0. Collector \in Actors /\ Types /\ Collector \notin Handlers /\ c.touched \in BOOLEAN
  BY ProbeAssumption, JobFields DEF Actors, ProbeInv, Types
<1>1. /\ \A k \in c.todo : k \in Ids /\ run[k] # None
      /\ Collector \notin Triggers
  BY <1>0, ProbeAssumption DEF ProbeInv, SessionOK
<1>2. /\ j \in Job /\ j.tries < Attempts
      /\ j.absent \subseteq deleted
      /\ \/ j.stage = "collecting" /\ j.todo = c.todo \ {i} /\ (t => j.touched)
         \/ j.stage = "listing"
         \/ j = Idle /\ ~t
      /\ job' = Outdated(Collector, j)
  BY VisitedJob
<1> HIDE DEF j
<1>3. /\ job' \in [Actors -> Job] /\ \A b \in Actors : job'[b].tries < Attempts
      /\ job'[Collector] = j /\ \A b \in Actors \ {Collector} : SameButStale(b)
  BY <1>0, <1>2, OutdatedJobs
<1>4. run' \in [Ids -> Run \cup {None}] /\ i \in Finished' /\ \A k \in Ids \ {i} : run'[k] = run[k]
  BY <1>0, NoRunAssumption DEF Types, Finished
<1>5. Types'
  BY <1>0, <1>3, <1>4 DEF Types
<1>6. \A k \in c.todo \ {i} : k \in Ids /\ run'[k] # None
  BY <1>1, <1>4
<1>7. /\ SessionOK(Collector)' /\ RefreshOK(Collector)' /\ (Owes(Collector)' \/ behind')
      /\ job'[Collector].stage # "creating"
  <2>1. CASE j = Idle /\ ~t
    BY <1>0, <1>3, <2>1, IdleOK
  <2>2. CASE j.stage = "collecting" /\ j.todo = c.todo \ {i} /\ (t => j.touched)
    BY <1>0, <1>1, <1>2, <1>3, <1>4, <1>6, <2>2 DEF SessionOK, RefreshOK, Owes, Refreshing
  <2>3. CASE j.stage = "listing"
    BY <1>0, <1>1, <1>2, <1>3, <1>4, <2>3 DEF SessionOK, RefreshOK, Owes, Refreshing
  <2> QED BY <1>2, <2>1, <2>2, <2>3
<1>8. \A b \in Actors \ {Collector} : job[b].stage = "creating" => job[b].run # i
  BY <1>1 DEF ProbeInv, SessionOK
<1> QED BY <1>0, <1>3, <1>5, <1>7, <1>8, RunStep

\* The run that a found mail leaves.
LEMMA FoundRun ==
  ASSUME ProbeInv, NEW i \in Ids, job[Collector].stage = "collecting", i \in job[Collector].todo,
         run' = [run EXCEPT ![i] = Completed(i)], UNCHANGED <<config, absences>>
  PROVE  /\ Completed(i) \in Run /\ ~Completed(i).pending
         /\ MissesKnown' /\ RedKnown' /\ OrphansKnown'
         /\ missed' \subseteq Ids /\ orphaned' \subseteq Ids
<1> DEFINE r == Completed(i)
<1>0. /\ Types /\ run[i] # None /\ run[i] \in Run /\ missed' \subseteq Ids /\ orphaned' \subseteq Ids
      /\ Unseen' = Unseen /\ deleted' = deleted /\ orphaned' = orphaned
  BY DEF ProbeInv, SessionOK, Types, Actors, Unseen
<1>1. r \in Run /\ ~r.pending /\ r.delivered /\ r.box = run[i].box /\ run' = [run EXCEPT ![i] = r]
  BY <1>0, CompletedRun
<1> HIDE DEF r
<1>2. MissesKnown' /\ RedKnown'
  BY <1>0, <1>1, MissesKept
<1>3. OrphansKnown'
  BY <1>0, <1>1, OrphansKept
<1> QED BY <1>0, <1>1, <1>2, <1>3 DEF r

LEMMA CollectFoundStep ==
  ASSUME ProbeInv, NEW i \in Ids, CollectFound(i)
  PROVE  ProbeInv'
<1> DEFINE r == Completed(i)
<1>1. Types /\ run' = [run EXCEPT ![i] = r]
  BY DEF ProbeInv, CollectFound
<1>2. /\ r \in Run /\ ~r.pending /\ MissesKnown' /\ RedKnown' /\ OrphansKnown'
      /\ missed' \subseteq Ids /\ orphaned' \subseteq Ids
  BY FoundRun DEF CollectFound
<1> HIDE DEF r
<1>3. mail' \in [Ids -> Mail] /\ \A k \in Ids : mail[k].at # "none" => mail'[k].at # "none"
  BY <1>1 DEF Types, Mail, CollectFound
<1>4. faults' \in 0..MaxFaults /\ behind' \in BOOLEAN
  BY <1>1 DEF Types, CollectFound
<1> QED BY <1>1, <1>2, <1>3, <1>4, CollectedStep DEF CollectFound

\* The streak counts misses of the mailbox, and the run at hand is one more.
LEMMA StreakCountsMisses ==
  ASSUME ProbeInv, NEW i \in Ids, NEW r, run[i] # None, run' = [run EXCEPT ![i] = r],
         r.box = run[i].box, r.box # None
  PROVE  Cardinality({k \in Unseen \cup {i} : run'[k].box = r.box}) >= Streak(i)
<1> DEFINE S == {k \in Misses(i) :
                   \A l \in Finished \ {i} : l > k /\ run[l].box = run[i].box => ~run[l].delivered}
           M == {k \in Unseen \cup {i} : run'[k].box = r.box}
<1>1. Finished \subseteq Ids /\ Unseen \subseteq Ids /\ run \in [Ids -> Run \cup {None}]
  BY DEF Finished, ProbeInv, Types, Unseen
<1>2. ASSUME NEW k \in S PROVE k \in Unseen /\ k # i /\ run[k].box = run[i].box /\ k \in Ids
  <2>1. /\ k \in Finished /\ k # i /\ run[k].box = run[i].box /\ ~run[k].delivered
        /\ run[k].status # "unknown"
    BY DEF Misses
  <2> QED BY <1>1, <2>1 DEF ProbeInv, MissesKnown
<1>3. S \subseteq Ids /\ i \notin S
  BY <1>2
<1>4. S \cup {i} \subseteq M /\ M \subseteq Ids
  BY <1>1, <1>2
<1> HIDE DEF S, M
<1>5. IsFiniteSet(S) /\ Cardinality(S) \in Nat /\ IsFiniteSet(M) /\ Cardinality(M) \in Nat
  BY <1>3, <1>4, IdsFinite
<1>6. Cardinality(S \cup {i}) = Cardinality(S) + 1
  BY <1>3, <1>5, FS_AddElement
<1>7. Cardinality(S \cup {i}) <= Cardinality(M)
  BY <1>4, <1>5, FS_Subset
<1>8. Streak(i) = Cardinality(S) + 1
  BY DEF Streak, S
<1> QED BY <1>5, <1>6, <1>7, <1>8 DEF M

\* The streak is a number.
LEMMA StreakType ==
  ASSUME NEW i \in Ids
  PROVE  Streak(i) \in Nat
<1> DEFINE S == {k \in Misses(i) : \A l \in Finished \ {i} :
                    l > k /\ run[l].box = run[i].box => ~run[l].delivered}
<1>1. S \subseteq Ids
  BY DEF Misses, Finished
<1> HIDE DEF S
<1>2. Cardinality(S) \in Nat
  BY <1>1, IdsFinite
<1> QED BY <1>2 DEF Streak, S

\* The run that a timeout leaves.
LEMMA ClosedRun ==
  ASSUME ProbeInv, NEW i \in Ids, job[Collector].stage = "collecting", i \in job[Collector].todo,
         CloseOut(i), UNCHANGED config
  PROVE  \E r \in Run :
           /\ ~r.pending /\ run' = [run EXCEPT ![i] = r]
           /\ MissesKnown' /\ RedKnown' /\ OrphansKnown'
           /\ missed' \subseteq Ids /\ orphaned' \subseteq Ids
<1> DEFINE pass == job[Collector]
           box == run[i].box
<1>0. /\ Types /\ run[i] # None /\ run[i] \in Run /\ missed \subseteq Ids /\ orphaned \subseteq Ids
      /\ pass.absent \subseteq deleted /\ deleted' = deleted
  BY DEF ProbeInv, SessionOK, Types, Actors
<1>1. missed' \subseteq Ids /\ orphaned' \subseteq Ids
  BY <1>0 DEF CloseOut
<1>2. \/ orphaned' = orphaned
      \/ orphaned' = orphaned \cup {i} /\ box \in deleted
  BY <1>0 DEF CloseOut
<1>3. CASE box \in pass.shut
  <2> DEFINE r == Unreachable(i)
  <2>1. r \in Run /\ ~r.pending /\ r.status = "unknown" /\ r.box = box
    BY <1>0 DEF Unreachable, Run, Health
  <2>2. run' = [run EXCEPT ![i] = r]
    BY <1>3 DEF CloseOut
  <2>3. Unseen' \in {Unseen, Unseen \cup {i}}
    BY <1>3 DEF CloseOut, Unseen
  <2> HIDE DEF r
  <2>4. MissesKnown' /\ RedKnown'
    BY <1>0, <2>1, <2>2, <2>3, MissesKept
  <2>5. OrphansKnown'
    BY <1>0, <1>2, <2>1, <2>2, OrphansKept
  <2> QED BY <1>1, <2>1, <2>2, <2>4, <2>5
<1>4. CASE box \notin pass.shut
  <2> DEFINE r == Undelivered(i)
  <2>1. /\ r \in Run /\ ~r.pending /\ r.box = box
        /\ r.status = "red" => Streak(i) >= FailuresForRed
    BY <1>0 DEF Undelivered, Run, Health
  <2>2. run' = [run EXCEPT ![i] = r]
    BY <1>4 DEF CloseOut
  <2>3. Unseen' = Unseen \cup {i}
    BY <1>4 DEF CloseOut, Unseen
  <2> HIDE DEF r
  <2>4. ASSUME r.box # None, r.status = "red"
        PROVE  Cardinality({k \in Unseen' : run'[k].box = r.box}) >= FailuresForRed
    <3> DEFINE M == {k \in Unseen' : run'[k].box = r.box}
    <3>1. Cardinality(M) >= Streak(i)
      BY <1>0, <2>1, <2>2, <2>3, <2>4, StreakCountsMisses
    <3>2. Cardinality(M) \in Nat
      <4>1. M \subseteq Ids
        BY <1>0, <2>3 DEF Unseen
      <4> QED BY <4>1, IdsFinite
    <3> QED BY <2>1, <2>4, <3>1, <3>2, StreakType, ProbeAssumption
  <2>5. MissesKnown' /\ RedKnown'
    BY <1>0, <2>1, <2>2, <2>3, <2>4, MissesKept
  <2>6. OrphansKnown'
    BY <1>0, <1>2, <2>1, <2>2, OrphansKept
  <2> QED BY <1>1, <2>1, <2>2, <2>5, <2>6
<1> QED BY <1>3, <1>4

LEMMA CollectLateStep ==
  ASSUME ProbeInv, NEW i \in Ids, CollectLate(i)
  PROVE  ProbeInv'
<1>1. PICK r \in Run :
        /\ ~r.pending /\ run' = [run EXCEPT ![i] = r]
        /\ MissesKnown' /\ RedKnown' /\ OrphansKnown'
        /\ missed' \subseteq Ids /\ orphaned' \subseteq Ids
  BY ClosedRun DEF CollectLate
<1>2. /\ Types /\ faults' \in 0..MaxFaults /\ behind' \in BOOLEAN /\ mail' = mail
      /\ mail \in [Ids -> Mail]
  BY FaultType DEF CollectLate, ProbeInv, Types
<1> QED BY <1>1, <1>2, CollectedStep DEF CollectLate

LEMMA CollectLostStep ==
  ASSUME ProbeInv, NEW i \in Ids, CollectLost(i)
  PROVE  ProbeInv'
<1>1. PICK r \in Run :
        /\ ~r.pending /\ run' = [run EXCEPT ![i] = r]
        /\ MissesKnown' /\ RedKnown' /\ OrphansKnown'
        /\ missed' \subseteq Ids /\ orphaned' \subseteq Ids
  <2>1. CASE CloseOut(i)
    BY <2>1, ClosedRun DEF CollectLost
  <2>2. CASE run' = [run EXCEPT ![i] = Completed(i)] /\ UNCHANGED absences
    BY <2>2, FoundRun DEF CollectLost
  <2> QED BY <2>1, <2>2 DEF CollectLost
<1>2. /\ Types /\ faults' \in 0..MaxFaults /\ behind' = TRUE /\ mail' = mail
      /\ mail \in [Ids -> Mail]
  BY FaultType DEF CollectLost, ProbeInv, Types
<1> QED BY <1>1, <1>2, CollectedStep DEF CollectLost

\* A trigger without a mailbox to write to: it is to write the status of its own run.
LEMMA BeginDnsStep ==
  ASSUME ProbeInv, NEW a \in Triggers, Begin(a), enabled = {}, faults' \in 0..MaxFaults
  PROVE  ProbeInv'
<1> DEFINE n == Min(Unused)
           r == DnsOnlyRun
           g == Got(a, r.status)
           j == [g EXCEPT !.run = n]
<1>0. /\ a \in Actors /\ Types /\ job[a].tries < Attempts /\ a \notin Handlers
      /\ UNCHANGED <<config, absences, spoke, mail>> /\ Unseen' = Unseen
      /\ a # Collector /\ job[a].absent \subseteq deleted
  BY ProbeAssumption DEF Actors, ProbeInv, Types, Triggers, Begin, Unseen, SessionOK
<1>1. n \in Ids /\ run[n] = None /\ mail[n].at = "none"
  <2>1. Unused \subseteq Nat /\ Unused # {}
    <3>1. Cardinality(Unused) >= 1
      BY DEF Begin
    <3> QED BY <3>1, FS_EmptySet DEF Unused, Ids
  <2>2. n \in Unused
    BY <2>1, SmallestId
  <2> QED BY <2>2 DEF Unused
<1>2. /\ r \in Run /\ ~r.pending /\ r.box = None /\ r # None /\ r.status \in Health
  <2>1. r \in Run
    BY DEF DnsOnlyRun, Waiting, Run, Health
  <2> QED BY <2>1, NoRunAssumption DEF DnsOnlyRun, Waiting, Health
<1>3. run' = [run EXCEPT ![n] = r] /\ job' = Outdated(a, j)
  BY DEF Begin
<1> HIDE DEF n, r
<1>4. /\ g \in Job /\ g.stage = "writing" /\ g.status = r.status /\ g.before = health
      /\ g.tries < Attempts /\ g.absent = job[a].absent
  BY <1>0, <1>2, GotJob
<1> HIDE DEF g
<1>5. /\ j \in Job /\ j.stage = "writing" /\ j.status = r.status /\ j.before = health
      /\ j.tries < Attempts /\ j.absent = job[a].absent /\ j.run = n
  <2>1. j \in Job
    BY <1>1, <1>4 DEF Job
  <2> QED BY <1>1, <1>4, <2>1 DEF Job
<1> HIDE DEF j
<1>6. /\ job' \in [Actors -> Job] /\ \A b \in Actors : job'[b].tries < Attempts
      /\ job'[a] = j /\ \A b \in Actors \ {a} : SameButStale(b)
  BY <1>0, <1>3, <1>5, OutdatedJobs
<1>7. run' \in [Ids -> Run \cup {None}] /\ n \in Finished' /\ run'[n] = r
  BY <1>0, <1>1, <1>2, <1>3 DEF Types, Finished
<1>8. Types'
  BY <1>0, <1>6, <1>7 DEF Types, Begin
<1>9. MissesKnown' /\ RedKnown'
  BY <1>0, <1>1, <1>2, <1>3, MissesKept
<1>10. OrphansKnown'
  BY <1>0, <1>1, <1>2, <1>3, OrphansKept
<1>11. SessionOK(a)' /\ RefreshOK(a)' /\ Owes(a)' /\ job'[a].stage # "creating"
  BY <1>0, <1>5, <1>6, <1>7 DEF SessionOK, RefreshOK, Claim, Owes, Refreshing, Begin
<1>12. \A b \in Actors \ {a} : job[b].stage = "creating" => job[b].run # n
  BY <1>1 DEF ProbeInv, SessionOK, Unused
<1> QED BY <1>0, <1>1, <1>2, <1>3, <1>6, <1>8, <1>9, <1>10, <1>11, <1>12, RunStep DEF Begin

-----------------------------------------------------------------------------
(* The theorems.                                                           *)

LEMMA ProbeInit == Init => ProbeInv
<1> SUFFICES ASSUME Init PROVE ProbeInv
  OBVIOUS
<1>1. PICK setup \in Setups : enabled = setup[1] /\ dns = setup[2]
  BY DEF Init
<1>2. enabled \subseteq Mailboxes /\ dns \in {"off", "green", "red"}
  BY <1>1, ProbeAssumption
<1>3. Finished = {} /\ \A i \in Ids : run[i] = None
  BY DEF Init, Finished
<1>4. \A a \in Actors : job[a] = Idle
  BY DEF Init
<1>5. Types
  <2>1. mail \in [Ids -> Mail]
    BY DEF Init, Mail
  <2>2. job \in [Actors -> Job] /\ \A a \in Actors : job[a].tries < Attempts
    BY IdleJob DEF Init
  <2>3. run \in [Ids -> Run \cup {None}]
    BY DEF Init
  <2>4. health \in Health /\ faults \in 0..MaxFaults
    BY ProbeAssumption DEF Init, Health
  <2> QED BY <1>2, <2>1, <2>2, <2>3, <2>4 DEF Types, Init
<1>6. \A a \in Actors : SessionOK(a) /\ RefreshOK(a)
  BY <1>4 DEF SessionOK, RefreshOK, Idle
<1>7. CreatorsDiffer
  BY <1>4 DEF CreatorsDiffer, Idle
<1>8. AcceptedFinished /\ MissesKnown /\ RedKnown /\ OrphansKnown /\ SpokeOK
  BY <1>3 DEF Init, AcceptedFinished, MissesKnown, RedKnown, OrphansKnown, SpokeOK, Unseen
<1>9. HealthKnown /\ rumours = {}
  BY <1>3 DEF Init, HealthKnown
<1> QED BY <1>5, <1>6, <1>7, <1>8, <1>9 DEF ProbeInv

\* The world outside stands still.
LEMMA ProbeStutter ==
  ASSUME ProbeInv, UNCHANGED vars
  PROVE  ProbeInv'
<1>1. Types' /\ RunsQuiet
  BY SameRuns DEF vars, ProbeInv, Types
<1> QED BY <1>1, WorldStep DEF vars, ProbeInv, SessionOK

LEMMA ProbeStep == ProbeInv /\ [Next]_vars => ProbeInv'
<1> SUFFICES ASSUME ProbeInv, [Next]_vars PROVE ProbeInv'
  OBVIOUS
<1>1. ASSUME NEW i \in Ids, Arrive(i) \/ Expire(i) PROVE ProbeInv'
  BY <1>1, ArriveStep, ExpireStep
<1>2. CASE IntervalElapsed \/ ChangeConfig \/ UpdateSender
  BY <1>2, IntervalElapsedStep, ChangeConfigStep, UpdateSenderStep
<1>3. CASE Tick \/ TriggerProbeRun
  <2>1. Types /\ faults \in 0..MaxFaults
    BY DEF ProbeInv, Types
  <2>2. faults' \in 0..MaxFaults
    BY <1>3, <2>1, FaultType DEF Tick, TriggerProbeRun
  <2>3. PICK a \in Triggers : Begin(a)
    BY <1>3 DEF Tick, TriggerProbeRun, Triggers
  <2> QED BY <2>2, <2>3, BeginStep, BeginDnsStep
<1>4. ASSUME NEW a \in Triggers, Enqueue(a) \/ Create(a) PROVE ProbeInv'
  BY <1>4, EnqueueStep, CreateStep
<1>5. CASE CollectStep
  BY <1>5, CollectListStep, CollectFoundStep, CollectLateStep, CollectLostStep,
     CollectNothingStep DEF CollectStep
<1>6. ASSUME NEW h \in Handlers, Complete(h) \/ Defer(h) \/ \E i \in Ids : Post(h, i)
      PROVE  ProbeInv'
  BY <1>6, CompleteStep, DeferStep, PostStep
<1>7. ASSUME NEW a \in Actors, Refresh(a) \/ RefreshFails(a) \/ Crash(a) PROVE ProbeInv'
  BY <1>7, ListStep, WriteStep, ConflictStep, EmitStep, RefreshFailsStep, CrashStep DEF Refresh
<1>8. ASSUME NEW b \in Mailboxes, ChangeMailbox(b) PROVE ProbeInv'
  BY <1>8, ChangeMailboxStep
<1>9. CASE UNCHANGED vars
  BY <1>9, ProbeStutter
<1> QED BY <1>1, <1>2, <1>3, <1>4, <1>5, <1>6, <1>7, <1>8, <1>9 DEF Next

LEMMA ProbeInvariant == Spec => []ProbeInv
BY ProbeInit, ProbeStep, PTL DEF Spec

\* Every state of the probes is of the expected type: a run about to be created
\* (Trigger's loop) is not there yet and its mail is on the way, and
\* setSenderHealth never begins an attempt beyond its last.
THEOREM ProbesTypeCorrect == Spec => []TypeOK
<1>1. ProbeInv => TypeOK
  <2> SUFFICES ASSUME ProbeInv PROVE TypeOK
    OBVIOUS
  <2>1. Types /\ rumours = {}
    BY DEF ProbeInv
  <2>2. \A i \in Ids : mail[i].at \in {"none", "sending", "arrived", "gone"}
    BY <2>1 DEF Types, Mail
  <2>3. \A a \in Actors : job[a].stage \in Stages /\ job[a].tries < Attempts
    BY <2>1, JobFields DEF Types
  <2>4. \A a \in Actors : job[a].stage = "creating" =>
          run[job[a].run] = None /\ mail[job[a].run].at # "none"
    BY DEF ProbeInv, SessionOK
  <2> QED BY <2>1, <2>2, <2>3, <2>4 DEF TypeOK, Types, Stages
<1> QED BY <1>1, ProbeInvariant, PTL

\* A mail that the inbound webhook accepted belongs to a finished run, whatever
\* failures, crashes and repeated posts come between (deliveryMemo.add).
THEOREM AcceptedMailIsRecorded == Spec => []AcceptedIsRecorded
<1>1. ProbeInv => AcceptedIsRecorded
  BY DEF ProbeInv, AcceptedFinished, AcceptedIsRecorded, Finished
<1> QED BY <1>1, ProbeInvariant, PTL

\* A run is red for want of its mail only after FailuresForRed misses of its
\* mailbox (undeliveredStreak): mailboxes that did not open, completions that
\* overwrite a miss and passes that close a run again do not add up to one, and
\* runs that a deleted mailbox left behind count only against that mailbox.
THEOREM RedTakesMisses == Spec => []RedNeedsMisses
<1>1. ProbeInv => RedNeedsMisses
  <2> SUFFICES ASSUME ProbeInv, NEW i \in Finished, run[i].status = "red", ~run[i].delivered,
                      run[i].box # None
               PROVE  LET counted == IF run[i].box \in deleted THEN missed \cup orphaned ELSE missed
                      IN Cardinality({k \in counted : run[k].box = run[i].box}) >= FailuresForRed
    BY DEF RedNeedsMisses
  <2>1. Cardinality({k \in Unseen : run[k].box = run[i].box}) >= FailuresForRed
    BY DEF ProbeInv, RedKnown
  <2>2. CASE run[i].box \in deleted
    BY <2>1, <2>2 DEF Unseen
  <2>3. CASE run[i].box \notin deleted
    <3>1. \A k \in orphaned : run[k].box # run[i].box
      BY <2>3 DEF ProbeInv, OrphansKnown
    <3>2. {k \in Unseen : run[k].box = run[i].box} = {k \in missed : run[k].box = run[i].box}
      BY <3>1 DEF Unseen
    <3> QED BY <2>1, <2>3, <3>2
  <2> QED BY <2>2, <2>3
<1> QED BY <1>1, ProbeInvariant, PTL

\* The sender shows the summary of its finished runs when nobody is at work, or the
\* status of the DNS-only run that wrote last, however mailboxes come and go,
\* unless the last refresh was lost or overtaken, and no event tells of a change
\* that the sender's row did not go through (setSenderHealth).
THEOREM SenderShowsTheSummary == Spec => []SummaryIsCurrent
<1>1. ProbeInv => SummaryIsCurrent
  <2> SUFFICES ASSUME ProbeInv PROVE SummaryIsCurrent
    OBVIOUS
  <2>1. ASSUME AtWork = {} PROVE \A a \in Actors : ~Owes(a)
    BY <2>1 DEF AtWork, Owes
  <2>2. Latest = {k \in Finished : \A l \in Finished : run[l].box = run[k].box => l <= k}
    BY DEF Latest
  <2>3. Summary = Verdicts
    BY <2>2 DEF Summary, Verdicts
  <2> QED BY <2>1, <2>3 DEF ProbeInv, HealthKnown, SummaryIsCurrent, Shown
<1> QED BY <1>1, ProbeInvariant, PTL
=============================================================================
