----------------------------- MODULE BouncePoller -----------------------------
(***************************************************************************)
(* One bounce mailbox: the replicas that poll it under a lock              *)
(* (internal/bounce/poller.go) and what the processor does with each mail, *)
(* one store call at a time (process.go, platform.go).  The mailbox is a   *)
(* tenant's or, owned by System, shared by all of them; it is reached over  *)
(* IMAP or POP3 (internal/mailbox), and what an acknowledgement does to a   *)
(* mail depends on that.                                                    *)
(*                                                                         *)
(* An address stands for the delivery that was sent to it.                 *)
(***************************************************************************)
EXTENDS BounceParse

CONSTANTS
  Replicas,         \* pollers of the mailbox
  Tenants,
  System,           \* SystemTenantID
  Deliveries,
  TenantOf,         \* the tenant of each delivery
  SharedTransport,  \* deliveries whose sender uses a platform transport
  ProbeLane,        \* deliveries of LaneProbe
  Suppressing,      \* tenants with SuppressionEnabled
  Letters,          \* the sequence of contents a mail can have
  Kinds,            \* the kinds of mailbox
  LastMail,         \* bound: how many arrive
  FetchBatch,
  MaxRetries,       \* bound: deliveries that an operator requeues
  MaxFaults         \* bound: failed calls, crashes, slow batches, deleted rows

ASSUME PollerAssumption ==
  /\ None \notin Tenants \cup {System} \cup Deliveries \cup Replicas
  /\ System \notin Tenants /\ AnyKey \notin Tenants \cup {None}
  /\ TenantOf \in [Deliveries -> Tenants]
  /\ SharedTransport \subseteq Deliveries /\ ProbeLane \subseteq Deliveries
  /\ Suppressing \subseteq Tenants
  /\ IsFiniteSet(Replicas)
  /\ Kinds \subseteq {"seen", "delete", "keep"}
  /\ LastMail \in Nat /\ FetchBatch \in Nat \ {0} /\ MaxFaults \in Nat /\ MaxRetries \in Nat

\* What the traces of the original can name.  A name without a row is that of a
\* delivery long gone.
ASSUME LettersAssumption ==
  /\ None \notin DOMAIN Letters
  /\ \A l \in DOMAIN Letters :
       /\ Letters[l].subject \in {"bounce", "complaint", "other"}
       /\ Letters[l].verp \in Seq([delivery : Deliveries, key : Tenants \cup {None}])
       /\ Letters[l].headers \in Seq([tenant : Tenants \cup {System}, delivery : Deliveries])
       /\ Letters[l].replies \in Seq(Deliveries)

Mails == 1..LastMail

\* ParseWithKeys, but for the keys.
Parse(mail) == [type |-> Classify(mail), readable |-> mail.readable, c |-> Correlate(mail)]

VARIABLES
  box,         \* whose mailbox it is
  kind,        \* what an acknowledgement does: IMAP sets \Seen, POP3 deletes or keeps
  letter,      \* what each mail says, by its place in Letters
  parsed,      \* what the parser makes of it
  mailbox,     \* where each mail is
  delivery,    \* the status of each delivery, gone once deleted
  events,      \* the BounceEvents recorded
  suppressed,  \* the suppression lists: tenant, address
  outbox,      \* how many events were enqueued for each delivery
  lock,        \* the mailbox's lock row
  job,         \* the session of each replica
  faults,      \* how many faults the environment has left
  retries,     \* how many retries the operator has left
  early,       \* history: mails from before their delivery was last marked sent
  broken,      \* history: how many handlers of a delivery stopped after the mark
  ends         \* history: how often a delivery has bounced or complained

vars == <<box, kind, letter, parsed, mailbox, delivery, events, suppressed, outbox, lock, job,
          faults, retries, early, broken, ends>>

Unlocked == [owner |-> None, live |-> FALSE]

Idle == [stage |-> "idle", batch |-> {}, handled |-> {}, deleted |-> {}, full |-> FALSE,
         tenant |-> None, marks |-> FALSE]

Ended == {"bounced", "complained"}

\* The stages of a session that are inside Handle, and those past its mark.
AfterMark == {"suppressing", "platform", "emitting"}

Handling == {"judging", "recording", "marking"} \cup AfterMark

TypeOK ==
  /\ box \in Tenants \cup {System}
  /\ kind \in Kinds
  /\ letter \in [Mails -> DOMAIN Letters \cup {None}]
  /\ \A m \in Mails : parsed[m] # None => parsed[m].type \in Types
  /\ mailbox \in [Mails -> {"coming", "unread", "acked"}]
  /\ delivery \in [Deliveries -> {"leased", "sent", "gone"} \cup Ended]
  /\ events \subseteq [tenant : Tenants \cup {System}, delivery : Deliveries \cup {None},
                       type : Types, verified : BOOLEAN]
  /\ suppressed \subseteq (Tenants \cup {System}) \X Deliveries
  /\ outbox \in [Deliveries -> Nat]
  /\ lock \in [owner : Replicas \cup {None}, live : BOOLEAN]
  /\ \A r \in Replicas :
       /\ job[r].stage \in {"idle", "fetching", "acking", "aborting", "closing", "releasing"} \cup Handling
       /\ job[r].stage \in Handling <=> job[r].batch # {}
       /\ job[r].handled \subseteq Mails /\ job[r].deleted \subseteq Mails
       /\ Cardinality(job[r].handled) + Cardinality(job[r].batch) <= FetchBatch
  /\ faults \in 0..MaxFaults /\ retries \in 0..MaxRetries
  /\ early \subseteq Mails
  /\ broken \in [Deliveries -> Nat] /\ ends \in [Deliveries -> Nat]

Init ==
  /\ box \in Tenants \cup {System}
  /\ kind \in Kinds
  /\ letter = [m \in Mails |-> None]
  /\ parsed = [m \in Mails |-> None]
  /\ mailbox = [m \in Mails |-> "coming"]
  /\ delivery = [d \in Deliveries |-> "leased"]
  /\ events = {}
  /\ suppressed = {}
  /\ outbox = [d \in Deliveries |-> 0]
  /\ lock = Unlocked
  /\ job = [r \in Replicas |-> Idle]
  /\ faults = MaxFaults
  /\ retries = MaxRetries
  /\ early = {}
  /\ broken = [d \in Deliveries |-> 0]
  /\ ends = [d \in Deliveries |-> 0]

Fault == faults > 0 /\ faults' = faults - 1

-----------------------------------------------------------------------------
(* The world outside.                                                      *)

\* A mail arrives.
Arrive(m) ==
  /\ mailbox[m] = "coming"
  /\ \A n \in 1..m - 1 : mailbox[n] # "coming"
  /\ mailbox' = [mailbox EXCEPT ![m] = "unread"]
  /\ \E l \in DOMAIN Letters :
       /\ letter' = [letter EXCEPT ![m] = l]
       /\ parsed' = [parsed EXCEPT ![m] = Parse(Letters[l])]
  /\ UNCHANGED <<box, kind, delivery, events, suppressed, outbox, lock, job, faults, retries, early, broken, ends>>

\* The batcher commits the outcome of the send.
MarkSent(d) ==
  /\ delivery[d] = "leased"
  /\ delivery' = [delivery EXCEPT ![d] = "sent"]
  /\ UNCHANGED <<box, kind, letter, parsed, mailbox, events, suppressed, outbox, lock, job, faults, retries, early, broken, ends>>

\* RetryDelivery: the operator has a finished delivery queued and sent again.
\* The mails that have come by then speak of the earlier message.
RetryDelivery(d) ==
  /\ retries > 0
  /\ retries' = retries - 1
  /\ delivery[d] \in {"sent"} \cup Ended
  /\ delivery' = [delivery EXCEPT ![d] = "leased"]
  /\ early' = early \cup {m \in Mails : mailbox[m] # "coming" /\ parsed[m].c.delivery = d}
  /\ UNCHANGED <<box, kind, letter, parsed, mailbox, events, suppressed, outbox, lock, job, faults, broken, ends>>

\* Retention deletes the row.
DeleteBefore(d) ==
  /\ Fault
  /\ delivery[d] \in {"sent"} \cup Ended
  /\ delivery' = [delivery EXCEPT ![d] = "gone"]
  /\ UNCHANGED <<box, kind, letter, parsed, mailbox, events, suppressed, outbox, lock, job, retries, early, broken, ends>>

\* The lease runs out: its holder is gone, or one batch takes too long.
LeaseRunsOut ==
  /\ lock.live
  /\ \/ job[lock.owner].stage = "idle" /\ UNCHANGED faults
     \/ Fault
  /\ lock' = [lock EXCEPT !.live = FALSE]
  /\ UNCHANGED <<box, kind, letter, parsed, mailbox, delivery, events, suppressed, outbox, job, retries, early, broken, ends>>

-----------------------------------------------------------------------------
(* A pass over the mailbox (PollOnce).                                     *)

Enter(r, stage) == job' = [job EXCEPT ![r].stage = stage]

\* Mutant: a lease that ran out is not taken over.
AcquirableIfFree(r) == lock.owner = None /\ r \in Replicas

\* Acquire's conflict clause.
Acquirable(r) == lock.owner \in {None, r} \/ ~lock.live

\* PollOnce takes the lock, or leaves the mailbox to its holder.
Acquire(r) ==
  /\ job[r].stage = "idle"
  /\ Acquirable(r)
  /\ lock' = [owner |-> r, live |-> TRUE]
  /\ Enter(r, "fetching")
  /\ UNCHANGED <<box, kind, letter, parsed, mailbox, delivery, events, suppressed, outbox, faults, retries, early, broken, ends>>

\* The oldest mails that are neither acknowledged nor deleted in this session, at
\* most FetchBatch.
Unread(j) ==
  LET unread == {m \in Mails : mailbox[m] = "unread"} \ j.deleted
  IN {m \in unread : Cardinality({n \in unread : n < m}) < FetchBatch}

\* Mutant: an empty mailbox is not noticed.
FetchedAlways(j, msgs) ==
  [j EXCEPT !.stage = "judging", !.batch = msgs, !.handled = {}, !.full = Cardinality(msgs) = FetchBatch]

\* The session after Fetch returned some mails.
Fetched(j, msgs) ==
  [j EXCEPT !.stage = IF msgs = {} THEN "closing" ELSE "judging",
            !.batch = msgs, !.handled = {}, !.full = Cardinality(msgs) = FetchBatch]

\* Dial and Fetch; either can fail, and the session can time out.
Fetch(r) ==
  /\ job[r].stage = "fetching"
  /\ job' = [job EXCEPT ![r] = Fetched(job[r], Unread(job[r]))]
  /\ UNCHANGED <<box, kind, letter, parsed, mailbox, delivery, events, suppressed, outbox, lock, faults, retries, early, broken, ends>>

FetchFails(r) ==
  /\ job[r].stage = "fetching"
  /\ Fault
  /\ Enter(r, "closing")
  /\ UNCHANGED <<box, kind, letter, parsed, mailbox, delivery, events, suppressed, outbox, lock, retries, early, broken, ends>>

\* The session goes on to the next mail of the batch, or to the acknowledgement.
Advance(j) ==
  LET m == Min(j.batch)
  IN [j EXCEPT !.stage = IF j.batch = {m} THEN "acking" ELSE "judging",
               !.batch = @ \ {m}, !.handled = @ \cup {m}, !.tenant = None, !.marks = FALSE]

\* Mutant: a failure acknowledges the whole batch.
AbortedWhole(j) ==
  [j EXCEPT !.stage = "aborting", !.batch = {}, !.tenant = None, !.marks = FALSE,
            !.handled = @ \cup j.batch]

\* What becomes of the batch when the store fails a mail.
Aborted(j) == [j EXCEPT !.stage = "aborting", !.batch = {}, !.tenant = None, !.marks = FALSE]

\* Renew decides after the acknowledgement: a lost lease ends the pass, and so
\* does a batch that was not full or was given up.
AfterAck(r) ==
  IF job[r].stage = "acking" /\ job[r].full /\ lock = [owner |-> r, live |-> TRUE]
    THEN "fetching" ELSE "closing"

\* What Ack does to mails: IMAP marks them at once, POP3 deletes them when the
\* session is closed, or keeps them as they are.
Seen(mails) == [m \in Mails |-> IF kind = "seen" /\ m \in mails THEN "acked" ELSE mailbox[m]]

Deleted(j, mails) == IF kind = "delete" THEN j.deleted \cup mails ELSE j.deleted

\* Ack of what was handled, and Renew.
Ack(r) ==
  /\ job[r].stage \in {"acking", "aborting"}
  /\ mailbox' = Seen(job[r].handled)
  /\ job' = [job EXCEPT ![r].stage = AfterAck(r), ![r].deleted = Deleted(job[r], job[r].handled)]
  /\ UNCHANGED <<box, kind, letter, parsed, delivery, events, suppressed, outbox, lock, faults, retries, early, broken, ends>>

\* Ack gets through some of the mails, or Renew fails.
AckFails(r) ==
  /\ job[r].stage \in {"acking", "aborting"}
  /\ Fault
  /\ \E some \in SUBSET job[r].handled :
       /\ mailbox' = Seen(some)
       /\ job' = [job EXCEPT ![r].stage = "closing", ![r].deleted = Deleted(job[r], some)]
  /\ UNCHANGED <<box, kind, letter, parsed, delivery, events, suppressed, outbox, lock, retries, early, broken, ends>>

\* The deferred Close: QUIT carries the deletions out, all or none.
Close(r) ==
  /\ job[r].stage = "closing"
  /\ \/ /\ mailbox' = [m \in Mails |-> IF m \in job[r].deleted THEN "acked" ELSE mailbox[m]]
        /\ UNCHANGED faults
     \/ job[r].deleted # {} /\ Fault /\ UNCHANGED mailbox
  /\ job' = [job EXCEPT ![r].stage = "releasing", ![r].deleted = {}]
  /\ UNCHANGED <<box, kind, letter, parsed, delivery, events, suppressed, outbox, lock, retries, early, broken, ends>>

\* The deferred Release; the lock stays when it fails.
Release(r) ==
  /\ job[r].stage = "releasing"
  /\ \/ lock' = (IF lock.owner = r THEN Unlocked ELSE lock) /\ UNCHANGED faults
     \/ Fault /\ UNCHANGED lock
  /\ job' = [job EXCEPT ![r] = Idle]
  /\ UNCHANGED <<box, kind, letter, parsed, mailbox, delivery, events, suppressed, outbox, retries, early, broken, ends>>

-----------------------------------------------------------------------------
(* One mail (Handle, HandlePlatform).                                      *)

\* The mail a session is at: the oldest of what is left of the batch.
Current(r) == parsed[Min(job[r].batch)]

\* What is known of a delivery in a tenant's store.
StatusIn(tenant, d) ==
  IF d # None /\ TenantOf[d] = tenant THEN delivery[d] ELSE "gone"

\* resolveTenant, for a shared mailbox: no key verifies anything yet.
ResolveTenant(p) ==
  IF ~p.readable THEN System
  ELSE IF p.c.tenant # None THEN p.c.tenant
  ELSE IF p.c.delivery = None \/ delivery[p.c.delivery] = "gone" THEN System
  ELSE TenantOf[p.c.delivery]

\* The tenant a mail is handled in: the mailbox's own, or the resolved one.
HandlingTenant(p) == IF box = System THEN ResolveTenant(p) ELSE box

\* What Handle has decided once the delivery is loaded: nothing to do, an event
\* to record, or an event and then the transition.
Decision(p, tenant) ==
  LET status == StatusIn(tenant, p.c.delivery)
  IN IF p.type = "unknown" THEN "skip"
     ELSE IF p.c.delivery = None THEN "record"
     ELSE IF p.c.tenant \notin {None, tenant} THEN "skip"
     ELSE IF status = "gone" \/ ~Verified(p.c, tenant) THEN "record"
     ELSE IF p.type = "soft" /\ status \in {"sent"} \cup Ended THEN "record"
     ELSE IF status = "sent" THEN "mark"
     ELSE "skip"

\* LoadTenantSettings, the parse and Deliveries().Get.
Judge(r) ==
  LET m        == Min(job[r].batch)
      tenant   == HandlingTenant(parsed[m])
      decision == Decision(parsed[m], tenant)
  IN /\ job[r].stage = "judging"
     /\ job' = [job EXCEPT ![r] =
                  IF decision = "skip" THEN Advance(job[r])
                  ELSE [job[r] EXCEPT !.stage = "recording", !.tenant = tenant, !.marks = decision = "mark"]]
     /\ early' = IF StatusIn(tenant, parsed[m].c.delivery) = "leased" THEN early \cup {m} ELSE early
     /\ UNCHANGED <<box, kind, letter, parsed, mailbox, delivery, events, suppressed, outbox, lock, faults, retries, broken, ends>>

\* The BounceEvent record writes.
Recorded(r) ==
  {[tenant |-> job[r].tenant, delivery |-> Current(r).c.delivery,
    type |-> Current(r).type, verified |-> Verified(Current(r).c, job[r].tenant)]}

Record(r) ==
  /\ job[r].stage = "recording"
  /\ events' = events \cup Recorded(r)
  /\ job' = [job EXCEPT ![r] = IF job[r].marks THEN [job[r] EXCEPT !.stage = "marking"]
                               ELSE Advance(job[r])]
  /\ UNCHANGED <<box, kind, letter, parsed, mailbox, delivery, suppressed, outbox, lock, faults, retries, early, broken, ends>>

Target(r) == Current(r).c.delivery

\* Mutant: the update goes by the status Handle read.
MarkableAsRead(d) == delivery[d] # "gone"

\* markTerminal's predicate.
Markable(d) == delivery[d] = "sent"

Marked(r) ==
  [delivery EXCEPT ![Target(r)] = IF Current(r).type = "complaint" THEN "complained" ELSE "bounced"]

\* History: it had not ended yet.
OneMoreEnd(r) ==
  IF delivery[Target(r)] \in Ended THEN ends ELSE [ends EXCEPT ![Target(r)] = @ + 1]

\* MarkBounced, MarkComplained; a delivery of the probe lane is not suppressed.
Mark(r) ==
  /\ job[r].stage = "marking"
  /\ IF Markable(Target(r))
       THEN /\ delivery' = Marked(r)
            /\ ends' = OneMoreEnd(r)
            /\ Enter(r, IF Target(r) \in ProbeLane THEN "emitting" ELSE "suppressing")
       ELSE /\ job' = [job EXCEPT ![r] = Advance(job[r])]
            /\ UNCHANGED <<delivery, ends>>
  /\ UNCHANGED <<box, kind, letter, parsed, mailbox, events, suppressed, outbox, lock, faults, retries, early, broken>>

\* The tenant's own list.
Suppress(r) ==
  /\ job[r].stage = "suppressing"
  /\ suppressed' = suppressed \cup {<<t, Target(r)>> : t \in {job[r].tenant} \cap Suppressing}
  /\ Enter(r, "platform")
  /\ UNCHANGED <<box, kind, letter, parsed, mailbox, delivery, events, outbox, lock, faults, retries, early, broken, ends>>

\* What suppressPlatform adds to the list of the system tenant.
PlatformEntry(d) == IF d \in SharedTransport THEN {<<System, d>>} ELSE {}

SuppressPlatform(r) ==
  /\ job[r].stage = "platform"
  /\ suppressed' = suppressed \cup PlatformEntry(Target(r))
  /\ Enter(r, "emitting")
  /\ UNCHANGED <<box, kind, letter, parsed, mailbox, delivery, events, outbox, lock, faults, retries, early, broken, ends>>

\* enqueueEvent.
Emit(r) ==
  /\ job[r].stage = "emitting"
  /\ outbox' = [outbox EXCEPT ![Target(r)] = @ + 1]
  /\ job' = [job EXCEPT ![r] = Advance(job[r])]
  /\ UNCHANGED <<box, kind, letter, parsed, mailbox, delivery, events, suppressed, lock, faults, retries, early, broken, ends>>

\* History: a handler past the mark goes no further.
Stopped(r) ==
  broken' = IF job[r].stage \in AfterMark THEN [broken EXCEPT ![Target(r)] = @ + 1] ELSE broken

\* A store call fails, or only the answer of the mark is lost: Handle returns
\* the error.
HandleFails(r) ==
  /\ job[r].stage \in Handling
  /\ Fault
  /\ \/ /\ job[r].stage = "marking" /\ Markable(Target(r))
        /\ delivery' = Marked(r)
        /\ ends' = OneMoreEnd(r)
        /\ broken' = [broken EXCEPT ![Target(r)] = @ + 1]
     \/ Stopped(r) /\ UNCHANGED <<delivery, ends>>
  /\ job' = [job EXCEPT ![r] = Aborted(job[r])]
  /\ UNCHANGED <<box, kind, letter, parsed, mailbox, events, suppressed, outbox, lock, retries, early>>

\* The process dies and comes back.
Crash(r) ==
  /\ job[r].stage # "idle"
  /\ Fault
  /\ Stopped(r)
  /\ job' = [job EXCEPT ![r] = Idle]
  /\ UNCHANGED <<box, kind, letter, parsed, mailbox, delivery, events, suppressed, outbox, lock, retries, early, ends>>

-----------------------------------------------------------------------------

Poll(r) ==
  \/ Acquire(r) \/ Fetch(r) \/ Judge(r) \/ Record(r) \/ Mark(r) \/ Suppress(r)
  \/ SuppressPlatform(r) \/ Emit(r) \/ Ack(r) \/ Close(r) \/ Release(r)

Next ==
  \/ \E m \in Mails : Arrive(m)
  \/ \E d \in Deliveries : MarkSent(d) \/ RetryDelivery(d) \/ DeleteBefore(d)
  \/ LeaseRunsOut
  \/ \E r \in Replicas : Poll(r) \/ FetchFails(r) \/ HandleFails(r) \/ AckFails(r) \/ Crash(r)

Spec == Init /\ [][Next]_vars

\* Every poll loop runs (pollLoop never returns) and a lease nobody renews ends.
FairSpec == Spec /\ WF_vars(LeaseRunsOut) /\ \A r \in Replicas : WF_vars(Poll(r))

-----------------------------------------------------------------------------
(* Properties.                                                             *)

\* A mail speaks for a delivery when its VERP address carries the tenant's
\* signature or, without a VERP address, when the returned headers name it.
SpeaksFor(mail, d) ==
  IF mail.verp # <<>> THEN mail.verp[1] = [delivery |-> d, key |-> TenantOf[d]]
  ELSE \/ \E i \in DOMAIN mail.headers : mail.headers[i].delivery = d
       \/ \E i \in DOMAIN mail.replies : mail.replies[i] = d

\* A delivery that bounced or complained has the BounceEvent that says why, in
\* its own tenant and verified (record comes before mark), and a mail that speaks
\* for it: a forged VERP address moves nothing, even when genuine headers come
\* with it (correlate, ADR-0008).
EvidenceFirst ==
  \A d \in Deliveries : delivery[d] \in Ended =>
    /\ [tenant |-> TenantOf[d], delivery |-> d, verified |-> TRUE,
        type |-> IF delivery[d] = "bounced" THEN "hard" ELSE "complaint"] \in events
    /\ \E m \in Mails : letter[m] # None /\ SpeaksFor(Letters[letter[m]], d)

\* The sessions past the mark of a delivery, and the lists it belongs on.
Following(d) == {r \in Replicas : job[r].stage \in AfterMark /\ Target(r) = d}

Belongs(d) == {<<t, d>> : t \in {TenantOf[d]} \cap Suppressing} \cup PlatformEntry(d)

\* Each time a delivery ends, the host hears of it once, and never oftener,
\* whatever is redelivered, fetched twice, handled by two replicas at once or
\* applied to a message that an operator has sent again (the compare-and-set of
\* mark).  A handler that stopped after the mark is not made up for.  A delivery
\* is on a suppression list only if it has ended, and probes are on none; once it
\* has been announced, it is on its tenant's list when that list is in use and on
\* the platform's when the relay is shared.
FollowedThrough ==
  \A d \in Deliveries :
    LET listed == {e \in suppressed : e[2] = d}
    IN /\ outbox[d] + broken[d] + Cardinality(Following(d)) = ends[d]
       /\ delivery[d] \in Ended => ends[d] > 0
       /\ listed \subseteq IF ends[d] > 0 /\ d \notin ProbeLane THEN Belongs(d) ELSE {}
       /\ outbox[d] > 0 /\ d \notin ProbeLane => listed = Belongs(d)

\* A mail Handle is done with: acknowledged or, where nothing is, about to be.
Dealt(m) == mailbox[m] = "acked" \/ \E r \in Replicas : m \in job[r].handled

\* No hard bounce or complaint of this mailbox that was dealt with leaves its
\* delivery in sent, unless it came before that send was committed: before the
\* sender said so, or before an operator had the message sent again.
AckedIsHandled ==
  \A m \in Mails :
    Dealt(m) /\ m \notin early =>
      LET p == parsed[m]
          d == p.c.delivery
      IN /\ p.type \in {"hard", "complaint"}
         /\ d # None /\ SpeaksFor(Letters[letter[m]], d)
         /\ box \in {System, TenantOf[d]}
         /\ p.c.tenant \in {None, TenantOf[d]}
         => delivery[d] # "sent"

\* Every mail is acknowledged in the end, but for the POP3 mailboxes that keep
\* their mail: again and again nothing that has arrived is left unread, whatever
\* failed, and no acknowledged mail is unread again.
EventuallyAcked == []<>(kind = "keep" \/ \A m \in Mails : mailbox[m] # "unread")

\* A DSN that is seen again has been dealt with: "A redelivered DSN. The first
\* one did the work." (process.go)
FirstDidTheWork ==
  (\A m \in Mails : mailbox[m] = "acked") /\ (\A r \in Replicas : job[r] = Idle) =>
     \A d \in Deliveries : delivery[d] \in Ended => outbox[d] > 0
=============================================================================
