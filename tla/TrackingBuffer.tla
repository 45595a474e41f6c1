--------------------------- MODULE TrackingBuffer ---------------------------
(***************************************************************************)
(* Tracking of opens, clicks and unsubscribes: the public routes           *)
(* (internal/api/tracking.go) record into a buffer each control replica    *)
(* keeps (internal/control/tracking.go), a flusher writes the buffer out   *)
(* and derives the first-interaction columns of the delivery, and Close    *)
(* writes what is left at shutdown.                                        *)
(*                                                                         *)
(* A flush is run by the loop, or by Close when the loop never started.    *)
(* An event is stamped with the clock, which here counts the events, so a  *)
(* buffer or a batch is the set of its events and their stamps its order.  *)
(***************************************************************************)
EXTENDS Integers, FiniteSets

CONSTANTS
  Replicas,      \* the replicas modelled in full; the others only write the store
  Deliveries,
  TenantOf,      \* the tenant of each delivery: a flush writes tenant by tenant
  MaxBuffer,     \* cfg.trackMaxBuffer
  Tracked,       \* the kinds the tenant's settings have tracked: opens, clicks
  MaxRecords,    \* bound: how many requests are made
  MaxOutages      \* bound: store calls that fail

ASSUME TrackingAssumption ==
  /\ DOMAIN TenantOf = Deliveries
  /\ MaxBuffer \in Nat \ {0}
  /\ Tracked \subseteq {"open", "click"}
  /\ MaxRecords \in Nat
  /\ MaxOutages \in Nat

VARIABLES
  clock,      \* the last event's timestamp
  buf,        \* what each replica has buffered
  life,       \* of each replica's buffer: started, closed, cancelled; whether Close
              \* found the loop started; history: when the loop swapped last
  flush,      \* the flush that the loop and Close of each replica are in
  stats,      \* TrackingStats of each replica, without Buffered
  events,     \* the tracking_event rows
  firsts,     \* the first-interaction columns, 0 for NULL
  suppressed, \* deliveries whose address is on the suppression list
  notified,   \* deliveries with a recipient.unsubscribed outbox event
  outages,     \* how many store calls may still fail
  recorded    \* history: calls of Record at each replica

trackVars == <<clock, buf, life, flush, stats, events, firsts, suppressed, notified, outages,
          recorded>>

Kinds == {"open", "click", "unsubscribe_clicked", "unsubscribed"}

\* The kinds with a column in the delivery row.
Derived == {"open", "click", "unsubscribed"}

Event == [delivery : Deliveries, kind : Kinds, bot : BOOLEAN, at : Nat]

Flushers == {"loop", "close"}

Life == [started : BOOLEAN, closed : BOOLEAN, cancelled : BOOLEAN, joined : BOOLEAN,
         ended : Nat]

\* loop: unstarted, waiting in its select, flushing, exited.  close: not called,
\* waiting for the loop, about to flush itself, flushing, returned.
Flush == [stage : {"off", "waiting", "stopping", "inserting", "deriving", "returned"},
          batch : SUBSET Event, derive : SUBSET Event, last : BOOLEAN]

TrackTypeOK ==
  /\ clock \in 0..MaxRecords
  /\ buf \in [Replicas -> SUBSET Event]
  /\ \A r \in Replicas : Cardinality(buf[r]) <= MaxBuffer
  /\ life \in [Replicas -> Life]
  /\ flush \in [Replicas -> [Flushers -> Flush]]
  /\ stats \in [Replicas -> [flushed : Nat, dropped : Nat, failed : Nat]]
  /\ events \subseteq Event
  /\ firsts \in [Deliveries -> [Derived -> Nat]]
  /\ suppressed \subseteq Deliveries
  /\ notified \subseteq Deliveries
  /\ outages \in 0..MaxOutages
  /\ recorded \in [Replicas -> Nat]

-----------------------------------------------------------------------------

Outage == outages > 0 /\ outages' = outages - 1

Off == [stage |-> "off", batch |-> {}, derive |-> {}, last |-> FALSE]

TrackInit ==
  /\ clock = 0
  /\ buf = [r \in Replicas |-> {}]
  /\ life = [r \in Replicas |-> [started |-> FALSE, closed |-> FALSE, cancelled |-> FALSE,
                                 joined |-> FALSE, ended |-> 0]]
  /\ flush = [r \in Replicas |-> [f \in Flushers |-> Off]]
  /\ stats = [r \in Replicas |-> [flushed |-> 0, dropped |-> 0, failed |-> 0]]
  /\ events = {}
  /\ firsts = [d \in Deliveries |-> [k \in Derived |-> 0]]
  /\ suppressed = {}
  /\ notified = {}
  /\ outages = MaxOutages
  /\ recorded = [r \in Replicas |-> 0]

-----------------------------------------------------------------------------
(* The public routes.                                                      *)

\* Mutant: the overflow is cut and not counted.
DroppedSilently(r) == 0

\* Mutant: one event too many is kept.
OverflowLate(r) ==
  IF Cardinality(buf[r]) > MaxBuffer THEN Cardinality(buf[r]) - MaxBuffer ELSE 0

\* How many of the oldest events a full buffer gives up for one more.
Overflow(r) ==
  IF Cardinality(buf[r]) >= MaxBuffer THEN Cardinality(buf[r]) - MaxBuffer + 1 ELSE 0

\* What is left of the buffer without them.
Kept(r) == {e \in buf[r] : Cardinality({o \in buf[r] : o.at < e.at}) >= Overflow(r)}

Dropped(r) == Overflow(r)

\* Record: drop when closed, make room when full.  Waking the flusher only makes
\* it run before its ticker, which may fire at any time here.
Record(r, ev) ==
  /\ recorded' = [recorded EXCEPT ![r] = @ + 1]
  /\ IF life[r].closed
       THEN /\ stats' = [stats EXCEPT ![r].dropped = @ + 1]
            /\ UNCHANGED buf
       ELSE /\ buf' = [buf EXCEPT ![r] = Kept(r) \cup {ev}]
            /\ stats' = [stats EXCEPT ![r].dropped = @ + Dropped(r)]

\* TrackOpen, TrackClick and TrackUnsubscribeClick, for a token that verified.
\* looksLikeBot depends on the user agent and the time, so it may say either.
Track(r, d, kind, bot) ==
  /\ clock < MaxRecords
  /\ kind \in Tracked \cup {"unsubscribe_clicked"}
  /\ clock' = clock + 1
  /\ Record(r, [delivery |-> d, kind |-> kind, bot |-> bot, at |-> clock'])
  /\ UNCHANGED <<life, flush, events, firsts, suppressed, notified, outages>>

\* OneClickUnsubscribe: the event, the suppression and the outbox event are
\* each on their own.
OneClickUnsubscribe(r, d) ==
  /\ clock < MaxRecords
  /\ clock' = clock + 1
  /\ Record(r, [delivery |-> d, kind |-> "unsubscribed", bot |-> FALSE, at |-> clock'])
  /\ \/ suppressed' = suppressed \cup {d} /\ notified' = notified \cup {d} /\ UNCHANGED outages
     \/ suppressed' = suppressed \cup {d} /\ UNCHANGED notified /\ Outage
     \/ notified' = notified \cup {d} /\ UNCHANGED suppressed /\ Outage
  /\ UNCHANGED <<life, flush, events, firsts>>

-----------------------------------------------------------------------------
(* A flush.                                                                *)

\* The buffer is taken under the lock; an empty one ends the flush at once.
Swapped(r, last, next) ==
  IF buf[r] = {} THEN [Off EXCEPT !.stage = next]
  ELSE [stage |-> "inserting", batch |-> buf[r], derive |-> {}, last |-> last]

\* After the flush the loop waits again, or exits; Close returns.
Ended(f, j) ==
  [Off EXCEPT !.stage = IF f = "loop" /\ ~j.last THEN "waiting" ELSE "returned"]

Batched(r, f, tenant) ==
  {e \in flush[r][f].batch : TenantOf[e.delivery] = tenant}

Rest(r, f, tenant) ==
  {e \in flush[r][f].batch : TenantOf[e.delivery] # tenant}

\* The events deriveFirsts looks at.
Derivable(evs) == {e \in evs : ~e.bot /\ e.kind \in Derived}

\* What is left of the flush, and its end when nothing is.
Continue(f, j) == IF j.batch = {} /\ j.derive = {} THEN Ended(f, j) ELSE j

\* Mutant: a failed insert does not end the tenant's turn.
DeriveAnyway(evs) == Derivable(evs)

\* A failed insert does.
DeriveAfterFailure(evs) == {}

\* One tenant's events are inserted, or lost to an error.
InsertEvents(r, f, tenant) ==
  LET j  == flush[r][f]
      n  == Cardinality(Batched(r, f, tenant))
      to(derive) == Continue(f, [j EXCEPT !.batch = Rest(r, f, tenant), !.derive = derive,
                                          !.stage = IF derive = {} THEN @ ELSE "deriving"])
  IN /\ j.stage = "inserting" /\ Batched(r, f, tenant) # {}
     /\ \/ /\ events' = events \cup Batched(r, f, tenant)
           /\ stats' = [stats EXCEPT ![r].flushed = @ + n]
           /\ flush' = [flush EXCEPT ![r][f] = to(Derivable(Batched(r, f, tenant)))]
           /\ UNCHANGED outages
        \/ /\ Outage
           /\ stats' = [stats EXCEPT ![r].failed = @ + n]
           /\ flush' = [flush EXCEPT ![r][f] = to(DeriveAfterFailure(Batched(r, f, tenant)))]
           /\ UNCHANGED events
     /\ UNCHANGED <<clock, buf, life, firsts, suppressed, notified, recorded>>

\* setFirst: only a NULL column is written.
SetFirst(old, at) == IF old = 0 THEN at ELSE old

Earliest(evs) == CHOOSE e \in evs : \A o \in evs : e.at <= o.at

\* deriveFirsts, one call; later events of the same kind and delivery in this
\* batch are passed over.
DeriveFirst(r, f) ==
  LET j    == flush[r][f]
      e    == Earliest(j.derive)
      left == {o \in j.derive : o.kind # e.kind \/ o.delivery # e.delivery}
  IN /\ j.stage = "deriving"
     /\ \/ /\ firsts' = [firsts EXCEPT ![e.delivery][e.kind] = SetFirst(@, e.at)]
           /\ UNCHANGED outages
        \/ Outage /\ UNCHANGED firsts
     /\ flush' = [flush EXCEPT ![r][f] =
                    Continue(f, [j EXCEPT !.derive = left,
                                          !.stage = IF left = {} THEN "inserting" ELSE @])]
     /\ UNCHANGED <<clock, buf, life, stats, events, suppressed, notified, recorded>>

\* A replica outside the model has recorded and flushed an event of its own.
PeerFlush(d, kind) ==
  /\ clock < MaxRecords
  /\ clock' = clock + 1
  /\ events' = events \cup {[delivery |-> d, kind |-> kind, bot |-> FALSE, at |-> clock']}
  /\ firsts' = [firsts EXCEPT ![d][kind] = SetFirst(@, clock')]
  /\ UNCHANGED <<buf, life, flush, stats, suppressed, notified, outages, recorded>>

-----------------------------------------------------------------------------
(* The loop and its end.                                                   *)

Start(r) ==
  /\ ~life[r].started
  /\ life' = [life EXCEPT ![r].started = TRUE]
  /\ flush' = [flush EXCEPT ![r]["loop"] = [Off EXCEPT !.stage = "waiting"]]
  /\ UNCHANGED <<clock, buf, stats, events, firsts, suppressed, notified, outages, recorded>>

\* Mutant: the loop does not look at stop.
OnlyCancelled(r) == life[r].cancelled

\* What ends the loop: the context, or stop.
Over(r) == life[r].cancelled \/ flush[r]["close"].stage # "off"

\* The select of the loop: the ticker or wake, or for the last time.
LoopFlush(r, last) ==
  /\ flush[r]["loop"].stage = "waiting"
  /\ last => Over(r)
  /\ flush' = [flush EXCEPT ![r]["loop"] = Swapped(r, last, IF last THEN "returned" ELSE "waiting")]
  /\ buf' = [buf EXCEPT ![r] = {}]
  /\ life' = IF last THEN [life EXCEPT ![r].ended = clock] ELSE life
  /\ UNCHANGED <<clock, stats, events, firsts, suppressed, notified, outages, recorded>>

\* The context given to start is cancelled.
Cancel(r) ==
  /\ life[r].started /\ ~life[r].cancelled
  /\ life' = [life EXCEPT ![r].cancelled = TRUE]
  /\ UNCHANGED <<clock, buf, flush, stats, events, firsts, suppressed, notified, outages,
                 recorded>>

\* Close, up to the unlock and close(stop): what it does next depends on whether
\* the loop was started, and a start after this goes unnoticed.
Close(r) ==
  /\ flush[r]["close"].stage = "off"
  /\ life' = [life EXCEPT ![r].closed = TRUE, ![r].joined = life[r].started]
  /\ flush' = [flush EXCEPT ![r]["close"].stage =
                 IF life[r].started THEN "waiting" ELSE "stopping"]
  /\ UNCHANGED <<clock, buf, stats, events, firsts, suppressed, notified, outages, recorded>>

\* finalFlush of a Close that found no loop.
FinalFlush(r) ==
  /\ flush[r]["close"].stage = "stopping"
  /\ flush' = [flush EXCEPT ![r]["close"] = Swapped(r, TRUE, "returned")]
  /\ buf' = [buf EXCEPT ![r] = {}]
  /\ UNCHANGED <<clock, life, stats, events, firsts, suppressed, notified, outages, recorded>>

\* Mutant: Close does not wait for the loop's last flush.
NotWaited(r) ==
  /\ flush[r]["close"].stage = "waiting"
  /\ flush' = [flush EXCEPT ![r]["close"].stage = "returned"]
  /\ UNCHANGED <<clock, buf, life, stats, events, firsts, suppressed, notified, outages,
                 recorded>>

\* loopDone is closed.
LoopDone(r) ==
  /\ flush[r]["close"].stage = "waiting"
  /\ flush[r]["loop"].stage = "returned"
  /\ flush' = [flush EXCEPT ![r]["close"].stage = "returned"]
  /\ UNCHANGED <<clock, buf, life, stats, events, firsts, suppressed, notified, outages,
                 recorded>>

-----------------------------------------------------------------------------

FlushStep(r, f) ==
  \/ \E d \in Deliveries : InsertEvents(r, f, TenantOf[d])
  \/ DeriveFirst(r, f)

Loop(r) == FlushStep(r, "loop") \/ \E last \in BOOLEAN : LoopFlush(r, last)

Closing(r) == FlushStep(r, "close") \/ FinalFlush(r) \/ LoopDone(r)

\* The process is gone once every Close has returned and no request is left.
Stopped ==
  /\ clock = MaxRecords
  /\ \A r \in Replicas : flush[r]["close"].stage = "returned" /\ life[r].started
  /\ UNCHANGED trackVars

TrackNext ==
  \/ \E r \in Replicas, d \in Deliveries :
       \/ \E kind \in Kinds, bot \in BOOLEAN : Track(r, d, kind, bot)
       \/ OneClickUnsubscribe(r, d)
  \/ \E d \in Deliveries, kind \in Tracked \cup {"unsubscribed"} : PeerFlush(d, kind)
  \/ \E r \in Replicas : Start(r) \/ Loop(r) \/ Closing(r) \/ Cancel(r) \/ Close(r)
  \/ Stopped

TrackSpec == TrackInit /\ [][TrackNext]_trackVars

\* The loop's goroutine runs, store calls return, and so does Close.
TrackFairness == \A r \in Replicas : WF_trackVars(Loop(r)) /\ WF_trackVars(Closing(r))

FairTrackSpec == TrackSpec /\ TrackFairness

-----------------------------------------------------------------------------
(* Properties.                                                             *)

InFlight(r) ==
  Cardinality(flush[r]["loop"].batch) + Cardinality(flush[r]["close"].batch)

\* No event disappears unnoticed: every recorded event is buffered, being
\* written, or counted as flushed, dropped or failed.
EveryEventCounted ==
  \A r \in Replicas :
    recorded[r] = Cardinality(buf[r]) + InFlight(r)
                  + stats[r].flushed + stats[r].dropped + stats[r].failed

\* A first-interaction column names an event that is in the store, of that kind
\* and not a bot's, whichever replica wrote it and whatever failed on the way.
FirstsHaveEvents ==
  \A d \in Deliveries, k \in Derived :
    firsts[d][k] # 0 => [delivery |-> d, kind |-> k, bot |-> FALSE, at |-> firsts[d][k]] \in events

\* What Close may leave behind.  An event is still buffered only if it was recorded
\* after the last flush of a loop that a cancelled context had ended; an event is
\* still being written only if a start slipped in after Close had found no loop.
CloseFlushes ==
  \A r \in Replicas :
    flush[r]["close"].stage = "returned" =>
      /\ \A e \in buf[r] : life[r].joined /\ life[r].cancelled /\ e.at > life[r].ended
      /\ flush[r]["close"].batch = {}
      /\ life[r].joined => flush[r]["loop"].batch = {}

\* Close returns: it never waits for a loop that will not end.
CloseReturns ==
  \A r \in Replicas : life[r].closed ~> flush[r]["close"].stage = "returned"
=============================================================================
