---------------------------- MODULE UserSyncProofs ----------------------------
(***************************************************************************)
(* What holds of the user directory for every number of users, emails,     *)
(* events and faults, and every prefetch.                                  *)
(***************************************************************************)
EXTENDS UserSync, ConsumerProofs

-----------------------------------------------------------------------------
(* The inductive invariant.                                                *)

\* The number of the last event.
Last == Len(log)

Stopped == {"down", "starting", "stopped"}
Returned == {"succeeded", "failed"}

Awaiting(c) == {d.msg : d \in inbox[c]}

\* Where the events are.  Those up to s have left the queue for good.  The
\* loop has come to p: to s, unless it works off the buffer of a lost
\* channel.  The buffer ends at t.  The handler has returned from every event
\* up to h at least once, and in its replay it is never more than a prefetch
\* behind that.
Line(c, s, p, h, t) ==
  /\ s <= p /\ p <= t /\ t <= Last /\ t <= s + Prefetch
  /\ p <= h /\ h <= Last /\ h <= s + Prefetch
  /\ retrying = {}
  /\ ready = IF link[c] = "open" THEN (t + 1)..Last ELSE (s + 1)..Last
  /\ link[c] = "open" => p = IF pc[c] \in Returned THEN s + 1 ELSE s
  /\ pc[c] \in Stopped => p = s
  /\ pc[c] = "handling" => cur[c].msg = p + 1 /\ p < t
  /\ pc[c] \in Returned => cur[c].msg = p /\ s < p
  /\ pc[c] # "parked"
  /\ Awaiting(c) = IF pc[c] \in Stopped THEN {}
                   ELSE IF pc[c] = "handling" THEN (p + 2)..t ELSE (p + 1)..t
  /\ \A d, e \in inbox[c] : d.msg = e.msg => d = e

\* Every event the handler returned from was received, and received twice
\* before it returns once more.
Calls(c, h) ==
  /\ \A m \in 1..h : attempts[m] >= 1
  /\ pc[c] = "handling" =>
       attempts[cur[c].msg] >= IF cur[c].msg <= h THEN 2 ELSE 1

\* How an event changes Verisafe's directory, and when Verisafe sends it.
Follows(old, e, new) ==
  \/ e.type = "other" /\ new = old
  \/ /\ e.type = "user.created" /\ old[e.id] = NoUser
     /\ ~Taken(old, e.user.email, e.id)
     /\ new = [old EXCEPT ![e.id] = e.user]
  \/ /\ e.type = "user.updated" /\ old[e.id] # NoUser
     /\ ~Taken(old, e.user.email, e.id)
     /\ new = [old EXCEPT ![e.id] = e.user]
  \/ /\ e.type = "user.deleted" /\ new = [old EXCEPT ![e.id] = NoUser]

\* Event e saves user as u.
Saved(e, u, user) ==
  e.type \in {"user.created", "user.updated"} /\ e.id = u /\ e.user = user

\* Of the events evs that made directory now, dir[k] is Verisafe's directory
\* after the first k.  What a row has come to be was saved on the way.
Chronicle(evs, now, dir) ==
  /\ dir \in [0..Len(evs) -> [Users -> Present \union {NoUser}]]
  /\ dir[Len(evs)] = now
  /\ \A i \in 1..Len(evs) : Follows(dir[i - 1], evs[i], dir[i])
  /\ \A a, b \in 0..Len(evs) : \A u \in Users :
       a <= b => \/ dir[b][u] = dir[a][u]
                 \/ dir[b][u] = NoUser
                 \/ \E j \in (a + 1)..b : Saved(evs[j], u, dir[b][u])

\* A local row that is Verisafe's, but for a cleared phone.
Copies(row, user) ==
  /\ row.email = user.email
  /\ row.phone # user.phone => user.phone = None

\* Each row of a user that is not disturbed is as Verisafe had it after one
\* of the events between the one the loop has come to and the last one
\* handled, and no event of such a user was discarded unapplied.
Rows(dir, p, h) ==
  dbFaults = 0 =>
    /\ \A u \in Users :
         Undisturbed(u) => \E k \in p..h : Copies(users[u], dir[k][u])
    /\ \A m \in 1..h : \A u \in Users :
         log[m].type # "other" /\ log[m].id = u /\ Undisturbed(u) => m \in applied

\* Each email in the table was published for its user.
Explained ==
  \A u \in Users :
    \/ users[u] = NoUser
    \/ \E j \in Saves : log[j].id = u /\ log[j].user.email = users[u].email

Position(c, s, p, h, t, dir) ==
  /\ Line(c, s, p, h, t)
  /\ Calls(c, h)
  /\ Chronicle(log, source, dir)
  /\ Rows(dir, p, h)

SyncInv ==
  /\ SyncTypeOK
  /\ Explained
  /\ \E c \in Consumers, s, p, h, t \in Nat : \E dir : Position(c, s, p, h, t, dir)

-----------------------------------------------------------------------------
(* Where the events are.                                                   *)

LEMMA FirstOfRange ==
  ASSUME NEW a \in Nat, NEW b \in Nat, a <= b
  PROVE  First(a..b) = a
<1>1. \E m \in a..b : \A n \in a..b : m <= n
  BY a \in a..b
<1>2. First(a..b) \in a..b /\ \A n \in a..b : First(a..b) <= n
  BY <1>1 DEF First
<1>3. QED
  BY <1>2

\* What the broker waits for an answer to.
LEMMA LineUnacked ==
  ASSUME TypeOK, NEW c \in Consumers, Consumers = {c},
         NEW s \in Nat, NEW p \in Nat, NEW h \in Nat, NEW t \in Nat,
         Last \in Nat, Line(c, s, p, h, t)
  PROVE  /\ Unacked(c) = IF link[c] = "open" THEN (s + 1)..t ELSE {}
         /\ InFlight = (s + 1)..Last
<1>1. ASSUME link[c] = "open" PROVE Unacked(c) = (s + 1)..t
  <2>1. pc[c] \in {"idle", "handling", "succeeded", "failed"}
    BY <1>1 DEF TypeOK, Line, Holding, Idle, Stopped
  <2>2. CASE pc[c] = "idle"
    <3>1. Unacked(c) = Awaiting(c)
      BY <1>1, <2>2 DEF Unacked, Deliveries, Awaiting, Holding
    <3>2. QED
      BY <1>1, <2>2, <3>1 DEF Line, Stopped, Returned
  <2>3. CASE pc[c] # "idle"
    <3>1. Unacked(c) = Awaiting(c) \union {cur[c].msg}
      BY <1>1, <2>1, <2>3 DEF Unacked, Deliveries, Awaiting, Holding
    <3>2. CASE pc[c] = "handling"
      BY <1>1, <3>1, <3>2 DEF Line, Stopped, Returned
    <3>3. CASE pc[c] \in Returned
      BY <1>1, <3>1, <3>3 DEF Line, Stopped, Returned
    <3>4. QED
      BY <2>1, <2>3, <3>2, <3>3 DEF Returned
  <2>4. QED
    BY <2>2, <2>3
<1>2. ASSUME link[c] # "open" PROVE Unacked(c) = {}
  BY <1>2 DEF Unacked
<1>3. InFlight = ready \union Unacked(c)
  BY DEF InFlight, Line
<1>4. InFlight = (s + 1)..Last
  BY <1>1, <1>2, <1>3 DEF Line
<1>5. QED
  BY <1>1, <1>2, <1>4

\* An event more.
LEMMA LinePublish ==
  ASSUME NEW c \in Consumers,
         NEW s \in Nat, NEW p \in Nat, NEW h \in Nat, NEW t \in Nat,
         Last \in Nat, Line(c, s, p, h, t),
         Last' = Last + 1, ready' = ready \union {Last + 1},
         UNCHANGED <<retrying, replicaVars>>
  PROVE  Line(c, s, p, h, t)'
<1>1. UNCHANGED <<link, pc, inbox, cur>> /\ Awaiting(c)' = Awaiting(c)
  BY DEF replicaVars, Awaiting
<1>2. ready' = IF link[c] = "open" THEN (t + 1)..(Last + 1) ELSE (s + 1)..(Last + 1)
  BY DEF Line
<1>3. QED
  BY <1>1, <1>2 DEF Line

\* The next event is buffered.
LEMMA LineDeliver ==
  ASSUME TypeOK, NEW c \in Consumers, Consumers = {c},
         NEW s \in Nat, NEW p \in Nat, NEW h \in Nat, NEW t \in Nat,
         Last \in Nat, Line(c, s, p, h, t),
         ready # {}, Deliver(c, First(ready)), Last' = Last
  PROVE  Line(c, s, p, h, t + 1)'
<1>1. link[c] = "open" /\ pc[c] \notin Stopped
  BY DEF Deliver, TypeOK, Stopped
<1>2. ready = (t + 1)..Last /\ t + 1 <= Last
  BY <1>1 DEF Line
<1>3. First(ready) = t + 1
  BY <1>2, FirstOfRange
<1>4. UNCHANGED <<link, pc, cur, retrying>> /\ ready' = ready \ {t + 1}
  BY <1>3 DEF Deliver
<1>5. t + 1 <= s + Prefetch
  <2>1. Cardinality((s + 1)..t) < Prefetch
    BY <1>1, LineUnacked DEF Deliver
  <2>2. QED
    BY <2>1, FS_Interval, ConsumerAssumption DEF Line
<1>0. inbox'[c] = inbox[c] \union {[msg |-> t + 1, deaths |-> xdeath[t + 1]]}
  BY <1>3 DEF Deliver, TypeOK
<1>6. PICK x : x.msg = t + 1 /\ inbox'[c] = inbox[c] \union {x}
  BY <1>0
<1>7. Awaiting(c)' = Awaiting(c) \union {t + 1}
  BY <1>6 DEF Awaiting
<1>8. t + 1 \notin Awaiting(c)
  BY <1>1 DEF Line
<1>9. Awaiting(c)' = IF pc[c] = "handling" THEN (p + 2)..(t + 1)
                     ELSE (p + 1)..(t + 1)
  BY <1>1, <1>7 DEF Line
<1>10. \A d, e \in inbox'[c] : d.msg = e.msg => d = e
  BY <1>6, <1>8 DEF Line, Awaiting
<1>11. ready' = (t + 2)..Last
  BY <1>2, <1>4
<1>12. QED
  BY <1>1, <1>2, <1>4, <1>5, <1>9, <1>10, <1>11 DEF Line

\* The loop takes the first event of its buffer.
LEMMA LineReceive ==
  ASSUME TypeOK, NEW c \in Consumers,
         NEW s \in Nat, NEW p \in Nat, NEW h \in Nat, NEW t \in Nat,
         Last \in Nat, Line(c, s, p, h, t), Last' = Last,
         NEW d \in inbox[c], d.msg = First(Awaiting(c)), Receive(c, d)
  PROVE  Line(c, s, p, h, t)' /\ d.msg = p + 1 /\ pc'[c] = "handling"
         /\ cur'[c] = d /\ p < t
<1>1. pc[c] = "idle" /\ Awaiting(c) = (p + 1)..t
  BY DEF Receive, Line, Stopped
<1>2. d.msg \in (p + 1)..t
  BY <1>1 DEF Awaiting
<1>3. d.msg = p + 1 /\ p < t
  BY <1>1, <1>2, FirstOfRange
<1>4. /\ pc'[c] = "handling" /\ cur'[c] = d /\ inbox'[c] = inbox[c] \ {d}
      /\ UNCHANGED <<link, ready, retrying>>
  BY DEF Receive, TypeOK, brokerVars
<1>5. Awaiting(c)' = Awaiting(c) \ {p + 1}
  BY <1>3, <1>4 DEF Awaiting, Line
<1>6. Awaiting(c)' = (p + 2)..t
  BY <1>1, <1>3, <1>5
<1>7. QED
  BY <1>1, <1>3, <1>4, <1>6 DEF Line, Stopped, Returned

\* The larger of the events handled so far and the one just handled.
Reach(h, p) == IF h < p + 1 THEN p + 1 ELSE h

\* The handler returns.
LEMMA LineReturn ==
  ASSUME TypeOK, NEW c \in Consumers,
         NEW s \in Nat, NEW p \in Nat, NEW h \in Nat, NEW t \in Nat,
         Last \in Nat, Line(c, s, p, h, t), Last' = Last,
         NEW o \in Returned, HandlerReturns(c, o)
  PROVE  Line(c, s, p + 1, Reach(h, p), t)'
<1>1. /\ pc[c] = "handling" /\ pc'[c] = o
      /\ UNCHANGED <<link, inbox, cur, ready, retrying>>
  BY DEF HandlerReturns, TypeOK, brokerVars
<1>2. Awaiting(c)' = (p + 2)..t
  BY <1>1 DEF Awaiting, Line, Stopped
<1>3. /\ Reach(h, p) \in Nat /\ p + 1 <= Reach(h, p)
      /\ Reach(h, p) <= Last /\ Reach(h, p) <= s + Prefetch
  BY <1>1, ConsumerAssumption DEF Reach, Line
<1>4. /\ pc'[c] \in Returned /\ pc'[c] \notin Stopped
      /\ pc'[c] \notin {"handling", "parked"}
  BY <1>1 DEF Returned, Stopped
<1>5. /\ s < p + 1 /\ p + 1 <= t /\ cur'[c].msg = p + 1
      /\ link'[c] = "open" => p + 1 = s + 1
  BY <1>1 DEF Line, Returned
<1>6. QED
  BY <1>1, <1>2, <1>3, <1>4, <1>5 DEF Line

\* The loop is done with an event, which leaves the queue if its channel is
\* still open.
LEMMA LineFinish ==
  ASSUME TypeOK, NEW c \in Consumers,
         NEW s \in Nat, NEW p \in Nat, NEW h \in Nat, NEW t \in Nat,
         Last \in Nat, Line(c, s, p, h, t), Last' = Last,
         pc[c] \in Returned, Finish(c), UNCHANGED <<ready, retrying>>
  PROVE  Line(c, IF link[c] = "open" THEN s + 1 ELSE s, p, h, t)'
<1>1. pc'[c] = "idle" /\ UNCHANGED <<link, inbox>>
  BY DEF Finish, TypeOK
<1>2. Awaiting(c)' = (p + 1)..t
  BY <1>1 DEF Awaiting, Line, Stopped, Returned
<1>3. CASE link[c] = "open"
  <2>1. p = s + 1 /\ ready' = (t + 1)..Last
    BY <1>3 DEF Line
  <2>2. QED
    BY <1>1, <1>2, <1>3, <2>1, ConsumerAssumption DEF Line, Stopped, Returned
<1>4. CASE link[c] # "open"
  BY <1>1, <1>2, <1>4 DEF Line, Stopped, Returned
<1>5. QED
  BY <1>3, <1>4

\* A channel without a loop, or a loop that starts: what was delivered is
\* back in the queue.
LEMMA LineRestarts ==
  ASSUME TypeOK, NEW c \in Consumers,
         NEW s \in Nat, NEW p \in Nat, NEW h \in Nat, NEW t \in Nat,
         Last \in Nat, Line(c, s, p, h, t), Last' = Last,
         inbox'[c] = {}, retrying' = retrying, ready' = (s + 1)..Last,
         \/ pc'[c] \in Stopped /\ link'[c] # "open"
         \/ pc'[c] = "idle"
  PROVE  Line(c, s, s, h, s)'
<1>1. Awaiting(c)' = {}
  BY DEF Awaiting
<1>2. (s + 1)..s = {}
  OBVIOUS
<1>3. QED
  BY <1>1, <1>2, ConsumerAssumption DEF Line, Stopped, Returned

\* Start-up, the end of the loop, and faults.
LEMMA LineFailure ==
  ASSUME TypeOK, NEW c \in Consumers, Consumers = {c},
         NEW s \in Nat, NEW p \in Nat, NEW h \in Nat, NEW t \in Nat,
         Last \in Nat, Line(c, s, p, h, t), Last' = Last,
         ConsumerStops(c) \/ Start(c) \/ Failure(c)
  PROVE  Line(c, s, p, h, t)' \/ Line(c, s, s, h, s)'
<1>1. ready \union Unacked(c) = (s + 1)..Last
  BY LineUnacked DEF Line, InFlight
<1>2. CASE ConsumerStops(c)
  <2>1. /\ pc'[c] = "stopped" /\ inbox'[c] = {} /\ link'[c] # "open"
        /\ UNCHANGED <<ready, retrying>> /\ ready = (s + 1)..Last
    BY <1>2 DEF ConsumerStops, TypeOK, brokerVars, Line
  <2>2. QED
    BY <2>1, LineRestarts DEF Stopped
<1>3. CASE Start(c)
  <2>1. /\ pc[c] \in {"down", "starting"} /\ inbox' = inbox /\ inbox[c] = {}
        /\ UNCHANGED <<ready, retrying>> /\ link[c] # "open"
    BY <1>3 DEF Start, DeclareRetryTopology, Subscribe, SubscribeFails, TypeOK
  <2>2. pc'[c] = "idle" \/ (pc'[c] \in {"starting", "stopped"} /\ link' = link)
    BY <1>3 DEF Start, DeclareRetryTopology, Subscribe, SubscribeFails, TypeOK
  <2>3. ready = (s + 1)..Last
    BY <2>1 DEF Line
  <2>4. QED
    BY <2>1, <2>2, <2>3, LineRestarts DEF Stopped
<1>4. CASE ChannelLost(c) \/ ConnectionLost(c)
  <2>1. /\ link'[c] \in {"channel_closed", "connection_closed"}
        /\ UNCHANGED <<pc, inbox, cur, retrying>>
        /\ ready' = ready \union Unacked(c)
    BY <1>4 DEF ChannelLost, ConnectionLost, TypeOK
  <2>2. Awaiting(c)' = Awaiting(c)
    BY <2>1 DEF Awaiting
  <2>3. QED
    BY <1>1, <2>1, <2>2 DEF Line
<1>5. CASE Crash(c)
  <2>1. /\ pc'[c] = "down" /\ link'[c] = "none" /\ inbox'[c] = {}
        /\ ready' = ready \union Unacked(c) /\ retrying' = retrying
    BY <1>5 DEF Crash, TypeOK
  <2>2. QED
    BY <1>1, <2>1, LineRestarts DEF Stopped
<1>6. QED
  BY <1>2, <1>3, <1>4, <1>5 DEF Failure

-----------------------------------------------------------------------------
(* Verisafe's directory over time.                                         *)

\* What is in an event.
LEMMA EventFields ==
  ASSUME NEW e \in Event, e.type # "other"
  PROVE  /\ e.type \in {"user.created", "user.updated", "user.deleted"}
         /\ e.id \in Users /\ e.user \in Present
BY DEF Event

LEMMA SavesAreEvents ==
  ASSUME log \in Seq(Event), NEW i \in Saves
  PROVE  /\ i \in 1..Last /\ log[i].id \in Users /\ log[i].user \in Present
         /\ log[i].user.email \in Emails /\ log[i].user.email # None
<1>1. i \in 1..Last /\ log[i] \in Event /\ log[i].type # "other"
  BY DEF Saves, Last
<1>2. log[i].id \in Users /\ log[i].user \in Present
  BY <1>1, EventFields
<1>3. QED
  BY <1>1, <1>2, UserSyncAssumption DEF Present

\* One event more leaves the earlier ones where they are.
LEMMA LogGrows ==
  ASSUME log \in Seq(Event), NEW e \in Event, log' = Append(log, e)
  PROVE  /\ log' \in Seq(Event)
         /\ Last \in Nat /\ Last' = Last + 1 /\ log'[Last + 1] = e
         /\ \A i \in 1..Last : log'[i] = log[i]
         /\ Saves \subseteq Saves'
         /\ \A i \in Saves : log'[i] = log[i]
<1>1. /\ Last \in Nat /\ Last' = Last + 1 /\ log'[Last + 1] = e
      /\ \A i \in 1..Last : log'[i] = log[i]
      /\ log' \in Seq(Event)
  BY DEF Last
<1>2. DOMAIN log = 1..Last /\ DOMAIN log' = 1..(Last + 1)
  BY <1>1 DEF Last
<1>3. Saves \subseteq Saves' /\ \A i \in Saves : i \in 1..Last
  BY <1>1, <1>2 DEF Saves
<1>4. QED
  BY <1>1, <1>3

\* A user that is disturbed stays so.
LEMMA Calmer ==
  ASSUME TypeOK, NEW u \in Users, Undisturbed(u)',
         Saves \subseteq Saves', \A i \in Saves : log'[i] = log[i],
         \A i \in Saves : i \in Nat,
         \A m \in Messages : attempts[m] <= attempts'[m] /\ attempts'[m] \in Nat
  PROVE  Undisturbed(u)
<1>1. CASE NoReplay'
  <2>1. ASSUME NEW m \in Messages PROVE attempts[m] <= 1
    BY <1>1 DEF NoReplay, TypeOK
  <2>2. QED
    BY <2>1 DEF NoReplay, Undisturbed
<1>2. CASE HandedOverApart'
  <2>1. ASSUME NEW i \in Saves, NEW j \in Saves, HandOver(i, j), i < j
        PROVE  j - i >= Prefetch
    <3>1. HandOver(i, j)'
      BY <2>1 DEF HandOver
    <3>2. QED
      BY <1>2, <2>1, <3>1 DEF HandedOverApart
  <2>2. QED
    BY <2>1 DEF HandedOverApart, Undisturbed
<1>3. CASE OwnEmails(u)'
  <2>1. ASSUME NEW i \in Saves, NEW j \in Saves, log[i].id = u, HandOver(i, j)
        PROVE  FALSE
    <3>1. HandOver(i, j)' /\ log'[i].id = u
      BY <2>1 DEF HandOver
    <3>2. QED
      BY <1>3, <2>1, <3>1 DEF OwnEmails
  <2>2. QED
    BY <2>1 DEF OwnEmails, Undisturbed
<1>4. QED
  BY <1>1, <1>2, <1>3 DEF Undisturbed


\* The chronicle after one event more.
LEMMA ChronicleExtends ==
  ASSUME NEW evs \in Seq(Event), NEW e \in Event,
         NEW old, NEW now \in [Users -> Present \union {NoUser}],
         NEW dir, Chronicle(evs, old, dir), Follows(old, e, now),
         \A u \in Users : now[u] = old[u] \/ now[u] = NoUser \/ Saved(e, u, now[u])
  PROVE  \E new : /\ Chronicle(Append(evs, e), now, new)
                  /\ \A k \in 0..Len(evs) : new[k] = dir[k]
<1> DEFINE n == Len(evs)
           more == Append(evs, e)
           new == [k \in 0..(n + 1) |-> IF k <= n THEN dir[k] ELSE now]
<1>1. /\ n \in Nat /\ Len(more) = n + 1 /\ more[n + 1] = e
      /\ \A i \in 1..n : more[i] = evs[i]
  OBVIOUS
<1>a. /\ dir \in [0..n -> [Users -> Present \union {NoUser}]]
      /\ dir[n] = old
      /\ \A i \in 1..n : Follows(dir[i - 1], evs[i], dir[i])
      /\ \A a, b \in 0..n : \A u \in Users :
           a <= b => \/ dir[b][u] = dir[a][u]
                     \/ dir[b][u] = NoUser
                     \/ \E j \in (a + 1)..b : Saved(evs[j], u, dir[b][u])
  BY DEF Chronicle
<1> HIDE DEF n, more
<1>2. /\ \A k \in 0..n : new[k] = dir[k]
      /\ new[n + 1] = now
  BY <1>1
<1>3. new \in [0..(n + 1) -> [Users -> Present \union {NoUser}]]
  BY <1>1, <1>a
<1> HIDE DEF new
<1>4. ASSUME NEW i \in 1..(n + 1) PROVE Follows(new[i - 1], more[i], new[i])
  <2>1. CASE i <= n
    <3>1. i \in 1..n /\ i - 1 \in 0..n /\ i \in 0..n
      BY <1>1, <2>1
    <3>2. Follows(dir[i - 1], evs[i], dir[i])
      BY <1>a, <3>1
    <3>3. QED
      BY <1>1, <1>2, <3>1, <3>2
  <2>2. CASE i = n + 1
    <3>1. i - 1 = n /\ n \in 0..n
      BY <1>1, <2>2
    <3>2. new[i - 1] = old /\ new[i] = now /\ more[i] = e
      BY <1>1, <1>2, <1>a, <2>2, <3>1
    <3>3. QED
      BY <3>2
  <2>3. QED
    BY <1>1, <2>1, <2>2
<1>5. ASSUME NEW a \in 0..(n + 1), NEW b \in 0..(n + 1), NEW u \in Users, a <= b
      PROVE  \/ new[b][u] = new[a][u]
             \/ new[b][u] = NoUser
             \/ \E j \in (a + 1)..b : Saved(more[j], u, new[b][u])
  <2>1. CASE b <= n
    <3>1. a \in 0..n /\ b \in 0..n
      BY <1>1, <1>5, <2>1
    <3>2. \/ dir[b][u] = dir[a][u]
          \/ dir[b][u] = NoUser
          \/ \E j \in (a + 1)..b : Saved(evs[j], u, dir[b][u])
      BY <1>a, <1>5, <3>1
    <3>3. \A j \in (a + 1)..b : more[j] = evs[j]
      BY <1>1, <3>1
    <3>4. QED
      BY <1>2, <3>1, <3>2, <3>3
  <2>2. CASE a = n + 1
    <3>1. a = b
      BY <1>1, <1>5, <2>2
    <3>2. QED
      BY <3>1
  <2>3. CASE b = n + 1 /\ a <= n
    <3>1. a \in 0..n /\ n \in 0..n
      BY <1>1, <1>5, <2>3
    <3>2. \/ old[u] = dir[a][u]
          \/ old[u] = NoUser
          \/ \E j \in (a + 1)..n : Saved(evs[j], u, old[u])
      BY <1>a, <2>3, <3>1
    <3>3. new[b] = now /\ new[a] = dir[a]
      BY <1>2, <2>3, <3>1
    <3>4. CASE now[u] = old[u] /\ \E j \in (a + 1)..n : Saved(evs[j], u, old[u])
      <4>1. PICK j \in (a + 1)..n : Saved(evs[j], u, old[u])
        BY <3>4
      <4>2. j \in (a + 1)..b /\ j \in 1..n
        BY <1>1, <2>3, <3>1, <4>1
      <4>3. Saved(more[j], u, new[b][u])
        BY <1>1, <3>3, <3>4, <4>1, <4>2
      <4>4. QED
        BY <4>2, <4>3
    <3>5. CASE Saved(e, u, now[u])
      <4>1. n + 1 \in (a + 1)..b
        BY <1>1, <2>3, <3>1
      <4>2. QED
        BY <1>1, <3>3, <3>5, <4>1
    <3>6. QED
      BY <3>2, <3>3, <3>4, <3>5
  <2>4. QED
    BY <1>1, <1>5, <2>1, <2>2, <2>3
<1>6. new[Len(more)] = now
  BY <1>1, <1>2
<1>7. Chronicle(more, now, new)
  BY <1>1, <1>3, <1>4, <1>5, <1>6 DEF Chronicle
<1>8. QED
  BY <1>2, <1>7 DEF n, more

-----------------------------------------------------------------------------
(* The table.                                                              *)

\* Steps that leave the table alone, and let the loop go on where it is or
\* start anew at an earlier event.
LEMMA RowsFrame ==
  ASSUME log \in Seq(Event), NEW p \in Nat, NEW h \in Nat, h <= Last,
         NEW dir, Rows(dir, p, h), NEW new, \A k \in 0..Last : new[k] = dir[k],
         NEW q \in Nat, q <= p, UNCHANGED <<users, applied, dbFaults>>,
         \A u \in Users : Undisturbed(u)' => Undisturbed(u),
         \A i \in 1..Last : log'[i] = log[i]
  PROVE  Rows(new, q, h)'
<1> SUFFICES ASSUME dbFaults' = 0 PROVE Rows(new, q, h)'
  BY DEF Rows
<1>1. Last \in Nat
  BY DEF Last
<1>2. ASSUME NEW u \in Users, Undisturbed(u)'
      PROVE  \E k \in q..h : Copies(users'[u], new[k][u])
  <2>1. PICK k \in p..h : Copies(users[u], dir[k][u])
    BY <1>2 DEF Rows
  <2>2. k \in q..h /\ k \in 0..Last
    BY <1>1, <2>1
  <2>3. QED
    BY <2>1, <2>2
<1>3. ASSUME NEW m \in 1..h, NEW u \in Users, log'[m].type # "other",
             log'[m].id = u, Undisturbed(u)'
      PROVE  m \in applied'
  <2>1. log'[m] = log[m]
    BY <1>1
  <2>2. Undisturbed(u)
    BY <1>3
  <2>3. QED
    BY <1>3, <2>1, <2>2 DEF Rows
<1>4. QED
  BY <1>2, <1>3 DEF Rows

LEMMA ExplainedFrame ==
  ASSUME Explained, users' = users,
         Saves \subseteq Saves', \A i \in Saves : log'[i] = log[i]
  PROVE  Explained'
<1>1. ASSUME NEW u \in Users, users[u] # NoUser
      PROVE  \E j \in Saves' : log'[j].id = u /\ log'[j].user.email = users'[u].email
  <2>1. PICK j \in Saves : log[j].id = u /\ log[j].user.email = users[u].email
    BY <1>1 DEF Explained
  <2>2. QED
    BY <2>1
<1>2. QED
  BY <1>1 DEF Explained

\* An event of a user that is not disturbed finds its email free.
LEMMA Untaken ==
  ASSUME SyncTypeOK, Explained, NEW c \in Consumers,
         NEW s \in Nat, NEW p \in Nat, NEW h \in Nat, NEW t \in Nat,
         NEW dir, Position(c, s, p, h, t, dir), pc[c] = "handling",
         dbFaults = 0, p + 1 \in Saves, Undisturbed(log[p + 1].id)
  PROVE  ~Taken(users, log[p + 1].user.email, log[p + 1].id)
<1> DEFINE m == p + 1
           u == log[m].id
           email == log[m].user.email
<1> SUFFICES ASSUME NEW w \in Users \ {u}, users[w].email = email PROVE FALSE
  BY DEF Taken
<1>1. /\ Last \in Nat /\ m \in 1..Last /\ u \in Users /\ email # None
      /\ log[m].type \in {"user.created", "user.updated"}
  BY SavesAreEvents DEF SyncTypeOK, Last, Saves
<1>2. users[w] # NoUser
  BY <1>1 DEF NoUser
<1>3. CASE OwnEmails(u)
  <2>1. PICK j \in Saves : log[j].id = w /\ log[j].user.email = email
    BY <1>2 DEF Explained
  <2>2. HandOver(m, j)
    BY <2>1 DEF HandOver
  <2>3. QED
    BY <1>3, <2>1, <2>2 DEF OwnEmails
<1>4. CASE NoReplay \/ HandedOverApart
  <2>1. Undisturbed(w)
    BY <1>4 DEF Undisturbed
  <2>2. PICK k \in p..h : Copies(users[w], dir[k][w])
    BY <2>1 DEF Position, Rows
  <2>3. dir[k][w].email = email /\ dir[k][w] # NoUser
    BY <1>1, <2>2 DEF Copies, NoUser
  <2>4. /\ m - 1 = p /\ p \in 0..Last /\ m \in 0..Last
        /\ h <= Last /\ h <= s + Prefetch /\ s <= p /\ p <= h
    BY <1>1 DEF Position, Line
  <2>5. cur[c].msg = m
    BY DEF Position, Line
  <2>6. m \in Messages
    BY <1>1 DEF SyncTypeOK, TypeOK, Last
  <2>7. Follows(dir[p], log[m], dir[m])
    BY <1>1, <2>4 DEF Position, Chronicle, Last
  <2>8. /\ ~Taken(dir[p], email, u)
        /\ dir[m] = [dir[p] EXCEPT ![u] = log[m].user]
    BY <1>1, <2>7 DEF Follows
  <2>9. dir[p][w].email # email
    BY <2>8 DEF Taken
  <2>10. dir[p] \in [Users -> Present \union {NoUser}]
    BY <2>4 DEF Position, Chronicle, Last
  <2>11. dir[m][w] = dir[p][w]
    BY <2>8, <2>10
  <2>12. k # p /\ k \in m..h
    BY <2>2, <2>3, <2>4, <2>9
  <2>13. CASE NoReplay
    <3>1. attempts[m] >= 2
      BY <2>4, <2>12, <2>5 DEF Position, Calls
    <3>2. attempts[m] <= 1 /\ attempts[m] \in Nat
      BY <2>13, <2>6 DEF NoReplay, SyncTypeOK, TypeOK
    <3>3. QED
      BY <3>1, <3>2
  <2>14. CASE HandedOverApart
    <3>1. k \in 0..Last /\ m <= k
      BY <1>1, <2>4, <2>12
    <3>2. \E j \in (m + 1)..k : Saved(log[j], w, dir[k][w])
      BY <2>3, <2>4, <2>9, <2>11, <3>1 DEF Position, Chronicle, Last
    <3>3. PICK j \in (m + 1)..k : Saved(log[j], w, dir[k][w])
      BY <3>2
    <3>4. j \in 1..Last /\ m < j /\ j <= h
      BY <1>1, <2>4, <2>12, <3>3
    <3>5. j \in Saves
      BY <3>3, <3>4 DEF Saved, Saves, SyncTypeOK, Last
    <3>6. HandOver(m, j)
      BY <2>3, <3>3 DEF Saved, HandOver
    <3>7. j - m >= Prefetch
      BY <2>14, <3>4, <3>5, <3>6 DEF HandedOverApart
    <3>8. QED
      BY <2>4, <3>4, <3>7, ConsumerAssumption
  <2>15. QED
    BY <1>4, <2>13, <2>14
<1>5. QED
  BY <1>3, <1>4 DEF Undisturbed

\* An event of such a user is refused only where its row is ahead of it.
LEMMA RefusedBehind ==
  ASSUME SyncTypeOK, Explained, NEW c \in Consumers,
         NEW s \in Nat, NEW p \in Nat, NEW h \in Nat, NEW t \in Nat,
         NEW dir, Position(c, s, p, h, t, dir), pc[c] = "handling",
         dbFaults = 0, log[p + 1].type # "other", Undisturbed(log[p + 1].id),
         Refused(log[p + 1]),
         NEW k \in p..h, Copies(users[log[p + 1].id], dir[k][log[p + 1].id])
  PROVE  k \in (p + 1)..h
<1> DEFINE m == p + 1
           u == log[m].id
<1>1. Last \in Nat /\ m \in 1..Last /\ m - 1 = p /\ p \in 0..Last
  BY DEF Position, Line, SyncTypeOK, Last
<1>2. /\ u \in Users /\ log[m].user \in Present
      /\ log[m].type \in {"user.created", "user.updated", "user.deleted"}
  BY <1>1, EventFields DEF SyncTypeOK, Last
<1>3. Follows(dir[p], log[m], dir[m])
  BY <1>1 DEF Position, Chronicle, Last
<1>4. users[u] \in Present \union {NoUser} /\ dir[p][u] \in Present \union {NoUser}
  BY <1>1, <1>2 DEF SyncTypeOK, Position, Chronicle, Last
<1>5. \A r \in Present \union {NoUser} : r.email = None <=> r = NoUser
  BY UserSyncAssumption DEF Present, NoUser
<1>6. log[m].type # "user.deleted"
  BY DEF Refused
<1>7. m \in Saves
  BY <1>1, <1>2, <1>6 DEF Saves, SyncTypeOK, Last
<1>8. ~Taken(users, log[m].user.email, u)
  BY <1>7, Untaken
<1>9. (users[u] = NoUser) # (dir[p][u] = NoUser)
  <2>1. CASE log[m].type = "user.created"
    BY <1>3, <1>8, <2>1 DEF Refused, Follows
  <2>2. CASE log[m].type = "user.updated"
    BY <1>3, <1>8, <2>2 DEF Refused, Follows
  <2>3. QED
    BY <1>2, <1>6, <2>1, <2>2
<1>10. k # p
  BY <1>4, <1>5, <1>9 DEF Copies
<1>11. QED
  BY <1>10

\* The transaction of an event that is not refused.
LEMMA TransactionEffect ==
  ASSUME users \in [Users -> Present \union {NoUser}],
         NEW e \in Event, e.type # "other", ~Refused(e), users' = After(e)
  PROVE  /\ users' \in [Users -> Present \union {NoUser}]
         /\ \A v \in Users \ {e.id} : users'[v] = users[v]
         /\ IF e.type = "user.deleted" THEN users'[e.id] = NoUser
            ELSE Copies(users'[e.id], e.user) /\ users'[e.id] # NoUser
<1>1. /\ e.type \in {"user.created", "user.updated", "user.deleted"}
      /\ e.id \in Users /\ e.user \in Present
  BY EventFields
<1>2. e.user.email \in Emails /\ e.user.email # None /\ e.user.phone \in Phones \union {None}
  BY <1>1, UserSyncAssumption DEF Present
<1>3. CASE e.type = "user.created"
  <2>1. users' = [users EXCEPT ![e.id] = e.user]
    BY <1>3 DEF After, CreateUser
  <2>2. QED
    BY <1>1, <1>2, <1>3, <2>1 DEF Copies, NoUser
<1>4. CASE e.type = "user.updated"
  <2>1. users' = [users EXCEPT ![e.id] = Merged(users[e.id], e.user)]
    BY <1>4 DEF After, UpdateUserByID
  <2>2. users[e.id] \in Present
    BY <1>1, <1>4 DEF Refused
  <2>3. /\ Merged(users[e.id], e.user) \in Present
        /\ Copies(Merged(users[e.id], e.user), e.user)
        /\ Merged(users[e.id], e.user) # NoUser
    BY <1>2, <2>2 DEF Merged, Present, Copies, NoUser
  <2>4. QED
    BY <1>1, <1>4, <2>1, <2>3
<1>5. CASE e.type = "user.deleted"
  <2>1. users' = [users EXCEPT ![e.id] = NoUser]
    BY <1>5 DEF After, DeleteUserByID
  <2>2. QED
    BY <1>1, <1>5, <2>1
<1>6. QED
  BY <1>1, <1>3, <1>4, <1>5

\* What the handler did with an event, unless the database failed.
Handled(m) ==
  \/ log[m].type # "other" /\ ~Refused(log[m]) /\ Commit(m)
  \/ Refused(log[m]) /\ UNCHANGED <<users, applied>>

\* The emails of the table after an event.
LEMMA ExplainedReturn ==
  ASSUME SyncTypeOK, Explained, log' = log, NEW m \in 1..Last, Handled(m)
  PROVE  Explained' /\ users' \in [Users -> Present \union {NoUser}]
<1>1. Saves' = Saves
  BY DEF Saves
<1>2. CASE UNCHANGED <<users, applied>>
  BY <1>1, <1>2, ExplainedFrame DEF SyncTypeOK
<1>3. CASE log[m].type # "other" /\ ~Refused(log[m]) /\ Commit(m)
  <2> DEFINE e == log[m]
  <2>1. e \in Event
    BY DEF SyncTypeOK, Last
  <2>2. /\ users' \in [Users -> Present \union {NoUser}]
        /\ \A v \in Users \ {e.id} : users'[v] = users[v]
        /\ IF e.type = "user.deleted" THEN users'[e.id] = NoUser
           ELSE Copies(users'[e.id], e.user) /\ users'[e.id] # NoUser
    BY <1>3, <2>1, TransactionEffect DEF Commit, SyncTypeOK
  <2>3. e.type # "user.deleted" => m \in Saves
    BY <1>3, <2>1, EventFields DEF Saves, SyncTypeOK, Last
  <2>4. ASSUME NEW u \in Users, users'[u] # NoUser
        PROVE  \E j \in Saves : log[j].id = u /\ log[j].user.email = users'[u].email
    <3>1. CASE u = e.id
      BY <2>2, <2>3, <2>4, <3>1 DEF Copies
    <3>2. CASE u # e.id
      BY <2>2, <2>4, <3>2 DEF Explained
    <3>3. QED
      BY <3>1, <3>2
  <2>5. QED
    BY <1>1, <2>2, <2>4 DEF Explained
<1>4. QED
  BY <1>2, <1>3 DEF Handled

\* The rows after an event.
LEMMA RowsReturn ==
  ASSUME SyncTypeOK, Explained, NEW c \in Consumers,
         NEW s \in Nat, NEW p \in Nat, NEW h \in Nat, NEW t \in Nat,
         NEW dir, Position(c, s, p, h, t, dir), pc[c] = "handling",
         log' = log, dbFaults' = dbFaults, Handled(p + 1),
         \A u \in Users : Undisturbed(u)' => Undisturbed(u)
  PROVE  Rows(dir, p + 1, Reach(h, p))'
<1> SUFFICES ASSUME dbFaults = 0 PROVE Rows(dir, p + 1, Reach(h, p))'
  BY DEF Rows
<1> DEFINE m == p + 1
           e == log[m]
<1>1. /\ Last \in Nat /\ m \in 1..Last /\ m - 1 = p /\ p \in 0..Last
      /\ e \in Event /\ p <= h
      /\ Reach(h, p) \in Nat /\ m <= Reach(h, p) /\ h <= Reach(h, p)
  BY DEF Position, Line, SyncTypeOK, Last, Reach
<1>2. Follows(dir[p], e, dir[m])
  BY <1>1 DEF Position, Chronicle, Last
<1>3. dir[p] \in [Users -> Present \union {NoUser}]
  BY <1>1 DEF Position, Chronicle, Last
<1>4. /\ \A u \in Users : Undisturbed(u) => \E k \in p..h : Copies(users[u], dir[k][u])
      /\ \A i \in 1..h : \A u \in Users :
           log[i].type # "other" /\ log[i].id = u /\ Undisturbed(u) => i \in applied
  BY DEF Position, Rows
<1>5. ASSUME NEW u \in Users, Undisturbed(u)
      PROVE  \E k \in m..Reach(h, p) : Copies(users'[u], dir[k][u])
  <2>1. PICK k \in p..h : Copies(users[u], dir[k][u])
    BY <1>4, <1>5
  <2>2. CASE e.type = "other" \/ e.id # u
    <3>1. dir[m][u] = dir[p][u]
      BY <1>2, <1>3, <2>2 DEF Follows
    <3>2. users'[u] = users[u]
      <4>1. CASE Refused(e) /\ UNCHANGED <<users, applied>>
        BY <4>1
      <4>2. CASE e.type # "other" /\ ~Refused(e) /\ Commit(m)
        BY <1>1, <2>2, <4>2, TransactionEffect DEF Commit, SyncTypeOK
      <4>3. QED
        BY <4>1, <4>2 DEF Handled
    <3>3. k = p => Copies(users'[u], dir[m][u])
      BY <2>1, <3>1, <3>2
    <3>4. k # p => k \in m..Reach(h, p) /\ Copies(users'[u], dir[k][u])
      BY <1>1, <2>1, <3>2
    <3>5. m \in m..Reach(h, p)
      BY <1>1
    <3>6. QED
      BY <3>3, <3>4, <3>5
  <2>3. CASE e.type # "other" /\ e.id = u /\ Refused(e) /\ UNCHANGED <<users, applied>>
    <3>1. k \in (p + 1)..h
      BY <1>5, <2>1, <2>3, RefusedBehind
    <3>2. k \in m..Reach(h, p)
      BY <1>1, <3>1
    <3>3. QED
      BY <2>1, <2>3, <3>2
  <2>4. CASE e.type # "other" /\ e.id = u /\ ~Refused(e) /\ Commit(m)
    <3>1. IF e.type = "user.deleted" THEN users'[u] = NoUser
          ELSE Copies(users'[u], e.user)
      BY <1>1, <2>4, TransactionEffect DEF Commit, SyncTypeOK
    <3>2. dir[m][u] = IF e.type = "user.deleted" THEN NoUser ELSE e.user
      BY <1>2, <1>3, <2>4 DEF Follows
    <3>3. Copies(users'[u], dir[m][u])
      BY <3>1, <3>2 DEF Copies
    <3>4. m \in m..Reach(h, p)
      BY <1>1
    <3>5. QED
      BY <3>3, <3>4
  <2>5. QED
    BY <2>2, <2>3, <2>4 DEF Handled
<1>6. ASSUME NEW i \in 1..Reach(h, p), NEW u \in Users,
             log[i].type # "other", log[i].id = u, Undisturbed(u)
      PROVE  i \in applied'
  <2>1. applied \subseteq applied'
    BY DEF Handled, Commit
  <2>2. CASE i <= h
    <3>1. i \in 1..h
      BY <1>1, <1>6, <2>2
    <3>2. QED
      BY <1>4, <1>6, <2>1, <3>1
  <2>3. CASE i > h
    <3>1. i = m /\ h = p
      BY <1>1, <1>6, <2>3 DEF Reach
    <3>2. CASE Refused(e)
      <4>1. PICK k \in p..h : Copies(users[u], dir[k][u])
        BY <1>4, <1>6
      <4>2. k \in (p + 1)..h
        BY <1>6, <3>1, <3>2, <4>1, RefusedBehind
      <4>3. QED
        BY <1>1, <3>1, <4>2
    <3>3. CASE ~Refused(e)
      BY <3>1, <3>3 DEF Handled, Commit
    <3>4. QED
      BY <3>2, <3>3
  <2>4. QED
    BY <1>1, <2>2, <2>3
<1>7. QED
  BY <1>5, <1>6 DEF Rows

-----------------------------------------------------------------------------
(* The steps.                                                              *)

\* Each step is one of the loop, or changes nothing of it.
LEMMA SyncIsLoop ==
  ASSUME SyncTypeOK, SyncNext
  PROVE  [Next]_vars
<1>1. ASSUME NEW e, PublishEvent(e) PROVE Next
  <2>1. Len(log) + 1 \in Messages
    BY <1>1, UserSyncAssumption, FS_CardinalityType DEF PublishEvent
  <2>2. QED
    BY <1>1, <2>1 DEF PublishEvent, Next, Queue
<1>2. CASE Verisafe
  BY <1>1, <1>2 DEF Verisafe, VerisafeSaves, VerisafeDeletes, PublishOther
<1>3. ASSUME NEW c \in Consumers, Sync(c) PROVE Next
  <2>1. ASSUME DeliverInOrder(c) PROVE Next
    <3>1. First(ready) \in Messages /\ Deliver(c, First(ready))
      BY <2>1 DEF DeliverInOrder, Deliver, SyncTypeOK, TypeOK
    <3>2. QED
      BY <3>1 DEF Next, Queue
  <2>2. ASSUME ReceiveInOrder(c) PROVE Next
    BY <2>2 DEF ReceiveInOrder, Next, Loop
  <2>3. ASSUME Succeed(c) \/ Refuse(c) \/ TransactionFails(c) PROVE Next
    <3>1. HandlerReturns(c, "succeeded") \/ HandlerReturns(c, "failed")
      BY <2>3 DEF Succeed, Refuse, TransactionFails
    <3>2. QED
      BY <3>1 DEF Next, Loop
  <2>4. ASSUME AckSuccess(c) \/ Reject(c) \/ ConsumerStops(c) \/ Start(c) \/ Failure(c)
        PROVE  Next
    BY <2>4 DEF Next, Loop
  <2>5. QED
    BY <1>3, <2>1, <2>2, <2>3, <2>4 DEF Sync
<1>4. QED
  BY <1>2, <1>3 DEF SyncNext

\* There is one replica.
LEMMA Single == \E c \in Consumers : Consumers = {c}
<1>1. \E c : Consumers = {c}
  BY UserSyncAssumption, ConsumerAssumption, FS_Singleton
<1>2. QED
  BY <1>1

\* Steps that handle no event to the end.
LEMMA SyncFrame ==
  ASSUME SyncTypeOK, Explained, TypeOK', NEW c \in Consumers,
         NEW s \in Nat, NEW p \in Nat, NEW h \in Nat, NEW t \in Nat,
         NEW dir, Position(c, s, p, h, t, dir),
         UNCHANGED <<syncVars, published>>,
         \A m \in Messages : attempts[m] <= attempts'[m],
         NEW s2 \in Nat, NEW p2 \in Nat, NEW t2 \in Nat, p2 <= p,
         Line(c, s2, p2, h, t2)', Calls(c, h)'
  PROVE  SyncInv'
<1>1. UNCHANGED <<source, log, users, applied, dbFaults>>
  BY DEF syncVars
<1>2. Last' = Last /\ Last \in Nat /\ h <= Last /\ Saves' = Saves
  BY <1>1 DEF Last, Saves, SyncTypeOK, Position, Line
<1>3. SyncTypeOK'
  BY <1>1 DEF SyncTypeOK
<1>4. Explained'
  BY <1>1, <1>2, ExplainedFrame
<1>5. \A i \in Saves : i \in Nat
  BY SavesAreEvents DEF SyncTypeOK
<1>6. \A m \in Messages : attempts'[m] \in Nat
  BY DEF TypeOK
<1>7. ASSUME NEW u \in Users, Undisturbed(u)' PROVE Undisturbed(u)
  BY <1>1, <1>2, <1>5, <1>6, <1>7, Calmer DEF SyncTypeOK
<1>8. Rows(dir, p2, h)'
  BY <1>1, <1>2, <1>7, RowsFrame DEF Position, SyncTypeOK
<1>9. Chronicle(log, source, dir)'
  BY <1>1 DEF Position
<1>10. Position(c, s2, p2, h, t2, dir)'
  BY <1>8, <1>9 DEF Position
<1>11. QED
  BY <1>3, <1>4, <1>10 DEF SyncInv

\* Verisafe publishes an event.
LEMMA SyncPublish ==
  ASSUME SyncTypeOK, Explained, TypeOK', NEW c \in Consumers,
         NEW s \in Nat, NEW p \in Nat, NEW h \in Nat, NEW t \in Nat,
         NEW dir, Position(c, s, p, h, t, dir),
         NEW e \in Event, PublishEvent(e), Follows(source, e, source'),
         source' \in [Users -> Present \union {NoUser}],
         \A u \in Users :
           source'[u] = source[u] \/ source'[u] = NoUser \/ Saved(e, u, source'[u])
  PROVE  SyncInv'
<1>1. /\ log' = Append(log, e) /\ published' = published \union {Last + 1}
      /\ ready' = ready \union {Last + 1}
      /\ UNCHANGED <<users, applied, dbFaults, retrying, replicaVars, attempts>>
  BY DEF PublishEvent, Publish, Last
<1>2. /\ log' \in Seq(Event)
      /\ Last \in Nat /\ Last' = Last + 1
      /\ \A i \in 1..Last : log'[i] = log[i]
      /\ Saves \subseteq Saves' /\ \A i \in Saves : log'[i] = log[i]
  BY <1>1, LogGrows DEF SyncTypeOK
<1>3. SyncTypeOK'
  <2>1. published' = 1..Last'
    BY <1>1, <1>2 DEF SyncTypeOK, Last
  <2>2. QED
    BY <1>1, <1>2, <2>1 DEF SyncTypeOK, Last
<1>4. Explained'
  BY <1>1, <1>2, ExplainedFrame
<1>5. \A i \in Saves : i \in Nat
  BY SavesAreEvents DEF SyncTypeOK
<1>6. \A m \in Messages : attempts'[m] \in Nat /\ attempts[m] <= attempts'[m]
  BY <1>1 DEF TypeOK
<1>7. ASSUME NEW u \in Users, Undisturbed(u)' PROVE Undisturbed(u)
  BY <1>2, <1>5, <1>6, <1>7, Calmer DEF SyncTypeOK
<1>8. PICK new : /\ Chronicle(Append(log, e), source', new)
                 /\ \A k \in 0..Len(log) : new[k] = dir[k]
  <2>1. log \in Seq(Event) /\ Chronicle(log, source, dir)
    BY DEF SyncTypeOK, Position
  <2>2. QED
    BY <2>1, ChronicleExtends
<1>9. Chronicle(log, source, new)'
  BY <1>1, <1>8
<1>10. Rows(new, p, h)'
  <2>1. h <= Last /\ Rows(dir, p, h) /\ log \in Seq(Event)
    BY DEF Position, Line, SyncTypeOK
  <2>2. \A k \in 0..Last : new[k] = dir[k]
    BY <1>8 DEF Last
  <2>3. p <= p /\ UNCHANGED <<users, applied, dbFaults>>
    BY <1>1
  <2>4. \A u \in Users : Undisturbed(u)' => Undisturbed(u)
    BY <1>7
  <2>5. \A i \in 1..Last : log'[i] = log[i]
    BY <1>2
  <2>6. QED
    BY <2>1, <2>2, <2>3, <2>4, <2>5, RowsFrame
<1>11. Line(c, s, p, h, t)'
  BY <1>1, <1>2, LinePublish DEF Position
<1>12. Calls(c, h)'
  BY <1>1 DEF Position, Calls, replicaVars
<1>13. Position(c, s, p, h, t, new)'
  BY <1>9, <1>10, <1>11, <1>12 DEF Position
<1>14. QED
  BY <1>3, <1>4, <1>13 DEF SyncInv

LEMMA SyncVerisafe ==
  ASSUME SyncTypeOK, Explained, TypeOK', NEW c \in Consumers,
         NEW s \in Nat, NEW p \in Nat, NEW h \in Nat, NEW t \in Nat,
         NEW dir, Position(c, s, p, h, t, dir), Verisafe
  PROVE  SyncInv'
<1>1. ASSUME NEW u \in Users, NEW user \in Present, VerisafeSaves(u, user)
      PROVE  SyncInv'
  <2>1. PICK e \in Event : /\ PublishEvent(e)
                           /\ e.id = u /\ e.user = user
                           /\ e.type = IF source[u] = NoUser THEN "user.created"
                                       ELSE "user.updated"
    BY <1>1 DEF VerisafeSaves, Event
  <2>2. source' = [source EXCEPT ![u] = user] /\ ~Taken(source, user.email, u)
    BY <1>1 DEF VerisafeSaves
  <2>3. Follows(source, e, source')
    BY <2>1, <2>2 DEF Follows
  <2>4. /\ source' \in [Users -> Present \union {NoUser}]
        /\ source'[u] = user /\ \A v \in Users \ {u} : source'[v] = source[v]
    BY <2>2 DEF SyncTypeOK
  <2>5. Saved(e, u, source'[u])
    BY <2>1, <2>4 DEF Saved
  <2>6. QED
    BY <2>1, <2>3, <2>4, <2>5, SyncPublish
<1>2. ASSUME NEW u \in Users, VerisafeDeletes(u) PROVE SyncInv'
  <2>1. source[u] \in Present
    BY <1>2 DEF VerisafeDeletes, SyncTypeOK
  <2>2. PICK e \in Event : /\ PublishEvent(e)
                           /\ e.type = "user.deleted" /\ e.id = u
    BY <1>2, <2>1 DEF VerisafeDeletes, Event
  <2>3. source' = [source EXCEPT ![u] = NoUser]
    BY <1>2 DEF VerisafeDeletes
  <2>4. Follows(source, e, source')
    BY <2>2, <2>3 DEF Follows
  <2>5. /\ source' \in [Users -> Present \union {NoUser}]
        /\ source'[u] = NoUser /\ \A v \in Users \ {u} : source'[v] = source[v]
    BY <2>3 DEF SyncTypeOK
  <2>6. QED
    BY <2>2, <2>4, <2>5, SyncPublish
<1>3. CASE PublishOther
  <2>1. PICK e \in Event : PublishEvent(e) /\ e.type = "other"
    BY <1>3 DEF PublishOther, Event
  <2>2. source' = source
    BY <1>3 DEF PublishOther
  <2>3. Follows(source, e, source')
    BY <2>1, <2>2 DEF Follows
  <2>4. QED
    BY <2>1, <2>2, <2>3, SyncPublish DEF SyncTypeOK
<1>4. QED
  BY <1>1, <1>2, <1>3 DEF Verisafe

\* The queue and the loop, but for the return of the handler.
LEMMA SyncQueue ==
  ASSUME SyncTypeOK, Explained, TypeOK', NEW c \in Consumers, Consumers = {c},
         NEW s \in Nat, NEW p \in Nat, NEW h \in Nat, NEW t \in Nat,
         NEW dir, Position(c, s, p, h, t, dir),
         DeliverInOrder(c) \/ ReceiveInOrder(c)
  PROVE  SyncInv'
<1>1. /\ TypeOK /\ Last \in Nat /\ Line(c, s, p, h, t) /\ Calls(c, h)
      /\ published = 1..Last /\ published \subseteq Messages
  BY DEF SyncTypeOK, TypeOK, Last, Position
<1>2. attempts \in [Messages -> Nat]
  BY <1>1 DEF TypeOK
<1>3. CASE DeliverInOrder(c)
  <2>1. /\ ready # {} /\ Deliver(c, First(ready))
        /\ UNCHANGED <<syncVars, published, pc, cur, attempts>>
    BY <1>3 DEF DeliverInOrder, Deliver, ghostVars
  <2>2. Last' = Last
    BY <2>1 DEF syncVars, Last
  <2>3. Line(c, s, p, h, t + 1)'
    BY <1>1, <2>1, <2>2, LineDeliver
  <2>4. Calls(c, h)'
    BY <1>1, <2>1 DEF Calls
  <2>5. \A m \in Messages : attempts[m] <= attempts'[m]
    BY <1>2, <2>1
  <2>6. t + 1 \in Nat /\ p <= p /\ UNCHANGED <<syncVars, published>>
    BY <2>1
  <2>7. QED
    BY <2>3, <2>4, <2>5, <2>6, SyncFrame
<1>4. CASE ReceiveInOrder(c)
  <2>1. PICK d \in inbox[c] : d.msg = First(Awaiting(c)) /\ Receive(c, d)
    BY <1>4 DEF ReceiveInOrder, Awaiting
  <2>2. /\ UNCHANGED <<syncVars, published>>
        /\ attempts' = [attempts EXCEPT ![d.msg] = @ + 1]
    BY <1>4, <2>1 DEF ReceiveInOrder, Receive
  <2>3. Last' = Last
    BY <2>2 DEF syncVars, Last
  <2>4. /\ Line(c, s, p, h, t)' /\ d.msg = p + 1 /\ pc'[c] = "handling"
        /\ cur'[c] = d /\ p < t
    BY <1>1, <2>1, <2>3, LineReceive
  <2>5. p + 1 \in Messages /\ h <= Last
    BY <1>1, <2>4 DEF Line
  <2>6. \A m \in Messages : /\ attempts[m] <= attempts'[m]
                            /\ attempts'[p + 1] = attempts[p + 1] + 1
    BY <1>2, <2>2, <2>4, <2>5
  <2>7. \A m \in 1..h : m \in Messages /\ attempts[m] >= 1
    BY <1>1, <2>5 DEF Calls
  <2>8. \A m \in 1..h : attempts'[m] >= 1
    <3>1. TAKE m \in 1..h
    <3>2. m \in Messages /\ attempts[m] >= 1 /\ attempts[m] <= attempts'[m]
      BY <2>6, <2>7
    <3>3. attempts[m] \in Nat /\ attempts'[m] \in Nat
      BY <1>2, <3>2 DEF TypeOK
    <3>4. QED
      BY <3>2, <3>3
  <2>9. attempts'[cur'[c].msg] >= IF cur'[c].msg <= h THEN 2 ELSE 1
    <3>1. cur'[c].msg = p + 1 /\ attempts'[p + 1] = attempts[p + 1] + 1
      BY <2>4, <2>5, <2>6
    <3>2. attempts[p + 1] \in Nat
      BY <1>2, <2>5
    <3>3. p + 1 <= h => attempts[p + 1] >= 1
      BY <2>7
    <3>4. QED
      BY <3>1, <3>2, <3>3
  <2>10. Calls(c, h)'
    BY <2>8, <2>9 DEF Calls
  <2>11. p <= p
    OBVIOUS
  <2>12. QED
    BY <2>2, <2>4, <2>6, <2>10, <2>11, SyncFrame
<1>5. QED
  BY <1>3, <1>4

\* The loop is done with an event, starts or ends, or a fault hits.
LEMMA SyncLoop ==
  ASSUME SyncTypeOK, Explained, TypeOK', NEW c \in Consumers, Consumers = {c},
         NEW s \in Nat, NEW p \in Nat, NEW h \in Nat, NEW t \in Nat,
         NEW dir, Position(c, s, p, h, t, dir), UNCHANGED syncVars,
         \/ AckSuccess(c) \/ Reject(c) \/ ConsumerStops(c) \/ Start(c)
         \/ Failure(c)
  PROVE  SyncInv'
<1>1. /\ TypeOK /\ Last \in Nat /\ Last' = Last
      /\ Line(c, s, p, h, t) /\ Calls(c, h)
  BY DEF SyncTypeOK, Last, Position, syncVars
<1>2. UNCHANGED <<attempts, published>>
  BY DEF AckSuccess, Reject, Nack, ConsumerStops, Start, DeclareRetryTopology,
    Subscribe, SubscribeFails, Failure, ChannelLost, ConnectionLost, Crash,
    ghostVars
<1>3. \A m \in Messages : attempts[m] <= attempts'[m]
  BY <1>1, <1>2 DEF TypeOK
<1>4. pc'[c] = "handling" => pc[c] = "handling" /\ cur' = cur
  BY <1>1 DEF TypeOK, AckSuccess, Reject, Nack, Finish, ConsumerStops, Start,
    DeclareRetryTopology, Subscribe, SubscribeFails, Failure, ChannelLost,
    ConnectionLost, Crash
<1>5. Calls(c, h)'
  BY <1>1, <1>2, <1>4 DEF Calls
<1>6. CASE AckSuccess(c) \/ Reject(c)
  <2>1. pc[c] \in Returned /\ Finish(c)
    BY <1>6 DEF AckSuccess, Reject, Nack, Returned
  <2>2. UNCHANGED <<ready, retrying>>
    BY <1>6, UserSyncAssumption DEF AckSuccess, Reject, Nack, brokerVars
  <2>3. Line(c, IF link[c] = "open" THEN s + 1 ELSE s, p, h, t)'
    BY <1>1, <2>1, <2>2, LineFinish
  <2>4. PICK s2 \in Nat : s2 = IF link[c] = "open" THEN s + 1 ELSE s
    OBVIOUS
  <2>5. Line(c, s2, p, h, t)' /\ p <= p /\ UNCHANGED <<syncVars, published>>
    BY <1>2, <2>1, <2>3, <2>4 DEF Finish
  <2>6. QED
    BY <1>3, <1>5, <2>4, <2>5, SyncFrame
<1>7. CASE ConsumerStops(c) \/ Start(c) \/ Failure(c)
  <2>1. Line(c, s, p, h, t)' \/ Line(c, s, s, h, s)'
    BY <1>1, <1>7, LineFailure
  <2>2. p <= p /\ s <= p /\ UNCHANGED <<syncVars, published>>
    BY <1>1, <1>2 DEF Line
  <2>3. CASE Line(c, s, p, h, t)'
    BY <1>3, <1>5, <2>2, <2>3, SyncFrame
  <2>4. CASE Line(c, s, s, h, s)'
    BY <1>3, <1>5, <2>2, <2>4, SyncFrame
  <2>5. QED
    BY <2>1, <2>3, <2>4
<1>8. QED
  BY <1>6, <1>7

\* The handler returns.
LEMMA SyncReturn ==
  ASSUME SyncTypeOK, Explained, TypeOK', NEW c \in Consumers, Consumers = {c},
         NEW s \in Nat, NEW p \in Nat, NEW h \in Nat, NEW t \in Nat,
         NEW dir, Position(c, s, p, h, t, dir),
         Succeed(c) \/ Refuse(c) \/ TransactionFails(c)
  PROVE  SyncInv'
<1> DEFINE m == p + 1
<1>1. /\ TypeOK /\ Last \in Nat /\ Line(c, s, p, h, t) /\ Calls(c, h)
      /\ published = 1..Last /\ published \subseteq Messages
      /\ log \in Seq(Event) /\ applied \subseteq published
      /\ users \in [Users -> Present \union {NoUser}] /\ dbFaults \in 0..MaxFaults
  BY DEF SyncTypeOK, TypeOK, Last, Position
<1>2. PICK o \in Returned : HandlerReturns(c, o)
  BY DEF Succeed, Refuse, TransactionFails, Returned
<1>3. /\ pc[c] = "handling" /\ pc'[c] \in Returned
      /\ UNCHANGED <<source, log, attempts, published>>
  BY <1>1, <1>2 DEF HandlerReturns, Succeed, Refuse, TransactionFails,
    syncVars, ghostVars, TypeOK
<1>4. Last' = Last /\ Saves' = Saves
  BY <1>3 DEF Last, Saves
<1>5. cur[c].msg = m /\ m \in 1..Last /\ m \in Messages
  BY <1>1, <1>3 DEF Line
<1>6. Line(c, s, p + 1, Reach(h, p), t)'
  BY <1>1, <1>2, <1>4, LineReturn
<1>7. Calls(c, Reach(h, p))'
  <2>1. \A i \in 1..Reach(h, p) : attempts[i] >= 1
    <3>1. TAKE i \in 1..Reach(h, p)
    <3>2. i \in 1..h \/ i = m
      BY <1>1 DEF Line, Reach
    <3>3. attempts[m] >= 1
      <4>1. attempts[m] >= IF m <= h THEN 2 ELSE 1
        BY <1>1, <1>3, <1>5 DEF Calls
      <4>2. attempts[m] \in Nat
        BY <1>1, <1>5 DEF TypeOK
      <4>3. QED
        BY <4>1, <4>2
    <3>4. \A j \in 1..h : attempts[j] >= 1
      BY <1>1 DEF Calls
    <3>5. QED
      BY <3>2, <3>3, <3>4
  <2>2. pc'[c] # "handling"
    BY <1>3 DEF Returned
  <2>3. QED
    BY <1>3, <2>1, <2>2 DEF Calls, Reach
<1>8. ASSUME NEW u \in Users, Undisturbed(u)' PROVE Undisturbed(u)
  <2>1. \A i \in Saves : i \in Nat
    BY <1>1, SavesAreEvents
  <2>2. \A i \in Messages : attempts[i] <= attempts'[i] /\ attempts'[i] \in Nat
    BY <1>1, <1>3 DEF TypeOK
  <2>3. QED
    BY <1>1, <1>3, <1>4, <1>8, <2>1, <2>2, Calmer
<1>9. Handled(m) \/ (TransactionFails(c) /\ UNCHANGED <<users, applied>>)
  <2>1. CASE Succeed(c)
    BY <1>5, <2>1 DEF Succeed, Handled, Refused
  <2>2. CASE Refuse(c)
    BY <1>5, <2>2 DEF Refuse, Handled, syncVars
  <2>3. CASE TransactionFails(c)
    BY <1>5, <2>3 DEF TransactionFails, Handled
  <2>4. QED
    BY <2>1, <2>2, <2>3
<1>10. Explained' /\ users' \in [Users -> Present \union {NoUser}]
  <2>1. CASE Handled(m)
    BY <1>3, <1>5, <2>1, ExplainedReturn
  <2>2. CASE UNCHANGED <<users, applied>>
    BY <1>1, <1>3, <1>4, <2>2, ExplainedFrame
  <2>3. QED
    BY <1>9, <2>1, <2>2
<1>11. applied' \subseteq published'
  BY <1>1, <1>3, <1>5, <1>9 DEF Handled, Commit
<1>12. ASSUME TransactionFails(c)
       PROVE  dbFaults' \in 0..MaxFaults /\ Rows(dir, p + 1, Reach(h, p))'
  <2>1. dbFaults' = dbFaults + 1 /\ dbFaults < MaxFaults
    BY <1>1, <1>12, ConsumerAssumption DEF TransactionFails, FaultsLeft, TypeOK
  <2>2. dbFaults' \in 0..MaxFaults /\ dbFaults' # 0
    BY <1>1, <2>1, ConsumerAssumption
  <2>3. Rows(dir, p + 1, Reach(h, p))'
    BY <2>2 DEF Rows
  <2>4. QED
    BY <2>2, <2>3
<1>13. ASSUME ~TransactionFails(c)
       PROVE  dbFaults' \in 0..MaxFaults /\ Rows(dir, p + 1, Reach(h, p))'
  <2>1. dbFaults' = dbFaults
    BY <1>13 DEF Succeed, Refuse, syncVars
  <2>2. Rows(dir, p + 1, Reach(h, p))'
    BY <1>3, <1>8, <1>9, <1>13, <2>1, RowsReturn
  <2>3. QED
    BY <1>1, <2>1, <2>2
<1>14. dbFaults' \in 0..MaxFaults /\ Rows(dir, p + 1, Reach(h, p))'
  BY <1>12, <1>13
<1>15. SyncTypeOK'
  BY <1>1, <1>3, <1>10, <1>11, <1>14 DEF SyncTypeOK
<1>16. Chronicle(log, source, dir)'
  BY <1>3 DEF Position
<1>17. Position(c, s, p + 1, Reach(h, p), t, dir)'
  BY <1>6, <1>7, <1>14, <1>16 DEF Position
<1>18. p + 1 \in Nat /\ Reach(h, p) \in Nat
  BY DEF Reach
<1>19. QED
  BY <1>10, <1>15, <1>17, <1>18 DEF SyncInv

LEMMA SyncInitial == SyncInit => SyncInv
<1> SUFFICES ASSUME SyncInit PROVE SyncInv
  OBVIOUS
<1>1. TypeOK
  BY TypeInit DEF SyncInit
<1>2. /\ log = <<>> /\ Last = 0 /\ published = {} /\ Saves = {}
      /\ source = [u \in Users |-> NoUser] /\ users = source
      /\ dbFaults = 0 /\ applied = {}
  BY DEF SyncInit, Init, Last, Saves
<1>3. SyncTypeOK
  BY <1>1, <1>2, ConsumerAssumption DEF SyncTypeOK
<1>4. Explained
  BY <1>2 DEF Explained
<1>5. PICK c \in Consumers : Consumers = {c}
  BY Single
<1>6. Line(c, 0, 0, 0, 0)
  <2>1. /\ pc[c] = "down" /\ link[c] = "none" /\ inbox[c] = {}
        /\ ready = {} /\ retrying = {}
    BY DEF SyncInit, Init
  <2>2. Awaiting(c) = {}
    BY <2>1 DEF Awaiting
  <2>3. QED
    BY <1>2, <2>1, <2>2, ConsumerAssumption DEF Line, Stopped, Returned
<1>7. Calls(c, 0)
  BY DEF SyncInit, Init, Calls
<1>8. PICK dir : dir = [k \in 0..0 |-> source]
  OBVIOUS
<1>9. Chronicle(log, source, dir)
  <2>1. /\ Len(log) = 0 /\ dir[0] = source
        /\ dir \in [0..0 -> [Users -> Present \union {NoUser}]]
    BY <1>2, <1>8
  <2>2. \A a \in 0..0 : a = 0
    OBVIOUS
  <2>3. QED
    BY <2>1, <2>2 DEF Chronicle
<1>10. Rows(dir, 0, 0)
  BY <1>2, <1>8 DEF Rows, Copies
<1>11. Position(c, 0, 0, 0, 0, dir)
  BY <1>6, <1>7, <1>9, <1>10 DEF Position
<1>12. QED
  BY <1>3, <1>4, <1>11 DEF SyncInv

LEMMA SyncStep == SyncInv /\ [SyncNext]_allVars => SyncInv'
<1> SUFFICES ASSUME SyncInv, [SyncNext]_allVars PROVE SyncInv'
  OBVIOUS
<1>1. SyncTypeOK /\ Explained
  BY DEF SyncInv
<1>2. CASE SyncNext
  <2>1. TypeOK'
    BY <1>1, <1>2, SyncIsLoop, TypeStep DEF SyncTypeOK
  <2>2. PICK c \in Consumers, s, p, h, t \in Nat :
          \E dir : Position(c, s, p, h, t, dir)
    BY DEF SyncInv
  <2>3. PICK dir : Position(c, s, p, h, t, dir)
    BY <2>2
  <2>4. Consumers = {c}
    BY <2>2, Single
  <2>5. CASE Verisafe
    BY <1>1, <2>1, <2>2, <2>3, <2>5, SyncVerisafe
  <2>6. ASSUME Sync(c) PROVE SyncInv'
    <3>1. CASE DeliverInOrder(c) \/ ReceiveInOrder(c)
      BY <1>1, <2>1, <2>2, <2>3, <2>4, <3>1, SyncQueue
    <3>2. CASE Succeed(c) \/ Refuse(c) \/ TransactionFails(c)
      BY <1>1, <2>1, <2>2, <2>3, <2>4, <3>2, SyncReturn
    <3>3. CASE /\ UNCHANGED syncVars
               /\ \/ AckSuccess(c) \/ Reject(c) \/ ConsumerStops(c) \/ Start(c)
                  \/ Failure(c)
      BY <1>1, <2>1, <2>2, <2>3, <2>4, <3>3, SyncLoop
    <3>4. QED
      BY <2>6, <3>1, <3>2, <3>3 DEF Sync
  <2>7. QED
    BY <1>2, <2>4, <2>5, <2>6 DEF SyncNext
<1>3. CASE UNCHANGED allVars
  <2>1. /\ UNCHANGED <<topology, ready, retrying, parked, xdeath, link, pc, inbox,
                       cur, published, done, attempts, faults>>
        /\ UNCHANGED <<source, log, users, applied, dbFaults>>
    BY <1>3 DEF allVars, vars, syncVars, brokerVars, replicaVars, ghostVars
  <2>2. TypeOK' /\ UNCHANGED <<syncVars, published>>
    BY <1>1, <1>3, <2>1, TypeStep DEF SyncTypeOK, allVars
  <2>3. PICK c \in Consumers, s, p, h, t \in Nat :
          \E dir : Position(c, s, p, h, t, dir)
    BY DEF SyncInv
  <2>4. PICK dir : Position(c, s, p, h, t, dir)
    BY <2>3
  <2>5. Awaiting(c)' = Awaiting(c) /\ Last' = Last
    BY <2>1 DEF Awaiting, Last
  <2>6. Line(c, s, p, h, t)'
    BY <2>1, <2>4, <2>5 DEF Position, Line
  <2>7. Calls(c, h)'
    BY <2>1, <2>4 DEF Position, Calls
  <2>8. \A m \in Messages : attempts[m] <= attempts'[m]
    BY <1>1, <2>1 DEF SyncTypeOK, TypeOK
  <2>9. p <= p
    BY <2>3
  <2>10. QED
    BY <1>1, <2>2, <2>3, <2>4, <2>6, <2>7, <2>8, <2>9, SyncFrame
<1>4. QED
  BY <1>2, <1>3

-----------------------------------------------------------------------------
(* What follows.                                                           *)

\* Nothing is in flight: the loop has come to the end of the log.
LEMMA CaughtUpSync ==
  ASSUME SyncTypeOK, NEW c \in Consumers, Consumers = {c},
         NEW s \in Nat, NEW p \in Nat, NEW h \in Nat, NEW t \in Nat,
         NEW dir, Position(c, s, p, h, t, dir), CaughtUp,
         NEW u \in Users, Undisturbed(u)
  PROVE  InSync(u)
<1>1. TypeOK /\ Last \in Nat /\ Line(c, s, p, h, t)
  BY DEF SyncTypeOK, Last, Position
<1>2. (s + 1)..Last = {}
  BY <1>1, LineUnacked DEF CaughtUp
<1>3. p = Last /\ h = Last
  BY <1>1, <1>2 DEF Line
<1>4. PICK k \in p..h : Copies(users[u], dir[k][u])
  BY DEF Position, Rows, CaughtUp
<1>5. k = Last
  BY <1>1, <1>3, <1>4
<1>6. dir[k] = source
  BY <1>5 DEF Position, Chronicle, Last
<1>7. QED
  BY <1>4, <1>6 DEF Copies, InSync

LEMMA SettledApplied ==
  ASSUME SyncTypeOK, NEW c \in Consumers, Consumers = {c},
         NEW s \in Nat, NEW p \in Nat, NEW h \in Nat, NEW t \in Nat,
         NEW dir, Position(c, s, p, h, t, dir), dbFaults = 0,
         NEW m \in published \ InFlight, log[m].type # "other",
         Undisturbed(log[m].id)
  PROVE  m \in applied
<1>1. /\ TypeOK /\ Last \in Nat /\ Line(c, s, p, h, t)
      /\ log \in Seq(Event) /\ m \in 1..Last
  BY DEF SyncTypeOK, Last, Position
<1>2. m \notin (s + 1)..Last
  BY <1>1, LineUnacked
<1>3. m \in 1..h
  BY <1>1, <1>2 DEF Line
<1>4. log[m].id \in Users
  BY <1>1, EventFields DEF Last
<1>5. QED
  BY <1>3, <1>4 DEF Position, Rows

LEMMA SyncInvImplies ==
  SyncInv => SyncTypeOK /\ DirectoryConverges /\ NothingDiscardedUnapplied
<1> SUFFICES ASSUME SyncInv
             PROVE  SyncTypeOK /\ DirectoryConverges /\ NothingDiscardedUnapplied
  OBVIOUS
<1>1. SyncTypeOK
  BY DEF SyncInv
<1>2. PICK c \in Consumers, s, p, h, t \in Nat :
        \E dir : Position(c, s, p, h, t, dir)
  BY DEF SyncInv
<1>3. PICK dir : Position(c, s, p, h, t, dir)
  BY <1>2
<1>4. Consumers = {c}
  BY <1>2, Single
<1>5. DirectoryConverges
  BY <1>1, <1>2, <1>3, <1>4, CaughtUpSync DEF DirectoryConverges
<1>6. NothingDiscardedUnapplied
  BY <1>1, <1>2, <1>3, <1>4, SettledApplied DEF NothingDiscardedUnapplied
<1>7. QED
  BY <1>1, <1>5, <1>6

LEMMA SyncInvariant == SyncSpec => []SyncInv
BY SyncInitial, SyncStep, PTL DEF SyncSpec

\* The directory, the log and what the loop holds keep their types, and the
\* log is numbered without gaps, whatever is replayed or fails.
THEOREM SyncTypeCorrect == SyncSpec => []SyncTypeOK
BY SyncInvariant, SyncInvImplies, PTL

\* A user whose emails nobody else ever had ends up as Verisafe has it, and
\* every user does if nothing is handled twice or emails change hands slowly,
\* for any number of events, faults and users and any prefetch
\* (user_consumer.go 25-27).
THEOREM DirectoryConvergesAlways == SyncSpec => []DirectoryConverges
BY SyncInvariant, SyncInvImplies, PTL

\* Under the same conditions an event that is discarded took effect before.
THEOREM NothingDiscardedUnappliedAlways == SyncSpec => []NothingDiscardedUnapplied
BY SyncInvariant, SyncInvImplies, PTL

\* The replica that syncs the directory is one of the loops of Consumer, so
\* what is proved of every loop holds of this one.
THEOREM SyncImplementsLoop == SyncSpec => Spec
<1>1. SyncInit => Init
  BY DEF SyncInit
<1>2. SyncTypeOK /\ [SyncNext]_allVars => [Next]_vars
  BY SyncIsLoop DEF allVars
<1>3. SyncSpec => []SyncTypeOK
  BY SyncTypeCorrect
<1>4. QED
  BY <1>1, <1>2, <1>3, PTL DEF SyncSpec, Spec

=============================================================================
