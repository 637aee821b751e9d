------------------------------ MODULE UserSync ------------------------------
(***************************************************************************)
(* The local user directory: events about Verisafe's users, consumed in    *)
(* order by one replica of the loop of Consumer, with handleMessage of     *)
(* user_consumer.go and the transactions of user_service.go for its        *)
(* handler.  The queue has no dead-letter exchange, so an event whose      *)
(* handler fails is discarded.                                             *)
(*                                                                         *)
(* The m-th event is message m.  A user is its email, which is unique and  *)
(* always there, and its phone, which stands for the fields it may lack    *)
(* (None: null, or the empty string).                                      *)
(***************************************************************************)
EXTENDS Consumer, Sequences

CONSTANTS
  Users,      \* the ids Verisafe gives
  Emails,
  Phones

ASSUME UserSyncAssumption ==
  /\ IsFiniteSet(Messages) /\ Messages = 1..Cardinality(Messages)
  /\ Cardinality(Consumers) = 1
  /\ ~DeadLetterExchange
  /\ MaxRetryAttempts = 0
  /\ None \notin Emails \union Phones

VARIABLES
  source,  \* Verisafe's own directory
  log,     \* the events published so far
  users,   \* the users table
  applied, \* history: events whose transaction was committed
  dbFaults \* transactions the database failed

syncVars == <<source, log, users, applied, dbFaults>>
allVars == <<vars, syncVars>>

NoUser == [email |-> None, phone |-> None]
Present == [email : Emails, phone : Phones \union {None}]
Event == [type : {"user.created", "user.updated", "user.deleted"},
          id : Users, user : Present]
         \union {[type |-> "other"]}

SyncTypeOK ==
  /\ TypeOK
  /\ source \in [Users -> Present \union {NoUser}]
  /\ log \in Seq(Event) /\ published = 1..Len(log)
  /\ users \in [Users -> Present \union {NoUser}]
  /\ applied \in SUBSET published
  /\ dbFaults \in 0..MaxFaults

SyncInit ==
  /\ Init
  /\ source = [u \in Users |-> NoUser]
  /\ log = <<>>
  /\ users = [u \in Users |-> NoUser]
  /\ applied = {}
  /\ dbFaults = 0

-----------------------------------------------------------------------------
(* Verisafe, and the queue, which keeps the order of publication also for  *)
(* what it takes back.                                                     *)

Taken(table, email, u) == \E v \in Users \ {u} : table[v].email = email

\* The number of messages bounds the log.
PublishEvent(e) ==
  /\ Len(log) < Cardinality(Messages)
  /\ Publish(Len(log) + 1)
  /\ log' = Append(log, e)
  /\ UNCHANGED <<users, applied, dbFaults>>

\* Verisafe gives an id once.
Retired(u) ==
  \E i \in DOMAIN log : log[i].type = "user.deleted" /\ log[i].id = u

VerisafeSaves(u, user) ==
  /\ ~Retired(u)
  /\ ~Taken(source, user.email, u)
  /\ source[u] # user
  /\ source' = [source EXCEPT ![u] = user]
  /\ PublishEvent([type |-> IF source[u] = NoUser THEN "user.created"
                            ELSE "user.updated",
                   id |-> u, user |-> user])

VerisafeDeletes(u) ==
  /\ source[u] # NoUser
  /\ source' = [source EXCEPT ![u] = NoUser]
  /\ PublishEvent([type |-> "user.deleted", id |-> u, user |-> source[u]])

\* Anything handleMessage refuses: another source, or another type.
PublishOther ==
  /\ PublishEvent([type |-> "other"])
  /\ UNCHANGED source

First(S) == CHOOSE m \in S : \A n \in S : m <= n

DeliverInOrder(c) ==
  /\ ready # {}
  /\ Deliver(c, First(ready))
  /\ UNCHANGED syncVars

ReceiveInOrder(c) ==
  /\ \E d \in inbox[c] : d.msg = First({e.msg : e \in inbox[c]}) /\ Receive(c, d)
  /\ UNCHANGED syncVars

-----------------------------------------------------------------------------
(* The handler: each event is one transaction.                             *)

\* CreateUser violates a unique constraint, UpdateUserByID finds no row or
\* violates one; DeleteUserByID does not mind a missing row.
Refused(e) ==
  CASE e.type = "user.created" ->
         users[e.id] # NoUser \/ Taken(users, e.user.email, e.id)
    [] e.type = "user.updated" ->
         users[e.id] = NoUser \/ Taken(users, e.user.email, e.id)
    [] e.type = "user.deleted" -> FALSE
    [] OTHER -> TRUE

\* Mutant: COALESCE with its arguments swapped.
Merged_KeepsOld(old, new) ==
  [email |-> IF old.email = None THEN new.email ELSE old.email,
   phone |-> IF old.phone = None THEN new.phone ELSE old.phone]

\* COALESCE(NULLIF(new, ''), old): an empty field keeps what was there.
Merged(old, new) ==
  [email |-> IF new.email = None THEN old.email ELSE new.email,
   phone |-> IF new.phone = None THEN old.phone ELSE new.phone]

CreateUser(e) == [users EXCEPT ![e.id] = e.user]
UpdateUserByID(e) == [users EXCEPT ![e.id] = Merged(@, e.user)]
DeleteUserByID(e) == [users EXCEPT ![e.id] = NoUser]

\* The table after the transaction of an event.
After(e) ==
  CASE e.type = "user.created" -> CreateUser(e)
    [] e.type = "user.updated" -> UpdateUserByID(e)
    [] e.type = "user.deleted" -> DeleteUserByID(e)

Commit(m) ==
  /\ users' = After(log[m])
  /\ applied' = applied \union {m}

Succeed(c) ==
  /\ HandlerReturns(c, "succeeded")
  /\ ~Refused(log[cur[c].msg])
  /\ Commit(cur[c].msg)
  /\ UNCHANGED <<source, log, dbFaults>>

Refuse(c) ==
  /\ HandlerReturns(c, "failed")
  /\ Refused(log[cur[c].msg])
  /\ UNCHANGED syncVars

\* MaxFaults bounds all faults, those of the database ("db") included.
FaultsLeft == faults + dbFaults < MaxFaults

\* The database fails, before or after it committed.
TransactionFails(c) ==
  /\ HandlerReturns(c, "failed")
  /\ "db" \in FaultKinds /\ FaultsLeft
  /\ log[cur[c].msg].type # "other"
  /\ dbFaults' = dbFaults + 1
  /\ \/ UNCHANGED <<users, applied>>
     \/ ~Refused(log[cur[c].msg]) /\ Commit(cur[c].msg)
  /\ UNCHANGED <<source, log>>

-----------------------------------------------------------------------------
Verisafe ==
  \/ \E u \in Users : VerisafeDeletes(u) \/ \E user \in Present : VerisafeSaves(u, user)
  \/ PublishOther

Sync(c) ==
  \/ DeliverInOrder(c) \/ ReceiveInOrder(c)
  \/ Succeed(c) \/ Refuse(c) \/ TransactionFails(c)
  \/ /\ \/ AckSuccess(c) \/ Reject(c) \/ ConsumerStops(c) \/ Start(c)
        \/ FaultsLeft /\ Failure(c)
     /\ UNCHANGED syncVars

SyncNext == Verisafe \/ \E c \in Consumers : Sync(c)

SyncSpec == SyncInit /\ [][SyncNext]_allVars

-----------------------------------------------------------------------------
(* Properties.                                                             *)

\* Every event was handled for good, and no transaction failed on the way.
CaughtUp ==
  /\ InFlight = {}
  /\ \A c \in Consumers : pc[c] \notin Holding /\ inbox[c] = {}
  /\ dbFaults = 0

\* The row of u is Verisafe's, but a phone Verisafe cleared may remain.
InSync(u) ==
  /\ users[u].email = source[u].email
  /\ users[u].phone # source[u].phone => source[u].phone = None

(***************************************************************************)
(* The local directory is synced from Verisafe (README.md 25): once every  *)
(* event is handled it has Verisafe's users.  A replay of several events   *)
(* refutes it, if an email changes hands twice among them: the row that is *)
(* in the way of a replayed event may be newer than it, and the row that   *)
(* this event leaves as it was is in the way of a later one, which is      *)
(* discarded.                                                              *)
(***************************************************************************)
SyncedFromVerisafe == CaughtUp => \A u \in Users : InSync(u)

Saves == {i \in DOMAIN log : log[i].type \in {"user.created", "user.updated"}}

\* Events i and j give one email to two users.
HandOver(i, j) ==
  log[i].id # log[j].id /\ log[i].user.email = log[j].user.email

NoReplay == \A m \in Messages : attempts[m] <= 1

\* An email changes hands only after more events than a replay may repeat.
HandedOverApart ==
  \A i, j \in Saves : HandOver(i, j) /\ i < j => j - i >= Prefetch

OwnEmails(u) == \A i, j \in Saves : log[i].id = u => ~HandOver(i, j)

Undisturbed(u) == NoReplay \/ HandedOverApart \/ OwnEmails(u)

(***************************************************************************)
(* The directory converges where emails do not change hands too fast, and  *)
(* each row of it whose emails nobody else ever had, although a lost       *)
(* channel or a crash makes the loop handle a run of events twice and an   *)
(* event refused the second time is discarded (user_consumer.go 25-27).    *)
(***************************************************************************)
DirectoryConverges ==
  CaughtUp => \A u \in Users : Undisturbed(u) => InSync(u)

(***************************************************************************)
(* Under the same conditions only a repetition is discarded: an event of   *)
(* Verisafe that has left the queue took effect at least once, unless a    *)
(* transaction failed, however redeliveries mixed earlier and later        *)
(* events.                                                                 *)
(***************************************************************************)
NothingDiscardedUnapplied ==
  dbFaults = 0 =>
    \A m \in published \ InFlight :
      log[m].type # "other" /\ Undisturbed(log[m].id) => m \in applied

=============================================================================
