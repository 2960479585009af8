------------------------------ MODULE RunStore ------------------------------
(***************************************************************************)
(* RunStore as it runs (planprobe/store.py): threads of one process call    *)
(* create, update, get and list.  The writers hold a threading.Lock around  *)
(* a connection's transaction, INSERT or SELECT and UPDATE, then commit or  *)
(* roll back, then release; the readers take no lock and see what is        *)
(* committed.  Any statement of a writer may fail ("database is locked").   *)
(* The process may die at any step; what is committed survives.             *)
(***************************************************************************)
EXTENDS StoreRows, FiniteSets

CONSTANTS Clients,    \* threads that use the store
          MaxCalls,   \* bound on the calls of one thread
          Limit,      \* list's limit
          Changes     \* the keyword arguments the threads pass to update

ASSUME CallAssumption ==
  /\ MaxCalls \in Nat
  /\ Limit \in Nat
  /\ Changes \subseteq Change
  /\ None \notin Clients
  /\ Ids # {}

VARIABLES db, rowids,   \* the committed table
          lock,         \* the thread that holds _lock, or None
          at,           \* where each thread is
          op,           \* the call it is making
          snap,         \* the row its SELECT returned
          todo,         \* the ids list has still to get
          reply,        \* what its last call returned
          calls         \* the calls it has made

tableVars  == <<db, rowids>>
threadVars == <<at, op, snap, todo, reply>>
vars == <<tableVars, lock, threadVars, calls>>

Operation == [kind : {"create", "update", "get", "list"}, id : Ids, change : Change]

NoChange == [stage |-> None, event |-> None, packet |-> None]
Idle == [kind |-> "list", id |-> CHOOSE i \in Ids : TRUE, change |-> NoChange]

(* The calls thread c may make.                                            *)
Operations ==
  [kind : {"create", "get"}, id : Ids, change : {NoChange}]
    \cup [kind : {"update"}, id : Ids, change : Changes]
    \cup {Idle}

Reply == [status : {"none", "ok", "error"}, rows : Seq(Ids \X Row)]
NoReply == [status |-> "none", rows |-> << >>]
Failed == [status |-> "error", rows |-> << >>]
Answer(found) == [status |-> "ok", rows |-> found]

Locked == {"locked", "selected", "written", "committed", "failing"}

TypeOK ==
  /\ db \in [Ids -> Row \cup {None}]
  /\ rowids \in Seq(Ids)
  /\ lock \in Clients \cup {None}
  /\ at \in [Clients -> Locked \cup {"idle", "wait", "read", "read_ids", "read_rows"}]
  /\ op \in [Clients -> Operation]
  /\ snap \in [Clients -> Row \cup {None}]
  /\ todo \in [Clients -> Seq(Ids)]
  /\ reply \in [Clients -> Reply]
  /\ calls \in [Clients -> 0..MaxCalls]

Init ==
  /\ db = [i \in Ids |-> None]
  /\ rowids = << >>
  /\ lock = None
  /\ at = [c \in Clients |-> "idle"]
  /\ op = [c \in Clients |-> Idle]
  /\ snap = [c \in Clients |-> None]
  /\ todo = [c \in Clients |-> << >>]
  /\ reply = [c \in Clients |-> NoReply]
  /\ calls = [c \in Clients |-> 0]

MoveTo(c, there) == at' = [at EXCEPT ![c] = there]

Entry == [create |-> "wait", update |-> "wait", get |-> "read", list |-> "read_ids"]

(* An event names the call that appends it, so that no two are alike.      *)
Token(c) == <<c, calls[c] + 1>>

Call(c) ==
  /\ at[c] = "idle"
  /\ calls[c] < MaxCalls
  /\ \E o \in Operations :
       /\ o.change.event \in {None, Token(c)}
       /\ op' = [op EXCEPT ![c] = o]
       /\ MoveTo(c, Entry[o.kind])
  /\ calls' = [calls EXCEPT ![c] = @ + 1]
  /\ reply' = [reply EXCEPT ![c] = NoReply]
  /\ UNCHANGED <<tableVars, lock, snap, todo>>

-----------------------------------------------------------------------------
(* Writers.                                                                *)

Acquire(c) ==
  /\ at[c] = "wait"
  /\ lock = None
  /\ lock' = c
  /\ MoveTo(c, "locked")
  /\ UNCHANGED <<tableVars, op, snap, todo, reply, calls>>

(* INSERT: the primary key refuses a second row.                           *)
Insert(c) ==
  /\ at[c] = "locked"
  /\ op[c].kind = "create"
  /\ MoveTo(c, IF db[op[c].id] = None THEN "written" ELSE "failing")
  /\ UNCHANGED <<tableVars, lock, op, snap, todo, reply, calls>>

(* Variant: the lock covers the read only.                                 *)
SelectAndUnlock(c) ==
  /\ at[c] = "locked"
  /\ op[c].kind = "update"
  /\ snap' = [snap EXCEPT ![c] = db[op[c].id]]
  /\ lock' = None
  /\ MoveTo(c, IF db[op[c].id] = None THEN "failing" ELSE "selected")
  /\ UNCHANGED <<tableVars, op, todo, reply, calls>>

(* SELECT: no row is a KeyError.                                           *)
Select(c) ==
  /\ at[c] = "locked"
  /\ op[c].kind = "update"
  /\ snap' = [snap EXCEPT ![c] = db[op[c].id]]
  /\ MoveTo(c, IF db[op[c].id] = None THEN "failing" ELSE "selected")
  /\ UNCHANGED <<tableVars, lock, op, todo, reply, calls>>

(* UPDATE: written in the connection's transaction, seen by nobody else.   *)
Update(c) ==
  /\ at[c] = "selected"
  /\ MoveTo(c, "written")
  /\ UNCHANGED <<tableVars, lock, op, snap, todo, reply, calls>>

(* The connection's context manager commits.                               *)
Commit(c) ==
  /\ at[c] = "written"
  /\ LET i == op[c].id IN
     \/ /\ op[c].kind = "create"
        /\ db' = [db EXCEPT ![i] = NewRow]
        /\ rowids' = Append(rowids, i)
     \/ /\ op[c].kind = "update"
        /\ db' = [db EXCEPT ![i] = Merge(snap[c], op[c].change)]
        /\ UNCHANGED rowids
  /\ MoveTo(c, "committed")
  /\ UNCHANGED <<lock, op, snap, todo, reply, calls>>

(* A statement or the commit raises: the transaction is rolled back.       *)
StatementFails(c) ==
  /\ at[c] \in {"locked", "selected", "written"}
  /\ MoveTo(c, "failing")
  /\ UNCHANGED <<tableVars, lock, op, snap, todo, reply, calls>>

(* Variant: an exception leaves the lock held.                             *)
ReleaseOnSuccess(c) ==
  /\ at[c] \in {"committed", "failing"}
  /\ lock' = IF at[c] = "committed" THEN None ELSE lock
  /\ reply' = [reply EXCEPT ![c] =
       IF at[c] = "committed" THEN Answer(<< >>) ELSE Failed]
  /\ MoveTo(c, "idle")
  /\ UNCHANGED <<tableVars, op, snap, todo, calls>>

(* The lock is released after the connection is done with, either way.     *)
Release(c) ==
  /\ at[c] \in {"committed", "failing"}
  /\ lock' = None
  /\ reply' = [reply EXCEPT ![c] =
       IF at[c] = "committed" THEN Answer(<< >>) ELSE Failed]
  /\ MoveTo(c, "idle")
  /\ UNCHANGED <<tableVars, op, snap, todo, calls>>

-----------------------------------------------------------------------------
(* Readers.                                                                *)

Get(c) ==
  /\ at[c] = "read"
  /\ LET row == db[op[c].id] IN
     reply' = [reply EXCEPT ![c] =
       IF row = None THEN Failed ELSE Answer(<< <<op[c].id, row>> >>)]
  /\ MoveTo(c, "idle")
  /\ UNCHANGED <<tableVars, lock, op, snap, todo, calls>>

(* Variant: the oldest ids first.                                          *)
Oldest(ids) ==
  LET n == IF Len(ids) < Limit THEN Len(ids) ELSE Limit IN SubSeq(ids, 1, n)

(* The newest ids first, at most Limit of them.                            *)
Newest(ids) ==
  LET n == IF Len(ids) < Limit THEN Len(ids) ELSE Limit IN
  [k \in 1..n |-> ids[Len(ids) + 1 - k]]

ListIds(c) ==
  /\ at[c] = "read_ids"
  /\ todo' = [todo EXCEPT ![c] = Newest(rowids)]
  /\ reply' = [reply EXCEPT ![c] = Answer(<< >>)]
  /\ MoveTo(c, "read_rows")
  /\ UNCHANGED <<tableVars, lock, op, snap, calls>>

(* list then calls get for one id after the other.                         *)
ListRow(c) ==
  /\ at[c] = "read_rows"
  /\ todo[c] # << >>
  /\ LET i == Head(todo[c]) IN
     IF db[i] = None
     THEN /\ reply' = [reply EXCEPT ![c] = Failed]
          /\ todo' = [todo EXCEPT ![c] = << >>]
     ELSE /\ reply' = [reply EXCEPT ![c] = Answer(Append(@.rows, <<i, db[i]>>))]
          /\ todo' = [todo EXCEPT ![c] = Tail(@)]
  /\ UNCHANGED <<tableVars, lock, at, op, snap, calls>>

ListReturns(c) ==
  /\ at[c] = "read_rows"
  /\ todo[c] = << >>
  /\ MoveTo(c, "idle")
  /\ UNCHANGED <<tableVars, lock, op, snap, todo, reply, calls>>

-----------------------------------------------------------------------------
(* The process dies and is started again: threads and lock are gone.       *)
Crash ==
  /\ \E c \in Clients : at[c] # "idle"
  /\ at' = [c \in Clients |-> "idle"]
  /\ lock' = None
  /\ reply' = [c \in Clients |-> NoReply]
  /\ todo' = [c \in Clients |-> << >>]
  /\ UNCHANGED <<tableVars, op, snap, calls>>

Proceed(c) ==
  \/ Acquire(c) \/ Insert(c) \/ Select(c) \/ Update(c) \/ Commit(c)
  \/ StatementFails(c) \/ Release(c)
  \/ Get(c) \/ ListIds(c) \/ ListRow(c) \/ ListReturns(c)

Next == Crash \/ \E c \in Clients : Call(c) \/ Proceed(c)

Spec == Init /\ [][Next]_vars

(* SQLite's busy timeout bounds every statement; the scheduler runs every    *)
(* thread.  Weak fairness is enough for the lock because a thread makes at   *)
(* most MaxCalls calls: in the end nobody else takes it.                     *)
FairSpec == Spec /\ \A c \in Clients : WF_vars(Proceed(c))

-----------------------------------------------------------------------------
IsPastOf(row, now) ==
  /\ Len(row.events) <= Len(now.events)
  /\ \A k \in DOMAIN row.events : row.events[k] = now.events[k]
  /\ row.packet # None => now.packet # None

(* What a reader returned without the lock is a committed state of the row: *)
(* never ahead of it, at most behind (store.py:71-92).                      *)
ReadsArePastStates ==
  \A c \in Clients : \A n \in DOMAIN reply[c].rows :
    LET i == reply[c].rows[n][1] IN
    db[i] # None /\ IsPastOf(reply[c].rows[n][2], db[i])

(* list reads the ids and then each row in a transaction of its own, yet it *)
(* never misses a row it has the id of, and returns every run at most once, *)
(* newest first (store.py:89-92).                                           *)
ListIsSound ==
  \A c \in Clients : op[c].kind = "list" =>
    /\ reply[c].status # "error"
    /\ \A m, n \in DOMAIN reply[c].rows : m < n =>
         \E j, k \in DOMAIN rowids :
           /\ j < k
           /\ rowids[k] = reply[c].rows[m][1]
           /\ rowids[j] = reply[c].rows[n][1]

(* Every call returns or dies with the process: no path through a writer    *)
(* keeps the lock (store.py:36, 51).                                        *)
CallsReturn == \A c \in Clients : at[c] # "idle" ~> at[c] = "idle"

-----------------------------------------------------------------------------
Atomic == INSTANCE AtomicStore WITH rows <- db

(* The store behaves as if every update and every create were one step.     *)
ImplementsAtomicStore == Atomic!Spec
=============================================================================
