-------------------------- MODULE RunStoreProofs ---------------------------
(***************************************************************************)
(* For every number of threads, rows and calls: the lock and the            *)
(* transactions make the store atomic, and a reader that takes no lock sees *)
(* a committed past of each row.                                            *)
(***************************************************************************)
EXTENDS RunStore, TLAPS

(* A merged row is a row, its trail extends the old one, and a packet that  *)
(* was written stays (store.py:57-69).                                      *)
LEMMA MergeKeeps ==
  ASSUME NEW row \in Row, NEW ch \in Change
  PROVE  /\ Merge(row, ch) \in Row
         /\ IsPastOf(row, Merge(row, ch))
<1>1. row.events \in Seq(Events) /\ row.stage \in StageNames \cup {"queued"}
        /\ row.packet \in Packets \cup {None}
  BY DEF Row
<1>2. ch.event \in Events \cup {None} /\ ch.stage \in StageNames \cup {None}
        /\ ch.packet \in Packets \cup {None}
  BY DEF Change
<1> DEFINE trail == IF ch.event = None THEN row.events ELSE Append(row.events, ch.event)
<1>3. trail \in Seq(Events)
  BY <1>1, <1>2
<1>4. /\ Len(row.events) <= Len(trail)
      /\ \A k \in 1..Len(row.events) : trail[k] = row.events[k]
  BY <1>1, <1>2
<1>5. Merge(row, ch).events = trail
  BY DEF Merge
<1>6. Merge(row, ch) \in Row
  BY <1>1, <1>2, <1>3 DEF Merge, Row
<1>7. row.packet # None => Merge(row, ch).packet # None
  BY DEF Merge
<1> HIDE DEF trail
<1>8. DOMAIN row.events = 1..Len(row.events)
  BY <1>1
<1>9. QED
  BY <1>4, <1>5, <1>6, <1>7, <1>8 DEF IsPastOf

(* create inserts a row (store.py:29-40).                                   *)
LEMMA NewRowIsRow == NewRow \in Row /\ NewRow # None
<1>1. << >> \in Seq(Events)
  OBVIOUS
<1>2. NewRow \in Row
  BY <1>1 DEF NewRow, Row
<1>3. QED
  BY <1>2, RowAssumption

(* The calls made have their types.                                         *)
LEMMA OperationsAreOperations == Operations \subseteq Operation
<1>1. NoChange \in Change
  BY DEF NoChange, Change
<1>2. Idle \in Operation
  BY <1>1, CallAssumption DEF Idle, Operation
<1>3. QED
  BY <1>1, <1>2, CallAssumption DEF Operations, Operation

(* list asks for ids of the table (store.py:80-88).                         *)
LEMMA NewestIsOfIds ==
  ASSUME NEW ids \in Seq(Ids)
  PROVE  Newest(ids) \in Seq(Ids)
<1> DEFINE n == IF Len(ids) < Limit THEN Len(ids) ELSE Limit
<1>1. n \in Nat /\ n <= Len(ids)
  BY CallAssumption
<1>2. \A k \in 1..n : ids[Len(ids) + 1 - k] \in Ids
  BY <1>1
<1>3. Newest(ids) = [k \in 1..n |-> ids[Len(ids) + 1 - k]]
  BY DEF Newest
<1> HIDE DEF n
<1>4. QED
  BY <1>1, <1>2, <1>3

(* The two ways to commit.                                                  *)
LEMMA CommitInserts ==
  ASSUME NEW c \in Clients, Commit(c), op[c].kind = "create"
  PROVE  /\ db' = [db EXCEPT ![op[c].id] = NewRow]
         /\ rowids' = Append(rowids, op[c].id)
  BY DEF Commit

(* An update commits what it read with its change (store.py:51-69).         *)
LEMMA CommitAmends ==
  ASSUME NEW c \in Clients, Commit(c), op[c].kind # "create"
  PROVE  /\ op[c].kind = "update"
         /\ db' = [db EXCEPT ![op[c].id] = Merge(snap[c], op[c].change)]
         /\ rowids' = rowids
  BY DEF Commit

-----------------------------------------------------------------------------
(* The lock holder is the one thread inside a writer, and what its SELECT   *)
(* saw, or its INSERT is about to write, still holds when it commits.       *)
WriterInv ==
  \A c \in Clients :
    /\ at[c] \in Locked <=> lock = c
    /\ at[c] \in Locked => op[c].kind \in {"create", "update"}
    /\ at[c] = "wait" => op[c].kind \in {"create", "update"}
    /\ at[c] = "selected" => op[c].kind = "update"
    /\ at[c] \in {"selected", "written"} /\ op[c].kind = "update" =>
         snap[c] # None /\ snap[c] = db[op[c].id]
    /\ at[c] = "written" /\ op[c].kind = "create" => db[op[c].id] = None

Inv == TypeOK /\ WriterInv

(* Types, and the argument for the lock: whoever is between its SELECT and  *)
(* its commit is alone there (store.py:36, 51).                             *)
THEOREM WritersAreAlone == Spec => []Inv
<1>1. Init => Inv
  <2>1. Idle \in Operation
    BY OperationsAreOperations DEF Operations
  <2>2. NoReply \in Reply
    BY DEF NoReply, Reply
  <2>3. 0 \in 0..MaxCalls
    BY CallAssumption
  <2>4. Init => TypeOK
    BY <2>1, <2>2, <2>3 DEF Init, TypeOK
  <2>5. Init => WriterInv
    BY CallAssumption DEF Init, WriterInv, Locked
  <2>6. QED
    BY <2>4, <2>5 DEF Inv
<1>2. Inv /\ [Next]_vars => Inv'
  <2> SUFFICES ASSUME TypeOK, WriterInv, [Next]_vars PROVE TypeOK' /\ WriterInv'
    BY DEF Inv
  <2>r. NoReply \in Reply /\ Failed \in Reply /\ Answer(<< >>) \in Reply
    BY DEF NoReply, Failed, Answer, Reply
  <2>1. CASE Crash
    BY <2>1, <2>r, CallAssumption DEF TypeOK, WriterInv, Crash, tableVars, Locked
  <2>2. ASSUME NEW c \in Clients, Call(c) PROVE TypeOK' /\ WriterInv'
    <3>1. PICK o \in Operations : op' = [op EXCEPT ![c] = o] /\ at' = [at EXCEPT ![c] = Entry[o.kind]]
      BY <2>2 DEF Call, MoveTo
    <3>2. o \in Operation /\ o.kind \in {"create", "update", "get", "list"}
      BY OperationsAreOperations DEF Operation
    <3>3. /\ Entry[o.kind] \in {"wait", "read", "read_ids"}
          /\ Entry[o.kind] = "wait" => o.kind \in {"create", "update"}
      BY <3>2 DEF Entry
    <3>4. calls[c] + 1 \in 0..MaxCalls
      BY <2>2, CallAssumption DEF Call, TypeOK
    <3>5. TypeOK'
      BY <2>2, <2>r, <3>1, <3>2, <3>3, <3>4 DEF TypeOK, Call, tableVars
    <3>6. WriterInv'
      BY <2>2, <3>1, <3>3 DEF TypeOK, WriterInv, Call, tableVars, Locked
    <3>7. QED
      BY <3>5, <3>6
  <2>3. ASSUME NEW c \in Clients, Acquire(c) PROVE TypeOK' /\ WriterInv'
    BY <2>3, <2>r, CallAssumption DEF TypeOK, WriterInv, Acquire, MoveTo, tableVars, Locked
  <2>4. ASSUME NEW c \in Clients, Insert(c) PROVE TypeOK' /\ WriterInv'
    BY <2>4, <2>r, CallAssumption DEF TypeOK, WriterInv, Insert, MoveTo, tableVars, Locked
  <2>5. ASSUME NEW c \in Clients, Select(c) PROVE TypeOK' /\ WriterInv'
    <3>1. op[c].id \in Ids
      BY DEF TypeOK, Operation
    <3>2. TypeOK'
      BY <2>5, <3>1 DEF TypeOK, Select, MoveTo, tableVars, Locked
    <3>3. WriterInv'
      BY <2>5, <3>1 DEF TypeOK, WriterInv, Select, MoveTo, tableVars, Locked
    <3>4. QED
      BY <3>2, <3>3
  <2>6. ASSUME NEW c \in Clients, Update(c) PROVE TypeOK' /\ WriterInv'
    BY <2>6, <2>r, CallAssumption DEF TypeOK, WriterInv, Update, MoveTo, tableVars, Locked
  <2>7. ASSUME NEW c \in Clients, Commit(c) PROVE TypeOK' /\ WriterInv'
    <3>1. op[c].id \in Ids /\ op[c].change \in Change
      BY DEF TypeOK, Operation
    <3>2. ASSUME op[c].kind = "create" PROVE TypeOK'
      <4>1. db' \in [Ids -> Row \cup {None}]
        BY <2>7, <3>2, CommitInserts, NewRowIsRow DEF TypeOK
      <4>2. rowids' \in Seq(Ids)
        <5>1. rowids' = Append(rowids, op[c].id)
          BY <2>7, <3>2, CommitInserts
        <5>2. rowids \in Seq(Ids)
          BY DEF TypeOK
        <5>3. QED
          BY <3>1, <5>1, <5>2
      <4>3. QED
        BY <2>7, <4>1, <4>2 DEF TypeOK, Commit, MoveTo, Locked
    <3>3. ASSUME op[c].kind # "create" PROVE TypeOK'
      <4>1. snap[c] \in Row
        BY <2>7, <3>3, CommitAmends DEF TypeOK, WriterInv, Commit
      <4>2. Merge(snap[c], op[c].change) \in Row
        BY <3>1, <4>1, MergeKeeps
      <4>3. db' \in [Ids -> Row \cup {None}] /\ rowids' = rowids
        BY <2>7, <3>3, <4>2, CommitAmends DEF TypeOK
      <4>4. QED
        BY <2>7, <4>3 DEF TypeOK, Commit, MoveTo, Locked
    <3>4. WriterInv'
      BY <2>7 DEF TypeOK, WriterInv, Commit, MoveTo, Locked
    <3>5. QED
      BY <3>2, <3>3, <3>4
  <2>8. ASSUME NEW c \in Clients, StatementFails(c) PROVE TypeOK' /\ WriterInv'
    BY <2>8, <2>r, CallAssumption DEF TypeOK, WriterInv, StatementFails, MoveTo, tableVars, Locked
  <2>9. ASSUME NEW c \in Clients, Release(c) PROVE TypeOK' /\ WriterInv'
    BY <2>9, <2>r, CallAssumption DEF TypeOK, WriterInv, Release, MoveTo, tableVars, Locked
  <2>10. ASSUME NEW c \in Clients, Get(c) PROVE TypeOK' /\ WriterInv'
    <3>1. op[c].id \in Ids
      BY DEF TypeOK, Operation
    <3>2. db[op[c].id] # None => Answer(<< <<op[c].id, db[op[c].id]>> >>) \in Reply
      BY <3>1 DEF TypeOK, Answer, Reply
    <3>3. TypeOK'
      BY <2>10, <2>r, <3>2 DEF TypeOK, Get, MoveTo, tableVars
    <3>4. WriterInv'
      BY <2>10 DEF TypeOK, WriterInv, Get, MoveTo, tableVars, Locked
    <3>5. QED
      BY <3>3, <3>4
  <2>11. ASSUME NEW c \in Clients, ListIds(c) PROVE TypeOK' /\ WriterInv'
    <3>1. Newest(rowids) \in Seq(Ids)
      BY NewestIsOfIds DEF TypeOK
    <3>2. TypeOK'
      BY <2>11, <2>r, <3>1 DEF TypeOK, ListIds, MoveTo, tableVars
    <3>3. WriterInv'
      BY <2>11 DEF TypeOK, WriterInv, ListIds, MoveTo, tableVars, Locked
    <3>4. QED
      BY <3>2, <3>3
  <2>12. ASSUME NEW c \in Clients, ListRow(c) PROVE TypeOK' /\ WriterInv'
    <3> DEFINE i == Head(todo[c])
               more == Append(reply[c].rows, <<i, db[i]>>)
    <3>1. todo[c] \in Seq(Ids) /\ i \in Ids /\ Tail(todo[c]) \in Seq(Ids)
      BY <2>12 DEF TypeOK, ListRow
    <3>2. reply[c] \in Reply
      BY DEF TypeOK
    <3>3. db[i] # None => more \in Seq(Ids \X Row)
      BY <3>1, <3>2 DEF TypeOK, Reply
    <3>4. db[i] # None => Answer(more) \in Reply
      BY <3>3 DEF Reply, Answer
    <3>5. /\ reply' = [reply EXCEPT ![c] = IF db[i] = None THEN Failed ELSE Answer(more)]
          /\ todo' = [todo EXCEPT ![c] = IF db[i] = None THEN << >> ELSE Tail(todo[c])]
      BY <2>12 DEF ListRow, TypeOK
    <3> HIDE DEF more
    <3>7. reply' \in [Clients -> Reply]
      BY <2>r, <3>4, <3>5 DEF TypeOK
    <3>8. todo' \in [Clients -> Seq(Ids)]
      BY <3>1, <3>5 DEF TypeOK
    <3>9. TypeOK'
      BY <2>12, <3>7, <3>8 DEF TypeOK, ListRow, tableVars
    <3>10. WriterInv'
      BY <2>12 DEF TypeOK, WriterInv, ListRow, tableVars
    <3>11. QED
      BY <3>9, <3>10
  <2>13. ASSUME NEW c \in Clients, ListReturns(c) PROVE TypeOK' /\ WriterInv'
    BY <2>13, <2>r, CallAssumption DEF TypeOK, WriterInv, ListReturns, MoveTo, tableVars, Locked
  <2>14. CASE UNCHANGED vars
    BY <2>14 DEF TypeOK, WriterInv, vars, tableVars, threadVars
  <2>15. QED
    BY <2>1, <2>2, <2>3, <2>4, <2>5, <2>6, <2>7, <2>8, <2>9, <2>10, <2>11, <2>12, <2>13, <2>14
       DEF Next, Proceed
<1>3. QED
  BY <1>1, <1>2, PTL DEF Spec

(* The table holds rows under their ids, the lock names a thread, and every *)
(* thread is at a step of the call it makes (store.py:29-92).               *)
THEOREM StoreTypes == Spec => []TypeOK
<1>1. Inv => TypeOK
  BY DEF Inv
<1>2. QED
  BY <1>1, WritersAreAlone, PTL

(* The store behaves as if every insert and every update were one step      *)
(* (store.py:35-69).                                                        *)
THEOREM StoreIsAtomic == Spec => ImplementsAtomicStore
<1>1. Init => Atomic!Init
  BY DEF Init, Atomic!Init
<1>2. Inv /\ [Next]_vars => [Atomic!Next]_(Atomic!storeVars)
  <2> SUFFICES ASSUME TypeOK, WriterInv, [Next]_vars
               PROVE  [Atomic!Next]_(Atomic!storeVars)
    BY DEF Inv
  <2>1. ASSUME NEW c \in Clients, Commit(c) PROVE Atomic!Next
    <3>1. op[c].id \in Ids /\ op[c].change \in Change /\ at[c] = "written"
      BY <2>1 DEF TypeOK, Operation, Commit
    <3>2. CASE op[c].kind = "create"
      <4>1. db[op[c].id] = None
        BY <3>1, <3>2 DEF WriterInv
      <4>2. Atomic!Insert(op[c].id)
        BY <2>1, <3>2, <4>1, CommitInserts
           DEF Atomic!Insert, Atomic!NewRow, NewRow
      <4>3. QED
        BY <3>1, <4>2 DEF Atomic!Next
    <3>3. CASE op[c].kind # "create"
      <4>1. snap[c] # None /\ snap[c] = db[op[c].id]
        BY <2>1, <3>1, <3>3, CommitAmends DEF WriterInv
      <4>2. /\ db' = [db EXCEPT ![op[c].id] = Merge(db[op[c].id], op[c].change)]
            /\ rowids' = rowids
        BY <2>1, <3>3, <4>1, CommitAmends
      <4>3. Atomic!Amend(op[c].id)
        <5>1. Merge(db[op[c].id], op[c].change) = Atomic!Merge(db[op[c].id], op[c].change)
          BY DEF Merge, Atomic!Merge
        <5>2. op[c].change \in Atomic!Change
          BY <3>1 DEF Change, Atomic!Change
        <5>3. QED
          BY <4>1, <4>2, <5>1, <5>2 DEF Atomic!Amend
      <4>4. QED
        BY <3>1, <4>3 DEF Atomic!Next
    <3>4. QED
      BY <3>2, <3>3
  <2>2. CASE UNCHANGED tableVars
    BY <2>2 DEF tableVars, Atomic!storeVars
  <2>3. ASSUME NEW c \in Clients, Proceed(c), ~ Commit(c) PROVE UNCHANGED tableVars
    BY <2>3 DEF Proceed, Acquire, Insert, Select, Update, StatementFails, Release,
                Get, ListIds, ListRow, ListReturns
  <2>4. ASSUME NEW c \in Clients, Call(c) PROVE UNCHANGED tableVars
    BY <2>4 DEF Call
  <2>5. CASE Crash
    BY <2>2, <2>5 DEF Crash
  <2>6. CASE UNCHANGED vars
    BY <2>2, <2>6 DEF vars
  <2>7. QED
    BY <2>1, <2>2, <2>3, <2>4, <2>5, <2>6 DEF Next
<1>3. QED
  BY <1>1, <1>2, WritersAreAlone, PTL DEF Spec, ImplementsAtomicStore, Atomic!Spec

-----------------------------------------------------------------------------
(* A past of a past is a past.                                              *)
LEMMA PastIsTransitive ==
  ASSUME NEW old \in Row, NEW mid \in Row, NEW new \in Row,
         IsPastOf(old, mid), IsPastOf(mid, new)
  PROVE  IsPastOf(old, new)
<1>1. old.events \in Seq(Events) /\ mid.events \in Seq(Events) /\ new.events \in Seq(Events)
  BY DEF Row
<1>2. Len(old.events) <= Len(new.events)
  BY <1>1 DEF IsPastOf
<1>3. \A k \in DOMAIN old.events : k \in DOMAIN mid.events
  BY <1>1 DEF IsPastOf
<1>4. QED
  BY <1>2, <1>3 DEF IsPastOf

(* A row is its own past.                                                   *)
LEMMA PastIsReflexive ==
  ASSUME NEW row \in Row
  PROVE  IsPastOf(row, row)
<1>1. row.events \in Seq(Events)
  BY DEF Row
<1>2. QED
  BY <1>1 DEF IsPastOf

(* No step takes a row back (store.py:57-69).                               *)
LEMMA RowsGrow ==
  ASSUME Inv, [Next]_vars, NEW i \in Ids, db[i] # None
  PROVE  db'[i] # None /\ IsPastOf(db[i], db'[i])
<1>1. db[i] \in Row
  BY DEF Inv, TypeOK
<1>2. CASE db' = db
  BY <1>1, <1>2, PastIsReflexive
<1>3. ASSUME NEW c \in Clients, Commit(c) PROVE db'[i] # None /\ IsPastOf(db[i], db'[i])
  <2>1. op[c].id \in Ids /\ op[c].change \in Change /\ at[c] = "written"
    BY <1>3 DEF Inv, TypeOK, Operation, Commit
  <2>2. CASE op[c].kind = "create"
    <3>1. op[c].id # i
      BY <2>1, <2>2 DEF Inv, WriterInv
    <3>2. db'[i] = db[i]
      BY <1>3, <2>2, <3>1, CommitInserts DEF Inv, TypeOK
    <3>3. QED
      BY <1>1, <3>2, PastIsReflexive
  <2>3. CASE op[c].kind # "create"
    <3>1. snap[c] = db[op[c].id] /\ snap[c] # None
      BY <1>3, <2>1, <2>3, CommitAmends DEF Inv, WriterInv
    <3>2. db'[i] = IF i = op[c].id THEN Merge(db[i], op[c].change) ELSE db[i]
      BY <1>3, <2>3, <3>1, CommitAmends DEF Inv, TypeOK
    <3>3. Merge(db[i], op[c].change) \in Row /\ IsPastOf(db[i], Merge(db[i], op[c].change))
      BY <1>1, <2>1, MergeKeeps
    <3>4. QED
      BY <1>1, <3>2, <3>3, PastIsReflexive, RowAssumption
  <2>4. QED
    BY <2>2, <2>3
<1>4. db' = db \/ \E c \in Clients : Commit(c)
  BY DEF Next, Crash, Call, Proceed, Acquire, Insert, Select, Update, StatementFails,
         Release, Get, ListIds, ListRow, ListReturns, vars, tableVars
<1>5. QED
  BY <1>2, <1>3, <1>4

(* What a reader got without the lock is a committed past of the row        *)
(* (store.py:71-92).                                                        *)
THEOREM ReadersSeePasts == Spec => []ReadsArePastStates
<1>1. Init => ReadsArePastStates
  BY DEF Init, ReadsArePastStates, NoReply
<1>2. Inv /\ Inv' /\ ReadsArePastStates /\ [Next]_vars => ReadsArePastStates'
  <2> SUFFICES ASSUME Inv, Inv', ReadsArePastStates, [Next]_vars,
                      NEW d \in Clients, NEW n \in DOMAIN reply'[d].rows
               PROVE  LET i == reply'[d].rows[n][1] IN
                      db'[i] # None /\ IsPastOf(reply'[d].rows[n][2], db'[i])
    BY DEF ReadsArePastStates
  <2> DEFINE Kept == /\ n \in DOMAIN reply[d].rows
                     /\ reply'[d].rows[n] = reply[d].rows[n]
             Read == \E i \in Ids : db[i] # None /\ reply'[d].rows[n] = <<i, db[i]>>
  <2>9. reply \in [Clients -> Reply] /\ reply[d].rows \in Seq(Ids \X Row)
    BY DEF Inv, TypeOK, Reply
  <2>1. CASE Kept
    <3> DEFINE i == reply[d].rows[n][1]
               row == reply[d].rows[n][2]
    <3>1. i \in Ids /\ row \in Row
      BY <2>9, <2>1
    <3>2. db[i] # None /\ IsPastOf(row, db[i])
      BY <2>1 DEF ReadsArePastStates
    <3>3. db'[i] # None /\ IsPastOf(db[i], db'[i])
      BY <3>1, <3>2, RowsGrow
    <3>4. db[i] \in Row /\ db'[i] \in Row
      BY <3>1, <3>2, <3>3 DEF Inv, TypeOK
    <3>5. IsPastOf(row, db'[i])
      BY <3>1, <3>2, <3>3, <3>4, PastIsTransitive
    <3>6. QED
      BY <2>1, <3>3, <3>5
  <2>2. CASE Read
    <3>1. PICK i \in Ids : db[i] # None /\ reply'[d].rows[n] = <<i, db[i]>>
      BY <2>2
    <3>2. db'[i] # None /\ IsPastOf(db[i], db'[i])
      BY <3>1, RowsGrow
    <3>3. QED
      BY <3>1, <3>2
  <2>3. Kept \/ Read
    <3>1. CASE reply' = reply
      BY <3>1
    <3>2. CASE reply'[d].rows = << >>
      BY <3>2
    <3>3. ASSUME NEW c \in Clients, Get(c) PROVE Kept \/ Read
      <4>1. op[c].id \in Ids
        BY DEF Inv, TypeOK, Operation
      <4>2. reply' = [reply EXCEPT ![c] = IF db[op[c].id] = None THEN Failed
                        ELSE Answer(<< <<op[c].id, db[op[c].id]>> >>)]
        BY <3>3 DEF Get
      <4>3. CASE d = c
        BY <2>9, <4>1, <4>2, <4>3 DEF Failed, Answer
      <4>4. CASE d # c
        BY <2>9, <4>2, <4>4
      <4>5. QED
        BY <4>3, <4>4
    <3>4. ASSUME NEW c \in Clients, ListRow(c) PROVE Kept \/ Read
      <4> DEFINE i == Head(todo[c])
      <4>1. i \in Ids
        BY <3>4 DEF Inv, TypeOK, ListRow
      <4>2. reply' = [reply EXCEPT ![c] = IF db[i] = None THEN Failed
                        ELSE Answer(Append(reply[c].rows, <<i, db[i]>>))]
        BY <2>9, <3>4 DEF ListRow
      <4>3. CASE d # c
        BY <2>9, <4>2, <4>3
      <4>4. CASE d = c /\ db[i] = None
        BY <2>9, <4>2, <4>4 DEF Failed
      <4>5. CASE d = c /\ db[i] # None
        <5>1. reply'[d].rows = Append(reply[d].rows, <<i, db[i]>>)
          BY <2>9, <4>2, <4>5 DEF Answer
        <5>2. CASE n = Len(reply[d].rows) + 1
          BY <2>9, <4>1, <4>5, <5>1, <5>2
        <5>3. CASE n # Len(reply[d].rows) + 1
          BY <2>9, <5>1, <5>3
        <5>4. QED
          BY <5>2, <5>3
      <4>6. QED
        BY <4>3, <4>4, <4>5
    <3>5. ASSUME NEW c \in Clients, ListIds(c) \/ Release(c) \/ Call(c) PROVE Kept
      <4>1. \E answer \in {Answer(<< >>), Failed, NoReply} : reply' = [reply EXCEPT ![c] = answer]
        BY <3>5 DEF ListIds, Release, Call
      <4>2. d # c
        BY <2>9, <4>1 DEF Answer, Failed, NoReply
      <4>3. QED
        BY <2>9, <4>1, <4>2
    <3>6. CASE Crash
      BY <3>2, <3>6 DEF Crash, NoReply
    <3>7. QED
      BY <3>1, <3>3, <3>4, <3>5, <3>6
         DEF Next, Proceed, Acquire, Insert, Select, Update, Commit, StatementFails,
             ListReturns, vars, threadVars
  <2>4. QED
    BY <2>1, <2>2, <2>3
<1>3. QED
  BY <1>1, <1>2, WritersAreAlone, PTL DEF Spec

-----------------------------------------------------------------------------
(* list.  The rows found and the ids left to get are neighbours in the      *)
(* table, read backwards from some row on.                                  *)
Descends(table, rows, ids, top) ==
  /\ Len(rows) + Len(ids) <= top
  /\ \A k \in 1..Len(rows) : rows[k][1] = table[top + 1 - k]
  /\ \A k \in 1..Len(ids) : ids[k] = table[top + 1 - Len(rows) - k]

ListedBy(c) ==
  /\ at[c] = "read" => op[c].kind = "get"
  /\ at[c] \in {"read_ids", "read_rows"} => op[c].kind = "list"
  /\ at[c] # "read_rows" => todo[c] = << >>
  /\ op[c].kind = "list" =>
       /\ reply[c].status # "error"
       /\ \E top \in 0..Len(rowids) :
            Descends(rowids, reply[c].rows, todo[c], top)

ListInv ==
  /\ \A k \in DOMAIN rowids : db[rowids[k]] # None
  /\ \A c \in Clients : ListedBy(c)

(* What a descent has read and the next it reads are positions of the table, *)
(* one before the other.                                                    *)
LEMMA DescentReadsTable ==
  ASSUME NEW table \in Seq(Ids), NEW rows \in Seq(Ids \X Row), NEW ids \in Seq(Ids),
         NEW top \in 0..Len(table), Descends(table, rows, ids, top)
  PROVE  /\ \A m, n \in DOMAIN rows : m < n =>
              \E j, k \in DOMAIN table :
                j < k /\ table[k] = rows[m][1] /\ table[j] = rows[n][1]
         /\ ids # << >> => \E k \in DOMAIN table : Head(ids) = table[k]
<1>1. Len(rows) \in Nat /\ Len(ids) \in Nat /\ Len(rows) + Len(ids) <= top
  BY DEF Descends
<1>2. ASSUME NEW k \in DOMAIN rows
      PROVE  top + 1 - k \in DOMAIN table /\ table[top + 1 - k] = rows[k][1]
  <2>1. k \in 1..Len(rows) /\ top + 1 - k \in 1..Len(table)
    BY <1>1
  <2>2. QED
    BY <2>1 DEF Descends
<1>3. \A m, n \in DOMAIN rows : m < n => top + 1 - n < top + 1 - m
  OBVIOUS
<1>4. ASSUME ids # << >> PROVE \E k \in DOMAIN table : Head(ids) = table[k]
  <2>1. 1 \in 1..Len(ids) /\ Head(ids) = ids[1]
    BY <1>4
  <2>2. ids[1] = table[top + 1 - Len(rows) - 1]
    BY <2>1 DEF Descends
  <2>3. top + 1 - Len(rows) - 1 \in DOMAIN table
    BY <1>1, <2>1
  <2>4. QED
    BY <2>1, <2>2, <2>3
<1>5. QED
  BY <1>2, <1>3, <1>4

(* Before anything is read there is nothing to ask.                         *)
LEMMA NothingDescends ==
  ASSUME NEW table \in Seq(Ids)
  PROVE  \E top \in 0..Len(table) : Descends(table, << >>, << >>, top)
<1>1. 0 \in 0..Len(table) /\ Descends(table, << >>, << >>, 0)
  BY DEF Descends
<1>2. QED
  BY <1>1

(* Rows inserted meanwhile do not matter.                                   *)
LEMMA DescentSurvivesInsert ==
  ASSUME NEW table \in Seq(Ids), NEW id \in Ids,
         NEW rows \in Seq(Ids \X Row), NEW ids \in Seq(Ids),
         NEW top \in 0..Len(table), Descends(table, rows, ids, top)
  PROVE  top \in 0..Len(Append(table, id)) /\ Descends(Append(table, id), rows, ids, top)
<1>1. /\ Len(Append(table, id)) = Len(table) + 1
      /\ \A k \in 1..Len(table) : Append(table, id)[k] = table[k]
  OBVIOUS
<1>2. \A k \in 1..Len(rows) : top + 1 - k \in 1..Len(table)
  BY DEF Descends
<1>3. \A k \in 1..Len(ids) : top + 1 - Len(rows) - k \in 1..Len(table)
  BY DEF Descends
<1>4. QED
  BY <1>1, <1>2, <1>3 DEF Descends

(* What list asks for first is a descent from the newest row.               *)
LEMMA NewestDescends ==
  ASSUME NEW table \in Seq(Ids)
  PROVE  Descends(table, << >>, Newest(table), Len(table))
<1> DEFINE n == IF Len(table) < Limit THEN Len(table) ELSE Limit
<1>1. n \in Nat /\ n <= Len(table)
  BY CallAssumption
<1>2. Newest(table) = [k \in 1..n |-> table[Len(table) + 1 - k]]
  BY DEF Newest
<1> HIDE DEF n
<1>3. Len(Newest(table)) = n
  BY <1>1, <1>2
<1>4. QED
  BY <1>1, <1>2, <1>3 DEF Descends

(* And each row it gets takes the descent one further.                      *)
LEMMA GettingDescends ==
  ASSUME NEW table \in Seq(Ids), NEW rows \in Seq(Ids \X Row),
         NEW ids \in Seq(Ids), ids # << >>, NEW row \in Row,
         NEW top \in 0..Len(table), Descends(table, rows, ids, top)
  PROVE  Descends(table, Append(rows, <<Head(ids), row>>), Tail(ids), top)
<1> DEFINE more == Append(rows, <<Head(ids), row>>)
<1>1. /\ Len(rows) \in Nat /\ Len(ids) \in Nat /\ Len(ids) >= 1
      /\ Len(more) = Len(rows) + 1 /\ Len(Tail(ids)) = Len(ids) - 1
      /\ \A k \in 1..Len(rows) : more[k] = rows[k]
      /\ more[Len(rows) + 1] = <<ids[1], row>>
      /\ \A k \in 1..Len(Tail(ids)) : Tail(ids)[k] = ids[k + 1]
  OBVIOUS
<1> HIDE DEF more
<1>2. more[Len(rows) + 1][1] = table[top + 1 - (Len(rows) + 1)]
  BY <1>1 DEF Descends
<1>3. ASSUME NEW k \in 1..Len(more) PROVE more[k][1] = table[top + 1 - k]
  <2>1. CASE k = Len(rows) + 1
    BY <1>2, <2>1
  <2>2. CASE k \in 1..Len(rows)
    BY <1>1, <2>2 DEF Descends
  <2>3. QED
    BY <1>1, <2>1, <2>2
<1>4. ASSUME NEW k \in 1..Len(Tail(ids))
      PROVE  Tail(ids)[k] = table[top + 1 - Len(more) - k]
  <2>1. k + 1 \in 1..Len(ids)
    BY <1>1
  <2>2. ids[k + 1] = table[top + 1 - Len(rows) - (k + 1)]
    BY <2>1 DEF Descends
  <2>3. top + 1 - Len(rows) - (k + 1) = top + 1 - Len(more) - k
    BY <1>1
  <2>4. QED
    BY <1>1, <2>2, <2>3
<1>5. Len(more) + Len(Tail(ids)) <= top
  BY <1>1 DEF Descends
<1>6. QED
  BY <1>3, <1>4, <1>5 DEF Descends, more

(* A thread that a step leaves alone keeps its part of the list.            *)
LEMMA ListedByStays ==
  ASSUME Inv, NEW c \in Clients, ListedBy(c),
         rowids' = rowids \/ \E id \in Ids : rowids' = Append(rowids, id),
         at'[c] = at[c] \/ {at[c], at'[c]} \cap {"read", "read_ids", "read_rows"} = {},
         op'[c] = op[c], todo'[c] = todo[c], reply'[c] = reply[c]
  PROVE  ListedBy(c)'
<1>1. /\ rowids \in Seq(Ids) /\ todo[c] \in Seq(Ids)
      /\ reply[c].rows \in Seq(Ids \X Row)
  BY DEF Inv, TypeOK, Reply
<1>2. ASSUME NEW top \in 0..Len(rowids), Descends(rowids, reply[c].rows, todo[c], top)
      PROVE  top \in 0..Len(rowids') /\ Descends(rowids', reply[c].rows, todo[c], top)
  <2>1. CASE rowids' = rowids
    BY <1>2, <2>1
  <2>2. ASSUME NEW id \in Ids, rowids' = Append(rowids, id)
        PROVE  top \in 0..Len(rowids') /\ Descends(rowids', reply[c].rows, todo[c], top)
    <3>1. /\ top \in 0..Len(Append(rowids, id))
          /\ Descends(Append(rowids, id), reply[c].rows, todo[c], top)
      BY <1>1, <1>2, DescentSurvivesInsert
    <3>2. QED
      BY <2>2, <3>1
  <2>3. QED
    BY <2>1, <2>2
<1>3. QED
  BY <1>2 DEF ListedBy

(* The descents survive every step of every thread.                         *)
LEMMA ListHolds == Inv /\ ListInv /\ [Next]_vars => ListInv'
<1> SUFFICES ASSUME Inv, ListInv, [Next]_vars PROVE ListInv'
  OBVIOUS
<1>1. rowids \in Seq(Ids) /\ db \in [Ids -> Row \cup {None}]
  BY DEF Inv, TypeOK
<1>2. \/ rowids' = rowids
      \/ \E c \in Clients : Commit(c) /\ op[c].kind = "create"
  BY DEF Next, Crash, Call, Proceed, Acquire, Insert, Select, Update, Commit,
         StatementFails, Release, Get, ListIds, ListRow, ListReturns, vars, tableVars
<1>3. /\ rowids' = rowids \/ \E id \in Ids : rowids' = Append(rowids, id)
      /\ \A k \in DOMAIN rowids' : db'[rowids'[k]] # None
  <2>1. \A k \in DOMAIN rowids : rowids[k] \in Ids /\ db'[rowids[k]] # None
    BY <1>1, RowsGrow DEF ListInv
  <2>2. ASSUME NEW c \in Clients, Commit(c), op[c].kind = "create"
        PROVE  /\ op[c].id \in Ids /\ rowids' = Append(rowids, op[c].id)
               /\ db'[op[c].id] # None
    BY <1>1, <2>2, CommitInserts, NewRowIsRow DEF Inv, TypeOK, Operation
  <2>3. CASE rowids' = rowids
    BY <2>1, <2>3
  <2>4. ASSUME NEW c \in Clients, Commit(c), op[c].kind = "create"
        PROVE  /\ \E id \in Ids : rowids' = Append(rowids, id)
               /\ \A k \in DOMAIN rowids' : db'[rowids'[k]] # None
    <3>1. \A k \in DOMAIN rowids' :
            \/ k \in DOMAIN rowids /\ rowids'[k] = rowids[k]
            \/ rowids'[k] = op[c].id
      BY <1>1, <2>2, <2>4
    <3>2. QED
      BY <2>1, <2>2, <2>4, <3>1
  <2>5. QED
    BY <1>2, <2>3, <2>4
<1>4. ASSUME NEW d \in Clients PROVE ListedBy(d)'
  <2>1. ListedBy(d)
    BY DEF ListInv
  <2>2. \E top \in 0..Len(rowids') : Descends(rowids', << >>, << >>, top)
    <3>1. rowids' \in Seq(Ids)
      BY <1>1, <1>3
    <3>2. QED
      BY <3>1, NothingDescends
  <2>3. CASE Crash
    BY <2>1, <2>2, <2>3 DEF Crash, ListedBy, NoReply
  <2>4. CASE UNCHANGED vars
    BY <1>3, <2>1, <2>4, ListedByStays DEF vars, threadVars, tableVars
  <2>5. ASSUME NEW c \in Clients, Call(c) PROVE ListedBy(d)'
    <3>1. PICK o \in Operations :
            op' = [op EXCEPT ![c] = o] /\ at' = [at EXCEPT ![c] = Entry[o.kind]]
      BY <2>5 DEF Call, MoveTo
    <3>2. CASE c # d
      BY <1>3, <2>1, <2>5, <3>1, <3>2, ListedByStays DEF Call, Inv, TypeOK
    <3>3. CASE c = d
      <4>1. todo'[d] = << >> /\ reply'[d] = NoReply
        BY <2>1, <2>5, <3>3 DEF Call, ListedBy, Inv, TypeOK
      <4>2. op'[d] = o /\ at'[d] = Entry[o.kind]
        BY <3>1, <3>3 DEF Inv, TypeOK
      <4>3. o.kind \in {"create", "update", "get", "list"}
        BY <3>1, OperationsAreOperations DEF Operation
      <4>4. /\ at'[d] = "read" => op'[d].kind = "get"
            /\ at'[d] \in {"read_ids", "read_rows"} => op'[d].kind = "list"
        BY <4>2, <4>3 DEF Entry
      <4>5. QED
        BY <2>2, <4>1, <4>4 DEF ListedBy, NoReply
    <3>4. QED
      BY <3>2, <3>3
  <2>6. ASSUME NEW c \in Clients, Release(c) PROVE ListedBy(d)'
    <3>1. CASE c # d
      BY <1>3, <2>1, <2>6, <3>1, ListedByStays DEF Release, MoveTo, Inv, TypeOK
    <3>2. CASE c = d
      <4>1. op'[d].kind # "list" /\ at'[d] = "idle" /\ todo'[d] = << >>
        BY <2>1, <2>6, <3>2 DEF Release, MoveTo, Inv, TypeOK, WriterInv, Locked, ListedBy
      <4>2. QED
        BY <4>1 DEF ListedBy
    <3>3. QED
      BY <3>1, <3>2
  <2>7. ASSUME NEW c \in Clients, Get(c) PROVE ListedBy(d)'
    <3>1. CASE c # d
      BY <1>3, <2>1, <2>7, <3>1, ListedByStays DEF Get, MoveTo, Inv, TypeOK
    <3>2. CASE c = d
      <4>1. op'[d].kind # "list" /\ at'[d] = "idle" /\ todo'[d] = << >>
        BY <2>1, <2>7, <3>2 DEF Get, MoveTo, Inv, TypeOK, ListedBy
      <4>2. QED
        BY <4>1 DEF ListedBy
    <3>3. QED
      BY <3>1, <3>2
  <2>8. ASSUME NEW c \in Clients, ListIds(c) PROVE ListedBy(d)'
    <3>1. CASE c # d
      BY <1>3, <2>1, <2>8, <3>1, ListedByStays DEF ListIds, MoveTo, Inv, TypeOK
    <3>2. CASE c = d
      <4>1. /\ op'[d].kind = "list" /\ at'[d] = "read_rows"
            /\ todo'[d] = Newest(rowids) /\ reply'[d] = Answer(<< >>)
            /\ rowids' = rowids
        BY <2>1, <2>8, <3>2 DEF ListIds, MoveTo, Inv, TypeOK, ListedBy, tableVars
      <4>2. Descends(rowids, << >>, Newest(rowids), Len(rowids))
        BY <1>1, NewestDescends
      <4>3. Len(rowids) \in 0..Len(rowids)
        BY <1>1
      <4>4. QED
        BY <4>1, <4>2, <4>3 DEF ListedBy, Answer
    <3>3. QED
      BY <3>1, <3>2
  <2>9. ASSUME NEW c \in Clients, ListRow(c) PROVE ListedBy(d)'
    <3>1. CASE c # d
      BY <1>3, <2>1, <2>9, <3>1, ListedByStays DEF ListRow, Inv, TypeOK
    <3>2. CASE c = d
      <4> DEFINE i == Head(todo[d])
      <4>1. PICK top \in 0..Len(rowids) : Descends(rowids, reply[d].rows, todo[d], top)
        BY <2>1, <2>9, <3>2 DEF ListRow, ListedBy
      <4>2. /\ todo[d] \in Seq(Ids) /\ todo[d] # << >> /\ reply[d].rows \in Seq(Ids \X Row)
        BY <2>9, <3>2 DEF ListRow, Inv, TypeOK, Reply
      <4>3. i \in Ids /\ db[i] # None
        <5>1. PICK k \in DOMAIN rowids : i = rowids[k]
          BY <1>1, <4>1, <4>2, DescentReadsTable
        <5>2. QED
          BY <1>1, <5>1 DEF ListInv
      <4>4. db[i] \in Row
        BY <1>1, <4>3
      <4>5. /\ reply'[d] = Answer(Append(reply[d].rows, <<i, db[i]>>))
            /\ todo'[d] = Tail(todo[d]) /\ rowids' = rowids
            /\ at'[d] = "read_rows" /\ op'[d] = op[d]
        BY <2>9, <3>2, <4>3 DEF ListRow, Inv, TypeOK, tableVars
      <4>6. Descends(rowids, Append(reply[d].rows, <<i, db[i]>>), Tail(todo[d]), top)
        BY <1>1, <4>1, <4>2, <4>4, GettingDescends
      <4>7. op[d].kind = "list"
        BY <2>1, <2>9, <3>2 DEF ListRow, ListedBy
      <4>8. QED
        BY <4>1, <4>5, <4>6, <4>7 DEF ListedBy, Answer
    <3>3. QED
      BY <3>1, <3>2
  <2>10. ASSUME NEW c \in Clients, ListReturns(c) PROVE ListedBy(d)'
    <3>1. CASE c # d
      BY <1>3, <2>1, <2>10, <3>1, ListedByStays DEF ListReturns, MoveTo, Inv, TypeOK
    <3>2. CASE c = d
      <4>1. /\ at'[d] = "idle" /\ todo[d] = << >> /\ todo'[d] = todo[d]
            /\ op'[d] = op[d] /\ reply'[d] = reply[d] /\ rowids' = rowids
        BY <2>10, <3>2 DEF ListReturns, MoveTo, Inv, TypeOK, tableVars
      <4>2. QED
        BY <2>1, <4>1 DEF ListedBy
    <3>3. QED
      BY <3>1, <3>2
  <2>11. ASSUME NEW c \in Clients, Acquire(c) \/ Insert(c) \/ Select(c) \/ Update(c)
                                   \/ Commit(c) \/ StatementFails(c)
         PROVE  ListedBy(d)'
    <3>1. UNCHANGED <<op, todo, reply>>
      BY <2>11 DEF Acquire, Insert, Select, Update, Commit, StatementFails
    <3>2. at'[d] = at[d] \/ {at[d], at'[d]} \cap {"read", "read_ids", "read_rows"} = {}
      BY <2>11 DEF Acquire, Insert, Select, Update, Commit, StatementFails, MoveTo,
                   Inv, TypeOK, Locked
    <3>3. QED
      BY <1>3, <2>1, <3>1, <3>2, ListedByStays
  <2>12. QED
    BY <2>3, <2>4, <2>5, <2>6, <2>7, <2>8, <2>9, <2>10, <2>11 DEF Next, Proceed
<1>5. QED
  BY <1>3, <1>4 DEF ListInv

(* list gets every row it has the id of, each once, newest first            *)
(* (store.py:80-92).                                                        *)
THEOREM ListingIsSound == Spec => []ListIsSound
<1>1. Init => ListInv
  <2> SUFFICES ASSUME Init PROVE ListInv
    OBVIOUS
  <2>1. rowids = << >> /\ rowids \in Seq(Ids) /\ DOMAIN rowids = {}
    BY DEF Init
  <2>2. \E top \in 0..Len(rowids) : Descends(rowids, << >>, << >>, top)
    BY <2>1, NothingDescends
  <2>3. QED
    BY <2>1, <2>2 DEF Init, ListInv, ListedBy, NoReply, Idle
<1>2. Inv /\ ListInv => ListIsSound
  <2> SUFFICES ASSUME Inv, ListInv, NEW c \in Clients, op[c].kind = "list"
               PROVE  /\ reply[c].status # "error"
                      /\ \A m, n \in DOMAIN reply[c].rows : m < n =>
                           \E j, k \in DOMAIN rowids :
                             /\ j < k
                             /\ rowids[k] = reply[c].rows[m][1]
                             /\ rowids[j] = reply[c].rows[n][1]
    BY DEF ListIsSound
  <2>1. PICK top \in 0..Len(rowids) : Descends(rowids, reply[c].rows, todo[c], top)
    BY DEF ListInv, ListedBy
  <2>2. /\ rowids \in Seq(Ids) /\ reply[c].rows \in Seq(Ids \X Row)
        /\ todo[c] \in Seq(Ids)
    BY DEF Inv, TypeOK, Reply
  <2>3. \A m, n \in DOMAIN reply[c].rows : m < n =>
          \E j, k \in DOMAIN rowids :
            j < k /\ rowids[k] = reply[c].rows[m][1] /\ rowids[j] = reply[c].rows[n][1]
    BY <2>1, <2>2, DescentReadsTable
  <2>4. QED
    BY <2>3 DEF ListInv, ListedBy
<1>3. QED
  BY <1>1, <1>2, ListHolds, WritersAreAlone, PTL DEF Spec
=============================================================================
