----------------------- MODULE OrderRepositoryProofs -----------------------
(* Theorems about OrderRepository, for any number of units of work.           *)
EXTENDS OrderRepository, FiniteSetTheorems, TLAPS

\* At most one unit has written the order, and it has yet to commit; nobody has
\* loaded an order that is not there.
Writing ==
    /\ \A u, q \in Unit : draft[u] # None /\ draft[q] # None => u = q
    /\ \A u \in Unit : draft[u] # None =>
         /\ pc[u] \in {"open", "created"}
         /\ row.state # "gone" /\ draft[u].state # "unborn"
    /\ \A u \in Unit :
         row.state = "unborn" /\ draft[u] = None /\ pc[u] \in {"open", "created"}
         => loaded[u] = None

\* A unit that wrote a living order commits it with children.
Whole ==
    /\ OrderIsWhole
    /\ \A u \in Unit :
         pc[u] = "open" /\ draft[u] # None /\ draft[u].state = "alive"
         => row.state = "alive" \/ added[u]

\* A unit that was told it had deleted the order has done so in its transaction,
\* and the order is gone once it has committed.
Deleted ==
    /\ \A u \in Unit : deleted[u] =>
         /\ pc[u] \in {"open", "created"} => draft[u] # None /\ draft[u].state = "gone"
         /\ pc[u] = "committed" => row.state = "gone"
    /\ \A u, q \in Unit :
         deleted[u] /\ deleted[q] /\ pc[u] = "committed" /\ pc[q] = "committed" => u = q

\* A change that waits for its flush leaves room for the next version.
Pending ==
    \A u \in Unit : dirty[u] => loaded[u] \in Rows /\ loaded[u].version < MaxVersion

Typed == TypeOK /\ Pending

\* The inductive invariant of the rows.
RowInv == Typed /\ Writing /\ Whole /\ Deleted

Running == {"open", "created"}

-----------------------------------------------------------------------------

\* What a unit finds is a row, and it is its own when it has written one.
LEMMA CurrentRow ==
    ASSUME TypeOK, NEW u \in Unit
    PROVE  /\ Current(u) \in Rows
           /\ draft[u] = None => Current(u) = row
           /\ draft[u] # None => Current(u) = draft[u]
BY DEF TypeOK, Current

\* A unit that runs and leaves the rows, the drafts and what was added alone.
LEMMA ReadKeeps ==
    ASSUME RowInv, Typed', UNCHANGED <<row, children, draft, deleted>>,
           NEW u \in Unit, pc[u] \in Running, pc' = pc,
           \A q \in Unit : added[q] => added'[q],
           \A q \in Unit : loaded'[q] = loaded[q] \/ (q = u /\ Alive(u))
    PROVE  RowInv'
BY CurrentRow DEF Alive, Typed, RowInv, Writing, Whole, OrderIsWhole, Deleted

LEMMA RollbackKeeps ==
    ASSUME RowInv, NEW u \in Unit, pc[u] \in Running, Rollback(u)
    PROVE  RowInv'
<1>1. Typed'
  BY DEF RowInv, Typed, TypeOK, Pending, Rollback, session
<1>2. /\ \A q \in Unit \ {u} : pc'[q] = pc[q] /\ draft'[q] = draft[q]
      /\ pc'[u] = "rolled back" /\ draft'[u] = None
      /\ UNCHANGED <<row, children, loaded, added, deleted>>
  BY DEF RowInv, Typed, TypeOK, Rollback, session
<1>3. Writing'
  BY <1>2 DEF RowInv, Writing
<1>4. Whole'
  BY <1>2 DEF RowInv, Whole, OrderIsWhole
<1>5. Deleted'
  BY <1>2 DEF RowInv, Deleted
<1>6. QED
  BY <1>1, <1>3, <1>4, <1>5 DEF RowInv

\* A unit that may write writes a living order, in a state that agrees with the
\* row's, or deletes it.
LEMMA WriteKeeps ==
    ASSUME RowInv, Typed', NEW u \in Unit, pc[u] \in Running, Free(u),
           NEW r \in Rows, Write(u, r), UNCHANGED <<row, children, added>>,
           \A q \in Unit \ {u} : loaded'[q] = loaded[q],
           \/ /\ r.state = "alive" /\ row.state = "unborn" /\ draft[u] = None
              /\ pc' = [pc EXCEPT ![u] = "created"]
              /\ deleted' = deleted
           \/ r.state = "alive" /\ Alive(u) /\ pc' = pc /\ deleted' = deleted
           \/ /\ r.state = "gone" /\ Alive(u) /\ pc' = pc
              /\ deleted' = [deleted EXCEPT ![u] = TRUE]
    PROVE  RowInv'
<1>1. None \notin Rows
  BY NoneAssumption
<1>2. /\ draft'[u] = r /\ r # None
      /\ \A q \in Unit \ {u} : draft'[q] = None /\ draft[q] = None /\ pc'[q] = pc[q]
                               /\ deleted'[q] = deleted[q]
      /\ pc'[u] \in Running
  BY <1>1 DEF RowInv, Typed, TypeOK, Write, Free, Running
<1>3. row.state # "gone"
  BY CurrentRow DEF RowInv, Typed, Writing, Alive
<1>4. Writing'
  BY <1>2, <1>3 DEF RowInv, Writing, Running
<1>5. Whole'
  <2>1. ASSUME pc'[u] = "open", r.state = "alive" PROVE row.state = "alive" \/ added[u]
    <3>1. Alive(u) /\ pc[u] = "open"
      BY <2>1 DEF RowInv, Typed, TypeOK
    <3>2. QED
      BY <3>1, CurrentRow DEF RowInv, Typed, Alive, Whole
  <2>2. QED
    BY <1>2, <2>1 DEF RowInv, Whole, OrderIsWhole
<1>6. Deleted'
  <2>1. deleted[u] => draft[u] # None /\ draft[u].state = "gone"
    BY DEF RowInv, Deleted, Running
  <2>2. Alive(u) => ~deleted[u]
    BY <2>1, CurrentRow DEF Alive, RowInv, Typed
  <2>3. draft[u] = None => ~deleted[u]
    BY <2>1
  <2>4. ~deleted[u]
    BY <2>2, <2>3
  <2>5. deleted'[u] => r.state = "gone"
    BY <2>4
  <2>6. QED
    BY <1>2, <2>5 DEF RowInv, Deleted, Running
<1>7. QED
  BY <1>4, <1>5, <1>6 DEF RowInv

LEMMA CommitKeeps ==
    ASSUME RowInv, NEW u \in Unit, Commit(u)
    PROVE  RowInv'
<1>1. Current(u) \in Rows
  BY CurrentRow DEF RowInv, Typed
<1>2. Typed'
  BY <1>1 DEF RowInv, Typed, TypeOK, Pending, Commit, session, Alive
<1>3. /\ \A q \in Unit \ {u} : pc'[q] = pc[q] /\ draft'[q] = draft[q]
      /\ pc[u] = "open" /\ pc'[u] = "committed" /\ draft'[u] = None
      /\ UNCHANGED <<loaded, added, deleted>>
  BY DEF RowInv, Typed, TypeOK, Commit, Open, session
<1>4. CASE draft[u] = None
  <2>1. row' = row
    BY <1>4, CurrentRow DEF RowInv, Typed, Commit
  <2>2. Writing'
    BY <1>3, <2>1 DEF RowInv, Writing
  <2>3. OrderIsWhole'
    BY <1>4, <2>1, CurrentRow DEF RowInv, Typed, Whole, OrderIsWhole, Commit, Alive
  <2>4. Whole'
    BY <1>3, <2>1, <2>3 DEF RowInv, Whole
  <2>5. ~deleted[u]
    BY <1>3, <1>4 DEF RowInv, Deleted
  <2>6. Deleted'
    BY <1>3, <2>1, <2>5 DEF RowInv, Deleted
  <2>7. QED
    BY <1>2, <2>2, <2>4, <2>6 DEF RowInv
<1>5. CASE draft[u] # None
  <2>1. row' = draft[u] /\ row.state # "gone" /\ draft[u].state # "unborn"
    BY <1>5, CurrentRow DEF RowInv, Typed, Commit, Writing
  <2>2. \A q \in Unit : draft'[q] = None
    BY <1>3, <1>5 DEF RowInv, Writing
  <2>3. OrderIsWhole'
    <3>1. CASE Alive(u)
      <4>1. row.state = "alive" \/ added[u]
        BY <1>3, <1>5, <3>1, CurrentRow DEF RowInv, Typed, Whole, Alive
      <4>2. children # {} \/ added[u]
        BY <4>1 DEF RowInv, Whole, OrderIsWhole
      <4>3. QED
        BY <3>1, <4>2 DEF Commit, Alive, OrderIsWhole
    <3>2. CASE ~Alive(u)
      BY <3>2 DEF Commit, Alive, OrderIsWhole
    <3>3. QED
      BY <3>1, <3>2
  <2>4. Writing' /\ Whole'
    BY <2>1, <2>2, <2>3 DEF Writing, Whole
  <2>5. \A q \in Unit \ {u} : ~(deleted[q] /\ pc[q] = "committed")
    BY <2>1 DEF RowInv, Deleted
  <2>6. deleted[u] => row'.state = "gone"
    BY <1>3, <2>1 DEF RowInv, Deleted
  <2>7. \A q \in Unit \ {u} : deleted[q] => pc[q] \notin Running
    BY <1>3, <1>5 DEF RowInv, Deleted, Writing, Running
  <2>8. Deleted'
    BY <1>3, <2>5, <2>6, <2>7 DEF Deleted, Running
  <2>9. QED
    BY <1>2, <2>4, <2>8 DEF RowInv
<1>6. QED
  BY <1>4, <1>5

\* The types, and room for the versions to come, are kept by every operation.
LEMMA TypeStep ==
    ASSUME RowInv, NEW u \in Unit, Work(u)
    PROVE  Typed'
<1> USE DEF Typed, RowInv
<1>1. Current(u) \in Rows
  BY CurrentRow
<1>2. \A how \in {"flush", "update", "delete"} : Written(u, how) \in Rows
  BY <1>1 DEF Written, Rows
<1>3. Inserted(u) \in Rows
  BY VersionAssumption DEF Inserted, Rows
<1>4. None \notin Rows
  BY NoneAssumption
<1>5. CASE Create(u)
  <2>1. loaded[u] = None
    BY <1>5 DEF Create, Open, Writing
  <2>2. ~dirty[u]
    BY <1>4, <2>1 DEF Pending
  <2>3. QED
    BY <1>3, <1>5, <2>2 DEF Create, Write, TypeOK, Pending
<1>6. CASE AddFirst(u) \/ Add(u)
  BY <1>6 DEF AddFirst, Add, TypeOK, Pending
<1>7. CASE Load(u)
  BY <1>1, <1>4, <1>7 DEF Load, TypeOK, Pending
<1>8. CASE Modify(u)
  BY <1>8 DEF Modify, TypeOK, Pending
<1>9. CASE CreateConflict(u) \/ FlushStale(u) \/ CommitRefused(u) \/ Fail(u)
  BY <1>9 DEF CreateConflict, FlushStale, CommitRefused, Fail, Rollback, session, TypeOK, Pending
<1>10. CASE Flush(u)
  <2> DEFINE new == [Written(u, "flush") EXCEPT !.version = loaded[u].version + 1]
  <2>1. loaded[u].version + 1 \in 0 .. MaxVersion
    BY <1>10, VersionAssumption DEF Flush, Pending, Rows
  <2>2. new \in Rows
    BY <1>2, <2>1 DEF Rows
  <2>3. /\ draft' = [draft EXCEPT ![u] = new] /\ loaded' = [loaded EXCEPT ![u] = new]
        /\ dirty' = [dirty EXCEPT ![u] = FALSE]
        /\ UNCHANGED <<pc, row, children, added, deleted>>
    BY <1>10 DEF Flush, Write
  <2> HIDE DEF new
  <2>4. QED
    BY <2>2, <2>3 DEF TypeOK, Pending
<1>11. CASE Update(u)
  <2>1. PICK l \in Rows :
          /\ loaded' = [loaded EXCEPT ![u] = l]
          /\ dirty[u] => l = loaded[u]
    <3>1. CASE loaded[u] = None \/ dirty[u]
      BY <1>2, <1>4, <1>11, <3>1 DEF Update, Pending
    <3>2. CASE loaded[u] # None /\ ~dirty[u]
      <4>1. loaded[u] \in Rows
        BY <3>2 DEF TypeOK
      <4>2. [loaded[u] EXCEPT !.writer = u, !.how = "update"] \in Rows
        BY <4>1 DEF Rows
      <4>3. QED
        BY <1>11, <3>2, <4>2 DEF Update
    <3>3. QED
      BY <3>1, <3>2
  <2>2. draft' = [draft EXCEPT ![u] = Written(u, "update")]
        /\ UNCHANGED <<pc, row, children, dirty, added, deleted>>
    BY <1>11 DEF Update, Write
  <2>3. QED
    BY <1>2, <2>1, <2>2 DEF TypeOK, Pending
<1>12. CASE Delete(u)
  <2> DEFINE new == [Written(u, "delete") EXCEPT !.state = "gone"]
  <2>1. new \in Rows
    BY <1>2 DEF Rows
  <2>2. /\ draft' = [draft EXCEPT ![u] = new] /\ loaded' = [loaded EXCEPT ![u] = None]
        /\ dirty' = [dirty EXCEPT ![u] = FALSE] /\ deleted' = [deleted EXCEPT ![u] = TRUE]
        /\ UNCHANGED <<pc, row, children, added>>
    BY <1>12 DEF Delete, Write
  <2> HIDE DEF new
  <2>3. QED
    BY <2>1, <2>2 DEF TypeOK, Pending
<1>13. CASE Commit(u)
  BY <1>1, <1>13 DEF Commit, session, TypeOK, Pending
<1>14. QED
  BY <1>5, <1>6, <1>7, <1>8, <1>9, <1>10, <1>11, <1>12, <1>13 DEF Work

\* Every step of every unit keeps the invariant of the rows.
LEMMA RowStep ==
    ASSUME RowInv, [Next]_vars
    PROVE  RowInv'
<1>1. CASE UNCHANGED vars
  BY <1>1
  DEF vars, session, RowInv, Typed, TypeOK, Pending, Writing, Whole, OrderIsWhole, Deleted
<1>2. ASSUME NEW u \in Unit, Work(u) PROVE RowInv'
  <2>1. Typed' /\ TypeOK' /\ TypeOK
    BY <1>2, TypeStep DEF RowInv, Typed
  <2>2. Inserted(u) \in Rows /\ Inserted(u).state = "alive"
    BY VersionAssumption DEF Inserted, Rows
  <2>13. Current(u) \in Rows
    BY <2>1, CurrentRow
  <2>3. CASE Create(u)
    <3>1. row.state = "unborn" /\ draft[u] = None /\ Free(u) /\ Write(u, Inserted(u))
          /\ pc' = [pc EXCEPT ![u] = "created"] /\ UNCHANGED <<row, children, added, deleted>>
          /\ pc[u] \in Running /\ \A q \in Unit \ {u} : loaded'[q] = loaded[q]
      BY <2>1, <2>3 DEF Create, Open, Running, TypeOK
    <3>2. QED
      BY <2>1, <2>2, <3>1, WriteKeeps
  <2>4. CASE AddFirst(u)
    BY <2>1, <2>4 DEF AddFirst, RowInv, Typed, TypeOK, Writing, Whole, OrderIsWhole, Deleted
  <2>5. CASE Load(u) \/ Modify(u)
    <3>1. \A q \in Unit : loaded'[q] = loaded[q] \/ (q = u /\ Alive(u))
      BY <2>1, <2>5 DEF Load, Modify, TypeOK
    <3>2. QED
      BY <2>1, <2>5, <3>1, ReadKeeps DEF Load, Modify, Open, Running
  <2>6. CASE Add(u)
    <3>1. \A q \in Unit : added[q] => added'[q]
      BY <2>1, <2>6 DEF Add, TypeOK
    <3>2. QED
      BY <2>1, <2>6, <3>1, ReadKeeps DEF Add, Open, Running
  <2>7. CASE CreateConflict(u) \/ FlushStale(u) \/ CommitRefused(u) \/ Fail(u)
    BY <2>7, RollbackKeeps DEF CreateConflict, FlushStale, CommitRefused, Fail, Open, Running
  <2>8. CASE Flush(u)
    <3> DEFINE new == [Written(u, "flush") EXCEPT !.version = loaded[u].version + 1]
    <3>1. Alive(u) /\ pc[u] \in Running /\ Free(u)
          /\ UNCHANGED <<pc, row, children, added, deleted>>
          /\ \A q \in Unit \ {u} : loaded'[q] = loaded[q]
      BY <2>1, <2>8 DEF Flush, Fresh, Open, Running, TypeOK
    <3>2. new.state = "alive"
      BY <2>13, <3>1 DEF Written, Rows, Alive
    <3>3. Write(u, new)
      BY <2>8 DEF Flush
    <3>4. new \in Rows
      <4>1. loaded[u].version + 1 \in 0 .. MaxVersion
        BY <2>8, VersionAssumption DEF Flush, RowInv, Typed, Pending, Rows
      <4>2. QED
        BY <2>13, <4>1 DEF Written, Rows
    <3> HIDE DEF new
    <3>5. QED
      BY <2>1, <3>1, <3>2, <3>3, <3>4, WriteKeeps
  <2>9. CASE Update(u)
    <3>1. Alive(u) /\ pc[u] \in Running /\ Free(u) /\ Write(u, Written(u, "update"))
          /\ UNCHANGED <<pc, row, children, added, deleted>>
          /\ \A q \in Unit \ {u} : loaded'[q] = loaded[q]
      BY <2>1, <2>9 DEF Update, Open, Running, TypeOK
    <3>2. Written(u, "update") \in Rows /\ Written(u, "update").state = "alive"
      BY <2>13, <3>1 DEF Written, Rows, Alive
    <3>3. QED
      BY <2>1, <3>1, <3>2, WriteKeeps
  <2>10. CASE Delete(u)
    <3> DEFINE new == [Written(u, "delete") EXCEPT !.state = "gone"]
    <3>1. Alive(u) /\ pc[u] \in Running /\ Free(u) /\ Write(u, new)
          /\ deleted' = [deleted EXCEPT ![u] = TRUE]
          /\ UNCHANGED <<pc, row, children, added>>
          /\ \A q \in Unit \ {u} : loaded'[q] = loaded[q]
      BY <2>1, <2>10 DEF Delete, Open, Running, TypeOK
    <3>2. new \in Rows /\ new.state = "gone"
      BY <2>13 DEF Written, Rows
    <3> HIDE DEF new
    <3>3. QED
      BY <2>1, <3>1, <3>2, WriteKeeps
  <2>11. CASE Commit(u)
    BY <2>11, CommitKeeps
  <2>12. QED
    BY <1>2, <2>3, <2>4, <2>5, <2>6, <2>7, <2>8, <2>9, <2>10, <2>11 DEF Work
<1>3. QED
  BY <1>1, <1>2 DEF Next

LEMMA RowsCorrect == Spec => []RowInv
<1>1. Init => RowInv
  BY VersionAssumption, NoneAssumption
  DEF Init, RowInv, Typed, TypeOK, Pending, Rows, Writing, Whole, OrderIsWhole, Deleted
<1>2. QED
  BY <1>1, RowStep, PTL DEF Spec

-----------------------------------------------------------------------------

\* The rows, drafts and loaded objects are rows with a version in its bounds.
THEOREM RowsTyped == Spec => []TypeOK
BY RowsCorrect, PTL DEF RowInv, Typed

\* Units of any number that create, change, delete, add and fail around each
\* other leave no order without children and no children without their order.
THEOREM RowsWhole == Spec => []OrderIsWhole
<1>1. RowInv => OrderIsWhole
  BY DEF RowInv, Whole
<1>2. QED
  BY <1>1, RowsCorrect, PTL

\* One unit at most is told that it deleted the order and commits.
THEOREM OneDeleter == Spec => []DeletedOnce
<1>1. ASSUME RowInv PROVE DeletedOnce
  <2> DEFINE deleters == {u \in Unit : pc[u] = "committed" /\ deleted[u]}
  <2>1. deleters # {} => row.state = "gone"
    BY <1>1 DEF RowInv, Deleted
  <2>2. Cardinality(deleters) <= 1
    <3>1. CASE deleters = {}
      BY <3>1, FS_EmptySet
    <3>2. ASSUME NEW u \in deleters PROVE Cardinality(deleters) <= 1
      <4>1. deleters = {u}
        BY <1>1, <3>2 DEF RowInv, Deleted
      <4>2. QED
        BY <4>1, FS_Singleton
    <3>3. QED
      BY <3>1, <3>2
  <2>3. QED
    BY <2>1, <2>2 DEF DeletedOnce
<1>2. QED
  BY <1>1, RowsCorrect, PTL

-----------------------------------------------------------------------------
(* Optimistic locking. *)

\* An INSERT or a flush raises the version over that of the committed order, and
\* a living order is the work of one of the three statements.
Raised ==
    /\ row.state = "unborn" => row.version = 0
    /\ row.state = "alive" => row.how \in {"insert", "flush", "update"}
    /\ \A u \in Unit : draft[u] # None =>
         /\ row.version <= draft[u].version
         /\ draft[u].how \in {"insert", "flush"} => row.version < draft[u].version
         /\ draft[u].state = "alive" => draft[u].how \in {"insert", "flush", "update"}

\* What u has loaded is not newer than what it would find, and is the same when
\* the versions agree, unless update() has been there.
Loaded(u) ==
    pc[u] \in Running /\ loaded[u] # None =>
        /\ loaded[u].version <= Current(u).version
        /\ loaded[u].version = Current(u).version /\ Current(u).how \in {"insert", "flush"}
           => loaded[u].writer = Current(u).writer

VersionInv == RowInv /\ Raised /\ \A u \in Unit : Loaded(u)

\* The unit that works on the order with its draft and what it loaded.
LEMMA OthersLoaded ==
    ASSUME VersionInv, NEW u \in Unit, UNCHANGED row,
           \A q \in Unit \ {u} :
             loaded'[q] = loaded[q] /\ draft'[q] = draft[q]
             /\ (pc'[q] \in Running => pc[q] \in Running)
    PROVE  \A q \in Unit \ {u} : Loaded(q)'
BY DEF VersionInv, Loaded, Current

LEMMA RollbackVersions ==
    ASSUME VersionInv, NEW u \in Unit, Rollback(u)
    PROVE  Raised' /\ \A q \in Unit : Loaded(q)'
<1>1. /\ pc'[u] = "rolled back" /\ draft'[u] = None /\ UNCHANGED row
      /\ \A q \in Unit \ {u} : pc'[q] = pc[q] /\ draft'[q] = draft[q] /\ loaded'[q] = loaded[q]
  BY DEF Rollback, session, VersionInv, RowInv, Typed, TypeOK
<1>2. Loaded(u)'
  BY <1>1 DEF Loaded, Running
<1>3. QED
  BY <1>1, <1>2, OthersLoaded DEF VersionInv, Raised

LEMMA CommitVersions ==
    ASSUME VersionInv, NEW u \in Unit, Commit(u)
    PROVE  Raised' /\ \A q \in Unit : Loaded(q)'
<1>1. /\ pc'[u] = "committed" /\ draft'[u] = None /\ row' = Current(u) /\ pc[u] \in Running
      /\ \A q \in Unit \ {u} : pc'[q] = pc[q] /\ draft'[q] = draft[q] /\ loaded'[q] = loaded[q]
  BY DEF Commit, Open, Running, session, VersionInv, RowInv, Typed, TypeOK
<1>2. Loaded(u)'
  BY <1>1 DEF Loaded, Running
<1>3. CASE draft[u] = None
  <2>1. row' = row
    BY <1>1, <1>3 DEF Current
  <2>2. QED
    BY <1>1, <1>2, <2>1, OthersLoaded DEF VersionInv, Raised
<1>4. CASE draft[u] # None
  <2>1. row' = draft[u] /\ draft[u] \in Rows /\ row \in Rows
    BY <1>1, <1>4 DEF Current, VersionInv, RowInv, Typed, TypeOK
  <2>2. \A q \in Unit : draft'[q] = None
    BY <1>1, <1>4 DEF VersionInv, RowInv, Writing
  <2>3. Raised'
    BY <1>4, <2>1, <2>2 DEF VersionInv, RowInv, Writing, Raised
  <2>4. ASSUME NEW q \in Unit \ {u} PROVE Loaded(q)'
    <3>1. draft[q] = None /\ Current(q) = row /\ Current(q)' = draft[u]
      BY <1>4, <2>1, <2>2 DEF VersionInv, RowInv, Writing, Current
    <3>2. loaded[q] # None => loaded[q] \in Rows
      BY DEF VersionInv, RowInv, Typed, TypeOK
    <3>3. /\ row.version <= draft[u].version
          /\ draft[u].how \in {"insert", "flush"} => row.version < draft[u].version
      BY <1>4 DEF VersionInv, Raised
    <3>4. loaded[q] # None /\ pc[q] \in Running => loaded[q].version <= row.version
      BY <3>1 DEF VersionInv, Loaded
    <3>5. QED
      BY <1>1, <2>1, <3>1, <3>2, <3>3, <3>4, VersionAssumption DEF Loaded, Rows
  <2>5. QED
    BY <1>2, <2>3, <2>4
<1>5. QED
  BY <1>3, <1>4

\* Writing r, with l in the session.
LEMMA WriteVersions ==
    ASSUME VersionInv, NEW u \in Unit, NEW r \in Rows, NEW l \in Rows \cup {None},
           Write(u, r), loaded' = [loaded EXCEPT ![u] = l],
           row' = row, \A q \in Unit \ {u} : pc'[q] = pc[q],
           row.version <= r.version,
           r.how \in {"insert", "flush"} => row.version < r.version /\ l = r,
           r.state = "alive" => r.how \in {"insert", "flush", "update"},
           l # None => l.version <= r.version
    PROVE  Raised' /\ \A q \in Unit : Loaded(q)'
<1>1. draft'[u] = r /\ loaded'[u] = l /\ r # None
      /\ \A q \in Unit \ {u} : draft'[q] = draft[q] /\ loaded'[q] = loaded[q]
  BY NoneAssumption DEF Write, VersionInv, RowInv, Typed, TypeOK
<1>2. Loaded(u)'
  BY <1>1 DEF Loaded, Current
<1>3. Raised'
  BY <1>1 DEF VersionInv, Raised
<1>4. QED
  BY <1>1, <1>2, <1>3, OthersLoaded

LEMMA VersionStep ==
    ASSUME VersionInv, [Next]_vars
    PROVE  VersionInv'
<1>1. RowInv'
  BY RowStep DEF VersionInv
<1>2. CASE UNCHANGED vars
  BY <1>1, <1>2 DEF vars, session, VersionInv, Raised, Loaded, Current
<1>3. ASSUME NEW u \in Unit, Work(u) PROVE Raised' /\ \A q \in Unit : Loaded(q)'
  <2>1. TypeOK /\ Current(u) \in Rows /\ row \in Rows /\ row.version <= Current(u).version
    <3>1. TypeOK /\ row \in Rows
      BY DEF VersionInv, RowInv, Typed, TypeOK
    <3>2. Current(u) \in Rows /\ (draft[u] = None => Current(u) = row)
          /\ (draft[u] # None => Current(u) = draft[u])
      BY <3>1, CurrentRow
    <3>3. row.version <= Current(u).version
      BY <3>1, <3>2, VersionAssumption DEF VersionInv, Raised, Rows
    <3>4. QED
      BY <3>1, <3>2, <3>3
  <2>2. CASE Create(u)
    <3>1. Inserted(u) \in Rows /\ Inserted(u).how = "insert" /\ Inserted(u).version = 1
          /\ Inserted(u).state = "alive"
      BY VersionAssumption DEF Inserted, Rows
    <3>2. row.version = 0
      BY <2>2 DEF Create, VersionInv, Raised
    <3>3. /\ Write(u, Inserted(u)) /\ loaded' = [loaded EXCEPT ![u] = Inserted(u)]
          /\ row' = row /\ \A q \in Unit \ {u} : pc'[q] = pc[q]
      BY <2>1, <2>2 DEF Create, TypeOK
    <3>4. row.version <= Inserted(u).version /\ row.version < Inserted(u).version
          /\ Inserted(u).version <= Inserted(u).version
      BY <3>1, <3>2
    <3>5. QED
      BY <3>1, <3>3, <3>4, WriteVersions
  <2>3. CASE AddFirst(u) \/ Add(u) \/ Modify(u)
    BY <2>1, <2>3 DEF AddFirst, Add, Modify, VersionInv, Raised, Loaded, Current, Running, TypeOK
  <2>4. CASE Load(u)
    <3>1. loaded'[u] = Current(u) /\ Current(u)' = Current(u) /\ UNCHANGED <<pc, row, draft>>
          /\ \A q \in Unit \ {u} : loaded'[q] = loaded[q]
      BY <2>1, <2>4 DEF Load, Current, TypeOK
    <3>2. Loaded(u)'
      BY <2>1, <3>1, VersionAssumption DEF Loaded, Rows
    <3>3. QED
      BY <3>1, <3>2, OthersLoaded DEF VersionInv, Raised
  <2>5. CASE CreateConflict(u) \/ FlushStale(u) \/ CommitRefused(u) \/ Fail(u)
    BY <2>5, RollbackVersions DEF CreateConflict, FlushStale, CommitRefused, Fail
  <2>6. CASE Flush(u)
    <3> DEFINE new == [Written(u, "flush") EXCEPT !.version = loaded[u].version + 1]
    <3>1. loaded[u].version + 1 \in 0 .. MaxVersion /\ loaded[u].version = Current(u).version
      BY <2>6, VersionAssumption DEF Flush, Fresh, VersionInv, RowInv, Typed, Pending, Rows
    <3>2. new \in Rows /\ new.how = "flush" /\ new.version = Current(u).version + 1
      BY <2>1, <3>1 DEF Written, Rows
    <3>3. row.version < new.version
      BY <2>1, <3>2, VersionAssumption DEF Rows
    <3>4. Write(u, new) /\ loaded' = [loaded EXCEPT ![u] = new]
          /\ row' = row /\ pc' = pc
      BY <2>6 DEF Flush
    <3>5. new.version <= new.version /\ row.version <= new.version
      BY <2>1, <3>2, <3>3, VersionAssumption DEF Rows
    <3> HIDE DEF new
    <3>6. QED
      BY <3>2, <3>3, <3>4, <3>5, WriteVersions
  <2>7. CASE Update(u)
    <3>1. Written(u, "update") \in Rows /\ Written(u, "update").how = "update"
          /\ Written(u, "update").version = Current(u).version
      BY <2>1 DEF Written, Rows
    <3>2. pc[u] \in Running /\ (loaded[u] # None => loaded[u].version <= Current(u).version)
      BY <2>7 DEF Update, Open, Running, VersionInv, Loaded
    <3>3. PICK l \in Rows :
            /\ loaded' = [loaded EXCEPT ![u] = l]
            /\ l.version <= Current(u).version
      <4>1. CASE loaded[u] = None
        <5>1. Current(u).version <= Current(u).version
          BY <2>1, VersionAssumption DEF Rows
        <5>2. ~dirty[u]
          BY <4>1, NoneAssumption DEF VersionInv, RowInv, Typed, Pending
        <5>3. loaded' = [loaded EXCEPT ![u] = Written(u, "update")]
          BY <2>7, <4>1, <5>2 DEF Update
        <5>4. QED
          BY <3>1, <5>1, <5>3
      <4>2. CASE loaded[u] # None
        <5>1. loaded[u] \in Rows
          BY <2>1, <4>2 DEF TypeOK
        <5>2. /\ [loaded[u] EXCEPT !.writer = u, !.how = "update"] \in Rows
              /\ [loaded[u] EXCEPT !.writer = u, !.how = "update"].version = loaded[u].version
          BY <5>1 DEF Rows
        <5>3. QED
          BY <2>7, <3>2, <4>2, <5>1, <5>2 DEF Update
      <4>3. QED
        BY <4>1, <4>2
    <3>4. Write(u, Written(u, "update")) /\ row' = row /\ pc' = pc
      BY <2>7 DEF Update
    <3>5. QED
      BY <2>1, <3>1, <3>3, <3>4, WriteVersions
  <2>8. CASE Delete(u)
    <3> DEFINE new == [Written(u, "delete") EXCEPT !.state = "gone"]
    <3>1. new \in Rows /\ new.how = "delete" /\ new.state = "gone"
          /\ new.version = Current(u).version
      BY <2>1 DEF Written, Rows
    <3>2. Write(u, new) /\ loaded' = [loaded EXCEPT ![u] = None] /\ row' = row /\ pc' = pc
      BY <2>8 DEF Delete
    <3> HIDE DEF new
    <3>3. QED
      BY <2>1, <3>1, <3>2, WriteVersions
  <2>9. CASE Commit(u)
    BY <2>9, CommitVersions
  <2>10. QED
    BY <1>3, <2>2, <2>3, <2>4, <2>5, <2>6, <2>7, <2>8, <2>9 DEF Work
<1>4. QED
  BY <1>1, <1>2, <1>3 DEF Next, VersionInv

\* The step that flushes.
LEMMA FlushSees ==
    ASSUME VersionInv, [Next]_vars, NEW u \in Unit,
           draft'[u] # draft[u], draft'[u] # None, draft'[u].how = "flush"
    PROVE  Current(u).writer = loaded[u].writer \/ Current(u).how = "update"
<1>1. TypeOK /\ \A q \in Unit : Current(q) \in Rows
  BY CurrentRow DEF VersionInv, RowInv, Typed
<1>2. PICK w \in Unit : Work(w)
  BY DEF Next, vars
<1>3. w = u /\ Flush(u)
  <2>2. CASE Create(w)
    BY <1>1, <2>2 DEF Create, Write, Inserted, TypeOK
  <2>3. CASE Update(w)
    BY <1>1, <2>3 DEF Update, Write, Written, Rows, TypeOK
  <2>4. CASE Delete(w)
    <3>1. [Written(w, "delete") EXCEPT !.state = "gone"].how = "delete"
      BY <1>1 DEF Written, Rows
    <3>2. draft' = [draft EXCEPT ![w] = [Written(w, "delete") EXCEPT !.state = "gone"]]
      BY <2>4 DEF Delete, Write
    <3>3. QED
      BY <1>1, <3>1, <3>2 DEF TypeOK
  <2>5. CASE Flush(w)
    <3>1. \A q \in Unit \ {w} : draft'[q] = draft[q]
      BY <1>1, <2>5 DEF Flush, Write, TypeOK
    <3>2. QED
      BY <2>5, <3>1
  <2>6. CASE Rollback(w) \/ Commit(w)
    BY <1>1, <2>6 DEF Rollback, Commit, TypeOK
  <2>7. QED
    BY <1>2, <2>2, <2>3, <2>4, <2>5, <2>6
    DEF Work, CreateConflict, FlushStale, CommitRefused, Fail, AddFirst, Load, Add, Modify
<1>4. /\ pc[u] \in Running /\ loaded[u] # None
      /\ loaded[u].version = Current(u).version
  BY <1>3, NoneAssumption
  DEF Flush, Fresh, Open, Running, VersionInv, RowInv, Typed, Pending
<1>5. Current(u).how \in {"insert", "flush", "update"}
  BY <1>3 DEF Flush, Fresh, Alive, Current, VersionInv, Raised
<1>6. QED
  BY <1>4, <1>5 DEF VersionInv, Loaded

\* version_id_col: no flush of any unit writes over data its session has not
\* seen, except what update() wrote.
THEOREM NoLostFlush == Spec => NoBlindOverwrite
<1>1. Init => VersionInv
  <2>1. Init => RowInv
    BY VersionAssumption, NoneAssumption
    DEF Init, RowInv, Typed, TypeOK, Pending, Rows, Writing, Whole, OrderIsWhole, Deleted
  <2>2. QED
    BY <2>1 DEF Init, VersionInv, Raised, Loaded
<1>2. VersionInv /\ [Next]_vars =>
        [\A u \in Unit :
           draft'[u] # draft[u] /\ draft'[u] # None /\ draft'[u].how = "flush"
           => Current(u).writer = loaded[u].writer \/ Current(u).how = "update"]_vars
  BY FlushSees
<1>3. QED
  BY <1>1, <1>2, VersionStep, PTL DEF Spec, NoBlindOverwrite

=============================================================================
