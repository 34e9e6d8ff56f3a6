---------------------------- MODULE PersonalProofs ----------------------------
(***************************************************************************)
(* Monitors, the personal model, goals and paired devices, for any number  *)
(* of hosts, monitors, events, passes, records, goals, workers, devices    *)
(* and commands.                                                           *)
(***************************************************************************)
EXTENDS MCPersonal, FiniteSetTheorems, WellFoundedInduction, TLAPS

-----------------------------------------------------------------------------
(***************************************************************************)
(* Finite sets of numbers.                                                 *)
(***************************************************************************)
LEMMA GreatestExists ==
  ASSUME NEW S, IsFiniteSet(S), S \subseteq Int, S # {}
  PROVE  \E m \in S : \A k \in S : k <= m
<1> DEFINE Above(m) == {k \in S : m < k}
           T == {Above(m) : m \in S}
<1>1. IsWellFoundedOn(StrictSubsetOrdering(S), FiniteSubsetsOf(S))
  BY FS_StrictSubsetOrderingWellFounded
<1>2. T \subseteq FiniteSubsetsOf(S) /\ T # {}
  <2>1. \A m \in S : Above(m) \in SUBSET S
    OBVIOUS
  <2>2. \A m \in S : IsFiniteSet(Above(m))
    BY <2>1, FS_Subset
  <2> QED BY <2>1, <2>2 DEF FiniteSubsetsOf
<1>3. \E x \in T : \A y \in T : <<y, x>> \notin StrictSubsetOrdering(S)
  BY <1>1, <1>2, WFMin
<1>4. PICK m \in S : \A y \in T : <<y, Above(m)>> \notin StrictSubsetOrdering(S)
  BY <1>3
<1>5. ASSUME NEW k \in S, m < k PROVE FALSE
  <2>1. Above(k) \in T /\ Above(m) \in T
    BY <1>5
  <2>2. /\ Above(k) \subseteq Above(m)
        /\ k \in Above(m) /\ k \notin Above(k)
    <3>1. k \in Int /\ m \in Int /\ \A x \in S : x \in Int
      OBVIOUS
    <3>2. \A x \in S : k < x => m < x
      BY <3>1, <1>5
    <3>3. ~(k < k)
      BY <3>1
    <3> QED BY <3>2, <3>3, <1>5
  <2>3. <<Above(k), Above(m)>> \in StrictSubsetOrdering(S)
    BY <2>1, <2>2 DEF StrictSubsetOrdering
  <2> QED BY <1>4, <2>1, <2>3
<1> QED BY <1>5

-----------------------------------------------------------------------------
(***************************************************************************)
(* Monitors.  A count that an evaluation has read is the one in the row    *)
(* for as long as it has the row locked, rows and identities have one      *)
(* holder, and an evaluation has locked only rows before those it still    *)
(* has to lock.                                                            *)
(***************************************************************************)
Txn == [pc: {"idle", "inserting", "reading", "selecting", "locking"},
        id: EventIds \cup {None}, payload: Payloads \cup {None},
        owns: BOOLEAN, late: SUBSET Ids, todo: SUBSET Ids,
        read: [Ids -> 0..MaxFires \cup {None}]]

Purge == [pc: {"idle", "events", "monitors", "locking", "done"},
          ids: SUBSET EventIds, rows: [Ids -> Nat], todo: SUBSET Ids,
          want: Ids \cup {None}, locked: SUBSET Ids]

MonitorOK(m) ==
  /\ row[m].status = "absent" => row[m].fires = 0 /\ log[m] = 0
  /\ row[m].status \in Over \cup {"active"} =>
       /\ log[m] = row[m].fires
       /\ row[m].status = "completed" <=> row[m].fires = MaxFires
  /\ row[m].status = "deleted" => purge.pc = "done"

ReadsOK(t) ==
  \A m \in Ids : t.read[m] # None =>
    /\ t.pc = "locking" /\ m \notin purge.locked
    /\ row[m].status = "active" /\ row[m].fires = t.read[m]
    /\ \A k \in t.todo : m < k

OwnsOK(t) ==
  /\ t.pc = "inserting" => t.id \in EventIds
  /\ t.pc # "idle" => t.payload \in Payloads
  /\ t.owns => /\ t.pc \in {"selecting", "locking"} /\ t.id \in EventIds
               /\ seen[t.id] = None /\ t.id \notin purge.ids

Apart(t, u) ==
  /\ \A m \in Ids : t.read[m] = None \/ u.read[m] = None
  /\ t.owns /\ u.owns => t.id # u.id

PurgeOK ==
  /\ \A m \in Ids : purge.rows[m] <= log[m]
  /\ purge.pc # "locking" => purge.locked = {}
  /\ purge.pc = "locking" => \A m \in Ids : purge.rows[m] > 0 => m \in purge.todo \cup purge.locked

MonitorsInv ==
  /\ TypeOK
  /\ \A m \in Ids : MonitorOK(m)
  /\ \A h \in Hosts : ReadsOK(txn[h]) /\ OwnsOK(txn[h])
  /\ \A g, h \in Hosts : g # h => Apart(txn[g], txn[h])
  /\ PurgeOK
  /\ AppliedOnce

LEMMA MonitorTypes ==
  TypeOK <=> /\ row \in [Ids -> Row] /\ log \in [Ids -> Nat]
             /\ seen \in [EventIds -> Payloads \cup {None}] /\ applied \in [EventIds -> Nat]
             /\ txn \in [Hosts -> Txn] /\ purge \in Purge
  BY DEF TypeOK, Txn, Purge

LEMMA EmptyTxn == NoTxn \in Txn /\ NoTxn.pc = "idle" /\ ~NoTxn.owns /\ \A m \in Ids : NoTxn.read[m] = None
  BY DEF NoTxn, Txn

LEMMA EmptyPurge == /\ NoPurge \in Purge /\ NoPurge.pc = "idle" /\ NoPurge.ids = {}
                    /\ NoPurge.locked = {} /\ NoPurge.todo = {} /\ \A m \in Ids : NoPurge.rows[m] = 0
  BY DEF NoPurge, Purge

\* What the transactions hold, host by host.
LEMMA HoldersAre ==
  /\ "purge" \notin Hosts
  /\ \A h \in Hosts : /\ Locks(h) = {m \in Ids : txn[h].read[m] # None}
                      /\ Identities(h) = IF txn[h].owns THEN {txn[h].id} ELSE {}
  /\ Locks("purge") = purge.locked /\ Identities("purge") = purge.ids
  BY MonitorsAssumption DEF Locks, Identities

LEMMA MonitorsStart == Init => MonitorsInv
<1> SUFFICES ASSUME Init PROVE MonitorsInv
  OBVIOUS
<1>1. TypeOK
  <2>1. row \in [Ids -> Row]
    BY MonitorsAssumption DEF Init, Row
  <2> QED BY <2>1, EmptyTxn, EmptyPurge, MonitorTypes DEF Init
<1>2. \A m \in Ids : MonitorOK(m)
  BY DEF Init, MonitorOK, Over
<1>3. \A h \in Hosts : ReadsOK(txn[h]) /\ OwnsOK(txn[h])
  BY EmptyTxn DEF Init, ReadsOK, OwnsOK
<1>4. \A g, h \in Hosts : Apart(txn[g], txn[h])
  BY EmptyTxn DEF Init, Apart
<1>5. PurgeOK
  BY EmptyPurge DEF Init, PurgeOK
<1>6. AppliedOnce
  BY DEF Init, AppliedOnce
<1> QED BY <1>1, <1>2, <1>3, <1>4, <1>5, <1>6 DEF MonitorsInv

\* A step of one evaluation that writes nothing yet.
LEMMA EvaluationMoves ==
  ASSUME MonitorsInv, UNCHANGED <<row, log, seen, applied, purge>>,
         NEW h \in Hosts, NEW t \in Txn, txn' = [txn EXCEPT ![h] = t],
         ReadsOK(t), OwnsOK(t), \A g \in Hosts \ {h} : Apart(t, txn[g])
  PROVE  MonitorsInv'
<1>1. txn \in [Hosts -> Txn]
  BY MonitorTypes DEF MonitorsInv
<1>2. txn'[h] = t /\ \A g \in Hosts \ {h} : txn'[g] = txn[g]
  BY <1>1
<1>3. TypeOK'
  <2>1. txn' \in [Hosts -> Txn]
    BY <1>1
  <2> QED BY <2>1 DEF MonitorsInv, TypeOK, Txn
<1>4. \A g \in Hosts : (ReadsOK(txn[g]) /\ OwnsOK(txn[g]))'
  BY <1>2 DEF MonitorsInv, ReadsOK, OwnsOK
<1>5. \A g \in Hosts \ {h} : Apart(txn[g], t)
  BY DEF Apart
<1>6. \A f, g \in Hosts : f # g => Apart(txn'[f], txn'[g])
  BY <1>2, <1>5 DEF MonitorsInv
<1>7. \A f, g \in Hosts : f # g => Apart(txn[f], txn[g])'
  BY <1>6 DEF Apart
<1> QED BY <1>3, <1>4, <1>7 DEF MonitorsInv, MonitorOK, PurgeOK, AppliedOnce

\* A transaction that ends without a commit.
LEMMA EndKeeps ==
  ASSUME MonitorsInv, UNCHANGED <<row, log, seen, applied, purge>>, NEW h \in Hosts, End(h)
  PROVE  MonitorsInv'
<1>1. ReadsOK(NoTxn) /\ OwnsOK(NoTxn)
  BY EmptyTxn DEF ReadsOK, OwnsOK
<1>2. \A g \in Hosts : Apart(NoTxn, txn[g])
  BY EmptyTxn DEF Apart
<1> QED BY <1>1, <1>2, EmptyTxn, EvaluationMoves DEF End

LEMMA EvaluateKeeps ==
  ASSUME MonitorsInv, NEW h \in Hosts, NEW e \in EventIds \cup {None}, NEW x \in Payloads,
         Evaluate(h, e, x)
  PROVE  MonitorsInv'
<1> DEFINE t == [NoTxn EXCEPT !.pc = IF e = None THEN "selecting" ELSE "inserting",
                              !.id = e, !.payload = x, !.late = {m \in Ids : row[m].overdue}]
<1>1. txn' = [txn EXCEPT ![h] = t] /\ UNCHANGED <<row, log, seen, applied, purge>>
  BY DEF Evaluate
<1>2. /\ t \in Txn /\ t.pc \in {"selecting", "inserting"} /\ (t.pc = "inserting" => e # None)
      /\ t.id = e /\ t.payload = x /\ t.owns = FALSE /\ t.read = NoTxn.read
  BY DEF NoTxn, Txn
<1> HIDE DEF t
<1>3. ReadsOK(t) /\ OwnsOK(t)
  BY <1>2, EmptyTxn DEF ReadsOK, OwnsOK
<1>4. \A g \in Hosts : Apart(t, txn[g])
  BY <1>2, EmptyTxn DEF Apart
<1> QED BY <1>1, <1>2, <1>3, <1>4, EvaluationMoves

LEMMA InsertKeeps ==
  ASSUME MonitorsInv, NEW h \in Hosts, Insert(h)
  PROVE  MonitorsInv'
<1> DEFINE e == txn[h].id
           u == [txn[h] EXCEPT !.pc = IF seen[e] = None THEN "selecting" ELSE "reading"]
           t == [u EXCEPT !.owns = (seen[e] = None)]
<1>1. txn[h] \in Txn /\ txn \in [Hosts -> Txn]
  BY MonitorTypes DEF MonitorsInv
<1>2. /\ txn' = [txn EXCEPT ![h] = t] /\ UNCHANGED <<row, log, seen, applied, purge>>
      /\ txn[h].pc = "inserting" /\ ~Waits(h)
  BY <1>1 DEF Insert, InsertWaits
<1>3. /\ u \in Txn /\ u.pc = (IF seen[e] = None THEN "selecting" ELSE "reading")
      /\ u.id = e /\ u.payload = txn[h].payload /\ u.read = txn[h].read
  BY <1>1 DEF Txn
<1> HIDE DEF u
<1>4. /\ t \in Txn /\ t.pc = u.pc /\ t.owns = (seen[e] = None)
      /\ t.id = e /\ t.payload = txn[h].payload /\ t.read = txn[h].read
  BY <1>3 DEF Txn
<1> HIDE DEF t
<1>5. e \in EventIds /\ txn[h].payload \in Payloads
  BY <1>2 DEF MonitorsInv, OwnsOK
<1>6. \A m \in Ids : txn[h].read[m] = None
  BY <1>2 DEF MonitorsInv, ReadsOK
<1>7. /\ e \notin purge.ids
      /\ \A g \in Hosts \ {h} : txn[g].owns => txn[g].id # e
  <2>1. \A y \in Txns : y # h => e \notin Identities(y)
    BY <1>2 DEF Waits, WaitsFor
  <2>2. "purge" \in Txns /\ "purge" # h
    BY HoldersAre DEF Txns
  <2> QED BY <2>1, <2>2, HoldersAre DEF Txns
<1>8. ReadsOK(t)
  BY <1>4, <1>6 DEF ReadsOK
<1>9. OwnsOK(t)
  BY <1>3, <1>4, <1>5, <1>7 DEF OwnsOK
<1>10. \A g \in Hosts \ {h} : Apart(t, txn[g])
  BY <1>4, <1>6, <1>7 DEF Apart
<1> QED BY <1>2, <1>4, <1>8, <1>9, <1>10, EvaluationMoves

LEMMA SelectKeeps ==
  ASSUME MonitorsInv, NEW h \in Hosts, Select(h)
  PROVE  MonitorsInv'
<1> DEFINE u == [txn[h] EXCEPT !.pc = "locking"]
           t == [u EXCEPT !.todo = {m \in Ids : row[m].status = "active"}]
<1>1. txn[h] \in Txn /\ txn \in [Hosts -> Txn]
  BY MonitorTypes DEF MonitorsInv
<1>2. /\ txn' = [txn EXCEPT ![h] = t] /\ UNCHANGED <<row, log, seen, applied, purge>>
      /\ txn[h].pc = "selecting"
  BY <1>1 DEF Select
<1>3. /\ u \in Txn /\ u.pc = "locking" /\ u.owns = txn[h].owns
      /\ u.id = txn[h].id /\ u.payload = txn[h].payload /\ u.read = txn[h].read
  BY <1>1 DEF Txn
<1> HIDE DEF u
<1>4. /\ t \in Txn /\ t.pc = "locking" /\ t.owns = txn[h].owns
      /\ t.id = txn[h].id /\ t.payload = txn[h].payload /\ t.read = txn[h].read
  BY <1>3 DEF Txn
<1> HIDE DEF t
<1>5. \A m \in Ids : txn[h].read[m] = None
  BY <1>2 DEF MonitorsInv, ReadsOK
<1>6. ReadsOK(t)
  BY <1>4, <1>5 DEF ReadsOK
<1>7. OwnsOK(t)
  BY <1>2, <1>4 DEF MonitorsInv, OwnsOK
<1>8. \A g \in Hosts \ {h} : Apart(t, txn[g])
  BY <1>4, <1>5 DEF MonitorsInv, Apart
<1> QED BY <1>2, <1>4, <1>6, <1>7, <1>8, EvaluationMoves

\* A lock is taken in the order of ids, from a row that nobody else has.
LEMMA LockKeeps ==
  ASSUME MonitorsInv, NEW h \in Hosts, NEW m \in Ids, Lock(h, m)
  PROVE  MonitorsInv'
<1> DEFINE v == IF StillActive(m) THEN row[m].fires ELSE txn[h].read[m]
           u == [txn[h] EXCEPT !.todo = @ \ {m}]
           t == [u EXCEPT !.read = [txn[h].read EXCEPT ![m] = v]]
<1>1. txn[h] \in Txn /\ txn \in [Hosts -> Txn] /\ row \in [Ids -> Row]
  BY MonitorTypes DEF MonitorsInv
<1>2. /\ Turn(h, m) /\ ~LockWaits(h, m) /\ UNCHANGED <<row, log, seen, applied, purge>>
      /\ txn' = [txn EXCEPT ![h].todo = @ \ {m}, ![h].read[m] = IF StillActive(m) THEN row[m].fires ELSE @]
  BY DEF Lock
<1>3. txn' = [txn EXCEPT ![h] = t]
  BY <1>1, <1>2 DEF Txn
<1>4. v \in 0..MaxFires \cup {None} /\ (v # None => v = txn[h].read[m] \/ StillActive(m))
  BY <1>1 DEF Row, Txn
<1>5. /\ u \in Txn /\ u.pc = txn[h].pc /\ u.owns = txn[h].owns /\ u.id = txn[h].id
      /\ u.payload = txn[h].payload /\ u.read = txn[h].read /\ u.todo = txn[h].todo \ {m}
  BY <1>1 DEF Txn
<1>6. StillActive(m) => v = row[m].fires
  OBVIOUS
<1>7. ~StillActive(m) => v = txn[h].read[m]
  OBVIOUS
<1> HIDE DEF u, v
<1>8. /\ t \in Txn /\ t.pc = txn[h].pc /\ t.owns = txn[h].owns /\ t.id = txn[h].id
      /\ t.payload = txn[h].payload /\ t.todo = txn[h].todo \ {m}
      /\ t.read[m] = v /\ \A n \in Ids \ {m} : t.read[n] = txn[h].read[n]
  BY <1>1, <1>4, <1>5 DEF Txn
<1> HIDE DEF t
<1>9. /\ m \notin purge.locked
      /\ \A g \in Hosts \ {h} : txn[g].read[m] = None
  <2>1. \A y \in Txns \ {h} : m \notin Locks(y)
    BY <1>2 DEF LockWaits
  <2>2. "purge" \in Txns /\ "purge" # h
    BY HoldersAre DEF Txns
  <2> QED BY <2>1, <2>2, HoldersAre DEF Txns
<1>10. txn[h].pc = "locking" /\ m \in txn[h].todo /\ \A k \in txn[h].todo : m <= k
  BY <1>2 DEF Turn
<1>11. ReadsOK(txn[h]) /\ OwnsOK(txn[h])
  BY DEF MonitorsInv
<1>12. txn[h].todo \subseteq Nat /\ m \in Nat
  BY <1>1, MonitorsAssumption DEF Txn
<1>13. txn[h].read[m] = None
  BY <1>10, <1>11, <1>12 DEF ReadsOK
<1>14. v # None => row[m].status = "active" /\ row[m].fires = v
  BY <1>6, <1>7, <1>13 DEF StillActive
<1>15. ReadsOK(t)
  <2>1. ASSUME NEW n \in Ids, t.read[n] # None
        PROVE  /\ t.pc = "locking" /\ n \notin purge.locked
               /\ row[n].status = "active" /\ row[n].fires = t.read[n]
               /\ \A k \in t.todo : n < k
    <3>1. CASE n = m
      <4>1. \A k \in t.todo : m < k
        BY <1>8, <1>10, <1>12
      <4> QED BY <1>8, <1>9, <1>10, <1>14, <2>1, <3>1, <4>1
    <3>2. CASE n # m
      <4>1. txn[h].read[n] # None
        BY <1>8, <2>1, <3>2
      <4> QED BY <1>8, <1>11, <3>2, <4>1 DEF ReadsOK
    <3> QED BY <3>1, <3>2
  <2> QED BY <2>1 DEF ReadsOK
<1>16. OwnsOK(t)
  BY <1>8, <1>11 DEF OwnsOK
<1>17. \A g \in Hosts \ {h} : Apart(t, txn[g])
  <2>1. \A g \in Hosts \ {h} : Apart(txn[h], txn[g])
    BY DEF MonitorsInv
  <2> QED BY <1>8, <1>9, <2>1 DEF Apart
<1> QED BY <1>2, <1>3, <1>8, <1>15, <1>16, <1>17, EvaluationMoves

\* A step that changes one row which no evaluation is counting.
LEMMA RowMoves ==
  ASSUME MonitorsInv, UNCHANGED <<log, seen, applied, txn, purge>>,
         NEW m \in Ids, row' \in [Ids -> Row], \A n \in Ids \ {m} : row'[n] = row[n],
         MonitorOK(m)',
         \A h \in Hosts : txn[h].read[m] # None =>
            row'[m].status = row[m].status /\ row'[m].fires = row[m].fires
  PROVE  MonitorsInv'
<1>1. TypeOK'
  BY DEF MonitorsInv, TypeOK
<1>2. \A n \in Ids : MonitorOK(n)'
  BY DEF MonitorsInv, MonitorOK
<1>3. ASSUME NEW h \in Hosts PROVE ReadsOK(txn[h])'
  <2>1. ReadsOK(txn[h])
    BY DEF MonitorsInv
  <2> QED BY <2>1 DEF ReadsOK
<1>4. \A h \in Hosts : OwnsOK(txn[h])'
  BY DEF MonitorsInv, OwnsOK
<1>5. \A g, h \in Hosts : g # h => Apart(txn[g], txn[h])'
  BY DEF MonitorsInv, Apart
<1> QED BY <1>1, <1>2, <1>3, <1>4, <1>5 DEF MonitorsInv, PurgeOK, AppliedOnce

LEMMA OwnerKeeps ==
  ASSUME MonitorsInv, NEW m \in Ids,
         \/ \E wants \in SUBSET Payloads : Create(m, wants)
         \/ DeadlinePasses(m) \/ Cancel(m)
  PROVE  MonitorsInv'
<1>1. row \in [Ids -> Row] /\ MonitorOK(m)
  BY MonitorTypes DEF MonitorsInv
<1>2. ASSUME NEW wants \in SUBSET Payloads, Create(m, wants) PROVE MonitorsInv'
  <2> DEFINE u == [row[m] EXCEPT !.status = "active"]
             r == [u EXCEPT !.wants = wants]
  <2>1. row[m].status = "absent" /\ UNCHANGED <<log, seen, applied, txn, purge>>
    BY <1>2 DEF Create
  <2>2. row' = [row EXCEPT ![m] = r]
    BY <1>1, <1>2 DEF Create, Row
  <2>3. u \in Row /\ u.status = "active" /\ u.fires = row[m].fires
    BY <1>1 DEF Row
  <2> HIDE DEF u
  <2>4. r \in Row /\ r.status = "active" /\ r.fires = row[m].fires
    BY <2>3 DEF Row
  <2> HIDE DEF r
  <2>5. row' \in [Ids -> Row] /\ row'[m] = r /\ \A n \in Ids \ {m} : row'[n] = row[n]
    BY <1>1, <2>2, <2>4
  <2>6. MonitorOK(m)'
    BY <1>1, <2>1, <2>4, <2>5, MonitorsAssumption DEF MonitorOK, Over
  <2>7. \A h \in Hosts : txn[h].read[m] = None
    BY <2>1 DEF MonitorsInv, ReadsOK
  <2> QED BY <2>1, <2>5, <2>6, <2>7, RowMoves
<1>3. CASE DeadlinePasses(m)
  <2>1. UNCHANGED <<log, seen, applied, txn, purge>> /\ row' = [row EXCEPT ![m].overdue = TRUE]
    BY <1>3 DEF DeadlinePasses
  <2>2. /\ row' \in [Ids -> Row] /\ \A n \in Ids \ {m} : row'[n] = row[n]
        /\ row'[m].status = row[m].status /\ row'[m].fires = row[m].fires
    BY <1>1, <2>1 DEF Row
  <2>3. MonitorOK(m)'
    BY <1>1, <2>1, <2>2 DEF MonitorOK
  <2> QED BY <2>1, <2>2, <2>3, RowMoves
<1>4. CASE Cancel(m)
  <2>1. /\ UNCHANGED <<log, seen, applied, txn, purge>> /\ row[m].status = "active" /\ ~Locked(m)
        /\ row' = [row EXCEPT ![m].status = "cancelled"]
    BY <1>4 DEF Cancel
  <2>2. /\ row' \in [Ids -> Row] /\ \A n \in Ids \ {m} : row'[n] = row[n]
        /\ row'[m].status = "cancelled" /\ row'[m].fires = row[m].fires
    BY <1>1, <2>1 DEF Row, Over
  <2>3. MonitorOK(m)'
    BY <1>1, <2>1, <2>2 DEF MonitorOK, Over
  <2>4. \A h \in Hosts : txn[h].read[m] = None
    BY <2>1, HoldersAre DEF Locked, Txns
  <2> QED BY <2>1, <2>2, <2>3, <2>4, RowMoves
<1> QED BY <1>2, <1>3, <1>4

\* What a commit makes of a row it has locked.
LEMMA EvaluatedRow ==
  ASSUME MonitorsInv, NEW h \in Hosts, NEW m \in Ids, txn[h].read[m] # None,
         NEW l, l = IF Fires(h, m) THEN log[m] + 1 ELSE log[m]
  PROVE  /\ Evaluated(h, m) \in Row /\ l \in Nat /\ l >= log[m]
         /\ Evaluated(h, m).status \in {"active", "completed", "timed_out"}
         /\ l = Evaluated(h, m).fires
         /\ Evaluated(h, m).status = "completed" <=> Evaluated(h, m).fires = MaxFires
<1>1. row[m] \in Row /\ log[m] \in Nat /\ MaxFires \in Nat \ {0}
  BY MonitorTypes, MonitorsAssumption DEF MonitorsInv
<1>2. ReadsOK(txn[h]) /\ MonitorOK(m)
  BY DEF MonitorsInv
<1>3. /\ row[m].status = "active" /\ row[m].fires = txn[h].read[m]
      /\ log[m] = row[m].fires /\ row[m].fires # MaxFires
  BY <1>2 DEF ReadsOK, MonitorOK
<1>4. row[m].fires \in 0..MaxFires /\ row[m].fires + 1 \in 0..MaxFires
  BY <1>1, <1>3 DEF Row
<1>5. CASE m \in txn[h].late
  <2>1. Evaluated(h, m) = [row[m] EXCEPT !.status = "timed_out"] /\ l = log[m]
    BY <1>5 DEF Evaluated, Fires
  <2> QED BY <1>1, <1>3, <2>1 DEF Row, Over
<1>6. CASE m \notin txn[h].late /\ Fires(h, m)
  <2> DEFINE n == row[m].fires + 1
             u == [row[m] EXCEPT !.fires = n]
             r == [u EXCEPT !.status = StatusAfter(n)]
  <2>1. Evaluated(h, m) = r /\ l = n
    BY <1>1, <1>3, <1>6 DEF Evaluated, Row
  <2>2. u \in Row /\ u.fires = n
    BY <1>1, <1>4 DEF Row
  <2>3. StatusAfter(n) \in {"active", "completed"} /\ (StatusAfter(n) = "completed" <=> n >= MaxFires)
    BY DEF StatusAfter
  <2>4. n \in 0..MaxFires /\ n >= log[m] /\ n \in Nat
    BY <1>1, <1>3, <1>4
  <2> HIDE DEF n, u
  <2>5. r \in Row /\ r.fires = n /\ r.status = StatusAfter(n)
    BY <2>2, <2>3 DEF Row, Over
  <2> HIDE DEF r
  <2> QED BY <1>1, <2>1, <2>3, <2>4, <2>5
<1>7. CASE m \notin txn[h].late /\ ~Fires(h, m)
  <2>1. Evaluated(h, m) = row[m] /\ l = log[m]
    BY <1>7 DEF Evaluated
  <2> QED BY <1>1, <1>3, <2>1
<1> QED BY <1>5, <1>6, <1>7

LEMMA CommitKeeps ==
  ASSUME MonitorsInv, NEW h \in Hosts, Commit(h)
  PROVE  MonitorsInv'
<1> DEFINE held == {m \in Ids : txn[h].read[m] # None}
           mine == IF txn[h].owns THEN {txn[h].id} ELSE {}
<1>1. /\ txn[h].pc = "locking" /\ txn[h].todo = {}
      /\ row' = [m \in Ids |-> IF m \in held THEN Evaluated(h, m) ELSE row[m]]
      /\ log' = [m \in Ids |-> IF m \in held /\ Fires(h, m) THEN log[m] + 1 ELSE log[m]]
      /\ seen' = [e \in EventIds |-> IF e \in mine THEN txn[h].payload ELSE seen[e]]
      /\ applied' = [e \in EventIds |-> IF e \in mine THEN applied[e] + 1 ELSE applied[e]]
      /\ txn' = [txn EXCEPT ![h] = NoTxn] /\ purge' = purge
  BY HoldersAre DEF Commit, End
<1>2. /\ row \in [Ids -> Row] /\ log \in [Ids -> Nat]
      /\ seen \in [EventIds -> Payloads \cup {None}] /\ applied \in [EventIds -> Nat]
      /\ txn \in [Hosts -> Txn] /\ purge \in Purge
  BY MonitorTypes DEF MonitorsInv
<1>3. /\ \A m \in Ids : MonitorOK(m)
      /\ \A g \in Hosts : ReadsOK(txn[g]) /\ OwnsOK(txn[g])
      /\ \A f, g \in Hosts : f # g => Apart(txn[f], txn[g])
      /\ PurgeOK /\ AppliedOnce
  BY DEF MonitorsInv
<1>4. txn[h].payload \in Payloads /\ \A e \in mine : e \in EventIds /\ seen[e] = None /\ e \notin purge.ids
  BY <1>1, <1>3 DEF OwnsOK
<1>5. txn'[h] = NoTxn /\ \A g \in Hosts \ {h} : txn'[g] = txn[g]
  BY <1>1, <1>2
<1>6. ASSUME NEW m \in held
      PROVE  /\ row'[m] \in Row /\ log'[m] \in Nat /\ log'[m] >= log[m]
             /\ row'[m].status \in {"active", "completed", "timed_out"} /\ log'[m] = row'[m].fires
             /\ row'[m].status = "completed" <=> row'[m].fires = MaxFires
  <2>1. log'[m] = (IF Fires(h, m) THEN log[m] + 1 ELSE log[m]) /\ row'[m] = Evaluated(h, m)
    BY <1>1
  <2> QED BY <2>1, EvaluatedRow
<1>7. \A m \in Ids \ held : row'[m] = row[m] /\ log'[m] = log[m]
  BY <1>1
<1>8. TypeOK'
  <2>1. row' \in [Ids -> Row] /\ log' \in [Ids -> Nat]
    <3>1. \A m \in Ids : row'[m] \in Row /\ log'[m] \in Nat
      BY <1>2, <1>6, <1>7
    <3> QED BY <1>1, <3>1
  <2>2. seen' \in [EventIds -> Payloads \cup {None}] /\ applied' \in [EventIds -> Nat]
    BY <1>1, <1>2, <1>4
  <2>3. txn' \in [Hosts -> Txn] /\ purge' \in Purge
    BY <1>1, <1>2, EmptyTxn
  <2> QED BY <2>1, <2>2, <2>3 DEF TypeOK, Txn, Purge
<1>9. \A m \in Ids : MonitorOK(m)'
  <2>1. \A m \in held : MonitorOK(m)'
    BY <1>6 DEF MonitorOK, Over
  <2>2. \A m \in Ids \ held : MonitorOK(m)'
    BY <1>1, <1>3, <1>7 DEF MonitorOK
  <2> QED BY <2>1, <2>2
<1>10. ASSUME NEW g \in Hosts PROVE ReadsOK(txn[g])' /\ OwnsOK(txn[g])'
  <2>1. CASE g = h
    BY <1>5, <2>1, EmptyTxn DEF ReadsOK, OwnsOK
  <2>2. CASE g # h
    <3>1. ReadsOK(txn[g]) /\ OwnsOK(txn[g]) /\ Apart(txn[g], txn[h])
      BY <1>3, <2>2
    <3>2. \A m \in Ids : txn[g].read[m] # None => m \notin held
      BY <3>1 DEF Apart
    <3>3. ReadsOK(txn[g])'
      BY <1>1, <1>5, <1>7, <2>2, <3>1, <3>2 DEF ReadsOK
    <3>4. txn[g].owns => txn[g].id \in EventIds /\ txn[g].id \notin mine
      BY <3>1 DEF Apart, OwnsOK
    <3>5. OwnsOK(txn[g])'
      BY <1>1, <1>5, <2>2, <3>1, <3>4 DEF OwnsOK
    <3> QED BY <3>3, <3>5
  <2> QED BY <2>1, <2>2
<1>11. \A f, g \in Hosts : f # g => Apart(txn[f], txn[g])'
  BY <1>3, <1>5, EmptyTxn DEF Apart
<1>12. PurgeOK'
  <2>1. \A m \in Ids : log'[m] >= log[m] /\ log'[m] \in Nat
    BY <1>2, <1>6, <1>7
  <2>2. \A m \in Ids : purge.rows[m] \in Nat
    BY <1>2 DEF Purge
  <2>3. \A m \in Ids : purge.rows[m] <= log'[m]
    BY <1>2, <1>3, <2>1, <2>2 DEF PurgeOK
  <2> QED BY <1>1, <1>3, <2>3 DEF PurgeOK
<1>13. AppliedOnce'
  <2>1. ASSUME NEW e \in EventIds PROVE applied'[e] = IF seen'[e] = None THEN 0 ELSE 1
    <3>1. CASE e \in mine
      <4>1. applied[e] = 0
        BY <1>3, <1>4, <3>1 DEF AppliedOnce
      <4>2. applied'[e] = 1 /\ seen'[e] # None
        BY <1>1, <1>4, <3>1, <4>1, MonitorsAssumption
      <4> QED BY <4>2
    <3>2. CASE e \notin mine
      BY <1>1, <1>3, <3>2 DEF AppliedOnce
    <3> QED BY <3>1, <3>2
  <2> QED BY <2>1 DEF AppliedOnce
<1> QED BY <1>8, <1>9, <1>10, <1>11, <1>12, <1>13 DEF MonitorsInv

\* A step of delete_owner that writes nothing yet.
LEMMA PurgeMoves ==
  ASSUME MonitorsInv, UNCHANGED <<row, log, seen, applied, txn>>, purge' \in Purge, PurgeOK',
         purge.pc = "done" => purge'.pc = "done",
         \A h \in Hosts : /\ txn[h].owns => txn[h].id \notin purge'.ids
                          /\ \A m \in Ids : txn[h].read[m] # None => m \notin purge'.locked
  PROVE  MonitorsInv'
<1>1. TypeOK'
  BY DEF MonitorsInv, TypeOK, Purge
<1>2. \A m \in Ids : MonitorOK(m)'
  BY DEF MonitorsInv, MonitorOK
<1>3. \A h \in Hosts : (ReadsOK(txn[h]) /\ OwnsOK(txn[h]))'
  BY DEF MonitorsInv, ReadsOK, OwnsOK
<1>4. \A g, h \in Hosts : g # h => Apart(txn[g], txn[h])'
  BY DEF MonitorsInv, Apart
<1> QED BY <1>1, <1>2, <1>3, <1>4 DEF MonitorsInv, AppliedOnce

LEMMA PurgeHolds ==
  ASSUME MonitorsInv, NEW h \in Hosts
  PROVE  /\ txn[h].owns => txn[h].id \notin purge.ids /\ txn[h].id \in EventIds /\ seen[txn[h].id] = None
         /\ \A m \in Ids : txn[h].read[m] # None => m \notin purge.locked
  BY DEF MonitorsInv, ReadsOK, OwnsOK

LEMMA PurgeBegins ==
  ASSUME MonitorsInv, PurgeSource \/ PurgeEvents \/ PurgeMonitors
  PROVE  MonitorsInv'
<1>1. log \in [Ids -> Nat] /\ purge \in Purge /\ PurgeOK /\ \A m \in Ids : MonitorOK(m)
  BY MonitorTypes DEF MonitorsInv
<1>2. row \in [Ids -> Row]
  BY MonitorTypes DEF MonitorsInv
<1>3. CASE PurgeSource
  <2> DEFINE u == [NoPurge EXCEPT !.pc = "events"]
             p == [u EXCEPT !.ids = {e \in EventIds : seen[e] # None}]
  <2>1. UNCHANGED <<row, log, seen, applied, txn>> /\ purge.pc = "idle" /\ purge' = p
    BY <1>3 DEF PurgeSource, NoPurge
  <2>2. u \in Purge /\ u.pc = "events" /\ u.rows = NoPurge.rows /\ u.locked = {}
    BY EmptyPurge DEF Purge
  <2> HIDE DEF u
  <2>3. /\ p \in Purge /\ p.pc = "events" /\ p.rows = NoPurge.rows /\ p.locked = {}
        /\ p.ids = {e \in EventIds : seen[e] # None}
    BY <2>2 DEF Purge
  <2> HIDE DEF p
  <2>4. PurgeOK'
    BY <1>1, <2>1, <2>3, EmptyPurge DEF PurgeOK
  <2> QED BY <2>1, <2>3, <2>4, PurgeHolds, PurgeMoves
<1>4. CASE PurgeEvents
  <2> DEFINE u == [purge EXCEPT !.pc = "monitors"]
             p == [u EXCEPT !.rows = log]
  <2>1. UNCHANGED <<row, log, seen, applied, txn>> /\ purge.pc = "events" /\ purge' = p
    BY <1>1, <1>4 DEF PurgeEvents, Purge
  <2>2. u \in Purge /\ u.pc = "monitors" /\ u.locked = purge.locked /\ u.ids = purge.ids
    BY <1>1 DEF Purge
  <2> HIDE DEF u
  <2>3. p \in Purge /\ p.pc = "monitors" /\ p.rows = log /\ p.locked = purge.locked /\ p.ids = purge.ids
    BY <1>1, <2>2 DEF Purge
  <2> HIDE DEF p
  <2>4. PurgeOK'
    BY <1>1, <2>1, <2>3 DEF PurgeOK
  <2> QED BY <2>1, <2>3, <2>4, PurgeHolds, PurgeMoves
<1>5. CASE PurgeMonitors
  <2> DEFINE u == [purge EXCEPT !.pc = "locking"]
             p == [u EXCEPT !.todo = {m \in Ids : row[m].status \in Over \cup {"active"}}]
  <2>1. UNCHANGED <<row, log, seen, applied, txn>> /\ purge.pc = "monitors" /\ purge' = p
    BY <1>1, <1>5 DEF PurgeMonitors, Purge
  <2>2. u \in Purge /\ u.pc = "locking" /\ u.locked = purge.locked /\ u.ids = purge.ids /\ u.rows = purge.rows
    BY <1>1 DEF Purge
  <2> HIDE DEF u
  <2>3. /\ p \in Purge /\ p.pc = "locking" /\ p.rows = purge.rows /\ p.locked = purge.locked
        /\ p.ids = purge.ids /\ p.todo = {m \in Ids : row[m].status \in Over \cup {"active"}}
    BY <1>1, <2>2 DEF Purge
  <2> HIDE DEF p
  <2>4. ASSUME NEW m \in Ids, purge.rows[m] > 0 PROVE row[m].status \in Over \cup {"active"}
    <3>1. purge.rows[m] \in Nat /\ log[m] \in Nat
      BY <1>1 DEF Purge
    <3>2. log[m] # 0
      BY <1>1, <2>4, <3>1 DEF PurgeOK
    <3>3. row[m].status # "absent" /\ row[m].status # "deleted"
      BY <1>1, <2>1, <3>2 DEF MonitorOK
    <3> QED BY <1>2, <3>3 DEF Row
  <2>5. PurgeOK'
    BY <1>1, <2>1, <2>3, <2>4 DEF PurgeOK
  <2> QED BY <2>1, <2>3, <2>5, PurgeHolds, PurgeMoves
<1> QED BY <1>3, <1>4, <1>5

LEMMA PurgeTakes ==
  ASSUME MonitorsInv, (\E m \in Ids : PurgeWants(m)) \/ PurgeLocks
  PROVE  MonitorsInv'
<1>1. log \in [Ids -> Nat] /\ purge \in Purge /\ PurgeOK
  BY MonitorTypes DEF MonitorsInv
<1>2. ASSUME NEW m \in Ids, PurgeWants(m) PROVE MonitorsInv'
  <2> DEFINE p == [purge EXCEPT !.want = m]
  <2>1. UNCHANGED <<row, log, seen, applied, txn>> /\ purge.pc = "locking" /\ purge' = p
    BY <1>2 DEF PurgeWants
  <2>2. /\ p \in Purge /\ p.pc = "locking" /\ p.rows = purge.rows /\ p.locked = purge.locked
        /\ p.ids = purge.ids /\ p.todo = purge.todo
    BY <1>1, <2>1 DEF Purge
  <2> HIDE DEF p
  <2>3. PurgeOK'
    BY <1>1, <2>1, <2>2 DEF PurgeOK
  <2> QED BY <2>1, <2>2, <2>3, PurgeHolds, PurgeMoves
<1>3. CASE PurgeLocks
  <2> DEFINE w == purge.want
             u == [purge EXCEPT !.want = None]
             v == [u EXCEPT !.todo = purge.todo \ {w}]
             p == [v EXCEPT !.locked = purge.locked \cup {w}]
  <2>1. /\ UNCHANGED <<row, log, seen, applied, txn>> /\ purge.pc = "locking" /\ w # None
        /\ ~Waits("purge")
        /\ purge' = [purge EXCEPT !.want = None, !.todo = @ \ {purge.want},
                                  !.locked = @ \cup {purge.want}]
    BY <1>3 DEF PurgeLocks
  <2>2. purge' = p
    BY <1>1, <2>1 DEF Purge
  <2>3. w \in Ids
    BY <1>1, <2>1 DEF Purge
  <2>4. /\ u \in Purge /\ u.pc = "locking" /\ u.rows = purge.rows /\ u.locked = purge.locked
        /\ u.ids = purge.ids /\ u.todo = purge.todo
    BY <1>1, <2>1 DEF Purge
  <2> HIDE DEF u, w
  <2>5. /\ v \in Purge /\ v.pc = "locking" /\ v.rows = purge.rows /\ v.locked = purge.locked
        /\ v.ids = purge.ids /\ v.todo = purge.todo \ {w}
    BY <2>4 DEF Purge
  <2> HIDE DEF v
  <2>6. /\ p \in Purge /\ p.pc = "locking" /\ p.rows = purge.rows
        /\ p.locked = purge.locked \cup {w} /\ p.ids = purge.ids /\ p.todo = purge.todo \ {w}
    BY <2>3, <2>5 DEF Purge
  <2> HIDE DEF p
  <2>7. PurgeOK'
    BY <1>1, <2>1, <2>2, <2>6 DEF PurgeOK
  <2>8. \A h \in Hosts : txn[h].read[w] = None
    <3>1. \A h \in Hosts : purge.want \notin Locks(h)
      BY <2>1, HoldersAre DEF Waits, WaitsFor, Txns
    <3> QED BY <2>3, <3>1, HoldersAre DEF w
  <2>9. \A h \in Hosts : \A m \in Ids : txn[h].read[m] # None => m \notin purge'.locked
    BY <2>2, <2>6, <2>8, PurgeHolds
  <2> QED BY <2>1, <2>2, <2>6, <2>7, <2>9, PurgeHolds, PurgeMoves
<1> QED BY <1>2, <1>3

LEMMA PurgeAborts ==
  ASSUME MonitorsInv, purge.pc # "done", purge' = NoPurge, UNCHANGED <<row, log, seen, applied, txn>>
  PROVE  MonitorsInv'
<1>1. log \in [Ids -> Nat]
  BY MonitorTypes DEF MonitorsInv
<1>2. PurgeOK'
  BY <1>1, EmptyPurge DEF PurgeOK
<1> QED BY <1>2, EmptyPurge, PurgeMoves

LEMMA PurgeCommitKeeps ==
  ASSUME MonitorsInv, PurgeCommits
  PROVE  MonitorsInv'
<1> DEFINE p == [NoPurge EXCEPT !.pc = "done"]
<1>1. /\ purge.pc = "locking" /\ purge.todo = {} /\ purge' = p /\ txn' = txn
      /\ row' = [m \in Ids |-> IF m \in purge.locked
                               THEN [row[m] EXCEPT !.status = "deleted"] ELSE row[m]]
      /\ log' = [m \in Ids |-> log[m] - purge.rows[m]]
      /\ seen' = [e \in EventIds |-> IF e \in purge.ids THEN None ELSE seen[e]]
      /\ applied' = [e \in EventIds |-> IF e \in purge.ids THEN 0 ELSE applied[e]]
  BY DEF PurgeCommits
<1>2. /\ row \in [Ids -> Row] /\ log \in [Ids -> Nat]
      /\ seen \in [EventIds -> Payloads \cup {None}] /\ applied \in [EventIds -> Nat]
      /\ txn \in [Hosts -> Txn] /\ purge \in Purge
  BY MonitorTypes DEF MonitorsInv
<1>3. /\ \A m \in Ids : MonitorOK(m)
      /\ \A g \in Hosts : ReadsOK(txn[g]) /\ OwnsOK(txn[g])
      /\ \A f, g \in Hosts : f # g => Apart(txn[f], txn[g])
      /\ PurgeOK /\ AppliedOnce
  BY DEF MonitorsInv
<1>4. /\ p \in Purge /\ p.pc = "done" /\ p.ids = {} /\ p.locked = {} /\ p.rows = NoPurge.rows
  BY EmptyPurge DEF Purge
<1> HIDE DEF p
<1>5. ASSUME NEW m \in Ids
      PROVE  /\ log'[m] \in Nat
             /\ m \notin purge.locked => purge.rows[m] = 0 /\ log'[m] = log[m] /\ row'[m] = row[m]
             /\ m \in purge.locked => row'[m] = [row[m] EXCEPT !.status = "deleted"]
  <2>1. purge.rows[m] \in Nat /\ log[m] \in Nat /\ purge.rows[m] <= log[m]
    BY <1>2, <1>3 DEF Purge, PurgeOK
  <2>2. m \notin purge.locked => purge.rows[m] = 0
    BY <1>1, <1>3, <2>1 DEF PurgeOK
  <2> QED BY <1>1, <2>1, <2>2
<1>6. \A m \in Ids : /\ row'[m] \in Row
                     /\ m \in purge.locked => row'[m].status = "deleted"
  <2>1. ASSUME NEW m \in Ids PROVE /\ [row[m] EXCEPT !.status = "deleted"] \in Row
                                  /\ [row[m] EXCEPT !.status = "deleted"].status = "deleted"
    <3>1. row[m] \in Row
      BY <1>2
    <3> QED BY <3>1 DEF Row
  <2>2. \A m \in Ids : row'[m] = row[m] \/ row'[m] = [row[m] EXCEPT !.status = "deleted"]
    BY <1>1
  <2>3. \A m \in Ids : m \in purge.locked => row'[m] = [row[m] EXCEPT !.status = "deleted"]
    BY <1>1
  <2> QED BY <1>2, <2>1, <2>2, <2>3
<1>7. TypeOK'
  <2>1. row' \in [Ids -> Row] /\ log' \in [Ids -> Nat]
    BY <1>1, <1>5, <1>6
  <2>2. seen' \in [EventIds -> Payloads \cup {None}] /\ applied' \in [EventIds -> Nat]
    BY <1>1, <1>2
  <2>3. txn' \in [Hosts -> Txn] /\ purge' \in Purge
    BY <1>1, <1>2, <1>4
  <2> QED BY <2>1, <2>2, <2>3 DEF TypeOK, Txn, Purge
<1>8. \A m \in Ids : MonitorOK(m)'
  <2>1. ASSUME NEW m \in purge.locked PROVE MonitorOK(m)'
    <3>1. m \in Ids
      BY <1>2 DEF Purge
    <3>2. row'[m].status = "deleted" /\ purge'.pc = "done"
      BY <1>1, <1>4, <1>6, <3>1
    <3> QED BY <3>2 DEF MonitorOK, Over
  <2>2. ASSUME NEW m \in Ids \ purge.locked PROVE MonitorOK(m)'
    <3>1. row'[m] = row[m] /\ log'[m] = log[m] /\ purge'.pc = "done"
      BY <1>1, <1>4, <1>5
    <3> QED BY <1>3, <3>1 DEF MonitorOK
  <2> QED BY <2>1, <2>2
<1>9. ASSUME NEW g \in Hosts PROVE ReadsOK(txn[g])' /\ OwnsOK(txn[g])'
  <2>1. ReadsOK(txn[g]) /\ OwnsOK(txn[g])
    BY <1>3
  <2>2. \A m \in Ids : txn[g].read[m] # None => row'[m] = row[m]
    BY <1>5, <2>1 DEF ReadsOK
  <2>3. ReadsOK(txn[g])'
    BY <1>1, <1>4, <2>1, <2>2 DEF ReadsOK
  <2>4. OwnsOK(txn[g])'
    BY <1>1, <1>4, <2>1 DEF OwnsOK
  <2> QED BY <2>3, <2>4
<1>10. \A f, g \in Hosts : f # g => Apart(txn[f], txn[g])'
  BY <1>1, <1>3 DEF Apart
<1>11. PurgeOK'
  <2>1. \A m \in Ids : purge'.rows[m] = 0 /\ log'[m] \in Nat
    BY <1>1, <1>4, <1>5, EmptyPurge
  <2>2. \A m \in Ids : purge'.rows[m] <= log'[m]
    BY <2>1
  <2>3. purge'.pc = "done" /\ purge'.locked = {}
    BY <1>1, <1>4
  <2> QED BY <2>2, <2>3 DEF PurgeOK
<1>12. AppliedOnce'
  BY <1>1, <1>3 DEF AppliedOnce
<1> QED BY <1>7, <1>8, <1>9, <1>10, <1>11, <1>12 DEF MonitorsInv

LEMMA AbortKeeps ==
  ASSUME MonitorsInv, NEW x \in Txns, AbortDeadlock(x)
  PROVE  MonitorsInv'
<1>1. UNCHANGED <<row, log, seen, applied>>
  BY DEF AbortDeadlock
<1>2. CASE x \in Hosts
  BY <1>1, <1>2, EndKeeps DEF AbortDeadlock
<1>3. CASE x \notin Hosts
  <2>1. purge' = NoPurge /\ UNCHANGED txn
    BY <1>3 DEF AbortDeadlock
  <2>2. purge.pc = "locking"
    BY <1>3 DEF AbortDeadlock, Deadlocked, WaitsFor
  <2> QED BY <1>1, <2>1, <2>2, PurgeAborts
<1> QED BY <1>2, <1>3

LEMMA MonitorsStep ==
  ASSUME MonitorsInv, [Next]_vars
  PROVE  MonitorsInv'
<1>1. ASSUME NEW m \in Ids, NEW wants \in SUBSET Payloads, Create(m, wants) PROVE MonitorsInv'
  BY <1>1, OwnerKeeps
<1>2. ASSUME NEW m \in Ids, DeadlinePasses(m) \/ Cancel(m) PROVE MonitorsInv'
  BY <1>2, OwnerKeeps
<1>3. ASSUME NEW h \in Hosts, NEW e \in EventIds \cup {None}, NEW x \in Payloads,
             Evaluate(h, e, x) PROVE MonitorsInv'
  BY <1>3, EvaluateKeeps
<1>4. ASSUME NEW h \in Hosts, EvaluationStep(h) PROVE MonitorsInv'
  <2>1. CASE Insert(h)
    BY <2>1, InsertKeeps
  <2>2. CASE ReadPrior(h)
    BY <2>2, EndKeeps DEF ReadPrior
  <2>3. CASE Select(h)
    BY <2>3, SelectKeeps
  <2>4. ASSUME NEW m \in Ids, Lock(h, m) PROVE MonitorsInv'
    BY <2>4, LockKeeps
  <2>5. CASE Commit(h)
    BY <2>5, CommitKeeps
  <2> QED BY <1>4, <2>1, <2>2, <2>3, <2>4, <2>5 DEF EvaluationStep
<1>5. ASSUME NEW h \in Hosts, Rollback(h) PROVE MonitorsInv'
  BY <1>5, EndKeeps DEF Rollback
<1>6. CASE PurgeSource \/ PurgeStep
  BY <1>6, PurgeBegins, PurgeTakes, PurgeCommitKeeps DEF PurgeStep
<1>7. ASSUME NEW x \in Txns, AbortDeadlock(x) PROVE MonitorsInv'
  BY <1>7, AbortKeeps
<1>8. CASE UNCHANGED vars
  BY <1>8 DEF vars, MonitorsInv, TypeOK, MonitorOK, ReadsOK, OwnsOK, Apart, PurgeOK, AppliedOnce
<1> QED BY <1>1, <1>2, <1>3, <1>4, <1>5, <1>6, <1>7, <1>8 DEF Next

\* In a circle of evaluations somebody waits for a row; whoever has the row
\* that comes last among those waited for does not wait for a row after it.
LEMMA NoCircle == MonitorsInv => NoEvaluationDeadlock
<1> SUFFICES ASSUME MonitorsInv, NEW S \in SUBSET Hosts, Deadlocked(S) PROVE FALSE
  BY DEF NoEvaluationDeadlock
<1> DEFINE Wanted == {m \in Ids : \E x \in S : Turn(x, m)}
<1>1. S # {} /\ \A x \in S : \E y \in S : WaitsFor(x, y)
  BY DEF Deadlocked
<1>2. \A h \in S : ReadsOK(txn[h]) /\ OwnsOK(txn[h])
  BY DEF MonitorsInv
<1>3. ASSUME NEW x \in S PROVE \/ \E m \in Ids : \E y \in S : Turn(x, m) /\ txn[y].read[m] # None
                               \/ txn[x].pc = "inserting" /\ \E y \in S : txn[y].owns
  <2>1. PICK y \in S : WaitsFor(x, y)
    BY <1>1
  <2>2. \/ txn[x].pc = "inserting" /\ txn[x].id \in Identities(y)
        \/ \E m \in Ids : Turn(x, m) /\ m \in Locks(y)
    BY <2>1 DEF WaitsFor
  <2> QED BY <2>2, HoldersAre
<1>4. \A x \in S : txn[x].pc # "inserting" => \E m \in Ids : \E y \in S : Turn(x, m) /\ txn[y].read[m] # None
  BY <1>3
<1>5. Wanted # {}
  <2>1. PICK x \in S : TRUE
    BY <1>1
  <2>2. CASE \E y \in S : txn[y].owns
    <3>1. PICK y \in S : txn[y].owns
      BY <2>2
    <3>2. txn[y].pc # "inserting"
      BY <1>2, <3>1 DEF OwnsOK
    <3> QED BY <1>4, <3>2
  <2>3. CASE ~\E y \in S : txn[y].owns
    BY <1>3, <2>1, <2>3
  <2> QED BY <2>2, <2>3
<1>6. PICK m \in Wanted : \A k \in Wanted : k <= m
  <2>1. IsFiniteSet(Wanted) /\ Wanted \subseteq Int
    <3>1. Wanted \in SUBSET Ids
      OBVIOUS
    <3> HIDE DEF Wanted
    <3>2. IsFiniteSet(Ids) /\ Ids \subseteq Int
      BY MonitorsAssumption
    <3>3. IsFiniteSet(Wanted)
      BY <3>1, <3>2, FS_Subset
    <3> QED BY <3>1, <3>2, <3>3
  <2> HIDE DEF Wanted
  <2> QED BY <1>5, <2>1, GreatestExists
<1>7. PICK x \in S : Turn(x, m)
  OBVIOUS
<1>8. \A k \in Ids : Turn(x, k) => k = m
  <2>1. SUFFICES ASSUME NEW k \in Ids, Turn(x, k) PROVE k = m
    OBVIOUS
  <2>2. k \in Int /\ m \in Int
    BY MonitorsAssumption
  <2>3. m <= k /\ k <= m
    BY <1>7, <2>1 DEF Turn
  <2> QED BY <2>2, <2>3
<1>9. PICK y \in S : txn[y].read[m] # None
  BY <1>4, <1>7, <1>8 DEF Turn
<1>10. txn[y].pc = "locking" /\ \A k \in txn[y].todo : m < k
  BY <1>2, <1>9 DEF ReadsOK
<1>11. PICK k \in Ids : Turn(y, k)
  BY <1>4, <1>10
<1>12. m < k /\ k <= m
  BY <1>6, <1>10, <1>11 DEF Turn
<1> QED BY <1>12, MonitorsAssumption

LEMMA MonitorsInvariant == Spec => []MonitorsInv
  BY MonitorsStart, MonitorsStep, PTL DEF Spec

\* However evaluations on several hosts, cancels, deadlines, rollbacks and an
\* account deletion interleave, each fire is counted once, each event identity
\* is applied once and recorded if and only if it was, and evaluations never
\* wait for each other in a circle: evaluate_identified and delete_owner of
\* meemee_persist_pg/monitors.py.
THEOREM EventsCountOnce == Spec => []EvaluationHolds
<1>1. MonitorsInv => EvaluationHolds
  BY NoCircle DEF MonitorsInv, EvaluationHolds, FiresAreCounted, MonitorOK
<1> QED BY <1>1, MonitorsInvariant, PTL

\* No evaluation that had found a monitor active, and no late cancel or
\* deadline, revives a monitor that is over or counts another fire of it; only
\* the deletion of its owner does more (the WHERE clauses of monitors.py).
THEOREM EndedStaysEnded == Spec => OverIsOver
<1> DEFINE Ended == \A m \in Ids : row[m].status \in Over =>
                      row'[m].status \in {row[m].status, "deleted"} /\ row'[m].fires = row[m].fires
<1>1. ASSUME MonitorsInv, [Next]_vars PROVE Ended
  <2>1. row \in [Ids -> Row]
    BY <1>1, MonitorTypes DEF MonitorsInv
  <2>2. CASE row' = row
    BY <2>2
  <2>3. ASSUME NEW m \in Ids, NEW wants \in SUBSET Payloads, Create(m, wants) PROVE Ended
    BY <2>1, <2>3 DEF Create, Over
  <2>4. ASSUME NEW m \in Ids, DeadlinePasses(m) \/ Cancel(m) PROVE Ended
    BY <2>1, <2>4 DEF DeadlinePasses, Cancel, Over
  <2>5. ASSUME NEW h \in Hosts, Commit(h) PROVE Ended
    <3>1. row' = [m \in Ids |-> IF m \in Locks(h) THEN Evaluated(h, m) ELSE row[m]]
      BY <2>5 DEF Commit
    <3>2. \A m \in Locks(h) : row[m].status = "active"
      BY <1>1, HoldersAre DEF MonitorsInv, ReadsOK
    <3> QED BY <3>1, <3>2 DEF Over
  <2>6. CASE PurgeCommits
    <3>1. row' = [m \in Ids |-> IF m \in purge.locked
                                THEN [row[m] EXCEPT !.status = "deleted"] ELSE row[m]]
      BY <2>6 DEF PurgeCommits
    <3>2. \A m \in Ids : row'[m] = row[m] \/ (row'[m].status = "deleted" /\ row'[m].fires = row[m].fires)
      BY <2>1, <3>1 DEF Row
    <3> QED BY <3>2
  <2>7. CASE \/ \E h \in Hosts, e \in EventIds \cup {None}, x \in Payloads : Evaluate(h, e, x)
             \/ \E h \in Hosts : Insert(h) \/ ReadPrior(h) \/ Select(h) \/ Rollback(h)
             \/ \E h \in Hosts, m \in Ids : Lock(h, m)
    BY <2>2, <2>7 DEF Evaluate, Insert, ReadPrior, Select, Rollback, Lock
  <2>8. CASE \/ PurgeSource \/ PurgeEvents \/ PurgeMonitors \/ PurgeLocks
             \/ \E m \in Ids : PurgeWants(m)
             \/ \E x \in Txns : AbortDeadlock(x)
    BY <2>2, <2>8 DEF PurgeSource, PurgeEvents, PurgeMonitors, PurgeLocks, PurgeWants, AbortDeadlock
  <2>9. CASE UNCHANGED vars
    BY <2>2, <2>9 DEF vars
  <2> QED BY <1>1, <2>3, <2>4, <2>5, <2>6, <2>7, <2>8, <2>9 DEF Next, EvaluationStep, PurgeStep
<1>2. MonitorsInv /\ [Next]_vars => [Ended]_vars
  BY <1>1
<1> QED BY <1>2, MonitorsInvariant, PTL DEF Spec, OverIsOver

-----------------------------------------------------------------------------
(***************************************************************************)
(* The personal model.  While a pass has the owner's guard nobody moves    *)
(* the watermark, and every eligible record up to where the pass will move *)
(* it is in its batch, but for those that PostgreSQL showed too late.      *)
(***************************************************************************)
RecordRow == [state: {"none", "open", "stored", "doomed"}, shared: BOOLEAN, reflected: BOOLEAN, late: BOOLEAN]

Pass == [pc: {"idle", "due", "model", "record", "manual"}, top: 0..MaxRecords, batch: SUBSET RecordIds]

Claim == [id: 0..MaxVersions, value: Values \cup {NoValue}, user: BOOLEAN]

ClaimInv ==
  /\ claim \in Claim /\ versions \in 0..MaxVersions /\ editor \in [Editors -> 0..MaxVersions]
  /\ said \in Values \cup {NoValue}
  /\ said # NoValue => claim.user /\ claim.id # 0 /\ claim.value = said

RecordsOK ==
  /\ store \in {"sqlite", "postgres"} /\ record \in [RecordIds -> RecordRow]
  /\ lastId \in 0..MaxRecords /\ purged \in {"no", "claims", "sources", "records", "done"}
  /\ schedule \in [watermark: 0..MaxRecords, recent: BOOLEAN] /\ schedule.watermark <= lastId
  /\ \A i \in RecordIds : /\ record[i].state # "none" => i <= lastId
                          /\ record[i].state = "open" => store = "postgres"

Eligible(i) == Stored(i) /\ ~record[i].shared

Missed(i) == record[i].late /\ store = "postgres"

Working(w) == pass[w].pc \in {"model", "record"}

PassOK(w) ==
  /\ pass[w].top <= lastId
  /\ Working(w) =>
       /\ guard = w /\ Processed(w) \in 0..pass[w].top
       /\ purged = "no" =>
            \A i \in RecordIds :
              Eligible(i) /\ schedule.watermark < i /\ i <= Processed(w) => i \in pass[w].batch \/ Missed(i)

PassesOK ==
  /\ guard \in Passes \cup {NoGuard} /\ pass \in [Passes -> Pass]
  /\ \A w \in Passes : PassOK(w)

\* A deletion whose first step is done: without a pass since then there is no
\* pass, no claim that no request made, and no watermark after the last step;
PassesGone ==
  purged # "no" /\ "pass" \notin raced =>
    /\ \A w \in Passes : pass[w].pc = "idle"
    /\ "request" \notin raced => claim = NoClaim
    /\ purged = "done" => schedule.watermark = 0

\* and without an insert between its deletes there are no records after them.
RecordsGone ==
  /\ \A i \in RecordIds : record[i].state = "doomed" => purged = "sources"
  /\ purged \in {"records", "done"} => \A i \in RecordIds : record[i].state # "open"
  /\ "insert" \notin raced =>
       /\ purged = "sources" => \A i \in RecordIds : record[i].state \in {"none", "doomed"}
       /\ purged \in {"records", "done"} => \A i \in RecordIds : record[i].state = "none"

Overlaps == {"pass", "insert", "request"}

DeletionOK == raced \subseteq Overlaps /\ PassesGone /\ RecordsGone

PersonalInv == ClaimInv /\ RecordsOK /\ PassesOK /\ EvidenceReflected /\ DeletionOK

LEMMA RecordIdsFinite == IsFiniteSet(RecordIds) /\ RecordIds \subseteq Nat
<1>1. MaxRecords \in Int
  BY PersonalAssumption
<1>2. IsFiniteSet(1..MaxRecords)
  BY <1>1, FS_Interval
<1> QED BY <1>2 DEF RecordIds

LEMMA TopRecordIs ==
  ASSUME RecordsOK
  PROVE  /\ TopRecord \in 0..lastId
         /\ (\A i \in RecordIds : ~Stored(i)) <=> TopRecord = 0
<1> DEFINE S == {i \in RecordIds : Stored(i)}
<1>1. S \in SUBSET RecordIds
  OBVIOUS
<1>2. IsFiniteSet(S) /\ S \subseteq Int
  <2>1. IsFiniteSet(RecordIds) /\ RecordIds \subseteq Int
    BY RecordIdsFinite
  <2> HIDE DEF S
  <2>2. IsFiniteSet(S)
    BY <1>1, <2>1, FS_Subset
  <2> QED BY <1>1, <2>1, <2>2
<1>3. S # {} => \E i \in S : \A j \in S : j <= i
  <2> HIDE DEF S
  <2> QED BY <1>2, GreatestExists
<1>4. CASE S = {}
  <2>1. TopRecord = 0
    BY <1>4 DEF TopRecord
  <2> QED BY <1>4, <2>1, PersonalAssumption DEF RecordsOK
<1>5. CASE S # {}
  <2>1. TopRecord \in RecordIds /\ Stored(TopRecord)
    BY <1>3, <1>5 DEF TopRecord
  <2>2. TopRecord <= lastId /\ TopRecord >= 1 /\ TopRecord \in Nat
    BY <2>1, RecordIdsFinite DEF RecordsOK, Stored, RecordIds
  <2> QED BY <1>5, <2>2, PersonalAssumption DEF RecordsOK
<1> QED BY <1>4, <1>5

\* A set of numbers whose members have fewer than n of a larger set below them
\* is all of it, or has n members, and the rest are above them.
LEMMA FirstOnes ==
  ASSUME NEW S, IsFiniteSet(S), S \subseteq Nat, NEW n \in Nat \ {0},
         NEW B, B = {i \in S : Cardinality({j \in S : j < i}) < n},
         NEW i \in S, i \notin B
  PROVE  Cardinality(B) = n /\ \A j \in B : j < i
<1> DEFINE Below(k) == {j \in S : j < k}
<1>1. \A k \in S : IsFiniteSet(Below(k)) /\ Cardinality(Below(k)) \in Nat
  <2>1. ASSUME NEW k \in S PROVE IsFiniteSet(Below(k)) /\ Cardinality(Below(k)) \in Nat
    <3>1. Below(k) \in SUBSET S
      OBVIOUS
    <3> HIDE DEF Below
    <3>2. IsFiniteSet(Below(k))
      BY <3>1, FS_Subset
    <3> QED BY <3>2, FS_CardinalityType
  <2> QED BY <2>1
<1>2. ASSUME NEW k \in S, NEW l \in S, k <= l PROVE Cardinality(Below(k)) <= Cardinality(Below(l))
  <2>1. Below(k) \in SUBSET Below(l)
    <3>1. k \in Nat /\ l \in Nat /\ \A j \in S : j \in Nat
      OBVIOUS
    <3>2. \A j \in S : j < k => j < l
      BY <3>1, <1>2
    <3> QED BY <3>2
  <2>2. IsFiniteSet(Below(l))
    BY <1>1
  <2> HIDE DEF Below
  <2> QED BY <2>1, <2>2, FS_Subset
<1>3. \A k \in S : k \in B <=> Cardinality(Below(k)) < n
  OBVIOUS
<1> HIDE DEF Below
<1>4. \A k \in B : \A l \in S \ B : k < l
  <2>1. SUFFICES ASSUME NEW k \in B, NEW l \in S \ B, ~(k < l) PROVE FALSE
    OBVIOUS
  <2>2. k \in S /\ l <= k
    BY <2>1
  <2>3. Cardinality(Below(l)) <= Cardinality(Below(k))
    BY <1>2, <2>2
  <2> QED BY <1>1, <1>3, <2>2, <2>3
<1>5. PICK f \in S \ B : \A l \in S \ B : f <= l
  <2> DEFINE M == {0 - l : l \in S \ B}
  <2>1. IsFiniteSet(S \ B)
    BY FS_Subset, S \ B \in SUBSET S
  <2>2. IsFiniteSet(M)
    <3> DEFINE g == [l \in S \ B |-> 0 - l]
    <3>1. g \in Surjection(S \ B, M)
      BY DEF Surjection
    <3> HIDE DEF g, M
    <3> QED BY <2>1, <3>1, FS_Surjection
  <2>3. M \subseteq Int /\ M # {}
    <3>1. \A l \in S \ B : 0 - l \in Int
      OBVIOUS
    <3>2. i \in S \ B
      OBVIOUS
    <3> QED BY <3>1, <3>2
  <2>4. PICK m \in M : \A k \in M : k <= m
    <3> HIDE DEF M
    <3> QED BY <2>2, <2>3, GreatestExists
  <2>5. PICK f \in S \ B : m = 0 - f
    OBVIOUS
  <2>6. \A l \in S \ B : 0 - l <= 0 - f
    BY <2>4, <2>5
  <2>7. \A l \in S \ B : f <= l
    BY <2>6
  <2> QED BY <2>7
<1>6. B = Below(f)
  <2>1. \A j \in S : j < f => j \in B
    BY <1>5
  <2>2. \A j \in B : j \in S /\ j < f
    BY <1>4
  <2> QED BY <2>1, <2>2 DEF Below
<1>7. Cardinality(B) \in Nat /\ Cardinality(B) >= n /\ IsFiniteSet(B)
  <2>1. f \in S /\ f \notin B
    BY <1>5
  <2>2. ~(Cardinality(Below(f)) < n) /\ Cardinality(Below(f)) \in Nat /\ IsFiniteSet(Below(f))
    BY <1>1, <1>3, <2>1
  <2>3. Cardinality(Below(f)) >= n
    BY <2>2
  <2> QED BY <1>6, <2>2, <2>3
<1>8. B # {}
  <2>1. Cardinality(B) # 0
    BY <1>7
  <2> QED BY <2>1, FS_EmptySet
<1>9. PICK m \in B : \A k \in B : k <= m
  <2>1. B \subseteq Int
    <3>1. B \subseteq S
      BY <1>6 DEF Below
    <3>2. \A j \in S : j \in Int
      OBVIOUS
    <3> QED BY <3>1, <3>2
  <2> QED BY <1>7, <1>8, <2>1, GreatestExists
<1>10. B = Below(m) \cup {m} /\ m \notin Below(m) /\ m \in S
  <2>1. m \in S /\ m < f
    BY <1>4, <1>5, <1>9
  <2>2. \A j \in S : j \in B <=> j < m \/ j = m
    <3>1. \A j \in S : j \in Nat
      OBVIOUS
    <3>2. \A j \in S : j < m => j < f
      BY <2>1, <3>1
    <3>3. SUFFICES ASSUME NEW j \in S PROVE j \in B <=> j < m \/ j = m
      OBVIOUS
    <3>4. j \in Nat /\ m \in Nat
      BY <2>1, <3>1
    <3>5. j \in B => j <= m
      BY <1>9
    <3>6. j \in B <=> j < f
      BY <1>6 DEF Below
    <3> QED BY <1>9, <3>2, <3>4, <3>5, <3>6
  <2>3. Below(m) = {j \in S : j < m}
    BY DEF Below
  <2>4. ~(m < m) /\ B \subseteq S
    BY <2>1, <1>4, <1>6 DEF Below
  <2>5. m \notin Below(m)
    BY <2>3, <2>4
  <2>6. \A j : j \in B <=> j \in Below(m) \cup {m}
    BY <2>1, <2>2, <2>3, <2>4
  <2> QED BY <2>1, <2>5, <2>6
<1>11. Cardinality(B) = Cardinality(Below(m)) + 1
  <2>1. IsFiniteSet(Below(m))
    BY <1>1, <1>10
  <2> QED BY <1>10, <2>1, FS_AddElement
<1>12. Cardinality(Below(m)) < n
  BY <1>3, <1>9, <1>10
<1>13. Cardinality(B) = n
  <2>1. Cardinality(Below(m)) \in Nat
    BY <1>1, <1>10
  <2>2. \A a, b \in Nat : a >= n /\ a = b + 1 /\ b < n => a = n
    OBVIOUS
  <2> QED BY <1>7, <1>11, <1>12, <2>1, <2>2
<1> QED BY <1>4, <1>13

LEMMA BatchCovers ==
  ASSUME NEW after \in Nat, NEW through \in Nat, NEW B, B = ReflectionBatch(after, through)
  PROVE  /\ B \in SUBSET RecordIds /\ \A j \in B : j <= through
         /\ \A i \in RecordIds : Eligible(i) /\ after < i /\ i <= through /\ i \notin B =>
              Cardinality(B) = BatchSize /\ \A j \in B : j < i
<1> DEFINE S == {i \in RecordIds : Stored(i) /\ ~record[i].shared /\ after < i /\ i <= through}
<1>1. S \in SUBSET RecordIds /\ IsFiniteSet(RecordIds) /\ RecordIds \subseteq Nat
  BY RecordIdsFinite
<1>2. B = {i \in S : Cardinality({j \in S : j < i}) < BatchSize}
  BY DEF ReflectionBatch
<1>3. \A j \in S : j <= through
  OBVIOUS
<1>4. \A i \in RecordIds : Eligible(i) /\ after < i /\ i <= through => i \in S
  BY DEF Eligible
<1> HIDE DEF S
<1>5. IsFiniteSet(S) /\ S \subseteq Nat
  BY <1>1, FS_Subset
<1>6. \A i \in S : i \notin B => Cardinality(B) = BatchSize /\ \A j \in B : j < i
  <2>1. BatchSize \in Nat \ {0}
    BY PersonalAssumption
  <2>2. ASSUME NEW i \in S, i \notin B PROVE Cardinality(B) = BatchSize /\ \A j \in B : j < i
    BY <1>2, <1>5, <2>1, <2>2, FirstOnes, Zenon
  <2> QED BY <2>2
<1>7. B \subseteq S
  BY <1>2
<1> QED BY <1>1, <1>3, <1>4, <1>6, <1>7

ProcessedOf(p) ==
  IF Cardinality(p.batch) = BatchSize
  THEN CHOOSE i \in p.batch : \A j \in p.batch : j <= i
  ELSE p.top

LEMMA ProcessedIs ==
  ASSUME NEW p \in Pass
  PROVE  /\ Cardinality(p.batch) = BatchSize =>
              ProcessedOf(p) \in p.batch /\ \A j \in p.batch : j <= ProcessedOf(p)
         /\ Cardinality(p.batch) # BatchSize => ProcessedOf(p) = p.top
<1>1. IsFiniteSet(p.batch) /\ p.batch \subseteq Int
  <2>1. p.batch \in SUBSET RecordIds /\ IsFiniteSet(RecordIds) /\ RecordIds \subseteq Int
    BY RecordIdsFinite DEF Pass
  <2> QED BY <2>1, FS_Subset
<1>2. CASE Cardinality(p.batch) = BatchSize
  <2>1. p.batch # {}
    BY <1>2, FS_EmptySet, PersonalAssumption
  <2>2. \E i \in p.batch : \A j \in p.batch : j <= i
    BY <1>1, <2>1, GreatestExists
  <2> QED BY <1>2, <2>2 DEF ProcessedOf
<1> QED BY <1>2 DEF ProcessedOf

LEMMA ProcessedAgrees == \A w \in Passes : Processed(w) = ProcessedOf(pass[w])
  BY DEF Processed, ProcessedOf

LEMMA EmptyPass == NoPass \in Pass /\ NoPass.pc = "idle" /\ NoPass.top = 0
  BY PersonalAssumption DEF NoPass, Pass

-----------------------------------------------------------------------------
\* The claim and what the owner said.

LEMMA UpsertedOK ==
  ASSUME ClaimInv, NEW value \in Values, NEW user \in BOOLEAN, Upserted(value, user)
  PROVE  /\ claim' \in Claim /\ versions' \in 0..MaxVersions
         /\ claim'.value = value /\ claim'.id # 0 /\ (user => claim'.user)
<1>1. claim \in Claim /\ versions \in 0..MaxVersions /\ MaxVersions \in Nat
  BY PersonalAssumption DEF ClaimInv
<1>2. CASE claim.id # 0 /\ claim.value = value
  <2>1. claim' = [claim EXCEPT !.user = claim.user \/ user] /\ versions' = versions
    BY <1>2 DEF Upserted
  <2>2. claim.user \in BOOLEAN
    BY <1>1 DEF Claim
  <2>3. /\ claim' \in Claim /\ claim'.value = claim.value /\ claim'.id = claim.id
        /\ claim'.user = (claim.user \/ user)
    BY <1>1, <2>1, <2>2 DEF Claim
  <2> QED BY <1>1, <1>2, <2>1, <2>3
<1>3. CASE ~(claim.id # 0 /\ claim.value = value)
  <2>1. /\ versions < MaxVersions /\ versions' = versions + 1
        /\ claim' = [id |-> versions + 1, value |-> value, user |-> user]
    BY <1>3 DEF Upserted
  <2>2. versions + 1 \in 0..MaxVersions /\ versions + 1 # 0
    BY <1>1, <2>1
  <2> QED BY <2>1, <2>2 DEF Claim
<1> QED BY <1>2, <1>3

LEMMA EmptyClaim == NoClaim \in Claim /\ NoClaim.id = 0 /\ NoClaim.value = NoValue
  BY PersonalAssumption DEF NoClaim, Claim

LEMMA ClaimSteps ==
  ASSUME PersonalInv,
         \/ \E value \in Values, user \in BOOLEAN : State(value, user)
         \/ \E e \in Editors : CorrectRead(e)
         \/ \E e \in Editors, value \in Values : CorrectWrite(e, value)
         \/ DeleteClaim \/ ExpireClaim
  PROVE  ClaimInv' /\ DeletionOK' /\ UNCHANGED <<store, record, lastId, schedule, guard, pass, purged>>
<1> DEFINE Same == UNCHANGED <<store, record, lastId, schedule, guard, pass, purged>>
<1>1. ClaimInv /\ DeletionOK
  BY DEF PersonalInv
<1>2. ASSUME NEW value \in Values, NEW user \in BOOLEAN, State(value, user)
      PROVE  ClaimInv' /\ DeletionOK' /\ Same
  <2>1. /\ Upserted(value, user) /\ said' = (IF claim'.user THEN value ELSE NoValue)
        /\ UNCHANGED <<store, record, lastId, schedule, guard, pass, editor, purged>>
        /\ raced' = IF purged = "no" THEN raced ELSE raced \cup {"request"}
    BY <1>2 DEF State, Meanwhile
  <2>2. ClaimInv'
    BY <1>1, <2>1, UpsertedOK DEF ClaimInv
  <2>3. PassesGone'
    BY <1>1, <2>1 DEF DeletionOK, PassesGone
  <2>4. RecordsGone' /\ raced' \subseteq Overlaps
    BY <1>1, <2>1 DEF DeletionOK, RecordsGone, Overlaps
  <2> QED BY <2>1, <2>2, <2>3, <2>4 DEF DeletionOK
<1>3. ASSUME NEW e \in Editors, CorrectRead(e)
      PROVE  ClaimInv' /\ DeletionOK' /\ Same
  <2>1. /\ editor' = [editor EXCEPT ![e] = claim.id]
        /\ UNCHANGED <<store, record, lastId, schedule, guard, pass, claim, versions, said, purged, raced>>
    BY <1>3 DEF CorrectRead
  <2>2. claim.id \in 0..MaxVersions
    BY <1>1 DEF ClaimInv, Claim
  <2>3. ClaimInv'
    BY <1>1, <2>1, <2>2 DEF ClaimInv
  <2> QED BY <1>1, <2>1, <2>3 DEF DeletionOK, PassesGone, RecordsGone
<1>4. ASSUME NEW e \in Editors, NEW value \in Values, CorrectWrite(e, value)
      PROVE  ClaimInv' /\ DeletionOK' /\ Same
  <2>1. /\ editor[e] # 0 /\ editor' = [editor EXCEPT ![e] = 0]
        /\ UNCHANGED <<store, record, lastId, schedule, guard, pass, purged, raced>>
    BY <1>4 DEF CorrectWrite
  <2>2. editor' \in [Editors -> 0..MaxVersions]
    BY <1>1, <2>1, PersonalAssumption DEF ClaimInv
  <2>3. CASE claim.id = editor[e]
    <3>1. Upserted(value, TRUE) /\ said' = value
      BY <1>4, <2>3 DEF CorrectWrite
    <3>2. ClaimInv'
      BY <1>1, <2>2, <3>1, UpsertedOK DEF ClaimInv
    <3>3. claim # NoClaim
      BY <2>1, <2>3, EmptyClaim
    <3> QED BY <1>1, <2>1, <3>2, <3>3 DEF DeletionOK, PassesGone, RecordsGone
  <2>4. CASE claim.id # editor[e]
    <3>1. UNCHANGED <<claim, versions, said>>
      BY <1>4, <2>4 DEF CorrectWrite
    <3>2. ClaimInv'
      BY <1>1, <2>2, <3>1 DEF ClaimInv
    <3> QED BY <1>1, <2>1, <3>1, <3>2 DEF DeletionOK, PassesGone, RecordsGone
  <2> QED BY <2>3, <2>4
<1>5. ASSUME DeleteClaim \/ ExpireClaim
      PROVE  ClaimInv' /\ DeletionOK' /\ Same
  <2>1. /\ claim' = NoClaim /\ said' = NoValue
        /\ UNCHANGED <<store, record, lastId, schedule, guard, pass, versions, editor, purged, raced>>
    BY <1>5 DEF DeleteClaim, ExpireClaim, Withdrawn
  <2>2. ClaimInv'
    BY <1>1, <2>1, EmptyClaim DEF ClaimInv
  <2> QED BY <1>1, <2>1, <2>2 DEF DeletionOK, PassesGone, RecordsGone
<1> QED BY <1>2, <1>3, <1>4, <1>5

\* What a pass publishes never overrules the owner.
LEMMA PublishKeepsClaim ==
  ASSUME ClaimInv, NEW w \in Passes, NEW value \in Values \cup {NoValue}, Publish(w, value)
  PROVE  ClaimInv'
<1>1. UNCHANGED <<editor, said>>
  BY DEF Publish
<1>2. CASE value = NoValue \/ pass[w].batch = {} \/ Preserved(value)
  BY <1>1, <1>2 DEF Publish, ClaimInv
<1>3. CASE ~(value = NoValue \/ pass[w].batch = {} \/ Preserved(value))
  <2>1. value \in Values /\ Upserted(value, FALSE) /\ ~claim.user
    BY <1>3 DEF Publish, Preserved
  <2>2. said = NoValue
    BY <2>1 DEF ClaimInv
  <2>3. claim' \in Claim /\ versions' \in 0..MaxVersions
    BY <2>1, UpsertedOK
  <2> QED BY <1>1, <2>2, <2>3 DEF ClaimInv
<1> QED BY <1>2, <1>3

LEMMA RecordsStay ==
  ASSUME RecordsOK, PassesOK, EvidenceReflected,
         UNCHANGED <<store, record, lastId, schedule, guard, pass, purged>>
  PROVE  RecordsOK' /\ PassesOK' /\ EvidenceReflected'
  BY DEF RecordsOK, PassesOK, PassOK, Working, Processed, Eligible, Stored, Missed, EvidenceReflected

\* A step of one pass that leaves the records and the watermark alone.
LEMMA PassMoves ==
  ASSUME RecordsOK, PassesOK, EvidenceReflected,
         UNCHANGED <<store, record, lastId, purged>>,
         schedule' \in [watermark: 0..MaxRecords, recent: BOOLEAN],
         schedule'.watermark = schedule.watermark,
         NEW w \in Passes, NEW p \in Pass, pass' = [pass EXCEPT ![w] = p],
         guard' \in Passes \cup {NoGuard},
         \A v \in Passes \ {w} : Working(v) => guard' = v,
         p.top <= lastId,
         p.pc \in {"model", "record"} =>
           /\ guard' = w /\ ProcessedOf(p) \in 0..p.top
           /\ purged = "no" =>
                \A i \in RecordIds :
                  Eligible(i) /\ schedule.watermark < i /\ i <= ProcessedOf(p) => i \in p.batch \/ Missed(i)
  PROVE  RecordsOK' /\ PassesOK' /\ EvidenceReflected'
<1>1. pass \in [Passes -> Pass]
  BY DEF PassesOK
<1>2. pass'[w] = p /\ (\A v \in Passes \ {w} : pass'[v] = pass[v]) /\ pass' \in [Passes -> Pass]
  BY <1>1
<1>3. Processed(w)' = ProcessedOf(p)
  BY <1>2 DEF Processed, ProcessedOf
<1>4. \A v \in Passes \ {w} : Processed(v)' = Processed(v)
  BY <1>2 DEF Processed
<1>5. \A i \in RecordIds : Eligible(i)' = Eligible(i) /\ Missed(i)' = Missed(i)
  BY DEF Eligible, Stored, Missed
<1>6. PassOK(w)'
  BY <1>2, <1>3, <1>5 DEF PassOK, Working
<1>7. ASSUME NEW v \in Passes \ {w} PROVE PassOK(v)'
  <2>1. PassOK(v)
    BY DEF PassesOK
  <2>2. Working(v)' = Working(v) /\ (Working(v) => guard' = v)
    BY <1>2 DEF Working
  <2> QED BY <1>2, <1>4, <1>5, <2>1, <2>2 DEF PassOK
<1>8. PassesOK'
  BY <1>2, <1>6, <1>7 DEF PassesOK
<1>9. RecordsOK'
  BY DEF RecordsOK
<1>10. EvidenceReflected'
  BY DEF EvidenceReflected, Stored
<1> QED BY <1>8, <1>9, <1>10

-----------------------------------------------------------------------------
\* The records.

LEMMA IngestKeeps ==
  ASSUME RecordsOK, PassesOK, EvidenceReflected, NEW shared \in BOOLEAN,
         IngestSqlite(shared) \/ IngestPostgres(shared)
  PROVE  RecordsOK' /\ PassesOK' /\ EvidenceReflected'
         /\ UNCHANGED <<schedule, pass, claim, versions, editor, said, purged>>
         /\ \A i \in RecordIds : record'[i].state \in {record[i].state, "stored", "open"}
<1> DEFINE n == lastId + 1
           s == IF store = "sqlite" THEN "stored" ELSE "open"
           u == [record[n] EXCEPT !.state = s]
           r == [u EXCEPT !.shared = shared]
<1>1. /\ lastId < MaxRecords /\ lastId' = n
      /\ UNCHANGED <<store, schedule, guard, pass, claim, versions, editor, said, purged>>
  BY DEF IngestSqlite, IngestPostgres
<1>2. record' = [record EXCEPT ![n].state = s, ![n].shared = shared]
  BY DEF IngestSqlite, IngestPostgres
<1>3. /\ record \in [RecordIds -> RecordRow] /\ lastId \in Nat /\ n \in RecordIds /\ n \in 0..MaxRecords
      /\ MaxRecords \in Nat
  BY <1>1, PersonalAssumption DEF RecordsOK, RecordIds
<1>4. record' = [record EXCEPT ![n] = r]
  BY <1>2, <1>3 DEF RecordRow
<1>5. s \in {"stored", "open"} /\ (s = "open" => store = "postgres")
  BY DEF RecordsOK
<1>6. u \in RecordRow
  BY <1>3, <1>5 DEF RecordRow
<1> HIDE DEF u, s
<1>7. r \in RecordRow /\ r.state = u.state
  BY <1>6 DEF RecordRow
<1>8. r.state = s
  BY <1>3, <1>7 DEF u, RecordRow
<1> HIDE DEF r
<1>9. /\ record'[n] = r /\ (\A i \in RecordIds \ {n} : record'[i] = record[i])
      /\ record' \in [RecordIds -> RecordRow]
  BY <1>3, <1>4, <1>7
<1>10. /\ schedule.watermark \in Nat /\ schedule.watermark <= lastId
       /\ \A i \in RecordIds : record[i].state # "none" => i <= lastId
  BY PersonalAssumption DEF RecordsOK
<1>11. RecordsOK'
  <2>1. \A i \in RecordIds : /\ record'[i].state # "none" => i <= lastId'
                             /\ record'[i].state = "open" => store' = "postgres"
    <3>1. \A i \in RecordIds : i <= lastId => i <= n
      BY <1>3 DEF RecordIds
    <3>2. \A i \in RecordIds : record[i].state = "open" => store = "postgres"
      BY DEF RecordsOK
    <3>3. n <= n
      BY <1>3
    <3> HIDE DEF n
    <3> QED BY <1>1, <1>5, <1>8, <1>9, <1>10, <3>1, <3>2, <3>3
  <2>2. schedule'.watermark <= lastId' /\ lastId' \in 0..MaxRecords
    BY <1>1, <1>3, <1>10
  <2> QED BY <1>1, <1>9, <2>1, <2>2 DEF RecordsOK
<1>12. \A i \in RecordIds \ {n} : Eligible(i)' = Eligible(i) /\ Missed(i)' = Missed(i)
  BY <1>1, <1>9 DEF Eligible, Stored, Missed
<1>13. ASSUME NEW w \in Passes PROVE PassOK(w)'
  <2>1. PassOK(w) /\ pass[w] \in Pass
    BY DEF PassesOK
  <2>2. pass[w].top \in Nat /\ pass[w].top <= lastId
    BY <1>3, <2>1 DEF PassOK, Pass
  <2>3. pass'[w].top <= lastId'
    BY <1>1, <1>3, <2>2
  <2>4. Processed(w)' = Processed(w) /\ Working(w)' = Working(w)
    BY <1>1 DEF Processed, Working
  <2>5. ASSUME Working(w) PROVE ~(n <= Processed(w))
    BY <1>3, <2>1, <2>2, <2>5 DEF PassOK
  <2>6. Working(w) /\ purged = "no" => \A i \in RecordIds :
          Eligible(i)' /\ schedule'.watermark < i /\ i <= Processed(w) => i \in pass'[w].batch \/ Missed(i)'
    <3>1. SUFFICES ASSUME Working(w), purged = "no", NEW i \in RecordIds, Eligible(i)', schedule.watermark < i,
                          i <= Processed(w)
                   PROVE  i \in pass[w].batch \/ Missed(i)'
      BY <1>1
    <3>2. i # n
      BY <2>5, <3>1
    <3> QED BY <1>1, <1>12, <2>1, <3>1, <3>2 DEF PassOK
  <2> QED BY <1>1, <2>1, <2>3, <2>4, <2>6 DEF PassOK
<1>14. PassesOK'
  BY <1>1, <1>13 DEF PassesOK
<1>15. EvidenceReflected'
  <2>1. ~(n <= schedule.watermark)
    BY <1>3, <1>10
  <2> QED BY <1>1, <1>9, <2>1 DEF EvidenceReflected, Stored
<1>16. \A i \in RecordIds : record'[i].state \in {record[i].state, "stored", "open"}
  BY <1>5, <1>8, <1>9
<1> QED BY <1>1, <1>11, <1>14, <1>15, <1>16

\* A record that becomes visible below a watermark or a snapshot is late.
LEMMA CommitRecordKeeps ==
  ASSUME RecordsOK, PassesOK, EvidenceReflected, NEW n \in RecordIds, CommitRecord(n)
  PROVE  RecordsOK' /\ PassesOK' /\ EvidenceReflected' /\ record[n].state = "open"
         /\ UNCHANGED <<schedule, pass, claim, versions, editor, said, purged, raced>>
         /\ \A i \in RecordIds : record'[i].state \in {record[i].state, "stored"}
<1> DEFINE l == schedule.watermark >= n \/ \E w \in Passes : pass[w].top >= n
           u == [record[n] EXCEPT !.state = "stored"]
           r == [u EXCEPT !.late = l]
<1>1. /\ record[n].state = "open"
      /\ record' = [record EXCEPT ![n].state = "stored", ![n].late = l]
      /\ UNCHANGED <<store, lastId, schedule, guard, pass, claim, versions, editor, said, purged, raced>>
  BY DEF CommitRecord
<1>2. record \in [RecordIds -> RecordRow] /\ store = "postgres"
  BY <1>1 DEF RecordsOK
<1>3. record' = [record EXCEPT ![n] = r]
  BY <1>1, <1>2 DEF RecordRow
<1>4. u \in RecordRow /\ u.state = "stored"
  BY <1>2 DEF RecordRow
<1>5. l \in BOOLEAN
  OBVIOUS
<1>6. (\E w \in Passes : pass[w].top >= n) \/ schedule.watermark >= n => l = TRUE
  OBVIOUS
<1> HIDE DEF u, l
<1>7. r \in RecordRow /\ r.state = "stored" /\ r.late = l
  BY <1>4, <1>5 DEF RecordRow
<1> HIDE DEF r
<1>8. /\ record'[n] = r /\ (\A i \in RecordIds \ {n} : record'[i] = record[i])
      /\ record' \in [RecordIds -> RecordRow]
  BY <1>2, <1>3, <1>7
<1>9. RecordsOK'
  BY <1>1, <1>7, <1>8 DEF RecordsOK
<1>10. \A i \in RecordIds \ {n} : Eligible(i)' = Eligible(i) /\ Missed(i)' = Missed(i)
  BY <1>1, <1>8 DEF Eligible, Stored, Missed
<1>11. l => Missed(n)'
  BY <1>1, <1>2, <1>7, <1>8 DEF Missed
<1>12. ASSUME NEW w \in Passes PROVE PassOK(w)'
  <2>1. PassOK(w) /\ pass[w] \in Pass
    BY DEF PassesOK
  <2>2. Processed(w)' = Processed(w) /\ Working(w)' = Working(w)
    BY <1>1 DEF Processed, Working
  <2>3. ASSUME Working(w), n <= Processed(w) PROVE Missed(n)'
    <3>1. pass[w].top \in Nat /\ Processed(w) \in 0..pass[w].top /\ n \in Nat
      BY <2>1, <2>3, RecordIdsFinite DEF PassOK, Pass
    <3>2. pass[w].top >= n
      BY <2>3, <3>1
    <3> QED BY <1>6, <1>11, <3>2
  <2>4. Working(w) /\ purged = "no" => \A i \in RecordIds :
          Eligible(i)' /\ schedule'.watermark < i /\ i <= Processed(w) => i \in pass'[w].batch \/ Missed(i)'
    BY <1>1, <1>10, <2>1, <2>3 DEF PassOK
  <2> QED BY <1>1, <2>1, <2>2, <2>4 DEF PassOK
<1>13. PassesOK'
  BY <1>1, <1>12 DEF PassesOK
<1>14. EvidenceReflected'
  <2>1. n <= schedule.watermark => Missed(n)'
    <3>1. schedule.watermark \in Nat /\ n \in Nat
      BY RecordIdsFinite DEF RecordsOK
    <3> QED BY <1>6, <1>11, <3>1
  <2> QED BY <1>1, <1>8, <2>1 DEF EvidenceReflected, Stored, Missed
<1>15. \A i \in RecordIds : record'[i].state \in {record[i].state, "stored"}
  BY <1>7, <1>8
<1> QED BY <1>1, <1>9, <1>13, <1>14, <1>15

-----------------------------------------------------------------------------
\* The passes.

LEMMA SnapshotKeeps ==
  ASSUME RecordsOK, PassesOK, EvidenceReflected, NEW w \in Passes, Snapshot(w)
  PROVE  RecordsOK' /\ PassesOK' /\ EvidenceReflected'
<1> DEFINE p == [pc |-> "due", top |-> TopRecord, batch |-> {}]
<1>1. /\ pass' = [pass EXCEPT ![w] = p] /\ pass[w].pc = "idle"
      /\ UNCHANGED <<store, record, lastId, schedule, guard, purged>>
  BY DEF Snapshot
<1>2. TopRecord \in 0..lastId /\ lastId \in 0..MaxRecords
  BY TopRecordIs DEF RecordsOK
<1>3. TopRecord \in 0..MaxRecords /\ TopRecord <= lastId
  BY <1>2, PersonalAssumption
<1>4. p \in Pass /\ p.pc = "due" /\ p.top <= lastId
  BY <1>3 DEF Pass
<1>5. \A v \in Passes : Working(v) => guard = v
  BY DEF PassesOK, PassOK
<1>6. guard \in Passes \cup {NoGuard} /\ schedule \in [watermark: 0..MaxRecords, recent: BOOLEAN]
  BY DEF PassesOK, RecordsOK
<1> HIDE DEF p
<1> QED BY <1>1, <1>4, <1>5, <1>6, PassMoves

LEMMA EndsKeep ==
  ASSUME RecordsOK, PassesOK, EvidenceReflected, NEW w \in Passes,
         UNCHANGED <<store, record, lastId, purged>>,
         pass' = [pass EXCEPT ![w] = NoPass],
         guard' \in {guard, NoGuard}, guard' # guard => guard = w,
         schedule' \in [watermark: 0..MaxRecords, recent: BOOLEAN],
         schedule'.watermark = schedule.watermark
  PROVE  RecordsOK' /\ PassesOK' /\ EvidenceReflected'
<1>1. \A v \in Passes \ {w} : Working(v) => guard' = v
  BY DEF PassesOK, PassOK
<1>2. guard' \in Passes \cup {NoGuard}
  BY DEF PassesOK
<1>3. NoPass.top <= lastId
  BY EmptyPass DEF RecordsOK
<1> QED BY <1>1, <1>2, <1>3, EmptyPass, PassMoves

LEMMA ReflectNowKeeps ==
  ASSUME RecordsOK, PassesOK, EvidenceReflected, NEW w \in Passes, ReflectNow(w)
  PROVE  RecordsOK' /\ PassesOK' /\ EvidenceReflected'
<1> DEFINE u == [pass[w] EXCEPT !.pc = "manual"]
           p == [u EXCEPT !.batch = {i \in RecordIds : Stored(i) /\ ~record[i].shared}]
<1>1. UNCHANGED <<store, record, lastId, schedule, guard, purged>>
  BY DEF ReflectNow
<1>2. pass \in [Passes -> Pass] /\ pass[w].top <= lastId
  BY DEF PassesOK, PassOK
<1>3. pass' = [pass EXCEPT ![w] = p]
  BY <1>2 DEF ReflectNow, Pass
<1>4. u \in Pass /\ u.pc = "manual" /\ u.top = pass[w].top
  BY <1>2 DEF Pass
<1> HIDE DEF u
<1>5. p \in Pass /\ p.pc = "manual" /\ p.top = pass[w].top
  BY <1>4 DEF Pass
<1>6. \A v \in Passes : Working(v) => guard = v
  BY DEF PassesOK, PassOK
<1>7. guard \in Passes \cup {NoGuard} /\ schedule \in [watermark: 0..MaxRecords, recent: BOOLEAN]
  BY DEF PassesOK, RecordsOK
<1> HIDE DEF p
<1> QED BY <1>1, <1>2, <1>3, <1>5, <1>6, <1>7, PassMoves

\* The pass that gets the guard reads the watermark nobody else will move.
LEMMA ClaimOwnerKeeps ==
  ASSUME RecordsOK, PassesOK, EvidenceReflected, NEW w \in Passes, ClaimOwner(w)
  PROVE  RecordsOK' /\ PassesOK' /\ EvidenceReflected'
<1>1. UNCHANGED <<store, record, lastId, schedule, purged>>
  BY DEF ClaimOwner
<1>2. /\ pass \in [Passes -> Pass] /\ PassOK(w) /\ guard \in Passes \cup {NoGuard}
      /\ schedule \in [watermark: 0..MaxRecords, recent: BOOLEAN]
  BY DEF PassesOK, RecordsOK
<1>3. CASE ~(guard = NoGuard /\ Due(pass[w].top))
  <2>1. pass' = [pass EXCEPT ![w] = NoPass] /\ guard' = guard
    BY <1>3 DEF ClaimOwner
  <2>2. schedule' = schedule
    BY <1>1
  <2> QED BY <1>1, <1>2, <2>1, <2>2, EndsKeep
<1>4. CASE guard = NoGuard /\ Due(pass[w].top)
  <2> DEFINE t == pass[w].top
             B == ReflectionBatch(schedule.watermark, t)
             u == [pass[w] EXCEPT !.pc = "model"]
             p == [u EXCEPT !.batch = B]
  <2>1. pass' = [pass EXCEPT ![w] = p] /\ guard' = w
    BY <1>2, <1>4 DEF ClaimOwner, Pass
  <2>2. schedule.watermark \in Nat /\ t \in Nat /\ t <= lastId
    BY <1>2 DEF Pass, PassOK
  <2>3. /\ B \in SUBSET RecordIds /\ \A j \in B : j <= t
        /\ \A i \in RecordIds : Eligible(i) /\ schedule.watermark < i /\ i <= t /\ i \notin B =>
             Cardinality(B) = BatchSize /\ \A j \in B : j < i
    BY <2>2, BatchCovers
  <2>4. u \in Pass /\ u.pc = "model" /\ u.top = t
    BY <1>2 DEF Pass
  <2> HIDE DEF u, B
  <2>5. p \in Pass /\ p.pc = "model" /\ p.top = t /\ p.batch = B
    BY <2>3, <2>4 DEF Pass
  <2> HIDE DEF p, t
  <2>6. /\ Cardinality(B) = BatchSize => ProcessedOf(p) \in B /\ \A j \in B : j <= ProcessedOf(p)
        /\ Cardinality(B) # BatchSize => ProcessedOf(p) = t
    BY <2>5, ProcessedIs
  <2>7. ProcessedOf(p) \in 0..p.top
    <3>1. CASE Cardinality(B) = BatchSize
      <4>1. ProcessedOf(p) \in Nat /\ ProcessedOf(p) <= t
        BY <2>3, <2>6, <3>1, RecordIdsFinite
      <4> QED BY <2>2, <2>5, <4>1
    <3>2. CASE Cardinality(B) # BatchSize
      BY <2>2, <2>5, <2>6, <3>2
    <3> QED BY <3>1, <3>2
  <2>8. ASSUME NEW i \in RecordIds, Eligible(i), schedule.watermark < i, i <= ProcessedOf(p)
        PROVE  i \in B
    <3>1. i \in Nat /\ ProcessedOf(p) \in Nat /\ i <= t
      BY <2>2, <2>5, <2>7, <2>8, RecordIdsFinite
    <3>2. SUFFICES ASSUME i \notin B PROVE FALSE
      OBVIOUS
    <3>3. Cardinality(B) = BatchSize /\ \A j \in B : j < i
      BY <2>3, <2>8, <3>1, <3>2
    <3>4. ProcessedOf(p) < i
      BY <2>6, <3>3
    <3> QED BY <2>8, <3>1, <3>4
  <2>9. \A v \in Passes \ {w} : ~Working(v)
    <3>1. NoGuard \notin Passes
      BY PersonalAssumption DEF NoGuard
    <3> QED BY <1>4, <3>1 DEF PassesOK, PassOK
  <2> QED BY <1>1, <1>2, <2>1, <2>2, <2>5, <2>7, <2>8, <2>9, PassMoves
<1> QED BY <1>3, <1>4

LEMMA PublishKeeps ==
  ASSUME RecordsOK, PassesOK, EvidenceReflected, NEW w \in Passes,
         NEW value \in Values \cup {NoValue}, Publish(w, value)
  PROVE  RecordsOK' /\ PassesOK' /\ EvidenceReflected' /\ pass[w].pc # "idle"
         /\ UNCHANGED <<store, record, lastId, schedule, guard, purged, editor, said, raced>>
<1>1. /\ pass[w].pc \in {"model", "manual"}
      /\ pass' = [pass EXCEPT ![w] = IF @.pc = "model" THEN [@ EXCEPT !.pc = "record"] ELSE NoPass]
      /\ UNCHANGED <<store, record, lastId, schedule, guard, editor, said, purged, raced>>
  BY DEF Publish
<1>2. /\ pass \in [Passes -> Pass] /\ PassOK(w) /\ guard \in Passes \cup {NoGuard}
      /\ schedule \in [watermark: 0..MaxRecords, recent: BOOLEAN]
      /\ \A v \in Passes : Working(v) => guard = v
  BY DEF PassesOK, RecordsOK, PassOK
<1>3. CASE pass[w].pc = "model"
  <2> DEFINE p == [pass[w] EXCEPT !.pc = "record"]
  <2>1. pass' = [pass EXCEPT ![w] = p]
    BY <1>1, <1>2, <1>3
  <2>2. p \in Pass /\ p.pc = "record" /\ p.top = pass[w].top /\ p.batch = pass[w].batch
    BY <1>2 DEF Pass
  <2> HIDE DEF p
  <2>3. ProcessedOf(p) = Processed(w)
    BY <2>2 DEF ProcessedOf, Processed
  <2>4. /\ Working(w) /\ p.top <= lastId /\ guard' = w /\ ProcessedOf(p) \in 0..p.top
        /\ purged = "no" =>
             \A i \in RecordIds :
               Eligible(i) /\ schedule.watermark < i /\ i <= ProcessedOf(p) => i \in p.batch \/ Missed(i)
    BY <1>1, <1>2, <1>3, <2>2, <2>3 DEF Working, PassOK
  <2>5. schedule' = schedule /\ guard' = guard
    BY <1>1
  <2> QED BY <1>1, <1>2, <2>1, <2>2, <2>4, <2>5, PassMoves
<1>4. CASE pass[w].pc # "model"
  <2>1. pass' = [pass EXCEPT ![w] = NoPass]
    BY <1>1, <1>2, <1>4
  <2>2. schedule' = schedule /\ guard' = guard
    BY <1>1
  <2> QED BY <1>1, <1>2, <2>1, <2>2, EndsKeep
<1> QED BY <1>1, <1>3, <1>4

\* The watermark moves to the end of a batch that is complete up to there.
LEMMA RecordPassKeeps ==
  ASSUME RecordsOK, PassesOK, EvidenceReflected, NEW w \in Passes, RecordPass(w)
  PROVE  RecordsOK' /\ PassesOK' /\ EvidenceReflected' /\ pass[w].pc # "idle"
         /\ UNCHANGED <<store, lastId, claim, versions, editor, said, purged, raced>>
         /\ \A i \in RecordIds : record'[i].state = record[i].state
<1> DEFINE m == IF Processed(w) > schedule.watermark THEN Processed(w) ELSE schedule.watermark
<1>1. /\ pass[w].pc = "record" /\ schedule' = [watermark |-> m, recent |-> TRUE]
      /\ record' = [i \in RecordIds |-> IF i \in pass[w].batch
                                        THEN [record[i] EXCEPT !.reflected = TRUE] ELSE record[i]]
      /\ pass' = [pass EXCEPT ![w] = NoPass] /\ guard' = NoGuard
      /\ UNCHANGED <<store, lastId, claim, versions, editor, said, purged, raced>>
  BY DEF RecordPass, EndPass
<1>2. /\ pass \in [Passes -> Pass] /\ record \in [RecordIds -> RecordRow] /\ PassOK(w) /\ Working(w)
      /\ schedule \in [watermark: 0..MaxRecords, recent: BOOLEAN] /\ schedule.watermark <= lastId
      /\ lastId \in 0..MaxRecords
  BY <1>1 DEF PassesOK, RecordsOK, Working
<1>3. Processed(w) \in 0..pass[w].top /\ pass[w].top <= lastId /\ pass[w].top \in Nat
  BY <1>2 DEF PassOK, Pass
<1>4. Processed(w) \in 0..lastId /\ lastId \in Nat /\ schedule.watermark \in Nat
  BY <1>2, <1>3, PersonalAssumption
<1>5. m \in 0..MaxRecords /\ m <= lastId
  BY <1>2, <1>4, PersonalAssumption
<1>6. \A i \in RecordIds : i <= m => i <= schedule.watermark \/ (schedule.watermark < i /\ i <= Processed(w))
  BY <1>4, RecordIdsFinite
<1> HIDE DEF m
<1>7. ASSUME NEW i \in RecordIds
      PROVE  /\ record'[i] \in RecordRow /\ record'[i].state = record[i].state
             /\ record'[i].shared = record[i].shared /\ record'[i].late = record[i].late
             /\ record[i].reflected \/ i \in pass[w].batch => record'[i].reflected
  <2>1. record[i] \in RecordRow
    BY <1>2
  <2>2. CASE i \in pass[w].batch
    <3>1. record'[i] = [record[i] EXCEPT !.reflected = TRUE]
      BY <1>1, <2>2
    <3> QED BY <2>1, <3>1 DEF RecordRow
  <2>3. CASE i \notin pass[w].batch
    <3>1. record'[i] = record[i]
      BY <1>1, <2>3
    <3> QED BY <2>1, <2>3, <3>1
  <2> QED BY <2>2, <2>3
<1>8. RecordsOK'
  <2>1. record' \in [RecordIds -> RecordRow]
    BY <1>1, <1>7
  <2> QED BY <1>1, <1>5, <1>7, <2>1 DEF RecordsOK
<1>9. pass'[w] = NoPass /\ (\A v \in Passes \ {w} : pass'[v] = pass[v]) /\ pass' \in [Passes -> Pass]
  BY <1>1, <1>2, EmptyPass
<1>10. ASSUME NEW v \in Passes PROVE PassOK(v)'
  <2>1. CASE v = w
    BY <1>1, <1>4, <1>9, <2>1, EmptyPass DEF PassOK, Working
  <2>2. CASE v # w
    <3>1. ~Working(v)
      BY <1>2, <2>2 DEF PassesOK, PassOK
    <3>2. ~Working(v)' /\ pass[v].top <= lastId
      BY <1>9, <2>2, <3>1 DEF Working, PassesOK, PassOK
    <3> QED BY <1>1, <1>9, <2>2, <3>2 DEF PassOK
  <2> QED BY <2>1, <2>2
<1>11. PassesOK'
  BY <1>1, <1>9, <1>10 DEF PassesOK
<1>12. EvidenceReflected'
  <2>1. SUFFICES ASSUME NEW i \in RecordIds, Stored(i)', ~record'[i].shared,
                        i <= schedule'.watermark, purged' = "no"
                 PROVE  record'[i].reflected \/ (record'[i].late /\ store' = "postgres")
    BY DEF EvidenceReflected
  <2>2. Stored(i) /\ ~record[i].shared /\ Eligible(i) /\ purged = "no" /\ i <= m
    BY <1>1, <1>7, <2>1 DEF Stored, Eligible
  <2>3. CASE i <= schedule.watermark
    BY <1>1, <1>7, <2>2, <2>3 DEF EvidenceReflected
  <2>4. CASE schedule.watermark < i /\ i <= Processed(w)
    <3>1. i \in pass[w].batch \/ Missed(i)
      BY <1>2, <2>2, <2>4 DEF PassOK
    <3> QED BY <1>1, <1>7, <3>1 DEF Missed
  <2> QED BY <1>6, <2>2, <2>3, <2>4
<1> QED BY <1>1, <1>7, <1>8, <1>11, <1>12

-----------------------------------------------------------------------------
LEMMA IntervalKeeps ==
  ASSUME RecordsOK, PassesOK, EvidenceReflected, IntervalPasses
  PROVE  RecordsOK' /\ PassesOK' /\ EvidenceReflected'
<1>1. /\ schedule' = [schedule EXCEPT !.recent = FALSE]
      /\ UNCHANGED <<store, record, lastId, guard, pass, purged>>
  BY DEF IntervalPasses
<1>2. /\ schedule' \in [watermark: 0..MaxRecords, recent: BOOLEAN]
      /\ schedule'.watermark = schedule.watermark
  BY <1>1 DEF RecordsOK
<1>3. RecordsOK'
  BY <1>1, <1>2 DEF RecordsOK
<1>4. PassesOK'
  BY <1>1, <1>2 DEF PassesOK, PassOK, Working, Processed, Eligible, Stored, Missed
<1>5. EvidenceReflected'
  BY <1>1, <1>2 DEF EvidenceReflected, Stored
<1> QED BY <1>3, <1>4, <1>5

-----------------------------------------------------------------------------
\* The steps of a deletion.

\* A step of a deletion takes records away and leaves the passes as they are.
LEMMA PurgedStay ==
  ASSUME RecordsOK, PassesOK,
         purged' \in {"claims", "sources", "records", "done"},
         UNCHANGED <<store, lastId, guard, pass>>,
         record' \in [RecordIds -> RecordRow],
         \A i \in RecordIds : /\ record'[i].state # "none" => record[i].state # "none"
                              /\ record'[i].state = "open" => record[i].state = "open",
         schedule' \in [watermark: 0..MaxRecords, recent: BOOLEAN], schedule'.watermark <= lastId
  PROVE  RecordsOK' /\ PassesOK' /\ EvidenceReflected'
<1>1. RecordsOK'
  BY DEF RecordsOK
<1>2. ASSUME NEW w \in Passes PROVE PassOK(w)'
  <2>1. PassOK(w)
    BY DEF PassesOK
  <2>2. Processed(w)' = Processed(w) /\ Working(w)' = Working(w)
    BY DEF Processed, Working
  <2> QED BY <2>1, <2>2 DEF PassOK
<1>3. PassesOK'
  BY <1>2 DEF PassesOK
<1>4. EvidenceReflected'
  BY DEF EvidenceReflected
<1> QED BY <1>1, <1>3, <1>4

LEMMA PurgeClaimsKeeps ==
  ASSUME PersonalInv, PurgeClaims
  PROVE  PersonalInv'
<1>1. /\ purged = "no" /\ purged' = "claims" /\ claim' = NoClaim /\ said' = NoValue
      /\ raced' = (IF \E w \in Passes : pass[w].pc # "idle" THEN {"pass"} ELSE {})
      /\ UNCHANGED <<store, record, lastId, schedule, guard, pass, versions, editor>>
  BY DEF PurgeClaims
<1>2. ClaimInv /\ RecordsOK /\ PassesOK /\ DeletionOK
  BY DEF PersonalInv
<1>3. ClaimInv'
  BY <1>1, <1>2, EmptyClaim DEF ClaimInv
<1>4. RecordsOK' /\ PassesOK' /\ EvidenceReflected'
  <2>1. /\ record' \in [RecordIds -> RecordRow] /\ schedule'.watermark <= lastId
        /\ schedule' \in [watermark: 0..MaxRecords, recent: BOOLEAN]
    BY <1>1, <1>2 DEF RecordsOK
  <2> QED BY <1>1, <1>2, <2>1, PurgedStay
<1>5. PassesGone'
  BY <1>1 DEF PassesGone
<1>6. RecordsGone' /\ raced' \subseteq Overlaps
  BY <1>1, <1>2 DEF DeletionOK, RecordsGone, Overlaps
<1> QED BY <1>3, <1>4, <1>5, <1>6 DEF PersonalInv, DeletionOK

LEMMA RecordsInAre ==
  ASSUME record \in [RecordIds -> RecordRow], NEW from, from # "none", NEW to \in {"none", "doomed"},
         record' = RecordsIn(from, to)
  PROVE  /\ record' \in [RecordIds -> RecordRow]
         /\ \A i \in RecordIds : record'[i].state = IF record[i].state = from THEN to ELSE record[i].state
<1>1. ASSUME NEW i \in RecordIds
      PROVE  /\ record'[i] \in RecordRow
             /\ record'[i].state = IF record[i].state = from THEN to ELSE record[i].state
  <2>1. CASE record[i].state = from
    <3>1. record'[i] = [record[i] EXCEPT !.state = to]
      BY <2>1 DEF RecordsIn
    <3> QED BY <2>1, <3>1 DEF RecordRow
  <2>2. CASE record[i].state # from
    <3>1. record'[i] = record[i]
      BY <2>2 DEF RecordsIn
    <3> QED BY <2>2, <3>1
  <2> QED BY <2>1, <2>2
<1>2. record' \in [RecordIds -> RecordRow]
  BY <1>1 DEF RecordsIn
<1> QED BY <1>1, <1>2

LEMMA PurgeRecordsKeeps ==
  ASSUME PersonalInv, PurgeRecords \/ PurgeSources
  PROVE  PersonalInv'
<1>1. /\ purged \in {"claims", "sources"} /\ purged' \in {"sources", "records"}
      /\ UNCHANGED <<store, lastId, schedule, guard, pass, claim, versions, editor, said>>
  BY DEF PurgeRecords, PurgeSources
<1>2. ClaimInv /\ RecordsOK /\ PassesOK /\ DeletionOK
  BY DEF PersonalInv
<1>3. raced' = raced \cup (IF \E i \in RecordIds : record[i].state = "open" THEN {"insert"} ELSE {})
  BY DEF PurgeRecords, PurgeSources
<1>4. \/ purged = "claims" /\ store = "sqlite" /\ purged' = "records" /\ record' = RecordsIn("stored", "none")
      \/ purged = "claims" /\ purged' = "sources" /\ record' = RecordsIn("stored", "doomed")
      \/ /\ purged = "sources" /\ purged' = "records" /\ record' = RecordsIn("doomed", "none")
         /\ \A i \in RecordIds : record[i].state # "open"
  BY DEF PurgeRecords, PurgeSources
<1>5. record \in [RecordIds -> RecordRow] /\ (\A i \in RecordIds : record[i].state = "open" => store = "postgres")
  BY <1>2 DEF RecordsOK
<1>6. \A i \in RecordIds : record[i].state \in {"none", "open", "stored", "doomed"}
  BY <1>5 DEF RecordRow
<1>7. RecordsGone
  BY <1>2 DEF DeletionOK
<1>8. record' \in [RecordIds -> RecordRow]
  BY <1>4, <1>5, RecordsInAre
<1>9. ClaimInv'
  BY <1>1, <1>2 DEF ClaimInv
<1>10. /\ schedule'.watermark <= lastId
       /\ schedule' \in [watermark: 0..MaxRecords, recent: BOOLEAN]
  BY <1>1, <1>2 DEF RecordsOK
<1>11. PassesGone' /\ raced' \subseteq Overlaps
  <2>1. PassesGone /\ raced \subseteq Overlaps
    BY <1>2 DEF DeletionOK
  <2> QED BY <1>1, <1>3, <2>1 DEF PassesGone, Overlaps
<1>12. CASE purged = "claims" /\ store = "sqlite" /\ purged' = "records" /\ record' = RecordsIn("stored", "none")
  <2>1. \A i \in RecordIds : record'[i].state = IF record[i].state = "stored" THEN "none" ELSE record[i].state
    BY <1>5, <1>12, RecordsInAre
  <2>2. \A i \in RecordIds : record'[i].state = "none"
    BY <1>5, <1>6, <1>7, <1>12, <2>1 DEF RecordsGone
  <2>3. RecordsGone'
    BY <1>12, <2>2 DEF RecordsGone
  <2>4. RecordsOK' /\ PassesOK' /\ EvidenceReflected'
    BY <1>1, <1>2, <1>8, <1>10, <2>2, PurgedStay
  <2> QED BY <1>9, <1>11, <2>3, <2>4 DEF PersonalInv, DeletionOK
<1>13. CASE purged = "claims" /\ purged' = "sources" /\ record' = RecordsIn("stored", "doomed")
  <2>1. \A i \in RecordIds : record'[i].state = IF record[i].state = "stored" THEN "doomed" ELSE record[i].state
    BY <1>5, <1>13, RecordsInAre
  <2>2. RecordsGone'
    BY <1>3, <1>6, <1>13, <2>1 DEF RecordsGone
  <2>3. RecordsOK' /\ PassesOK' /\ EvidenceReflected'
    BY <1>1, <1>2, <1>8, <1>10, <2>1, PurgedStay
  <2> QED BY <1>9, <1>11, <2>2, <2>3 DEF PersonalInv, DeletionOK
<1>14. CASE /\ purged = "sources" /\ purged' = "records" /\ record' = RecordsIn("doomed", "none")
            /\ \A i \in RecordIds : record[i].state # "open"
  <2>1. \A i \in RecordIds : record'[i].state = IF record[i].state = "doomed" THEN "none" ELSE record[i].state
    BY <1>5, <1>14, RecordsInAre
  <2>2. RecordsGone'
    BY <1>3, <1>6, <1>7, <1>14, <2>1 DEF RecordsGone
  <2>3. RecordsOK' /\ PassesOK' /\ EvidenceReflected'
    BY <1>1, <1>2, <1>8, <1>10, <2>1, PurgedStay
  <2> QED BY <1>9, <1>11, <2>2, <2>3 DEF PersonalInv, DeletionOK
<1> QED BY <1>4, <1>12, <1>13, <1>14

LEMMA PurgeScheduleKeeps ==
  ASSUME PersonalInv, PurgeSchedule
  PROVE  PersonalInv'
<1>1. /\ purged = "records" /\ purged' = "done" /\ schedule' = NoRow
      /\ UNCHANGED <<store, record, lastId, guard, pass, claim, versions, editor, said, raced>>
  BY DEF PurgeSchedule, ScheduleDeleted
<1>2. ClaimInv /\ RecordsOK /\ PassesOK /\ DeletionOK
  BY DEF PersonalInv
<1>3. NoRow \in [watermark: 0..MaxRecords, recent: BOOLEAN] /\ NoRow.watermark = 0
  BY PersonalAssumption DEF NoRow
<1>4. ClaimInv'
  BY <1>1, <1>2 DEF ClaimInv
<1>5. RecordsOK' /\ PassesOK' /\ EvidenceReflected'
  <2>1. record' \in [RecordIds -> RecordRow] /\ 0 <= lastId
    BY <1>1, <1>2, PersonalAssumption DEF RecordsOK
  <2> QED BY <1>1, <1>2, <1>3, <2>1, PurgedStay
<1>6. DeletionOK'
  BY <1>1, <1>2, <1>3 DEF DeletionOK, PassesGone, RecordsGone
<1> QED BY <1>4, <1>5, <1>6 DEF PersonalInv

LEMMA PersonalStart == PersonalInit => PersonalInv
<1> SUFFICES ASSUME PersonalInit PROVE PersonalInv
  OBVIOUS
<1>1. ClaimInv
  BY EmptyClaim, PersonalAssumption DEF PersonalInit, ClaimInv
<1>2. RecordsOK
  BY PersonalAssumption DEF PersonalInit, RecordsOK, RecordRow, NoRow
<1>3. PassesOK
  <2>1. \A w \in Passes : pass[w] = NoPass /\ lastId = 0
    BY DEF PersonalInit
  <2>2. \A w \in Passes : PassOK(w)
    BY <2>1, EmptyPass DEF PassOK, Working
  <2> QED BY <2>2, EmptyPass DEF PersonalInit, PassesOK
<1> QED BY <1>1, <1>2, <1>3 DEF PersonalInit, PersonalInv, EvidenceReflected, Stored, DeletionOK, PassesGone, RecordsGone

\* A pass that runs after a deletion's first step has been noted, and its steps
\* take no record away.
LEMMA PassesNoted ==
  ASSUME DeletionOK, NEW w \in Passes, pass[w].pc # "idle"
  PROVE  purged = "no" \/ "pass" \in raced
BY DEF DeletionOK, PassesGone

LEMMA PassStepsKeep ==
  ASSUME DeletionOK, purged' = purged, purged = "no" \/ "pass" \in raced', raced' \in {raced, raced \cup {"pass"}},
         \A i \in RecordIds : record'[i].state = record[i].state
  PROVE  DeletionOK'
<1>1. PassesGone'
  BY DEF PassesGone
<1>2. raced' \subseteq Overlaps /\ ("insert" \in raced' <=> "insert" \in raced)
  BY DEF DeletionOK, Overlaps
<1>3. RecordsGone'
  BY <1>2 DEF DeletionOK, RecordsGone
<1> QED BY <1>1, <1>2, <1>3 DEF DeletionOK

\* A record that comes in between the two deletes is noted.
LEMMA RecordStepsKeep ==
  ASSUME DeletionOK, UNCHANGED <<schedule, pass, claim, purged>>,
         raced' \in {raced, raced \cup {"insert"}}, purged \notin {"records", "done"},
         purged = "sources" => "insert" \in raced',
         \A i \in RecordIds : record'[i].state \in {record[i].state, "stored", "open"}
  PROVE  DeletionOK'
<1>1. raced' \subseteq Overlaps /\ ("pass" \in raced' <=> "pass" \in raced)
      /\ ("request" \in raced' <=> "request" \in raced)
  BY DEF DeletionOK, Overlaps
<1>2. PassesGone'
  BY <1>1 DEF DeletionOK, PassesGone
<1>3. RecordsGone'
  BY DEF DeletionOK, RecordsGone
<1> QED BY <1>1, <1>2, <1>3 DEF DeletionOK

LEMMA PersonalStep ==
  ASSUME PersonalInv, [PersonalNext]_personalVars
  PROVE  PersonalInv'
<1>1. ClaimInv /\ RecordsOK /\ PassesOK /\ EvidenceReflected /\ DeletionOK
  BY DEF PersonalInv
<1>2. UNCHANGED <<claim, versions, editor, said>> => ClaimInv'
  BY <1>1 DEF ClaimInv
<1>3. ASSUME NEW w \in Passes, pass[w].pc # "idle", UNCHANGED <<purged, raced>>,
             \A i \in RecordIds : record'[i].state = record[i].state
      PROVE  DeletionOK'
  BY <1>1, <1>3, PassesNoted, PassStepsKeep
<1>4. ASSUME NEW shared \in BOOLEAN, IngestSqlite(shared) \/ IngestPostgres(shared) PROVE PersonalInv'
  <2>1. /\ RecordsOK' /\ PassesOK' /\ EvidenceReflected'
        /\ UNCHANGED <<schedule, pass, claim, versions, editor, said, purged>>
        /\ \A i \in RecordIds : record'[i].state \in {record[i].state, "stored", "open"}
    BY <1>1, <1>4, IngestKeeps
  <2>2. /\ purged \notin {"records", "done"} /\ raced' \in {raced, raced \cup {"insert"}}
        /\ purged = "sources" => "insert" \in raced'
    BY <1>4 DEF IngestSqlite, IngestPostgres
  <2>3. DeletionOK'
    BY <1>1, <2>1, <2>2, RecordStepsKeep
  <2> QED BY <1>2, <2>1, <2>3 DEF PersonalInv
<1>5. ASSUME NEW i \in RecordIds, CommitRecord(i) PROVE PersonalInv'
  <2>1. /\ RecordsOK' /\ PassesOK' /\ EvidenceReflected' /\ record[i].state = "open"
        /\ UNCHANGED <<schedule, pass, claim, versions, editor, said, purged, raced>>
        /\ \A j \in RecordIds : record'[j].state \in {record[j].state, "stored"}
    BY <1>1, <1>5, CommitRecordKeeps
  <2>2. purged \notin {"records", "done"} /\ (purged = "sources" => "insert" \in raced)
    BY <1>1, <2>1 DEF DeletionOK, RecordsGone
  <2>3. DeletionOK'
    BY <1>1, <2>1, <2>2, RecordStepsKeep
  <2> QED BY <1>2, <2>1, <2>3 DEF PersonalInv
<1>6. ASSUME NEW w \in Passes, Snapshot(w) \/ ReflectNow(w) PROVE PersonalInv'
  <2>1. /\ UNCHANGED <<record, claim, versions, editor, said, purged>>
        /\ raced' = IF purged = "no" THEN raced ELSE raced \cup {"pass"}
    BY <1>6 DEF Snapshot, ReflectNow, Meanwhile
  <2>2. DeletionOK'
    BY <1>1, <2>1, PassStepsKeep
  <2>3. RecordsOK' /\ PassesOK' /\ EvidenceReflected'
    BY <1>1, <1>6, SnapshotKeeps, ReflectNowKeeps
  <2> QED BY <1>2, <2>1, <2>2, <2>3 DEF PersonalInv
<1>7. ASSUME NEW w \in Passes, ClaimOwner(w) PROVE PersonalInv'
  <2>1. UNCHANGED <<record, claim, versions, editor, said, purged, raced>> /\ pass[w].pc # "idle"
    BY <1>7 DEF ClaimOwner
  <2>2. RecordsOK' /\ PassesOK' /\ EvidenceReflected'
    BY <1>1, <1>7, ClaimOwnerKeeps
  <2> QED BY <1>2, <1>3, <2>1, <2>2 DEF PersonalInv
<1>8. ASSUME NEW w \in Passes, ReflectionFails(w) PROVE PersonalInv'
  <2>1. /\ UNCHANGED <<store, record, lastId, claim, versions, editor, said, purged, raced>>
        /\ pass[w].pc # "idle" /\ Working(w)
        /\ pass' = [pass EXCEPT ![w] = NoPass] /\ guard' = NoGuard
        /\ schedule' = [schedule EXCEPT !.recent = TRUE]
    BY <1>8 DEF ReflectionFails, EndPass, Working
  <2>2. /\ schedule' \in [watermark: 0..MaxRecords, recent: BOOLEAN]
        /\ schedule'.watermark = schedule.watermark
    BY <1>1, <2>1 DEF RecordsOK
  <2>3. guard = w
    BY <1>1, <2>1 DEF PassesOK, PassOK
  <2>4. RecordsOK' /\ PassesOK' /\ EvidenceReflected'
    BY <1>1, <2>1, <2>2, <2>3, EndsKeep
  <2> QED BY <1>2, <1>3, <2>1, <2>4 DEF PersonalInv
<1>9. ASSUME NEW w \in Passes, RecordPass(w) PROVE PersonalInv'
  <2>1. /\ RecordsOK' /\ PassesOK' /\ EvidenceReflected' /\ pass[w].pc # "idle"
        /\ UNCHANGED <<claim, versions, editor, said, purged, raced>>
        /\ \A i \in RecordIds : record'[i].state = record[i].state
    BY <1>1, <1>9, RecordPassKeeps
  <2> QED BY <1>2, <1>3, <2>1 DEF PersonalInv
<1>10. ASSUME NEW w \in Passes, PassDies(w) PROVE PersonalInv'
  <2>1. /\ UNCHANGED <<store, record, lastId, schedule, claim, versions, editor, said, purged, raced>>
        /\ pass[w].pc # "idle" /\ pass' = [pass EXCEPT ![w] = NoPass]
        /\ guard' = IF guard = w THEN NoGuard ELSE guard
    BY <1>10 DEF PassDies
  <2>2. /\ schedule' \in [watermark: 0..MaxRecords, recent: BOOLEAN]
        /\ schedule'.watermark = schedule.watermark
    BY <1>1, <2>1 DEF RecordsOK
  <2>3. RecordsOK' /\ PassesOK' /\ EvidenceReflected'
    BY <1>1, <2>1, <2>2, EndsKeep
  <2> QED BY <1>2, <1>3, <2>1, <2>3 DEF PersonalInv
<1>11. ASSUME NEW w \in Passes, NEW value \in Values \cup {NoValue}, Publish(w, value) PROVE PersonalInv'
  <2>1. /\ RecordsOK' /\ PassesOK' /\ EvidenceReflected' /\ pass[w].pc # "idle"
        /\ UNCHANGED <<record, purged, raced>>
    BY <1>1, <1>11, PublishKeeps
  <2>2. ClaimInv'
    BY <1>1, <1>11, PublishKeepsClaim
  <2> QED BY <1>3, <2>1, <2>2 DEF PersonalInv
<1>12. CASE IntervalPasses
  <2>1. RecordsOK' /\ PassesOK' /\ EvidenceReflected'
    BY <1>1, <1>12, IntervalKeeps
  <2>2. /\ UNCHANGED <<store, record, lastId, guard, pass, claim, versions, editor, said, purged, raced>>
        /\ schedule' = [schedule EXCEPT !.recent = FALSE]
    BY <1>12 DEF IntervalPasses
  <2>3. schedule'.watermark = schedule.watermark
    BY <1>1, <2>2 DEF RecordsOK
  <2>4. DeletionOK'
    BY <1>1, <2>2, <2>3 DEF DeletionOK, PassesGone, RecordsGone
  <2> QED BY <1>2, <2>1, <2>2, <2>4 DEF PersonalInv
<1>13. CASE PurgeClaims
  BY <1>13, PurgeClaimsKeeps
<1>14. CASE PurgeRecords \/ PurgeSources
  BY <1>14, PurgeRecordsKeeps
<1>15. CASE PurgeSchedule
  BY <1>15, PurgeScheduleKeeps
<1>16. ASSUME \/ \E value \in Values, user \in BOOLEAN : State(value, user)
              \/ \E e \in Editors : CorrectRead(e)
              \/ \E e \in Editors, value \in Values : CorrectWrite(e, value)
              \/ DeleteClaim \/ ExpireClaim
       PROVE  PersonalInv'
  <2>1. ClaimInv' /\ DeletionOK' /\ UNCHANGED <<store, record, lastId, schedule, guard, pass, purged>>
    BY <1>16, ClaimSteps
  <2> QED BY <1>1, <2>1, RecordsStay DEF PersonalInv
<1>17. CASE UNCHANGED personalVars
  <2>1. UNCHANGED <<store, record, lastId, schedule, guard, pass, claim, versions, editor, said, purged, raced>>
    BY <1>17 DEF personalVars
  <2>2. DeletionOK'
    BY <1>1, <2>1 DEF DeletionOK, PassesGone, RecordsGone
  <2> QED BY <1>1, <1>2, <2>1, <2>2, RecordsStay DEF PersonalInv
<1> QED BY <1>4, <1>5, <1>6, <1>7, <1>8, <1>9, <1>10, <1>11, <1>12, <1>13, <1>14, <1>15, <1>16, <1>17
        DEF PersonalNext

\* The owner's last word stands although passes chose their claims before it;
\* no failure, crash or overlap moves the watermark past an eligible record
\* that was in no published batch, but for the one PostgreSQL shows late; and
\* a deletion that is done has left a record, a watermark or a claim only where
\* an insert, a pass or a statement fell between its steps: reflection.py,
\* reflection_schedule.py, account_deletion.py and both stores of the context
\* and of the personal model.
THEOREM OwnersWordStands == PersonalSpec => []ModelIsTheOwners
<1>1. PersonalInv => ModelIsTheOwners
  <2> SUFFICES ASSUME PersonalInv PROVE ModelIsTheOwners
    OBVIOUS
  <2>1. PersonalTypeOK
    BY DEF PersonalInv, ClaimInv, RecordsOK, PassesOK, DeletionOK, Overlaps, RecordRow, Pass, Claim, PersonalTypeOK
  <2>2. OwnerHasTheLastWord
    BY DEF PersonalInv, ClaimInv, OwnerHasTheLastWord
  <2>3. PurgeIsFinal
    <3>1. RecordsOK /\ PassesGone /\ RecordsGone
      BY DEF PersonalInv, DeletionOK
    <3>2. purged = "done" /\ "insert" \notin raced => TopRecord = 0
      BY <3>1, TopRecordIs DEF RecordsGone, Stored
    <3> QED BY <3>1, <3>2 DEF PassesGone, PurgeIsFinal
  <2> QED BY <2>1, <2>2, <2>3 DEF PersonalInv, ModelIsTheOwners
<1> QED BY <1>1, PersonalStart, PersonalStep, PTL DEF PersonalSpec

-----------------------------------------------------------------------------
(***************************************************************************)
(* Goals.  What is not in GoalsNeverStranded and is needed to keep it:     *)
(* goals are numbered without gaps, a new goal depends on older ones only, *)
(* and only an active goal has a lease.                                    *)
(***************************************************************************)
GoalRow == [status : GoalStatus \cup {"absent"}, principal : Principals \cup {Nobody},
            priority : Priorities \cup {0}, deps : SUBSET GoalNumbers,
            owner : GoalWorkers \cup {Nobody}, lease : {"none", "live", "lapsed"},
            version : 0..MaxVersion]

NumberedGoals == \E n \in 0..MaxGoals : Created = 1..n

LeasedGoals ==
  \A g \in Created :
    /\ goals[g].deps \subseteq Created
    /\ goals[g].owner = Nobody <=> goals[g].lease = "none"
    /\ goals[g].owner # Nobody => goals[g].status = "active"

GoalsInv == GoalsTypeOK /\ NumberedGoals /\ LeasedGoals /\ GoalsNeverStranded

LEMMA GoalsStart == GoalsInit => GoalsInv
<1> SUFFICES ASSUME GoalsInit PROVE GoalsInv
  OBVIOUS
<1>1. GoalsTypeOK
  BY GoalAssumption DEF GoalsInit, GoalsTypeOK, NoGoal, GoalNumbers
<1>2. Created = {}
  BY DEF GoalsInit, Created, NoGoal
<1>3. NumberedGoals
  BY <1>2, GoalAssumption DEF NumberedGoals
<1> QED BY <1>1, <1>2, <1>3 DEF GoalsInv, LeasedGoals, GoalsNeverStranded

\* A step that changes one goal, keeps what it depends on, and never takes
\* back a completion.
LEMMA OneGoalMoves ==
  ASSUME GoalsInv, NEW g \in Created,
         GoalsTypeOK', goals' = [goals EXCEPT ![g] = goals'[g]],
         goals'[g].status # "absent", goals'[g].deps = goals[g].deps,
         goals[g].status = "completed" => goals'[g].status = "completed",
         goals'[g].owner = Nobody <=> goals'[g].lease = "none",
         goals'[g].owner # Nobody => goals'[g].status = "active",
         goals'[g].owner # Nobody \/ goals'[g].status = "completed" => DepsCompleted(g)
  PROVE  GoalsInv'
<1> USE DEF GoalsInv
<1>1. g \in GoalNumbers /\ goals \in [GoalNumbers -> GoalRow]
  BY DEF Created, GoalsTypeOK, GoalRow
<1>2. \A h \in GoalNumbers : h # g => goals'[h] = goals[h]
  BY <1>1
<1>3. Created' = Created
  BY <1>1, <1>2 DEF Created
<1>4. NumberedGoals'
  BY <1>3 DEF NumberedGoals
<1>5. LeasedGoals'
  BY <1>2, <1>3 DEF LeasedGoals, Created
<1>6. \A h \in Created : DepsCompleted(h) => DepsCompleted(h)'
  BY <1>1, <1>2 DEF DepsCompleted, LeasedGoals, Created
<1>7. \A h \in Created : goals'[h].owner # Nobody \/ goals'[h].status = "completed" => DepsCompleted(h)'
  BY <1>2, <1>6 DEF GoalsNeverStranded, Created
<1>8. \A h \in Created : \/ goals'[h].lease = "live" \/ goals'[h].owner = Nobody
                         \/ goals'[h].status = "active" /\ goals'[h].lease # "live" /\ DepsCompleted(h)'
  BY <1>3, <1>5, <1>7 DEF LeasedGoals
<1>9. GoalsNeverStranded'
  BY <1>3, <1>7, <1>8 DEF GoalsNeverStranded, ReadyGoal
<1> QED BY <1>4, <1>5, <1>9

LEMMA CreateKeepsGoals ==
  ASSUME GoalsInv, NEW p \in Principals, NEW n \in Priorities, NEW deps \in SUBSET Created,
         CreateGoal(p, n, deps)
  PROVE  GoalsInv'
<1> DEFINE g == Cardinality(Created) + 1
           new == [status |-> "pending", principal |-> p, priority |-> n, deps |-> deps,
                   owner |-> Nobody, lease |-> "none", version |-> 1]
<1>1. PICK k \in 0..MaxGoals : Created = 1..k
  BY DEF GoalsInv, NumberedGoals
<1>2. g = k + 1
  <2>1. k \in Nat
    BY GoalAssumption
  <2>2. Cardinality(1..k) = IF 1 > k THEN 0 ELSE k - 1 + 1
    BY <2>1, FS_Interval
  <2> QED BY <1>1, <2>1, <2>2
<1>3. g \in GoalNumbers /\ g \notin Created
  BY <1>1, <1>2 DEF CreateGoal
<1>4. goals' = [goals EXCEPT ![g] = new]
  BY DEF CreateGoal
<1>5. goals \in [GoalNumbers -> GoalRow]
  BY DEF GoalsInv, GoalsTypeOK, GoalRow
<1> HIDE DEF g
<1>6. goals'[g] = new /\ \A h \in GoalNumbers : h # g => goals'[h] = goals[h]
  BY <1>3, <1>4, <1>5
<1>7. GoalsTypeOK'
  <2>1. new \in GoalRow
    BY GoalAssumption DEF GoalRow, GoalStatus, Created
  <2> QED BY <1>3, <1>4, <1>5, <2>1 DEF GoalsTypeOK, GoalRow
<1>8. Created' = Created \cup {g}
  BY <1>3, <1>6 DEF Created
<1>9. NumberedGoals'
  <2>1. Created' = 1..(k + 1) /\ k + 1 \in 0..MaxGoals
    BY <1>1, <1>2, <1>3, <1>8, GoalAssumption DEF GoalNumbers
  <2> QED BY <2>1 DEF NumberedGoals
<1>10. LeasedGoals'
  BY <1>3, <1>6, <1>8 DEF LeasedGoals, GoalsInv, Created
<1>11. \A h \in Created : DepsCompleted(h)' <=> DepsCompleted(h)
  BY <1>3, <1>6 DEF DepsCompleted, GoalsInv, LeasedGoals, Created
<1>12. \A h \in Created : ReadyGoal(h)' <=> ReadyGoal(h)
  BY <1>3, <1>6, <1>11 DEF ReadyGoal, Created
<1>13. GoalsNeverStranded'
  BY <1>3, <1>6, <1>8, <1>11, <1>12 DEF GoalsNeverStranded, GoalsInv, Created
<1> QED BY <1>7, <1>9, <1>10, <1>13 DEF GoalsInv

LEMMA ClaimKeepsGoals ==
  ASSUME GoalsInv, NEW p \in Principals, NEW w \in GoalWorkers, ClaimGoal(p, w)
  PROVE  GoalsInv'
<1>1. PICK g \in Created :
        /\ ReadyGoal(g) /\ goals[g].version < MaxVersion
        /\ goals' = [goals EXCEPT ![g].status = "active", ![g].owner = w,
                                  ![g].lease = "live", ![g].version = @ + 1]
  BY DEF ClaimGoal, FirstOf
<1>2. g \in GoalNumbers /\ goals \in [GoalNumbers -> GoalRow]
  BY DEF GoalsInv, GoalsTypeOK, GoalRow, Created
<1>3. goals'[g] = [goals[g] EXCEPT !.status = "active", !.owner = w, !.lease = "live",
                                   !.version = @ + 1]
  BY <1>1, <1>2
<1>4. goals' = [goals EXCEPT ![g] = goals'[g]]
  BY <1>1, <1>2
<1>5. goals'[g].version \in 0..MaxVersion
  BY <1>1, <1>2, <1>3, GoalAssumption DEF GoalRow
<1>6. GoalsTypeOK'
  <2>1. "active" \in GoalStatus \cup {"absent"}
    BY DEF GoalStatus
  <2>2. goals'[g] \in GoalRow
    BY <1>2, <1>3, <1>5, <2>1 DEF GoalRow
  <2> QED BY <1>2, <1>4, <2>2 DEF GoalsTypeOK, GoalRow
<1>7. goals[g].status # "completed" /\ DepsCompleted(g)
  BY <1>1 DEF ReadyGoal
<1>8. w # Nobody
  BY GoalAssumption
<1>9. /\ goals'[g].status = "active" /\ goals'[g].deps = goals[g].deps
      /\ goals'[g].owner = w /\ goals'[g].lease = "live"
  BY <1>2, <1>3 DEF GoalRow
<1> QED BY <1>4, <1>6, <1>7, <1>8, <1>9, OneGoalMoves

LEMMA RenewKeepsGoals ==
  ASSUME GoalsInv, NEW g \in Created, NEW w \in GoalWorkers, RenewGoal(g, w)
  PROVE  GoalsInv'
<1>1. goals' = [goals EXCEPT ![g].version = @ + 1] /\ goals[g].version < MaxVersion
  BY DEF RenewGoal
<1>2. g \in GoalNumbers /\ goals \in [GoalNumbers -> GoalRow]
  BY DEF GoalsInv, GoalsTypeOK, GoalRow, Created
<1>3. goals'[g] = [goals[g] EXCEPT !.version = @ + 1] /\ goals' = [goals EXCEPT ![g] = goals'[g]]
  BY <1>1, <1>2
<1>4. goals'[g].version \in 0..MaxVersion
  BY <1>1, <1>2, <1>3, GoalAssumption DEF GoalRow
<1>5. GoalsTypeOK'
  <2>1. goals'[g] \in GoalRow
    BY <1>2, <1>3, <1>4 DEF GoalRow
  <2> QED BY <1>2, <1>3, <2>1 DEF GoalsTypeOK, GoalRow
<1>6. /\ goals'[g].status = goals[g].status /\ goals'[g].deps = goals[g].deps
      /\ goals'[g].owner = goals[g].owner /\ goals'[g].lease = goals[g].lease
  BY <1>2, <1>3 DEF GoalRow
<1>7. goals[g].status # "absent"
  BY DEF Created
<1>8. /\ goals[g].owner = Nobody <=> goals[g].lease = "none"
      /\ goals[g].owner # Nobody => goals[g].status = "active"
      /\ goals[g].owner # Nobody \/ goals[g].status = "completed" => DepsCompleted(g)
  BY DEF GoalsInv, LeasedGoals, GoalsNeverStranded
<1> QED BY <1>3, <1>5, <1>6, <1>7, <1>8, OneGoalMoves

LEMMA TransitionKeepsGoals ==
  ASSUME GoalsInv, NEW g \in Created, NEW s \in GoalStatus, NEW w \in GoalWorkers \cup {Nobody},
         TransitionGoal(g, s, w)
  PROVE  GoalsInv'
<1>1. /\ goals[g].version < MaxVersion /\ s \in Transitions[goals[g].status]
      /\ goals[g].status \in GoalStatus /\ (s = "completed" => DepsCompleted(g))
      /\ goals' = [goals EXCEPT ![g].status = s, ![g].version = @ + 1,
                     ![g].owner = IF ClearsLease(s) THEN Nobody ELSE @,
                     ![g].lease = IF ClearsLease(s) THEN "none" ELSE @]
  BY DEF TransitionGoal
<1>2. g \in GoalNumbers /\ goals \in [GoalNumbers -> GoalRow]
  BY DEF GoalsInv, GoalsTypeOK, GoalRow, Created
<1> DEFINE o == IF ClearsLease(s) THEN Nobody ELSE goals[g].owner
           l == IF ClearsLease(s) THEN "none" ELSE goals[g].lease
<1>3. goals'[g] = [goals[g] EXCEPT !.status = s, !.version = @ + 1, !.owner = o, !.lease = l]
  BY <1>1, <1>2
<1>4. goals' = [goals EXCEPT ![g] = goals'[g]]
  BY <1>1, <1>2
<1>5. o \in GoalWorkers \cup {Nobody} /\ l \in {"none", "live", "lapsed"}
  BY <1>2 DEF GoalRow
<1>6. /\ o = Nobody <=> l = "none"
      /\ o # Nobody => o = goals[g].owner /\ ~ClearsLease(s)
  BY DEF GoalsInv, LeasedGoals
<1> HIDE DEF o, l
<1>7. /\ goals'[g].status = s /\ goals'[g].deps = goals[g].deps /\ goals'[g].owner = o
      /\ goals'[g].lease = l
  BY <1>2, <1>3 DEF GoalRow
<1>8. goals'[g].version \in 0..MaxVersion
  BY <1>1, <1>2, <1>3, GoalAssumption DEF GoalRow
<1>9. GoalsTypeOK'
  <2>1. goals'[g] \in GoalRow
    BY <1>2, <1>3, <1>5, <1>8 DEF GoalRow
  <2> QED BY <1>2, <1>4, <2>1 DEF GoalsTypeOK, GoalRow
<1>10. goals[g].status # "completed"
  BY <1>1 DEF Transitions
<1>11. s # "absent" /\ (~ClearsLease(s) => s = "active")
  BY DEF GoalStatus, ClearsLease, TerminalGoal
<1>12. goals[g].owner # Nobody => DepsCompleted(g)
  BY DEF GoalsInv, GoalsNeverStranded
<1> QED BY <1>1, <1>4, <1>6, <1>7, <1>9, <1>10, <1>11, <1>12, OneGoalMoves

LEMMA LapseKeepsGoals ==
  ASSUME GoalsInv, NEW g \in Created, GoalLeaseEnds(g)
  PROVE  GoalsInv'
<1>1. goals[g].lease = "live" /\ goals' = [goals EXCEPT ![g].lease = "lapsed"]
  BY DEF GoalLeaseEnds
<1>2. g \in GoalNumbers /\ goals \in [GoalNumbers -> GoalRow]
  BY DEF GoalsInv, GoalsTypeOK, GoalRow, Created
<1>3. goals'[g] = [goals[g] EXCEPT !.lease = "lapsed"] /\ goals' = [goals EXCEPT ![g] = goals'[g]]
  BY <1>1, <1>2
<1>4. GoalsTypeOK'
  <2>1. goals'[g] \in GoalRow
    BY <1>2, <1>3 DEF GoalRow
  <2> QED BY <1>2, <1>3, <2>1 DEF GoalsTypeOK, GoalRow
<1>5. /\ goals'[g].status = goals[g].status /\ goals'[g].deps = goals[g].deps
      /\ goals'[g].owner = goals[g].owner /\ goals'[g].lease = "lapsed"
  BY <1>2, <1>3 DEF GoalRow
<1>6. goals[g].status # "absent" /\ goals[g].owner # Nobody
  BY <1>1 DEF Created, GoalsInv, LeasedGoals
<1>7. goals[g].status = "active" /\ DepsCompleted(g)
  BY <1>6 DEF GoalsInv, LeasedGoals, GoalsNeverStranded
<1> QED BY <1>3, <1>4, <1>5, <1>6, <1>7, OneGoalMoves

\* However leases lapse and operators step in, no goal is left where no worker
\* can claim it and nobody can end it, and none is worked on or completed
\* before its dependencies are: claim() and transition() of goals.py.
THEOREM NoGoalIsStranded == GoalsSpec => []GoalsHold
<1>1. GoalsInit => GoalsInv
  BY GoalsStart
<1>2. GoalsInv /\ [GoalsNext]_goals => GoalsInv'
  <2> SUFFICES ASSUME GoalsInv, [GoalsNext]_goals PROVE GoalsInv'
    OBVIOUS
  <2>1. ASSUME NEW p \in Principals, NEW n \in Priorities, NEW deps \in SUBSET Created,
               CreateGoal(p, n, deps) PROVE GoalsInv'
    BY <2>1, CreateKeepsGoals
  <2>2. ASSUME NEW p \in Principals, NEW w \in GoalWorkers, ClaimGoal(p, w) PROVE GoalsInv'
    BY <2>2, ClaimKeepsGoals
  <2>3. ASSUME NEW g \in Created, NEW w \in GoalWorkers, RenewGoal(g, w) PROVE GoalsInv'
    BY <2>3, RenewKeepsGoals
  <2>4. ASSUME NEW g \in Created, NEW s \in GoalStatus, NEW w \in GoalWorkers \cup {Nobody},
               TransitionGoal(g, s, w) PROVE GoalsInv'
    BY <2>4, TransitionKeepsGoals
  <2>5. ASSUME NEW g \in Created, GoalLeaseEnds(g) PROVE GoalsInv'
    BY <2>5, LapseKeepsGoals
  <2>6. CASE UNCHANGED goals
    BY <2>6 DEF GoalsInv, GoalsTypeOK, NumberedGoals, LeasedGoals, GoalsNeverStranded, Created,
                ReadyGoal, DepsCompleted
  <2> QED BY <2>1, <2>2, <2>3, <2>4, <2>5, <2>6 DEF GoalsNext
<1>3. GoalsInv => GoalsHold
  BY DEF GoalsInv, GoalsHold
<1> QED BY <1>1, <1>2, <1>3, PTL DEF GoalsSpec

-----------------------------------------------------------------------------
(***************************************************************************)
(* Devices.  When a command has used up the executions that restarts allow *)
(* it, either its nonce is kept for as long as verify_command can accept   *)
(* the envelope, or that time is over.                                     *)
(***************************************************************************)
CommandRow == [to : DeviceIds \cup {NoDevice}, capability : Capabilities \cup {NoDevice},
               issued : Int, status : {"none", "issued", "completed", "failed"}]

\* The first half second in which verify_command finds the envelope too old.
StaleFrom(c) == 2 * (command[c].issued + Tolerance + 1)

Allowed == 1 + (IF replayGuard = "memory" THEN restarts ELSE 0)

SpentNonces ==
  \A c \in Commands :
    /\ runs[c] > 0 => command[c].status # "none"
    /\ runs[c] = Allowed => seenNonces[c] >= StaleFrom(c) \/ time >= StaleFrom(c)

DevicesInv == DevicesTypeOK /\ CommandsRunOnce /\ SpentNonces

LEMMA GreaterOfTwo ==
  ASSUME NEW a \in Int, NEW b \in Int
  PROVE  Max({a, b}) \in Int /\ Max({a, b}) >= a /\ Max({a, b}) >= b
<1>1. \E x \in {a, b} : \A y \in {a, b} : x >= y
  OBVIOUS
<1>2. Max({a, b}) \in {a, b} /\ \A y \in {a, b} : Max({a, b}) >= y
  BY <1>1 DEF Max
<1> QED BY <1>2

LEMMA DevicesStart == DevicesInit => DevicesInv
<1> SUFFICES ASSUME DevicesInit PROVE DevicesInv
  OBVIOUS
<1>1. DevicesTypeOK
  BY DeviceAssumption DEF DevicesInit, DevicesTypeOK, Unpaired, Unissued
<1> QED BY <1>1 DEF DevicesInv, DevicesInit, CommandsRunOnce, SpentNonces, Allowed

\* Steps of the registry neither run a command nor touch one that has run.
LEMMA RegistrySteps ==
  ASSUME DevicesInv, DevicesTypeOK', UNCHANGED <<seenNonces, replayGuard, time, restarts, runs>>,
         \A c \in Commands : command[c].status # "none" =>
            command'[c].status # "none" /\ command'[c].issued = command[c].issued
  PROVE  DevicesInv'
<1>1. Allowed' = Allowed
  BY DEF Allowed
<1>2. CommandsRunOnce'
  BY DEF DevicesInv, CommandsRunOnce
<1>3. Allowed > 0
  BY DEF Allowed, DevicesInv, DevicesTypeOK
<1>4. ASSUME NEW c \in Commands
      PROVE  /\ (runs[c] > 0 => command[c].status # "none")'
             /\ (runs[c] = Allowed => seenNonces[c] >= StaleFrom(c) \/ time >= StaleFrom(c))'
  <2>1. runs[c] > 0 => command[c].status # "none"
    BY DEF DevicesInv, SpentNonces
  <2>2. CASE runs[c] > 0
    <3>1. StaleFrom(c)' = StaleFrom(c)
      BY <2>1, <2>2 DEF StaleFrom
    <3> QED BY <1>1, <2>1, <2>2, <3>1 DEF DevicesInv, SpentNonces
  <2>3. CASE ~(runs[c] > 0)
    BY <1>1, <1>3, <2>3
  <2> QED BY <2>2, <2>3
<1>5. SpentNonces'
  BY <1>4 DEF SpentNonces
<1> QED BY <1>2, <1>5 DEF DevicesInv

\* A nonce that is claimed now outlasts the envelope.
LEMMA NonceOutlasts ==
  ASSUME DevicesTypeOK, NEW c \in Commands
  PROVE  /\ time + 2 * Retained(c) \in Nat
         /\ time + 2 * Retained(c) >= StaleFrom(c)
<1> DEFINE i == command[c].issued
           t == time
<1>1. t \in Nat /\ i \in Int /\ Tolerance \in Nat /\ GuardTtl \in Nat
  BY DeviceAssumption DEF DevicesTypeOK
<1>2. t \div 2 \in Nat /\ 2 * (t \div 2) <= t
  BY <1>1
<1>3. Retained(c) = Max({GuardTtl, i + Tolerance - (t \div 2) + 1})
  BY DEF Retained
<1> HIDE DEF i, t
<1>4. /\ Retained(c) \in Int /\ Retained(c) >= GuardTtl
      /\ Retained(c) >= i + Tolerance - (t \div 2) + 1
  <2>1. i + Tolerance - (t \div 2) + 1 \in Int
    BY <1>1, <1>2
  <2> QED BY <1>1, <1>3, <2>1, GreaterOfTwo
<1>5. t + 2 * Retained(c) \in Nat /\ t + 2 * Retained(c) >= 2 * (i + Tolerance + 1)
  BY <1>1, <1>2, <1>4
<1> QED BY <1>5 DEF i, t, StaleFrom

LEMMA ExecuteKeepsOnce ==
  ASSUME DevicesInv, NEW c \in Commands, ExecuteCommand(c)
  PROVE  DevicesInv'
<1>1. /\ command[c].status # "none" /\ Fresh(c) /\ KeptNonces[c] = 0
      /\ seenNonces' = [KeptNonces EXCEPT ![c] = time + 2 * Retained(c)]
      /\ runs' = [runs EXCEPT ![c] = @ + 1]
      /\ UNCHANGED <<pairing, device, command, replayGuard, time, restarts>>
  BY DEF ExecuteCommand, ClaimNonce
<1>2. /\ runs \in [Commands -> Nat] /\ seenNonces \in [Commands -> Nat] /\ time \in Nat
      /\ restarts \in Nat /\ command \in [Commands -> CommandRow]
  BY DeviceAssumption DEF DevicesInv, DevicesTypeOK, CommandRow
<1>3. KeptNonces \in [Commands -> Nat] /\ \A n \in Commands :
        KeptNonces[n] = seenNonces[n] \/ seenNonces[n] <= time
  BY <1>2 DEF KeptNonces
<1>4. time + 2 * Retained(c) \in Nat /\ time + 2 * Retained(c) >= StaleFrom(c)
  BY NonceOutlasts DEF DevicesInv
<1>5. DevicesTypeOK'
  BY <1>1, <1>2, <1>3, <1>4 DEF DevicesInv, DevicesTypeOK
<1>6. Allowed' = Allowed /\ Allowed \in Nat /\ \A n \in Commands : StaleFrom(n)' = StaleFrom(n)
  BY <1>1, <1>2 DEF Allowed, StaleFrom
<1>7. \A n \in Commands : StaleFrom(n) \in Int
  BY <1>2, DeviceAssumption DEF StaleFrom, CommandRow
<1>8. runs[c] < Allowed
  <2>1. time < StaleFrom(c)
    <3> DEFINE i == command[c].issued
               t == time
    <3>1. i \in Int /\ t \in Nat /\ Tolerance \in Nat
      BY <1>2, DeviceAssumption DEF CommandRow
    <3>2. t \div 2 - i <= Tolerance
      BY <1>1 DEF Fresh
    <3> HIDE DEF i, t
    <3>3. t < 2 * (i + Tolerance + 1)
      BY <3>1, <3>2
    <3> QED BY <3>3 DEF i, t, StaleFrom
  <2>2. seenNonces[c] <= time
    BY <1>1, <1>2, <1>3 DEF KeptNonces
  <2>3. ~(seenNonces[c] >= StaleFrom(c) \/ time >= StaleFrom(c))
    BY <1>2, <1>7, <2>1, <2>2
  <2>4. runs[c] # Allowed
    BY <2>3 DEF DevicesInv, SpentNonces
  <2>5. runs[c] <= Allowed
    BY DEF DevicesInv, CommandsRunOnce, Allowed
  <2> QED BY <1>2, <1>6, <2>4, <2>5
<1>9. CommandsRunOnce'
  <2>1. \A n \in Commands : runs[n] <= Allowed
    BY DEF DevicesInv, CommandsRunOnce, Allowed
  <2>2. \A n \in Commands : runs'[n] <= Allowed'
    BY <1>1, <1>2, <1>6, <1>8, <2>1
  <2> QED BY <2>2 DEF CommandsRunOnce, Allowed
<1>10. ASSUME NEW n \in Commands
       PROVE  /\ (runs[n] > 0 => command[n].status # "none")'
              /\ (runs[n] = Allowed => seenNonces[n] >= StaleFrom(n) \/ time >= StaleFrom(n))'
  <2>1. CASE n = c
    BY <1>1, <1>2, <1>3, <1>4, <1>6, <2>1
  <2>2. CASE n # c
    <3>1. runs'[n] = runs[n] /\ seenNonces'[n] = KeptNonces[n]
      BY <1>1, <1>2, <1>3, <2>2
    <3>2. KeptNonces[n] = seenNonces[n] \/ (seenNonces[n] >= StaleFrom(n) => time >= StaleFrom(n))
      BY <1>2, <1>3, <1>7
    <3> QED BY <1>1, <1>6, <3>1, <3>2 DEF DevicesInv, SpentNonces
  <2> QED BY <2>1, <2>2
<1>11. SpentNonces'
  BY <1>10 DEF SpentNonces
<1> QED BY <1>5, <1>9, <1>11 DEF DevicesInv

LEMMA RestartKeepsOnce ==
  ASSUME DevicesInv, RestartDevice
  PROVE  DevicesInv'
<1>1. /\ restarts < MaxRestarts /\ restarts' = restarts + 1
      /\ seenNonces' = IF replayGuard = "memory" THEN [c \in Commands |-> 0] ELSE seenNonces
      /\ UNCHANGED <<pairing, device, command, replayGuard, time, runs>>
  BY DEF RestartDevice
<1>2. runs \in [Commands -> Nat] /\ restarts \in Nat
  BY DeviceAssumption DEF DevicesInv, DevicesTypeOK
<1>3. DevicesTypeOK'
  BY <1>1, DeviceAssumption DEF DevicesInv, DevicesTypeOK
<1>4. CASE replayGuard = "memory"
  <2>1. \A c \in Commands : runs'[c] < Allowed'
    BY <1>1, <1>2, <1>4 DEF DevicesInv, CommandsRunOnce, Allowed
  <2>2. CommandsRunOnce'
    BY <1>1, <1>2, <1>4 DEF DevicesInv, CommandsRunOnce
  <2>3. SpentNonces'
    <3>1. \A c \in Commands : runs'[c] # Allowed'
      BY <1>1, <1>2, <1>4, <2>1 DEF Allowed
    <3> QED BY <1>1, <3>1 DEF DevicesInv, SpentNonces
  <2> QED BY <1>3, <2>2, <2>3 DEF DevicesInv
<1>5. CASE replayGuard # "memory"
  BY <1>1, <1>3, <1>5 DEF DevicesInv, CommandsRunOnce, SpentNonces, Allowed, StaleFrom
<1> QED BY <1>4, <1>5

LEMMA TickKeepsOnce ==
  ASSUME DevicesInv, DeviceTick
  PROVE  DevicesInv'
<1>1. time < MaxTime /\ time' = time + 1
      /\ UNCHANGED <<pairing, device, command, seenNonces, replayGuard, restarts, runs>>
  BY DEF DeviceTick
<1>2. DevicesTypeOK'
  BY <1>1, DeviceAssumption DEF DevicesInv, DevicesTypeOK
<1>3. \A c \in Commands : StaleFrom(c) \in Int
  BY DeviceAssumption DEF DevicesInv, DevicesTypeOK, StaleFrom
<1>4. time \in Nat
  BY DeviceAssumption DEF DevicesInv, DevicesTypeOK
<1>5. \A c \in Commands : time >= StaleFrom(c) => time' >= StaleFrom(c)
  BY <1>1, <1>3, <1>4
<1>6. SpentNonces'
  BY <1>1, <1>5 DEF DevicesInv, SpentNonces, Allowed, StaleFrom
<1> QED BY <1>1, <1>2, <1>6 DEF DevicesInv, CommandsRunOnce

DeviceRow == [from : Pairings \cup {NoDevice}, manifest : SUBSET Capabilities, revoked : BOOLEAN]

LEMMA RegistryTyped ==
  ASSUME DevicesInv, device' \in [DeviceIds -> DeviceRow],
         UNCHANGED <<pairing, command, seenNonces, replayGuard, time, restarts, runs>>
  PROVE  DevicesInv'
<1>1. DevicesTypeOK'
  BY DEF DevicesInv, DevicesTypeOK, DeviceRow
<1> QED BY <1>1, RegistrySteps

LEMMA PairingSteps ==
  ASSUME DevicesInv, NEW p \in Pairings,
         \/ CreatePairing(p) \/ PairingExpires(p)
         \/ \E d \in DeviceIds, caps \in (SUBSET Capabilities) \ {{}} : Pair(p, d, caps)
  PROVE  DevicesInv'
<1>1. CASE CreatePairing(p) \/ PairingExpires(p)
  <2>1. DevicesTypeOK' /\ UNCHANGED <<command, seenNonces, replayGuard, time, restarts, runs>>
    BY <1>1 DEF DevicesInv, DevicesTypeOK, CreatePairing, PairingExpires
  <2> QED BY <2>1, RegistrySteps
<1>2. ASSUME NEW d \in DeviceIds, NEW caps \in (SUBSET Capabilities) \ {{}}, Pair(p, d, caps)
      PROVE  DevicesInv'
  <2>1. [Unpaired EXCEPT !.from = p, !.manifest = caps] \in
          [from : Pairings \cup {NoDevice}, manifest : SUBSET Capabilities, revoked : BOOLEAN]
    BY DEF Unpaired
  <2>2. /\ UNCHANGED <<command, seenNonces, replayGuard, time, restarts, runs>>
        /\ pairing' = [pairing EXCEPT ![p] = "used"]
        /\ device' = [device EXCEPT ![d] = [Unpaired EXCEPT !.from = p, !.manifest = caps]]
    BY <1>2 DEF Pair
  <2>3. DevicesTypeOK'
    BY <2>1, <2>2 DEF DevicesInv, DevicesTypeOK
  <2> QED BY <2>2, <2>3, RegistrySteps
<1> QED BY <1>1, <1>2

LEMMA RegistryChanges ==
  ASSUME DevicesInv, NEW d \in DeviceIds,
         RevokeDevice(d) \/ \E caps \in (SUBSET Capabilities) \ {{}} : UpdateManifest(d, caps)
  PROVE  DevicesInv'
<1>0. device \in [DeviceIds -> DeviceRow]
  BY DEF DevicesInv, DevicesTypeOK, DeviceRow
<1>1. CASE RevokeDevice(d)
  <2>1. /\ UNCHANGED <<pairing, command, seenNonces, replayGuard, time, restarts, runs>>
        /\ device' = [device EXCEPT ![d].revoked = TRUE]
    BY <1>1 DEF RevokeDevice
  <2>2. device' \in [DeviceIds -> DeviceRow]
    BY <1>0, <2>1 DEF DeviceRow
  <2> QED BY <1>0, <2>1, <2>2, RegistryTyped
<1>2. ASSUME NEW caps \in (SUBSET Capabilities) \ {{}}, UpdateManifest(d, caps)
      PROVE  DevicesInv'
  <2>1. /\ UNCHANGED <<pairing, command, seenNonces, replayGuard, time, restarts, runs>>
        /\ device' = [device EXCEPT ![d].manifest = caps]
    BY <1>2 DEF UpdateManifest
  <2>2. device' \in [DeviceIds -> DeviceRow]
    BY <1>0, <2>1 DEF DeviceRow
  <2> QED BY <1>0, <2>1, <2>2, RegistryTyped
<1> QED BY <1>1, <1>2

LEMMA IssueKeepsOnce ==
  ASSUME DevicesInv, NEW c \in Commands, NEW d \in DeviceIds, NEW k \in Capabilities,
         NEW s \in Skews, IssueCommand(c, d, k, s)
  PROVE  DevicesInv'
<1> DEFINE new == [to |-> d, capability |-> k, issued |-> (time \div 2) + s, status |-> "issued"]
<1>1. /\ command[c] = Unissued /\ command' = [command EXCEPT ![c] = new]
      /\ UNCHANGED <<pairing, device, seenNonces, replayGuard, time, restarts, runs>>
  BY DEF IssueCommand
<1>2. (time \div 2) + s \in Int
  BY DeviceAssumption DEF DevicesInv, DevicesTypeOK
<1>3. new \in CommandRow
  BY <1>2 DEF CommandRow
<1>4. command \in [Commands -> CommandRow]
  BY DEF DevicesInv, DevicesTypeOK, CommandRow
<1>5. DevicesTypeOK'
  BY <1>1, <1>3, <1>4 DEF DevicesInv, DevicesTypeOK, CommandRow
<1>6. command[c].status = "none"
  BY <1>1 DEF Unissued
<1>7. \A n \in Commands : command[n].status # "none" => command'[n] = command[n]
  BY <1>1, <1>4, <1>6
<1> QED BY <1>1, <1>5, <1>7, RegistrySteps

LEMMA CompleteKeepsOnce ==
  ASSUME DevicesInv, NEW c \in Commands, NEW outcome \in {"completed", "failed"},
         CompleteCommand(c, outcome)
  PROVE  DevicesInv'
<1>1. /\ command' = [command EXCEPT ![c].status = outcome]
      /\ UNCHANGED <<pairing, device, seenNonces, replayGuard, time, restarts, runs>>
  BY DEF CompleteCommand
<1>2. DevicesTypeOK'
  BY <1>1 DEF DevicesInv, DevicesTypeOK
<1>3. command \in [Commands -> CommandRow]
  BY DEF DevicesInv, DevicesTypeOK, CommandRow
<1>4. \A n \in Commands : command[n].status # "none" =>
        command'[n].status # "none" /\ command'[n].issued = command[n].issued
  BY <1>1, <1>3 DEF CommandRow
<1> QED BY <1>1, <1>2, <1>4, RegistrySteps

\* However often, late and out of order a signed envelope arrives, whatever the
\* skew, the tolerance and the guard's ttl, the device runs the command once,
\* and once more per restart of a guard in memory: verify_command and both
\* guards of device_protocol.py.
THEOREM CommandsRunOnceHere == DevicesSpec => []DevicesHold
<1>1. DevicesInit => DevicesInv
  BY DevicesStart
<1>2. DevicesInv /\ [DevicesNext]_deviceVars => DevicesInv'
  <2> SUFFICES ASSUME DevicesInv, [DevicesNext]_deviceVars PROVE DevicesInv'
    OBVIOUS
  <2>1. ASSUME NEW p \in Pairings,
               \/ CreatePairing(p) \/ PairingExpires(p)
               \/ \E d \in DeviceIds, caps \in (SUBSET Capabilities) \ {{}} : Pair(p, d, caps)
        PROVE  DevicesInv'
    BY <2>1, PairingSteps
  <2>2. ASSUME NEW d \in DeviceIds,
               RevokeDevice(d) \/ \E caps \in (SUBSET Capabilities) \ {{}} : UpdateManifest(d, caps)
        PROVE  DevicesInv'
    BY <2>2, RegistryChanges
  <2>3. ASSUME NEW d \in DeviceIds, NEW c \in Commands, NEW k \in Capabilities, NEW s \in Skews,
               IssueCommand(c, d, k, s)
        PROVE  DevicesInv'
    BY <2>3, IssueKeepsOnce
  <2>4. ASSUME NEW c \in Commands, NEW outcome \in {"completed", "failed"},
               CompleteCommand(c, outcome)
        PROVE  DevicesInv'
    BY <2>4, CompleteKeepsOnce
  <2>5. ASSUME NEW c \in Commands, ExecuteCommand(c) PROVE DevicesInv'
    BY <2>5, ExecuteKeepsOnce
  <2>6. CASE RestartDevice
    BY <2>6, RestartKeepsOnce
  <2>7. CASE DeviceTick
    BY <2>7, TickKeepsOnce
  <2>8. CASE UNCHANGED deviceVars
    <3>1. DevicesTypeOK'
      BY <2>8 DEF DevicesInv, DevicesTypeOK, deviceVars
    <3> QED BY <2>8, <3>1, RegistrySteps DEF deviceVars
  <2> QED BY <2>1, <2>2, <2>3, <2>4, <2>5, <2>6, <2>7, <2>8 DEF DevicesNext
<1>3. DevicesInv => DevicesHold
  BY DEF DevicesInv, DevicesHold
<1> QED BY <1>1, <1>2, <1>3, PTL DEF DevicesSpec
-----------------------------------------------------------------------------
(***************************************************************************)
(* Source health.  The summary row holds the greatest stamp of all checks, *)
(* the greatest of the successes, and the number of failures after them.   *)
(***************************************************************************)
Check == [ok : BOOLEAN, at : 1 .. MaxStamp, cursor : Cursors \cup {NoCursor}]
Summary == [attempt : 0 .. MaxStamp, success : 0 .. MaxStamp, cursor : Cursors \cup {NoCursor},
            streak : 0 .. MaxChecks, successes : 0 .. MaxChecks, failures : 0 .. MaxChecks,
            error : BOOLEAN]

\* stamp is the greatest stamp of the checks in some, or Never.
Greatest(stamp, some) ==
    /\ \A i \in some : checks[i].at <= stamp
    /\ stamp = Never \/ \E i \in some : checks[i].at = stamp

HealthInv ==
    /\ checks \in Seq(Check) /\ health \in Summary /\ Len(checks) <= MaxChecks
    /\ Greatest(health.attempt, DOMAIN checks) /\ Greatest(health.success, Succeeded)
    /\ health.streak = Streak(checks)
    /\ health.successes + health.failures = Len(checks)

LEMMA Stamps ==
  ASSUME NEW heard \in Seq(Check), NEW i \in DOMAIN heard
  PROVE  i \in Nat /\ heard[i] \in Check /\ heard[i].at \in Nat /\ heard[i].at >= 1
<1>1. i \in 1 .. Len(heard) /\ Len(heard) \in Nat /\ heard[i] \in Check
  OBVIOUS
<1>2. heard[i].at \in 1 .. MaxStamp
  BY <1>1 DEF Check
<1> QED BY <1>1, <1>2, HealthAssumption

LEMMA HealthStarts == HealthInit => HealthInv
<1> SUFFICES ASSUME HealthInit PROVE HealthInv
  OBVIOUS
<1>1. checks = <<>> /\ DOMAIN checks = {} /\ Len(checks) = 0 /\ checks \in Seq(Check)
  BY DEF HealthInit
<1>2. Streak(checks) = 0
  <2>1. {i \in DOMAIN checks : ~checks[i].ok /\ ~\E j \in DOMAIN checks :
           checks[j].ok /\ (checks[j].at > checks[i].at \/ (checks[j].at = checks[i].at /\ j > i))} = {}
    BY <1>1
  <2> QED BY <2>1, FS_EmptySet DEF Streak
<1>3. health \in Summary /\ health.attempt = Never /\ health.success = Never /\ health.streak = 0
      /\ health.successes = 0 /\ health.failures = 0
  BY HealthAssumption DEF HealthInit, Summary, Never
<1>4. Greatest(health.attempt, DOMAIN checks) /\ Greatest(health.success, Succeeded)
  BY <1>1, <1>3 DEF Greatest, Succeeded
<1> QED BY <1>1, <1>2, <1>3, <1>4, HealthAssumption DEF HealthInv

LEMMA StreakFits ==
  ASSUME NEW heard \in Seq(Check)
  PROVE  Streak(heard) \in 0 .. Len(heard)
<1> DEFINE fails == {i \in DOMAIN heard : ~heard[i].ok /\ ~\E j \in DOMAIN heard :
                        heard[j].ok /\ (heard[j].at > heard[i].at \/ (heard[j].at = heard[i].at /\ j > i))}
<1>1. fails \subseteq 1 .. Len(heard) /\ Len(heard) \in Nat
  OBVIOUS
<1>2. Streak(heard) = Cardinality(fails)
  BY DEF Streak
<1> HIDE DEF fails
<1>3. IsFiniteSet(1 .. Len(heard)) /\ Cardinality(1 .. Len(heard)) = Len(heard)
  <2>1. 1 \in Int /\ Len(heard) \in Int
    BY <1>1
  <2>2. Cardinality(1 .. Len(heard)) = IF 1 > Len(heard) THEN 0 ELSE Len(heard) - 1 + 1
    BY <2>1, FS_Interval
  <2> QED BY <1>1, <2>1, <2>2, FS_Interval
<1>4. IsFiniteSet(fails) /\ Cardinality(fails) <= Len(heard)
  BY <1>1, <1>3, FS_Subset
<1> QED BY <1>1, <1>2, <1>4, FS_CardinalityType

LEMMA OneMore ==
  ASSUME NEW a \in Nat, NEW b \in Nat, NEW ok \in BOOLEAN
  PROVE  /\ (a + (IF ok THEN 1 ELSE 0)) + (b + (IF ok THEN 0 ELSE 1)) = a + b + 1
         /\ a + (IF ok THEN 1 ELSE 0) \in Nat /\ b + (IF ok THEN 0 ELSE 1) \in Nat
<1>1. CASE ok = TRUE
  BY <1>1
<1>2. CASE ok = FALSE
  BY <1>2
<1> QED BY <1>1, <1>2

LEMMA HealthKeeps == HealthInv /\ [HealthNext]_<<checks, health>> => HealthInv'
<1> SUFFICES ASSUME HealthInv, [HealthNext]_<<checks, health>> PROVE HealthInv'
  OBVIOUS
<1>1. CASE UNCHANGED <<checks, health>>
  BY <1>1 DEF HealthInv, Greatest, Succeeded, Streak
<1>2. ASSUME NEW ok \in BOOLEAN, NEW at \in 1 .. MaxStamp, NEW c \in Cursors \cup {NoCursor},
             RecordCheck(ok, at, c)
      PROVE  HealthInv'
  <2> DEFINE check == [ok |-> ok, at |-> at, cursor |-> c]
             heard == Append(checks, check)
             n == Len(checks) + 1
  <2>1. /\ Len(checks) < MaxChecks /\ checks' = heard
        /\ health' = [HealthUpserted(check, health) EXCEPT !.streak = Streak(heard)]
    BY <1>2 DEF RecordCheck
  <2>2. check \in Check /\ check.ok = ok /\ check.at = at /\ check.cursor = c
    BY DEF Check
  <2> HIDE DEF check
  <2>3. /\ checks \in Seq(Check) /\ Len(checks) \in Nat /\ heard \in Seq(Check)
        /\ Len(heard) = n /\ DOMAIN heard = 1 .. n /\ DOMAIN checks = 1 .. Len(checks)
        /\ heard[n] = check /\ \A i \in DOMAIN checks : heard[i] = checks[i]
    BY <2>2 DEF HealthInv
  <2> HIDE DEF heard
  <2>4. Streak(heard) \in 0 .. MaxChecks
    BY <2>1, <2>3, StreakFits, HealthAssumption
  <2>5. health \in Summary /\ health.successes + health.failures = Len(checks)
    BY DEF HealthInv
  <2> DEFINE newest == at >= health.attempt
             attempt == IF newest THEN at ELSE health.attempt
             success == IF ok /\ at >= health.success THEN at ELSE health.success
             successes == health.successes + (IF ok THEN 1 ELSE 0)
             failures == health.failures + (IF ok THEN 0 ELSE 1)
  <2>6. /\ health'.attempt = attempt /\ health'.success = success
        /\ health'.streak = Streak(heard)
        /\ health'.successes = successes /\ health'.failures = failures
        /\ health' = [attempt |-> attempt, success |-> success,
                      cursor |-> IF c # NoCursor /\ newest THEN c ELSE health.cursor,
                      streak |-> Streak(heard), successes |-> successes, failures |-> failures,
                      error |-> IF newest THEN ~ok ELSE health.error]
    BY <2>1, <2>2 DEF HealthUpserted
  <2>7. /\ successes + failures = n /\ successes \in 0 .. MaxChecks /\ failures \in 0 .. MaxChecks
        /\ n <= MaxChecks
    <3>1. health.successes \in 0 .. MaxChecks /\ health.failures \in 0 .. MaxChecks
      BY <2>5 DEF Summary
    <3>2. health.successes \in Nat /\ health.failures \in Nat /\ MaxChecks \in Nat
      BY <3>1, HealthAssumption
    <3>3. n <= MaxChecks
      BY <2>1, <2>3, <3>2
    <3>6. Len(checks) \in Nat /\ n \in Nat /\ health.successes + health.failures = Len(checks)
      BY <2>3, <2>5
    <3>4. successes + failures = health.successes + health.failures + 1 /\ successes \in Nat /\ failures \in Nat
      BY <3>2, OneMore
    <3> HIDE DEF successes, failures
    <3> QED BY <3>2, <3>3, <3>4, <3>6
  <2>8. attempt \in 0 .. MaxStamp /\ success \in 0 .. MaxStamp /\ at \in Nat
        /\ health.attempt \in Nat /\ health.success \in Nat
    BY <2>5, HealthAssumption DEF Summary
  <2>9. (IF c # NoCursor /\ newest THEN c ELSE health.cursor) \in Cursors \cup {NoCursor}
        /\ (IF newest THEN ~ok ELSE health.error) \in BOOLEAN
    BY <2>5 DEF Summary
  <2>10. health' \in Summary
    <3> HIDE DEF attempt, success, successes, failures
    <3> QED BY <2>4, <2>6, <2>7, <2>8, <2>9 DEF Summary
  <2>11. /\ \A i \in DOMAIN heard : heard[i].at <= attempt
         /\ attempt = Never \/ \E i \in DOMAIN heard : heard[i].at = attempt
    <3>1. /\ \A i \in DOMAIN checks : checks[i].at <= health.attempt
          /\ health.attempt = Never \/ \E i \in DOMAIN checks : checks[i].at = health.attempt
      BY DEF HealthInv, Greatest
    <3>2. \A i \in DOMAIN checks : checks[i].at \in Nat
      BY <2>3, Stamps
    <3> QED BY <2>2, <2>3, <2>8, <3>1, <3>2
  <2>12. /\ \A i \in DOMAIN heard : heard[i].ok => heard[i].at <= success
         /\ success = Never \/ \E i \in DOMAIN heard : heard[i].ok /\ heard[i].at = success
    <3>1. /\ \A i \in DOMAIN checks : checks[i].ok => checks[i].at <= health.success
          /\ health.success = Never \/ \E i \in DOMAIN checks : checks[i].ok /\ checks[i].at = health.success
      BY DEF HealthInv, Greatest, Succeeded
    <3>2. \A i \in DOMAIN checks : checks[i].at \in Nat
      BY <2>3, Stamps
    <3> QED BY <2>2, <2>3, <2>8, <3>1, <3>2
  <2> HIDE DEF attempt, success, successes, failures
  <2>13. Greatest(health.attempt, DOMAIN checks)' /\ Greatest(health.success, Succeeded)'
    BY <2>1, <2>6, <2>11, <2>12 DEF Greatest, Succeeded
  <2>14. health'.streak = Streak(checks')
    BY <2>1, <2>6
  <2>15. (health.streak = Streak(checks))'
    BY <2>14 DEF Streak
  <2> QED BY <2>1, <2>3, <2>6, <2>7, <2>10, <2>13, <2>15 DEF HealthInv
<1> QED BY <1>1, <1>2 DEF HealthNext

LEMMA MadeInOrder ==
  ASSUME checks \in Seq(Check), NEW i \in DOMAIN checks, NEW j \in DOMAIN checks, NEW k \in DOMAIN checks
  PROVE  /\ ~MadeBefore(i, i)
         /\ i # j => MadeBefore(i, j) \/ MadeBefore(j, i)
         /\ MadeBefore(i, j) /\ MadeBefore(j, k) => MadeBefore(i, k)
         /\ MadeBefore(i, j) => checks[i].at <= checks[j].at
<1>1. /\ i \in Nat /\ j \in Nat /\ k \in Nat
      /\ checks[i].at \in Nat /\ checks[j].at \in Nat /\ checks[k].at \in Nat
  BY Stamps
<1> QED BY <1>1 DEF MadeBefore

LEMMA LastSuccessIs ==
  ASSUME HealthInv, Succeeded # {}
  PROVE  /\ LastSuccess \in Succeeded /\ \A i \in Succeeded \ {LastSuccess} : MadeBefore(i, LastSuccess)
         /\ checks[LastSuccess].at = health.success
<1>1. /\ checks \in Seq(Check) /\ Succeeded \subseteq 1 .. Len(checks) /\ Len(checks) \in Nat
      /\ Succeeded \subseteq DOMAIN checks
  BY DEF HealthInv, Succeeded
<1>2. \A i \in DOMAIN checks : checks[i].at \in Nat /\ checks[i].at >= 1
  BY <1>1, Stamps
<1>3. \E i \in Succeeded : checks[i].at = health.success
  BY <1>1, <1>2 DEF HealthInv, Greatest, Never
<1> DEFINE top == {i \in Succeeded : checks[i].at = health.success}
<1>4. IsFiniteSet(1 .. Len(checks))
  BY <1>1, FS_Interval
<1>5. top \subseteq 1 .. Len(checks) /\ top \subseteq Int /\ top # {}
  BY <1>1, <1>3
<1>6. PICK m \in top : \A k \in top : k <= m
  <2> HIDE DEF top
  <2>1. IsFiniteSet(top)
    BY <1>4, <1>5, FS_Subset
  <2> QED BY <1>5, <2>1, GreatestExists
<1>7. \A i \in Succeeded : checks[i].at <= health.success
  BY DEF HealthInv, Greatest
<1>8. \A i \in Succeeded \ {m} : MadeBefore(i, m)
  <2> SUFFICES ASSUME NEW i \in Succeeded, i # m PROVE MadeBefore(i, m)
    OBVIOUS
  <2>1. i \in Int /\ m \in Int /\ checks[i].at \in Int /\ checks[m].at = health.success /\ checks[m].at \in Int
    BY <1>1, <1>2, <1>5
  <2>2. CASE checks[i].at = health.success
    BY <1>6, <2>1, <2>2 DEF MadeBefore
  <2>3. CASE checks[i].at # health.success
    BY <1>7, <2>1, <2>3 DEF MadeBefore
  <2> QED BY <2>2, <2>3
<1>9. LastSuccess \in Succeeded /\ \A i \in Succeeded \ {LastSuccess} : MadeBefore(i, LastSuccess)
  BY <1>8 DEF LastSuccess
<1>10. checks[LastSuccess].at = health.success
  <2>1. checks[m].at = health.success /\ m \in Succeeded
    OBVIOUS
  <2>2. m = LastSuccess \/ MadeBefore(m, LastSuccess)
    BY <1>9, <2>1
  <2>3. checks[m].at <= checks[LastSuccess].at
    BY <1>1, <1>2, <1>9, <2>1, <2>2, MadeInOrder
  <2>4. checks[LastSuccess].at \in Nat /\ checks[m].at \in Nat
    BY <1>1, <1>2, <1>9, <2>1
  <2> QED BY <1>7, <1>9, <2>1, <2>3, <2>4
<1> QED BY <1>9, <1>10

LEMMA StreakIsSince ==
  ASSUME HealthInv
  PROVE  Streak(checks) = Cardinality(IF Succeeded = {} THEN DOMAIN checks
                                      ELSE {i \in DOMAIN checks : MadeBefore(LastSuccess, i)})
<1> DEFINE fails == {i \in DOMAIN checks : ~checks[i].ok /\ ~\E j \in DOMAIN checks :
              checks[j].ok /\ (checks[j].at > checks[i].at \/ (checks[j].at = checks[i].at /\ j > i))}
           since == IF Succeeded = {} THEN DOMAIN checks
                    ELSE {i \in DOMAIN checks : MadeBefore(LastSuccess, i)}
<1>1. Streak(checks) = Cardinality(fails)
  BY DEF Streak
<1>2. checks \in Seq(Check) /\ \A i \in DOMAIN checks : i \in Nat /\ checks[i].at \in Nat
  BY Stamps DEF HealthInv
<1>3. \A i \in DOMAIN checks : i \in fails <=> i \notin Succeeded /\ \A j \in Succeeded : ~MadeBefore(i, j)
  BY <1>2 DEF Succeeded, MadeBefore
<1>4. \A i \in DOMAIN checks : i \in fails <=> i \in since
  <2>1. CASE Succeeded = {}
    BY <1>3, <2>1
  <2>2. CASE Succeeded # {}
    <3> DEFINE last == LastSuccess
    <3>1. last \in Succeeded /\ \A i \in Succeeded \ {last} : MadeBefore(i, last)
      BY <2>2, LastSuccessIs
    <3>2. Succeeded \subseteq DOMAIN checks
      BY DEF Succeeded
    <3>3. \A i \in DOMAIN checks : i \in since <=> MadeBefore(last, i)
      BY <2>2
    <3> HIDE DEF last, fails, since
    <3>4. ASSUME NEW i \in DOMAIN checks, i \in fails PROVE i \in since
      BY <1>2, <1>3, <3>1, <3>2, <3>3, <3>4, MadeInOrder
    <3>5. ASSUME NEW i \in DOMAIN checks, i \in since PROVE i \in fails
      <4>1. MadeBefore(last, i) /\ last \in DOMAIN checks
        BY <3>1, <3>2, <3>3, <3>5
      <4>2. i \notin Succeeded
        BY <1>2, <3>1, <4>1, MadeInOrder
      <4>3. ASSUME NEW j \in Succeeded PROVE ~MadeBefore(i, j)
        <5>1. j \in DOMAIN checks /\ (j = last \/ MadeBefore(j, last))
          BY <3>1, <3>2
        <5>2. MadeBefore(j, i)
          BY <1>2, <4>1, <5>1, MadeInOrder
        <5> QED BY <1>2, <5>1, <5>2, MadeInOrder
      <4> QED BY <1>3, <4>2, <4>3
    <3> QED BY <3>4, <3>5
  <2> QED BY <2>1, <2>2
<1>5. fails \subseteq DOMAIN checks /\ since \subseteq DOMAIN checks
  OBVIOUS
<1>6. fails = since
  <2> HIDE DEF fails, since
  <2> QED BY <1>4, <1>5
<1> QED BY <1>1, <1>6

LEMMA StatusIsVerdict ==
  ASSUME HealthInv, NEW now \in 0 .. MaxStamp
  PROVE  SourceStatus(now) = VerdictInOrder(now)
<1> DEFINE since == IF Succeeded = {} THEN DOMAIN checks
                    ELSE {i \in DOMAIN checks : MadeBefore(LastSuccess, i)}
<1>1. health.streak = Cardinality(since)
  BY StreakIsSince DEF HealthInv
<1>2. since \subseteq 1 .. Len(checks) /\ Len(checks) \in Nat
  BY DEF HealthInv
<1> HIDE DEF since
<1>3. IsFiniteSet(since) /\ Cardinality(since) \in Nat /\ (Cardinality(since) = 0 <=> since = {})
  <2>1. IsFiniteSet(1 .. Len(checks))
    BY <1>2, FS_Interval
  <2>2. IsFiniteSet(since)
    BY <1>2, <2>1, FS_Subset
  <2> QED BY <2>2, FS_CardinalityType, FS_EmptySet
<1>4. /\ health.attempt \in Nat /\ health.success \in Nat /\ now \in Nat
      /\ StaleAfter \in Nat /\ FailureThreshold \in Nat
      /\ \A i \in DOMAIN checks : checks[i].at \in Nat /\ checks[i].at >= 1
  <2>1. health.attempt \in 0 .. MaxStamp /\ health.success \in 0 .. MaxStamp
    BY DEF HealthInv, Summary
  <2>2. \A i \in DOMAIN checks : checks[i].at \in Nat /\ checks[i].at >= 1
    BY Stamps DEF HealthInv
  <2> QED BY <2>1, <2>2, HealthAssumption
<1>5. checks = <<>> <=> health.attempt = Never
  BY <1>4 DEF HealthInv, Greatest, Never
<1>6. (health.attempt > now \/ health.success > now) <=> \E i \in DOMAIN checks : checks[i].at > now
  <2>1. Succeeded \subseteq DOMAIN checks
    BY DEF Succeeded
  <2> QED BY <1>4, <2>1 DEF HealthInv, Greatest, Never
<1>7. Succeeded = {} => health.success = Never
  BY DEF HealthInv, Greatest
<1>8. Succeeded # {} => health.success = checks[LastSuccess].at /\ health.success # Never
  <2>1. Succeeded \subseteq DOMAIN checks
    BY DEF Succeeded
  <2> QED BY <1>4, <2>1, LastSuccessIs DEF Never
<1> DEFINE verdict == IF checks = <<>> \/ \E i \in DOMAIN checks : checks[i].at > now THEN "unknown"
        ELSE IF Cardinality(since) >= FailureThreshold THEN "down"
        ELSE IF Succeeded = {} \/ now - checks[LastSuccess].at > StaleAfter THEN "stale"
        ELSE IF since # {} THEN "degraded" ELSE "healthy"
<1>9. VerdictInOrder(now) = verdict
  BY DEF VerdictInOrder, since
<1>10. SourceStatus(now) = verdict
  BY <1>1, <1>3, <1>4, <1>5, <1>6, <1>7, <1>8 DEF SourceStatus
<1> QED BY <1>9, <1>10

LEMMA HealthSafe == HealthInv => HealthTypeOK /\ StatusIgnoresArrival
<1> SUFFICES ASSUME HealthInv PROVE HealthTypeOK /\ StatusIgnoresArrival
  OBVIOUS
<1>1. HealthTypeOK
  BY DEF HealthInv, HealthTypeOK, Check, Summary
<1>2. StatusIgnoresArrival
  BY StatusIsVerdict DEF HealthInv, StatusIgnoresArrival
<1> QED BY <1>1, <1>2


-----------------------------------------------------------------------------
(***************************************************************************)
(* The mailbox.  Mail is read from the newest down and ingested from the   *)
(* oldest up, so that older mail a batch does not hold is stored; what a   *)
(* query leaves out was stored when the sync began; and what comes in      *)
(* older than mail that was read is known to be late.                      *)
(***************************************************************************)
Sync == [phase : {"idle", "reading", "ingesting"}, after : 0 .. MaxSecond,
         token : 0 .. MaxMail, read : SUBSET (1 .. MaxMail),
         pages : 0 .. MaxPages, batch : SUBSET (1 .. MaxMail)]

\* Mail that is still to be stored.
Unstored == DOMAIN inbox \ (stored \cup late)

SyncOK(t) ==
    t.phase # "idle" =>
      /\ \A i \in Unstored : inbox[i] > t.after
      /\ t.after = 0 \/ \E i \in stored : inbox[i] > t.after
      /\ t.read \subseteq DOMAIN inbox /\ t.batch \subseteq t.read
      /\ t.token = 0 \/ t.token \in DOMAIN inbox
      /\ t.phase = "reading" =>
           /\ t.batch = {} /\ (t.read # {} => t.token # 0)
           /\ \A r \in t.read, i \in Unstored : inbox[i] < inbox[r] => i \in t.read \/ Older(i, t.token)
      /\ \A r \in t.batch, i \in Unstored : inbox[i] < inbox[r] => i \in t.batch

MailInv ==
    /\ inbox \in Seq(1 .. MaxSecond) /\ Len(inbox) <= MaxMail
    /\ stored \subseteq DOMAIN inbox /\ late \subseteq DOMAIN inbox /\ cursor \in 0 .. MaxSecond
    /\ sync \in [Syncs -> Sync]
    /\ cursor = 0 \/ \E i \in stored : inbox[i] = cursor
    /\ NoMailSkipped
    /\ \A s \in Syncs : SyncOK(sync[s])

LEMMA LeastExists ==
  ASSUME NEW n \in Nat, NEW S, S \subseteq 1 .. n, S # {}
  PROVE  Min(S) \in S /\ \A i \in S : Min(S) <= i
<1> DEFINE back == {n - i : i \in S}
<1>1. back \subseteq 0 .. n /\ back # {} /\ back \subseteq Int
  <2>1. \A i \in S : n - i \in 0 .. n /\ n - i \in Int
    OBVIOUS
  <2> QED BY <2>1
<1>2. IsFiniteSet(0 .. n)
  BY FS_Interval
<1>3. PICK m \in back : \A k \in back : k <= m
  <2> HIDE DEF back
  <2>1. IsFiniteSet(back)
    BY <1>1, <1>2, FS_Subset
  <2> QED BY <1>1, <2>1, GreatestExists
<1>4. PICK i \in S : m = n - i
  OBVIOUS
<1>5. \A j \in S : n - j <= n - i
  BY <1>3, <1>4
<1>6. \A j \in S : i <= j
  BY <1>5
<1> QED BY <1>6 DEF Min

LEMMA Seconds ==
  ASSUME inbox \in Seq(1 .. MaxSecond)
  PROVE  /\ Len(inbox) \in Nat /\ DOMAIN inbox = 1 .. Len(inbox)
         /\ \A i \in DOMAIN inbox : inbox[i] \in 1 .. MaxSecond /\ inbox[i] \in Nat /\ inbox[i] >= 1 /\ i \in Nat
<1> DEFINE seconds == 1 .. MaxSecond
<1>1. inbox \in Seq(seconds) /\ \A t \in seconds : t \in Nat /\ t >= 1
  BY MailAssumption
<1> HIDE DEF seconds
<1>2. /\ Len(inbox) \in Nat /\ DOMAIN inbox = 1 .. Len(inbox)
      /\ \A i \in DOMAIN inbox : inbox[i] \in seconds /\ i \in Nat
  BY <1>1
<1> QED BY <1>1, <1>2 DEF seconds

\* A set of messages has an oldest one, and one that no other is newer than.
LEMMA OldestIs ==
  ASSUME inbox \in Seq(1 .. MaxSecond), NEW S, S \subseteq DOMAIN inbox, S # {}
  PROVE  /\ Oldest(S) \in S
         /\ \A j \in S : inbox[Oldest(S)] <= inbox[j] /\ (j = Oldest(S) \/ Older(Oldest(S), j))
<1> DEFINE T == {i \in S : \A j \in S : inbox[i] <= inbox[j]}
           U == {inbox[i] : i \in S}
<1>1. /\ Len(inbox) \in Nat /\ DOMAIN inbox = 1 .. Len(inbox) /\ MaxSecond \in Nat
      /\ \A i \in S : inbox[i] \in 1 .. MaxSecond /\ inbox[i] \in Nat /\ i \in Nat
  BY Seconds, MailAssumption
<1>2. U \subseteq 1 .. MaxSecond /\ U # {}
  BY <1>1
<1>3. PICK u \in U : \A v \in U : u <= v
  <2> HIDE DEF U
  <2> QED BY <1>1, <1>2, LeastExists
<1>4. PICK i \in S : inbox[i] = u
  OBVIOUS
<1>5. \A j \in S : inbox[i] <= inbox[j]
  BY <1>3, <1>4
<1>6. i \in T /\ T \subseteq S
  BY <1>5
<1>7. \A j \in T, k \in S : inbox[j] <= inbox[k]
  OBVIOUS
<1>8. \A k \in S : (\A j \in S : inbox[k] <= inbox[j]) => k \in T
  OBVIOUS
<1>9. Oldest(S) = Min(T)
  BY DEF Oldest
<1> HIDE DEF T
<1>10. Min(T) \in T /\ \A j \in T : Min(T) <= j
  <2>1. T \subseteq 1 .. Len(inbox) /\ T # {}
    BY <1>1, <1>6
  <2> QED BY <1>1, <2>1, LeastExists
<1> DEFINE m == Min(T)
<1>11. ASSUME NEW j \in S, j # m PROVE inbox[m] < inbox[j] \/ (inbox[m] = inbox[j] /\ m < j)
  <2>1. inbox[m] <= inbox[j] /\ m \in S /\ m \in T
    BY <1>6, <1>7, <1>10
  <2>2. CASE inbox[m] = inbox[j]
    <3>1. \A k \in S : inbox[j] <= inbox[k]
      BY <1>7, <2>1, <2>2
    <3>2. m <= j
      BY <1>8, <1>10, <3>1
    <3> QED BY <1>1, <1>11, <2>1, <2>2, <3>2
  <2>3. CASE inbox[m] # inbox[j]
    BY <1>1, <2>1, <2>3
  <2> QED BY <2>2, <2>3
<1>12. m \in S /\ \A j \in S : inbox[m] <= inbox[j]
  BY <1>6, <1>7, <1>10
<1> QED BY <1>9, <1>11, <1>12 DEF Older

LEMMA NewestExists ==
  ASSUME inbox \in Seq(1 .. MaxSecond), NEW S, S \subseteq DOMAIN inbox, S # {}
  PROVE  \E i \in S : \A j \in S : ~Older(i, j)
<1> DEFINE U == {inbox[i] : i \in S}
<1>1. /\ Len(inbox) \in Nat /\ DOMAIN inbox = 1 .. Len(inbox) /\ MaxSecond \in Nat
      /\ \A i \in S : inbox[i] \in 1 .. MaxSecond /\ inbox[i] \in Nat /\ i \in Nat
  BY Seconds, MailAssumption
<1>2. U \in SUBSET (1 .. MaxSecond) /\ U # {} /\ U \subseteq Int
  BY <1>1
<1>3. PICK u \in U : \A v \in U : v <= u
  <2> HIDE DEF U
  <2>1. MaxSecond \in Int /\ 1 \in Int
    BY <1>1
  <2>2. IsFiniteSet(1 .. MaxSecond)
    BY <2>1, FS_Interval
  <2>3. IsFiniteSet(U)
    BY <1>2, <2>2, FS_Subset
  <2> QED BY <1>2, <2>3, GreatestExists
<1>4. \A j \in S : inbox[j] <= u
  BY <1>3
<1> DEFINE T == {i \in S : inbox[i] = u}
<1>5. T # {} /\ T \subseteq S /\ \A i \in T : inbox[i] = u
  OBVIOUS
<1>6. \A i \in S : inbox[i] = u => i \in T
  OBVIOUS
<1>7. u \in Nat
  BY <1>1, <1>5
<1> HIDE DEF T, U
<1>8. PICK m \in T : \A k \in T : k <= m
  <2>1. T \in SUBSET (1 .. Len(inbox)) /\ T \subseteq Int
    BY <1>1, <1>5
  <2>2. Len(inbox) \in Int /\ 1 \in Int
    BY <1>1
  <2>3. IsFiniteSet(1 .. Len(inbox))
    BY <2>2, FS_Interval
  <2>4. IsFiniteSet(T)
    BY <2>1, <2>3, FS_Subset
  <2> QED BY <1>5, <2>1, <2>4, GreatestExists
<1>9. ASSUME NEW j \in S, Older(m, j) PROVE FALSE
  <2>1. inbox[j] <= u /\ inbox[m] = u /\ inbox[j] \in Nat /\ m \in Nat /\ j \in Nat
    BY <1>1, <1>4, <1>5
  <2>2. inbox[j] = u /\ m < j
    BY <1>7, <1>9, <2>1 DEF Older
  <2>3. j <= m
    BY <1>6, <1>8, <2>2
  <2> QED BY <2>1, <2>2, <2>3
<1> QED BY <1>5, <1>8, <1>9

LEMMA MailStarts == MailInit => MailInv
<1> SUFFICES ASSUME MailInit PROVE MailInv
  OBVIOUS
<1>1. inbox = <<>> /\ DOMAIN inbox = {} /\ inbox \in Seq(1 .. MaxSecond) /\ Len(inbox) = 0
  BY DEF MailInit
<1>2. Asleep \in Sync /\ Asleep.phase = "idle"
  BY MailAssumption DEF Asleep, Sync
<1>3. /\ stored = {} /\ late = {} /\ cursor = 0 /\ sync \in [Syncs -> Sync]
      /\ \A s \in Syncs : sync[s].phase = "idle"
  BY <1>2 DEF MailInit
<1>4. NoMailSkipped
  BY <1>1 DEF NoMailSkipped
<1> QED BY <1>1, <1>3, <1>4, MailAssumption DEF MailInv, SyncOK

LEMMA ArrivesKeeps ==
  ASSUME MailInv, NEW second \in 1 .. MaxSecond, MailArrives(second)
  PROVE  MailInv'
<1> DEFINE n == Len(inbox) + 1
<1>1. /\ Len(inbox) < MaxMail /\ inbox' = Append(inbox, second) /\ UNCHANGED <<stored, cursor, sync>>
      /\ late' = IF \E i \in Seen : second < inbox[i] THEN late \cup {n} ELSE late
  BY DEF MailArrives
<1>2. inbox \in Seq(1 .. MaxSecond) /\ stored \subseteq DOMAIN inbox /\ late \subseteq DOMAIN inbox
  BY DEF MailInv
<1>3. /\ inbox' \in Seq(1 .. MaxSecond) /\ Len(inbox) \in Nat
      /\ Len(inbox') = n /\ DOMAIN inbox' = 1 .. n /\ DOMAIN inbox = 1 .. Len(inbox)
      /\ inbox'[n] = second /\ \A i \in DOMAIN inbox : inbox'[i] = inbox[i]
  BY <1>1, <1>2
<1>4. /\ DOMAIN inbox \subseteq DOMAIN inbox'
      /\ \A i \in DOMAIN inbox' : i = n \/ i \in DOMAIN inbox
      /\ second \in Nat /\ second >= 1 /\ n \in DOMAIN inbox' /\ n \notin DOMAIN inbox
  BY <1>3, MailAssumption
<1>5. \A i \in DOMAIN inbox : inbox[i] \in Nat
  BY <1>2, Seconds
<1>6. Len(inbox') <= MaxMail
  BY <1>1, <1>3, MailAssumption
<1> HIDE DEF n
<1>7. late \subseteq late' /\ late' \subseteq late \cup {n} /\ late' \subseteq DOMAIN inbox'
  BY <1>1, <1>2, <1>4
<1>8. Unstored' \subseteq Unstored \cup {n}
  BY <1>1, <1>4, <1>7 DEF Unstored
<1>9. Unstored \subseteq DOMAIN inbox
  BY DEF Unstored
<1>10. ASSUME n \in Unstored', NEW i \in Seen, i \in DOMAIN inbox PROVE inbox[i] <= second
  <2>1. n \notin late'
    BY <1>10 DEF Unstored
  <2> QED BY <1>1, <1>4, <1>5, <1>10, <2>1
<1>11. ASSUME n \in Unstored', NEW i \in stored PROVE inbox[i] <= second
  BY <1>2, <1>10, <1>11 DEF Seen
<1>12. NoMailSkipped'
  <2>1. cursor \in Nat /\ (cursor = 0 => QueryAfter(cursor) = 0) /\ (cursor # 0 => QueryAfter(cursor) = cursor - 1)
    BY MailAssumption DEF MailInv, QueryAfter
  <2>2. ASSUME n \in Unstored' PROVE second > QueryAfter(cursor)
    <3>1. CASE cursor = 0
      BY <1>4, <2>1, <3>1
    <3>2. CASE cursor # 0
      <4>1. PICK i \in stored : inbox[i] = cursor
        BY <3>2 DEF MailInv
      <4> QED BY <1>4, <1>11, <2>1, <2>2, <3>2, <4>1
    <3> QED BY <3>1, <3>2
  <2>3. \A i \in Unstored : inbox[i] > QueryAfter(cursor)
    BY DEF MailInv, NoMailSkipped, Unstored
  <2>4. \A i \in Unstored' : inbox'[i] > QueryAfter(cursor)
    BY <1>3, <1>8, <1>9, <2>2, <2>3
  <2> QED BY <1>1, <2>4 DEF NoMailSkipped, QueryAfter, Unstored
<1>13. ASSUME NEW s \in Syncs PROVE SyncOK(sync[s])'
  <2> DEFINE t == sync[s]
  <2>1. SyncOK(t) /\ t \in Sync
    BY DEF MailInv
  <2>2. \A r \in t.read : r \in Seen
    BY DEF Seen
  <2>3. t.after \in Nat
    <3>1. t.after \in 0 .. MaxSecond
      BY <2>1 DEF Sync
    <3> QED BY <3>1, MailAssumption
  <2> HIDE DEF t
  <2> SUFFICES ASSUME t.phase # "idle" PROVE SyncOK(t)'
    BY <1>1 DEF SyncOK, t
  <2>4. t.read \subseteq DOMAIN inbox /\ t.batch \subseteq t.read
    BY <2>1 DEF SyncOK
  <2>5. t.after = 0 \/ \E i \in stored : inbox[i] > t.after
    BY <2>1 DEF SyncOK
  <2>6. \A i \in Unstored' : inbox'[i] > t.after
    <3>1. ASSUME n \in Unstored' PROVE second > t.after
      <4>1. CASE t.after = 0
        BY <1>4, <4>1
      <4>2. CASE \E i \in stored : inbox[i] > t.after
        <5>1. PICK i \in stored : inbox[i] > t.after
          BY <4>2
        <5>2. inbox[i] <= second /\ inbox[i] \in Nat
          BY <1>2, <1>5, <1>11, <3>1
        <5> QED BY <1>4, <2>3, <5>1, <5>2
      <4> QED BY <2>5, <4>1, <4>2
    <3>2. \A i \in Unstored : inbox[i] > t.after
      BY <2>1 DEF SyncOK
    <3> QED BY <1>3, <1>8, <1>9, <3>1, <3>2
  <2>7. t.after = 0 \/ \E i \in stored' : inbox'[i] > t.after
    BY <1>1, <1>2, <1>3, <2>5
  <2>8. ASSUME n \in Unstored', NEW r \in t.read PROVE ~(second < inbox[r])
    BY <1>4, <1>5, <1>10, <2>2, <2>4, <2>8
  <2>9. \A r \in t.batch, i \in Unstored' : inbox'[i] < inbox'[r] => i \in t.batch
    <3>1. \A r \in t.batch, i \in Unstored : inbox[i] < inbox[r] => i \in t.batch
      BY <2>1 DEF SyncOK
    <3> QED BY <1>3, <1>8, <1>9, <2>4, <2>8, <3>1
  <2>10. ASSUME t.phase = "reading"
         PROVE  /\ t.batch = {} /\ (t.read # {} => t.token # 0)
                /\ \A r \in t.read, i \in Unstored' : inbox'[i] < inbox'[r] => i \in t.read \/ Older(i, t.token)'
    <3>1. /\ t.batch = {} /\ (t.read # {} => t.token # 0)
          /\ \A r \in t.read, i \in Unstored : inbox[i] < inbox[r] => i \in t.read \/ Older(i, t.token)
      BY <2>1, <2>10 DEF SyncOK
    <3>2. ASSUME NEW r \in t.read, NEW i \in Unstored', inbox'[i] < inbox'[r]
          PROVE  i \in t.read \/ (inbox'[i] < inbox'[t.token] \/ (inbox'[i] = inbox'[t.token] /\ i < t.token))
      <4>1. i # n /\ i \in Unstored /\ inbox[i] < inbox[r] /\ inbox'[i] = inbox[i]
        BY <1>3, <1>8, <1>9, <2>4, <2>8, <3>2
      <4>2. t.token \in DOMAIN inbox
        BY <2>1, <3>1 DEF SyncOK
      <4>3. inbox'[t.token] = inbox[t.token]
        BY <1>3, <4>2
      <4> QED BY <3>1, <4>1, <4>3 DEF Older
    <3>3. UNCHANGED t
      BY <1>1 DEF t
    <3> QED BY <3>1, <3>2, <3>3 DEF Older
  <2>11. t' = t
    BY <1>1 DEF t
  <2>12. (t.token = 0 \/ t.token \in DOMAIN inbox') /\ t.read \subseteq DOMAIN inbox'
    BY <1>4, <2>1, <2>4 DEF SyncOK
  <2> QED BY <2>4, <2>6, <2>7, <2>9, <2>10, <2>11, <2>12 DEF SyncOK
<1>14. stored \subseteq DOMAIN inbox' /\ (cursor = 0 \/ \E i \in stored : inbox'[i] = cursor)
  BY <1>2, <1>3, <1>4 DEF MailInv
<1> QED BY <1>1, <1>3, <1>6, <1>7, <1>12, <1>13, <1>14 DEF MailInv

LEMMA SyncsChange ==
  ASSUME MailInv, NEW s \in Syncs, NEW t \in Sync, sync' = [sync EXCEPT ![s] = t], SyncOK(t),
         UNCHANGED <<inbox, late, stored, cursor>>
  PROVE  MailInv'
<1>1. sync \in [Syncs -> Sync] /\ sync' \in [Syncs -> Sync]
  BY DEF MailInv
<1>2. \A u \in Syncs : sync'[u] = t \/ sync'[u] = sync[u]
  BY <1>1
<1>3. ASSUME NEW u \in Syncs PROVE SyncOK(sync[u])'
  <2>1. CASE sync'[u] = t
    BY <2>1 DEF SyncOK, Unstored, Older
  <2>2. CASE sync'[u] = sync[u]
    <3>1. SyncOK(sync[u])
      BY DEF MailInv
    <3> QED BY <2>2, <3>1 DEF SyncOK, Unstored, Older
  <2> QED BY <1>2, <2>1, <2>2
<1>4. NoMailSkipped'
  BY DEF MailInv, NoMailSkipped, QueryAfter
<1> QED BY <1>1, <1>3, <1>4 DEF MailInv

LEMMA StartSyncKeeps ==
  ASSUME MailInv, NEW s \in Syncs, StartSync(s) \/ SyncFails(s) \/ SyncEnds(s)
  PROVE  MailInv'
<1>1. Asleep \in Sync /\ Asleep.phase = "idle"
  BY MailAssumption DEF Asleep, Sync
<1>2. CASE SyncFails(s) \/ SyncEnds(s)
  <2>1. sync' = [sync EXCEPT ![s] = Asleep] /\ UNCHANGED <<inbox, late, stored, cursor>>
    BY <1>2 DEF SyncFails, SyncEnds
  <2>2. SyncOK(Asleep)
    BY <1>1 DEF SyncOK
  <2> QED BY <1>1, <2>1, <2>2, SyncsChange
<1>3. CASE StartSync(s)
  <2> DEFINE q == QueryAfter(cursor)
             a == [Asleep EXCEPT !.phase = "reading"]
             t == [a EXCEPT !.after = q]
  <2>1. sync' = [sync EXCEPT ![s] = t] /\ UNCHANGED <<inbox, late, stored, cursor>>
    BY <1>3 DEF StartSync
  <2>2. /\ inbox \in Seq(1 .. MaxSecond) /\ cursor \in 0 .. MaxSecond
        /\ cursor = 0 \/ \E i \in stored : inbox[i] = cursor
    BY DEF MailInv
  <2>3. /\ QueryAfter(cursor) \in 0 .. MaxSecond /\ cursor \in Nat
        /\ QueryAfter(cursor) = 0 \/ (cursor # 0 /\ QueryAfter(cursor) = cursor - 1)
    BY <2>2, MailAssumption DEF QueryAfter
  <2>4. t \in Sync /\ t.after = QueryAfter(cursor) /\ t.batch = {} /\ t.read = {} /\ t.token = 0
    <3>1. q \in 0 .. MaxSecond
      BY <2>3
    <3> HIDE DEF q
    <3>2. a \in Sync /\ a.batch = {} /\ a.read = {} /\ a.token = 0
      BY <1>1 DEF Asleep, Sync
    <3> HIDE DEF a
    <3>3. t \in Sync /\ t.after = q /\ t.batch = {} /\ t.read = {} /\ t.token = 0
      BY <3>1, <3>2 DEF Sync
    <3> QED BY <3>3 DEF q
  <2> HIDE DEF t
  <2>5. t.after = 0 \/ \E i \in stored : inbox[i] > t.after
    BY <2>2, <2>3, <2>4
  <2>6. \A i \in Unstored : inbox[i] > t.after
    BY <2>4 DEF MailInv, NoMailSkipped, Unstored
  <2>7. SyncOK(t)
    BY <2>4, <2>5, <2>6 DEF SyncOK
  <2> QED BY <2>1, <2>4, <2>7, SyncsChange
<1> QED BY <1>2, <1>3

\* A page is the newest part of what remains.
LEMMA ListedIs ==
  ASSUME MailInv, NEW s \in Syncs
  PROVE  /\ Listed(s) \subseteq Remaining(s) /\ Remaining(s) \subseteq DOMAIN inbox
         /\ Remaining(s) # {} => Listed(s) # {}
         /\ \A i \in Remaining(s) \ Listed(s), j \in Listed(s) : Older(i, j)
<1> DEFINE R == Remaining(s)
           Above(i) == {j \in R : Older(i, j)}
<1>1. Listed(s) = {i \in R : Cardinality(Above(i)) < PageSize}
  BY DEF Listed
<1>2. inbox \in Seq(1 .. MaxSecond)
  BY DEF MailInv
<1>3. /\ DOMAIN inbox = 1 .. Len(inbox) /\ Len(inbox) \in Int
      /\ \A i \in DOMAIN inbox : i \in Nat /\ inbox[i] \in Nat
  BY <1>2, Seconds
<1>4. R \subseteq DOMAIN inbox
  BY DEF Remaining
<1>5. IsFiniteSet(R)
  <2>1. IsFiniteSet(1 .. Len(inbox))
    BY <1>3, FS_Interval
  <2> QED BY <1>3, <1>4, <2>1, FS_Subset
<1> HIDE DEF R
<1>6. \A i \in Listed(s) : i \in R /\ Cardinality(Above(i)) < PageSize
  BY <1>1
<1>7. \A i \in R : Cardinality(Above(i)) < PageSize => i \in Listed(s)
  BY <1>1
<1>8. ASSUME NEW i \in R, NEW j \in R, Older(j, i), Cardinality(Above(j)) < PageSize
      PROVE  Cardinality(Above(i)) < PageSize
  <2>1. Above(i) \subseteq Above(j) /\ Above(j) \subseteq R
    <3>1. ASSUME NEW k \in R, Older(i, k) PROVE Older(j, k)
      <4>1. /\ i \in Nat /\ j \in Nat /\ k \in Nat
            /\ inbox[i] \in Nat /\ inbox[j] \in Nat /\ inbox[k] \in Nat
        BY <1>3, <1>4
      <4> QED BY <1>8, <3>1, <4>1 DEF Older
    <3> QED BY <3>1
  <2> HIDE DEF Above
  <2>2. IsFiniteSet(Above(i)) /\ IsFiniteSet(Above(j))
    BY <1>5, <2>1, FS_Subset
  <2>3. Cardinality(Above(i)) <= Cardinality(Above(j)) /\ Cardinality(Above(i)) \in Nat /\ Cardinality(Above(j)) \in Nat
    BY <2>1, <2>2, FS_Subset, FS_CardinalityType
  <2> QED BY <1>8, <2>3, MailAssumption
<1>9. R # {} => Listed(s) # {}
  <2> SUFFICES ASSUME R # {} PROVE Listed(s) # {}
    OBVIOUS
  <2>1. PICK i \in R : \A j \in R : ~Older(i, j)
    BY <1>2, <1>4, NewestExists
  <2>2. Above(i) = {}
    BY <2>1
  <2>3. Cardinality(Above(i)) < PageSize
    BY <2>2, FS_EmptySet, MailAssumption
  <2> QED BY <1>7, <2>3
<1>10. ASSUME NEW i \in R, i \notin Listed(s), NEW j \in Listed(s) PROVE Older(i, j)
  <2>1. ~Older(j, i) /\ i # j /\ j \in R
    BY <1>6, <1>7, <1>8, <1>10
  <2>2. i \in Nat /\ j \in Nat /\ inbox[i] \in Nat /\ inbox[j] \in Nat
    BY <1>3, <1>4, <2>1
  <2> QED BY <2>1, <2>2 DEF Older
<1>11. Listed(s) \subseteq R
  BY <1>6
<1> QED BY <1>4, <1>9, <1>10, <1>11 DEF R

LEMMA ReadPageKeeps ==
  ASSUME MailInv, NEW s \in Syncs, ReadPage(s)
  PROVE  MailInv'
<1> DEFINE old == sync[s]
           list == Listed(s)
           rest == Remaining(s)
           more == MoreToList(s)
           got == old.read \cup list
           token == IF more THEN Oldest(list) ELSE 0
           t == [phase |-> IF more THEN "reading" ELSE "ingesting", after |-> old.after, token |-> token,
                 read |-> got, pages |-> old.pages + 1, batch |-> IF more THEN {} ELSE got]
<1>1. /\ old.phase = "reading" /\ old.pages < MaxPages /\ sync' = [sync EXCEPT ![s] = t]
      /\ UNCHANGED <<inbox, late, stored, cursor>>
  BY DEF ReadPage
<1>2. old \in Sync /\ SyncOK(old)
  BY DEF MailInv
<1>3. /\ t.phase = (IF more THEN "reading" ELSE "ingesting") /\ t.after = old.after /\ t.token = token
      /\ t.read = got /\ t.batch = IF more THEN {} ELSE got
  OBVIOUS
<1>4. /\ list \subseteq rest /\ rest \subseteq DOMAIN inbox /\ (rest # {} => list # {})
      /\ \A i \in rest \ list, j \in list : Older(i, j)
  BY ListedIs
<1>5. more <=> rest # list
  BY DEF MoreToList
<1>6. /\ \A i \in DOMAIN inbox : inbox[i] > old.after /\ (old.token # 0 => Older(i, old.token)) => i \in rest
      /\ \A i \in rest : old.token # 0 => Older(i, old.token)
  BY DEF Remaining
<1>7. /\ inbox \in Seq(1 .. MaxSecond) /\ Len(inbox) \in Nat /\ Len(inbox) <= MaxMail
      /\ DOMAIN inbox = 1 .. Len(inbox) /\ DOMAIN inbox \subseteq 1 .. MaxMail
      /\ \A i \in DOMAIN inbox : i \in Nat /\ inbox[i] \in Nat
  BY Seconds, MailAssumption DEF MailInv
<1>8. /\ \A i \in Unstored : inbox[i] > old.after /\ i \in DOMAIN inbox
      /\ old.after = 0 \/ \E i \in stored : inbox[i] > old.after
      /\ old.read \subseteq DOMAIN inbox /\ (old.token = 0 \/ old.token \in DOMAIN inbox)
      /\ (old.read # {} => old.token # 0)
      /\ \A r \in old.read, i \in Unstored : inbox[i] < inbox[r] => i \in old.read \/ Older(i, old.token)
  BY <1>1, <1>2 DEF SyncOK, Unstored
<1>9. old.after \in 0 .. MaxSecond /\ old.pages + 1 \in 0 .. MaxPages
  <2>1. old.after \in 0 .. MaxSecond /\ old.pages \in 0 .. MaxPages
    BY <1>2 DEF Sync
  <2> QED BY <1>1, <2>1, MailAssumption
<1> HIDE DEF old, list, rest, more
<1>10. more => /\ list # {} /\ token \in list /\ token \in DOMAIN inbox
               /\ \A i \in rest \ list : Older(i, token)
  <2> SUFFICES ASSUME more PROVE /\ list # {} /\ token \in list /\ token \in DOMAIN inbox
                                 /\ \A i \in rest \ list : Older(i, token)
    OBVIOUS
  <2>1. list # {} /\ list \subseteq DOMAIN inbox
    BY <1>4, <1>5
  <2>2. Oldest(list) \in list
    BY <1>7, <2>1, OldestIs
  <2> QED BY <1>4, <2>1, <2>2
<1>11. got \subseteq DOMAIN inbox /\ got \subseteq 1 .. MaxMail
  BY <1>4, <1>7, <1>8
<1>12. token \in 0 .. MaxMail /\ (more => token # 0) /\ (token = 0 \/ token \in DOMAIN inbox)
  <2>1. CASE more
    BY <1>7, <1>10, <2>1
  <2>2. CASE ~more
    BY <2>2, MailAssumption
  <2> QED BY <2>1, <2>2
<1> HIDE DEF got, token
<1>13. t \in Sync
  BY <1>9, <1>11, <1>12 DEF Sync
<1>14. ASSUME NEW r \in got, NEW i \in Unstored, inbox[i] < inbox[r], i \notin got
       PROVE  more /\ Older(i, token)
  <2>1. i \in DOMAIN inbox /\ inbox[i] > old.after /\ i \notin old.read /\ i \notin list
    BY <1>8, <1>14 DEF got
  <2>2. old.token # 0 => Older(i, old.token)
    <3>1. CASE r \in old.read
      BY <1>8, <1>14, <2>1, <3>1
    <3>2. CASE r \in list
      <4>1. SUFFICES ASSUME old.token # 0 PROVE Older(i, old.token)
        OBVIOUS
      <4>2. Older(r, old.token) /\ old.token \in DOMAIN inbox /\ r \in DOMAIN inbox
        BY <1>4, <1>6, <1>8, <3>2, <4>1
      <4>3. inbox[r] <= inbox[old.token] /\ inbox[old.token] \in Nat /\ inbox[r] \in Nat /\ inbox[i] \in Nat
        BY <1>7, <2>1, <4>2 DEF Older
      <4> QED BY <1>14, <4>3 DEF Older
    <3> QED BY <3>1, <3>2 DEF got
  <2>3. i \in rest
    BY <1>6, <2>1, <2>2
  <2> QED BY <1>5, <1>10, <2>1, <2>3
<1> HIDE DEF t
<1>15. SyncOK(t)
  <2>1. t.phase = "reading" =>
           /\ t.batch = {} /\ (t.read # {} => t.token # 0)
           /\ \A r \in t.read, i \in Unstored : inbox[i] < inbox[r] => i \in t.read \/ Older(i, t.token)
    BY <1>3, <1>12, <1>14
  <2>2. \A r \in t.batch, i \in Unstored : inbox[i] < inbox[r] => i \in t.batch
    BY <1>3, <1>14
  <2>3. t.batch \subseteq t.read /\ t.read \subseteq DOMAIN inbox /\ (t.token = 0 \/ t.token \in DOMAIN inbox)
    BY <1>3, <1>11, <1>12
  <2>4. (\A i \in Unstored : inbox[i] > t.after) /\ (t.after = 0 \/ \E i \in stored : inbox[i] > t.after)
    BY <1>3, <1>8
  <2> QED BY <2>1, <2>2, <2>3, <2>4 DEF SyncOK
<1> QED BY <1>1, <1>13, <1>15, SyncsChange

LEMMA IngestMailKeeps ==
  ASSUME MailInv, NEW s \in Syncs, IngestMail(s)
  PROVE  MailInv'
<1> DEFINE old == sync[s]
           m == Oldest(old.batch)
           t == [old EXCEPT !.batch = old.batch \ {m}]
<1>1. /\ old.phase = "ingesting" /\ old.batch # {} /\ old \in Sync /\ SyncOK(old)
      /\ inbox \in Seq(1 .. MaxSecond) /\ stored \subseteq DOMAIN inbox /\ sync \in [Syncs -> Sync]
  BY DEF IngestMail, MailInv
<1>2. /\ stored' = stored \cup {m} /\ cursor' = inbox[m] /\ sync' = [sync EXCEPT ![s] = t]
      /\ UNCHANGED <<inbox, late>>
  BY <1>1 DEF IngestMail, IngestNext
<1>3. /\ t \in Sync /\ t.phase = "ingesting" /\ t.after = old.after /\ t.read = old.read /\ t.token = old.token
      /\ t.batch = old.batch \ {m}
  BY <1>1 DEF Sync
<1>4. \A i \in DOMAIN inbox : inbox[i] \in 1 .. MaxSecond /\ inbox[i] \in Nat /\ inbox[i] >= 1
  BY <1>1, Seconds
<1>5. old.batch \subseteq old.read /\ old.read \subseteq DOMAIN inbox
      /\ \A k \in old.batch, i \in Unstored : inbox[i] < inbox[k] => i \in old.batch
  BY <1>1 DEF SyncOK
<1>6. m \in old.batch /\ m \in DOMAIN inbox /\ \A i \in old.batch : inbox[m] <= inbox[i]
  <2> HIDE DEF old
  <2>1. old.batch \subseteq DOMAIN inbox
    BY <1>5
  <2> QED BY <1>1, <2>1, OldestIs
<1> HIDE DEF old, m, t
<1>7. Unstored' = Unstored \ {m}
  BY <1>2 DEF Unstored
<1>8. ASSUME NEW i \in Unstored PROVE inbox[i] > QueryAfter(inbox[m])
  <2>1. i \in DOMAIN inbox /\ inbox[i] \in Nat /\ inbox[m] \in Nat /\ inbox[m] >= 1
    BY <1>4, <1>6 DEF Unstored
  <2>2. ~(inbox[i] < inbox[m])
    BY <1>5, <1>6, <2>1
  <2> QED BY <2>1, <2>2 DEF QueryAfter
<1>9. NoMailSkipped'
  BY <1>2, <1>7, <1>8 DEF NoMailSkipped, QueryAfter, Unstored
<1>10. cursor' \in 0 .. MaxSecond /\ \E i \in stored' : inbox[i] = cursor'
  <2>1. inbox[m] \in 1 .. MaxSecond /\ m \in stored'
    BY <1>2, <1>4, <1>6
  <2> QED BY <1>2, <2>1, MailAssumption
<1>11. stored \subseteq stored' /\ stored' \subseteq DOMAIN inbox /\ Unstored' \subseteq Unstored
  BY <1>1, <1>2, <1>6, <1>7
<1>12. sync' \in [Syncs -> Sync] /\ (\A u \in Syncs : u # s => sync'[u] = sync[u]) /\ sync'[s] = t
  BY <1>1, <1>2, <1>3
<1>13. SyncOK(sync[s])'
  <2>1. /\ \A i \in Unstored' : inbox[i] > t.after
        /\ t.after = 0 \/ \E i \in stored' : inbox[i] > t.after
        /\ t.token = 0 \/ t.token \in DOMAIN inbox
    BY <1>1, <1>3, <1>11 DEF SyncOK
  <2>2. \A r \in t.batch, i \in Unstored' : inbox[i] < inbox[r] => i \in t.batch
    BY <1>3, <1>5, <1>7
  <2>3. t.batch \subseteq t.read /\ t.read \subseteq DOMAIN inbox
    BY <1>3, <1>5
  <2> QED BY <1>2, <1>3, <1>12, <2>1, <2>2, <2>3 DEF SyncOK
<1>14. ASSUME NEW u \in Syncs, u # s PROVE SyncOK(sync[u])'
  <2> DEFINE v == sync[u]
  <2>1. SyncOK(v)
    BY DEF MailInv
  <2>2. sync'[u] = v
    BY <1>12, <1>14
  <2> HIDE DEF v
  <2>3. v.phase # "idle" =>
          /\ \A i \in Unstored' : inbox[i] > v.after
          /\ v.after = 0 \/ \E i \in stored' : inbox[i] > v.after
          /\ v.read \subseteq DOMAIN inbox /\ v.batch \subseteq v.read
          /\ v.token = 0 \/ v.token \in DOMAIN inbox
          /\ v.phase = "reading" =>
               /\ v.batch = {} /\ (v.read # {} => v.token # 0)
               /\ \A r \in v.read, i \in Unstored' : inbox[i] < inbox[r] => i \in v.read \/ Older(i, v.token)
          /\ \A r \in v.batch, i \in Unstored' : inbox[i] < inbox[r] => i \in v.batch
    BY <1>11, <2>1 DEF SyncOK
  <2> QED BY <1>2, <2>2, <2>3 DEF SyncOK, Older
<1>15. \A u \in Syncs : SyncOK(sync[u])'
  BY <1>13, <1>14
<1>16. inbox' \in Seq(1 .. MaxSecond) /\ Len(inbox') <= MaxMail /\ late' \subseteq DOMAIN inbox'
  BY <1>2 DEF MailInv
<1> QED BY <1>2, <1>9, <1>10, <1>11, <1>12, <1>15, <1>16 DEF MailInv

LEMMA MailKeeps == MailInv /\ [MailNext]_mailVars => MailInv'
<1> SUFFICES ASSUME MailInv, [MailNext]_mailVars PROVE MailInv'
  OBVIOUS
<1>1. ASSUME NEW second \in 1 .. MaxSecond, MailArrives(second) PROVE MailInv'
  BY <1>1, ArrivesKeeps
<1>2. ASSUME NEW s \in Syncs, StartSync(s) \/ SyncFails(s) \/ SyncEnds(s) PROVE MailInv'
  BY <1>2, StartSyncKeeps
<1>3. ASSUME NEW s \in Syncs, ReadPage(s) PROVE MailInv'
  BY <1>3, ReadPageKeeps
<1>4. ASSUME NEW s \in Syncs, IngestMail(s) PROVE MailInv'
  BY <1>4, IngestMailKeeps
<1>5. CASE UNCHANGED mailVars
  BY <1>5 DEF MailInv, NoMailSkipped, SyncOK, Unstored, Older, QueryAfter, mailVars
<1> QED BY <1>1, <1>2, <1>3, <1>4, <1>5 DEF MailNext

LEMMA MailSafe == MailInv => MailTypeOK /\ NoMailSkipped
BY DEF MailInv, MailTypeOK, Sync

(***************************************************************************)
(* What the context store says of its sources is true: the status that     *)
(* status() of source_health.py gives is that of the checks in the order   *)
(* they were made, whatever order record() got them in; and the cursor     *)
(* that ingest() of context.py moves never passes mail without a row,      *)
(* however the fetches of connectors.py overlap or fail, unless the        *)
(* message came in with an older date than mail that had been read, the    *)
(* limit that docs/connector-fidelity.md states.                           *)
(***************************************************************************)
THEOREM SourcesSound == HealthSpec /\ MailSpec => []SourcesHold
<1>1. HealthInit => HealthInv
  BY HealthStarts
<1>2. HealthInv /\ [HealthNext]_<<checks, health>> => HealthInv'
  BY HealthKeeps
<1>3. MailInit => MailInv
  BY MailStarts
<1>4. MailInv /\ [MailNext]_mailVars => MailInv'
  BY MailKeeps
<1>5. HealthInv /\ MailInv => SourcesHold
  BY HealthSafe, MailSafe DEF SourcesHold
<1> QED BY <1>1, <1>2, <1>3, <1>4, <1>5, PTL DEF HealthSpec, MailSpec

-----------------------------------------------------------------------------
(***************************************************************************)
(* Replies.  A request that has a conversation has it from its own user,   *)
(* and a conversation never changes hands: it is deleted, once.            *)
(***************************************************************************)
Placed == {"question", "answer", "trace", "extract", "done"}

ReplyRow == [pc : Placed \cup {"idle", "thread", "failed"}, owner : Users \cup {NewThread},
             thread : Threads \cup {NewThread}]
MessageRow == [thread : Threads, role : {"user", "assistant"}, by : Replies]

Question(k, r) == [thread |-> k, role |-> "user", by |-> r]

\* r's row: its user, and its conversation once it has one.
ReplyPlaced(r) ==
    /\ reply[r].pc # "idle" => reply[r].owner \in Users
    /\ reply[r].pc \in Placed =>
         reply[r].thread \in Threads /\ ownerOf[reply[r].thread] \in {reply[r].owner, Gone}
    /\ storage = "sqlite" /\ reply[r].pc = "answer" /\ Present(reply[r].thread) =>
         Question(reply[r].thread, r) \in message

MessagePlaced(m) ==
    /\ reply[m.by].pc \notin {"idle", "thread"} /\ m.thread = reply[m.by].thread
    /\ ownerOf[m.thread] \in {reply[m.by].owner, Gone}
    /\ storage = "sqlite" =>
         Present(m.thread) /\ (m.role = "assistant" => Question(m.thread, m.by) \in message)

ConversationsInv ==
    /\ reply \in [Replies -> ReplyRow] /\ message \subseteq MessageRow
    /\ ownerOf \in [Threads -> Users \cup {NewThread, Gone}]
    /\ storage = "sqlite" => erasure.pc = "idle"
    /\ \A r \in Replies : ReplyPlaced(r)
    /\ \A m \in message : MessagePlaced(m)

LEMMA ConversationsStart == ConversationsInit => ConversationsInv
<1> SUFFICES ASSUME ConversationsInit PROVE ConversationsInv
  OBVIOUS
<1> DEFINE idle == [pc |-> "idle", owner |-> NewThread, thread |-> NewThread]
<1>1. idle \in ReplyRow /\ idle.pc = "idle"
  BY DEF ReplyRow
<1>2. reply = [r \in Replies |-> idle] /\ message = {}
  BY DEF ConversationsInit
<1> HIDE DEF idle
<1>3. reply \in [Replies -> ReplyRow] /\ \A r \in Replies : reply[r].pc = "idle"
  BY <1>1, <1>2
<1>4. ownerOf \in [Threads -> Users \cup {NewThread, Gone}] /\ erasure.pc = "idle"
  BY DEF ConversationsInit, NotErasing
<1>5. \A r \in Replies : ReplyPlaced(r)
  BY <1>3 DEF ReplyPlaced, Placed
<1> QED BY <1>2, <1>3, <1>4, <1>5 DEF ConversationsInv

\* Messages and conversations stay; one request moves.
LEMMA OneReplyMoves ==
  ASSUME ConversationsInv, NEW r \in Replies, NEW t \in ReplyRow,
         reply' = [reply EXCEPT ![r] = t], UNCHANGED <<storage, ownerOf, message, erasure>>,
         t.owner \in Users, t.pc # "idle",
         t.pc \in Placed => t.thread \in Threads /\ ownerOf[t.thread] \in {t.owner, Gone},
         t.pc # "answer",
         \/ reply[r].pc \in {"idle", "thread"}
         \/ t.pc # "thread" /\ t.thread = reply[r].thread /\ t.owner = reply[r].owner
  PROVE  ConversationsInv'
<1>1. reply \in [Replies -> ReplyRow] /\ reply' \in [Replies -> ReplyRow]
  BY DEF ConversationsInv
<1>2. reply'[r] = t /\ \A o \in Replies : o # r => reply'[o] = reply[o]
  BY <1>1
<1>3. ASSUME NEW o \in Replies PROVE ReplyPlaced(o)'
  <2>1. CASE o = r
    BY <1>2, <2>1 DEF ReplyPlaced
  <2>2. CASE o # r
    <3>1. ReplyPlaced(o) /\ reply'[o] = reply[o]
      BY <1>2, <2>2 DEF ConversationsInv
    <3> QED BY <3>1 DEF ReplyPlaced, Present
  <2> QED BY <2>1, <2>2
<1>4. ASSUME NEW m \in message PROVE MessagePlaced(m)'
  <2>1. MessagePlaced(m) /\ m.by \in Replies
    BY DEF ConversationsInv, MessageRow
  <2>2. CASE m.by = r
    BY <1>2, <2>1, <2>2 DEF MessagePlaced, Present
  <2>3. CASE m.by # r
    BY <1>2, <2>1, <2>3 DEF MessagePlaced, Present
  <2> QED BY <2>2, <2>3
<1> QED BY <1>1, <1>3, <1>4 DEF ConversationsInv

LEMMA ReplyRows ==
  ASSUME ConversationsInv, NEW r \in Replies
  PROVE  /\ reply[r] \in ReplyRow /\ ReplyPlaced(r)
         /\ \A next \in Placed \cup {"failed"} :
              /\ [reply[r] EXCEPT !.pc = next] \in ReplyRow
              /\ [reply[r] EXCEPT !.pc = next].pc = next
              /\ [reply[r] EXCEPT !.pc = next].owner = reply[r].owner
              /\ [reply[r] EXCEPT !.pc = next].thread = reply[r].thread
BY DEF ConversationsInv, ReplyRow

LEMMA ReplyGoesOn ==
  ASSUME ConversationsInv, NEW r \in Replies,
         RecordModelTrace(r) \/ ExtractFacts(r) \/ ReplyFails(r)
  PROVE  ConversationsInv'
<1>1. PICK next \in {"extract", "done", "failed"} :
        /\ reply[r].pc # "idle" /\ (next = "failed" \/ reply[r].pc \in {"trace", "extract"})
        /\ reply' = [reply EXCEPT ![r].pc = next]
        /\ UNCHANGED <<storage, ownerOf, message, erasure>>
  <2>1. CASE ReplyFails(r)
    BY <2>1 DEF ReplyFails, Become
  <2>2. CASE ExtractFacts(r)
    BY <2>2 DEF ExtractFacts, Become, At
  <2>3. CASE RecordModelTrace(r)
    BY <2>3 DEF RecordModelTrace, Become, At
  <2> QED BY <2>1, <2>2, <2>3
<1> DEFINE t == [reply[r] EXCEPT !.pc = next]
<1>2. reply' = [reply EXCEPT ![r] = t]
  BY <1>1
<1>3. t \in ReplyRow /\ t.pc = next /\ t.owner = reply[r].owner /\ t.thread = reply[r].thread
  BY <1>1, ReplyRows DEF ReplyRow, Placed
<1>4. ReplyPlaced(r)
  BY ReplyRows
<1> HIDE DEF t
<1>5. t.owner \in Users
  BY <1>1, <1>3, <1>4 DEF ReplyPlaced
<1>6. t.pc \in Placed => t.thread \in Threads /\ ownerOf[t.thread] \in {t.owner, Gone}
  BY <1>1, <1>3, <1>4 DEF ReplyPlaced, Placed
<1> QED BY <1>1, <1>2, <1>3, <1>5, <1>6, OneReplyMoves

LEMMA ContinueKeeps ==
  ASSUME ConversationsInv, NEW r \in Replies, NEW k \in Threads, ContinueThread(r, k)
  PROVE  ConversationsInv'
<1>1. reply[r] \in ReplyRow /\ ReplyPlaced(r)
  BY ReplyRows
<1>3. CASE ContinueThread(r, k) /\ MayContinue(r, k)
  <2> DEFINE t == [pc |-> "question", owner |-> reply[r].owner, thread |-> k]
  <2>1. /\ reply' = [reply EXCEPT ![r] = t] /\ reply[r].pc = "thread"
        /\ ownerOf[k] = reply[r].owner
        /\ UNCHANGED <<storage, ownerOf, message, erasure>>
    BY <1>3 DEF ContinueThread, MayContinue, At
  <2>2. t \in ReplyRow /\ t.pc = "question" /\ t.owner = reply[r].owner /\ t.thread = k
    BY <1>1 DEF ReplyRow, Placed
  <2>3. reply[r].owner \in Users
    BY <1>1, <2>1 DEF ReplyPlaced
  <2> HIDE DEF t
  <2> QED BY <2>1, <2>2, <2>3, OneReplyMoves DEF Placed
<1>4. CASE ContinueThread(r, k) /\ ~MayContinue(r, k)
  <2> DEFINE t == [reply[r] EXCEPT !.pc = "failed"]
  <2>1. /\ reply' = [reply EXCEPT ![r] = t] /\ reply[r].pc = "thread"
        /\ UNCHANGED <<storage, ownerOf, message, erasure>>
    BY <1>4 DEF ContinueThread, At
  <2>2. t \in ReplyRow /\ t.pc = "failed" /\ t.owner = reply[r].owner /\ t.thread = reply[r].thread
    BY <1>1 DEF ReplyRow
  <2>3. reply[r].owner \in Users
    BY <1>1, <2>1 DEF ReplyPlaced
  <2> HIDE DEF t
  <2> QED BY <2>1, <2>2, <2>3, OneReplyMoves DEF Placed
<1> QED BY <1>3, <1>4

LEMMA StartThreadKeeps ==
  ASSUME ConversationsInv, NEW r \in Replies, NEW k \in Threads, StartThread(r, k)
  PROVE  ConversationsInv'
<1> DEFINE t == [pc |-> "question", owner |-> reply[r].owner, thread |-> k]
<1>1. /\ reply' = [reply EXCEPT ![r] = t] /\ reply[r].pc = "thread" /\ ownerOf[k] = NewThread
      /\ ownerOf' = [ownerOf EXCEPT ![k] = reply[r].owner]
      /\ UNCHANGED <<storage, message, erasure>>
  BY DEF StartThread, At
<1>2. reply[r] \in ReplyRow /\ reply[r].owner \in Users
  BY <1>1, ReplyRows DEF ReplyPlaced
<1>3. t \in ReplyRow /\ t.pc = "question" /\ t.owner = reply[r].owner /\ t.thread = k
  BY <1>2 DEF ReplyRow, Placed
<1> HIDE DEF t
<1>4. /\ reply \in [Replies -> ReplyRow] /\ reply' \in [Replies -> ReplyRow]
      /\ ownerOf \in [Threads -> Users \cup {NewThread, Gone}]
      /\ ownerOf' \in [Threads -> Users \cup {NewThread, Gone}]
  BY <1>1, <1>2, <1>3 DEF ConversationsInv
<1>5. /\ reply'[r] = t /\ \A o \in Replies : o # r => reply'[o] = reply[o]
      /\ ownerOf'[k] = reply[r].owner /\ \A l \in Threads : l # k => ownerOf'[l] = ownerOf[l]
  BY <1>1, <1>4
<1>6. \A u \in Users : u # NewThread
  BY ConversationsAssumption
<1>7. ASSUME NEW o \in Replies PROVE ReplyPlaced(o)'
  <2>1. CASE o = r
    BY <1>2, <1>3, <1>5, <2>1 DEF ReplyPlaced
  <2>2. CASE o # r
    <3>1. ReplyPlaced(o) /\ reply'[o] = reply[o]
      BY <1>5, <2>2 DEF ConversationsInv
    <3>2. reply[o].pc \in Placed => reply[o].thread # k
      BY <1>1, <1>6, <3>1, ConversationsAssumption DEF ReplyPlaced, Placed
    <3>3. reply[o].pc \in Placed => ownerOf'[reply[o].thread] = ownerOf[reply[o].thread]
      BY <1>5, <3>1, <3>2 DEF ReplyPlaced
    <3> QED BY <1>1, <3>1, <3>3 DEF ReplyPlaced, Present, Placed
  <2> QED BY <2>1, <2>2
<1>8. ASSUME NEW m \in message PROVE MessagePlaced(m)'
  <2>1. MessagePlaced(m) /\ m.by \in Replies /\ m.thread \in Threads
    BY DEF ConversationsInv, MessageRow
  <2>2. m.by # r /\ reply'[m.by] = reply[m.by] /\ reply[m.by].owner \in Users
    <3>1. m.by # r
      BY <1>1, <2>1 DEF MessagePlaced
    <3>2. ReplyPlaced(m.by) /\ reply[m.by].pc # "idle"
      BY <2>1 DEF ConversationsInv, MessagePlaced
    <3> QED BY <1>5, <2>1, <3>1, <3>2 DEF ReplyPlaced
  <2>3. m.thread # k
    BY <1>1, <1>6, <2>1, <2>2, ConversationsAssumption DEF MessagePlaced
  <2>4. ownerOf'[m.thread] = ownerOf[m.thread]
    BY <1>5, <2>1, <2>3
  <2> QED BY <1>1, <2>1, <2>2, <2>4 DEF MessagePlaced, Present
<1> QED BY <1>1, <1>4, <1>7, <1>8 DEF ConversationsInv

LEMMA AddMessageKeeps ==
  ASSUME ConversationsInv, NEW r \in Replies, AddQuestion(r) \/ AddAnswer(r)
  PROVE  ConversationsInv'
<1> DEFINE old == reply[r]
           role == IF old.pc = "question" THEN "user" ELSE "assistant"
           next == IF old.pc = "question" THEN "answer" ELSE "trace"
           new == [thread |-> old.thread, role |-> role, by |-> r]
           t == [old EXCEPT !.pc = next]
<1>1. old \in ReplyRow /\ ReplyPlaced(r)
  BY ReplyRows
<1>2. old.pc \in {"question", "answer"} /\ AddMessage(r, role, next)
  BY DEF AddQuestion, AddAnswer, At
<1>3. CASE ~MayAdd(old.thread)
  <2> DEFINE f == [old EXCEPT !.pc = "failed"]
  <2>1. reply' = [reply EXCEPT ![r] = f] /\ UNCHANGED <<storage, ownerOf, message, erasure>>
    BY <1>2, <1>3 DEF AddMessage, Become
  <2>2. f \in ReplyRow /\ f.pc = "failed" /\ f.owner = old.owner /\ f.thread = old.thread
    BY <1>1 DEF ReplyRow
  <2>3. old.owner \in Users
    BY <1>1, <1>2 DEF ReplyPlaced
  <2> HIDE DEF f
  <2> QED BY <2>1, <2>2, <2>3, OneReplyMoves DEF Placed
<1>4. CASE MayAdd(old.thread)
  <2>1. /\ reply' = [reply EXCEPT ![r] = t] /\ message' = message \cup {new}
        /\ Present(old.thread) /\ UNCHANGED <<storage, ownerOf, erasure>>
    BY <1>2, <1>4 DEF AddMessage, Become, MayAdd
  <2>2. t \in ReplyRow /\ t.pc = next /\ t.owner = old.owner /\ t.thread = old.thread
    BY <1>1, <1>2 DEF ReplyRow, Placed
  <2>3. /\ old.owner \in Users /\ old.thread \in Threads
        /\ ownerOf[old.thread] \in {old.owner, Gone}
    BY <1>1, <1>2 DEF ReplyPlaced, Placed
  <2>4. new \in MessageRow /\ new.thread = old.thread /\ new.by = r /\ new.role = role
    BY <2>3 DEF MessageRow
  <2>5. old.pc = "question" => new = Question(old.thread, r)
    BY DEF Question
  <2>6. next \in {"answer", "trace"} /\ (next = "answer" <=> old.pc = "question")
        /\ (role = "assistant" <=> old.pc = "answer")
    BY <1>2
  <2>7. storage = "sqlite" /\ old.pc = "answer" => Question(old.thread, r) \in message
    BY <1>1, <2>1 DEF ReplyPlaced
  <2> HIDE DEF new, t, next, role, old
  <2>8. reply \in [Replies -> ReplyRow] /\ reply' \in [Replies -> ReplyRow]
    BY <2>1, <2>2 DEF ConversationsInv
  <2>9. reply'[r] = t /\ \A o \in Replies : o # r => reply'[o] = reply[o]
    BY <2>1, <2>8
  <2>10. ASSUME NEW o \in Replies PROVE ReplyPlaced(o)'
    <3>1. CASE o = r
      BY <2>1, <2>2, <2>3, <2>5, <2>6, <2>9, <3>1 DEF ReplyPlaced
    <3>2. CASE o # r
      <4>1. ReplyPlaced(o) /\ reply'[o] = reply[o]
        BY <2>9, <3>2 DEF ConversationsInv
      <4> QED BY <2>1, <4>1 DEF ReplyPlaced, Present
    <3> QED BY <3>1, <3>2
  <2>11. ASSUME NEW m \in message PROVE MessagePlaced(m)'
    <3>1. MessagePlaced(m) /\ m.by \in Replies
      BY DEF ConversationsInv, MessageRow
    <3>2. CASE m.by = r
      BY <2>1, <2>2, <2>6, <2>9, <3>1, <3>2 DEF MessagePlaced, Present, old
    <3>3. CASE m.by # r
      BY <2>1, <2>9, <3>1, <3>3 DEF MessagePlaced, Present
    <3> QED BY <3>2, <3>3
  <2>12. ASSUME NEW m \in message', m = new PROVE MessagePlaced(m)'
    BY <1>2, <2>1, <2>2, <2>3, <2>4, <2>6, <2>7, <2>9, <2>12 DEF MessagePlaced, Present, old
  <2>13. \A m \in message' : m \in message \/ m = new
    BY <2>1
  <2>14. \A m \in message' : MessagePlaced(m)'
    BY <2>11, <2>12, <2>13
  <2>15. message' \subseteq MessageRow
    BY <2>4, <2>13 DEF ConversationsInv
  <2> QED BY <2>1, <2>8, <2>10, <2>14, <2>15 DEF ConversationsInv
<1> QED BY <1>3, <1>4

\* A deletion that has taken rows and waits, and what does not touch them.
LEMMA NobodyMoves ==
  ASSUME ConversationsInv, UNCHANGED <<storage, ownerOf, message, reply>>,
         storage = "sqlite" => erasure'.pc = "idle"
  PROVE  ConversationsInv'
<1>1. \A r \in Replies : ReplyPlaced(r)'
  BY DEF ConversationsInv, ReplyPlaced, Present
<1>2. \A m \in message' : MessagePlaced(m)'
  BY DEF ConversationsInv, MessagePlaced, Present
<1> QED BY <1>1, <1>2 DEF ConversationsInv

LEMMA EraseKeeps ==
  ASSUME ConversationsInv, NEW e, Erase(e),
         storage = "sqlite" =>
           \A k \in Threads, m \in message :
              m.thread = k => (k \in e.threads <=> m \in e.messages)
  PROVE  ConversationsInv'
<1>1. /\ message' = message \ e.messages
      /\ ownerOf' = [k \in Threads |-> IF k \in e.threads THEN Gone ELSE ownerOf[k]]
      /\ erasure'.pc = "idle" /\ UNCHANGED <<storage, reply>>
  BY DEF Erase, NotErasing
<1>2. \A k \in Threads : ownerOf'[k] = Gone \/ ownerOf'[k] = ownerOf[k]
  BY <1>1
<1>3. ownerOf' \in [Threads -> Users \cup {NewThread, Gone}]
  BY <1>1 DEF ConversationsInv
<1>4. \A k \in Threads : k \in e.threads => ~Present(k)'
  BY <1>1, ConversationsAssumption DEF Present
<1>5. \A k \in Threads : k \notin e.threads => ownerOf'[k] = ownerOf[k]
  BY <1>1
<1>6. \A k \in Threads, r \in Replies :
         /\ Question(k, r).thread = k
         /\ storage = "sqlite" /\ Question(k, r) \in message /\ k \notin e.threads =>
               Question(k, r) \in message'
  BY <1>1 DEF Question
<1>7. ASSUME NEW r \in Replies PROVE ReplyPlaced(r)'
  <2>1. ReplyPlaced(r)
    BY DEF ConversationsInv
  <2>2. CASE reply[r].pc \in Placed
    <3>1. reply[r].thread \in Threads /\ ownerOf'[reply[r].thread] \in {reply[r].owner, Gone}
      BY <1>2, <2>1, <2>2 DEF ReplyPlaced
    <3>2. storage = "sqlite" /\ reply[r].pc = "answer" /\ Present(reply[r].thread)' =>
            Question(reply[r].thread, r) \in message'
      <4>1. Present(reply[r].thread)' => reply[r].thread \notin e.threads
        BY <1>1, <1>4, <3>1
      <4>2. Present(reply[r].thread)' => Present(reply[r].thread)
        BY <1>1, <1>5, <3>1, <4>1 DEF Present
      <4> QED BY <1>6, <2>1, <3>1, <4>1, <4>2 DEF ReplyPlaced
    <3> QED BY <1>1, <2>1, <3>1, <3>2 DEF ReplyPlaced
  <2>3. CASE reply[r].pc \notin Placed
    BY <1>1, <2>1, <2>3 DEF ReplyPlaced, Placed
  <2> QED BY <2>2, <2>3
<1>8. ASSUME NEW m \in message' PROVE MessagePlaced(m)'
  <2>1. m \in message /\ MessagePlaced(m) /\ m.by \in Replies /\ m.thread \in Threads
    BY <1>1 DEF ConversationsInv, MessageRow
  <2>2. storage = "sqlite" => m.thread \notin e.threads
    BY <1>1, <1>8, <2>1
  <2>3. storage = "sqlite" => Present(m.thread)'
    BY <1>5, <2>1, <2>2 DEF MessagePlaced, Present
  <2>4. storage = "sqlite" /\ m.role = "assistant" => Question(m.thread, m.by) \in message'
    BY <1>6, <2>1, <2>2 DEF MessagePlaced
  <2> QED BY <1>1, <1>2, <2>1, <2>3, <2>4 DEF MessagePlaced
<1> QED BY <1>1, <1>3, <1>7, <1>8 DEF ConversationsInv

LEMMA DeletionErases ==
  ASSUME ConversationsInv, NEW u \in Users, DeleteUserData(u)
  PROVE  ConversationsInv'
<1> DEFINE e == [owner |-> u, pc |-> "idle", messages |-> MessagesOf(u),
                 provenance |-> ProvenanceOf(u), threads |-> ThreadsOf(u), facts |-> FactsOf(u)]
<1>1. Erase(e)
  BY DEF DeleteUserData
<1>2. e.messages = MessagesOf(u) /\ e.threads = ThreadsOf(u)
  OBVIOUS
<1>3. \A m \in message : m.thread \in Threads => (m.thread \in ThreadsOf(u) <=> m \in MessagesOf(u))
  BY DEF MessagesOf
<1> HIDE DEF e
<1> QED BY <1>1, <1>2, <1>3, EraseKeeps

LEMMA ConversationsKeep == ConversationsInv /\ [ConversationsNext]_conversationVars => ConversationsInv'
<1> SUFFICES ASSUME ConversationsInv, [ConversationsNext]_conversationVars PROVE ConversationsInv'
  OBVIOUS
<1>1. ASSUME NEW r \in Replies, ReplyStep(r) PROVE ConversationsInv'
  <2>1. CASE RecordModelTrace(r) \/ ExtractFacts(r) \/ ReplyFails(r)
    BY <2>1, ReplyGoesOn
  <2>2. CASE AddQuestion(r) \/ AddAnswer(r)
    BY <2>2, AddMessageKeeps
  <2>3. ASSUME NEW u \in Users, BeginReply(r, u) PROVE ConversationsInv'
    <3> DEFINE t == [pc |-> "thread", owner |-> u, thread |-> NewThread]
    <3>1. /\ reply' = [reply EXCEPT ![r] = t] /\ reply[r].pc = "idle"
          /\ UNCHANGED <<storage, ownerOf, message, erasure>>
      BY <2>3 DEF BeginReply, At
    <3>2. t \in ReplyRow /\ t.pc = "thread" /\ t.owner = u
      BY DEF ReplyRow
    <3> HIDE DEF t
    <3> QED BY <3>1, <3>2, OneReplyMoves DEF Placed
  <2>4. ASSUME NEW k \in Threads, ContinueThread(r, k) PROVE ConversationsInv'
    BY <2>4, ContinueKeeps
  <2>5. ASSUME NEW k \in Threads, StartThread(r, k) PROVE ConversationsInv'
    BY <2>5, StartThreadKeeps
  <2> QED BY <1>1, <2>1, <2>2, <2>3, <2>4, <2>5 DEF ReplyStep
<1>2. ASSUME NEW u \in Users, DeleteUserData(u) PROVE ConversationsInv'
  BY <1>2, DeletionErases
<1>3. CASE (\E f \in fact : RetireFact(f)) \/ (\E u \in Users : DeleteMessages(u))
           \/ DeleteProvenance \/ DeleteThreads
  <2>1. /\ UNCHANGED <<storage, ownerOf, message, reply>>
        /\ erasure' = erasure \/ storage # "sqlite"
    BY <1>3 DEF ConversationsInv, RetireFact, DeleteMessages, DeleteProvenance, DeleteThreads
  <2> QED BY <2>1, NobodyMoves DEF ConversationsInv
<1>4. CASE UNCHANGED conversationVars
  BY <1>4, NobodyMoves DEF ConversationsInv, conversationVars
<1>5. CASE CommitErasure
  <2>1. Erase(erasure) /\ storage # "sqlite"
    BY <1>5 DEF CommitErasure, ConversationsInv
  <2> QED BY <2>1, EraseKeeps
<1> QED BY <1>1, <1>2, <1>3, <1>4, <1>5 DEF ConversationsNext

LEMMA ConversationsSafe == ConversationsInv => MessagesBelong
<1> SUFFICES ASSUME ConversationsInv, NEW m \in message
             PROVE  /\ Present(m.thread) => ownerOf[m.thread] = reply[m.by].owner
                    /\ storage = "sqlite" =>
                          /\ Present(m.thread)
                          /\ m.role = "assistant" => [m EXCEPT !.role = "user"] \in message
  BY DEF MessagesBelong
<1>1. MessagePlaced(m) /\ m \in MessageRow
  BY DEF ConversationsInv
<1>2. [m EXCEPT !.role = "user"] = Question(m.thread, m.by)
  BY <1>1 DEF MessageRow, Question
<1> QED BY <1>1, <1>2, ConversationsAssumption DEF MessagePlaced, Present

-----------------------------------------------------------------------------
(***************************************************************************)
(* Routes.  A call that is under way has asked the usable profiles before  *)
(* the first of those left, in order, and all of them failed.              *)
(***************************************************************************)
Going == {"asking", "loading", "loaded", "generating"}
Positions == DOMAIN RouteOf

CallRow == [pc : Going \cup {"idle", "answered", "error"}, op : {"chat", "decide"},
            left : SUBSET Positions, tries : Nat, by : Nat]
Attempt == [profile : Profiles \cup {"default"}, outcome : {"ok", "failed", "skipped"}]
TraceRow == [profile : Profiles \cup {"none", "default"}, attempts : SUBSET Attempt]

\* What is true of a call's row, of its trace, and of the trace that it told.
CallTold(call, kept, answer) ==
    UsesRouting =>
      /\ call.pc \in Going =>
           /\ call.left \subseteq Usable /\ call.left # {}
           /\ \A i \in Usable : i >= Min(call.left) => i \in call.left
           /\ kept.attempts = Fates(Min(call.left))
      /\ call.pc = "answered" =>
           /\ call.by \in Usable /\ answer.profile = RouteOf[call.by]
           /\ answer.attempts = Fates(call.by) \cup {[profile |-> answer.profile, outcome |-> "ok"]}
      /\ call.pc = "error" =>
           answer = [profile |-> "none", attempts |-> Fates(Len(RouteOf) + 1)]

SetupRow == [hfToken : BOOLEAN, hfFallback : BOOLEAN, allowPaid : BOOLEAN,
             transformers : BOOLEAN, shared : BOOLEAN, profiles : BOOLEAN, route : Routes]

RoutesInv ==
    /\ setup \in SetupRow /\ ask \in [Calls -> CallRow]
    /\ trace \in [Calls -> TraceRow] /\ told \in [Calls -> TraceRow]
    /\ \A c \in Calls : ask[c].pc \in Going => ask[c].left # {}
    /\ \A c \in Calls : CallTold(ask[c], trace[c], told[c])

LEMMA RouteIs ==
  ASSUME setup \in SetupRow
  PROVE  /\ RouteOf \in Seq(Profiles) /\ Len(RouteOf) \in Nat /\ Positions = 1 .. Len(RouteOf)
         /\ 1 \in Positions /\ Usable \subseteq Positions
         /\ \A i \in Positions : RouteOf[i] \in Profiles /\ i \in Nat
<1>1. DefaultChain \in Seq(Profiles) /\ Len(DefaultChain) \in Nat /\ Len(DefaultChain) >= 1
  <2> DEFINE one == <<"local">>
             two == <<"local", "inkling">>
  <2>1. one \in Seq(Profiles) /\ Len(one) = 1
    BY RoutesAssumption
  <2>2. two \in Seq(Profiles) /\ Len(two) = 2
    BY RoutesAssumption
  <2>3. DefaultChain = one \/ DefaultChain = two
    BY DEF DefaultChain
  <2>4. Len(one) \in Nat /\ Len(one) >= 1 /\ Len(two) \in Nat /\ Len(two) >= 1
    BY <2>1, <2>2
  <2> HIDE DEF one, two
  <2>5. CASE DefaultChain = one
    BY <2>1, <2>4, <2>5, Zenon
  <2>6. CASE DefaultChain = two
    BY <2>2, <2>4, <2>6, Zenon
  <2> QED BY <2>3, <2>5, <2>6
<1>2. setup.route \in Seq(Profiles)
  BY RoutesAssumption DEF SetupRow
<1>3. setup.route # <<>> => Len(setup.route) >= 1
  BY <1>2
<1>4. RouteOf \in Seq(Profiles) /\ Len(RouteOf) >= 1
  BY <1>1, <1>2, <1>3 DEF RouteOf
<1>5. Usable \subseteq Positions
  BY DEF Usable, Positions
<1> QED BY <1>4, <1>5 DEF Positions

LEMMA RouteStays ==
  ASSUME UNCHANGED setup
  PROVE  /\ RouteOf' = RouteOf /\ Usable' = Usable /\ (UsesRouting' <=> UsesRouting)
         /\ Positions' = Positions /\ \A n : Fates(n)' = Fates(n)
<1>1. RouteOf' = RouteOf /\ (UsesRouting' <=> UsesRouting)
  BY DEF RouteOf, DefaultChain, UsesRouting
<1>2. \A p : Unavailable(p)' <=> Unavailable(p)
  BY DEF Unavailable, HasKey, SharedReady
<1>3. Usable' = Usable
  BY <1>1, <1>2 DEF Usable
<1> QED BY <1>1, <1>3 DEF Positions, Fates

\* What one entry came to, and the entries a fate is told of.
LEMMA FatesAre ==
  ASSUME NEW n, NEW x
  PROVE  x \in Fates(n) <=>
           \E i \in Positions :
              \/ i < n /\ i \in Usable /\ x = [profile |-> RouteOf[i], outcome |-> "failed"]
              \/ i \notin Usable /\ x = [profile |-> RouteOf[i], outcome |-> "skipped"]
<1> DEFINE Fate(i) == [profile |-> RouteOf[i], outcome |-> IF i \in Usable THEN "failed" ELSE "skipped"]
           told_of == {j \in Positions : j < n \/ j \notin Usable}
<1>1. Fates(n) = {Fate(i) : i \in told_of}
  BY DEF Fates, Positions
<1>2. \A i : i \in Usable => Fate(i) = [profile |-> RouteOf[i], outcome |-> "failed"]
  OBVIOUS
<1>3. \A i : i \notin Usable => Fate(i) = [profile |-> RouteOf[i], outcome |-> "skipped"]
  OBVIOUS
<1>4. \A i : i \in told_of <=> i \in Positions /\ (i < n \/ i \notin Usable)
  OBVIOUS
<1>5. x \in Fates(n) <=> \E i \in told_of : x = Fate(i)
  BY <1>1
<1> HIDE DEF Fate, told_of
<1> QED BY <1>2, <1>3, <1>4, <1>5

LEMMA FatesStart ==
  ASSUME NEW n, \A i \in Usable : ~(i < n)
  PROVE  Fates(n) = Skipped
<1>1. \A x : x \in Skipped <=>
        \E i \in Positions : i \notin Usable /\ x = [profile |-> RouteOf[i], outcome |-> "skipped"]
  BY DEF Skipped, Positions
<1>2. \A x : x \in Fates(n) <=> x \in Skipped
  BY <1>1, FatesAre
<1> QED BY <1>2 DEF Fates, Skipped

\* The entry m fails and the next usable one, if any, is not before n.
LEMMA FatesGrow ==
  ASSUME setup \in SetupRow, NEW m \in Usable, NEW n \in Nat, m < n,
         \A i \in Usable : i < n => i <= m
  PROVE  Fates(n) = Fates(m) \cup {[profile |-> RouteOf[m], outcome |-> "failed"]}
<1> DEFINE now == [profile |-> RouteOf[m], outcome |-> "failed"]
<1>1. \A i \in Positions : i \in Nat
  BY RouteIs
<1>2. m \in Positions
  BY RouteIs
<1>3. \A i \in Usable : i \in Positions /\ (i < n <=> i < m \/ i = m)
  BY <1>1, RouteIs
<1>4. ASSUME NEW x PROVE x \in Fates(n) <=> x \in Fates(m) \/ x = now
  <2> HIDE DEF now
  <2>1. x \in Fates(n) => x \in Fates(m) \/ x = now
    BY <1>3, FatesAre DEF now
  <2>2. x \in Fates(m) => x \in Fates(n)
    BY <1>3, FatesAre
  <2>3. x = now => x \in Fates(n)
    BY <1>2, <1>3, FatesAre DEF now
  <2> QED BY <2>1, <2>2, <2>3
<1> HIDE DEF now
<1>5. Fates(n) = Fates(m) \cup {now}
  BY <1>4
<1> QED BY <1>5 DEF now

LEMMA RoutesStart == RoutesInit => RoutesInv
<1> SUFFICES ASSUME RoutesInit PROVE RoutesInv
  OBVIOUS
<1>1. NotAsking \in CallRow /\ NotAsking.pc = "idle"
  BY DEF NotAsking, CallRow
<1>2. NoTrace \in TraceRow
  BY DEF NoTrace, TraceRow
<1>3. setup \in SetupRow /\ trace \in [Calls -> TraceRow] /\ told \in [Calls -> TraceRow]
  BY <1>2 DEF RoutesInit, SetupRow
<1>4. ask \in [Calls -> CallRow] /\ \A c \in Calls : ask[c].pc = "idle"
  BY <1>1 DEF RoutesInit
<1> QED BY <1>3, <1>4 DEF RoutesInv, CallTold, Going

LEMMA CallMoves ==
  ASSUME RoutesInv, NEW c \in Calls, NEW a \in CallRow, NEW t \in TraceRow, NEW d \in TraceRow,
         UNCHANGED setup, ask' = [ask EXCEPT ![c] = a], trace' = [trace EXCEPT ![c] = t],
         told' = [told EXCEPT ![c] = d], a.pc \in Going => a.left # {}, CallTold(a, t, d)
  PROVE  RoutesInv'
<1>1. /\ RouteOf' = RouteOf /\ Usable' = Usable /\ (UsesRouting' <=> UsesRouting)
      /\ Positions' = Positions /\ \A n : Fates(n)' = Fates(n)
  BY RouteStays
<1>2. CallRow' = CallRow
  BY <1>1 DEF CallRow
<1>3. /\ ask \in [Calls -> CallRow] /\ trace \in [Calls -> TraceRow] /\ told \in [Calls -> TraceRow]
      /\ ask' \in [Calls -> CallRow] /\ trace' \in [Calls -> TraceRow] /\ told' \in [Calls -> TraceRow]
  BY DEF RoutesInv
<1>4. /\ ask'[c] = a /\ trace'[c] = t /\ told'[c] = d
      /\ \A o \in Calls : o # c => ask'[o] = ask[o] /\ trace'[o] = trace[o] /\ told'[o] = told[o]
  BY <1>3
<1>5. ASSUME NEW b, NEW k, NEW s, CallTold(b, k, s) PROVE CallTold(b, k, s)'
  BY <1>1, <1>5 DEF CallTold
<1>6. ASSUME NEW o \in Calls
      PROVE  CallTold(ask[o], trace[o], told[o])' /\ (ask'[o].pc \in Going => ask'[o].left # {})
  <2>1. PICK b, k, s : /\ ask'[o] = b /\ trace'[o] = k /\ told'[o] = s
                       /\ CallTold(b, k, s) /\ (b.pc \in Going => b.left # {})
    BY <1>4 DEF RoutesInv
  <2>2. CallTold(b, k, s)'
    BY <1>5, <2>1
  <2> QED BY <2>1, <2>2 DEF CallTold
<1>7. setup' \in SetupRow
  BY DEF RoutesInv
<1> QED BY <1>2, <1>3, <1>6, <1>7 DEF RoutesInv

LEMMA CallRows ==
  ASSUME RoutesInv, NEW c \in Calls
  PROVE  /\ ask[c] \in CallRow /\ trace[c] \in TraceRow /\ told[c] \in TraceRow
         /\ setup \in SetupRow /\ CallTold(ask[c], trace[c], told[c])
         /\ (ask[c].pc \in Going => ask[c].left # {})
         /\ trace = [trace EXCEPT ![c] = trace[c]] /\ told = [told EXCEPT ![c] = told[c]]
BY DEF RoutesInv

\* The entry that is asked, and what a call has of it.
LEMMA EntryIs ==
  ASSUME RoutesInv, NEW c \in Calls, ask[c].pc \in Going
  PROVE  /\ Entry(c) \in ask[c].left /\ Entry(c) \in Positions /\ Entry(c) \in Nat
         /\ \A i \in ask[c].left : Entry(c) <= i
         /\ Asked(c) = RouteOf[Entry(c)] /\ Asked(c) \in Profiles
         /\ \A outcome \in {"ok", "failed"} :
               Came(c, outcome) \in SUBSET Attempt
<1>1. /\ ask[c].left \subseteq Positions /\ ask[c].left # {} /\ setup \in SetupRow
      /\ trace[c].attempts \subseteq Attempt
  BY CallRows DEF CallRow, TraceRow
<1>2. /\ Len(RouteOf) \in Nat /\ Positions = 1 .. Len(RouteOf)
      /\ \A i \in Positions : RouteOf[i] \in Profiles /\ i \in Nat
  BY <1>1, RouteIs
<1>3. Entry(c) \in ask[c].left /\ \A i \in ask[c].left : Entry(c) <= i
  BY <1>1, <1>2, LeastExists DEF Entry
<1>4. Asked(c) = RouteOf[Entry(c)] /\ Asked(c) \in Profiles
  BY <1>1, <1>2, <1>3 DEF Asked
<1>5. \A outcome \in {"ok", "failed"} : Came(c, outcome) \in SUBSET Attempt
  BY <1>1, <1>4 DEF Came, Attempt
<1> QED BY <1>1, <1>2, <1>3, <1>4, <1>5

\* A call goes on with the profile that it asks.
LEMMA CallGoesOn ==
  ASSUME RoutesInv, NEW c \in Calls, NEW a \in CallRow, ask[c].pc \in Going, a.pc \in Going,
         a.left = ask[c].left, ask' = [ask EXCEPT ![c] = a], UNCHANGED <<setup, trace, told>>
  PROVE  RoutesInv'
<1>1. CallTold(ask[c], trace[c], told[c])
  BY CallRows
<1>2. CallTold(a, trace[c], told[c])
  BY <1>1 DEF CallTold, Going
<1>3. a.left # {}
  BY CallRows
<1>4. trace' = [trace EXCEPT ![c] = trace[c]] /\ told' = [told EXCEPT ![c] = told[c]]
  BY CallRows
<1>5. trace[c] \in TraceRow /\ told[c] \in TraceRow
  BY CallRows
<1> QED BY <1>2, <1>3, <1>4, <1>5, CallMoves

\* A call ends and its caller reads the trace.
LEMMA CallEnds ==
  ASSUME RoutesInv, NEW c \in Calls, NEW pc \in {"answered", "error"}, NEW by \in Nat,
         NEW ended \in TraceRow, EndCall(c, pc, by, ended), UNCHANGED setup,
         UsesRouting /\ pc = "answered" =>
           /\ by \in Usable /\ ended.profile = RouteOf[by]
           /\ ended.attempts = Fates(by) \cup {[profile |-> ended.profile, outcome |-> "ok"]},
         UsesRouting /\ pc = "error" =>
           ended = [profile |-> "none", attempts |-> Fates(Len(RouteOf) + 1)]
  PROVE  RoutesInv'
<1> DEFINE a == [pc |-> pc, op |-> ask[c].op, left |-> {}, tries |-> ask[c].tries, by |-> by]
           d == IF UsesRouting THEN ended
                ELSE [profile |-> "default", attempts |-> {[profile |-> "default", outcome |-> "ok"]}]
<1>1. /\ ask' = [ask EXCEPT ![c] = a] /\ trace' = [trace EXCEPT ![c] = ended]
      /\ told' = [told EXCEPT ![c] = LastModelTrace(c, trace')]
  BY DEF EndCall
<1>2. trace'[c] = ended
  BY <1>1 DEF RoutesInv
<1>3. told' = [told EXCEPT ![c] = d]
  BY <1>1, <1>2 DEF LastModelTrace
<1>4. a \in CallRow /\ a.pc = pc /\ a.by = by
  BY CallRows DEF CallRow
<1>5. d \in TraceRow /\ (UsesRouting => d = ended)
  BY DEF TraceRow, Attempt
<1> HIDE DEF a, d
<1>6. CallTold(a, ended, d)
  BY <1>4, <1>5 DEF CallTold, Going
<1>7. a.pc \notin Going
  BY <1>4 DEF Going
<1> QED BY <1>1, <1>3, <1>4, <1>5, <1>6, <1>7, CallMoves

LEMMA AnswerKeeps ==
  ASSUME RoutesInv, NEW c \in Calls, ask[c].pc \in Going, ProfileAnswers(c), UNCHANGED setup
  PROVE  RoutesInv'
<1> DEFINE ended == [profile |-> Asked(c), attempts |-> Came(c, "ok")]
<1>1. EndCall(c, "answered", Entry(c), ended)
  BY DEF ProfileAnswers
<1>2. Entry(c) \in ask[c].left /\ Entry(c) \in Nat /\ Asked(c) = RouteOf[Entry(c)] /\ Asked(c) \in Profiles
      /\ Came(c, "ok") \in SUBSET Attempt
  BY EntryIs
<1>3. ended \in TraceRow /\ ended.profile = Asked(c) /\ ended.attempts = Came(c, "ok")
  BY <1>2 DEF TraceRow
<1> HIDE DEF ended
<1>4. UsesRouting => Entry(c) \in Usable /\ Came(c, "ok") =
                       Fates(Entry(c)) \cup {[profile |-> Asked(c), outcome |-> "ok"]}
  BY <1>2, CallRows DEF CallTold, Entry, Came
<1> QED BY <1>1, <1>2, <1>3, <1>4, CallEnds

LEMMA FailureKeeps ==
  ASSUME RoutesInv, NEW c \in Calls, ask[c].pc \in Going, ProfileFails(c), UNCHANGED setup
  PROVE  RoutesInv'
<1> DEFINE m == Entry(c)
           left == ask[c].left
           now == Came(c, "failed")
<1>1. /\ m \in left /\ m \in Nat /\ m \in Positions /\ \A i \in left : m <= i
      /\ Asked(c) = RouteOf[m] /\ now \in SUBSET Attempt
  BY EntryIs
<1>2. /\ setup \in SetupRow /\ ask[c] \in CallRow /\ trace[c] \in TraceRow /\ told[c] \in TraceRow
      /\ left \subseteq Positions
  BY CallRows DEF CallRow
<1>3. /\ Len(RouteOf) \in Nat /\ Positions = 1 .. Len(RouteOf) /\ Usable \subseteq Positions
      /\ \A i \in Positions : i \in Nat /\ i < Len(RouteOf) + 1
  BY <1>2, RouteIs
<1>4. UsesRouting => /\ left \subseteq Usable
                     /\ \A i \in Usable : i >= m => i \in left
                     /\ now = Fates(m) \cup {[profile |-> RouteOf[m], outcome |-> "failed"]}
  BY <1>1, CallRows DEF CallTold, Entry, Came
<1>5. CASE left = {m}
  <2> DEFINE ended == [profile |-> "none", attempts |-> now]
  <2>1. EndCall(c, "error", 0, ended)
    BY <1>5 DEF ProfileFails
  <2>2. ended \in TraceRow
    BY <1>1 DEF TraceRow
  <2>3. UsesRouting => now = Fates(Len(RouteOf) + 1)
    <3> SUFFICES ASSUME UsesRouting PROVE now = Fates(Len(RouteOf) + 1)
      OBVIOUS
    <3>1. m \in Usable
      BY <1>1, <1>4
    <3>2. \A i \in Usable : i <= m
      BY <1>1, <1>3, <1>4, <1>5
    <3> DEFINE n == Len(RouteOf) + 1
    <3>3. n \in Nat /\ m < n
      BY <1>1, <1>3
    <3> HIDE DEF m, now, n
    <3>4. Fates(n) = Fates(m) \cup {[profile |-> RouteOf[m], outcome |-> "failed"]}
      BY <1>2, <3>1, <3>2, <3>3, FatesGrow
    <3> QED BY <1>4, <3>4 DEF n
  <2> HIDE DEF now
  <2> QED BY <2>1, <2>2, <2>3, CallEnds
<1>6. CASE left # {m}
  <2> DEFINE rest == left \ {m}
             n == Min(rest)
             a == [pc |-> "asking", op |-> ask[c].op, tries |-> 1, by |-> 0, left |-> rest]
             t == [trace[c] EXCEPT !.attempts = now]
  <2>1. ask' = [ask EXCEPT ![c] = a] /\ trace' = [trace EXCEPT ![c] = t] /\ UNCHANGED told
    BY <1>6 DEF ProfileFails
  <2>2. rest # {} /\ rest \subseteq Positions
    BY <1>1, <1>2, <1>6
  <2>3. a \in CallRow /\ a.pc = "asking" /\ a.left = rest
    BY <1>2, <2>2 DEF CallRow, Going
  <2>4. t \in TraceRow /\ t.attempts = now
    BY <1>1, <1>2 DEF TraceRow
  <2> HIDE DEF now, a, t
  <2>5. n \in rest /\ n \in Nat /\ \A i \in rest : n <= i
    <3> HIDE DEF rest
    <3> QED BY <1>3, <2>2, LeastExists
  <2>6. m < n
    BY <1>1, <1>2, <1>3, <2>5
  <2>7. UsesRouting =>
          /\ rest \subseteq Usable
          /\ \A i \in Usable : i >= n => i \in rest
          /\ now = Fates(n)
    <3> SUFFICES ASSUME UsesRouting
                 PROVE  rest \subseteq Usable /\ (\A i \in Usable : i >= n => i \in rest) /\ now = Fates(n)
      OBVIOUS
    <3> HIDE DEF n, m, left
    <3>1. m \in Usable /\ \A i \in Usable : i \in Nat
      BY <1>1, <1>3, <1>4
    <3>2. \A i \in Usable : i >= n => i \in rest
      BY <1>1, <1>4, <2>5, <2>6, <3>1
    <3>3. \A i \in Usable : i < n => i <= m
      BY <1>1, <1>4, <2>5, <3>1
    <3>4. now = Fates(n)
      BY <1>2, <1>4, <2>5, <2>6, <3>1, <3>3, FatesGrow
    <3> QED BY <1>4, <3>2, <3>4
  <2>8. CallTold(a, t, told[c])
    <3>1. a.left = rest /\ t.attempts = now /\ a.pc = "asking"
      BY <2>3, <2>4
    <3> HIDE DEF rest
    <3> QED BY <2>2, <2>7, <3>1 DEF CallTold
  <2>9. told' = [told EXCEPT ![c] = told[c]]
    BY <2>1, CallRows
  <2> HIDE DEF rest
  <2> QED BY <1>2, <2>1, <2>2, <2>3, <2>4, <2>8, <2>9, CallMoves
<1> QED BY <1>5, <1>6

LEMMA StartCallKeeps ==
  ASSUME RoutesInv, NEW c \in Calls, NEW op \in {"chat", "decide"}, StartCall(c, op)
  PROVE  RoutesInv'
<1> DEFINE t == [profile |-> "none", attempts |-> Skipped]
<1>1. /\ trace' = [trace EXCEPT ![c] = t] /\ UNCHANGED setup
      /\ setup \in SetupRow /\ told[c] \in TraceRow
  BY CallRows DEF StartCall
<1>2. trace'[c] = t
  BY <1>1 DEF RoutesInv
<1>3. /\ Len(RouteOf) \in Nat /\ Positions = 1 .. Len(RouteOf) /\ 1 \in Positions /\ Usable \subseteq Positions
      /\ \A i \in Positions : RouteOf[i] \in Profiles /\ i \in Nat
  BY <1>1, RouteIs
<1>4. t \in TraceRow /\ t.attempts = Skipped
  <2>1. Skipped \subseteq Attempt
    BY <1>3 DEF Skipped, Attempt, Positions
  <2> QED BY <2>1 DEF TraceRow
<1>5. CASE UsesRouting /\ Usable = {}
  <2> DEFINE b == [NotAsking EXCEPT !.pc = "error"]
             a == [b EXCEPT !.op = op]
  <2>1. ask' = [ask EXCEPT ![c] = a] /\ told' = [told EXCEPT ![c] = t]
    BY <1>2, <1>5 DEF StartCall
  <2>2. b \in CallRow /\ b.pc = "error"
    BY DEF CallRow, NotAsking
  <2> HIDE DEF b
  <2>3. a \in CallRow /\ a.pc = "error"
    BY <2>2 DEF CallRow
  <2> HIDE DEF a
  <2>4. Fates(Len(RouteOf) + 1) = Skipped
    BY <1>5, FatesStart
  <2>5. CallTold(a, t, t)
    BY <2>3, <2>4 DEF CallTold, Going
  <2>6. a.pc \notin Going
    BY <2>3 DEF Going
  <2> HIDE DEF t
  <2> QED BY <1>1, <1>4, <2>1, <2>3, <2>5, <2>6, CallMoves
<1>6. CASE ~(UsesRouting /\ Usable = {})
  <2> DEFINE left == IF UsesRouting THEN Usable ELSE {1}
             a == [pc |-> "asking", op |-> op, tries |-> 1, by |-> 0, left |-> left]
  <2>1. ask' = [ask EXCEPT ![c] = a] /\ told' = [told EXCEPT ![c] = told[c]]
    <3>1. ask' = [ask EXCEPT ![c] = a] /\ told' = told
      BY <1>6 DEF StartCall
    <3> QED BY <3>1, CallRows
  <2>2. left # {} /\ left \subseteq Positions /\ (UsesRouting => left = Usable)
    BY <1>3, <1>6
  <2> HIDE DEF left
  <2>3. a \in CallRow /\ a.pc = "asking" /\ a.left = left
    BY <2>2 DEF CallRow, Going
  <2>4. Min(left) \in Nat /\ \A i \in left : Min(left) <= i
    BY <1>3, <2>2, LeastExists
  <2>5. UsesRouting => Fates(Min(left)) = Skipped
    <3>1. UsesRouting => \A i \in Usable : ~(i < Min(left))
      BY <1>3, <2>2, <2>4
    <3> QED BY <3>1, FatesStart
  <2> HIDE DEF a, t
  <2>6. CallTold(a, t, told[c])
    BY <1>4, <2>2, <2>3, <2>5 DEF CallTold
  <2> QED BY <1>1, <1>4, <2>1, <2>2, <2>3, <2>6, CallMoves
<1> QED BY <1>5, <1>6

LEMMA RouteStepKeeps ==
  ASSUME RoutesInv, NEW c \in Calls, RouteStep(c)
  PROVE  RoutesInv'
<1>1. ask[c] \in CallRow
  BY CallRows
<1>2. UNCHANGED setup /\ ask[c].pc \in Going
  BY DEF RouteStep, HttpAnswers, Asking, SharedAnswers, BeginLoad, EndLoad, BeginGenerate,
         EndGenerate, Going
<1>3. CASE ProfileAnswers(c)
  BY <1>2, <1>3, AnswerKeeps
<1>4. CASE ProfileFails(c)
  BY <1>2, <1>4, FailureKeeps
<1>5. ASSUME ask' = [ask EXCEPT ![c].tries = @ + 1], UNCHANGED <<trace, told>> PROVE RoutesInv'
  <2> DEFINE a == [ask[c] EXCEPT !.tries = @ + 1]
  <2>1. ask' = [ask EXCEPT ![c] = a]
    BY <1>5
  <2>2. a \in CallRow /\ a.pc = ask[c].pc /\ a.left = ask[c].left
    BY <1>1 DEF CallRow
  <2> HIDE DEF a
  <2> QED BY <1>2, <1>5, <2>1, <2>2, CallGoesOn
<1>6. ASSUME NEW pc \in Going, ask' = [ask EXCEPT ![c].pc = pc], UNCHANGED <<trace, told>>
      PROVE  RoutesInv'
  <2> DEFINE a == [ask[c] EXCEPT !.pc = pc]
  <2>1. ask' = [ask EXCEPT ![c] = a]
    BY <1>6
  <2>2. a \in CallRow /\ a.pc = pc /\ a.left = ask[c].left
    BY <1>1 DEF CallRow
  <2> HIDE DEF a
  <2> QED BY <1>2, <1>6, <2>1, <2>2, CallGoesOn
<1>7. CASE \E outcome \in DecideOutcomes \union ChatOutcomes : HttpAnswers(c, outcome)
  BY <1>3, <1>4, <1>5, <1>7 DEF HttpAnswers
<1>8. CASE SharedAnswers(c)
  BY <1>3, <1>4, <1>8 DEF SharedAnswers
<1>9. CASE BeginLoad(c)
  BY <1>6, <1>9 DEF BeginLoad, Going
<1>10. CASE EndLoad(c)
  BY <1>4, <1>6, <1>10 DEF EndLoad, Going
<1>11. CASE BeginGenerate(c)
  BY <1>6, <1>11 DEF BeginGenerate, Going
<1>12. CASE EndGenerate(c)
  BY <1>3, <1>4, <1>12 DEF EndGenerate
<1> QED BY <1>7, <1>8, <1>9, <1>10, <1>11, <1>12 DEF RouteStep

LEMMA RoutesKeep == RoutesInv /\ [RoutesNext]_routeVars => RoutesInv'
<1> SUFFICES ASSUME RoutesInv, [RoutesNext]_routeVars PROVE RoutesInv'
  OBVIOUS
<1>1. ASSUME UNCHANGED routeVars PROVE RoutesInv'
  <2>1. UNCHANGED <<setup, ask, trace, told>>
    BY <1>1 DEF routeVars
  <2>2. /\ RouteOf' = RouteOf /\ Usable' = Usable /\ (UsesRouting' <=> UsesRouting)
        /\ Positions' = Positions /\ \A n : Fates(n)' = Fates(n)
    BY <2>1, RouteStays
  <2>3. CallRow' = CallRow
    BY <2>2 DEF CallRow
  <2>4. \A c \in Calls : CallTold(ask[c], trace[c], told[c])'
    BY <2>1, <2>2 DEF RoutesInv, CallTold
  <2> QED BY <2>1, <2>3, <2>4 DEF RoutesInv
<1>2. ASSUME NEW c \in Calls, RouteStep(c) PROVE RoutesInv'
  BY <1>2, RouteStepKeeps
<1>3. ASSUME NEW c \in Calls, NEW op \in {"chat", "decide"}, StartCall(c, op) PROVE RoutesInv'
  BY <1>3, StartCallKeeps
<1> QED BY <1>1, <1>2, <1>3 DEF RoutesNext

LEMMA RoutesSafe == RoutesInv => TraceIsOfThisAnswer
BY DEF RoutesInv, CallTold, TraceIsOfThisAnswer

(***************************************************************************)
(* A reply is its owner's and says truly how it came about: whatever       *)
(* delete_user_data() of companion/store.py does while reply() waits for   *)
(* the model, no text lands in another user's conversation, and the trace  *)
(* that last_model_trace() of model_profiles.py gives is that of the call  *)
(* itself, for any users, replies, calls and routes.                       *)
(***************************************************************************)
THEOREM RepliesSound == ConversationsSpec /\ RoutesSpec => []RepliesHold
<1>1. ConversationsInit => ConversationsInv
  BY ConversationsStart
<1>2. ConversationsInv /\ [ConversationsNext]_conversationVars => ConversationsInv'
  BY ConversationsKeep
<1>3. RoutesInit => RoutesInv
  BY RoutesStart
<1>4. RoutesInv /\ [RoutesNext]_routeVars => RoutesInv'
  BY RoutesKeep
<1>5. ConversationsInv /\ RoutesInv => RepliesHold
  BY ConversationsSafe, RoutesSafe DEF RepliesHold
<1> QED BY <1>1, <1>2, <1>3, <1>4, <1>5, PTL DEF ConversationsSpec, RoutesSpec
=============================================================================
