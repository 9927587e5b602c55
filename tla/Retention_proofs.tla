-------------------------- MODULE Retention_proofs --------------------------
(***************************************************************************)
(* Proofs about Retention for any rows, kinds, requests, days and clock.   *)
(***************************************************************************)
EXTENDS Retention, TLAPS

Inv == /\ TypeOK /\ Locals /\ Snapshots
       /\ BuiltinsStay /\ BuiltinsUnlisted
       /\ Listed /\ ReferencesHold

(* The ends of a reference are rows, of the kinds its table joins.         *)
LEMMA ReferenceEnds ==
  ASSUME NEW p \in References
  PROVE  /\ p[1] \in Items /\ p[2] \in Items
         /\ Ends(p) \in Bindings \cup Assignments \cup Links
         /\ Ends(p)[1] = KindOf[p[1]] /\ Ends(p)[2] = KindOf[p[2]]
  BY DEF References, Ends

LEMMA IdleIsTyped ==
  Idle \in RequestType /\ Idle.pc = "idle" /\ LocalsOf(Idle) /\ SnapshotOf(Idle)
<1>1. Idle.pc = "idle" /\ Idle \in RequestType
  BY DEF Idle, RequestType, Labels
<1>2. QED
  BY <1>1 DEF LocalsOf, SnapshotOf

LEMMA KindsOfOrder == \A i \in Positions : PurgeOrder[i] \in Kinds
  BY DEF Kinds

LEMMA AsleepIsTyped ==
  /\ Asleep \in [next : 0..7, todo : SUBSET Items,
                 days : [Kinds -> Days \cup {None}]]
  /\ Asleep.todo = {}
  BY DEF Asleep

LEMMA InitInv == Init => Inv
<1> SUFFICES ASSUME Init PROVE Inv
  OBVIOUS
<1>1. TypeOK
  <2>1. now \in 0..MaxTime
    BY TimeAssumption DEF Init
  <2>2. cycle \in [next : 0..7, todo : SUBSET Items,
                   days : [Kinds -> Days \cup {None}]]
    BY AsleepIsTyped DEF Init
  <2>3. req \in [Requests -> RequestType]
    BY IdleIsTyped DEF Init
  <2>4. QED
    BY <2>1, <2>2, <2>3 DEF Init, TypeOK
<1>2. Locals /\ Snapshots
  BY IdleIsTyped DEF Init, Locals, Snapshots
<1>3. BuiltinsStay /\ BuiltinsUnlisted
  BY BuiltinAssumption, AsleepIsTyped DEF Init, BuiltinsStay, BuiltinsUnlisted, Active
<1>4. Listed /\ ReferencesHold
  BY AsleepIsTyped DEF Init, Listed, ReferencesHold
<1>5. QED
  BY <1>1, <1>2, <1>3, <1>4 DEF Inv

-----------------------------------------------------------------------------
(* Steps that only move a request on.                                      *)

LEMMA RequestMoves ==
  ASSUME Inv, NEW r \in Requests, NEW q \in RequestType, LocalsOf(q),
         req' = [req EXCEPT ![r] = q]
  PROVE  req' \in [Requests -> RequestType] /\ Locals'
  BY DEF Inv, TypeOK, Locals, LocalsOf

LEMMA QuietMoves ==
  ASSUME Inv, NEW r \in Requests, NEW q \in RequestType,
         LocalsOf(q), SnapshotOf(q),
         req' = [req EXCEPT ![r] = q],
         UNCHANGED <<data, settings, now, cycle, history>>
  PROVE  Inv'
<1> USE DEF data, settings, history
<1>1. req' \in [Requests -> RequestType] /\ Locals'
  BY RequestMoves
<1>2. TypeOK'
  BY <1>1 DEF Inv, TypeOK
<1>3. \A x : Counted(x)' = Counted(x)
  BY DEF Counted
<1>4. Snapshots'
  <2>1. SUFFICES ASSUME ~raced', NEW s \in Requests PROVE SnapshotOf(req[s])'
    BY DEF Snapshots
  <2>2. CASE s = r
    BY <2>2, <1>3 DEF SnapshotOf, Inv, TypeOK
  <2>3. CASE s # r
    <3>1. SnapshotOf(req[s]) /\ req'[s] = req[s]
      BY <2>1, <2>3 DEF Snapshots, Inv, TypeOK
    <3>2. QED
      BY <3>1, <1>3 DEF SnapshotOf
  <2>4. QED
    BY <2>2, <2>3
<1>5. BuiltinsStay' /\ BuiltinsUnlisted' /\ Listed' /\ ReferencesHold'
  BY DEF Inv, BuiltinsStay, BuiltinsUnlisted, Listed, ReferencesHold, Active,
         Expired
<1>6. QED
  BY <1>1, <1>2, <1>4, <1>5 DEF Inv

LEMMA GotoMoves ==
  ASSUME Inv, NEW r \in Requests, NEW l \in Labels,
         NEW a \in Items \cup References,
         Goto(r, l, a),
         l \in {"soft", "count", "erase"} => a \in Items \ Builtin,
         l \in {"target", "insert", "remove"} => a \in References,
         l = "erase" => Counted(a) = {},
         l = "insert" => a[2] \in row,
         UNCHANGED <<data, settings, now, cycle, history>>
  PROVE  Inv'
<1> DEFINE q == [pc |-> l, about |-> a]
<1>1. q \in RequestType /\ LocalsOf(q) /\ SnapshotOf(q)
  BY DEF RequestType, LocalsOf, SnapshotOf
<1>2. req' = [req EXCEPT ![r] = q]
  BY DEF Goto
<1> HIDE DEF q
<1>3. QED
  BY <1>1, <1>2, QuietMoves

LEMMA DoneMoves ==
  ASSUME Inv, NEW r \in Requests, Done(r),
         UNCHANGED <<data, settings, now, cycle, history>>
  PROVE  Inv'
  BY IdleIsTyped, QuietMoves DEF Done

(* What an unguarded kind would count is nothing.                          *)
LEMMA HardPathIsSafe ==
  ASSUME NEW x \in Items
  PROVE  /\ HardPath(x) \in {"count", "erase"}
         /\ HardPath(x) = "erase" => Counted(x) = {}
  BY DEF HardPath, HasGuard, Counted

LEMMA StartKeepsInv ==
  ASSUME Inv, NEW r \in Requests, Start(r)
  PROVE  Inv'
<1>1. ASSUME NEW x \in Items, Delete(r, x) \/ PermanentlyDelete(r, x)
      PROVE  Inv'
  <2>1. PICK l \in {"soft", "count", "erase"} :
          Goto(r, l, x) /\ (l = "erase" => Counted(x) = {})
    BY <1>1, HardPathIsSafe DEF Delete, PermanentlyDelete, DeletePath
  <2>2. /\ x \in Items \ Builtin
        /\ UNCHANGED <<data, settings, now, cycle, history>>
    BY <1>1 DEF Delete, PermanentlyDelete
  <2>3. QED
    BY <2>1, <2>2, GotoMoves DEF Labels
<1>2. ASSUME NEW p \in References, Add(r, p)
      PROVE  Inv'
  BY <1>2, GotoMoves DEF Add, Labels
<1>3. ASSUME NEW p \in References, Remove(r, p)
      PROVE  Inv'
  BY <1>3, GotoMoves DEF Remove, Labels
<1>4. QED
  BY <1>1, <1>2, <1>3 DEF Start

-----------------------------------------------------------------------------
(* Steps that remove a row or add a reference: unless raced, nobody else   *)
(* is between two statements.                                              *)

LEMMA InterfereLeavesIdle ==
  ASSUME Inv, NEW S \in SUBSET Requests, Interfere(S), ~raced',
         \A r \in Requests \ S : req'[r] = req[r],
         \A r \in S : req'[r] = Idle
  PROVE  Snapshots'
<1>1. SUFFICES ASSUME NEW s \in Requests PROVE SnapshotOf(req[s])'
  BY DEF Snapshots
<1>2. (req[s]).pc' = "idle"
  BY IdleIsTyped DEF Interfere, At
<1>3. QED
  BY <1>2 DEF SnapshotOf

(* Erasing a row nothing that is counted or bound refers to; what the      *)
(* foreign keys and the guard leave to check is assignments.               *)
LEMMA EraseKeepsData ==
  ASSUME Inv, NEW x \in Items \ Builtin, Bound(x) = {}, EraseRow(x),
         raced' \in BOOLEAN, raced => raced', Counted(x) = {} \/ raced',
         UNCHANGED <<settings, now, restored>>,
         cycle'.todo \subseteq cycle.todo, cycle'.days = cycle.days
  PROVE  /\ row' \subseteq Items /\ refs' \subseteq References
         /\ deletedAt' \in [Items -> 0..MaxTime \cup {None}]
         /\ BuiltinsStay' /\ BuiltinsUnlisted' /\ Listed' /\ ReferencesHold'
<1> USE DEF settings
<1>1. /\ row' = row \ {x} /\ refs' = refs \ Cascade(x)
      /\ deletedAt' = [deletedAt EXCEPT ![x] = None]
  BY DEF EraseRow
<1>2. /\ row' \subseteq Items /\ refs' \subseteq References
      /\ deletedAt' \in [Items -> 0..MaxTime \cup {None}]
  BY <1>1 DEF Inv, TypeOK
<1>3. BuiltinsStay' /\ BuiltinsUnlisted'
  BY <1>1, BuiltinAssumption
     DEF Inv, TypeOK, BuiltinsStay, BuiltinsUnlisted, Active
<1>4. Listed'
  BY <1>1 DEF Inv, TypeOK, Listed, Expired
<1>5. ReferencesHold'
  <2> SUFFICES ASSUME NEW p \in refs'
               PROVE  /\ Ends(p) \in Bindings \cup Assignments => p[1] \in row'
                      /\ Ends(p) \in Bindings \cup Links => p[2] \in row'
                      /\ KindOf[p[2]] = "group" => p[2] \in row' \/ raced'
    BY DEF ReferencesHold, Ends, Bindings, Assignments, Links
  <2>1. p \in refs /\ p \in References /\ p \notin Cascade(x)
    BY <1>1 DEF Inv, TypeOK
  <2>2. /\ p[1] \in Items /\ p[2] \in Items
        /\ Ends(p)[1] = KindOf[p[1]] /\ Ends(p)[2] = KindOf[p[2]]
    BY <2>1, ReferenceEnds
  <2>3. Ends(p) \in Bindings \cup Assignments => p[1] \in row'
    <3>1. Ends(p) \in Bindings \cup Assignments
            => KindOf[p[1]] = "configuration_group"
      BY <2>2 DEF Bindings, Assignments
    <3>2. QED
      BY <1>1, <2>1, <3>1 DEF Inv, ReferencesHold, Cascade
  <2>4. Ends(p) \in Bindings => p[2] # x
    <3>1. Ends(p) \in Bindings => KindOf[p[2]] = "policy_module"
      BY <2>2 DEF Bindings
    <3>2. QED
      BY <2>1, <3>1 DEF Bound
  <2>5. Ends(p) \in Links => p[2] # x
    <3>1. Ends(p) \in Links => KindOf[p[2]] = "dependency_group"
      BY <2>2 DEF Links
    <3>2. QED
      BY <2>1, <3>1 DEF Cascade
  <2>6. KindOf[p[2]] = "group" => p[2] # x \/ raced'
    BY <2>1 DEF Counted
  <2>7. QED
    BY <1>1, <2>1, <2>3, <2>4, <2>5, <2>6 DEF Inv, ReferencesHold
<1>6. QED
  BY <1>2, <1>3, <1>4, <1>5

LEMMA EraseKeepsInv ==
  ASSUME Inv, NEW r \in Requests, Erase(r)
  PROVE  Inv'
<1> DEFINE x == req[r].about
<1>1. x \in Items \ Builtin
  BY DEF Erase, At, Inv, Locals, LocalsOf
<1>2. CASE Bound(x) # {}
  BY <1>2, DoneMoves DEF Erase, data, history
<1>3. CASE Bound(x) = {}
  <2>1. /\ EraseRow(x) /\ Interfere({r}) /\ Done(r)
        /\ UNCHANGED <<settings, now, cycle, restored>>
    BY <1>3 DEF Erase
  <2>2. raced' \in BOOLEAN /\ (raced => raced')
    BY <2>1 DEF Interfere, Inv, TypeOK
  <2>3. Counted(x) = {} \/ raced'
    BY <2>2 DEF Erase, At, Inv, Snapshots, SnapshotOf
  <2> HIDE DEF x
  <2>4. /\ row' \subseteq Items /\ refs' \subseteq References
        /\ deletedAt' \in [Items -> 0..MaxTime \cup {None}]
        /\ BuiltinsStay' /\ BuiltinsUnlisted' /\ Listed' /\ ReferencesHold'
    BY <1>1, <1>3, <2>1, <2>2, <2>3, EraseKeepsData
  <2>5. req' \in [Requests -> RequestType] /\ Locals'
    BY <2>1, IdleIsTyped, RequestMoves DEF Done
  <2>6. Snapshots'
    <3>1. CASE raced'
      BY <3>1 DEF Snapshots
    <3>2. CASE ~raced'
      <4>1. /\ \A s \in Requests \ {r} : req'[s] = req[s]
            /\ \A s \in {r} : req'[s] = Idle
        BY <2>1 DEF Done, Inv, TypeOK
      <4>2. QED
        BY <2>1, <3>2, <4>1, InterfereLeavesIdle
    <3>3. QED
      BY <3>1, <3>2
  <2>7. TypeOK'
    BY <2>1, <2>2, <2>4, <2>5 DEF Inv, TypeOK, settings
  <2>8. QED
    BY <2>4, <2>5, <2>6, <2>7 DEF Inv
<1>4. QED
  BY <1>2, <1>3

LEMMA AddInsertKeepsInv ==
  ASSUME Inv, NEW r \in Requests, AddInsert(r)
  PROVE  Inv'
<1> DEFINE p == req[r].about
<1>1. p \in References
  BY DEF AddInsert, At, Inv, Locals, LocalsOf
<1>2. CASE ~KeysHold(p)
  BY <1>2, DoneMoves DEF AddInsert, data, history
<1>3. CASE KeysHold(p)
  <2>1. /\ refs' = refs \cup {p} /\ Interfere({r}) /\ Done(r)
        /\ UNCHANGED <<row, deletedAt, settings, now, cycle, restored>>
    BY <1>3 DEF AddInsert
  <2>2. raced' \in BOOLEAN /\ (raced => raced')
    BY <2>1 DEF Interfere, Inv, TypeOK
  <2>3. KindOf[p[2]] = "group" => p[2] \in row \/ raced'
    BY <2>2 DEF AddInsert, At, Inv, Snapshots, SnapshotOf
  <2> HIDE DEF p
  <2>4. ReferencesHold'
    <3>1. /\ Ends(p) \in Bindings \cup Assignments => p[1] \in row
          /\ Ends(p) \in Bindings \cup Links => p[2] \in row
      <4>1. /\ Ends(p) \in Bindings \cup Assignments => Ends(p) \notin Links
            /\ Ends(p) \in Bindings \cup Links => Ends(p) \notin Assignments
        BY DEF Bindings, Assignments, Links
      <4>2. QED
        BY <1>3, <4>1 DEF KeysHold
    <3>2. QED
      BY <2>1, <2>2, <2>3, <3>1 DEF Inv, ReferencesHold, Ends
  <2>5. req' \in [Requests -> RequestType] /\ Locals'
    BY <2>1, IdleIsTyped, RequestMoves DEF Done
  <2>6. Snapshots'
    <3>1. CASE raced'
      BY <3>1 DEF Snapshots
    <3>2. CASE ~raced'
      <4>1. /\ \A s \in Requests \ {r} : req'[s] = req[s]
            /\ \A s \in {r} : req'[s] = Idle
        BY <2>1 DEF Done, Inv, TypeOK
      <4>2. QED
        BY <2>1, <3>2, <4>1, InterfereLeavesIdle
    <3>3. QED
      BY <3>1, <3>2
  <2>7. TypeOK'
    BY <1>1, <2>1, <2>2, <2>5 DEF Inv, TypeOK, settings
  <2>8. BuiltinsStay' /\ BuiltinsUnlisted' /\ Listed'
    BY <2>1 DEF Inv, BuiltinsStay, BuiltinsUnlisted, Listed, Active, Expired
  <2>9. QED
    BY <2>4, <2>5, <2>6, <2>7, <2>8 DEF Inv
<1>4. QED
  BY <1>2, <1>3

-----------------------------------------------------------------------------
(* The other steps of a request.                                           *)

(* Snapshots survive while no row goes, no reference comes, and requests   *)
(* stay where they are or end.                                             *)
LEMMA SnapshotsKept ==
  ASSUME Inv, row' = row, refs' \subseteq refs, raced' = raced,
         \A s \in Requests : req'[s] \in {req[s], Idle}
  PROVE  Snapshots'
<1>1. SUFFICES ASSUME ~raced', NEW s \in Requests PROVE SnapshotOf(req[s])'
  BY DEF Snapshots
<1>2. \A x : Counted(x)' \subseteq Counted(x)
  BY DEF Counted
<1>3. CASE req'[s] = Idle
  BY <1>3, IdleIsTyped DEF SnapshotOf
<1>4. CASE req'[s] = req[s]
  <2>1. SnapshotOf(req[s])
    BY <1>1 DEF Inv, Snapshots
  <2>2. QED
    BY <1>2, <1>4, <2>1 DEF SnapshotOf
<1>5. QED
  BY <1>3, <1>4

LEMMA SoftDeleteKeepsInv ==
  ASSUME Inv, NEW r \in Requests, SoftDelete(r)
  PROVE  Inv'
<1> DEFINE x == req[r].about
<1>1. x \in Items \ Builtin
  BY DEF SoftDelete, At, Inv, Locals, LocalsOf
<1>2. /\ deletedAt' = IF Active(x) THEN [deletedAt EXCEPT ![x] = now]
                      ELSE deletedAt
      /\ Done(r)
      /\ UNCHANGED <<row, refs, settings, now, cycle, history>>
  BY DEF SoftDelete
<1> HIDE DEF x
<1>3. req' \in [Requests -> RequestType] /\ Locals'
  BY <1>2, IdleIsTyped, RequestMoves DEF Done
<1>4. TypeOK'
  BY <1>1, <1>2, <1>3 DEF Inv, TypeOK, settings, history
<1>5. Snapshots'
  <2>1. \A s \in Requests : req'[s] \in {req[s], Idle}
    BY <1>2 DEF Done, Inv, TypeOK
  <2>2. QED
    BY <1>2, <2>1, SnapshotsKept DEF history
<1>6. BuiltinsStay' /\ BuiltinsUnlisted'
  BY <1>1, <1>2, BuiltinAssumption
     DEF Inv, TypeOK, BuiltinsStay, BuiltinsUnlisted, Active
<1>7. Listed'
  <2>1. ASSUME NEW y \in (cycle.todo \cap row) \ restored
        PROVE  y \in Items /\ Expired(y, cycle.days[KindOf[y]])
    BY DEF Inv, TypeOK, Listed
  <2>2. ASSUME NEW y \in (cycle.todo \cap row) \ restored
        PROVE  deletedAt'[y] = deletedAt[y]
    BY <1>1, <1>2, <2>1 DEF Active, Expired, Inv, TypeOK
  <2>3. QED
    BY <1>2, <2>1, <2>2 DEF Listed, Expired, history
<1>8. ReferencesHold'
  BY <1>2 DEF Inv, ReferencesHold, history
<1>9. QED
  BY <1>3, <1>4, <1>5, <1>6, <1>7, <1>8 DEF Inv

LEMMA RemoveWriteKeepsInv ==
  ASSUME Inv, NEW r \in Requests, RemoveWrite(r)
  PROVE  Inv'
<1>1. /\ refs' \subseteq refs /\ Done(r)
      /\ UNCHANGED <<row, deletedAt, settings, now, cycle, history>>
  BY DEF RemoveWrite
<1>2. req' \in [Requests -> RequestType] /\ Locals'
  BY <1>1, IdleIsTyped, RequestMoves DEF Done
<1>3. TypeOK'
  BY <1>1, <1>2 DEF Inv, TypeOK, settings, history
<1>4. Snapshots'
  <2>1. \A s \in Requests : req'[s] \in {req[s], Idle}
    BY <1>1 DEF Done, Inv, TypeOK
  <2>2. QED
    BY <1>1, <2>1, SnapshotsKept DEF history
<1>5. BuiltinsStay' /\ BuiltinsUnlisted' /\ Listed' /\ ReferencesHold'
  BY <1>1 DEF Inv, BuiltinsStay, BuiltinsUnlisted, Listed, ReferencesHold,
              Active, Expired, history, Ends
<1>6. QED
  BY <1>2, <1>3, <1>4, <1>5 DEF Inv

LEMMA ContinueKeepsInv ==
  ASSUME Inv, NEW r \in Requests, Continue(r)
  PROVE  Inv'
<1>1. CASE SoftDelete(r)
  BY <1>1, SoftDeleteKeepsInv
<1>2. CASE Erase(r)
  BY <1>2, EraseKeepsInv
<1>3. CASE AddInsert(r)
  BY <1>3, AddInsertKeepsInv
<1>4. CASE RemoveWrite(r)
  BY <1>4, RemoveWriteKeepsInv
<1>5. CASE Fail(r)
  BY <1>5, DoneMoves DEF Fail
<1>6. CASE Count(r)
  <2>1. req[r].about \in Items \ Builtin
    BY <1>6 DEF Count, At, Inv, Locals, LocalsOf
  <2>2. CASE Counted(req[r].about) = {}
    BY <1>6, <2>1, <2>2, GotoMoves DEF Count, Labels
  <2>3. CASE Counted(req[r].about) # {}
    BY <1>6, <2>3, DoneMoves DEF Count
  <2>4. QED
    BY <2>2, <2>3
<1>7. CASE AddCheck(r)
  <2>1. req[r].about \in References
    BY <1>7 DEF AddCheck, At, Inv, Locals, LocalsOf
  <2>2. CASE Active(req[r].about[2])
    BY <1>7, <2>1, <2>2, GotoMoves DEF AddCheck, Labels, Active
  <2>3. CASE ~Active(req[r].about[2])
    BY <1>7, <2>3, DoneMoves DEF AddCheck
  <2>4. QED
    BY <2>2, <2>3
<1>8. QED
  BY <1>1, <1>2, <1>3, <1>4, <1>5, <1>6, <1>7 DEF Continue

-----------------------------------------------------------------------------
(* Settings, restores, the clock.                                          *)

LEMMA SimpleStepsKeepInv ==
  ASSUME Inv,
         \/ \E k \in Kinds : \E m \in {"soft", "immediate"},
                                d \in Days \cup {None} : UpdateSetting(k, m, d)
         \/ Tick
  PROVE  Inv'
<1>1. /\ UNCHANGED <<data, cycle, req, history>>
      /\ now' \in 0..MaxTime /\ now <= now'
      /\ mode' \in [Kinds -> {"soft", "immediate"}]
      /\ days' \in [Kinds -> Days \cup {None}]
  BY TimeAssumption DEF UpdateSetting, Tick, Inv, TypeOK, settings
<1>2. TypeOK'
  BY <1>1 DEF Inv, TypeOK, data, history
<1>3. Locals' /\ BuiltinsStay' /\ BuiltinsUnlisted' /\ ReferencesHold'
  BY <1>1 DEF Inv, Locals, LocalsOf, BuiltinsStay, BuiltinsUnlisted,
              ReferencesHold, Active, data, history
<1>4. Snapshots'
  BY <1>1, SnapshotsKept DEF data, history
<1>5. Listed'
  <2> SUFFICES ASSUME NEW x \in (cycle.todo \cap row) \ restored
               PROVE  Expired(x, cycle.days[KindOf[x]])'
    BY <1>1 DEF Listed, data, history
  <2>1. Expired(x, cycle.days[KindOf[x]])
    BY DEF Inv, Listed
  <2>2. /\ deletedAt[x] \in 0..MaxTime \cup {None}
        /\ cycle.days[KindOf[x]] \in Days \cup {None}
        /\ now \in 0..MaxTime
    BY KindAssumption DEF Inv, TypeOK
  <2> DEFINE t == deletedAt[x]
             d == cycle.days[KindOf[x]]
  <2>3. t \in Nat /\ d \in Nat /\ now \in Nat /\ now' \in Nat /\ t + d <= now
    <3>1. t \in 0..MaxTime /\ d \in Days /\ t + d <= now
      BY <2>1, <2>2 DEF Expired
    <3> HIDE DEF t, d
    <3>2. QED
      BY <1>1, <2>2, <3>1, DaysAssumption, TimeAssumption
  <2>4. x \in row' /\ deletedAt'[x] = t /\ cycle'.days[KindOf[x]] = d
        /\ t # None /\ d # None
    BY <1>1, <2>1 DEF Expired, data
  <2> HIDE DEF t, d
  <2>5. t + d <= now'
    BY <1>1, <2>3
  <2>6. QED
    BY <2>4, <2>5 DEF Expired
<1>6. QED
  BY <1>2, <1>3, <1>4, <1>5 DEF Inv

LEMMA RestoreKeepsInv ==
  ASSUME Inv, NEW x \in Items, Restore(x)
  PROVE  Inv'
<1>1. /\ x \in row /\ deletedAt[x] # None
      /\ deletedAt' = [deletedAt EXCEPT ![x] = None]
      /\ restored' = restored \cup ({x} \cap cycle.todo)
      /\ UNCHANGED <<row, refs, settings, now, cycle, req, raced>>
  BY DEF Restore
<1>2. TypeOK'
  BY <1>1 DEF Inv, TypeOK, settings
<1>3. Locals' /\ ReferencesHold'
  BY <1>1 DEF Inv, Locals, LocalsOf, ReferencesHold
<1>4. BuiltinsStay' /\ BuiltinsUnlisted'
  BY <1>1, BuiltinAssumption
     DEF Inv, TypeOK, BuiltinsStay, BuiltinsUnlisted, Active
<1>5. Snapshots'
  BY <1>1, SnapshotsKept
<1>6. Listed'
  BY <1>1 DEF Inv, TypeOK, Listed, Expired
<1>7. QED
  BY <1>2, <1>3, <1>4, <1>5, <1>6 DEF Inv

-----------------------------------------------------------------------------
(* The purger.                                                             *)

(* A step of the purger that changes nothing but cycle and restored.       *)
LEMMA PurgerMoves ==
  ASSUME Inv, UNCHANGED <<data, settings, now, req, raced>>,
         cycle' \in [next : 0..7, todo : SUBSET Items,
                     days : [Kinds -> Days \cup {None}]],
         restored' \subseteq Items,
         \A x \in cycle'.todo :
            \/ /\ x \in cycle.todo
               /\ x \notin restored' => x \notin restored
               /\ cycle'.days = cycle.days
            \/ Expired(x, cycle'.days[KindOf[x]])
  PROVE  Inv'
<1> USE DEF data, settings
<1>1. TypeOK'
  BY DEF Inv, TypeOK
<1>2. Locals' /\ BuiltinsStay' /\ ReferencesHold'
  BY DEF Inv, Locals, LocalsOf, BuiltinsStay, ReferencesHold, Active
<1>3. Snapshots'
  BY SnapshotsKept
<1>4. BuiltinsUnlisted'
  <2> SUFFICES ASSUME NEW x \in cycle'.todo, x \in Builtin PROVE FALSE
    BY DEF BuiltinsUnlisted
  <2>1. x \notin cycle.todo /\ deletedAt[x] = None
    BY DEF Inv, BuiltinsUnlisted, BuiltinsStay, Active
  <2>2. QED
    BY <2>1 DEF Expired
<1>5. Listed'
  <2> SUFFICES ASSUME NEW x \in (cycle'.todo \cap row') \ restored'
               PROVE  Expired(x, cycle'.days[KindOf[x]])
    BY DEF Listed, Expired
  <2>1. CASE Expired(x, cycle'.days[KindOf[x]])
    BY <2>1
  <2>2. CASE x \in cycle.todo /\ x \notin restored /\ cycle'.days = cycle.days
    <3>1. x \in (cycle.todo \cap row) \ restored
      BY <2>2
    <3>2. Expired(x, cycle.days[KindOf[x]])
      BY <3>1 DEF Inv, Listed
    <3>3. QED
      BY <2>2, <3>2
  <2>3. QED
    BY <2>1, <2>2
<1>6. QED
  BY <1>1, <1>2, <1>3, <1>4, <1>5 DEF Inv

LEMMA PurgeRowKeepsInv ==
  ASSUME Inv, NEW x \in Items, PurgeRow(x)
  PROVE  Inv'
<1>1. /\ cycle' \in [next : 0..7, todo : SUBSET Items,
                      days : [Kinds -> Days \cup {None}]]
      /\ cycle'.todo = cycle.todo \ {x} /\ cycle'.days = cycle.days
      /\ UNCHANGED <<settings, now, req, restored>>
  BY DEF PurgeRow, Inv, TypeOK
<1>2. CASE ~(Counted(x) = {} /\ Bound(x) = {})
  <2>1. UNCHANGED <<data, raced>>
    BY <1>2 DEF PurgeRow
  <2>2. restored' \subseteq Items
    BY <1>1 DEF Inv, TypeOK
  <2>3. QED
    BY <1>1, <2>1, <2>2, PurgerMoves
<1>3. CASE Counted(x) = {} /\ Bound(x) = {}
  <2>1. EraseRow(x) /\ Interfere({})
    BY <1>3 DEF PurgeRow
  <2>2. raced' \in BOOLEAN /\ (raced => raced')
    BY <2>1 DEF Interfere, Inv, TypeOK
  <2>3. x \notin Builtin
    BY DEF PurgeRow, Inv, BuiltinsUnlisted
  <2>4. /\ row' \subseteq Items /\ refs' \subseteq References
        /\ deletedAt' \in [Items -> 0..MaxTime \cup {None}]
        /\ BuiltinsStay' /\ BuiltinsUnlisted' /\ Listed' /\ ReferencesHold'
    BY <1>1, <1>3, <2>1, <2>2, <2>3, EraseKeepsData
  <2>5. TypeOK'
    BY <1>1, <2>2, <2>4 DEF Inv, TypeOK, settings
  <2>6. Locals'
    BY <1>1 DEF Inv, Locals, LocalsOf
  <2>7. Snapshots'
    <3>1. CASE raced'
      BY <3>1 DEF Snapshots
    <3>2. CASE ~raced'
      BY <1>1, <2>1, <3>2, InterfereLeavesIdle
    <3>3. QED
      BY <3>1, <3>2
  <2>8. QED
    BY <2>4, <2>5, <2>6, <2>7 DEF Inv
<1>4. QED
  BY <1>2, <1>3

LEMMA PurgeListKeepsInv ==
  ASSUME Inv, NEW i \in Positions, PurgeList(i)
  PROVE  Inv'
<1> DEFINE k == PurgeOrder[i]
           W == {x \in Items : KindOf[x] = k /\ Expired(x, cycle.days[k])}
<1>1. /\ cycle' = [cycle EXCEPT !.next = i + 1, !.todo = W]
      /\ restored' = {}
      /\ UNCHANGED <<data, settings, now, req, raced>>
  BY DEF PurgeList
<1>2. W \subseteq Items /\ i + 1 \in 0..7
  BY DEF Positions
<1>3. /\ cycle'.todo = W /\ cycle'.days = cycle.days
      /\ cycle' \in [next : 0..7, todo : SUBSET Items,
                      days : [Kinds -> Days \cup {None}]]
  <2> HIDE DEF W
  <2>1. QED
    BY <1>1, <1>2 DEF Inv, TypeOK
<1>4. \A x \in W : Expired(x, cycle.days[KindOf[x]])
  OBVIOUS
<1> HIDE DEF W
<1>5. QED
  BY <1>1, <1>3, <1>4, PurgerMoves

LEMMA PurgeKeepsInv ==
  ASSUME Inv, Purge
  PROVE  Inv'
<1>1. CASE PurgeStart
  <2>1. /\ cycle' \in [next : 0..7, todo : SUBSET Items,
                        days : [Kinds -> Days \cup {None}]]
        /\ cycle'.todo = {} /\ restored' \subseteq Items
        /\ UNCHANGED <<data, settings, now, req, raced>>
    <3>1. cycle' = [Asleep EXCEPT !.next = 1, !.days = days]
      BY <1>1 DEF PurgeStart
    <3>2. days \in [Kinds -> Days \cup {None}] /\ restored \subseteq Items
      BY DEF Inv, TypeOK
    <3>3. cycle' = [next |-> 1, todo |-> {}, days |-> days]
      BY <3>1 DEF Asleep
    <3>4. UNCHANGED <<data, settings, now, req, raced, restored>>
      BY <1>1 DEF PurgeStart, history
    <3>5. QED
      BY <3>2, <3>3, <3>4
  <2>2. QED
    BY <2>1, PurgerMoves
<1>2. CASE PurgeAbort \/ PurgeEnd
  <2>1. /\ cycle' = Asleep /\ restored' = {}
        /\ UNCHANGED <<data, settings, now, req, raced>>
    BY <1>2 DEF PurgeAbort, PurgeEnd
  <2>2. QED
    BY <2>1, AsleepIsTyped, PurgerMoves
<1>3. ASSUME NEW i \in Positions, PurgeList(i)
      PROVE  Inv'
  BY <1>3, PurgeListKeepsInv
<1>4. ASSUME NEW x \in Items, PurgeRow(x)
      PROVE  Inv'
  BY <1>4, PurgeRowKeepsInv
<1>5. ASSUME NEW x \in Items, PurgeError(x)
      PROVE  Inv'
  <2>1. /\ cycle' \in [next : 0..7, todo : SUBSET Items,
                        days : [Kinds -> Days \cup {None}]]
        /\ cycle'.todo = cycle.todo \ {x} /\ cycle'.days = cycle.days
        /\ UNCHANGED <<data, settings, now, req, history>>
    BY <1>5 DEF PurgeError, Inv, TypeOK
  <2>2. restored' = restored /\ restored' \subseteq Items
        /\ UNCHANGED <<data, settings, now, req, raced>>
    BY <2>1 DEF Inv, TypeOK, history
  <2>3. QED
    BY <2>1, <2>2, PurgerMoves
<1>6. QED
  BY <1>1, <1>2, <1>3, <1>4, <1>5 DEF Purge

LEMMA CrashKeepsInv ==
  ASSUME Inv, Crash
  PROVE  Inv'
<1>1. /\ req' = [r \in Requests |-> Idle] /\ cycle' = Asleep /\ restored' = {}
      /\ UNCHANGED <<row, deletedAt, refs, mode, days, now, raced>>
  BY DEF Crash, data, settings
<1>2. TypeOK'
  <2>1. /\ req' \in [Requests -> RequestType]
        /\ cycle' \in [next : 0..7, todo : SUBSET Items,
                        days : [Kinds -> Days \cup {None}]]
    BY <1>1, IdleIsTyped, AsleepIsTyped
  <2>2. QED
    BY <1>1, <2>1 DEF Inv, TypeOK
<1>3. Locals'
  BY <1>1, IdleIsTyped DEF Locals, LocalsOf
<1>4. Snapshots'
  BY <1>1, SnapshotsKept
<1>5. BuiltinsStay' /\ BuiltinsUnlisted' /\ Listed' /\ ReferencesHold'
  BY <1>1, AsleepIsTyped
     DEF Inv, BuiltinsStay, BuiltinsUnlisted, Listed, ReferencesHold, Active
<1>6. QED
  BY <1>2, <1>3, <1>4, <1>5 DEF Inv

LEMMA NextKeepsInv == Inv /\ [Next]_vars => Inv'
<1> SUFFICES ASSUME Inv, [Next]_vars PROVE Inv'
  OBVIOUS
<1>1. CASE UNCHANGED vars
  <2>1. UNCHANGED <<data, cycle, req, history, row, deletedAt, refs, now,
                    mode, days, restored, raced>>
    BY <1>1 DEF vars, data, settings, history
  <2>2. TypeOK' /\ Locals' /\ BuiltinsStay' /\ BuiltinsUnlisted'
    BY <2>1 DEF Inv, TypeOK, Locals, LocalsOf, BuiltinsStay, BuiltinsUnlisted,
                Active
  <2>3. Listed' /\ ReferencesHold'
    BY <2>1 DEF Inv, Listed, Expired, ReferencesHold
  <2>4. Snapshots'
    BY <2>1, SnapshotsKept
  <2>5. QED
    BY <2>2, <2>3, <2>4 DEF Inv
<1>2. ASSUME NEW x \in Items \ Builtin, NEW m \in {"soft", "immediate"},
             NEW d \in Days \cup {None}, UpdateSetting(KindOf[x], m, d)
      PROVE  Inv'
  <2>1. KindOf[x] \in Kinds
    BY KindAssumption
  <2>2. QED
    BY <1>2, <2>1, SimpleStepsKeepInv
<1>3. ASSUME NEW x \in Items, Restore(x)
      PROVE  Inv'
  BY <1>3, RestoreKeepsInv
<1>4. ASSUME NEW r \in Requests, Start(r) \/ Continue(r)
      PROVE  Inv'
  BY <1>4, StartKeepsInv, ContinueKeepsInv
<1>5. CASE Purge
  BY <1>5, PurgeKeepsInv
<1>6. CASE Tick
  BY <1>6, SimpleStepsKeepInv
<1>7. CASE Crash
  BY <1>7, CrashKeepsInv
<1>8. QED
  BY <1>1, <1>2, <1>3, <1>4, <1>5, <1>6, <1>7 DEF Next

-----------------------------------------------------------------------------
(* The inductive invariant holds of every behaviour.                       *)
THEOREM Invariance == Spec => []Inv
  BY InitInv, NextKeepsInv, PTL DEF Spec

(* Every variable keeps to the values its column, or the handler that      *)
(* holds it, can have.                                                     *)
THEOREM TypeCorrect == Spec => []TypeOK
<1>1. Inv => TypeOK
  BY DEF Inv
<1>2. QED
  BY <1>1, Invariance, PTL

(* However many requests delete, restore and purge, no builtin dependency  *)
(* group is ever marked deleted or removed.                                *)
THEOREM BuiltinsAreKept == Spec => []BuiltinsStay
<1>1. Inv => BuiltinsStay
  BY DEF Inv
<1>2. QED
  BY <1>1, Invariance, PTL

(* Bindings, links and configuration groups never dangle, and an assigned  *)
(* group is removed only where a race let it.                              *)
THEOREM ReferencesAreKept == Spec => []ReferencesHold
<1>1. Inv => ReferencesHold
  BY DEF Inv
<1>2. QED
  BY <1>1, Invariance, PTL

(* The purger removes only what has expired, or was restored under its     *)
(* hands.                                                                  *)
THEOREM PurgesAreJustified == Spec => PurgesExpiredUnlessRestored
<1>1. Inv => [\A x \in Items :
                PurgedNow(x) /\ x \notin restored
                => Expired(x, cycle.days[KindOf[x]])]_vars
  BY DEF Inv, Listed, PurgedNow
<1>2. QED
  BY <1>1, Invariance, PTL DEF PurgesExpiredUnlessRestored
=============================================================================
