------------------------ MODULE GraphProjection_proofs ------------------------
(***************************************************************************)
(* For any number of groups, versions, edits and failed calls: the keys of *)
(* the ledger, and that no episode is ever forgotten, neither in a home    *)
(* group nor in an initiative's.  A pass acts on rows it read earlier      *)
(* while a purge, readers and Graphiti move beside it, so the proofs say   *)
(* how far what it read is still so.                                       *)
(*                                                                         *)
(* Row ids are uuids: there are always more of them.                       *)
(***************************************************************************)
EXTENDS GraphProjection, FiniteSetTheorems, TLAPS

IdsNeverRunOut == ~IsFiniteSet(Ids) /\ IsFiniteSet(Initiatives)

-----------------------------------------------------------------------------
(* The ledger and its keys.                                                    *)

\* Every row stands for a group, no two for one, and one in all for the homes.
Keyed(L) ==
  /\ \A i \in Ids : L[i].group = None => L[i] = NoRow
  /\ \A i, k \in Ids : L[i].group = L[k].group /\ L[i].group # None => i = k
  /\ \A i, k \in Ids : L[i].group \in Homes /\ L[k].group \in Homes => i = k

\* Rows that were read once stood for groups of their own, too.
Distinct(rows) == \A i, k \in Ids : rows[i].group = rows[k].group /\ rows[i].group # None => i = k

Typed ==
  /\ item \in [alive : BOOLEAN, access : {"team", "external"}, body : Bodies \cup {None}]
  /\ members \in [general : BOOLEAN, shared : BOOLEAN, tags : SUBSET Initiatives]
  /\ retracts \in BOOLEAN
  /\ ledger \in [Ids -> Row]
  /\ landed \in SUBSET (Groups \X Bodies) /\ queued \in SUBSET (Groups \X Bodies)
  /\ pc \in {"idle"} \cup Visiting \cup Reconciling
  /\ job \in [home : Homes, closed : BOOLEAN, body : Bodies \cup {None},
              tags : SUBSET Initiatives, rows : [Ids -> Row], todo : SUBSET (Ids \cup Initiatives),
              flagged : SUBSET Ids, failed : BOOLEAN, orphan : BOOLEAN,
              target : Groups \cup {None}]
  /\ purge \in [at : {"idle", "retiring", "failed", "done"}, rows : [Ids -> Row], todo : SUBSET Ids]
  /\ changes \in 0..MaxChanges /\ faults \in 0..MaxFaults

\* The row of an item in the homes is never deferred.
HomesServed == \A i \in Ids : ledger[i].group \in Homes => ledger[i].deferred = FALSE

Acting == Visiting \ {"loaded", "homed"}

\* Until it writes them a visit knows which home the item's row stands for; then there is
\* one for its home.
HomeSeen ==
  /\ pc \in {"restricted", "armed", "open"} =>
       \A i \in Ids : job.rows[i].group \in Homes \/ ledger[i].group \in Homes
                        => job.rows[i].group = ledger[i].group
  /\ pc \in {"moved", "prepared", "pushed"} => \E i \in Ids : ledger[i].group = Home

\* What the fanout is to look at are copies, and it has text when it pushes.
CopiesListed ==
  /\ pc \in Acting => \A i \in job.todo : i \in Ids => job.rows[i].group \in Initiatives
  /\ pc \in {"moved", "prepared"} => job.body # None
  /\ pc = "fanpushed" => job.target \in Initiatives

LedgerInv ==
  /\ Typed /\ Keyed(ledger) /\ Distinct(job.rows) /\ Distinct(purge.rows)
  /\ HomesServed /\ HomeSeen /\ CopiesListed

-----------------------------------------------------------------------------
(* A fresh id.                                                                 *)

\* Distinct rows of finitely many groups are finitely many.
LEMMA FinitelyMany ==
  ASSUME IdsNeverRunOut, NEW rows \in [Ids -> Row], Distinct(rows)
  PROVE  IsFiniteSet({i \in Ids : rows[i].group # None})
<1> DEFINE U == {i \in Ids : rows[i].group # None}
           f == [i \in U |-> rows[i].group]
<1>1. IsFiniteSet(Groups)
  <2>1. IsFiniteSet({general}) /\ IsFiniteSet({external})
    BY FS_Singleton
  <2>2. Groups = ({general} \cup {external}) \cup Initiatives
    BY DEF Groups, Homes
  <2> QED
    BY <2>1, <2>2, FS_Union DEF IdsNeverRunOut
<1>2. f \in Injection(U, Groups)
  <2>1. f \in [U -> Groups]
    BY DEF Row
  <2>2. \A i, k \in U : f[i] = f[k] => i = k
    BY DEF Distinct
  <2> QED
    BY <2>1, <2>2 DEF Injection, IsInjective
<1> HIDE DEF U, f
<1>3. IsFiniteSet(U)
  BY <1>1, <1>2, FS_Injection
<1> QED
  BY <1>3 DEF U

\* There is an id that no row has, neither in the table nor in what was read of it.
LEMMA FreshIdExists ==
  ASSUME IdsNeverRunOut, Typed, Keyed(ledger), Distinct(job.rows), Distinct(purge.rows)
  PROVE  /\ FreshId \in Ids
         /\ ledger[FreshId].group = None
         /\ job.rows[FreshId].group = None /\ purge.rows[FreshId].group = None
<1> DEFINE A == {i \in Ids : ledger[i].group # None}
           B == {i \in Ids : job.rows[i].group # None}
           C == {i \in Ids : purge.rows[i].group # None}
<1>1. IsFiniteSet(A) /\ IsFiniteSet(B) /\ IsFiniteSet(C)
  <2>1. Distinct(ledger)
    BY DEF Keyed, Distinct
  <2>2. ledger \in [Ids -> Row] /\ job.rows \in [Ids -> Row] /\ purge.rows \in [Ids -> Row]
    BY DEF Typed
  <2> QED
    BY <2>1, <2>2, FinitelyMany
<1> HIDE DEF A, B, C
<1>2. IsFiniteSet((A \cup B) \cup C)
  BY <1>1, FS_Union
<1>3. PICK i \in Ids : i \notin (A \cup B) \cup C
  <2>1. ~ (Ids \subseteq (A \cup B) \cup C)
    BY <1>2, FS_Subset DEF IdsNeverRunOut
  <2> QED
    BY <2>1
<1>4. {ledger[i].group, job.rows[i].group, purge.rows[i].group} = {None}
  BY <1>3 DEF A, B, C
<1>5. FreshId \in Ids /\ {ledger[FreshId].group, job.rows[FreshId].group, purge.rows[FreshId].group} = {None}
  BY <1>4 DEF FreshId
<1> QED
  BY <1>5

-----------------------------------------------------------------------------
(* How a statement may change the table.                                       *)

\* Rows are rewritten where they are.
Rewrites ==
  /\ ledger' \in [Ids -> Row]
  /\ \A i \in Ids : /\ ledger'[i].group = ledger[i].group
                    /\ ledger[i] = NoRow => ledger'[i] = NoRow
                    /\ ledger'[i].deferred = TRUE => ledger[i].deferred = TRUE

\* A row is inserted for a group that has none, and for a home if neither has one.
Inserts ==
  \E r \in Row : /\ r.group # None /\ \A i \in Ids : ledger[i].group # r.group
                 /\ r.group \in Homes =>
                      r.deferred = FALSE /\ \A i \in Ids : ledger[i].group \notin Homes
                 /\ ledger' = [ledger EXCEPT ![FreshId] = r]

\* Rows are deleted.
Removes == \E P : ledger' = Without(P)

\* The keys survive each kind of change.
LEMMA KeysKept ==
  ASSUME IdsNeverRunOut, LedgerInv, Rewrites \/ Inserts \/ Removes \/ MoveGroup
  PROVE  ledger' \in [Ids -> Row] /\ Keyed(ledger') /\ HomesServed'
<1>0. ledger \in [Ids -> Row] /\ Keyed(ledger) /\ HomesServed
  BY DEF LedgerInv, Typed
<1>1. CASE Rewrites
  <2>1. ledger' \in [Ids -> Row]
    BY <1>1 DEF Rewrites
  <2>2. Keyed(ledger')
    BY <1>0, <1>1 DEF Rewrites, Keyed
  <2>3. HomesServed'
    BY <1>0, <1>1, <2>1 DEF Rewrites, HomesServed, Row
  <2> QED
    BY <2>1, <2>2, <2>3
<1>2. CASE Inserts
  <2>1. FreshId \in Ids /\ ledger[FreshId].group = None
    BY FreshIdExists DEF LedgerInv
  <2>2. PICK r \in Row :
          /\ r.group # None /\ \A i \in Ids : ledger[i].group # r.group
          /\ r.group \in Homes =>
               r.deferred = FALSE /\ \A i \in Ids : ledger[i].group \notin Homes
          /\ ledger' = [ledger EXCEPT ![FreshId] = r]
    BY <1>2 DEF Inserts
  <2>3. ledger' \in [Ids -> Row] /\ ledger'[FreshId] = r
        /\ \A i \in Ids : i # FreshId => ledger'[i] = ledger[i]
    BY <1>0, <2>1, <2>2
  <2>4. Keyed(ledger')
    BY <1>0, <2>1, <2>2, <2>3 DEF Keyed
  <2>5. HomesServed'
    BY <1>0, <2>2, <2>3 DEF HomesServed
  <2> QED
    BY <2>3, <2>4, <2>5
<1>3. CASE Removes
  <2>1. PICK P : ledger' = [i \in Ids |-> IF i \in P THEN NoRow ELSE ledger[i]]
    BY <1>3 DEF Removes, Without
  <2>2. NoRow \in Row /\ NoRow.group = None /\ NoRow.deferred = FALSE /\ None \notin Homes
    BY GraphAssumption DEF NoRow, Row, Homes
  <2>3. ledger' \in [Ids -> Row]
    BY <1>0, <2>1, <2>2
  <2>4. Keyed(ledger')
    BY <1>0, <2>1, <2>2 DEF Keyed
  <2>5. HomesServed'
    BY <1>0, <2>1, <2>2 DEF HomesServed
  <2> QED
    BY <2>3, <2>4, <2>5
<1>4. CASE MoveGroup
  <2>1. PICK g \in Homes :
          /\ \A i \in Ids : ledger[i].group # Home
          /\ ledger' = [i \in Ids |->
               IF ledger[i].group = g
               THEN [ledger[i] EXCEPT !.group = Home, !.sha = None, !.owed = g, !.aged = FALSE]
               ELSE ledger[i]]
    <3>1. Home \in Homes /\ Home # None
      BY GraphAssumption DEF LedgerInv, Typed, Homes, Home
    <3>2. \A i \in Ids : ledger[i].group # Home
      <4>1. NoRow.group # Home
        BY <3>1 DEF NoRow
      <4>2. RowAt(ledger, Home) = NoRow
        BY <1>4 DEF MoveGroup
      <4> QED
        BY <4>1, <4>2 DEF RowAt
    <3>3. Existing.group \in Homes
      <4>1. Existing # NoRow /\ Existing.group # Home
        BY <1>4 DEF MoveGroup, TierChanged
      <4>2. \A g \in Homes : RowAt(job.rows, g) # NoRow => RowAt(job.rows, g).group = g
        BY DEF RowAt
      <4>3. OtherHome \in Homes
        BY DEF OtherHome, Homes
      <4> QED
        BY <3>1, <4>1, <4>2, <4>3 DEF Existing, Current, Stale
    <3> QED
      BY <1>4, <3>2, <3>3 DEF MoveGroup
  <2>2. Home \in Homes /\ Home # None /\ g \in Groups
    BY GraphAssumption DEF LedgerInv, Typed, Homes, Groups, Home
  <2>3. ledger' \in [Ids -> Row]
    <3>1. ASSUME NEW r \in Row
          PROVE  [r EXCEPT !.group = Home, !.sha = None, !.owed = g, !.aged = FALSE] \in Row
      BY <2>2 DEF Row, Groups, Homes
    <3> QED
      BY <1>0, <2>1, <3>1
  <2>4. \A i \in Ids : IF ledger[i].group = g
                       THEN ledger'[i].group = Home /\ ledger'[i].deferred = ledger[i].deferred
                       ELSE ledger'[i] = ledger[i]
    BY <1>0, <2>1 DEF Row
  <2>5. Keyed(ledger')
    <3>1. ASSUME NEW i \in Ids, ledger'[i].group = None PROVE ledger'[i] = NoRow
      <4>1. ledger'[i] = ledger[i]
        BY <2>2, <2>4, <3>1
      <4> QED
        BY <1>0, <3>1, <4>1 DEF Keyed
    <3>2. ASSUME NEW i \in Ids, NEW k \in Ids, ledger'[i].group = ledger'[k].group,
                 ledger'[i].group # None
          PROVE  i = k
      <4>1. \A n \in Ids : ledger[n].group # Home
        BY <2>1
      <4>2. ledger[i].group = g <=> ledger[k].group = g
        BY <2>4, <3>2, <4>1
      <4>3. ledger[i].group = ledger[k].group
        BY <2>4, <3>2, <4>2
      <4>4. g # None
        BY GraphAssumption DEF Homes
      <4>5. ledger[i].group # None
        BY <2>4, <3>2, <4>4
      <4> QED
        BY <1>0, <4>3, <4>5 DEF Keyed
    <3>3. \A i, k \in Ids : ledger'[i].group \in Homes /\ ledger'[k].group \in Homes => i = k
      BY <1>0, <2>1, <2>2, <2>4 DEF Keyed
    <3> QED
      BY <3>1, <3>2, <3>3 DEF Keyed
  <2>6. HomesServed'
    BY <1>0, <2>1, <2>4 DEF HomesServed
  <2> QED
    BY <2>3, <2>5, <2>6
<1> QED
  BY <1>1, <1>2, <1>3, <1>4

\* Looking a group up finds its row, if there is one.
LEMMA RowFound ==
  ASSUME NEW L, NEW g, g # None
  PROVE  /\ RowAt(L, g) = NoRow \/ \E i \in Ids : L[i].group = g /\ RowAt(L, g) = L[i]
         /\ RowAt(L, g) = NoRow => \A i \in Ids : L[i].group # g
<1>1. NoRow.group = None
  BY DEF NoRow
<1> QED
  BY <1>1 DEF RowAt

\* The row a visit goes by stands for one of the homes.
LEMMA ExistingIsHome ==
  ASSUME Typed
  PROVE  /\ Existing \in Row
         /\ Existing # NoRow => Existing.group \in Homes
                                /\ \E i \in Ids : job.rows[i] = Existing
         /\ Existing = NoRow => \A i \in Ids : job.rows[i].group \notin Homes
<1>1. Home \in Homes /\ OtherHome \in Homes /\ Homes = {Home, OtherHome}
      /\ Home # None /\ OtherHome # None
  BY GraphAssumption DEF Typed, Homes, Home, OtherHome
<1>2. job.rows \in [Ids -> Row] /\ NoRow \in Row
  BY DEF Typed, NoRow, Row
<1>3. Existing = NoRow => \A i \in Ids : job.rows[i].group \notin Homes
  BY <1>1, RowFound DEF Existing, Current, Stale
<1>4. Existing # NoRow => Existing.group \in Homes /\ \E i \in Ids : job.rows[i] = Existing
  BY <1>1, RowFound DEF Existing, Current, Stale
<1> QED
  BY <1>2, <1>3, <1>4

LEMMA TombstonedRewrites ==
  ASSUME LedgerInv, NEW G, None \notin G, ledger' = Tombstoned(G)
  PROVE  Rewrites
<1>1. ledger \in [Ids -> Row] /\ NoRow.group = None
  BY DEF LedgerInv, Typed, NoRow
<1>2. \A r \in Row : /\ Tombstone(r) \in Row /\ Tombstone(r).group = r.group
                     /\ Tombstone(r).deferred = r.deferred
  BY DEF Row, Tombstone
<1>3. \A i \in Ids : ledger'[i] = IF ledger[i].group \in G THEN Tombstone(ledger[i]) ELSE ledger[i]
  BY DEF Tombstoned
<1>4. ledger' \in [Ids -> Row]
  BY <1>1, <1>2 DEF Tombstoned
<1> QED
  BY <1>1, <1>2, <1>3, <1>4 DEF Rewrites

\* A row is written by its id, if it is still there.
LEMMA PatchedRewrites ==
  ASSUME LedgerInv, NEW i \in Ids, NEW r \in Row, r.group = ledger[i].group,
         r.deferred = ledger[i].deferred, ledger' = Patched(i, r)
  PROVE  Rewrites
<1>1. ledger \in [Ids -> Row]
  BY DEF LedgerInv, Typed
<1> QED
  BY <1>1 DEF Rewrites, Patched

LEMMA InsertedInserts ==
  ASSUME LedgerInv, NEW r \in Row, r.group # None, ledger' = Inserted(r),
         r.group \in Homes => r.deferred = FALSE /\ \A i \in Ids : ledger[i].group \notin Homes
  PROVE  Rewrites \/ Inserts
<1>1. CASE RowAt(ledger, r.group) = NoRow
  BY <1>1, RowFound DEF Inserted, Inserts
<1>2. CASE RowAt(ledger, r.group) # NoRow
  BY <1>2 DEF Inserted, Rewrites, LedgerInv, Typed
<1> QED
  BY <1>1, <1>2

\* Every step changes the table in one of these ways.
LEMMA VisitWrites ==
  ASSUME LedgerInv, Visit
  PROVE  Rewrites \/ Inserts \/ Removes \/ MoveGroup
<1>0. /\ ledger \in [Ids -> Row] /\ job.rows \in [Ids -> Row] /\ NoRow \in Row
      /\ NoRow.group = None /\ None \notin Homes /\ None \notin Initiatives
      /\ Home \in Homes /\ OtherHome \in Homes /\ Homes \cap Initiatives = {}
      /\ Homes \subseteq Groups /\ Initiatives \subseteq Groups
  BY GraphAssumption DEF LedgerInv, Typed, NoRow, Row, Homes, Groups, Home, OtherHome
<1>1. CASE UNCHANGED ledger
  BY <1>0, <1>1 DEF Rewrites
<1>2. CASE RestrictionArms
  <2>1. ledger' = [i \in Ids |->
          IF ledger[i].group \in job.tags /\ RowAt(job.rows, ledger[i].group).deferred
          THEN [ledger[i] EXCEPT !.deferred = FALSE] ELSE ledger[i]]
        /\ job.tags \subseteq Initiatives
    BY <1>2 DEF RestrictionArms, LedgerInv, Typed
  <2>2. \A r \in Row : /\ [r EXCEPT !.deferred = FALSE] \in Row
                       /\ [r EXCEPT !.deferred = FALSE].group = r.group
                       /\ [r EXCEPT !.deferred = FALSE].deferred = FALSE
    BY DEF Row
  <2>3. ledger' \in [Ids -> Row]
    BY <1>0, <2>1, <2>2
  <2> QED
    BY <1>0, <2>1, <2>2, <2>3 DEF Rewrites
<1>3. CASE MoveOut
  BY <1>0, <1>3, TombstonedRewrites DEF MoveOut
<1>4. CASE KeepUntilCopied
  <2>1. \E G \in {{}, {OtherHome}} : ledger' = Tombstoned(G)
    BY <1>4 DEF KeepUntilCopied
  <2> QED
    BY <1>0, <2>1, TombstonedRewrites
<1>5. CASE RedactHome
  <2>1. \E G \in {{}, {Existing.group}} :
          ledger' = Tombstoned(G) /\ (G # {} => Existing # NoRow)
    BY <1>5 DEF RedactHome
  <2>2. Existing # NoRow => Existing.group # None
    BY <1>0, ExistingIsHome DEF LedgerInv
  <2> QED
    BY <2>1, <2>2, TombstonedRewrites
<1>6. CASE MoveGroup
  BY <1>6
<1>7. CASE Prepare
  <2>1. CASE pc = "moved"
    <3>1. \E i \in Ids : ledger[i].group = Home
      BY <2>1 DEF LedgerInv, HomeSeen
    <3>2. RowAt(ledger, Home) # NoRow
      BY <1>0, <3>1, RowFound
    <3>3. NewRow(Home).group = Home /\ [NewRow(Home) EXCEPT !.owed = Existing.group].group = Home
      BY DEF NewRow, NoRow
    <3>4. ledger' = ledger
      BY <1>7, <3>2, <3>3 DEF Prepare, Inserted
    <3> QED
      BY <1>1, <3>4
  <2>2. CASE pc = "open"
    <3>1. ~TierChanged
      BY <1>7, <2>2 DEF Prepare
    <3>2. ledger' = IF Existing = NoRow THEN Inserted(NewRow(Home)) ELSE ledger
      BY <1>7, <3>1 DEF Prepare
    <3>3. Existing = NoRow => \A i \in Ids : ledger[i].group \notin Homes
      BY <2>2, ExistingIsHome DEF LedgerInv, HomeSeen
    <3>4. NewRow(Home) \in Row /\ NewRow(Home).group = Home /\ NewRow(Home).deferred = FALSE
      BY <1>0 DEF NewRow, NoRow, Row
    <3> QED
      BY <1>0, <1>1, <3>2, <3>3, <3>4, InsertedInserts
  <2> QED
    BY <1>7, <2>1, <2>2 DEF Prepare
<1>8. CASE RecordHome
  <2>1. pc = "pushed" /\ \E i \in Ids : ledger[i].group = Home
    BY <1>8 DEF RecordHome, LedgerInv, HomeSeen
  <2>2. PICK i \in Ids : ledger[i].group = Home /\ RowAt(ledger, Home) = ledger[i]
    BY <1>0, <2>1, RowFound
  <2>3. ledger[i] # NoRow
    BY <1>0, <2>2
  <2> DEFINE sent == [ledger[i] EXCEPT !.sha = job.body]
  <2>4. sent \in Row /\ sent.group = Home /\ sent.deferred = ledger[i].deferred
    <3>1. \A r \in Row : /\ [r EXCEPT !.sha = job.body] \in Row
                         /\ [r EXCEPT !.sha = job.body].group = r.group
                         /\ [r EXCEPT !.sha = job.body].deferred = r.deferred
      BY DEF Row, LedgerInv, Typed
    <3> QED
      BY <1>0, <2>2, <3>1
  <2>5. PICK gate \in BOOLEAN :
          ledger' = [k \in Ids |-> IF ledger[k].group = Home THEN Settled(sent, gate) ELSE ledger[k]]
    BY <1>8, <2>2, <2>3 DEF RecordHome
  <2>6. Existing.group \in Groups \cup {None}
    BY ExistingIsHome DEF LedgerInv, Row
  <2> HIDE DEF sent
  <2>7. /\ Settled(sent, gate) \in Row /\ Settled(sent, gate).group = Home
        /\ Settled(sent, gate).deferred = ledger[i].deferred
    BY <1>0, <2>4, <2>6 DEF Settled, Row
  <2>8. \A k \in Ids : ledger[k].group = Home => k = i
    BY <1>0, <2>2 DEF LedgerInv, Keyed
  <2>9. ledger' \in [Ids -> Row]
    BY <1>0, <2>5, <2>7
  <2> QED
    BY <1>0, <2>2, <2>3, <2>5, <2>7, <2>8, <2>9 DEF Rewrites
<1>9. CASE FanoutRecords
  <2>1. job.target \in Initiatives
    BY <1>9 DEF FanoutRecords, LedgerInv, CopiesListed
  <2>2. Tombstone(NewRow(job.target)) \in Row /\ Tombstone(NewRow(job.target)).group = job.target
    BY <1>0, <2>1 DEF Tombstone, NewRow, NoRow, Row
  <2>3. CASE ledger' = Inserted(Tombstone(NewRow(job.target)))
    BY <1>0, <2>1, <2>2, <2>3, InsertedInserts
  <2>4. CASE ledger' = [i \in Ids |-> IF ledger[i].group = job.target
                                      THEN [ledger[i] EXCEPT !.sha = job.body] ELSE ledger[i]]
    <3>1. \A r \in Row : /\ [r EXCEPT !.sha = job.body] \in Row
                         /\ [r EXCEPT !.sha = job.body].group = r.group
                         /\ [r EXCEPT !.sha = job.body].deferred = r.deferred
      BY DEF Row, LedgerInv, Typed
    <3>2. ledger' \in [Ids -> Row]
      BY <1>0, <2>4, <3>1
    <3> QED
      BY <1>0, <2>1, <2>4, <3>1, <3>2 DEF Rewrites
  <2> QED
    BY <1>9, <2>3, <2>4 DEF FanoutRecords
<1>10. ASSUME NEW t \in Initiatives, FanoutDefers(t) PROVE Rewrites \/ Inserts
  <2> DEFINE r == [NewRow(t) EXCEPT !.deferred = TRUE]
  <2>1. r \in Row /\ r.group = t /\ ledger' = Inserted(r)
    BY <1>0, <1>10 DEF FanoutDefers, NewRow, NoRow, Row
  <2> HIDE DEF r
  <2> QED
    BY <1>0, <2>1, InsertedInserts
<1>11. ASSUME NEW i \in Ids, RedactCopy(i) \/ FanoutUntags(i) PROVE Rewrites
  <2>1. job.rows[i].group \in Initiatives /\ ledger' = Tombstoned({job.rows[i].group})
    BY <1>11 DEF RedactCopy, FanoutUntags, At, LedgerInv, CopiesListed, Acting, Visiting
  <2> QED
    BY <1>0, <2>1, TombstonedRewrites
<1>12. ASSUME NEW i \in Ids, FanoutDrops(i) \/ FanoutCompletes(i) PROVE Removes
  BY <1>12 DEF FanoutDrops, FanoutCompletes, Removes
<1>13. ASSUME NEW i \in Ids, FanoutSkips(i) \/ FanoutThrottles(i) \/ FanoutPushes(i)
       PROVE  UNCHANGED ledger
  BY <1>13 DEF FanoutSkips, FanoutThrottles, FanoutPushes
<1>14. CASE \/ LoadItem \/ ResolveTargets \/ ReadLedger \/ HoldHome \/ RedactEnds
            \/ SkipUnchanged \/ PushHome
  BY <1>1, <1>14 DEF LoadItem, ResolveTargets, ReadLedger, HoldHome, RedactEnds, SkipUnchanged,
     PushHome
<1> QED
  BY <1>1, <1>2, <1>3, <1>4, <1>5, <1>6, <1>7, <1>8, <1>9, <1>10, <1>11, <1>12, <1>13, <1>14
  DEF Visit

\* The passes that judge, the purge and the rest only rewrite and delete.
LEMMA OthersWrite ==
  ASSUME LedgerInv, [Reconcile \/ Retirement \/ Environment]_vars
  PROVE  Rewrites \/ Removes
<1>0. /\ ledger \in [Ids -> Row] /\ job.rows \in [Ids -> Row] /\ purge.rows \in [Ids -> Row]
      /\ NoRow \in Row /\ NoRow.group = None /\ NoRow.owed = None /\ NoRow.deferred = FALSE
      /\ \A i \in Ids : ledger[i].group = None => ledger[i] = NoRow
  BY DEF LedgerInv, Typed, Keyed, NoRow, Row
<1>1. CASE UNCHANGED ledger
  BY <1>0, <1>1 DEF Rewrites
<1>2. CASE RepairOrphans
  <2>1. PICK found : ledger' = [i \in Ids |->
          IF i \in found /\ ledger[i] # NoRow
          THEN [ledger[i] EXCEPT !.sha = None, !.owed = job.rows[i].group, !.aged = FALSE]
          ELSE ledger[i]]
    BY <1>2 DEF RepairOrphans
  <2>2. \A r \in Row, q \in Row :
          LET new == [r EXCEPT !.sha = None, !.owed = q.group, !.aged = FALSE]
          IN new \in Row /\ new.group = r.group /\ new.deferred = r.deferred
    BY DEF Row
  <2>3. ledger' \in [Ids -> Row]
    BY <1>0, <2>1, <2>2
  <2>4. \A i \in Ids : /\ ledger'[i].group = ledger[i].group
                       /\ ledger'[i].deferred = ledger[i].deferred
                       /\ ledger[i] = NoRow => ledger'[i] = NoRow
    BY <1>0, <2>1, <2>2
  <2> QED
    BY <2>3, <2>4 DEF Rewrites
<1>3. ASSUME NEW i \in Ids, JudgeConfirms(i) \/ JudgeParks(i) PROVE Rewrites
  <2>1. \A r \in Row : /\ [r EXCEPT !.uuid = TRUE] \in Row
                       /\ [r EXCEPT !.uuid = TRUE].group = r.group
                       /\ [r EXCEPT !.uuid = TRUE].deferred = r.deferred
                       /\ [r EXCEPT !.sha = None] \in Row
                       /\ [r EXCEPT !.sha = None].group = r.group
                       /\ [r EXCEPT !.sha = None].deferred = r.deferred
    BY DEF Row
  <2>2. \/ ledger' = Patched(i, [ledger[i] EXCEPT !.uuid = TRUE])
        \/ ledger' = Patched(i, [ledger[i] EXCEPT !.sha = None])
    BY <1>0, <1>3 DEF JudgeConfirms, JudgeParks, Patched
  <2>3. PICK r \in Row : /\ r.group = ledger[i].group /\ r.deferred = ledger[i].deferred
                         /\ ledger' = Patched(i, r)
    BY <1>0, <2>1, <2>2
  <2> QED
    BY <2>3, PatchedRewrites
<1>4. ASSUME NEW i \in Ids, CleanClears(i) PROVE Rewrites \/ Removes
  <2>1. \A r \in Row, q \in Row :
          /\ [r EXCEPT !.owed = None, !.aged = FALSE] \in Row
          /\ [r EXCEPT !.owed = None, !.aged = FALSE].group = r.group
          /\ [r EXCEPT !.owed = None, !.aged = FALSE].deferred = r.deferred
          /\ [r EXCEPT !.owed = q.group, !.aged = FALSE] \in Row
          /\ [r EXCEPT !.owed = q.group, !.aged = FALSE].group = r.group
          /\ [r EXCEPT !.owed = q.group, !.aged = FALSE].deferred = r.deferred
    BY DEF Row
  <2>2. \/ ledger' = Patched(i, NoRow)
        \/ ledger' = Patched(i, [ledger[i] EXCEPT !.owed = None, !.aged = FALSE])
        \/ ledger' = Patched(i, [ledger[i] EXCEPT !.owed = job.rows[i].group, !.aged = FALSE])
    BY <1>4 DEF CleanClears
  <2>3. CASE ledger' = Patched(i, NoRow)
    <3>1. ledger' = Without({i})
      BY <1>0, <2>3 DEF Patched, Without
    <3> QED
      BY <3>1 DEF Removes
  <2>4. CASE \E r \in Row : /\ r.group = ledger[i].group /\ r.deferred = ledger[i].deferred
                            /\ ledger' = Patched(i, r)
    BY <2>4, PatchedRewrites
  <2> QED
    BY <1>0, <2>1, <2>2, <2>3, <2>4
<1>5. ASSUME NEW i \in Ids, RetiresDeferred(i) PROVE Removes
  BY <1>5 DEF RetiresDeferred, Removes
<1>6. ASSUME NEW i \in Ids, RetiresPushed(i) PROVE Rewrites
  <2>1. \A r \in Row, q \in Row :
          LET new == [r EXCEPT !.sha = None, !.owed = q.group, !.aged = FALSE]
          IN new \in Row /\ new.group = r.group /\ new.deferred = r.deferred
    BY DEF Row
  <2>2. ledger' = Patched(i, [ledger[i] EXCEPT !.sha = None, !.owed = purge.rows[i].group, !.aged = FALSE])
    BY <1>6 DEF RetiresPushed
  <2> QED
    BY <1>0, <2>1, <2>2, PatchedRewrites
<1>7. ASSUME NEW g \in Initiatives, ReadArms(g) PROVE Rewrites
  <2>1. ledger' = [i \in Ids |-> IF ledger[i].group = g
                                 THEN [ledger[i] EXCEPT !.deferred = FALSE] ELSE ledger[i]]
        /\ g # None
    BY <1>7, GraphAssumption DEF ReadArms
  <2>2. \A r \in Row : /\ [r EXCEPT !.deferred = FALSE] \in Row
                       /\ [r EXCEPT !.deferred = FALSE].group = r.group
                       /\ [r EXCEPT !.deferred = FALSE].deferred = FALSE
    BY DEF Row
  <2>3. ledger' \in [Ids -> Row]
    BY <1>0, <2>1, <2>2
  <2> QED
    BY <1>0, <2>1, <2>2, <2>3 DEF Rewrites
<1>8. ASSUME NEW i \in Ids, GraceElapses(i) PROVE Rewrites
  <2>1. \A r \in Row : /\ [r EXCEPT !.aged = TRUE] \in Row
                       /\ [r EXCEPT !.aged = TRUE].group = r.group
                       /\ [r EXCEPT !.aged = TRUE].deferred = r.deferred
    BY DEF Row
  <2>2. ledger[i].owed # None /\ ledger' = [ledger EXCEPT ![i] = [ledger[i] EXCEPT !.aged = TRUE]]
    BY <1>8 DEF GraceElapses
  <2>3. ledger' = Patched(i, [ledger[i] EXCEPT !.aged = TRUE])
    BY <1>0, <2>2 DEF Patched
  <2> QED
    BY <1>0, <2>1, <2>3, PatchedRewrites
<1>9. CASE Reconcile
  BY <1>1, <1>2, <1>3, <1>4, <1>9 DEF Reconcile, ReconcileReads, PassEnds, JudgePasses, JudgeSkips,
     CleanDeletes, CleanWaits
<1>10. CASE Retirement
  BY <1>1, <1>5, <1>6, <1>10 DEF Retirement, PurgeDeletes
<1>11. CASE Environment
  BY <1>1, <1>7, <1>8, <1>11 DEF Environment, Aborts, PurgeStarts, PurgeFails, ItemChanges,
     MembersChange, Elsewhere, Extract, Lose
<1>12. CASE UNCHANGED vars
  BY <1>1, <1>12 DEF vars
<1> QED
  BY <1>9, <1>10, <1>11, <1>12

-----------------------------------------------------------------------------
(* The other variables.                                                        *)

JobType == [home : Homes, closed : BOOLEAN, body : Bodies \cup {None},
            tags : SUBSET Initiatives, rows : [Ids -> Row], todo : SUBSET (Ids \cup Initiatives),
            flagged : SUBSET Ids, failed : BOOLEAN, orphan : BOOLEAN,
            target : Groups \cup {None}]

LEMMA EmptyTyped ==
  /\ NoRow \in Row /\ NoRows \in [Ids -> Row] /\ Distinct(NoRows) /\ Keyed(NoRows)
  /\ NoJob \in JobType /\ NoJob.rows = NoRows /\ NoJob.todo = {}
<1>1. NoRow \in Row /\ NoRow.group = None
  BY DEF NoRow, Row
<1>2. None \notin Homes
  BY GraphAssumption DEF Homes
<1> QED
  BY <1>1, <1>2 DEF NoRows, Distinct, Keyed, NoJob, JobType, Homes

\* A failing call.
LEMMA FaultTyped ==
  ASSUME faults \in 0..MaxFaults, Fault
  PROVE  faults' \in 0..MaxFaults
  BY GraphAssumption DEF Fault

LEMMA DeleteTyped ==
  ASSUME Typed, NEW G, TriesDelete(G)
  PROVE  landed' \subseteq landed /\ queued' = queued /\ faults' \in 0..MaxFaults
  BY GraphAssumption DEF Typed, TriesDelete, Deletes, DeleteFails, Fault

\* A visit and a reconcile pass leave the item alone.
LEMMA InputsStay ==
  ASSUME Visit \/ Reconcile \/ Aborts
  PROVE  UNCHANGED inputs /\ UNCHANGED purge
<1>1. CASE Visit
  BY <1>1 DEF Visit, LoadItem, ResolveTargets, ReadLedger, RestrictionArms, MoveOut, HoldHome,
     KeepUntilCopied, RedactHome, RedactEnds, SkipUnchanged, MoveGroup, Prepare, PushHome,
     RecordHome, FanoutRecords, FanoutDefers, RedactCopy, FanoutDrops, FanoutUntags,
     FanoutCompletes, FanoutSkips, FanoutThrottles, FanoutPushes
<1>2. CASE Reconcile
  BY <1>2 DEF Reconcile, ReconcileReads, RepairOrphans, PassEnds, JudgeConfirms, JudgePasses,
     JudgeSkips, JudgeParks, CleanDeletes, CleanWaits, CleanClears, Cleans
<1>3. CASE Aborts
  BY <1>3 DEF Aborts
<1> QED
  BY <1>1, <1>2, <1>3

\* The purge and the rest leave the pass alone.
LEMMA PassStays ==
  ASSUME [Retirement \/ Environment]_vars, ~Aborts
  PROVE  UNCHANGED <<pc, job>>
<1>1. CASE Retirement
  BY <1>1 DEF Retirement, PurgeDeletes, RetiresDeferred, RetiresPushed
<1>2. CASE Environment
  BY <1>2 DEF Environment, PurgeStarts, PurgeFails, ItemChanges, MembersChange, Elsewhere,
     Extract, Lose, ReadArms, GraceElapses
<1>3. CASE UNCHANGED vars
  BY <1>3 DEF vars
<1> QED
  BY <1>1, <1>2, <1>3

\* Item, memberships and the purge.
LEMMA InputsTyped ==
  ASSUME Typed, Distinct(purge.rows), Keyed(ledger), [Next]_vars
  PROVE  /\ item' \in [alive : BOOLEAN, access : {"team", "external"}, body : Bodies \cup {None}]
         /\ members' \in [general : BOOLEAN, shared : BOOLEAN, tags : SUBSET Initiatives]
         /\ retracts' \in BOOLEAN /\ changes' \in 0..MaxChanges
         /\ purge' \in [at : {"idle", "retiring", "failed", "done"}, rows : [Ids -> Row], todo : SUBSET Ids]
         /\ Distinct(purge'.rows)
<1> USE DEF Typed
<1>1. CASE UNCHANGED <<inputs, purge>>
  BY <1>1 DEF inputs
<1>2. CASE PurgeStarts
  <2>1. \A r \in Row : View(r) \in Row /\ View(r).group = r.group
    BY DEF View, NoRow, Row
  <2>2. /\ purge' = [at |-> "retiring", rows |-> [i \in Ids |-> View(ledger[i])],
                     todo |-> {i \in Ids : ledger[i] # NoRow}]
        /\ UNCHANGED <<item, members, retracts>>
        /\ changes < MaxChanges /\ changes' = changes + 1
    BY <1>2 DEF PurgeStarts, Edits
  <2>3. purge'.rows = [i \in Ids |-> View(ledger[i])] /\ purge'.rows \in [Ids -> Row]
    BY <2>1, <2>2
  <2>4. Distinct(purge'.rows)
    BY <2>1, <2>3 DEF Distinct, Keyed
  <2>5. purge' \in [at : {"idle", "retiring", "failed", "done"}, rows : [Ids -> Row], todo : SUBSET Ids]
    BY <2>2, <2>3
  <2>6. changes' \in 0..MaxChanges
    BY <2>2, GraphAssumption
  <2> QED
    BY <2>2, <2>4, <2>5, <2>6
<1>3. ASSUME NEW i \in Ids, RetiresDeferred(i) \/ RetiresPushed(i)
      PROVE  /\ UNCHANGED inputs /\ purge'.rows = purge.rows
             /\ purge' \in [at : {"idle", "retiring", "failed", "done"}, rows : [Ids -> Row], todo : SUBSET Ids]
  BY <1>3 DEF RetiresDeferred, RetiresPushed, Retires
<1>4. CASE PurgeDeletes
  BY <1>4, EmptyTyped DEF PurgeDeletes
<1>5. CASE PurgeFails
  BY <1>5, EmptyTyped DEF PurgeFails, inputs
<1>6. CASE ItemChanges \/ MembersChange
  <2>1. changes < MaxChanges /\ changes' = changes + 1 /\ UNCHANGED <<retracts, purge>>
    BY <1>6 DEF ItemChanges, MembersChange, Edits, Elsewhere
  <2>a. changes' \in 0..MaxChanges
    BY <2>1, GraphAssumption
  <2>2. item' \in [alive : BOOLEAN, access : {"team", "external"}, body : Bodies \cup {None}]
    BY <1>6 DEF ItemChanges, MembersChange
  <2>3. members' \in [general : BOOLEAN, shared : BOOLEAN, tags : SUBSET Initiatives]
    <3>1. CASE ItemChanges
      BY <3>1 DEF ItemChanges
    <3>2. CASE MembersChange
      <4>1. \/ members' = [members EXCEPT !.general = ~@]
            \/ members' = [members EXCEPT !.shared = ~@]
            \/ \E t \in Initiatives : \/ members' = [members EXCEPT !.tags = @ \ {t}]
                                      \/ members' = [members EXCEPT !.tags = @ \cup {t}]
        BY <3>2, Zenon DEF MembersChange
      <4>2. CASE members' = [members EXCEPT !.general = ~@]
        BY <4>2
      <4>3. CASE members' = [members EXCEPT !.shared = ~@]
        BY <4>3
      <4>4. CASE \E t \in Initiatives : \/ members' = [members EXCEPT !.tags = @ \ {t}]
                                        \/ members' = [members EXCEPT !.tags = @ \cup {t}]
        BY <4>4
      <4> QED
        BY <4>1, <4>2, <4>3, <4>4
    <3> QED
      BY <1>6, <3>1, <3>2
  <2> QED
    BY <2>1, <2>a, <2>2, <2>3
<1>7. CASE Environment
  BY <1>1, <1>2, <1>5, <1>6, <1>7 DEF Environment, Aborts, Extract, Lose, ReadArms, GraceElapses
<1> QED
  BY <1>1, <1>3, <1>4, <1>7, InputsStay DEF Next, Retirement, vars, inputs

\* What is in Graphiti, and the faults there were.
LEMMA GraphTyped ==
  ASSUME LedgerInv, [Next]_vars
  PROVE  /\ landed' \in SUBSET (Groups \X Bodies) /\ queued' \in SUBSET (Groups \X Bodies)
         /\ faults' \in 0..MaxFaults
<1>0. /\ landed \in SUBSET (Groups \X Bodies) /\ queued \in SUBSET (Groups \X Bodies)
      /\ faults \in 0..MaxFaults /\ job \in JobType
  BY DEF LedgerInv, Typed, JobType
<1>1. CASE UNCHANGED <<landed, queued, faults>>
  BY <1>0, <1>1
<1>2. ASSUME NEW G, TriesDelete(G) PROVE landed' \subseteq landed /\ queued' = queued /\ faults' \in 0..MaxFaults
  BY <1>2, DeleteTyped DEF LedgerInv
<1>3. CASE UNCHANGED graph /\ (Fault \/ UNCHANGED faults)
  BY <1>0, <1>3, FaultTyped DEF graph
<1>4. CASE MoveOut \/ KeepUntilCopied \/ RedactHome \/ MoveGroup
  BY <1>0, <1>2, <1>4 DEF MoveOut, KeepUntilCopied, RedactHome, MoveGroup
<1>5. CASE Prepare
  <2>1. \E G : TriesDelete(G)
    BY <1>5 DEF Prepare, TriesDelete
  <2> QED
    BY <1>0, <1>2, <2>1
<1>6. ASSUME NEW i \in Ids, \/ RedactCopy(i) \/ FanoutUntags(i) \/ CleanDeletes(i) \/ RetiresPushed(i)
      PROVE  landed' \subseteq landed /\ queued' = queued /\ faults' \in 0..MaxFaults
  BY <1>2, <1>6 DEF RedactCopy, FanoutUntags, CleanDeletes, RetiresPushed
<1>7. CASE PushHome
  <2>1. job.body \in Bodies /\ Home \in Groups
    BY <1>0, <1>7 DEF PushHome, LedgerInv, CopiesListed, JobType, Home, Groups
  <2> QED
    BY <1>0, <1>7, <2>1 DEF PushHome
<1>8. ASSUME NEW i \in Ids, FanoutPushes(i)
      PROVE  UNCHANGED <<landed, faults>> /\ queued' \in SUBSET (Groups \X Bodies)
  <2>1. job.body \in Bodies /\ job.rows[i].group \in Groups
    BY <1>0, <1>8 DEF FanoutPushes, Pushes, At, LedgerInv, CopiesListed, JobType, Groups, Acting, Visiting
  <2> QED
    BY <1>0, <1>8, <2>1 DEF FanoutPushes
<1>9. ASSUME NEW e \in Groups \X Bodies, Extract(e) \/ Lose(e)
      PROVE  /\ landed' \in SUBSET (Groups \X Bodies) /\ queued' \in SUBSET (Groups \X Bodies)
             /\ faults' \in 0..MaxFaults
  BY <1>0, <1>9, FaultTyped DEF Extract, Lose
<1>10. CASE Visit
  <2>1. ASSUME NEW i \in Ids, FanoutDrops(i) \/ FanoutCompletes(i) \/ FanoutSkips(i) \/ FanoutThrottles(i)
        PROVE  UNCHANGED graph /\ (Fault \/ UNCHANGED faults)
    BY <2>1 DEF FanoutDrops, FanoutCompletes, FanoutSkips, FanoutThrottles
  <2>2. CASE \/ LoadItem \/ ResolveTargets \/ ReadLedger \/ RestrictionArms \/ HoldHome
             \/ RedactEnds \/ SkipUnchanged \/ RecordHome \/ FanoutRecords
             \/ \E t \in Initiatives : FanoutDefers(t)
    BY <1>3, <2>2 DEF LoadItem, ResolveTargets, ReadLedger, RestrictionArms, HoldHome, RedactEnds,
       SkipUnchanged, RecordHome, FanoutRecords, FanoutDefers
  <2> QED
    BY <1>0, <1>3, <1>4, <1>5, <1>6, <1>7, <1>8, <1>10, <2>1, <2>2 DEF Visit
<1>11. CASE Reconcile
  <2>1. ASSUME NEW i \in Ids, \/ JudgeConfirms(i) \/ JudgePasses(i) \/ JudgeSkips(i)
                              \/ JudgeParks(i) \/ CleanWaits(i) \/ CleanClears(i)
        PROVE  UNCHANGED graph /\ (Fault \/ UNCHANGED faults)
    BY <2>1 DEF JudgeConfirms, JudgePasses, JudgeSkips, JudgeParks, CleanWaits, CleanClears
  <2>2. CASE ReconcileReads \/ RepairOrphans \/ PassEnds
    BY <1>3, <2>2 DEF ReconcileReads, RepairOrphans, PassEnds
  <2> QED
    BY <1>0, <1>3, <1>6, <1>11, <2>1, <2>2 DEF Reconcile
<1>12. CASE Retirement
  BY <1>0, <1>3, <1>6, <1>12 DEF Retirement, PurgeDeletes, RetiresDeferred
<1>13. CASE Environment
  <2>1. CASE \/ Aborts \/ PurgeStarts \/ PurgeFails \/ ItemChanges \/ MembersChange
             \/ (\E g \in Initiatives : ReadArms(g)) \/ \E i \in Ids : GraceElapses(i)
    BY <1>3, <2>1 DEF Aborts, PurgeStarts, PurgeFails, ItemChanges, MembersChange, Elsewhere,
       ReadArms, GraceElapses
  <2> QED
    BY <1>9, <1>13, <2>1 DEF Environment
<1>14. CASE UNCHANGED vars
  BY <1>1, <1>14 DEF vars, graph
<1> QED
  BY <1>10, <1>11, <1>12, <1>13, <1>14 DEF Next

\* What the pass has read.
LEMMA JobTyped ==
  ASSUME LedgerInv, [Next]_vars
  PROVE  /\ pc' \in {"idle"} \cup Visiting \cup Reconciling
         /\ job' \in JobType /\ Distinct(job'.rows)
<1>0. /\ pc \in {"idle"} \cup Visiting \cup Reconciling
      /\ job \in JobType /\ Distinct(job.rows) /\ ledger \in [Ids -> Row] /\ Keyed(ledger)
      /\ item \in [alive : BOOLEAN, access : {"team", "external"}, body : Bodies \cup {None}]
      /\ members \in [general : BOOLEAN, shared : BOOLEAN, tags : SUBSET Initiatives]
  BY DEF LedgerInv, Typed, JobType
<1> USE DEF Visiting, Reconciling
<1>1. CASE UNCHANGED <<pc, job>>
  BY <1>0, <1>1
<1>2. CASE job' = job /\ pc' \in Visiting
  BY <1>0, <1>2
<1>3. CASE pc' = "idle" /\ job' = NoJob
  BY <1>3, EmptyTyped
<1>4. ASSUME NEW i, job' = [job EXCEPT !.todo = @ \ {i}], pc' = pc
      PROVE  job' \in JobType /\ Distinct(job'.rows)
  BY <1>0, <1>4 DEF JobType
<1>5. CASE LoadItem
  <2>1. /\ job' = [NoJob EXCEPT !.home = IF item.access = "external" THEN external ELSE general,
                                !.body = item.body]
        /\ pc' = "loaded"
    BY <1>5 DEF LoadItem
  <2>2. job' \in JobType
    BY <1>0, <2>1, EmptyTyped DEF JobType, Homes
  <2>3. job'.rows = NoRows
    BY <2>1, EmptyTyped DEF JobType
  <2> QED
    BY <2>1, <2>2, <2>3, EmptyTyped
<1>6. CASE ResolveTargets
  <2>1. PICK h \in Homes, c \in BOOLEAN :
          job' = [job EXCEPT !.home = h, !.closed = c, !.tags = members.tags] /\ pc' = "homed"
    BY <1>6 DEF ResolveTargets, Homes
  <2> QED
    BY <1>0, <2>1 DEF JobType
<1>7. CASE ReadLedger
  <2>1. PICK rows : /\ rows = [i \in Ids |-> [ledger[i] EXCEPT !.aged = FALSE]]
                    /\ job' = [job EXCEPT !.rows = rows, !.todo = FanoutTodo(rows)]
                    /\ pc' \in {"restricted", "open"}
    BY <1>7 DEF ReadLedger
  <2>2. \A r \in Row : /\ [r EXCEPT !.aged = FALSE] \in Row
                       /\ [r EXCEPT !.aged = FALSE].group = r.group
    BY DEF Row
  <2>3. rows \in [Ids -> Row] /\ \A i \in Ids : rows[i].group = ledger[i].group
    BY <1>0, <2>1, <2>2
  <2>4. FanoutTodo(rows) \subseteq Ids \cup Initiatives
    BY <1>0 DEF FanoutTodo, FanoutIds, JobType
  <2>5. job' \in JobType /\ job'.rows = rows
    BY <1>0, <2>1, <2>3, <2>4 DEF JobType
  <2> QED
    BY <1>0, <2>1, <2>3, <2>5 DEF Distinct, Keyed
<1>8. CASE RedactHome
  <2> DEFINE T == {i \in job.todo : ~job.rows[i].deferred /\ job.rows[i].owed = None}
  <2>1. job' = [job EXCEPT !.todo = T] /\ pc' = "redacting"
    BY <1>8 DEF RedactHome
  <2>2. T \in SUBSET (Ids \cup Initiatives)
    BY <1>0 DEF JobType
  <2> HIDE DEF T
  <2> QED
    BY <1>0, <2>1, <2>2 DEF JobType
<1>9. CASE RedactEnds
  <2>1. FanoutTodo(job.rows) \subseteq Ids \cup Initiatives
    BY <1>0 DEF FanoutTodo, FanoutIds, JobType
  <2> QED
    BY <1>0, <1>9, <2>1 DEF RedactEnds, JobType
<1>10. CASE Prepare
  BY <1>0, <1>10 DEF Prepare, JobType
<1>11. ASSUME NEW i \in Ids, FanoutPushes(i)
       PROVE  job' \in JobType /\ job'.rows = job.rows /\ pc' = "fanpushed"
  BY <1>0, <1>11 DEF FanoutPushes, JobType, Row
<1>12. CASE ReconcileReads
  <2>1. PICK rows : /\ rows = [i \in Ids |-> IF ledger[i].deferred THEN NoRow
                                             ELSE [ledger[i] EXCEPT !.uuid = FALSE]]
                    /\ job' = [NoJob EXCEPT !.rows = rows] /\ pc' = "read"
    BY <1>12 DEF ReconcileReads
  <2>2. \A r \in Row : /\ [r EXCEPT !.uuid = FALSE] \in Row
                       /\ [r EXCEPT !.uuid = FALSE].group = r.group
    BY DEF Row
  <2>3. rows \in [Ids -> Row] /\ \A i \in Ids : rows[i].group \in {None, ledger[i].group}
    BY <1>0, <2>1, <2>2, EmptyTyped DEF NoRow
  <2>4. job' \in JobType /\ job'.rows = rows
    BY <2>1, <2>3, EmptyTyped DEF JobType
  <2> QED
    BY <1>0, <2>1, <2>3, <2>4 DEF Distinct, Keyed
<1>13. CASE RepairOrphans
  <2> DEFINE found == IF item.alive THEN {} ELSE {i \in Seen : job.rows[i].owed = None}
             patched == [i \in Ids |-> IF i \in found THEN Tombstone(job.rows[i]) ELSE job.rows[i]]
             F == {i \in Seen : patched[i].owed # None}
             o == ~item.alive
  <2>1. /\ job' = [job EXCEPT !.rows = patched, !.orphan = o, !.todo = Seen, !.flagged = F]
        /\ pc' = "judging"
    BY <1>13 DEF RepairOrphans
  <2>a. F \in SUBSET Ids /\ o \in BOOLEAN
    BY DEF Seen
  <2>2. \A r \in Row : Tombstone(r) \in Row /\ Tombstone(r).group = r.group
    BY DEF Tombstone, Row
  <2>3. job.rows \in [Ids -> Row] /\ Seen \subseteq Ids
    BY <1>0 DEF JobType, Seen
  <2>4. patched \in [Ids -> Row] /\ \A i \in Ids : patched[i].group = job.rows[i].group
    BY <2>1, <2>2, <2>3
  <2> HIDE DEF found, patched, F, o
  <2>5. job' \in JobType /\ job'.rows = patched
    BY <1>0, <2>1, <2>a, <2>3, <2>4 DEF JobType
  <2> QED
    BY <1>0, <2>1, <2>4, <2>5 DEF Distinct
<1>14. ASSUME NEW i \in Ids, CleanDeletes(i) \/ CleanWaits(i) \/ CleanClears(i)
       PROVE  job' \in JobType /\ job'.rows = job.rows /\ pc' = pc
  BY <1>0, <1>14 DEF CleanDeletes, CleanWaits, CleanClears, Cleans, JobType
<1>15. CASE Visit
  <2>1. ASSUME NEW i \in Ids \cup Initiatives,
               \/ RedactCopy(i) \/ FanoutDrops(i) \/ FanoutUntags(i) \/ FanoutCompletes(i)
               \/ FanoutSkips(i) \/ FanoutThrottles(i) \/ FanoutDefers(i)
        PROVE  job' = [job EXCEPT !.todo = @ \ {i}] /\ pc' = pc
    BY <2>1 DEF RedactCopy, FanoutDrops, FanoutUntags, FanoutCompletes, FanoutSkips,
       FanoutThrottles, FanoutDefers, Handled
  <2>2. CASE \/ RestrictionArms \/ MoveOut \/ HoldHome \/ KeepUntilCopied \/ SkipUnchanged
             \/ MoveGroup \/ PushHome \/ RecordHome \/ FanoutRecords
    BY <1>2, <2>2 DEF RestrictionArms, MoveOut, HoldHome, KeepUntilCopied, SkipUnchanged, MoveGroup,
       PushHome, RecordHome, FanoutRecords
  <2>3. CASE \E i \in Ids : \/ RedactCopy(i) \/ FanoutDrops(i) \/ FanoutUntags(i) \/ FanoutCompletes(i)
                            \/ FanoutSkips(i) \/ FanoutThrottles(i)
    BY <1>0, <1>4, <2>1, <2>3
  <2>4. CASE \E t \in Initiatives : FanoutDefers(t)
    BY <1>0, <1>4, <2>1, <2>4
  <2>5. CASE \E i \in Ids : FanoutPushes(i)
    BY <1>0, <1>11, <2>5
  <2> QED
    BY <1>5, <1>6, <1>7, <1>8, <1>9, <1>10, <1>15, <2>2, <2>3, <2>4, <2>5 DEF Visit
<1>16. CASE Reconcile
  <2>1. ASSUME NEW i \in Ids, JudgeConfirms(i) \/ JudgePasses(i) \/ JudgeSkips(i) \/ JudgeParks(i)
        PROVE  job' = [job EXCEPT !.todo = @ \ {i}] /\ pc' = pc
    BY <2>1 DEF JudgeConfirms, JudgePasses, JudgeSkips, JudgeParks, Handled
  <2>2. CASE \E i \in Ids : JudgeConfirms(i) \/ JudgePasses(i) \/ JudgeSkips(i) \/ JudgeParks(i)
    BY <1>0, <1>4, <2>1, <2>2
  <2>3. CASE \E i \in Ids : CleanDeletes(i) \/ CleanWaits(i) \/ CleanClears(i)
    BY <1>0, <1>14, <2>3
  <2>4. CASE PassEnds
    BY <1>3, <2>4 DEF PassEnds
  <2> QED
    BY <1>12, <1>13, <1>16, <2>2, <2>3, <2>4 DEF Reconcile
<1>17. CASE Aborts
  BY <1>3, <1>17 DEF Aborts
<1> QED
  BY <1>1, <1>15, <1>16, <1>17, PassStays DEF Next

\* Beside a visit nobody moves, inserts or deletes the row of the homes.
LEMMA HomesLeftAlone ==
  ASSUME IdsNeverRunOut, LedgerInv, [Retirement \/ Environment]_vars
  PROVE  \A i \in Ids : ledger[i].group \in Homes \/ ledger'[i].group \in Homes
                          => ledger'[i].group = ledger[i].group
<1>1. CASE Rewrites
  BY <1>1 DEF Rewrites
<1>2. ASSUME NEW i \in Ids, RetiresDeferred(i)
      PROVE  \A k \in Ids : ledger[k].group \in Homes \/ ledger'[k].group \in Homes
                              => ledger'[k].group = ledger[k].group
  <2>1. ledger' = [k \in Ids |-> IF k \in {n \in {i} : ledger[n].deferred} THEN NoRow ELSE ledger[k]]
    BY <1>2 DEF RetiresDeferred, Without
  <2>2. NoRow.group \notin Homes
    BY GraphAssumption DEF NoRow, Homes
  <2>3. \A k \in Ids : ledger[k].group \in Homes => ledger[k].deferred = FALSE
    BY DEF LedgerInv, HomesServed
  <2> QED
    BY <2>1, <2>2, <2>3
<1>3. CASE \E i \in Ids : RetiresDeferred(i)
  BY <1>2, <1>3
<1>4. CASE ~ \E i \in Ids : RetiresDeferred(i)
  <2>1. Rewrites \/ Removes
    BY OthersWrite
  <2>2. CASE UNCHANGED ledger
    BY <2>2
  <2>3. CASE \E i \in Ids : RetiresPushed(i)
    <3>1. PICK i \in Ids : RetiresPushed(i)
      BY <2>3
    <3>2. ledger \in [Ids -> Row]
      BY DEF LedgerInv, Typed
    <3>3. \A q : \A r \in Row : [r EXCEPT !.sha = None, !.owed = q, !.aged = FALSE].group = r.group
      BY DEF Row
    <3>4. \/ ledger' = ledger
          \/ \E q : ledger' = [ledger EXCEPT ![i] =
                      [ledger[i] EXCEPT !.sha = None, !.owed = q, !.aged = FALSE]]
      BY <3>1 DEF RetiresPushed, Patched
    <3>5. ledger[i] \in Row
      BY <3>2
    <3>6. CASE \E q : ledger' = [ledger EXCEPT ![i] =
                 [ledger[i] EXCEPT !.sha = None, !.owed = q, !.aged = FALSE]]
      <4>1. PICK q : ledger' = [ledger EXCEPT ![i] =
                 [ledger[i] EXCEPT !.sha = None, !.owed = q, !.aged = FALSE]]
        BY <3>6
      <4>2. ledger'[i] = [ledger[i] EXCEPT !.sha = None, !.owed = q, !.aged = FALSE]
            /\ \A k \in Ids : k # i => ledger'[k] = ledger[k]
        BY <3>2, <4>1
      <4>3. ledger'[i].group = ledger[i].group
        BY <3>3, <3>5, <4>2
      <4> QED
        BY <4>2, <4>3
    <3> QED
      BY <3>4, <3>6
  <2>4. CASE \E g \in Initiatives : ReadArms(g)
    <3>1. ledger \in [Ids -> Row]
      BY DEF LedgerInv, Typed
    <3> QED
      BY <2>4, <3>1 DEF ReadArms, Row
  <2>5. CASE \E i \in Ids : GraceElapses(i)
    <3>1. ledger \in [Ids -> Row]
      BY DEF LedgerInv, Typed
    <3> QED
      BY <2>5, <3>1 DEF GraceElapses, Row
  <2> QED
    BY <1>4, <2>2, <2>3, <2>4, <2>5 DEF Retirement, Environment, PurgeDeletes, Aborts, PurgeStarts,
       PurgeFails, ItemChanges, MembersChange, Elsewhere, Extract, Lose, vars
<1> QED
  BY <1>3, <1>4

LEMMA HomeSeenStep ==
  ASSUME IdsNeverRunOut, LedgerInv, [Next]_vars
  PROVE  HomeSeen'
<1>0. /\ ledger \in [Ids -> Row] /\ job \in JobType
      /\ Home \in Homes /\ Home # None
  BY GraphAssumption DEF LedgerInv, Typed, JobType, Home, Homes
<1>1. CASE pc' \notin {"restricted", "armed", "open", "moved", "prepared", "pushed"}
  BY <1>1 DEF HomeSeen
<1>2. CASE [Retirement \/ Environment]_vars /\ ~Aborts
  <2>1. UNCHANGED <<pc, job>>
    BY <1>2, PassStays
  <2>2. \A i \in Ids : ledger[i].group \in Homes \/ ledger'[i].group \in Homes
                        => ledger'[i].group = ledger[i].group
    BY <1>2, HomesLeftAlone
  <2>3. ASSUME pc' \in {"restricted", "armed", "open"}, NEW i \in Ids,
               job'.rows[i].group \in Homes \/ ledger'[i].group \in Homes
        PROVE  job'.rows[i].group = ledger'[i].group
    <3>1. job.rows[i].group = ledger[i].group /\ ledger[i].group \in Homes
      BY <2>1, <2>2, <2>3 DEF LedgerInv, HomeSeen
    <3> QED
      BY <2>1, <2>2, <3>1
  <2>4. ASSUME pc' \in {"moved", "prepared", "pushed"}
        PROVE  \E i \in Ids : ledger'[i].group = Home'
    <3>1. PICK i \in Ids : ledger[i].group = Home
      BY <2>1, <2>4 DEF LedgerInv, HomeSeen
    <3>2. ledger'[i].group = Home' /\ Home' = Home
      BY <1>0, <2>1, <2>2, <3>1 DEF Home
    <3> QED
      BY <3>2
  <2> QED
    BY <2>3, <2>4 DEF HomeSeen
<1>3. CASE ReadLedger
  <2>1. /\ job'.rows = [i \in Ids |-> [ledger[i] EXCEPT !.aged = FALSE]]
        /\ ledger' = ledger /\ pc' \in {"restricted", "open"}
    BY <1>0, <1>3 DEF ReadLedger, JobType
  <2>2. \A i \in Ids : job'.rows[i].group = ledger[i].group
    BY <1>0, <2>1 DEF Row
  <2> QED
    BY <2>1, <2>2 DEF HomeSeen
<1>4. CASE RestrictionArms \/ KeepUntilCopied
  <2>1. job' = job /\ (pc \in {"restricted", "armed"}) /\ pc' \in {"armed", "open", "fanout"}
    BY <1>4 DEF RestrictionArms, KeepUntilCopied
  <2>2. \A i \in Ids : ledger'[i].group = ledger[i].group
    <3>1. CASE RestrictionArms
      BY <1>0, <3>1 DEF RestrictionArms, Row
    <3>2. CASE KeepUntilCopied
      <4>1. \E G : ledger' = Tombstoned(G)
        BY <3>2 DEF KeepUntilCopied
      <4>2. \A r \in Row : Tombstone(r).group = r.group
        BY DEF Tombstone, Row
      <4> QED
        BY <1>0, <4>1, <4>2 DEF Tombstoned
    <3> QED
      BY <1>4, <3>1, <3>2
  <2> QED
    BY <2>1, <2>2 DEF LedgerInv, HomeSeen
<1>5. CASE MoveGroup
  <2>1. /\ pc = "open" /\ pc' = "moved" /\ job' = job /\ Existing # NoRow
        /\ ledger' = [i \in Ids |->
             IF ledger[i].group = Existing.group
             THEN [ledger[i] EXCEPT !.group = Home, !.sha = None, !.owed = Existing.group, !.aged = FALSE]
             ELSE ledger[i]]
    BY <1>5 DEF MoveGroup, TierChanged
  <2>2. PICK i \in Ids : job.rows[i] = Existing /\ Existing.group \in Homes
    BY <2>1, ExistingIsHome DEF LedgerInv
  <2>3. ledger[i].group = Existing.group
    BY <2>1, <2>2 DEF LedgerInv, HomeSeen
  <2>4. ledger'[i].group = Home
    BY <1>0, <2>1, <2>3 DEF Row
  <2> QED
    BY <2>1, <2>4 DEF HomeSeen, Home
<1>6. CASE Prepare
  <2>1. pc' = "prepared" /\ Home' = Home
    BY <1>0, <1>6 DEF Prepare, Home, JobType
  <2>2. NewRow(Home).group = Home /\ [NewRow(Home) EXCEPT !.owed = Existing.group].group = Home
    BY DEF NewRow, NoRow
  <2>3. CASE \E i \in Ids : ledger[i].group = Home
    <3>1. RowAt(ledger, Home) # NoRow
      BY <1>0, <2>3, RowFound
    <3>2. ledger' = ledger
      BY <1>6, <2>2, <3>1 DEF Prepare, Inserted
    <3> QED
      BY <2>1, <2>3, <3>2 DEF HomeSeen
  <2>4. CASE ~ \E i \in Ids : ledger[i].group = Home
    <3>1. pc = "open" /\ ~TierChanged
      BY <1>6, <2>4 DEF Prepare, LedgerInv, HomeSeen
    <3>2. Existing = NoRow
      <4>1. SUFFICES ASSUME Existing # NoRow PROVE FALSE
        OBVIOUS
      <4>2. Existing.group = Home
        BY <3>1, <4>1 DEF TierChanged
      <4>3. PICK i \in Ids : job.rows[i] = Existing
        BY <4>1, ExistingIsHome DEF LedgerInv
      <4>4. ledger[i].group = Home
        BY <1>0, <3>1, <4>2, <4>3 DEF LedgerInv, HomeSeen
      <4> QED
        BY <2>4, <4>4
    <3>3. RowAt(ledger, Home) = NoRow
      BY <1>0, <2>4, RowFound
    <3>4. ledger' = [ledger EXCEPT ![FreshId] = NewRow(Home)]
      BY <1>6, <2>2, <3>1, <3>2, <3>3 DEF Prepare, Inserted
    <3>5. ledger'[FreshId].group = Home /\ FreshId \in Ids
      BY <1>0, <2>2, <3>4, FreshIdExists DEF LedgerInv
    <3> QED
      BY <2>1, <3>5 DEF HomeSeen
  <2> QED
    BY <2>3, <2>4
<1>7. CASE PushHome
  BY <1>7 DEF PushHome, LedgerInv, HomeSeen, Home
<1>8. CASE Visit
  <2>1. ASSUME NEW i \in Ids \cup Initiatives,
               \/ RedactCopy(i) \/ FanoutDrops(i) \/ FanoutUntags(i) \/ FanoutCompletes(i)
               \/ FanoutSkips(i) \/ FanoutThrottles(i) \/ FanoutDefers(i) \/ FanoutPushes(i)
        PROVE  pc' \in {"redacting", "fanout", "fanpushed"}
    BY <2>1 DEF RedactCopy, FanoutDrops, FanoutUntags, FanoutCompletes,
       FanoutSkips, FanoutThrottles, FanoutDefers, FanoutPushes, At
  <2>2. CASE \/ LoadItem \/ ResolveTargets \/ MoveOut \/ HoldHome \/ RedactHome \/ RedactEnds
             \/ SkipUnchanged \/ RecordHome \/ FanoutRecords
    BY <1>1, <2>2 DEF LoadItem, ResolveTargets, MoveOut, HoldHome, RedactHome, RedactEnds,
       SkipUnchanged, RecordHome, FanoutRecords
  <2> QED
    BY <1>1, <1>3, <1>4, <1>5, <1>6, <1>7, <1>8, <2>1, <2>2 DEF Visit
<1>9. CASE Reconcile
  BY <1>1, <1>9 DEF Reconcile, ReconcileReads, RepairOrphans, PassEnds, JudgeConfirms, JudgePasses,
     JudgeSkips, JudgeParks, CleanDeletes, CleanWaits, CleanClears, Cleans
<1>10. CASE Aborts
  BY <1>1, <1>10 DEF Aborts
<1> QED
  BY <1>2, <1>8, <1>9, <1>10 DEF Next

LEMMA CopiesListedStep ==
  ASSUME LedgerInv, [Next]_vars
  PROVE  CopiesListed'
<1>0. /\ job \in JobType /\ CopiesListed /\ Ids \cap Initiatives = {}
      /\ ledger \in [Ids -> Row]
  BY GraphAssumption DEF LedgerInv, Typed, JobType
<1> USE DEF Acting, Visiting
<1>1. CASE pc' \notin Acting
  BY <1>1 DEF CopiesListed
<1>2. CASE UNCHANGED <<pc, job>>
  BY <1>0, <1>2 DEF CopiesListed
<1>3. CASE job' = job /\ pc \in Acting /\ pc' \in Acting \ {"moved", "prepared", "fanpushed"}
  BY <1>0, <1>3 DEF CopiesListed
\* What is listed are rows of initiatives, and initiatives.
<1>4. ASSUME NEW rows, NEW i \in Ids, i \in FanoutTodo(rows)
      PROVE  rows[i].group \in Initiatives
  BY <1>0, <1>4 DEF FanoutTodo, FanoutIds, JobType
<1>5. ASSUME NEW T, job' = [job EXCEPT !.todo = T], T \subseteq job.todo, pc \in Acting, pc' \in {pc, "redacting"}
      PROVE  CopiesListed'
  <2>1. job'.todo = T /\ job'.rows = job.rows /\ job'.body = job.body /\ job'.target = job.target
    BY <1>0, <1>5 DEF JobType
  <2> QED
    BY <1>0, <1>5, <2>1 DEF CopiesListed
<1>6. CASE ReadLedger
  <2>1. PICK rows : job' = [job EXCEPT !.rows = rows, !.todo = FanoutTodo(rows)]
                    /\ pc' \in {"restricted", "open"}
    BY <1>6 DEF ReadLedger
  <2>2. job'.todo = FanoutTodo(rows) /\ job'.rows = rows
    BY <1>0, <2>1 DEF JobType
  <2> QED
    BY <1>4, <2>1, <2>2 DEF CopiesListed
<1>7. CASE RedactEnds
  <2>1. job'.todo = FanoutTodo(job.rows) /\ job'.rows = job.rows /\ pc' = "fanout"
    BY <1>0, <1>7 DEF RedactEnds, JobType
  <2> QED
    BY <1>4, <2>1 DEF CopiesListed
<1>8. CASE RedactHome
  BY <1>5, <1>8 DEF RedactHome
<1>9. CASE MoveGroup
  BY <1>0, <1>9 DEF MoveGroup, CopiesListed
<1>10. CASE Prepare
  <2>1. /\ pc \in Acting /\ job.body # None /\ pc' = "prepared"
        /\ job'.todo = job.todo /\ job'.rows = job.rows /\ job'.body = job.body
    BY <1>0, <1>10 DEF Prepare, JobType, CopiesListed
  <2> QED
    BY <1>0, <2>1 DEF CopiesListed
<1>11. ASSUME NEW i \in Ids, FanoutPushes(i) PROVE CopiesListed'
  <2>1. /\ pc = "fanout" /\ pc' = "fanpushed" /\ i \in job.todo
        /\ job' = [job EXCEPT !.todo = @ \ {i}, !.target = job.rows[i].group]
    BY <1>11 DEF FanoutPushes, At
  <2>2. job'.todo = job.todo \ {i} /\ job'.rows = job.rows /\ job'.target = job.rows[i].group
    BY <1>0, <2>1 DEF JobType
  <2> QED
    BY <1>0, <2>1, <2>2 DEF CopiesListed
<1>12. CASE Visit
  <2>1. ASSUME NEW i \in Ids \cup Initiatives,
               \/ RedactCopy(i) \/ FanoutDrops(i) \/ FanoutUntags(i) \/ FanoutCompletes(i)
               \/ FanoutSkips(i) \/ FanoutThrottles(i) \/ FanoutDefers(i)
        PROVE  CopiesListed'
    <3>1. job' = [job EXCEPT !.todo = @ \ {i}] /\ pc' = pc /\ pc \in Acting
      BY <2>1 DEF RedactCopy, FanoutDrops, FanoutUntags, FanoutCompletes, FanoutSkips,
         FanoutThrottles, FanoutDefers, Handled, At
    <3> QED
      BY <1>5, <3>1
  <2>2. CASE LoadItem \/ ResolveTargets
    BY <1>1, <2>2 DEF LoadItem, ResolveTargets
  <2>3. CASE \/ RestrictionArms \/ MoveOut \/ HoldHome \/ KeepUntilCopied \/ SkipUnchanged
             \/ PushHome \/ RecordHome \/ FanoutRecords
    BY <1>3, <2>3 DEF RestrictionArms, MoveOut, HoldHome, KeepUntilCopied, SkipUnchanged,
       PushHome, RecordHome, FanoutRecords
  <2> QED
    BY <1>6, <1>7, <1>8, <1>9, <1>10, <1>11, <1>12, <2>1, <2>2, <2>3 DEF Visit
<1>13. CASE Reconcile
  BY <1>1, <1>13 DEF Reconcile, ReconcileReads, RepairOrphans, PassEnds, JudgeConfirms, JudgePasses,
     JudgeSkips, JudgeParks, CleanDeletes, CleanWaits, CleanClears, Cleans
<1>14. CASE Aborts
  BY <1>1, <1>14 DEF Aborts
<1> QED
  BY <1>2, <1>12, <1>13, <1>14, PassStays DEF Next

-----------------------------------------------------------------------------
(* The keys of the table hold, and every variable keeps its type.              *)

LEMMA LedgerInvStarts ==
  ASSUME Init
  PROVE  LedgerInv
<1>1. PICK a \in {"team", "external"}, t \in SUBSET Initiatives :
        /\ item = [alive |-> TRUE, access |-> a, body |-> CHOOSE b \in Bodies : TRUE]
        /\ members = [general |-> TRUE, shared |-> a = "external", tags |-> t]
  BY DEF Init
<1>2. /\ retracts \in Retractable /\ ledger = NoRows /\ landed = {} /\ queued = {}
      /\ pc = "idle" /\ job = NoJob /\ changes = 0 /\ faults = 0
      /\ purge = [at |-> "idle", rows |-> NoRows, todo |-> {}]
  BY DEF Init
<1>3. Typed
  <2>1. retracts \in BOOLEAN /\ changes \in 0..MaxChanges /\ faults \in 0..MaxFaults
    BY <1>2, GraphAssumption
  <2>2. (CHOOSE b \in Bodies : TRUE) \in Bodies
    BY GraphAssumption
  <2> QED
    BY <1>1, <1>2, <2>1, <2>2, EmptyTyped DEF Typed, JobType
<1>4. HomesServed
  BY <1>2 DEF HomesServed, NoRows, NoRow
<1>5. HomeSeen /\ CopiesListed
  BY <1>2 DEF HomeSeen, CopiesListed, Acting, Visiting
<1> QED
  BY <1>2, <1>3, <1>4, <1>5, EmptyTyped DEF LedgerInv

LEMMA LedgerInvKept ==
  ASSUME IdsNeverRunOut, LedgerInv, [Next]_vars
  PROVE  LedgerInv'
<1>1. ledger' \in [Ids -> Row] /\ Keyed(ledger') /\ HomesServed'
  <2>1. CASE Visit
    BY <2>1, VisitWrites, KeysKept
  <2>2. CASE [Reconcile \/ Retirement \/ Environment]_vars
    BY <2>2, OthersWrite, KeysKept
  <2> QED
    BY <2>1, <2>2 DEF Next
<1>2. Typed /\ Keyed(ledger) /\ Distinct(purge.rows)
  BY DEF LedgerInv
<1>3. Typed'
  BY <1>1, <1>2, InputsTyped, GraphTyped, JobTyped DEF Typed, JobType
<1> QED
  BY <1>1, <1>2, <1>3, InputsTyped, JobTyped, HomeSeenStep, CopiesListedStep DEF LedgerInv

THEOREM LedgerInvariant == ASSUME IdsNeverRunOut PROVE Spec => []LedgerInv
<1>1. Init => LedgerInv
  BY LedgerInvStarts
<1>2. LedgerInv /\ [Next]_vars => LedgerInv'
  BY LedgerInvKept
<1> QED
  BY <1>1, <1>2, PTL DEF Spec

\* Every variable keeps its type, and the ledger its two keys: one row per group, and one
\* in all for the home groups (the unique indices of graph_episodes).
THEOREM GraphTypeCorrect == ASSUME IdsNeverRunOut PROVE Spec => []GraphTypeOK
<1>1. ASSUME LedgerInv PROVE GraphTypeOK
  <2> DEFINE H == {i \in Ids : ledger[i].group \in Homes}
  <2>1. Typed /\ Keyed(ledger)
    BY <1>1 DEF LedgerInv
  <2>2. \A i, k \in Ids : ledger[i].group = ledger[k].group => i = k \/ ledger[i] = NoRow
    BY <2>1 DEF Keyed
  <2>3. Cardinality(H) <= 1
    <3>1. H = {} \/ \E i \in Ids : H = {i}
      BY <2>1 DEF Keyed
    <3> HIDE DEF H
    <3>2. CASE H = {}
      BY <3>2, FS_EmptySet
    <3>3. CASE \E i \in Ids : H = {i}
      <4>1. PICK i \in Ids : H = {i}
        BY <3>3
      <4> QED
        BY <4>1, FS_Singleton
    <3> QED
      BY <3>1, <3>2, <3>3
  <2> QED
    BY <2>1, <2>2, <2>3 DEF Typed, GraphTypeOK
<1> QED
  BY <1>1, LedgerInvariant, PTL

-----------------------------------------------------------------------------
(* What the ledger owes the home groups, until a purge and for sources that    *)
(* keep superseded text.                                                       *)

Undisturbed == purge.at = "idle" /\ ~retracts

\* The item's own row owes a home a purge; the rows of its copies owe initiatives.
Owes ==
  \A i \in Ids :
    /\ ledger[i].group \in Homes => ledger[i].owed \in Homes \cup {None}
    /\ ledger[i].group \in Initiatives => ledger[i].owed \notin Homes

\* When a debt is old enough to be judged, nothing is on its way to the group.
Drained ==
  \A i \in Ids :
    ledger[i].group \in Homes /\ ledger[i].aged = TRUE /\ ledger[i].owed # ledger[i].group
      => In(queued, {ledger[i].owed}) = {}

\* A visit knows what the row owes when it writes the row's debt, and keeps it until then.
DebtSeen ==
  /\ pc \in {"restricted", "armed", "open"} =>
       \A i \in Ids : ledger[i].group \in Homes => job.rows[i].owed = ledger[i].owed
  /\ pc \in {"restricted", "armed", "open", "moved", "prepared", "pushed"} =>
       \A i \in Ids : job.rows[i].group = Home =>
         ledger[i].group = Home /\ job.rows[i].owed = ledger[i].owed

\* So does the reconcile that clears it.
Agrees(i) ==
  ledger[i].group \in Homes =>
    /\ job.rows[i].owed = ledger[i].owed
    /\ job.rows[i].aged = TRUE /\ ledger[i].owed # ledger[i].group
         => In(queued, {ledger[i].owed}) = {}
DebtJudged ==
  /\ pc = "read" => \A i \in Ids : Agrees(i)
  /\ pc = "judging" => job.orphan = FALSE /\ \A i \in job.flagged : Agrees(i)

\* Only the purge of what was owed can have failed when the push is recorded.
FailedFirst ==
  job.failed = TRUE => PurgeFirst /\ pc \in {"prepared", "pushed", "fanout", "fanpushed"}

\* What is in a home group, or on its way, is what the item's row stands for or owes.
Covered ==
  \A e \in landed \cup queued : e[1] \in Homes =>
    \E i \in Ids : ledger[i].group \in Homes /\ e[1] \in {ledger[i].group, ledger[i].owed}

HomeInv ==
  Undisturbed =>
    item.alive = TRUE /\ Owes /\ Drained /\ DebtSeen /\ DebtJudged /\ FailedFirst /\ Covered

-----------------------------------------------------------------------------
(* Steps that leave the row of the homes, and what is in them, alone.          *)

LEMMA HomeFacts ==
  ASSUME LedgerInv
  PROVE  /\ ledger \in [Ids -> Row] /\ job \in JobType /\ job.rows \in [Ids -> Row]
         /\ NoRow \in Row /\ NoRow.group = None /\ NoRow.owed = None
         /\ NoRow.deferred = FALSE /\ NoRow.aged = FALSE
         /\ None \notin Homes /\ None \notin Initiatives /\ Homes \cap Initiatives = {}
         /\ Groups = Homes \cup Initiatives
         /\ Home \in Homes /\ OtherHome \in Homes /\ Homes = {Home, OtherHome}
         /\ Home # OtherHome
  BY GraphAssumption DEF LedgerInv, Typed, JobType, NoRow, Row, Homes, Groups, Home, OtherHome

\* Its debt is as it was, and not older.
RowKept ==
  \A i \in Ids : ledger[i].group \in Homes \/ ledger'[i].group \in Homes =>
    /\ ledger'[i].group = ledger[i].group /\ ledger'[i].owed = ledger[i].owed
    /\ ledger'[i].aged = TRUE => ledger[i].aged = TRUE
\* No copy comes to owe a home.
CopiesKept == \A i \in Ids : ledger'[i].group \in Initiatives => ledger'[i].owed \notin Homes
\* Nothing new is in some groups or on its way there.
NothingNew(H) ==
  /\ \A e \in landed' \cup queued' : e[1] \in H => e \in landed \cup queued
  /\ \A e \in queued' : e[1] \in H => e \in queued

Debts(r) == <<r.group, r.owed, r.aged>>

LEMMA CoveredAlone ==
  ASSUME LedgerInv, LedgerInv', Owes, Drained, Covered, RowKept, CopiesKept, NothingNew(Homes)
  PROVE  Owes' /\ Drained' /\ Covered'
<1>1. Owes'
  BY DEF Owes, RowKept, CopiesKept
<1>2. Drained'
  <2>1. SUFFICES ASSUME NEW i \in Ids, ledger'[i].group \in Homes, ledger'[i].aged = TRUE,
                        ledger'[i].owed # ledger'[i].group,
                        NEW e \in queued', e[1] = ledger'[i].owed
                 PROVE  FALSE
    BY DEF Drained, In
  <2>2. /\ ledger[i].group \in Homes /\ ledger[i].aged = TRUE
        /\ ledger[i].owed = e[1] /\ ledger[i].owed # ledger[i].group
    BY <2>1 DEF RowKept
  <2>3. e[1] \in Groups
    BY DEF LedgerInv, Typed
  <2>4. e[1] \in Homes
    BY <2>2, <2>3, HomeFacts, GraphAssumption DEF Owes, Groups, Homes
  <2>5. e \in queued
    BY <2>4 DEF NothingNew
  <2> QED
    BY <2>2, <2>5 DEF Drained, In
<1>3. Covered'
  BY DEF Covered, RowKept, NothingNew
<1> QED
  BY <1>1, <1>2, <1>3

\* The kinds of statement that do so.
LEMMA SameDebts ==
  ASSUME Owes, \A i \in Ids : Debts(ledger'[i]) = Debts(ledger[i])
  PROVE  RowKept /\ CopiesKept
  BY DEF Owes, Debts, RowKept, CopiesKept

LEMMA CopyTombstoned ==
  ASSUME LedgerInv, Owes, NEW g \in Initiatives, ledger' = Tombstoned({g})
  PROVE  RowKept /\ CopiesKept
<1>1. \A r \in Row : Tombstone(r).group = r.group /\ Tombstone(r).owed = r.group
  BY DEF Tombstone, Row
<1> QED
  BY <1>1, HomeFacts DEF Tombstoned, RowKept, CopiesKept, Owes

LEMMA CopyInserted ==
  ASSUME IdsNeverRunOut, LedgerInv, Owes, NEW r \in Row, r.group \in Initiatives,
         r.owed \notin Homes, ledger' = Inserted(r)
  PROVE  RowKept /\ CopiesKept
<1>1. CASE ledger' = ledger
  BY <1>1, SameDebts DEF Debts
<1>2. CASE ledger' = [ledger EXCEPT ![FreshId] = r]
  <2>1. FreshId \in Ids /\ ledger[FreshId].group = None
    BY FreshIdExists DEF LedgerInv
  <2>2. \A i \in Ids : ledger'[i] = IF i = FreshId THEN r ELSE ledger[i]
    BY <1>2, <2>1, HomeFacts
  <2> QED
    BY <2>1, <2>2, HomeFacts DEF RowKept, CopiesKept, Owes
<1> QED
  BY <1>1, <1>2 DEF Inserted

LEMMA CopiesRemoved ==
  ASSUME LedgerInv, Owes, NEW P, \A i \in P : i \in Ids => ledger[i].group \notin Homes,
         ledger' = Without(P)
  PROVE  RowKept /\ CopiesKept
<1>1. \A i \in Ids : ledger'[i] = IF i \in P THEN NoRow ELSE ledger[i]
  BY DEF Without
<1> QED
  BY <1>1, HomeFacts DEF RowKept, CopiesKept, Owes

LEMMA NothingNewByDelete ==
  ASSUME LedgerInv, NEW G, TriesDelete(G), NEW H
  PROVE  NothingNew(H)
  BY DeleteTyped DEF LedgerInv, NothingNew

LEMMA NothingNewBySame ==
  ASSUME UNCHANGED graph, NEW H
  PROVE  NothingNew(H)
  BY DEF graph, NothingNew

\* Most of a visit, and all of its fanout.
LEMMA VisitBeside ==
  ASSUME IdsNeverRunOut, LedgerInv, Owes, Visit,
         ~(MoveOut \/ KeepUntilCopied \/ RedactHome \/ MoveGroup \/ Prepare \/ PushHome \/ RecordHome)
  PROVE  RowKept /\ CopiesKept /\ NothingNew(Homes)
<1>1. CASE \/ LoadItem \/ ResolveTargets \/ ReadLedger \/ HoldHome \/ RedactEnds \/ SkipUnchanged
           \/ \E i \in Ids : FanoutSkips(i) \/ FanoutThrottles(i)
  <2>1. UNCHANGED <<ledger, graph>>
    BY <1>1 DEF LoadItem, ResolveTargets, ReadLedger, HoldHome, RedactEnds, SkipUnchanged,
       FanoutSkips, FanoutThrottles
  <2> QED
    BY <2>1, SameDebts, NothingNewBySame DEF Debts
<1>2. CASE RestrictionArms
  <2>1. \A r \in Row : Debts([r EXCEPT !.deferred = FALSE]) = Debts(r)
    BY DEF Debts, Row
  <2>2. \A i \in Ids : Debts(ledger'[i]) = Debts(ledger[i])
    BY <1>2, <2>1, HomeFacts DEF RestrictionArms
  <2>3. UNCHANGED graph
    BY <1>2 DEF RestrictionArms
  <2> QED
    BY <2>2, <2>3, SameDebts, NothingNewBySame
<1>3. CASE FanoutRecords
  <2>1. job.target \in Initiatives /\ UNCHANGED graph
    BY <1>3 DEF FanoutRecords, LedgerInv, CopiesListed
  <2>2. CASE ledger' = Inserted(Tombstone(NewRow(job.target)))
    <3> DEFINE r == Tombstone(NewRow(job.target))
    <3>1. r \in Row /\ r.group = job.target /\ r.owed = job.target
      BY <2>1, HomeFacts DEF Tombstone, NewRow, NoRow, Row
    <3> HIDE DEF r
    <3>2. r.owed \notin Homes /\ ledger' = Inserted(r) /\ r.group \in Initiatives
      BY <2>1, <2>2, <3>1, HomeFacts DEF r
    <3> QED
      BY <2>1, <3>1, <3>2, CopyInserted, NothingNewBySame
  <2>3. CASE ledger' = [i \in Ids |-> IF ledger[i].group = job.target
                                      THEN [ledger[i] EXCEPT !.sha = job.body] ELSE ledger[i]]
    <3>1. \A r \in Row : Debts([r EXCEPT !.sha = job.body]) = Debts(r)
      BY DEF Debts, Row
    <3>2. \A i \in Ids : Debts(ledger'[i]) = Debts(ledger[i])
      BY <2>3, <3>1, HomeFacts
    <3> QED
      BY <2>1, <3>2, SameDebts, NothingNewBySame
  <2> QED
    BY <1>3, <2>2, <2>3 DEF FanoutRecords
<1>4. ASSUME NEW t \in Initiatives, FanoutDefers(t) PROVE RowKept /\ CopiesKept /\ NothingNew(Homes)
  <2> DEFINE r == [NewRow(t) EXCEPT !.deferred = TRUE]
  <2>1. r \in Row /\ r.group = t /\ r.owed = None
    BY HomeFacts DEF NewRow, NoRow, Row, Groups
  <2>2. ledger' = Inserted(r) /\ UNCHANGED graph
    BY <1>4 DEF FanoutDefers
  <2> HIDE DEF r
  <2> QED
    BY <2>1, <2>2, CopyInserted, NothingNewBySame, HomeFacts
<1>5. ASSUME NEW i \in Ids, RedactCopy(i) \/ FanoutUntags(i)
      PROVE  RowKept /\ CopiesKept /\ NothingNew(Homes)
  <2>1. /\ job.rows[i].group \in Initiatives /\ ledger' = Tombstoned({job.rows[i].group})
        /\ TriesDelete({job.rows[i].group})
    BY <1>5 DEF RedactCopy, FanoutUntags, At, LedgerInv, CopiesListed, Acting, Visiting
  <2> QED
    BY <2>1, CopyTombstoned, NothingNewByDelete
<1>6. ASSUME NEW i \in Ids, FanoutDrops(i) \/ FanoutCompletes(i)
      PROVE  RowKept /\ CopiesKept /\ NothingNew(Homes)
  <2>1. job.rows[i].group \in Initiatives /\ UNCHANGED graph
    BY <1>6 DEF FanoutDrops, FanoutCompletes, At, LedgerInv, CopiesListed, Acting, Visiting
  <2>2. PICK P : ledger' = Without(P) /\ \A k \in P : ledger[k].group = job.rows[i].group
    BY <1>6 DEF FanoutDrops, FanoutCompletes
  <2> QED
    BY <2>1, <2>2, CopiesRemoved, NothingNewBySame, HomeFacts
<1>7. ASSUME NEW i \in Ids, FanoutPushes(i) PROVE RowKept /\ CopiesKept /\ NothingNew(Homes)
  <2>1. /\ job.rows[i].group \in Initiatives /\ UNCHANGED <<ledger, landed>>
        /\ queued' = queued \cup {<<job.rows[i].group, job.body>>}
    BY <1>7 DEF FanoutPushes, At, LedgerInv, CopiesListed, Acting, Visiting
  <2>2. NothingNew(Homes)
    BY <2>1, HomeFacts DEF NothingNew
  <2> QED
    BY <2>1, <2>2, SameDebts DEF Debts
<1> QED
  BY <1>1, <1>2, <1>3, <1>4, <1>5, <1>6, <1>7 DEF Visit

\* A reconcile of an item that is there, until it clears a debt.
LEMMA ReconcileBeside ==
  ASSUME LedgerInv, Owes, Reconcile, item.alive = TRUE, ~ \E i \in Ids : CleanClears(i)
  PROVE  RowKept /\ CopiesKept /\ NothingNew(Homes)
<1>1. CASE \/ ReconcileReads \/ PassEnds
           \/ \E i \in Ids : JudgePasses(i) \/ JudgeSkips(i) \/ CleanWaits(i)
  <2>1. UNCHANGED <<ledger, graph>>
    BY <1>1 DEF ReconcileReads, PassEnds, JudgePasses, JudgeSkips, CleanWaits
  <2> QED
    BY <2>1, SameDebts, NothingNewBySame DEF Debts
<1>2. CASE RepairOrphans
  <2>1. ledger' = [i \in Ids |-> ledger[i]] /\ UNCHANGED graph
    BY <1>2 DEF RepairOrphans
  <2> QED
    BY <2>1, SameDebts, NothingNewBySame DEF Debts
<1>3. ASSUME NEW i \in Ids, JudgeConfirms(i) \/ JudgeParks(i)
      PROVE  RowKept /\ CopiesKept /\ NothingNew(Homes)
  <2>1. \A r \in Row : /\ Debts([r EXCEPT !.uuid = TRUE]) = Debts(r)
                       /\ Debts([r EXCEPT !.sha = None]) = Debts(r)
    BY DEF Debts, Row
  <2>2. \/ ledger' = ledger
        \/ ledger' = [ledger EXCEPT ![i] = [ledger[i] EXCEPT !.uuid = TRUE]]
        \/ ledger' = [ledger EXCEPT ![i] = [ledger[i] EXCEPT !.sha = None]]
    BY <1>3 DEF JudgeConfirms, JudgeParks
  <2>3. \A k \in Ids : Debts(ledger'[k]) = Debts(ledger[k])
    BY <2>1, <2>2, HomeFacts
  <2>4. UNCHANGED graph
    BY <1>3 DEF JudgeConfirms, JudgeParks
  <2> QED
    BY <2>3, <2>4, SameDebts, NothingNewBySame
<1>4. ASSUME NEW i \in Ids, CleanDeletes(i)
      PROVE  RowKept /\ CopiesKept /\ NothingNew(Homes)
  <2>1. UNCHANGED ledger /\ TriesDelete({job.rows[i].owed})
    BY <1>4 DEF CleanDeletes
  <2> QED
    BY <2>1, SameDebts, NothingNewByDelete DEF Debts
<1> QED
  BY <1>1, <1>2, <1>3, <1>4 DEF Reconcile

\* A purge has not started unless it starts now.
LEMMA PurgeWaits ==
  ASSUME LedgerInv, Undisturbed', [Next]_vars
  PROVE  Undisturbed /\ ~Retirement /\ ~PurgeStarts /\ ~PurgeFails
<1>0. purge \in [at : {"idle", "retiring", "failed", "done"}, rows : [Ids -> Row], todo : SUBSET Ids]
  BY DEF LedgerInv, Typed
<1>1. ~Retirement
  <2>1. Retirement => purge'.at \in {"retiring", "done"}
    BY <1>0 DEF Retirement, PurgeDeletes, RetiresDeferred, RetiresPushed, Retires
  <2> QED
    BY <2>1 DEF Undisturbed
<1>2. ~PurgeStarts /\ ~PurgeFails
  BY DEF PurgeStarts, PurgeFails, Undisturbed
<1>3. Visit \/ Reconcile \/ Aborts => UNCHANGED <<purge, retracts>>
  BY InputsStay DEF inputs
<1>4. Environment => UNCHANGED <<purge, retracts>>
  BY <1>2 DEF Environment, Aborts, ItemChanges, MembersChange, Elsewhere, Extract, Lose, ReadArms,
     GraceElapses, inputs
<1> QED
  BY <1>1, <1>2, <1>3, <1>4 DEF Next, vars, inputs, Undisturbed

\* What happens to the item, its copies and its episodes before a purge starts.
LEMMA OthersBeside ==
  ASSUME LedgerInv, Owes, Undisturbed', [Environment]_vars, ~ \E i \in Ids : GraceElapses(i)
  PROVE  RowKept /\ CopiesKept /\ NothingNew(Homes) /\ queued' \subseteq queued
<1>1. CASE Aborts \/ ItemChanges \/ MembersChange \/ UNCHANGED vars
  <2>1. UNCHANGED <<ledger, graph>>
    BY <1>1 DEF Aborts, ItemChanges, MembersChange, Elsewhere, vars
  <2> QED
    BY <2>1, SameDebts, NothingNewBySame DEF Debts, graph
<1>2. ASSUME NEW e \in Groups \X Bodies, Extract(e) \/ Lose(e)
      PROVE  RowKept /\ CopiesKept /\ NothingNew(Homes) /\ queued' \subseteq queued
  <2>1. /\ UNCHANGED ledger /\ e \in queued
        /\ queued' \subseteq queued /\ landed' \subseteq landed \cup {e}
    BY <1>2 DEF Extract, Lose
  <2> QED
    BY <2>1, SameDebts DEF Debts, NothingNew
<1>3. ASSUME NEW g \in Initiatives, ReadArms(g)
      PROVE  RowKept /\ CopiesKept /\ NothingNew(Homes) /\ queued' = queued
  <2>1. \A r \in Row : Debts([r EXCEPT !.deferred = FALSE]) = Debts(r)
    BY DEF Debts, Row
  <2>2. \A i \in Ids : Debts(ledger'[i]) = Debts(ledger[i])
    BY <1>3, <2>1, HomeFacts DEF ReadArms
  <2>3. UNCHANGED graph
    BY <1>3 DEF ReadArms
  <2> QED
    BY <2>2, <2>3, SameDebts, NothingNewBySame DEF graph
<1>4. ~PurgeStarts /\ ~PurgeFails
  BY PurgeWaits DEF Next
<1> QED
  BY <1>1, <1>2, <1>3, <1>4 DEF Environment

-----------------------------------------------------------------------------
(* Steps that write the row of the homes, or push to a home.                   *)

\* Before a visit writes it, the row it has read is the row.
LEMMA SeenRow ==
  ASSUME LedgerInv, DebtSeen, pc \in {"restricted", "armed", "open"},
         NEW i \in Ids, ledger[i].group \in Homes
  PROVE  /\ Existing = job.rows[i] /\ Existing # NoRow
         /\ Existing.group = ledger[i].group /\ Existing.owed = ledger[i].owed
         /\ ledger[i].group = Home => Current = Existing
         /\ ledger[i].group # Home => Stale = Existing
<1>1. job.rows[i].group = ledger[i].group /\ job.rows[i].owed = ledger[i].owed
  BY DEF LedgerInv, HomeSeen, DebtSeen
<1>2. job.rows[i] # NoRow
  BY <1>1, HomeFacts
<1>3. ASSUME NEW g \in Homes, ledger[i].group = g PROVE RowAt(job.rows, g) = job.rows[i]
  <2>1. PICK k \in Ids : job.rows[k].group = g /\ RowAt(job.rows, g) = job.rows[k]
    BY <1>1, <1>3, RowFound, HomeFacts
  <2>2. k = i
    BY <1>1, <1>3, <2>1, HomeFacts DEF LedgerInv, Distinct
  <2> QED
    BY <2>1, <2>2
<1>4. CASE ledger[i].group = Home
  BY <1>1, <1>2, <1>3, <1>4, HomeFacts DEF Existing, Current
<1>5. CASE ledger[i].group = OtherHome
  <2>1. Stale = job.rows[i]
    BY <1>3, <1>5, HomeFacts DEF Stale
  <2>2. Current = NoRow
    <3>1. SUFFICES ASSUME Current # NoRow PROVE FALSE
      OBVIOUS
    <3>2. PICK k \in Ids : job.rows[k].group = Home
      BY <3>1, RowFound, HomeFacts DEF Current
    <3>3. ledger[k].group = Home
      BY <3>2, HomeFacts DEF LedgerInv, HomeSeen
    <3>4. k = i
      BY <3>3, HomeFacts DEF LedgerInv, Keyed
    <3> QED
      BY <1>5, <3>3, <3>4, HomeFacts
  <2> QED
    BY <1>1, <1>2, <1>5, <2>1, <2>2, HomeFacts DEF Existing
<1> QED
  BY <1>4, <1>5, HomeFacts

\* A row that owed nothing comes to owe its own group.
LEMMA HomeTombstoned ==
  ASSUME LedgerInv, LedgerInv', Owes, Drained, Covered, NothingNew(Homes),
         NEW G \in SUBSET Homes, ledger' = Tombstoned(G),
         \A i \in Ids : ledger[i].group \in G => ledger[i].owed = None
  PROVE  Owes' /\ Drained' /\ Covered'
<1>1. \A r \in Row : /\ Tombstone(r).group = r.group /\ Tombstone(r).owed = r.group
                     /\ Tombstone(r).aged = FALSE
  BY DEF Tombstone, Row
<1>2. \A i \in Ids : /\ ledger'[i].group = ledger[i].group
                     /\ ledger[i].group \in G => ledger'[i].owed = ledger[i].group
                     /\ ledger[i].group \notin G => ledger'[i] = ledger[i]
  BY <1>1, HomeFacts DEF Tombstoned
<1>3. Owes'
  BY <1>2, HomeFacts DEF Owes
<1>4. queued' \subseteq Groups \X Bodies /\ \A e \in queued' : e[1] \in Groups
  BY DEF LedgerInv, Typed
<1>5. Drained'
  <2>1. SUFFICES ASSUME NEW i \in Ids, ledger'[i].group \in Homes, ledger'[i].aged = TRUE,
                        ledger'[i].owed # ledger'[i].group,
                        NEW e \in queued', e[1] = ledger'[i].owed
                 PROVE  FALSE
    BY DEF Drained, In
  <2>2. ledger'[i] = ledger[i]
    BY <1>2, <2>1
  <2>3. e[1] \in Homes
    BY <1>4, <2>1, <2>2, HomeFacts DEF Owes
  <2>4. e \in queued
    BY <2>3 DEF NothingNew
  <2> QED
    BY <2>1, <2>2, <2>4 DEF Drained, In
<1>6. Covered'
  <2>1. SUFFICES ASSUME NEW e \in landed' \cup queued', e[1] \in Homes
                 PROVE  \E i \in Ids : ledger'[i].group \in Homes
                                       /\ e[1] \in {ledger'[i].group, ledger'[i].owed}
    BY DEF Covered
  <2>2. PICK i \in Ids : ledger[i].group \in Homes /\ e[1] \in {ledger[i].group, ledger[i].owed}
    BY <2>1 DEF Covered, NothingNew
  <2> QED
    BY <1>2, <2>1, <2>2, HomeFacts
<1> QED
  BY <1>3, <1>5, <1>6

LEMMA VisitTombstones ==
  ASSUME LedgerInv, LedgerInv', Owes, Drained, Covered, DebtSeen,
         MoveOut \/ KeepUntilCopied \/ RedactHome
  PROVE  Owes' /\ Drained' /\ Covered'
<1>1. PICK G \in SUBSET Homes :
        /\ ledger' = Tombstoned(G) /\ TriesDelete(G) /\ pc \in {"armed", "open"}
        /\ \/ G = {}
           \/ G = {Home} /\ Current.owed = None
           \/ G = {OtherHome} /\ Stale.owed = None
           \/ G = {Existing.group} /\ Existing.owed = None
  <2>1. CASE MoveOut
    BY <2>1, HomeFacts DEF MoveOut, Moves
  <2>2. CASE KeepUntilCopied
    BY <2>2, HomeFacts DEF KeepUntilCopied
  <2>3. CASE RedactHome
    BY <2>3, ExistingIsHome DEF RedactHome, LedgerInv
  <2> QED
    BY <2>1, <2>2, <2>3
<1>2. NothingNew(Homes)
  BY <1>1, NothingNewByDelete
<1>3. ASSUME NEW i \in Ids, ledger[i].group \in G PROVE ledger[i].owed = None
  <2>1. ledger[i].group \in Homes
    BY <1>3
  <2> QED
    BY <1>1, <1>3, <2>1, SeenRow, HomeFacts
<1> QED
  BY <1>1, <1>2, <1>3, HomeTombstoned

\* The row changes homes: it stands for one and owes the other.
LEMMA MoveOwes ==
  ASSUME LedgerInv, LedgerInv', Owes, Covered, DebtSeen, MoveGroup
  PROVE  Owes' /\ Drained' /\ Covered'
<1>1. /\ pc = "open" /\ TriesDelete({Existing.group}) /\ Existing # NoRow /\ Existing.group # Home
      /\ ledger' = [i \in Ids |->
           IF ledger[i].group = Existing.group
           THEN [ledger[i] EXCEPT !.group = Home, !.sha = None, !.owed = Existing.group, !.aged = FALSE]
           ELSE ledger[i]]
  BY DEF MoveGroup, TierChanged
<1>2. PICK i \in Ids : job.rows[i] = Existing /\ Existing.group \in Homes
  BY <1>1, ExistingIsHome DEF LedgerInv
<1>3. Existing.group = OtherHome /\ ledger[i].group = OtherHome
  BY <1>1, <1>2, HomeFacts DEF LedgerInv, HomeSeen
<1>4. \A r \in Row : LET new == [r EXCEPT !.group = Home, !.sha = None, !.owed = OtherHome, !.aged = FALSE]
                     IN  new.group = Home /\ new.owed = OtherHome /\ new.aged = FALSE
  BY DEF Row
<1>5. /\ ledger'[i].group = Home /\ ledger'[i].owed = OtherHome /\ ledger'[i].aged = FALSE
      /\ \A k \in Ids : k # i => ledger'[k] = ledger[k] /\ ledger'[k].group \notin Homes
  <2>1. \A k \in Ids : k # i => ledger[k].group \notin Homes
    BY <1>3, HomeFacts DEF LedgerInv, Keyed
  <2> QED
    <3>1. ledger'[i] = [ledger[i] EXCEPT !.group = Home, !.sha = None, !.owed = OtherHome, !.aged = FALSE]
      BY <1>1, <1>3
    <3>2. ledger[i] \in Row
      BY HomeFacts
    <3>3. \A k \in Ids : k # i => ledger'[k] = ledger[k]
      BY <1>1, <1>2, <2>1
    <3> QED
      BY <1>4, <2>1, <3>1, <3>2, <3>3
<1>6. Owes'
  BY <1>5, HomeFacts DEF Owes
<1>7. Drained'
  BY <1>5 DEF Drained
<1>8. Covered'
  BY <1>5, HomeFacts DEF Covered
<1> QED
  BY <1>6, <1>7, <1>8

\* A row is reserved only for an item that has none, so nothing was there yet.
LEMMA PrepareOwes ==
  ASSUME IdsNeverRunOut, LedgerInv, LedgerInv', Owes, Drained, Covered, Prepare
  PROVE  Owes' /\ Drained' /\ Covered'
<1>1. NothingNew(Homes)
  <2>1. \E G : TriesDelete(G)
    BY DEF Prepare, TriesDelete
  <2> QED
    BY <2>1, NothingNewByDelete
<1>2. CASE ledger' = ledger
  BY <1>1, <1>2, SameDebts, CoveredAlone DEF Debts
<1>3. CASE ledger' # ledger
  <2>1. NewRow(Home).group = Home /\ [NewRow(Home) EXCEPT !.owed = Existing.group].group = Home
        /\ NewRow(Home).owed = None /\ NewRow(Home).aged = FALSE
    BY DEF NewRow, NoRow
  <2>2. RowAt(ledger, Home) = NoRow
    BY <1>3, <2>1 DEF Prepare, Inserted
  <2>3. \A i \in Ids : ledger[i].group # Home
    BY <2>2, RowFound, HomeFacts
  <2>4. pc = "open" /\ ~TierChanged
    BY <2>3 DEF Prepare, LedgerInv, HomeSeen
  <2>5. Existing = NoRow
    BY <1>3, <2>4 DEF Prepare
  <2>6. ledger' = [ledger EXCEPT ![FreshId] = NewRow(Home)]
    BY <2>1, <2>2, <2>4, <2>5 DEF Prepare, Inserted
  <2>7. \A i \in Ids : ledger[i].group \notin Homes
    BY <2>4, <2>5, ExistingIsHome DEF LedgerInv, HomeSeen
  <2>8. \A i \in Ids : ledger'[i] = IF i = FreshId THEN NewRow(Home) ELSE ledger[i]
    BY <2>6, HomeFacts
  <2>9. Owes'
    BY <2>1, <2>8, HomeFacts DEF Owes
  <2>10. Drained'
    BY <2>1, <2>7, <2>8 DEF Drained
  <2>11. Covered'
    BY <1>1, <2>7 DEF Covered, NothingNew
  <2> QED
    BY <2>9, <2>10, <2>11
<1> QED
  BY <1>2, <1>3

\* There is a row for what is pushed.
LEMMA PushOwes ==
  ASSUME LedgerInv, Owes, Drained, Covered, PushHome
  PROVE  Owes' /\ Drained' /\ Covered'
<1>1. /\ pc = "prepared" /\ UNCHANGED <<ledger, landed>>
      /\ queued' \subseteq queued \cup {<<Home, job.body>>}
  BY DEF PushHome
<1>2. PICK i \in Ids : ledger[i].group = Home
  BY <1>1 DEF LedgerInv, HomeSeen
<1>3. Owes'
  BY <1>1 DEF Owes
<1>4. Drained'
  <2>1. SUFFICES ASSUME NEW k \in Ids, ledger[k].group \in Homes, ledger[k].aged = TRUE,
                        ledger[k].owed # ledger[k].group,
                        NEW e \in queued', e[1] = ledger[k].owed
                 PROVE  FALSE
    BY <1>1 DEF Drained, In
  <2>2. ledger[k].group = Home
    BY <1>2, <2>1, HomeFacts DEF LedgerInv, Keyed
  <2>3. e # <<Home, job.body>>
    BY <2>1, <2>2
  <2> QED
    BY <1>1, <2>1, <2>3 DEF Drained, In
<1>5. Covered'
  <2>1. SUFFICES ASSUME NEW e \in landed \cup queued', e[1] \in Homes
                 PROVE  \E k \in Ids : ledger[k].group \in Homes
                                       /\ e[1] \in {ledger[k].group, ledger[k].owed}
    BY <1>1 DEF Covered
  <2>2. CASE e = <<Home, job.body>>
    BY <1>2, <2>2, HomeFacts
  <2>3. CASE e \in landed \cup queued
    BY <2>1, <2>3 DEF Covered
  <2> QED
    BY <1>1, <2>2, <2>3
<1> QED
  BY <1>3, <1>4, <1>5

\* Once recorded the row owes the home it left, or what it owed, or nothing when that was
\* the home it stands for.
LEMMA RecordOwes ==
  ASSUME LedgerInv, LedgerInv', Owes, Drained, Covered, DebtSeen, FailedFirst, RecordHome
  PROVE  Owes' /\ Drained' /\ Covered'
<1>1. pc = "pushed" /\ UNCHANGED graph
  BY DEF RecordHome
<1>2. PICK i \in Ids : ledger[i].group = Home /\ RowAt(ledger, Home) = ledger[i]
  <2>1. \E i \in Ids : ledger[i].group = Home
    BY <1>1 DEF LedgerInv, HomeSeen
  <2> QED
    BY <2>1, RowFound, HomeFacts
<1>3. ledger[i] # NoRow
  BY <1>2, HomeFacts
<1> DEFINE sent == [ledger[i] EXCEPT !.sha = job.body]
<1>4. PICK gate \in BOOLEAN :
        ledger' = [k \in Ids |-> IF ledger[k].group = Home THEN Settled(sent, gate) ELSE ledger[k]]
  BY <1>2, <1>3 DEF RecordHome
<1>5. sent \in Row /\ Debts(sent) = Debts(ledger[i])
  <2>1. \A r \in Row : /\ [r EXCEPT !.sha = job.body] \in Row
                       /\ Debts([r EXCEPT !.sha = job.body]) = Debts(r)
    BY DEF Row, LedgerInv, Typed, Debts
  <2> QED
    BY <2>1, HomeFacts
<1> HIDE DEF sent
<1>6. \A k \in Ids : k # i => ledger'[k] = ledger[k] /\ ledger[k].group \notin Homes
  BY <1>2, <1>4, HomeFacts DEF LedgerInv, Keyed
<1>7. ledger'[i] = Settled(sent, gate)
  BY <1>2, <1>4
<1>8. \A q : \A r \in Row : /\ [r EXCEPT !.owed = q, !.aged = FALSE].group = r.group
                            /\ [r EXCEPT !.owed = q, !.aged = FALSE].owed = q
                            /\ [r EXCEPT !.owed = q, !.aged = FALSE].aged = FALSE
  BY DEF Row
<1>9. sent.group = Home /\ sent.owed = ledger[i].owed /\ sent.aged = ledger[i].aged
  BY <1>2, <1>5 DEF Debts
<1>10. CASE TierChanged
  <2>1. Existing.group = OtherHome
    BY <1>10, ExistingIsHome, HomeFacts DEF TierChanged, LedgerInv
  <2>2. Settled(sent, gate) = [sent EXCEPT !.owed = OtherHome, !.aged = FALSE]
    BY <1>10, <2>1 DEF Settled
  <2>3. ledger'[i].group = Home /\ ledger'[i].owed = OtherHome /\ ledger'[i].aged = FALSE
    BY <1>5, <1>7, <1>8, <1>9, <2>2
  <2>4. Owes'
    BY <1>6, <2>3, HomeFacts DEF Owes
  <2>5. Drained'
    BY <1>6, <2>3 DEF Drained
  <2>6. Covered'
    BY <2>3, HomeFacts DEF Covered
  <2> QED
    BY <2>4, <2>5, <2>6
<1>11. CASE ~TierChanged /\ PurgeFirst /\ ~job.failed /\ gate
  <2>1. ledger[i].owed = Home
    <3>1. Existing.group = Home /\ Existing.owed = Home
      BY <1>11 DEF TierChanged, PurgeFirst
    <3>2. PICK k \in Ids : job.rows[k] = Existing
      BY <1>11, ExistingIsHome DEF LedgerInv, PurgeFirst
    <3>3. ledger[k].group = Home /\ ledger[k].owed = Home
      BY <1>1, <3>1, <3>2 DEF DebtSeen
    <3> QED
      BY <1>6, <3>3, HomeFacts
  <2>2. Settled(sent, gate) = [sent EXCEPT !.owed = None, !.aged = FALSE]
    BY <1>11 DEF Settled
  <2>3. ledger'[i].group = Home /\ ledger'[i].owed = None /\ ledger'[i].aged = FALSE
    BY <1>5, <1>7, <1>8, <1>9, <2>2
  <2>4. Owes'
    BY <1>6, <2>3, HomeFacts DEF Owes
  <2>5. Drained'
    BY <1>6, <2>3 DEF Drained
  <2>6. Covered'
    <3>1. SUFFICES ASSUME NEW e \in landed \cup queued, e[1] \in Homes PROVE e[1] = Home
      BY <1>1, <2>3, HomeFacts DEF Covered, graph
    <3> QED
      BY <1>2, <1>6, <2>1, <3>1 DEF Covered
  <2> QED
    BY <2>4, <2>5, <2>6
<1>12. CASE ~TierChanged /\ ~(PurgeFirst /\ ~job.failed /\ gate)
  <2>1. ~(job.failed /\ ~PurgeFirst)
    BY DEF FailedFirst
  <2>2. Settled(sent, gate) = sent
    BY <1>12, <2>1 DEF Settled
  <2>3. \A k \in Ids : Debts(ledger'[k]) = Debts(ledger[k])
    BY <1>5, <1>6, <1>7, <2>2
  <2> QED
    BY <1>1, <2>3, SameDebts, NothingNewBySame, CoveredAlone
<1> QED
  BY <1>10, <1>11, <1>12

\* A debt is cleared when the group it names is empty and nothing is on its way there, or
\* it is the group the row stands for.
LEMMA ClearOwes ==
  ASSUME LedgerInv, LedgerInv', Owes, Drained, Covered, DebtJudged, NEW i \in Ids, CleanClears(i)
  PROVE  Owes' /\ Drained' /\ Covered'
<1>1. /\ pc = "judging" /\ i \in job.flagged /\ ~Dirty(i) /\ job.rows[i].aged /\ UNCHANGED graph
  BY DEF CleanClears, Cleans
<1>2. Agrees(i) /\ job.orphan = FALSE
  BY <1>1 DEF DebtJudged
<1>3. CASE ledger' = ledger
  BY <1>1, <1>3, SameDebts, NothingNewBySame, CoveredAlone DEF Debts
<1>4. CASE ledger' # ledger
  <2>1. ledger' = [ledger EXCEPT ![i] = [ledger[i] EXCEPT !.owed = None, !.aged = FALSE]]
    BY <1>2, <1>4 DEF CleanClears, Patched
  <2>2. \A r \in Row : /\ [r EXCEPT !.owed = None, !.aged = FALSE].group = r.group
                       /\ [r EXCEPT !.owed = None, !.aged = FALSE].owed = None
                       /\ [r EXCEPT !.owed = None, !.aged = FALSE].aged = FALSE
    BY DEF Row
  <2>3. /\ ledger'[i].group = ledger[i].group /\ ledger'[i].owed = None /\ ledger'[i].aged = FALSE
        /\ \A k \in Ids : k # i => ledger'[k] = ledger[k]
    BY <2>1, <2>2, HomeFacts
  <2>4. Owes'
    BY <2>3, HomeFacts DEF Owes
  <2>5. Drained'
    BY <1>1, <2>3 DEF Drained, graph
  <2>6. Covered'
    <3>1. SUFFICES ASSUME NEW e \in landed \cup queued, e[1] \in Homes
                   PROVE  \E k \in Ids : ledger'[k].group \in Homes
                                         /\ e[1] \in {ledger'[k].group, ledger'[k].owed}
      BY <1>1 DEF Covered, graph
    <3>2. PICK k \in Ids : ledger[k].group \in Homes /\ e[1] \in {ledger[k].group, ledger[k].owed}
      BY <3>1 DEF Covered
    <3>3. CASE k # i \/ e[1] = ledger[k].group
      BY <2>3, <3>2, <3>3
    <3>4. CASE k = i /\ e[1] = ledger[i].owed /\ ledger[i].owed # ledger[i].group
      <4>1. job.rows[i].owed = e[1] /\ In(queued, {e[1]}) = {}
        BY <1>1, <1>2, <3>2, <3>4 DEF Agrees
      <4>2. In(landed, {e[1]}) = {}
        BY <1>1, <4>1 DEF Dirty
      <4> QED
        BY <4>1, <4>2 DEF In
    <3> QED
      BY <3>2, <3>3, <3>4
  <2> QED
    BY <2>4, <2>5, <2>6
<1> QED
  BY <1>3, <1>4

\* A debt grows old when nothing is on its way any more.
LEMMA GraceOwes ==
  ASSUME LedgerInv, Owes, Drained, Covered, NEW i \in Ids, GraceElapses(i)
  PROVE  Owes' /\ Drained' /\ Covered'
<1>1. /\ In(queued, {ledger[i].owed}) = {} /\ UNCHANGED graph
      /\ ledger' = [ledger EXCEPT ![i] = [ledger[i] EXCEPT !.aged = TRUE]]
  BY DEF GraceElapses
<1>2. \A r \in Row : /\ [r EXCEPT !.aged = TRUE].group = r.group
                     /\ [r EXCEPT !.aged = TRUE].owed = r.owed
  BY DEF Row
<1>3. /\ ledger'[i].group = ledger[i].group /\ ledger'[i].owed = ledger[i].owed
      /\ \A k \in Ids : k # i => ledger'[k] = ledger[k]
  BY <1>1, <1>2, HomeFacts
<1>4. Owes'
  BY <1>3 DEF Owes
<1>5. Drained'
  BY <1>1, <1>3 DEF Drained, graph
<1>6. Covered'
  BY <1>1, <1>3 DEF Covered, graph
<1> QED
  BY <1>4, <1>5, <1>6

-----------------------------------------------------------------------------
(* What a pass knows stays so.                                                 *)

LEMMA DebtSeenStep ==
  ASSUME IdsNeverRunOut, LedgerInv, Owes, DebtSeen, Undisturbed', [Next]_vars
  PROVE  DebtSeen'
<1> DEFINE early == {"restricted", "armed", "open"}
           late == {"moved", "prepared", "pushed"}
<1>1. CASE pc' \notin early \cup late
  BY <1>1 DEF DebtSeen
<1>2. CASE /\ RowKept /\ pc \in early \cup late
           /\ pc' \in early => pc \in early
           /\ job'.rows = job.rows /\ Home' = Home
  <2>1. ASSUME pc' \in early, NEW i \in Ids, ledger'[i].group \in Homes
        PROVE  job'.rows[i].owed = ledger'[i].owed
    <3>1. ledger[i].group \in Homes /\ ledger'[i].owed = ledger[i].owed
      BY <2>1, <1>2 DEF RowKept
    <3> QED
      BY <1>2, <2>1, <3>1 DEF DebtSeen
  <2>2. ASSUME NEW i \in Ids, job'.rows[i].group = Home'
        PROVE  ledger'[i].group = Home' /\ job'.rows[i].owed = ledger'[i].owed
    <3>1. ledger[i].group = Home /\ job.rows[i].owed = ledger[i].owed
      BY <1>2, <2>2 DEF DebtSeen
    <3> QED
      BY <1>2, <3>1, HomeFacts DEF RowKept
  <2> QED
    BY <2>1, <2>2 DEF DebtSeen
<1>3. CASE ReadLedger
  <2>1. /\ job'.rows = [i \in Ids |-> [ledger[i] EXCEPT !.aged = FALSE]]
        /\ ledger' = ledger
    BY <1>3, HomeFacts DEF ReadLedger, JobType
  <2>2. \A r \in Row : /\ [r EXCEPT !.aged = FALSE].group = r.group
                       /\ [r EXCEPT !.aged = FALSE].owed = r.owed
    BY DEF Row
  <2>3. \A i \in Ids : job'.rows[i].owed = ledger'[i].owed /\ job'.rows[i].group = ledger'[i].group
    BY <2>1, <2>2, HomeFacts
  <2> QED
    BY <2>3 DEF DebtSeen
<1>4. CASE RestrictionArms
  <2>1. pc = "restricted" /\ pc' = "armed" /\ job' = job
    BY <1>4 DEF RestrictionArms
  <2>2. RowKept
    BY <1>4, <2>1, VisitBeside DEF Visit, MoveOut, KeepUntilCopied, RedactHome, MoveGroup, Prepare,
       PushHome, RecordHome
  <2> QED
    BY <1>2, <2>1, <2>2 DEF Home
<1>5. CASE KeepUntilCopied /\ pc' = "open"
  <2>1. /\ pc = "armed" /\ job' = job /\ Current # NoRow
        /\ \E G \in {{}, {OtherHome}} : ledger' = Tombstoned(G)
    BY <1>5 DEF KeepUntilCopied
  <2>2. PICK k \in Ids : job.rows[k].group = Home
    BY <2>1, RowFound, HomeFacts DEF Current
  <2>3. ledger[k].group = Home
    BY <2>1, <2>2 DEF DebtSeen
  <2>4. \A i \in Ids : ledger[i].group # OtherHome
    BY <2>3, HomeFacts DEF LedgerInv, Keyed
  <2>5. \A i \in Ids : ledger'[i] = ledger[i]
    BY <2>1, <2>4 DEF Tombstoned
  <2>6. RowKept
    BY <2>5 DEF RowKept
  <2> QED
    BY <1>2, <1>5, <2>1, <2>6 DEF Home
<1>6. CASE MoveGroup
  <2>1. pc' = "moved" /\ job' = job /\ Existing # NoRow /\ Existing.group # Home
    BY <1>6 DEF MoveGroup, TierChanged
  <2>2. \A i \in Ids : job.rows[i].group # Home
    <3>1. Current = NoRow
      <4>1. Current # NoRow => Current.group = Home
        BY RowFound, HomeFacts DEF Current
      <4> QED
        BY <2>1, <4>1 DEF Existing
    <3> QED
      BY <3>1, RowFound, HomeFacts DEF Current
  <2> QED
    BY <2>1, <2>2 DEF DebtSeen, Home
<1>7. CASE Prepare
  <2>1. pc \in {"open", "moved"} /\ pc' = "prepared" /\ job'.rows = job.rows /\ Home' = Home
    BY <1>7, HomeFacts DEF Prepare, JobType, Home
  <2>2. \A i \in Ids : ledger[i].group # None => ledger'[i] = ledger[i]
    <3>1. ledger[FreshId].group = None
      BY FreshIdExists DEF LedgerInv
    <3>2. ledger' = ledger \/ \E r : ledger' = [ledger EXCEPT ![FreshId] = r]
      BY <1>7 DEF Prepare, Inserted
    <3> QED
      BY <3>1, <3>2, HomeFacts
  <2>3. \A i \in Ids : job.rows[i].group = Home =>
          ledger[i].group = Home /\ job.rows[i].owed = ledger[i].owed
    BY <2>1 DEF DebtSeen
  <2>4. \A i \in Ids : job.rows[i].group = Home =>
          ledger'[i].group = Home /\ job.rows[i].owed = ledger'[i].owed
    BY <2>2, <2>3, HomeFacts
  <2> QED
    BY <2>1, <2>4 DEF DebtSeen
<1>8. CASE PushHome
  <2>1. pc = "prepared" /\ pc' = "pushed" /\ UNCHANGED <<ledger, job>>
    BY <1>8 DEF PushHome
  <2> QED
    BY <2>1 DEF DebtSeen, Home
<1>9. CASE Visit
  <2>1. ASSUME NEW i \in Ids \cup Initiatives,
               \/ RedactCopy(i) \/ FanoutDrops(i) \/ FanoutUntags(i) \/ FanoutCompletes(i)
               \/ FanoutSkips(i) \/ FanoutThrottles(i) \/ FanoutDefers(i) \/ FanoutPushes(i)
        PROVE  pc' \in {"redacting", "fanout", "fanpushed"}
    BY <2>1 DEF RedactCopy, FanoutDrops, FanoutUntags, FanoutCompletes,
       FanoutSkips, FanoutThrottles, FanoutDefers, FanoutPushes, At
  <2>2. CASE \/ LoadItem \/ ResolveTargets \/ MoveOut \/ HoldHome \/ RedactHome \/ RedactEnds
             \/ SkipUnchanged \/ RecordHome \/ FanoutRecords
    BY <1>1, <2>2 DEF LoadItem, ResolveTargets, MoveOut, HoldHome, RedactHome, RedactEnds,
       SkipUnchanged, RecordHome, FanoutRecords
  <2>3. CASE KeepUntilCopied
    BY <1>1, <1>5, <2>3 DEF KeepUntilCopied
  <2> QED
    BY <1>1, <1>3, <1>4, <1>6, <1>7, <1>8, <1>9, <2>1, <2>2, <2>3 DEF Visit
<1>10. CASE Reconcile
  BY <1>1, <1>10 DEF Reconcile, ReconcileReads, RepairOrphans, PassEnds, JudgeConfirms, JudgePasses,
     JudgeSkips, JudgeParks, CleanDeletes, CleanWaits, CleanClears, Cleans
<1>11. CASE Aborts \/ \E i \in Ids : GraceElapses(i)
  BY <1>1, <1>11 DEF Aborts, GraceElapses
<1>12. CASE [Environment]_vars /\ ~Aborts /\ ~ \E i \in Ids : GraceElapses(i)
  <2>1. RowKept /\ UNCHANGED <<pc, job>>
    BY <1>12, OthersBeside, PassStays
  <2> QED
    BY <1>1, <1>2, <2>1 DEF Home
<1> QED
  BY <1>9, <1>10, <1>11, <1>12, PurgeWaits DEF Next

LEMMA DebtJudgedStep ==
  ASSUME IdsNeverRunOut, LedgerInv, item.alive = TRUE, Owes, Drained, DebtJudged,
         Undisturbed', [Next]_vars
  PROVE  DebtJudged'
<1>1. CASE pc' \notin {"read", "judging"}
  BY <1>1 DEF DebtJudged
<1>2. ASSUME RowKept, queued' \subseteq queued, job'.rows = job.rows, NEW i \in Ids, Agrees(i)
      PROVE  Agrees(i)'
  BY <1>2 DEF Agrees, RowKept, In
<1>3. CASE ReconcileReads
  <2>1. /\ job' = [NoJob EXCEPT !.rows = [i \in Ids |->
             IF ledger[i].deferred THEN NoRow ELSE [ledger[i] EXCEPT !.uuid = FALSE]]]
        /\ pc' = "read" /\ UNCHANGED <<ledger, graph>>
    BY <1>3 DEF ReconcileReads
  <2>2. \A r \in Row : /\ [r EXCEPT !.uuid = FALSE].owed = r.owed
                       /\ [r EXCEPT !.uuid = FALSE].aged = r.aged
    BY DEF Row
  <2>3. job'.rows = [i \in Ids |->
             IF ledger[i].deferred THEN NoRow ELSE [ledger[i] EXCEPT !.uuid = FALSE]]
    BY <2>1, EmptyTyped DEF JobType
  <2>4. ASSUME NEW i \in Ids, ledger[i].group \in Homes
        PROVE  job'.rows[i].owed = ledger[i].owed /\ job'.rows[i].aged = ledger[i].aged
    <3>1. ledger[i].deferred = FALSE /\ ledger[i] \in Row
      BY <2>4, HomeFacts DEF LedgerInv, HomesServed
    <3>2. job'.rows[i] = [ledger[i] EXCEPT !.uuid = FALSE]
      BY <2>3, <3>1
    <3> QED
      BY <2>2, <3>1, <3>2
  <2>5. \A i \in Ids : Agrees(i)'
    BY <2>1, <2>4 DEF Agrees, Drained, graph
  <2> QED
    BY <2>1, <2>5 DEF DebtJudged
<1>4. CASE RepairOrphans
  <2>1. /\ pc = "read" /\ pc' = "judging" /\ UNCHANGED graph
        /\ ledger' = [i \in Ids |-> ledger[i]]
        /\ job' = [job EXCEPT !.rows = [i \in Ids |-> job.rows[i]], !.orphan = ~item.alive,
                              !.todo = Seen, !.flagged = {i \in Seen : job.rows[i].owed # None}]
    BY <1>4 DEF RepairOrphans, Seen
  <2>2. job'.rows = job.rows /\ job'.orphan = FALSE /\ job'.flagged \subseteq Ids
    BY <2>1, HomeFacts DEF JobType, Seen
  <2>3. RowKept
    BY <2>1 DEF RowKept
  <2>4. \A i \in Ids : Agrees(i)'
    BY <1>2, <2>1, <2>2, <2>3 DEF DebtJudged, graph
  <2> QED
    BY <2>1, <2>2, <2>4 DEF DebtJudged
<1>5. ASSUME NEW i \in Ids, JudgeConfirms(i) \/ JudgePasses(i) \/ JudgeSkips(i) \/ JudgeParks(i)
      PROVE  DebtJudged'
  <2>1. /\ pc = "judging" /\ pc' = "judging" /\ queued' = queued
        /\ job' = [job EXCEPT !.todo = @ \ {i}]
    BY <1>5 DEF JudgeConfirms, JudgePasses, JudgeSkips, JudgeParks, Handled, graph
  <2>2. job'.rows = job.rows /\ job'.orphan = job.orphan /\ job'.flagged = job.flagged
        /\ job.flagged \subseteq Ids
    BY <2>1, HomeFacts DEF JobType
  <2>3. RowKept
    <3>1. ~ \E k \in Ids : CleanClears(k)
      <4>1. job.todo # {}
        BY <1>5 DEF JudgeConfirms, JudgePasses, JudgeSkips, JudgeParks
      <4> QED
        BY <4>1 DEF CleanClears, Cleans
    <3>2. i \in Ids \cap job.todo
      BY <1>5 DEF JudgeConfirms, JudgePasses, JudgeSkips, JudgeParks
    <3>3. Reconcile
      BY <1>5, <3>2 DEF Reconcile
    <3> QED
      BY <3>1, <3>3, ReconcileBeside
  <2> QED
    BY <1>2, <2>1, <2>2, <2>3 DEF DebtJudged
<1>6. ASSUME NEW i \in Ids, CleanDeletes(i) \/ CleanWaits(i) \/ CleanClears(i)
      PROVE  DebtJudged'
  <2>1. /\ pc = "judging" /\ pc' = "judging" /\ queued' = queued
        /\ job' = [job EXCEPT !.flagged = @ \ {i}]
    BY <1>6, DeleteTyped DEF CleanDeletes, CleanWaits, CleanClears, Cleans, graph, LedgerInv
  <2>2. job'.rows = job.rows /\ job'.orphan = job.orphan /\ job'.flagged = job.flagged \ {i}
        /\ job.flagged \subseteq Ids
    BY <2>1, HomeFacts DEF JobType
  <2>3. \A k \in Ids : k # i => ledger'[k] = ledger[k]
    BY <1>6, HomeFacts DEF CleanDeletes, CleanWaits, CleanClears, Patched
  <2> QED
    BY <2>1, <2>2, <2>3 DEF DebtJudged, Agrees
<1>7. CASE Visit
  <2>1. pc' \notin {"read", "judging"}
    BY <1>7 DEF Visit, LoadItem, ResolveTargets, ReadLedger, RestrictionArms, MoveOut, HoldHome,
       KeepUntilCopied, RedactHome, RedactEnds, SkipUnchanged, MoveGroup, Prepare, PushHome,
       RecordHome, FanoutRecords, FanoutDefers, RedactCopy, FanoutDrops, FanoutUntags,
       FanoutCompletes, FanoutSkips, FanoutThrottles, FanoutPushes, At
  <2> QED
    BY <1>1, <2>1
<1>8. CASE Reconcile
  BY <1>1, <1>3, <1>4, <1>5, <1>6, <1>8 DEF Reconcile, PassEnds
<1>9. CASE Aborts \/ \E i \in Ids : GraceElapses(i)
  BY <1>1, <1>9 DEF Aborts, GraceElapses
<1>10. CASE [Environment]_vars /\ ~Aborts /\ ~ \E i \in Ids : GraceElapses(i)
  <2>1. RowKept /\ UNCHANGED <<pc, job>> /\ queued' \subseteq queued
    BY <1>10, OthersBeside, PassStays
  <2>2. job.flagged \subseteq Ids
    BY HomeFacts DEF JobType
  <2> QED
    BY <1>2, <2>1, <2>2 DEF DebtJudged
<1> QED
  BY <1>7, <1>8, <1>9, <1>10, PurgeWaits DEF Next

LEMMA FailedFirstStep ==
  ASSUME LedgerInv, FailedFirst, Undisturbed', [Next]_vars
  PROVE  FailedFirst'
<1> DEFINE F == {"prepared", "pushed", "fanout", "fanpushed"}
<1>1. CASE job'.failed = FALSE
  BY <1>1 DEF FailedFirst
<1>2. CASE pc \notin F /\ job'.failed = job.failed
  BY <1>2 DEF FailedFirst
<1>3. CASE /\ pc' \in F \cup {pc}
           /\ job'.failed = job.failed /\ job'.rows = job.rows /\ job'.home = job.home
  <2>1. PurgeFirst' <=> PurgeFirst
    BY <1>3 DEF PurgeFirst, Existing, Current, Stale, Home, OtherHome, RowAt
  <2> QED
    BY <1>3, <2>1 DEF FailedFirst
<1>4. NoJob.failed = FALSE
  BY DEF NoJob
<1>5. CASE LoadItem \/ ReconcileReads \/ PassEnds \/ Aborts
  <2>1. job'.failed = FALSE
    BY <1>4, <1>5, EmptyTyped DEF LoadItem, ReconcileReads, PassEnds, Aborts, JobType
  <2> QED
    BY <1>1, <2>1
<1>6. CASE ResolveTargets \/ ReadLedger \/ RedactHome \/ RedactEnds \/ RepairOrphans
  <2>1. pc \notin F /\ job'.failed = job.failed
    BY <1>6, HomeFacts DEF ResolveTargets, ReadLedger, RedactHome, RedactEnds, RepairOrphans, JobType
  <2> QED
    BY <1>2, <2>1
<1>7. CASE Prepare
  <2>1. pc' = "prepared" /\ pc \in {"moved", "open"} /\ ~retracts
    BY <1>7, PurgeWaits DEF Prepare, Undisturbed
  <2>2. job.failed = FALSE
    BY <2>1, HomeFacts DEF FailedFirst, JobType
  <2>3. CASE job' = job
    BY <1>1, <2>2, <2>3
  <2>4. CASE job' = [job EXCEPT !.failed = TRUE] /\ PurgeFirst
    <3>1. job'.rows = job.rows /\ job'.home = job.home
      BY <2>4, HomeFacts DEF JobType
    <3>2. PurgeFirst'
      BY <2>4, <3>1 DEF PurgeFirst, Existing, Current, Stale, Home, OtherHome, RowAt
    <3> QED
      BY <2>1, <3>2 DEF FailedFirst
  <2> QED
    BY <1>7, <2>1, <2>3, <2>4 DEF Prepare
<1>8. CASE \/ RestrictionArms \/ MoveOut \/ HoldHome \/ KeepUntilCopied \/ SkipUnchanged
           \/ MoveGroup \/ PushHome \/ RecordHome \/ FanoutRecords
  <2>1. pc \notin F \/ pc' \in F
    BY <1>8 DEF RestrictionArms, MoveOut, HoldHome, KeepUntilCopied, SkipUnchanged, MoveGroup,
       PushHome, RecordHome, FanoutRecords
  <2>2. job' = job
    BY <1>8 DEF RestrictionArms, MoveOut, HoldHome, KeepUntilCopied, SkipUnchanged, MoveGroup,
       PushHome, RecordHome, FanoutRecords
  <2> QED
    BY <1>2, <1>3, <2>1, <2>2
<1>9. ASSUME NEW i \in Ids \cup Initiatives,
             \/ RedactCopy(i) \/ FanoutDrops(i) \/ FanoutUntags(i) \/ FanoutCompletes(i)
             \/ FanoutSkips(i) \/ FanoutThrottles(i) \/ FanoutDefers(i) \/ FanoutPushes(i)
      PROVE  FailedFirst'
  <2>1. pc' \in F \cup {pc}
    BY <1>9 DEF RedactCopy, FanoutDrops, FanoutUntags, FanoutCompletes,
       FanoutSkips, FanoutThrottles, FanoutDefers, FanoutPushes, At
  <2>2. \/ job' = [job EXCEPT !.todo = @ \ {i}]
        \/ job' = [job EXCEPT !.todo = @ \ {i}, !.target = job.rows[i].group]
    BY <1>9 DEF RedactCopy, FanoutDrops, FanoutUntags, FanoutCompletes,
       FanoutSkips, FanoutThrottles, FanoutDefers, FanoutPushes, Handled
  <2>3. job'.failed = job.failed /\ job'.rows = job.rows /\ job'.home = job.home
    BY <2>2, HomeFacts DEF JobType
  <2> QED
    BY <1>3, <2>1, <2>3
<1>10. ASSUME NEW i \in Ids,
              \/ JudgeConfirms(i) \/ JudgePasses(i) \/ JudgeSkips(i) \/ JudgeParks(i)
              \/ CleanDeletes(i) \/ CleanWaits(i) \/ CleanClears(i)
       PROVE  FailedFirst'
  <2>1. pc = "judging"
    BY <1>10 DEF JudgeConfirms, JudgePasses, JudgeSkips, JudgeParks, CleanDeletes, CleanWaits,
       CleanClears, Cleans
  <2>2. \/ job' = [job EXCEPT !.todo = @ \ {i}]
        \/ job' = [job EXCEPT !.flagged = @ \ {i}]
    BY <1>10 DEF JudgeConfirms, JudgePasses, JudgeSkips, JudgeParks, CleanDeletes, CleanWaits,
       CleanClears, Cleans, Handled
  <2>3. job'.failed = job.failed
    BY <2>2, HomeFacts DEF JobType
  <2> QED
    BY <1>2, <2>1, <2>3
<1>11. CASE Visit
  BY <1>5, <1>6, <1>7, <1>8, <1>9, <1>11 DEF Visit
<1>12. CASE Reconcile
  BY <1>5, <1>6, <1>10, <1>12 DEF Reconcile
<1>13. CASE UNCHANGED <<pc, job>>
  BY <1>3, <1>13
<1> QED
  BY <1>5, <1>11, <1>12, <1>13, PassStays DEF Next

-----------------------------------------------------------------------------
(* No episode of a home is forgotten.                                          *)

LEMMA HomeInvStarts ==
  ASSUME Init
  PROVE  HomeInv
<1>1. /\ item.alive = TRUE /\ ledger = NoRows /\ landed = {} /\ queued = {}
      /\ pc = "idle" /\ job = NoJob
  BY DEF Init
<1>2. NoRow.group \notin Homes /\ NoRow.group \notin Initiatives
  BY GraphAssumption DEF NoRow, Homes
<1>3. Owes /\ Drained /\ Covered
  BY <1>1, <1>2 DEF Owes, Drained, Covered, NoRows
<1>4. DebtSeen /\ DebtJudged /\ FailedFirst
  BY <1>1 DEF DebtSeen, DebtJudged, FailedFirst, NoJob
<1> QED
  BY <1>1, <1>3, <1>4 DEF HomeInv

LEMMA HomeInvKept ==
  ASSUME IdsNeverRunOut, LedgerInv, LedgerInv', HomeInv, [Next]_vars
  PROVE  HomeInv'
<1> SUFFICES ASSUME Undisturbed'
             PROVE  /\ (item.alive = TRUE)' /\ Owes' /\ Drained' /\ DebtSeen' /\ DebtJudged'
                    /\ FailedFirst' /\ Covered'
  BY DEF HomeInv
<1>1. /\ item.alive = TRUE /\ Owes /\ Drained /\ DebtSeen /\ DebtJudged /\ FailedFirst /\ Covered
      /\ ~Retirement /\ ~PurgeStarts /\ ~PurgeFails
  BY PurgeWaits DEF HomeInv
<1>2. (item.alive = TRUE)'
  <2>1. CASE ItemChanges
    BY <1>1, <2>1 DEF ItemChanges, LedgerInv, Typed
  <2>2. CASE ~ItemChanges
    <3>1. item' = item
      BY <1>1, <2>2, InputsStay DEF Next, Environment, MembersChange, Extract, Lose, ReadArms,
         GraceElapses, inputs, vars
    <3> QED
      BY <1>1, <3>1
  <2> QED
    BY <2>1, <2>2
<1>3. Owes' /\ Drained' /\ Covered'
  <2>1. CASE RowKept /\ CopiesKept /\ NothingNew(Homes)
    BY <1>1, <2>1, CoveredAlone
  <2>2. CASE Visit
    BY <1>1, <2>1, <2>2, VisitBeside, VisitTombstones, MoveOwes, PrepareOwes, PushOwes, RecordOwes
  <2>3. CASE Reconcile
    BY <1>1, <2>1, <2>3, ReconcileBeside, ClearOwes
  <2>4. CASE [Environment]_vars
    BY <1>1, <2>1, <2>4, OthersBeside, GraceOwes
  <2> QED
    BY <1>1, <2>2, <2>3, <2>4 DEF Next
<1>4. DebtSeen' /\ DebtJudged' /\ FailedFirst'
  BY <1>1, DebtSeenStep, DebtJudgedStep, FailedFirstStep
<1> QED
  BY <1>2, <1>3, <1>4

\* What the row of the homes covers, the ledger points at.
LEMMA HomeInvLedgers ==
  ASSUME LedgerInv, HomeInv
  PROVE  HomeLedgered
<1>1. SUFFICES ASSUME purge.at = "idle", ~retracts, NEW e \in landed \cup queued, e[1] \in Homes
               PROVE  Pointed(e[1])
  BY DEF HomeLedgered, Ledgered, Content
<1>2. PICK i \in Ids : ledger[i].group \in Homes /\ e[1] \in {ledger[i].group, ledger[i].owed}
  BY <1>1 DEF HomeInv, Undisturbed, Covered
<1>3. ledger[i].deferred = FALSE
  BY <1>2 DEF LedgerInv, HomesServed
<1> QED
  BY <1>2, <1>3 DEF Pointed

\* Every episode of a home group, extracted or on its way, is one that a served row stands
\* for or owes a purge: through tier changes, restrictions, failed calls, crashes, lost and
\* late extractions, and passes that act on what they read earlier.
THEOREM HomesNeverForgotten == ASSUME IdsNeverRunOut PROVE Spec => []HomeLedgered
<1>1. Init => LedgerInv /\ HomeInv
  BY LedgerInvStarts, HomeInvStarts
<1>2. LedgerInv /\ HomeInv /\ [Next]_vars => (LedgerInv /\ HomeInv)'
  BY LedgerInvKept, HomeInvKept
<1>3. LedgerInv /\ HomeInv => HomeLedgered
  BY HomeInvLedgers
<1> QED
  BY <1>1, <1>2, <1>3, PTL DEF Spec

-----------------------------------------------------------------------------
(* What the ledger says of the copies, as long as no call fails.               *)

\* A row owes a home when it stands for one, and otherwise its own group.
OwnDebts ==
  \A i \in Ids :
    /\ ledger[i].group \in Homes => ledger[i].owed \in Homes \cup {None}
    /\ ledger[i].group \in Initiatives => ledger[i].owed \in {ledger[i].group, None}
    /\ ledger[i].aged = TRUE => ledger[i].owed # None

\* A row read earlier is still the row of that id, if there is one; only the home may have
\* changed.
Kin(L, S) ==
  \A i \in Ids :
    /\ L[i].group # None /\ S[i].group # None =>
         L[i].group = S[i].group \/ {L[i].group, S[i].group} \subseteq Homes
    /\ S[i].group = None => S[i] = NoRow

\* What a purge retires and a reconcile cleans are rows it has read, and a push has text.
Listed ==
  /\ \A i \in purge.todo : purge.rows[i].group # None
  /\ pc = "judging" => \A i \in job.flagged : job.rows[i].owed # None
  /\ pc = "fanpushed" => job.body # None

\* A copy that a visit found served is served until the fanout has looked at it, and a debt
\* old enough to be judged is one the visit knows of.
CopyStands ==
  pc \in Acting =>
    \A i \in Ids :
      job.rows[i].group \in Initiatives /\ job.rows[i].deferred = FALSE
        /\ (pc \in {"fanout", "fanpushed"} => i \in job.todo)
        => /\ ledger[i].group = job.rows[i].group /\ ledger[i].deferred = FALSE
           /\ ledger[i].aged = TRUE => job.rows[i].owed # None

\* When it is judged, nothing is on its way to the group.
CopiesDrained ==
  \A i \in Ids :
    ledger[i].group \in Initiatives /\ ledger[i].aged = TRUE
      => In(queued, {ledger[i].group}) = {}
SnapshotDrained ==
  pc \in Reconciling =>
    \A i \in Ids : job.rows[i].group \in Initiatives =>
      /\ job.rows[i].owed \in {job.rows[i].group, None}
      /\ job.rows[i].aged = TRUE => In(queued, {job.rows[i].group}) = {}

\* A row on the sentinel that owes nothing has no episode, but for the push of this step.
BlanksEmpty ==
  faults = 0 =>
    \A i \in Ids :
      ledger[i].group \in Initiatives /\ ledger[i].sha = None /\ ledger[i].owed = None
        => \/ In(landed \cup queued, {ledger[i].group}) = {}
           \/ pc = "fanpushed" /\ job.target = ledger[i].group

\* An episode in an initiative's group has a served row.
CopiesCovered ==
  faults = 0 =>
    \A e \in landed \cup queued : e[1] \in Initiatives =>
      \E i \in Ids : ledger[i].group = e[1] /\ ledger[i].deferred = FALSE

CopyInv ==
  /\ OwnDebts /\ Kin(ledger, job.rows) /\ Kin(ledger, purge.rows) /\ Listed
  /\ CopyStands /\ CopiesDrained /\ SnapshotDrained /\ BlanksEmpty /\ CopiesCovered

-----------------------------------------------------------------------------
(* What a step may do to a row.                                                *)

Held(i) ==
  /\ Debts(ledger'[i]) = Debts(ledger[i]) /\ ledger'[i].sha = ledger[i].sha
  /\ ledger'[i].deferred = TRUE => ledger[i].deferred = TRUE
\* A row that stands for no initiative.
Aside(i) ==
  /\ ledger[i].group \notin Initiatives /\ ledger'[i].group \notin Initiatives
  /\ ledger'[i].group \in Homes => ledger'[i].owed \in Homes \cup {None}
  /\ ledger'[i].aged = TRUE => ledger'[i].owed # None
\* It comes to owe its group.
Flagged(i) ==
  /\ ledger'[i].group = ledger[i].group /\ ledger[i].group \in Initiatives
  /\ ledger'[i].owed = ledger[i].group /\ ledger'[i].aged = FALSE
  /\ ledger'[i].deferred = TRUE => ledger[i].deferred = TRUE
\* Pushed, or on the sentinel and old.
Sent(i) ==
  /\ Debts(ledger'[i]) = Debts(ledger[i]) /\ ledger'[i].sha # None
  /\ ledger'[i].deferred = TRUE => ledger[i].deferred = TRUE
Aged(i) ==
  /\ pc = "idle"
  /\ ledger'[i] = [ledger[i] EXCEPT !.aged = TRUE]
  /\ ledger[i].owed # None /\ In(queued, {ledger[i].owed}) = {}
\* Parked, cleared or deleted when nothing is left of it, unless a call failed.
Emptied(i) ==
  /\ pc = "judging" \/ \E k \in Ids : FanoutCompletes(k)
  /\ faults' = 0 => In(landed \cup queued, {ledger[i].group}) = {}
  /\ ledger[i].group \in Initiatives
  /\ \/ ledger'[i] = NoRow
     \/ /\ ledger'[i].group = ledger[i].group
        /\ ledger'[i].deferred = TRUE => ledger[i].deferred = TRUE
        /\ \/ ledger'[i].owed = None /\ ledger'[i].aged = FALSE
           \/ Debts(ledger'[i]) = Debts(ledger[i])
Dropped(i) == ledger[i].deferred = TRUE /\ ledger'[i] = NoRow
Born(i) ==
  /\ ledger[i].group = None /\ ledger'[i].group \in Initiatives
  /\ \A k \in Ids : ledger[k].group # ledger'[i].group
  /\ ledger'[i].owed \in {ledger'[i].group, None} /\ ledger'[i].aged = FALSE

RowStep(i) ==
  \/ Held(i) \/ Aside(i) \/ Flagged(i) \/ Sent(i) \/ Aged(i) \/ Emptied(i) \/ Dropped(i) \/ Born(i)

\* The push of a copy is recorded, or still to be.
TargetKept ==
  pc = "fanpushed" /\ faults' = 0 =>
    \/ pc' = "fanpushed" /\ job'.target = job.target
    \/ \A i \in Ids : ledger'[i].group = job.target => ledger'[i].sha # None \/ ledger'[i].owed # None

LEMMA RowsKeepCovered ==
  ASSUME LedgerInv, LedgerInv', CopyInv, \A i \in Ids : RowStep(i),
         NothingNew(Initiatives), TargetKept, faults' = 0 => faults = 0
  PROVE  OwnDebts' /\ CopiesDrained' /\ BlanksEmpty' /\ CopiesCovered'
<1>0. /\ OwnDebts /\ CopiesDrained /\ BlanksEmpty /\ CopiesCovered
      /\ ledger' \in [Ids -> Row] /\ Keyed(ledger')
  BY DEF CopyInv, LedgerInv, Typed
<1>1. \A r \in Row : /\ [r EXCEPT !.aged = TRUE].group = r.group
                     /\ [r EXCEPT !.aged = TRUE].owed = r.owed
                     /\ [r EXCEPT !.aged = TRUE].sha = r.sha
                     /\ [r EXCEPT !.aged = TRUE].deferred = r.deferred
  BY DEF Row
<1>2. \A i \in Ids : Aged(i) => /\ ledger'[i].group = ledger[i].group
                                /\ ledger'[i].owed = ledger[i].owed
                                /\ ledger'[i].sha = ledger[i].sha
                                /\ ledger'[i].deferred = ledger[i].deferred
  BY <1>1, HomeFacts DEF Aged
<1>3. OwnDebts'
  <2>1. SUFFICES ASSUME NEW i \in Ids
                 PROVE  /\ ledger'[i].group \in Homes => ledger'[i].owed \in Homes \cup {None}
                        /\ ledger'[i].group \in Initiatives => ledger'[i].owed \in {ledger'[i].group, None}
                        /\ ledger'[i].aged = TRUE => ledger'[i].owed # None
    BY DEF OwnDebts
  <2>2. RowStep(i)
    OBVIOUS
  <2>3. CASE Held(i) \/ Sent(i)
    BY <1>0, <2>3 DEF Held, Sent, Debts, OwnDebts
  <2>4. CASE Aside(i)
    BY <2>4 DEF Aside
  <2>5. CASE Flagged(i) \/ Born(i)
    BY <2>5, HomeFacts DEF Flagged, Born
  <2>6. CASE Aged(i)
    BY <1>0, <1>2, <2>6 DEF Aged, OwnDebts
  <2>7. CASE Emptied(i)
    BY <1>0, <2>7, HomeFacts DEF Emptied, Debts, OwnDebts
  <2>8. CASE Dropped(i)
    BY <2>8, HomeFacts DEF Dropped
  <2> QED
    BY <2>2, <2>3, <2>4, <2>5, <2>6, <2>7, <2>8 DEF RowStep
<1>4. CopiesDrained'
  <2>1. SUFFICES ASSUME NEW i \in Ids, ledger'[i].group \in Initiatives, ledger'[i].aged = TRUE
                 PROVE  In(queued', {ledger'[i].group}) = {}
    BY DEF CopiesDrained
  <2>2. RowStep(i)
    OBVIOUS
  <2>3. ledger'[i].group = ledger[i].group /\ In(queued, {ledger[i].group}) = {}
    <3>1. CASE Held(i) \/ Sent(i)
      BY <1>0, <2>1, <3>1 DEF Held, Sent, Debts, CopiesDrained
    <3>2. CASE Aside(i) \/ Flagged(i) \/ Born(i) \/ Dropped(i)
      BY <2>1, <3>2, HomeFacts DEF Aside, Flagged, Born, Dropped
    <3>3. CASE Aged(i)
      BY <1>0, <1>2, <2>1, <3>3 DEF Aged, OwnDebts
    <3>4. CASE Emptied(i)
      BY <1>0, <2>1, <3>4, HomeFacts DEF Emptied, Debts, CopiesDrained
    <3> QED
      BY <2>2, <3>1, <3>2, <3>3, <3>4 DEF RowStep
  <2> QED
    BY <2>1, <2>3 DEF NothingNew, In
<1>5. BlanksEmpty'
  <2>1. SUFFICES ASSUME faults' = 0, NEW i \in Ids, ledger'[i].group \in Initiatives,
                        ledger'[i].sha = None, ledger'[i].owed = None
                 PROVE  \/ In(landed' \cup queued', {ledger'[i].group}) = {}
                        \/ pc' = "fanpushed" /\ job'.target = ledger'[i].group
    BY DEF BlanksEmpty
  <2>2. RowStep(i) /\ faults = 0
    BY <2>1
  <2>3. CASE In(landed \cup queued, {ledger'[i].group}) = {}
    BY <2>1, <2>3 DEF NothingNew, In
  <2>4. CASE ledger'[i].group = ledger[i].group /\ ledger[i].sha = None /\ ledger[i].owed = None
    BY <1>0, <2>1, <2>2, <2>3, <2>4 DEF BlanksEmpty, TargetKept
  <2>5. CASE Held(i) \/ Aged(i)
    BY <1>2, <2>1, <2>4, <2>5 DEF Held, Debts
  <2>6. CASE Aside(i) \/ Flagged(i) \/ Sent(i) \/ Dropped(i)
    BY <2>1, <2>6, HomeFacts DEF Aside, Flagged, Sent, Dropped
  <2>7. CASE Emptied(i)
    BY <2>1, <2>3, <2>7, HomeFacts DEF Emptied
  <2>8. CASE Born(i)
    <3>1. \A e \in landed \cup queued : e[1] # ledger'[i].group
      BY <1>0, <2>1, <2>2, <2>8 DEF Born, CopiesCovered
    <3> QED
      BY <2>3, <3>1 DEF In
  <2> QED
    BY <2>2, <2>5, <2>6, <2>7, <2>8 DEF RowStep
<1>6. CopiesCovered'
  <2>1. SUFFICES ASSUME faults' = 0, NEW e \in landed' \cup queued', e[1] \in Initiatives
                 PROVE  \E i \in Ids : ledger'[i].group = e[1] /\ ledger'[i].deferred = FALSE
    BY DEF CopiesCovered
  <2>2. e \in landed \cup queued /\ faults = 0
    BY <2>1 DEF NothingNew
  <2>3. PICK i \in Ids : ledger[i].group = e[1] /\ ledger[i].deferred = FALSE
    BY <1>0, <2>1, <2>2 DEF CopiesCovered
  <2>4. ledger'[i].deferred \in BOOLEAN
    BY <1>0 DEF Row
  <2>5. RowStep(i)
    OBVIOUS
  <2>6. CASE Held(i) \/ Flagged(i) \/ Sent(i)
    BY <2>3, <2>4, <2>6 DEF Held, Flagged, Sent, Debts
  <2>7. CASE Aside(i) \/ Dropped(i) \/ Born(i)
    BY <2>1, <2>3, <2>7, HomeFacts DEF Aside, Dropped, Born
  <2>8. CASE Aged(i)
    BY <1>2, <2>3, <2>8
  <2>9. CASE Emptied(i)
    BY <2>1, <2>2, <2>3, <2>9 DEF Emptied, In
  <2> QED
    BY <2>5, <2>6, <2>7, <2>8, <2>9 DEF RowStep
<1> QED
  BY <1>3, <1>4, <1>5, <1>6

-----------------------------------------------------------------------------
(* Every step does one of these to each row.                                   *)

LEMMA TombstonedSteps ==
  ASSUME LedgerInv, NEW G, None \notin G, ledger' = Tombstoned(G)
  PROVE  \A i \in Ids : RowStep(i)
<1>1. \A r \in Row : /\ Tombstone(r).group = r.group /\ Tombstone(r).owed = r.group
                     /\ Tombstone(r).aged = FALSE /\ Tombstone(r).deferred = r.deferred
  BY DEF Tombstone, Row
<1>2. SUFFICES ASSUME NEW i \in Ids PROVE RowStep(i)
  OBVIOUS
<1>3. CASE ledger[i].group \notin G
  <2>1. ledger'[i] = ledger[i]
    BY <1>3 DEF Tombstoned
  <2> QED
    BY <2>1 DEF RowStep, Held
<1>4. CASE ledger[i].group \in G
  <2>1. ledger'[i] = Tombstone(ledger[i]) /\ ledger[i] \in Row
    BY <1>4, HomeFacts DEF Tombstoned
  <2>2. ledger[i].group \in Homes \cup Initiatives
    BY <1>4, <2>1, HomeFacts DEF Row
  <2> QED
    BY <1>1, <2>1, <2>2, HomeFacts DEF RowStep, Flagged, Aside
<1> QED
  BY <1>3, <1>4

LEMMA OneRowSteps ==
  ASSUME LedgerInv, NEW i \in Ids, NEW r, ledger' = [ledger EXCEPT ![i] = r], RowStep(i)
  PROVE  \A k \in Ids : RowStep(k)
<1>1. \A k \in Ids : k # i => ledger'[k] = ledger[k]
  BY HomeFacts
<1>2. \A k \in Ids : ledger'[k] = ledger[k] => RowStep(k)
  BY DEF RowStep, Held
<1> QED
  BY <1>1, <1>2

LEMMA SameSteps ==
  ASSUME ledger' = ledger
  PROVE  \A i \in Ids : RowStep(i)
  BY DEF RowStep, Held

LEMMA InsertedSteps ==
  ASSUME IdsNeverRunOut, LedgerInv, NEW r \in Row, r.aged = FALSE, ledger' = Inserted(r),
         \/ r.group \in Homes /\ r.owed \in Homes \cup {None}
         \/ r.group \in Initiatives /\ r.owed \in {r.group, None}
  PROVE  \A i \in Ids : RowStep(i)
<1>1. CASE ledger' = ledger
  BY <1>1, SameSteps
<1>2. CASE ledger' # ledger
  <2>1. /\ RowAt(ledger, r.group) = NoRow /\ ledger' = [ledger EXCEPT ![FreshId] = r]
    BY <1>2 DEF Inserted
  <2>2. \A k \in Ids : ledger[k].group # r.group
    BY <2>1, RowFound, HomeFacts
  <2>3. FreshId \in Ids /\ ledger[FreshId].group = None
    BY FreshIdExists DEF LedgerInv
  <2>4. ledger'[FreshId] = r
    BY <2>1, <2>3, HomeFacts
  <2>5. RowStep(FreshId)
    BY <2>2, <2>3, <2>4, HomeFacts DEF RowStep, Born, Aside
  <2> QED
    BY <2>1, <2>3, <2>5, OneRowSteps
<1> QED
  BY <1>1, <1>2

LEMMA HomeRecordSteps ==
  ASSUME IdsNeverRunOut, LedgerInv, OwnDebts, RecordHome
  PROVE  \A i \in Ids : RowStep(i)
<1>1. PICK n \in Ids : ledger[n].group = Home /\ RowAt(ledger, Home) = ledger[n]
  <2>1. \E n \in Ids : ledger[n].group = Home
    BY DEF LedgerInv, HomeSeen, RecordHome
  <2> QED
    BY <2>1, RowFound, HomeFacts
<1>2. ledger[n] # NoRow
  BY <1>1, HomeFacts
<1> DEFINE sent == [ledger[n] EXCEPT !.sha = job.body]
<1>3. PICK gate \in BOOLEAN :
        ledger' = [k \in Ids |-> IF ledger[k].group = Home THEN Settled(sent, gate) ELSE ledger[k]]
  BY <1>1, <1>2 DEF RecordHome
<1>4. sent \in Row /\ Debts(sent) = Debts(ledger[n])
  <2>1. \A r \in Row : /\ [r EXCEPT !.sha = job.body] \in Row
                       /\ Debts([r EXCEPT !.sha = job.body]) = Debts(r)
    BY DEF Row, LedgerInv, Typed, Debts
  <2> QED
    BY <2>1, HomeFacts
<1> HIDE DEF sent
<1>5. \A q : \A r \in Row : /\ [r EXCEPT !.owed = q, !.aged = FALSE].group = r.group
                            /\ [r EXCEPT !.owed = q, !.aged = FALSE].owed = q
                            /\ [r EXCEPT !.owed = q, !.aged = FALSE].aged = FALSE
  BY DEF Row
<1>6. /\ sent.group = Home /\ sent.owed \in Homes \cup {None}
      /\ sent.aged = TRUE => sent.owed # None
  BY <1>1, <1>4, HomeFacts DEF Debts, OwnDebts
<1>7. PICK s : s = Settled(sent, gate)
  OBVIOUS
<1>8. s.group = Home /\ s.owed \in Homes \cup {None} /\ (s.aged = TRUE => s.owed # None)
  <2>1. TierChanged => Existing.group \in Homes
    BY ExistingIsHome DEF TierChanged, LedgerInv
  <2>2. s = sent \/ \E q \in Homes \cup {None} : s = [sent EXCEPT !.owed = q, !.aged = FALSE]
    BY <1>7, <2>1, HomeFacts DEF Settled
  <2>3. CASE s = sent
    BY <1>6, <2>3
  <2>4. ASSUME NEW q \in Homes \cup {None}, s = [sent EXCEPT !.owed = q, !.aged = FALSE]
        PROVE  s.group = Home /\ s.owed = q /\ s.aged = FALSE
    BY <1>4, <1>5, <1>6, <2>4
  <2> QED
    BY <2>2, <2>3, <2>4
<1>9. ASSUME NEW k \in Ids PROVE RowStep(k)
  <2>1. CASE ledger[k].group = Home
    BY <1>3, <1>7, <1>8, <2>1, HomeFacts DEF RowStep, Aside
  <2>2. CASE ledger[k].group # Home
    <3>1. ledger'[k] = ledger[k]
      BY <1>3, <2>2
    <3> QED
      BY <3>1 DEF RowStep, Held
  <2> QED
    BY <2>1, <2>2
<1> QED
  BY <1>9

LEMMA VisitSteps ==
  ASSUME IdsNeverRunOut, LedgerInv, CopyInv, Visit
  PROVE  \A i \in Ids : RowStep(i)
<1>1. CASE \/ LoadItem \/ ResolveTargets \/ ReadLedger \/ HoldHome \/ RedactEnds \/ SkipUnchanged
           \/ PushHome
           \/ \E i \in Ids : FanoutSkips(i) \/ FanoutThrottles(i) \/ FanoutPushes(i)
  <2>1. UNCHANGED ledger
    BY <1>1 DEF LoadItem, ResolveTargets, ReadLedger, HoldHome, RedactEnds, SkipUnchanged,
       PushHome, FanoutSkips, FanoutThrottles, FanoutPushes
  <2> QED
    BY <2>1, SameSteps
<1>2. CASE RestrictionArms
  <2>1. \A r \in Row : LET new == [r EXCEPT !.deferred = FALSE]
                       IN  Debts(new) = Debts(r) /\ new.sha = r.sha /\ new.deferred = FALSE
    BY DEF Debts, Row
  <2>2. \A i \in Ids : ledger'[i] \in {ledger[i], [ledger[i] EXCEPT !.deferred = FALSE]}
    BY <1>2 DEF RestrictionArms
  <2>3. \A i \in Ids : Held(i)
    BY <2>1, <2>2, HomeFacts DEF Held
  <2> QED
    BY <2>3 DEF RowStep
<1>3. CASE MoveOut \/ KeepUntilCopied \/ RedactHome
  <2>1. \E G : ledger' = Tombstoned(G) /\ None \notin G
    BY <1>3, HomeFacts, ExistingIsHome DEF MoveOut, KeepUntilCopied, RedactHome, LedgerInv
  <2> QED
    BY <2>1, TombstonedSteps
<1>4. CASE MoveGroup
  <2>1. PICK g \in Homes : ledger' = [i \in Ids |->
             IF ledger[i].group = g
             THEN [ledger[i] EXCEPT !.group = Home, !.sha = None, !.owed = g, !.aged = FALSE]
             ELSE ledger[i]]
    BY <1>4, ExistingIsHome DEF MoveGroup, TierChanged, LedgerInv
  <2>2. \A r \in Row : LET new == [r EXCEPT !.group = Home, !.sha = None, !.owed = g, !.aged = FALSE]
                       IN  new.group = Home /\ new.owed = g /\ new.aged = FALSE
    BY DEF Row
  <2>3. ASSUME NEW i \in Ids PROVE RowStep(i)
    <3>1. CASE ledger[i].group = g
      <4>1. ledger'[i].group = Home /\ ledger'[i].owed = g /\ ledger'[i].aged = FALSE
        BY <2>1, <2>2, <3>1, HomeFacts
      <4> QED
        BY <3>1, <4>1, HomeFacts DEF RowStep, Aside
    <3>2. CASE ledger[i].group # g
      <4>1. ledger'[i] = ledger[i]
        BY <2>1, <3>2
      <4> QED
        BY <4>1 DEF RowStep, Held
    <3> QED
      BY <3>1, <3>2
  <2> QED
    BY <2>3
<1>5. CASE Prepare
  <2>1. CASE ledger' = ledger
    BY <2>1, SameSteps
  <2>2. CASE ledger' # ledger
    <3>1. PICK r : /\ r \in {NewRow(Home), [NewRow(Home) EXCEPT !.owed = Existing.group]}
                   /\ ledger' = Inserted(r)
                   /\ r # NewRow(Home) => TierChanged
      BY <1>5, <2>2 DEF Prepare
    <3>2. TierChanged => Existing.group \in Homes
      BY ExistingIsHome DEF TierChanged, LedgerInv
    <3>3. r \in Row /\ r.group = Home /\ r.owed \in Homes \cup {None} /\ r.aged = FALSE
      BY <3>1, <3>2, HomeFacts DEF NewRow, NoRow, Row
    <3> QED
      BY <3>1, <3>3, HomeFacts, InsertedSteps
  <2> QED
    BY <2>1, <2>2
<1>6. CASE RecordHome
  BY <1>6, HomeRecordSteps DEF CopyInv
<1>7. CASE FanoutRecords
  <2>1. job.target \in Initiatives /\ pc = "fanpushed" /\ job.body # None
    BY <1>7 DEF FanoutRecords, LedgerInv, CopiesListed, CopyInv, Listed
  <2>2. CASE ledger' = Inserted(Tombstone(NewRow(job.target)))
    <3> DEFINE r == Tombstone(NewRow(job.target))
    <3>1. r \in Row /\ r.group = job.target /\ r.owed = job.target /\ r.aged = FALSE
      BY <2>1, HomeFacts DEF Tombstone, NewRow, NoRow, Row
    <3>2. ledger' = Inserted(r)
      BY <2>2
    <3> HIDE DEF r
    <3> QED
      BY <2>1, <3>1, <3>2, InsertedSteps
  <2>3. CASE ledger' = [i \in Ids |-> IF ledger[i].group = job.target
                                      THEN [ledger[i] EXCEPT !.sha = job.body] ELSE ledger[i]]
    <3>1. \A r \in Row : LET new == [r EXCEPT !.sha = job.body]
                         IN  Debts(new) = Debts(r) /\ new.sha = job.body /\ new.deferred = r.deferred
      BY DEF Debts, Row
    <3>2. \A i \in Ids : Held(i) \/ Sent(i)
      BY <2>1, <2>3, <3>1, HomeFacts DEF Held, Sent
    <3> QED
      BY <3>2 DEF RowStep
  <2> QED
    BY <1>7, <2>2, <2>3 DEF FanoutRecords
<1>8. ASSUME NEW t \in Initiatives, FanoutDefers(t) PROVE \A i \in Ids : RowStep(i)
  <2> DEFINE r == [NewRow(t) EXCEPT !.deferred = TRUE]
  <2>1. r \in Row /\ r.group = t /\ r.owed = None /\ r.aged = FALSE
    BY HomeFacts DEF NewRow, NoRow, Row, Groups
  <2>2. ledger' = Inserted(r)
    BY <1>8 DEF FanoutDefers
  <2> HIDE DEF r
  <2> QED
    BY <2>1, <2>2, InsertedSteps
<1>9. ASSUME NEW i \in Ids, RedactCopy(i) \/ FanoutUntags(i)
      PROVE  \A k \in Ids : RowStep(k)
  <2>1. /\ job.rows[i].group \in Initiatives /\ ledger' = Tombstoned({job.rows[i].group})
    BY <1>9 DEF RedactCopy, FanoutUntags, At, LedgerInv, CopiesListed, Acting, Visiting
  <2> QED
    BY <2>1, TombstonedSteps, HomeFacts
<1>10. ASSUME NEW i \in Ids, FanoutDrops(i) PROVE \A k \in Ids : RowStep(k)
  <2>1. \A k \in Ids : \/ ledger'[k] = ledger[k]
                       \/ ledger'[k] = NoRow /\ ledger[k].deferred
    BY <1>10 DEF FanoutDrops, Without
  <2>2. \A k \in Ids : Held(k) \/ Dropped(k)
    BY <2>1, HomeFacts DEF Held, Dropped, Row
  <2> QED
    BY <2>2 DEF RowStep
<1>11. ASSUME NEW i \in Ids, FanoutCompletes(i) PROVE \A k \in Ids : RowStep(k)
  <2>1. job.rows[i].group \in Initiatives /\ pc = "fanout" /\ UNCHANGED <<graph, faults>>
    BY <1>11 DEF FanoutCompletes, At, LedgerInv, CopiesListed, Acting, Visiting
  <2>2. SUFFICES ASSUME NEW k \in Ids PROVE RowStep(k)
    OBVIOUS
  <2>3. CASE ledger'[k] = ledger[k]
    BY <2>3 DEF RowStep, Held
  <2>4. CASE ledger'[k] # ledger[k]
    <3>1. /\ ledger'[k] = NoRow /\ ledger[k].group = job.rows[i].group
          /\ ledger[k].sha = None /\ ledger[k].owed = None
      BY <1>11, <2>4 DEF FanoutCompletes, Without
    <3>2. faults = 0 => In(landed \cup queued, {ledger[k].group}) = {}
      BY <2>1, <3>1 DEF CopyInv, BlanksEmpty
    <3> QED
      BY <1>11, <2>1, <3>1, <3>2 DEF RowStep, Emptied
  <2> QED
    BY <2>3, <2>4
<1> QED
  BY <1>1, <1>2, <1>3, <1>4, <1>5, <1>6, <1>7, <1>8, <1>9, <1>10, <1>11 DEF Visit

\* What is left of a row that was read earlier stands for the same initiative, or a home.
LEMMA KinRow ==
  ASSUME LedgerInv, NEW S, Kin(ledger, S), NEW i \in Ids, S[i].group # None, ledger[i] # NoRow
  PROVE  \/ ledger[i].group \in Initiatives /\ S[i].group = ledger[i].group
         \/ ledger[i].group \in Homes /\ S[i].group \in Homes
<1>1. ledger[i].group # None /\ ledger[i].group \in Homes \cup Initiatives
  BY HomeFacts DEF LedgerInv, Keyed, Row
<1> QED
  BY <1>1 DEF Kin

\* To flag a row by what was read of it is to flag its own group, or a home.
LEMMA FlaggedStep ==
  ASSUME LedgerInv, NEW S, Kin(ledger, S), NEW i \in Ids, S[i].group # None, ledger[i] # NoRow,
         ledger'[i] = [ledger[i] EXCEPT !.sha = None, !.owed = S[i].group, !.aged = FALSE]
  PROVE  RowStep(i)
<1>1. \A q : \A r \in Row : LET new == [r EXCEPT !.sha = None, !.owed = q, !.aged = FALSE]
                            IN  /\ new.group = r.group /\ new.owed = q /\ new.aged = FALSE
                                /\ new.deferred = r.deferred
  BY DEF Row
<1>2. ledger[i] \in Row
  BY HomeFacts
<1> QED
  BY <1>1, <1>2, KinRow, HomeFacts DEF RowStep, Flagged, Aside

LEMMA ReconcileSteps ==
  ASSUME LedgerInv, CopyInv, Reconcile
  PROVE  \A i \in Ids : RowStep(i)
<1>0. /\ Kin(ledger, job.rows) /\ OwnDebts /\ SnapshotDrained /\ Listed /\ faults \in Nat
      /\ \A i \in Ids : job.rows[i] # NoRow => job.rows[i].group # None
  BY DEF CopyInv, Kin, LedgerInv, Typed
<1>1. CASE \/ ReconcileReads \/ PassEnds
           \/ \E i \in Ids : JudgePasses(i) \/ JudgeSkips(i) \/ CleanDeletes(i) \/ CleanWaits(i)
  <2>1. UNCHANGED ledger
    BY <1>1 DEF ReconcileReads, PassEnds, JudgePasses, JudgeSkips, CleanDeletes, CleanWaits
  <2> QED
    BY <2>1, SameSteps
<1>2. CASE RepairOrphans
  <2>1. PICK found \in SUBSET Seen : ledger' = [i \in Ids |->
           IF i \in found /\ ledger[i] # NoRow
           THEN [ledger[i] EXCEPT !.sha = None, !.owed = job.rows[i].group, !.aged = FALSE]
           ELSE ledger[i]]
    BY <1>2 DEF RepairOrphans
  <2>2. SUFFICES ASSUME NEW i \in Ids PROVE RowStep(i)
    OBVIOUS
  <2>3. CASE i \in found /\ ledger[i] # NoRow
    <3>1. job.rows[i].group # None
      BY <1>0, <2>1, <2>3 DEF Seen
    <3> QED
      BY <1>0, <2>1, <2>3, <3>1, FlaggedStep
  <2>4. CASE ~(i \in found /\ ledger[i] # NoRow)
    <3>1. ledger'[i] = ledger[i]
      BY <2>1, <2>4
    <3> QED
      BY <3>1 DEF RowStep, Held
  <2> QED
    BY <2>3, <2>4
<1>3. ASSUME NEW i \in Ids, JudgeConfirms(i) PROVE \A k \in Ids : RowStep(k)
  <2>1. \A r \in Row : LET new == [r EXCEPT !.uuid = TRUE]
                       IN  Debts(new) = Debts(r) /\ new.sha = r.sha /\ new.deferred = r.deferred
    BY DEF Debts, Row
  <2>2. CASE ledger' = ledger
    BY <2>2, SameSteps
  <2>3. CASE ledger' = [ledger EXCEPT ![i] = [ledger[i] EXCEPT !.uuid = TRUE]]
    <3>1. ledger'[i] = [ledger[i] EXCEPT !.uuid = TRUE]
      BY <2>3, HomeFacts
    <3>2. RowStep(i)
      BY <2>1, <3>1, HomeFacts DEF RowStep, Held
    <3> QED
      BY <2>3, <3>2, OneRowSteps
  <2> QED
    BY <1>3, <2>2, <2>3 DEF JudgeConfirms
<1>4. ASSUME NEW i \in Ids, JudgeParks(i) PROVE \A k \in Ids : RowStep(k)
  <2>1. CASE ledger' = ledger
    BY <2>1, SameSteps
  <2>2. CASE ledger' # ledger
    <3>1. ledger[i] # NoRow /\ ledger' = [ledger EXCEPT ![i] = [ledger[i] EXCEPT !.sha = None]]
      BY <1>4, <2>2 DEF JudgeParks
    <3>2. job.rows[i].group # None
      BY <1>0, <1>4 DEF JudgeParks, NoRow
    <3>3. \A r \in Row : LET new == [r EXCEPT !.sha = None]
                         IN  Debts(new) = Debts(r) /\ new.deferred = r.deferred
      BY DEF Debts, Row
    <3>4. ledger'[i] = [ledger[i] EXCEPT !.sha = None] /\ ledger[i] \in Row
      BY <3>1, HomeFacts
    <3>5. faults' = 0 => In(landed \cup queued, {job.rows[i].group}) = {}
      <4>1. faults' = 0 => ~Present(i) /\ ~Backlog(i)
        BY <1>0, <1>4 DEF JudgeParks, Fault
      <4> QED
        BY <4>1 DEF Present, Backlog, In
    <3>6. ASSUME ledger[i].group \in Initiatives, job.rows[i].group = ledger[i].group
          PROVE  RowStep(i)
      <4>1. Emptied(i)
        BY <1>4, <3>3, <3>4, <3>5, <3>6 DEF Emptied, JudgeParks
      <4> QED
        BY <4>1 DEF RowStep
    <3>7. ASSUME ledger[i].group \in Homes PROVE RowStep(i)
      <4>1. Aside(i)
        BY <1>0, <3>3, <3>4, <3>7, HomeFacts DEF Aside, Debts, OwnDebts
      <4> QED
        BY <4>1 DEF RowStep
    <3>8. RowStep(i)
      BY <1>0, <3>1, <3>2, <3>6, <3>7, KinRow
    <3> QED
      BY <3>1, <3>8, OneRowSteps
  <2> QED
    BY <2>1, <2>2
<1>5. ASSUME NEW i \in Ids, CleanClears(i) PROVE \A k \in Ids : RowStep(k)
  <2>1. CASE ledger' = ledger
    BY <2>1, SameSteps
  <2>2. CASE ledger' # ledger
    <3>1. /\ pc = "judging" /\ i \in job.flagged /\ ~Dirty(i) /\ job.rows[i].aged
          /\ UNCHANGED <<graph, faults>>
      BY <1>5 DEF CleanClears, Cleans
    <3>2. job.rows[i].owed # None /\ job.rows[i].group # None
      BY <1>0, <3>1, HomeFacts DEF Listed
    <3>3. PICK r : /\ ledger[i] # NoRow /\ ledger' = [ledger EXCEPT ![i] = r]
                   /\ \/ r = [ledger[i] EXCEPT !.owed = None, !.aged = FALSE]
                      \/ /\ job.rows[i].owed # job.rows[i].group
                         /\ r = [ledger[i] EXCEPT !.owed = job.rows[i].group, !.aged = FALSE]
                      \/ r = NoRow
      BY <1>5, <2>2 DEF CleanClears, Patched
    <3>4. ledger'[i] = r /\ ledger[i] \in Row
      BY <3>3, HomeFacts
    <3>5. \A q : \A s \in Row : LET new == [s EXCEPT !.owed = q, !.aged = FALSE]
                                IN  /\ new.group = s.group /\ new.owed = q /\ new.aged = FALSE
                                    /\ new.deferred = s.deferred
      BY DEF Row
    <3>6. ASSUME ledger[i].group \in Initiatives, job.rows[i].group = ledger[i].group
          PROVE  RowStep(i)
      <4>1. job.rows[i].owed = ledger[i].group
        BY <1>0, <3>1, <3>2, <3>6 DEF SnapshotDrained, Reconciling
      <4>2. In(queued, {ledger[i].group}) = {}
        BY <1>0, <3>1, <3>6 DEF SnapshotDrained, Reconciling
      <4>3. In(landed \cup queued, {ledger[i].group}) = {}
        BY <3>1, <4>1, <4>2 DEF Dirty, In
      <4>4. CASE r = NoRow
        <5>1. Emptied(i)
          BY <3>1, <3>4, <3>6, <4>3, <4>4 DEF Emptied
        <5> QED
          BY <5>1 DEF RowStep
      <4>5. CASE r = [ledger[i] EXCEPT !.owed = None, !.aged = FALSE]
        <5>1. Emptied(i)
          BY <3>1, <3>4, <3>5, <3>6, <4>3, <4>5 DEF Emptied
        <5> QED
          BY <5>1 DEF RowStep
      <4> QED
        BY <3>3, <3>6, <4>1, <4>4, <4>5
    <3>7. ASSUME ledger[i].group \in Homes, job.rows[i].group \in Homes PROVE RowStep(i)
      <4>1. CASE r = NoRow
        <5>1. Aside(i)
          BY <3>4, <3>7, <4>1, HomeFacts DEF Aside
        <5> QED
          BY <5>1 DEF RowStep
      <4>2. CASE \E q \in Homes \cup {None} : r = [ledger[i] EXCEPT !.owed = q, !.aged = FALSE]
        <5>1. PICK q \in Homes \cup {None} : r = [ledger[i] EXCEPT !.owed = q, !.aged = FALSE]
          BY <4>2
        <5>2. r.group = ledger[i].group /\ r.owed = q /\ r.aged = FALSE
          BY <3>4, <3>5, <5>1
        <5> QED
          <6>1. Aside(i)
            BY <3>4, <3>7, <5>2, HomeFacts DEF Aside
          <6> QED
            BY <6>1 DEF RowStep
      <4> QED
        BY <3>3, <3>7, <4>1, <4>2
    <3>8. RowStep(i)
      BY <1>0, <3>2, <3>3, <3>6, <3>7, KinRow
    <3> QED
      BY <3>3, <3>8, OneRowSteps
  <2> QED
    BY <2>1, <2>2
<1> QED
  BY <1>1, <1>2, <1>3, <1>4, <1>5 DEF Reconcile

LEMMA OtherSteps ==
  ASSUME LedgerInv, CopyInv, [Retirement \/ Environment]_vars
  PROVE  \A i \in Ids : RowStep(i)
<1>1. CASE UNCHANGED ledger
  BY <1>1, SameSteps
<1>2. ASSUME NEW i \in Ids, RetiresDeferred(i) PROVE \A k \in Ids : RowStep(k)
  <2>1. \A k \in Ids : \/ ledger'[k] = ledger[k]
                       \/ ledger'[k] = NoRow /\ ledger[k].deferred
    BY <1>2 DEF RetiresDeferred, Without
  <2>2. \A k \in Ids : Held(k) \/ Dropped(k)
    BY <2>1, HomeFacts DEF Held, Dropped, Row
  <2> QED
    BY <2>2 DEF RowStep
<1>3. ASSUME NEW i \in Ids, RetiresPushed(i) PROVE \A k \in Ids : RowStep(k)
  <2>1. CASE ledger[i] = NoRow
    BY <1>1, <1>3, <2>1 DEF RetiresPushed, Patched
  <2>2. CASE ledger[i] # NoRow
    <3>1. purge.rows[i].group # None /\ Kin(ledger, purge.rows)
      BY <1>3 DEF RetiresPushed, Retires, CopyInv, Listed
    <3>2. ledger' = [ledger EXCEPT ![i] =
            [ledger[i] EXCEPT !.sha = None, !.owed = purge.rows[i].group, !.aged = FALSE]]
      BY <1>3, <2>2 DEF RetiresPushed, Patched
    <3>3. ledger'[i] = [ledger[i] EXCEPT !.sha = None, !.owed = purge.rows[i].group, !.aged = FALSE]
      BY <3>2, HomeFacts
    <3>4. RowStep(i)
      BY <2>2, <3>1, <3>3, FlaggedStep
    <3> QED
      BY <3>2, <3>4, OneRowSteps
  <2> QED
    BY <2>1, <2>2
<1>4. ASSUME NEW g \in Initiatives, ReadArms(g) PROVE \A i \in Ids : RowStep(i)
  <2>1. \A r \in Row : LET new == [r EXCEPT !.deferred = FALSE]
                       IN  Debts(new) = Debts(r) /\ new.sha = r.sha /\ new.deferred = FALSE
    BY DEF Debts, Row
  <2>2. \A i \in Ids : ledger'[i] \in {ledger[i], [ledger[i] EXCEPT !.deferred = FALSE]}
    BY <1>4 DEF ReadArms
  <2>3. \A i \in Ids : Held(i)
    BY <2>1, <2>2, HomeFacts DEF Held
  <2> QED
    BY <2>3 DEF RowStep
<1>5. ASSUME NEW i \in Ids, GraceElapses(i) PROVE \A k \in Ids : RowStep(k)
  <2>1. /\ ledger' = [ledger EXCEPT ![i] = [ledger[i] EXCEPT !.aged = TRUE]]
        /\ pc = "idle" /\ ledger[i].owed # None /\ In(queued, {ledger[i].owed}) = {}
    BY <1>5 DEF GraceElapses
  <2>2. ledger'[i] = [ledger[i] EXCEPT !.aged = TRUE]
    BY <2>1, HomeFacts
  <2> QED
    BY <2>1, <2>2, OneRowSteps DEF RowStep, Aged
<1>6. CASE Retirement
  BY <1>1, <1>2, <1>3, <1>6 DEF Retirement, PurgeDeletes
<1>7. CASE Environment
  BY <1>1, <1>4, <1>5, <1>7 DEF Environment, Aborts, PurgeStarts, PurgeFails, ItemChanges,
     MembersChange, Elsewhere, Extract, Lose
<1> QED
  BY <1>1, <1>6, <1>7 DEF vars

-----------------------------------------------------------------------------
(* Episodes and failures.                                                      *)

\* Only the fanout pushes to an initiative.
LEMMA CopiesPushed ==
  ASSUME LedgerInv, [Next]_vars, ~ \E i \in Ids : FanoutPushes(i)
  PROVE  NothingNew(Initiatives)
<1>1. CASE UNCHANGED graph
  BY <1>1, NothingNewBySame
<1>2. CASE \E G : TriesDelete(G)
  BY <1>2, NothingNewByDelete
<1>3. CASE PushHome
  <2>1. landed' = landed /\ queued' \subseteq queued \cup {<<Home, job.body>>}
    BY <1>3 DEF PushHome
  <2> QED
    BY <2>1, HomeFacts DEF NothingNew
<1>4. CASE MoveOut \/ KeepUntilCopied \/ RedactHome \/ MoveGroup \/ Prepare
  BY <1>2, <1>4 DEF MoveOut, KeepUntilCopied, RedactHome, MoveGroup, Prepare, TriesDelete
<1>5. ASSUME NEW i \in Ids,
             \/ RedactCopy(i) \/ FanoutUntags(i) \/ CleanDeletes(i) \/ RetiresPushed(i)
      PROVE  \E G : TriesDelete(G)
  BY <1>5 DEF RedactCopy, FanoutUntags, CleanDeletes, RetiresPushed
<1>6. ASSUME NEW e \in Groups \X Bodies, Extract(e) \/ Lose(e)
      PROVE  NothingNew(Initiatives)
  BY <1>6 DEF Extract, Lose, NothingNew
<1>7. CASE Visit
  BY <1>1, <1>2, <1>3, <1>4, <1>5, <1>7 DEF Visit, LoadItem, ResolveTargets, ReadLedger,
     RestrictionArms, HoldHome, RedactEnds, SkipUnchanged, RecordHome, FanoutRecords, FanoutDefers,
     FanoutDrops, FanoutCompletes, FanoutSkips, FanoutThrottles
<1>8. CASE Reconcile
  BY <1>1, <1>2, <1>5, <1>8 DEF Reconcile, ReconcileReads, RepairOrphans, PassEnds, JudgeConfirms,
     JudgePasses, JudgeSkips, JudgeParks, CleanWaits, CleanClears
<1>9. CASE Retirement
  BY <1>1, <1>2, <1>5, <1>9 DEF Retirement, PurgeDeletes, RetiresDeferred
<1>10. CASE Environment
  BY <1>1, <1>6, <1>10 DEF Environment, Aborts, PurgeStarts, PurgeFails, ItemChanges, MembersChange,
     Elsewhere, ReadArms, GraceElapses
<1>11. CASE UNCHANGED vars
  BY <1>1, <1>11 DEF vars, graph
<1> QED
  BY <1>7, <1>8, <1>9, <1>10, <1>11 DEF Next

\* A failure is counted for good.
LEMMA FaultsCounted ==
  ASSUME LedgerInv, [Next]_vars
  PROVE  faults' = 0 => faults = 0 /\ ~Fault
<1>1. faults \in Nat
  BY DEF LedgerInv, Typed
<1>2. Fault => faults' # 0
  BY <1>1 DEF Fault
<1>3. CASE Fault \/ UNCHANGED faults
  BY <1>2, <1>3
<1>4. CASE \E G : TriesDelete(G)
  BY <1>3, <1>4 DEF TriesDelete, Deletes, DeleteFails
<1>5. CASE MoveOut \/ KeepUntilCopied \/ RedactHome \/ MoveGroup \/ Prepare
  BY <1>4, <1>5 DEF MoveOut, KeepUntilCopied, RedactHome, MoveGroup, Prepare, TriesDelete
<1>6. ASSUME NEW i \in Ids,
             \/ RedactCopy(i) \/ FanoutUntags(i) \/ CleanDeletes(i) \/ RetiresPushed(i)
      PROVE  \E G : TriesDelete(G)
  BY <1>6 DEF RedactCopy, FanoutUntags, CleanDeletes, RetiresPushed
<1>7. CASE Visit
  BY <1>3, <1>4, <1>5, <1>6, <1>7 DEF Visit, LoadItem, ResolveTargets, ReadLedger,
     RestrictionArms, HoldHome, RedactEnds, SkipUnchanged, PushHome, RecordHome, FanoutRecords,
     FanoutDefers, FanoutDrops, FanoutCompletes, FanoutSkips, FanoutThrottles, FanoutPushes
<1>8. CASE Reconcile
  BY <1>3, <1>4, <1>6, <1>8 DEF Reconcile, ReconcileReads, RepairOrphans, PassEnds, JudgeConfirms,
     JudgePasses, JudgeSkips, JudgeParks, CleanWaits, CleanClears
<1>9. CASE Retirement
  BY <1>3, <1>4, <1>6, <1>9 DEF Retirement, PurgeDeletes, RetiresDeferred
<1>10. CASE Environment
  BY <1>3, <1>10 DEF Environment, Aborts, PurgeStarts, PurgeFails, ItemChanges, MembersChange,
     Elsewhere, Extract, Lose, ReadArms, GraceElapses
<1>11. CASE UNCHANGED vars
  BY <1>3, <1>11 DEF vars
<1> QED
  BY <1>7, <1>8, <1>9, <1>10, <1>11 DEF Next

LEMMA TargetKeptStep ==
  ASSUME IdsNeverRunOut, LedgerInv, CopyInv, [Next]_vars
  PROVE  TargetKept
<1>1. SUFFICES ASSUME pc = "fanpushed", faults' = 0
               PROVE  \/ pc' = "fanpushed" /\ job'.target = job.target
                      \/ \A i \in Ids : ledger'[i].group = job.target =>
                           ledger'[i].sha # None \/ ledger'[i].owed # None
  BY DEF TargetKept
<1>2. job.body # None /\ job.target \in Initiatives
  BY <1>1 DEF LedgerInv, CopiesListed, CopyInv, Listed
<1>3. CASE FanoutRecords
  <2>1. CASE RowAt(ledger, job.target) = NoRow
    <3> DEFINE r == Tombstone(NewRow(job.target))
    <3>1. r.group = job.target /\ r.owed = job.target
      BY DEF Tombstone, NewRow, NoRow
    <3>2. ledger' = Inserted(r)
      BY <1>3, <2>1 DEF FanoutRecords
    <3> HIDE DEF r
    <3>3. ledger' = [ledger EXCEPT ![FreshId] = r]
      BY <2>1, <3>1, <3>2 DEF Inserted
    <3>4. \A i \in Ids : ledger[i].group # job.target
      BY <1>2, <2>1, RowFound, HomeFacts
    <3>5. \A i \in Ids : ledger'[i].group = job.target => ledger'[i] = r
      BY <3>3, <3>4, HomeFacts
    <3> QED
      BY <1>2, <3>1, <3>5, HomeFacts
  <2>2. CASE RowAt(ledger, job.target) # NoRow
    <3>1. ledger' = [i \in Ids |-> IF ledger[i].group = job.target
                                   THEN [ledger[i] EXCEPT !.sha = job.body] ELSE ledger[i]]
      BY <1>3, <2>2 DEF FanoutRecords
    <3>2. \A r \in Row : [r EXCEPT !.sha = job.body].sha = job.body
      BY DEF Row
    <3>3. \A i \in Ids : ledger'[i].group = job.target => ledger'[i].sha = job.body
      <4>1. SUFFICES ASSUME NEW i \in Ids, ledger'[i].group = job.target
                     PROVE  ledger'[i].sha = job.body
        OBVIOUS
      <4>2. CASE ledger[i].group = job.target
        BY <3>1, <3>2, <4>2, HomeFacts
      <4>3. CASE ledger[i].group # job.target
        BY <3>1, <4>1, <4>3
      <4> QED
        BY <4>2, <4>3
    <3> QED
      BY <1>2, <3>3
  <2> QED
    BY <2>1, <2>2
<1>4. CASE UNCHANGED <<pc, job>>
  BY <1>1, <1>4
<1>5. ~Aborts
  BY <1>1, FaultsCounted DEF Aborts
<1>6. ~Reconcile
  BY <1>1 DEF Reconcile, ReconcileReads, RepairOrphans, PassEnds, JudgeConfirms, JudgePasses,
     JudgeSkips, JudgeParks, CleanDeletes, CleanWaits, CleanClears, Cleans
<1>7. CASE Visit
  BY <1>1, <1>3, <1>7 DEF Visit, LoadItem, ResolveTargets, ReadLedger, RestrictionArms, MoveOut,
     HoldHome, KeepUntilCopied, RedactHome, RedactEnds, SkipUnchanged, MoveGroup, Prepare, PushHome,
     RecordHome, FanoutDefers, RedactCopy, FanoutDrops, FanoutUntags, FanoutCompletes, FanoutSkips,
     FanoutThrottles, FanoutPushes, At
<1> QED
  BY <1>4, <1>5, <1>6, <1>7, PassStays DEF Next

\* The push of a copy: its row is served, and no debt of it is old enough to be judged.
LEMMA PushKeepsCovered ==
  ASSUME LedgerInv, CopyInv, NEW i \in Ids, FanoutPushes(i)
  PROVE  OwnDebts' /\ CopiesDrained' /\ BlanksEmpty' /\ CopiesCovered'
<1> DEFINE t == job.rows[i].group
<1>1. /\ pc = "fanout" /\ pc' = "fanpushed" /\ i \in job.todo /\ UNCHANGED <<ledger, landed, faults>>
      /\ queued' = queued \cup {<<t, job.body>>} /\ Pushes(job.rows[i])
  BY DEF FanoutPushes, At
<1>2. job'.target = t
  BY HomeFacts DEF FanoutPushes, JobType
<1>3. t \in Initiatives
  BY <1>1 DEF LedgerInv, CopiesListed, Acting, Visiting
<1>4. ledger[i].group = t /\ ledger[i].deferred = FALSE /\ ledger[i].aged # TRUE
  <2>1. job.rows[i].deferred = FALSE /\ job.rows[i].owed = None
    BY <1>1, HomeFacts DEF Pushes, Row
  <2> QED
    BY <1>1, <1>3, <2>1 DEF CopyInv, CopyStands, Acting, Visiting
<1> HIDE DEF t
<1>5. OwnDebts'
  BY <1>1 DEF CopyInv, OwnDebts
<1>6. CopiesDrained'
  <2>1. SUFFICES ASSUME NEW k \in Ids, ledger[k].group \in Initiatives, ledger[k].aged = TRUE
                 PROVE  In(queued', {ledger[k].group}) = {}
    BY <1>1 DEF CopiesDrained
  <2>2. ledger[k].group # t
    BY <1>3, <1>4, <2>1, HomeFacts DEF LedgerInv, Keyed
  <2>3. In(queued, {ledger[k].group}) = {}
    BY <2>1 DEF CopyInv, CopiesDrained
  <2> QED
    BY <1>1, <2>2, <2>3 DEF In
<1>7. BlanksEmpty'
  <2>1. SUFFICES ASSUME faults = 0, NEW k \in Ids, ledger[k].group \in Initiatives,
                        ledger[k].sha = None, ledger[k].owed = None, ledger[k].group # t
                 PROVE  In(landed' \cup queued', {ledger[k].group}) = {}
    BY <1>1, <1>2 DEF BlanksEmpty
  <2>2. In(landed \cup queued, {ledger[k].group}) = {}
    BY <1>1, <2>1 DEF CopyInv, BlanksEmpty
  <2> QED
    BY <1>1, <2>1, <2>2 DEF In
<1>8. CopiesCovered'
  BY <1>1, <1>4 DEF CopyInv, CopiesCovered
<1> QED
  BY <1>5, <1>6, <1>7, <1>8

-----------------------------------------------------------------------------
(* What was read stays true of the copies.                                     *)

LEMMA KinKept ==
  ASSUME IdsNeverRunOut, LedgerInv, NEW S, Kin(ledger, S), S[FreshId].group = None,
         Rewrites \/ Inserts \/ Removes \/ MoveGroup
  PROVE  Kin(ledger', S)
<1>1. CASE Rewrites
  BY <1>1 DEF Rewrites, Kin
<1>2. CASE Inserts
  <2>1. PICK r \in Row : ledger' = [ledger EXCEPT ![FreshId] = r]
    BY <1>2 DEF Inserts
  <2>2. \A i \in Ids : i # FreshId => ledger'[i] = ledger[i]
    BY <2>1, HomeFacts
  <2> QED
    BY <2>2 DEF Kin
<1>3. CASE Removes
  <2>1. \A i \in Ids : ledger'[i] = ledger[i] \/ ledger'[i] = NoRow
    BY <1>3 DEF Removes, Without
  <2> QED
    BY <2>1, HomeFacts DEF Kin
<1>4. CASE MoveGroup
  <2>1. PICK g \in Homes : ledger' = [i \in Ids |->
             IF ledger[i].group = g
             THEN [ledger[i] EXCEPT !.group = Home, !.sha = None, !.owed = g, !.aged = FALSE]
             ELSE ledger[i]]
    BY <1>4, ExistingIsHome DEF MoveGroup, TierChanged, LedgerInv
  <2>2. \A r \in Row : [r EXCEPT !.group = Home, !.sha = None, !.owed = g, !.aged = FALSE].group = Home
    BY DEF Row
  <2>3. \A i \in Ids : ledger'[i] = ledger[i] \/ (ledger[i].group = g /\ ledger'[i].group = Home)
    BY <2>1, <2>2, HomeFacts
  <2> QED
    BY <2>3, HomeFacts DEF Kin
<1> QED
  BY <1>1, <1>2, <1>3, <1>4

\* The steps that change what the pass has read.
LEMMA RowsRead ==
  ASSUME LedgerInv, [Next]_vars
  PROVE  \/ job'.rows = job.rows \/ job'.rows = NoRows
         \/ ReadLedger \/ ReconcileReads \/ RepairOrphans
<1>0. job \in JobType
  BY HomeFacts
<1>1. CASE job' = job \/ job' = NoJob
  BY <1>1, EmptyTyped
<1>2. CASE LoadItem
  BY <1>2, EmptyTyped DEF LoadItem, JobType
<1>3. ASSUME \/ ResolveTargets \/ RedactHome \/ RedactEnds \/ Prepare
      PROVE  job'.rows = job.rows
  BY <1>0, <1>3 DEF ResolveTargets, RedactHome, RedactEnds, Prepare, JobType
<1>4. ASSUME NEW i, \/ job' = [job EXCEPT !.todo = @ \ {i}] \/ job' = [job EXCEPT !.flagged = @ \ {i}]
                    \/ job' = [job EXCEPT !.todo = @ \ {i}, !.target = job.rows[i].group]
      PROVE  job'.rows = job.rows
  BY <1>0, <1>4 DEF JobType
<1>5. CASE Visit
  <2>1. ASSUME NEW i,
               \/ RedactCopy(i) \/ FanoutDrops(i) \/ FanoutUntags(i) \/ FanoutCompletes(i)
               \/ FanoutSkips(i) \/ FanoutThrottles(i) \/ FanoutDefers(i) \/ FanoutPushes(i)
        PROVE  job'.rows = job.rows
    BY <1>4, <2>1 DEF RedactCopy, FanoutDrops, FanoutUntags, FanoutCompletes, FanoutSkips,
       FanoutThrottles, FanoutDefers, FanoutPushes, Handled
  <2>2. CASE \/ RestrictionArms \/ MoveOut \/ HoldHome \/ KeepUntilCopied \/ SkipUnchanged
             \/ MoveGroup \/ PushHome \/ RecordHome \/ FanoutRecords
    BY <1>1, <2>2 DEF RestrictionArms, MoveOut, HoldHome, KeepUntilCopied, SkipUnchanged, MoveGroup,
       PushHome, RecordHome, FanoutRecords
  <2> QED
    BY <1>2, <1>3, <1>5, <2>1, <2>2 DEF Visit
<1>6. CASE Reconcile
  <2>1. ASSUME NEW i, \/ JudgeConfirms(i) \/ JudgePasses(i) \/ JudgeSkips(i) \/ JudgeParks(i)
                      \/ CleanDeletes(i) \/ CleanWaits(i) \/ CleanClears(i)
        PROVE  job'.rows = job.rows
    BY <1>4, <2>1 DEF JudgeConfirms, JudgePasses, JudgeSkips, JudgeParks, Handled, CleanDeletes,
       CleanWaits, CleanClears, Cleans
  <2> QED
    BY <1>1, <1>6, <2>1 DEF Reconcile, PassEnds
<1>7. CASE Aborts
  BY <1>1, <1>7 DEF Aborts
<1> QED
  BY <1>1, <1>5, <1>6, <1>7, PassStays DEF Next

\* A row that the reconcile takes for an orphan keeps its group.
LEMMA RepairedRows ==
  ASSUME LedgerInv, RepairOrphans
  PROVE  /\ job'.rows \in [Ids -> Row]
         /\ \A i \in Ids :
              \/ job'.rows[i] = job.rows[i]
              \/ /\ job.rows[i] # NoRow /\ job'.rows[i].group = job.rows[i].group
                 /\ job'.rows[i].owed = job.rows[i].group /\ job'.rows[i].aged = FALSE
<1> DEFINE found == IF item.alive THEN {} ELSE {i \in Seen : job.rows[i].owed = None}
           patched == [i \in Ids |-> IF i \in found THEN Tombstone(job.rows[i]) ELSE job.rows[i]]
           F == {i \in Seen : patched[i].owed # None}
           o == ~item.alive
<1>1. job' = [job EXCEPT !.rows = patched, !.orphan = o, !.todo = Seen, !.flagged = F]
  BY DEF RepairOrphans
<1>2. \A r \in Row : /\ Tombstone(r) \in Row /\ Tombstone(r).group = r.group
                     /\ Tombstone(r).owed = r.group /\ Tombstone(r).aged = FALSE
  BY DEF Tombstone, Row
<1>3. found \subseteq Seen
  BY DEF Seen
<1> HIDE DEF found
<1>4. /\ patched \in [Ids -> Row]
      /\ \A i \in Ids : patched[i] = job.rows[i]
                        \/ (job.rows[i] # NoRow /\ patched[i] = Tombstone(job.rows[i]))
  BY <1>2, <1>3, HomeFacts DEF Seen
<1> HIDE DEF patched, F, o
<1>5. job'.rows = patched
  BY <1>1, HomeFacts DEF JobType
<1> QED
  BY <1>2, <1>4, <1>5, HomeFacts

\* What a purge has read it keeps until it ends.
LEMMA PurgeSteps ==
  ASSUME LedgerInv, [Next]_vars
  PROVE  \/ PurgeStarts
         \/ purge'.rows = NoRows /\ purge'.todo = {}
         \/ purge'.rows = purge.rows /\ purge'.todo \subseteq purge.todo
<1>0. purge \in [at : {"idle", "retiring", "failed", "done"}, rows : [Ids -> Row], todo : SUBSET Ids]
  BY DEF LedgerInv, Typed
<1>1. CASE UNCHANGED purge
  BY <1>1
<1>2. ASSUME NEW i \in Ids, RetiresDeferred(i) \/ RetiresPushed(i)
      PROVE  purge'.rows = purge.rows /\ purge'.todo \subseteq purge.todo
  BY <1>0, <1>2 DEF RetiresDeferred, RetiresPushed, Retires
<1>3. CASE PurgeDeletes
  BY <1>0, <1>3 DEF PurgeDeletes
<1>4. CASE PurgeFails
  BY <1>4 DEF PurgeFails
<1>5. CASE Retirement
  BY <1>2, <1>3, <1>5 DEF Retirement
<1>6. CASE Environment
  BY <1>1, <1>4, <1>6 DEF Environment, Aborts, ItemChanges, MembersChange, Elsewhere, Extract, Lose,
     ReadArms, GraceElapses
<1> QED
  BY <1>1, <1>5, <1>6, InputsStay DEF Next, vars

LEMMA KinStep ==
  ASSUME IdsNeverRunOut, LedgerInv, CopyInv, [Next]_vars
  PROVE  Kin(ledger', job'.rows) /\ Kin(ledger', purge'.rows)
<1>0. /\ Kin(ledger, job.rows) /\ Kin(ledger, purge.rows)
      /\ \A i \in Ids : ledger[i].group = None => ledger[i] = NoRow
  BY DEF CopyInv, LedgerInv, Keyed
<1>1. Rewrites \/ Inserts \/ Removes \/ MoveGroup
  BY VisitWrites, OthersWrite DEF Next
<1>2. Kin(ledger', job.rows) /\ Kin(ledger', purge.rows)
  BY <1>0, <1>1, FreshIdExists, KinKept DEF LedgerInv
<1>3. Kin(ledger', NoRows)
  BY HomeFacts DEF Kin, NoRows
<1>4. ASSUME ReadLedger PROVE Kin(ledger', job'.rows)
  <2>1. ledger' = ledger /\ job'.rows = [i \in Ids |-> [ledger[i] EXCEPT !.aged = FALSE]]
    BY <1>4, HomeFacts DEF ReadLedger, JobType
  <2>2. \A r \in Row : [r EXCEPT !.aged = FALSE].group = r.group
    BY DEF Row
  <2>3. \A r \in Row : r.aged = FALSE => [r EXCEPT !.aged = FALSE] = r
    BY DEF Row
  <2>4. ASSUME NEW i \in Ids
        PROVE  /\ job'.rows[i].group = ledger[i].group
               /\ ledger[i].group = None => job'.rows[i] = NoRow
    BY <1>0, <2>1, <2>2, <2>3, HomeFacts
  <2> QED
    BY <2>1, <2>4 DEF Kin
<1>5. ASSUME ReconcileReads PROVE Kin(ledger', job'.rows)
  <2>1. ledger' = ledger /\ job'.rows = [i \in Ids |->
             IF ledger[i].deferred THEN NoRow ELSE [ledger[i] EXCEPT !.uuid = FALSE]]
    BY <1>5, EmptyTyped DEF ReconcileReads, JobType
  <2>2. \A r \in Row : [r EXCEPT !.uuid = FALSE].group = r.group
    BY DEF Row
  <2>3. NoRow.uuid = FALSE /\ \A r \in Row : r.uuid = FALSE => [r EXCEPT !.uuid = FALSE] = r
    BY DEF Row, NoRow
  <2>4. ASSUME NEW i \in Ids
        PROVE  /\ job'.rows[i].group \in {ledger[i].group, None}
               /\ job'.rows[i].group = None => job'.rows[i] = NoRow
    <3>1. CASE ledger[i].deferred
      BY <2>1, <3>1, HomeFacts
    <3>2. CASE ~ledger[i].deferred
      <4>1. job'.rows[i] = [ledger[i] EXCEPT !.uuid = FALSE]
        BY <2>1, <3>2
      <4> QED
        BY <1>0, <2>2, <2>3, <4>1, HomeFacts
    <3> QED
      BY <3>1, <3>2
  <2> QED
    BY <2>1, <2>4 DEF Kin
<1>6. ASSUME RepairOrphans PROVE Kin(ledger', job'.rows)
  <2>1. \A i \in Ids : job'.rows[i].group = job.rows[i].group
                      /\ (job.rows[i] = NoRow => job'.rows[i] = NoRow)
    BY <1>6, RepairedRows
  <2> QED
    BY <1>2, <2>1 DEF Kin
<1>7. Kin(ledger', job'.rows)
  BY <1>2, <1>3, <1>4, <1>5, <1>6, RowsRead
<1>8. Kin(ledger', purge'.rows)
  <2>1. CASE PurgeStarts
    <3>1. ledger' = ledger /\ purge'.rows = [i \in Ids |-> View(ledger[i])]
      BY <2>1 DEF PurgeStarts
    <3>2. \A r \in Row : View(r).group = r.group
      BY DEF View, NoRow, Row
    <3>3. View(NoRow) = NoRow
      BY DEF View, NoRow
    <3> QED
      BY <1>0, <3>1, <3>2, <3>3, HomeFacts DEF Kin
  <2>2. CASE ~PurgeStarts
    BY <1>2, <1>3, <2>2, PurgeSteps
  <2> QED
    BY <2>1, <2>2
<1> QED
  BY <1>7, <1>8

LEMMA ListedStep ==
  ASSUME LedgerInv, CopyInv, [Next]_vars
  PROVE  Listed'
<1>0. Listed /\ job \in JobType
      /\ purge \in [at : {"idle", "retiring", "failed", "done"}, rows : [Ids -> Row], todo : SUBSET Ids]
  BY HomeFacts DEF CopyInv, LedgerInv, Typed
<1>1. \A i \in purge'.todo : purge'.rows[i].group # None
  <2>1. CASE UNCHANGED purge
    BY <1>0, <2>1 DEF Listed
  <2>2. CASE PurgeStarts
    <3>1. purge'.rows = [i \in Ids |-> View(ledger[i])] /\ purge'.todo = {i \in Ids : ledger[i] # NoRow}
      BY <2>2 DEF PurgeStarts
    <3>2. \A r \in Row : View(r).group = r.group
      BY DEF View, NoRow, Row
    <3>3. \A i \in Ids : ledger[i] # NoRow => ledger[i].group # None
      BY DEF LedgerInv, Keyed
    <3> QED
      BY <3>1, <3>2, <3>3, HomeFacts
  <2>3. CASE purge'.todo = {} \/ (purge'.rows = purge.rows /\ purge'.todo \subseteq purge.todo)
    BY <1>0, <2>3 DEF Listed
  <2> QED
    BY <2>2, <2>3, PurgeSteps
<1>2. ASSUME pc' = "fanpushed" PROVE job'.body # None
  <2>1. CASE UNCHANGED <<pc, job>>
    BY <1>0, <1>2, <2>1 DEF Listed
  <2>2. CASE \E i \in Ids : FanoutPushes(i)
    BY <1>0, <2>2 DEF FanoutPushes, Pushes, JobType
  <2>3. CASE Visit
    BY <1>2, <2>2, <2>3 DEF Visit, LoadItem, ResolveTargets, ReadLedger, RestrictionArms, MoveOut,
       HoldHome, KeepUntilCopied, RedactHome, RedactEnds, SkipUnchanged, MoveGroup, Prepare, PushHome,
       RecordHome, FanoutRecords, FanoutDefers, RedactCopy, FanoutDrops, FanoutUntags,
       FanoutCompletes, FanoutSkips, FanoutThrottles, At
  <2>4. ~Reconcile /\ ~Aborts
    BY <1>2 DEF Reconcile, ReconcileReads, RepairOrphans, PassEnds, JudgeConfirms, JudgePasses,
       JudgeSkips, JudgeParks, CleanDeletes, CleanWaits, CleanClears, Cleans, Aborts
  <2> QED
    BY <2>1, <2>3, <2>4, PassStays DEF Next
<1>3. ASSUME pc' = "judging", NEW i \in job'.flagged PROVE job'.rows[i].owed # None
  <2>1. CASE UNCHANGED <<pc, job>>
    BY <1>0, <1>3, <2>1 DEF Listed
  <2>2. CASE RepairOrphans
    <3>1. PICK rows, o, T : /\ job' = [job EXCEPT !.rows = rows, !.orphan = o, !.todo = T,
                                                  !.flagged = {k \in T : rows[k].owed # None}]
      BY <2>2 DEF RepairOrphans
    <3>2. job'.rows = rows /\ job'.flagged = {k \in T : rows[k].owed # None}
      BY <1>0, <3>1 DEF JobType
    <3> QED
      BY <1>3, <3>2
  <2>3. ASSUME NEW k \in Ids, \/ JudgeConfirms(k) \/ JudgePasses(k) \/ JudgeSkips(k) \/ JudgeParks(k)
                              \/ CleanDeletes(k) \/ CleanWaits(k) \/ CleanClears(k)
        PROVE  job'.rows[i].owed # None
    <3>1. pc = "judging" /\ \/ job' = [job EXCEPT !.todo = @ \ {k}]
                            \/ job' = [job EXCEPT !.flagged = @ \ {k}]
      BY <2>3 DEF JudgeConfirms, JudgePasses, JudgeSkips, JudgeParks, Handled, CleanDeletes,
         CleanWaits, CleanClears, Cleans
    <3>2. job'.rows = job.rows /\ job'.flagged \subseteq job.flagged
      BY <1>0, <3>1 DEF JobType
    <3> QED
      BY <1>0, <1>3, <3>1, <3>2 DEF Listed
  <2>4. CASE Reconcile
    BY <1>3, <2>2, <2>3, <2>4 DEF Reconcile, ReconcileReads, PassEnds
  <2>5. ~Visit /\ ~Aborts
    BY <1>3 DEF Visit, LoadItem, ResolveTargets, ReadLedger, RestrictionArms, MoveOut, HoldHome,
       KeepUntilCopied, RedactHome, RedactEnds, SkipUnchanged, MoveGroup, Prepare, PushHome,
       RecordHome, FanoutRecords, FanoutDefers, RedactCopy, FanoutDrops, FanoutUntags,
       FanoutCompletes, FanoutSkips, FanoutThrottles, FanoutPushes, At, Aborts
  <2> QED
    BY <2>1, <2>4, <2>5, PassStays DEF Next
<1> QED
  BY <1>1, <1>2, <1>3 DEF Listed

\* A row that stands for an initiative and is served is so after any step of the pass, and
\* after any step beside it, unless the fanout completes its removal.
LEMMA ServedStays ==
  ASSUME LedgerInv, LedgerInv', NEW i \in Ids, RowStep(i), pc \in Acting,
         ledger[i].group \in Initiatives, ledger[i].deferred = FALSE,
         ~ \E k \in Ids : FanoutCompletes(k)
  PROVE  /\ ledger'[i].group = ledger[i].group /\ ledger'[i].deferred = FALSE
         /\ ledger'[i].aged = TRUE => ledger[i].aged = TRUE
<1>1. ledger'[i].deferred \in BOOLEAN
  BY DEF LedgerInv, Typed, Row
<1>2. CASE Held(i) \/ Flagged(i) \/ Sent(i)
  BY <1>1, <1>2 DEF Held, Flagged, Sent, Debts
<1>3. ~Aside(i) /\ ~Aged(i) /\ ~Emptied(i) /\ ~Dropped(i) /\ ~Born(i)
  BY HomeFacts DEF Aside, Aged, Emptied, Dropped, Born, Acting, Visiting
<1> QED
  BY <1>2, <1>3 DEF RowStep

LEMMA ReadStands ==
  ASSUME LedgerInv, CopyInv, ReadLedger
  PROVE  CopyStands'
<1>1. /\ ledger' = ledger /\ pc' \in {"restricted", "open"}
      /\ job'.rows = [i \in Ids |-> [ledger[i] EXCEPT !.aged = FALSE]]
  BY HomeFacts DEF ReadLedger, JobType
<1>2. \A r \in Row : LET new == [r EXCEPT !.aged = FALSE]
                     IN  /\ new.group = r.group /\ new.owed = r.owed /\ new.deferred = r.deferred
  BY DEF Row
<1>3. \A i \in Ids : /\ job'.rows[i].group = ledger[i].group /\ job'.rows[i].owed = ledger[i].owed
                     /\ job'.rows[i].deferred = ledger[i].deferred
  BY <1>1, <1>2, HomeFacts
<1> QED
  BY <1>1, <1>3 DEF CopyStands, CopyInv, OwnDebts

\* What a visit does to the rows it has read.
LEMMA VisitWorks ==
  ASSUME LedgerInv, Visit, pc' \in Acting, ~ReadLedger
  PROVE  /\ pc \in Acting /\ job'.rows = job.rows
         /\ pc \in {"fanout", "fanpushed"} => pc' \in {"fanout", "fanpushed"} /\ job'.todo \subseteq job.todo
<1>0. job \in JobType
  BY HomeFacts
<1>1. ~LoadItem /\ ~ResolveTargets
  BY DEF LoadItem, ResolveTargets, Acting, Visiting
<1>2. CASE \/ RestrictionArms \/ MoveOut \/ HoldHome \/ KeepUntilCopied \/ SkipUnchanged
           \/ MoveGroup \/ PushHome \/ RecordHome \/ FanoutRecords
  BY <1>2 DEF RestrictionArms, MoveOut, HoldHome, KeepUntilCopied, SkipUnchanged, MoveGroup,
     PushHome, RecordHome, FanoutRecords, Acting, Visiting
<1>3. CASE RedactHome \/ RedactEnds \/ Prepare
  BY <1>0, <1>3 DEF RedactHome, RedactEnds, Prepare, JobType, Acting, Visiting
<1>4. ASSUME NEW i, \/ job' = [job EXCEPT !.todo = @ \ {i}]
                    \/ job' = [job EXCEPT !.todo = @ \ {i}, !.target = job.rows[i].group]
      PROVE  job'.rows = job.rows /\ job'.todo \subseteq job.todo
  BY <1>0, <1>4 DEF JobType
<1>5. ASSUME NEW i,
             \/ RedactCopy(i) \/ FanoutDrops(i) \/ FanoutUntags(i) \/ FanoutCompletes(i)
             \/ FanoutSkips(i) \/ FanoutThrottles(i) \/ FanoutDefers(i) \/ FanoutPushes(i)
      PROVE  /\ job'.rows = job.rows /\ job'.todo \subseteq job.todo
             /\ pc \in Acting /\ (pc \in {"fanout", "fanpushed"} => pc' \in {"fanout", "fanpushed"})
  BY <1>4, <1>5 DEF RedactCopy, FanoutDrops, FanoutUntags, FanoutCompletes, FanoutSkips,
     FanoutThrottles, FanoutDefers, FanoutPushes, Handled, At, Acting, Visiting
<1> QED
  BY <1>1, <1>2, <1>3, <1>5 DEF Visit

LEMMA CopyStandsStep ==
  ASSUME IdsNeverRunOut, LedgerInv, LedgerInv', CopyInv, [Next]_vars
  PROVE  CopyStands'
<1>1. CASE ReadLedger
  BY <1>1, ReadStands
<1>2. CASE pc' \notin Acting
  BY <1>2 DEF CopyStands
<1>3. ASSUME pc' \in Acting, pc \in Acting, job'.rows = job.rows,
             pc \in {"fanout", "fanpushed"} =>
               pc' \in {"fanout", "fanpushed"} /\ job'.todo \subseteq job.todo,
             \A i \in Ids : RowStep(i)
      PROVE  CopyStands'
  <2>1. SUFFICES ASSUME NEW i \in Ids, job.rows[i].group \in Initiatives, job.rows[i].deferred = FALSE,
                        pc' \in {"fanout", "fanpushed"} => i \in job'.todo
                 PROVE  /\ ledger'[i].group = job.rows[i].group /\ ledger'[i].deferred = FALSE
                        /\ ledger'[i].aged = TRUE => job.rows[i].owed # None
    BY <1>3 DEF CopyStands
  <2>2. /\ ledger[i].group = job.rows[i].group /\ ledger[i].deferred = FALSE
        /\ ledger[i].aged = TRUE => job.rows[i].owed # None
    BY <1>3, <2>1 DEF CopyInv, CopyStands
  <2>3. CASE \E k \in Ids : FanoutCompletes(k)
    <3>1. PICK k \in Ids : FanoutCompletes(k)
      BY <2>3
    <3>2. pc = "fanout" /\ pc' = "fanout" /\ k \notin job'.todo
      BY <3>1, HomeFacts DEF FanoutCompletes, At, Handled, JobType
    <3>3. k # i
      BY <2>1, <3>2
    <3>4. ledger[i].group # job.rows[k].group
      BY <2>1, <2>2, <3>3, HomeFacts DEF LedgerInv, Distinct
    <3>5. ledger'[i] = ledger[i]
      BY <3>1, <3>4 DEF FanoutCompletes, Without
    <3> QED
      BY <2>2, <3>5
  <2>4. CASE ~ \E k \in Ids : FanoutCompletes(k)
    BY <1>3, <2>1, <2>2, <2>4, ServedStays
  <2> QED
    BY <2>3, <2>4
<1>4. CASE Visit
  BY <1>1, <1>2, <1>3, <1>4, VisitSteps, VisitWorks
<1>5. CASE [Retirement \/ Environment]_vars /\ ~Aborts
  BY <1>2, <1>3, <1>5, PassStays, OtherSteps
<1>6. CASE Reconcile \/ Aborts
  BY <1>2, <1>6 DEF Reconcile, ReconcileReads, RepairOrphans, PassEnds, JudgeConfirms, JudgePasses,
     JudgeSkips, JudgeParks, CleanDeletes, CleanWaits, CleanClears, Cleans, Aborts, Acting, Visiting
<1> QED
  BY <1>4, <1>5, <1>6 DEF Next

\* The steps of a reconcile.
LEMMA ReconcileWorks ==
  ASSUME LedgerInv, [Next]_vars, pc' \in Reconciling, ~ReconcileReads, ~RepairOrphans
  PROVE  pc \in Reconciling /\ job'.rows = job.rows /\ ~ \E i \in Ids : FanoutPushes(i)
<1>0. job \in JobType
  BY HomeFacts
<1>1. ~Visit /\ ~Aborts
  BY DEF Visit, LoadItem, ResolveTargets, ReadLedger, RestrictionArms, MoveOut,
     HoldHome, KeepUntilCopied, RedactHome, RedactEnds, SkipUnchanged, MoveGroup, Prepare, PushHome,
     RecordHome, FanoutRecords, FanoutDefers, RedactCopy, FanoutDrops, FanoutUntags,
     FanoutCompletes, FanoutSkips, FanoutThrottles, FanoutPushes, At, Aborts, Reconciling
<1>2. ASSUME NEW i \in Ids, \/ JudgeConfirms(i) \/ JudgePasses(i) \/ JudgeSkips(i) \/ JudgeParks(i)
                            \/ CleanDeletes(i) \/ CleanWaits(i) \/ CleanClears(i)
      PROVE  pc \in Reconciling /\ job'.rows = job.rows
  BY <1>0, <1>2 DEF JudgeConfirms, JudgePasses, JudgeSkips, JudgeParks, Handled, CleanDeletes,
     CleanWaits, CleanClears, Cleans, JobType, Reconciling
<1>3. ~PassEnds
  BY DEF PassEnds, Reconciling
<1>4. pc \in Reconciling /\ job'.rows = job.rows
  BY <1>1, <1>2, <1>3, PassStays DEF Next, Reconcile
<1>5. ~ \E i \in Ids : FanoutPushes(i)
  BY <1>1 DEF Visit, FanoutPushes, At
<1> QED
  BY <1>4, <1>5

LEMMA SnapshotDrainedStep ==
  ASSUME LedgerInv, CopyInv, [Next]_vars
  PROVE  SnapshotDrained'
<1>1. CASE pc' \notin Reconciling
  BY <1>1 DEF SnapshotDrained
<1>2. CASE ReconcileReads
  <2>1. /\ UNCHANGED queued
        /\ job'.rows = [i \in Ids |->
             IF ledger[i].deferred THEN NoRow ELSE [ledger[i] EXCEPT !.uuid = FALSE]]
    BY <1>2, EmptyTyped DEF ReconcileReads, JobType, graph
  <2>2. \A r \in Row : LET new == [r EXCEPT !.uuid = FALSE]
                       IN  new.group = r.group /\ new.owed = r.owed /\ new.aged = r.aged
    BY DEF Row
  <2>3. SUFFICES ASSUME NEW i \in Ids, job'.rows[i].group \in Initiatives
                 PROVE  /\ job'.rows[i].owed \in {job'.rows[i].group, None}
                        /\ job'.rows[i].aged = TRUE => In(queued', {job'.rows[i].group}) = {}
    BY DEF SnapshotDrained
  <2>4. job'.rows[i] = [ledger[i] EXCEPT !.uuid = FALSE]
    BY <2>1, <2>3, HomeFacts
  <2>5. /\ job'.rows[i].group = ledger[i].group /\ job'.rows[i].owed = ledger[i].owed
        /\ job'.rows[i].aged = ledger[i].aged
    BY <2>2, <2>4, HomeFacts
  <2> QED
    BY <2>1, <2>3, <2>5 DEF CopyInv, OwnDebts, CopiesDrained
<1>3. CASE RepairOrphans
  <2>1. UNCHANGED queued /\ pc = "read"
    BY <1>3 DEF RepairOrphans, graph
  <2> QED
    BY <1>3, <2>1, RepairedRows DEF CopyInv, SnapshotDrained, Reconciling
<1>4. CASE pc' \in Reconciling /\ ~ReconcileReads /\ ~RepairOrphans
  <2>1. pc \in Reconciling /\ job'.rows = job.rows /\ NothingNew(Initiatives)
    BY <1>4, ReconcileWorks, CopiesPushed
  <2>2. \A g \in Initiatives : In(queued, {g}) = {} => In(queued', {g}) = {}
    BY <2>1 DEF NothingNew, In
  <2> QED
    BY <2>1, <2>2 DEF CopyInv, SnapshotDrained
<1> QED
  BY <1>1, <1>2, <1>3, <1>4

-----------------------------------------------------------------------------

LEMMA CopyInvStarts ==
  ASSUME Init
  PROVE  CopyInv
<1>1. /\ ledger = NoRows /\ landed = {} /\ queued = {} /\ pc = "idle"
      /\ job.rows = NoRows /\ purge.rows = NoRows /\ purge.todo = {}
  BY EmptyTyped DEF Init
<1>2. \A i \in Ids : NoRows[i] = NoRow
  BY DEF NoRows
<1>3. NoRow.group = None /\ NoRow.aged = FALSE /\ None \notin Homes /\ None \notin Initiatives
  BY GraphAssumption DEF NoRow, Homes
<1>4. Kin(NoRows, NoRows)
  BY <1>2, <1>3 DEF Kin
<1>5. OwnDebts /\ CopiesDrained /\ BlanksEmpty /\ CopiesCovered
  BY <1>1, <1>2, <1>3 DEF OwnDebts, CopiesDrained, BlanksEmpty, CopiesCovered
<1>6. Listed /\ CopyStands /\ SnapshotDrained
  BY <1>1 DEF Listed, CopyStands, SnapshotDrained, Acting, Visiting, Reconciling
<1> QED
  BY <1>1, <1>4, <1>5, <1>6 DEF CopyInv

LEMMA CopyInvKept ==
  ASSUME IdsNeverRunOut, LedgerInv, LedgerInv', CopyInv, [Next]_vars
  PROVE  CopyInv'
<1>1. CASE \E i \in Ids : FanoutPushes(i)
  <2>1. OwnDebts' /\ CopiesDrained' /\ BlanksEmpty' /\ CopiesCovered'
    BY <1>1, PushKeepsCovered
  <2> QED
    BY <2>1, KinStep, ListedStep, CopyStandsStep, SnapshotDrainedStep DEF CopyInv
<1>2. CASE ~ \E i \in Ids : FanoutPushes(i)
  <2>1. \A i \in Ids : RowStep(i)
    <3>1. CASE Visit
      BY <3>1, VisitSteps
    <3>2. CASE Reconcile
      BY <3>2, ReconcileSteps
    <3>3. CASE [Retirement \/ Environment]_vars
      BY <3>3, OtherSteps
    <3> QED
      BY <3>1, <3>2, <3>3 DEF Next
  <2>2. OwnDebts' /\ CopiesDrained' /\ BlanksEmpty' /\ CopiesCovered'
    BY <1>2, <2>1, CopiesPushed, TargetKeptStep, FaultsCounted, RowsKeepCovered
  <2> QED
    BY <2>2, KinStep, ListedStep, CopyStandsStep, SnapshotDrainedStep DEF CopyInv
<1> QED
  BY <1>1, <1>2

LEMMA CopyInvLedgers ==
  ASSUME LedgerInv, CopyInv
  PROVE  CopiesLedgered
<1>1. SUFFICES ASSUME faults = 0, NEW e \in Content, e[1] \in Initiatives PROVE Pointed(e[1])
  BY DEF CopiesLedgered, Ledgered
<1>2. PICK i \in Ids : ledger[i].group = e[1] /\ ledger[i].deferred = FALSE
  BY <1>1 DEF CopyInv, CopiesCovered, Content
<1> QED
  BY <1>2 DEF Pointed

\* Nothing is forgotten in a graph.  Every episode of a home group is one the ledger points
\* at or owes, until a purge and for sources that keep superseded text; and every copy in
\* an initiative's group has its row, whatever readers arm, the team edits and a purge
\* retires beside the pass, until a call fails.
THEOREM NothingForgotten == ASSUME IdsNeverRunOut PROVE Spec => []EpisodesLedgered
<1>1. Init => LedgerInv /\ CopyInv
  BY LedgerInvStarts, CopyInvStarts
<1>2. LedgerInv /\ CopyInv /\ [Next]_vars => (LedgerInv /\ CopyInv)'
  BY LedgerInvKept, CopyInvKept
<1>3. LedgerInv /\ CopyInv => CopiesLedgered
  BY CopyInvLedgers
<1>4. Spec => []CopiesLedgered
  BY <1>1, <1>2, <1>3, PTL DEF Spec
<1>5. HomeLedgered /\ CopiesLedgered => EpisodesLedgered
  BY DEF EpisodesLedgered
<1> QED
  BY <1>4, <1>5, HomesNeverForgotten, PTL

===============================================================================
