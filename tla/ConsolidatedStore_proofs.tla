---------------------- MODULE ConsolidatedStore_proofs ----------------------
(***************************************************************************)
(* What holds of ConsolidatedStore for any number of sessions and project  *)
(* databases, and without the bounds TLC needs.                            *)
(***************************************************************************)
EXTENDS ConsolidatedStore, FiniteFacts

-----------------------------------------------------------------------------
(* The transactions of SourceDB and FoldStore take well typed databases and *)
(* stores to well typed ones, and a watermark's highest row id is an upper  *)
(* bound of the row ids it was read from.                                   *)

(* COALESCE(MAX(x), 0) is one of the numbers, or 0, and no number is above it. *)
LEMMA TopIsMax ==
  ASSUME NEW S \in SUBSET Int, IsFiniteSet(S)
  PROVE  /\ Top(S) \in Int
         /\ S # {} => Top(S) \in S
         /\ \A y \in S : y <= Top(S)
<1>1. CASE S = {}
  BY <1>1 DEF Top
<1>2. CASE S # {}
  BY <1>2, FiniteMax DEF Top
<1> QED
  BY <1>1, <1>2

-----------------------------------------------------------------------------
(* Project databases. *)

(* The project databases that hold finitely many messages: all of them.     *)
FiniteDBs == {db \in SourceDBs : IsFiniteSet(db.msgs)}

LEMMA EmptyDBType == EmptyDB \in FiniteDBs
BY FS_EmptySet DEF EmptyDB, FiniteDBs, SourceDBs, Message, OnlyCopy, Absent, Tag, NoTag

LEMMA UuidsType == IsFiniteSet(Uuids) /\ Uuids \subseteq Nat
BY SourceAssumption, FS_Interval DEF Uuids

LEMMA MessagesOfFinite ==
  ASSUME NEW db \in FiniteDBs, NEW s
  PROVE  /\ IsFiniteSet(MessagesOf(db, s)) /\ Cardinality(MessagesOf(db, s)) \in Nat
         /\ IsFiniteSet(db.msgs \ MessagesOf(db, s))
BY FS_Subset, FS_CardinalityType DEF FiniteDBs, MessagesOf

(* An indexer's transaction writes messages, the row id sequence and a row. *)
LEMMA WrittenType ==
  ASSUME NEW db \in FiniteDBs, NEW s \in Sessions,
         NEW msgs \in SUBSET Message, IsFiniteSet(msgs), NEW last \in Nat
  PROVE  [db EXCEPT !.msgs = msgs, !.last = last, !.sess[s] = Live] \in FiniteDBs
<1> DEFINE new == [db EXCEPT !.msgs = msgs, !.last = last, !.sess[s] = Live]
<1>1. db \in SourceDBs
  BY DEF FiniteDBs
<1>2. new \in SourceDBs /\ new.msgs = msgs
  BY <1>1 DEF SourceDBs, OnlyCopy, Live
<1> QED
  BY <1>2 DEF FiniteDBs

LEMMA ReindexedType ==
  ASSUME NEW db \in FiniteDBs, NEW s \in Sessions, NEW k \in 0..MaxUuid
  PROVE  Reindexed(db, s, k) \in FiniteDBs
<1> DEFINE row(i) == [id |-> db.last + i, s |-> s, u |-> i]
           new == {row(i) : i \in 1..k}
           kept == db.msgs \ MessagesOf(db, s)
<1>1. IsFiniteSet(new)
  <2> DEFINE f == [i \in 1..k |-> row(i)]
  <2>1. IsFiniteSet({f[i] : i \in 1..k})
    <3>1. IsFiniteSet(1..k)
      BY FS_Interval, SourceAssumption
    <3> HIDE DEF f
    <3> QED
      BY <3>1, FiniteImage
  <2>2. {f[i] : i \in 1..k} = new
    OBVIOUS
  <2> QED
    BY <2>1, <2>2
<1>2. new \subseteq Message
  BY SourceAssumption DEF FiniteDBs, SourceDBs, Message, Uuids
<1>3. IsFiniteSet(kept \cup new) /\ kept \cup new \subseteq Message
  <2> HIDE DEF new
  <2> QED
    BY <1>1, <1>2, MessagesOfFinite, FS_Union DEF FiniteDBs, SourceDBs
<1>4. Reindexed(db, s, k) = [db EXCEPT !.msgs = kept \cup new, !.last = db.last + k,
                                       !.sess[s] = Live]
  BY DEF Reindexed, FiniteDBs, SourceDBs
<1>5. db.last + k \in Nat
  BY SourceAssumption DEF FiniteDBs, SourceDBs
<1> DEFINE msgs == kept \cup new
<1>6. msgs \in SUBSET Message /\ IsFiniteSet(msgs)
  BY <1>3
<1> HIDE DEF msgs
<1>7. [db EXCEPT !.msgs = msgs, !.last = db.last + k, !.sess[s] = Live] \in FiniteDBs
  BY <1>5, <1>6, WrittenType
<1> QED
  BY <1>4, <1>7 DEF msgs

LEMMA AppendedType ==
  ASSUME NEW db \in FiniteDBs, NEW s \in Sessions, Cardinality(MessagesOf(db, s)) < MaxUuid
  PROVE  Appended(db, s) \in FiniteDBs
<1> DEFINE m == [id |-> db.last + 1, s |-> s, u |-> Cardinality(MessagesOf(db, s)) + 1]
<1>1. m \in Message
  <2>1. db.last \in Nat
    BY DEF FiniteDBs, SourceDBs
  <2>2. Cardinality(MessagesOf(db, s)) \in Nat
    BY MessagesOfFinite
  <2>3. db.last + 1 \in Nat \ {0} /\ Cardinality(MessagesOf(db, s)) + 1 \in 1..MaxUuid
    BY <2>1, <2>2, SourceAssumption
  <2> QED
    BY <2>3 DEF Message, Uuids
<1>2. IsFiniteSet(db.msgs \cup {m})
  BY FS_AddElement DEF FiniteDBs
<1>3. Appended(db, s) = [db EXCEPT !.msgs = db.msgs \cup {m}, !.last = db.last + 1,
                                   !.sess[s] = Live]
  BY DEF Appended, FiniteDBs, SourceDBs
<1>4. db.msgs \cup {m} \in SUBSET Message /\ db.last + 1 \in Nat
  BY <1>1 DEF FiniteDBs, SourceDBs
<1> DEFINE msgs == db.msgs \cup {m}
<1>5. msgs \in SUBSET Message /\ IsFiniteSet(msgs)
  BY <1>2, <1>4
<1> HIDE DEF msgs
<1>6. [db EXCEPT !.msgs = msgs, !.last = db.last + 1, !.sess[s] = Live] \in FiniteDBs
  BY <1>4, <1>5, WrittenType
<1> QED
  BY <1>3, <1>6 DEF msgs

(* The transactions that add no message. *)
LEMMA SourceTxType ==
  ASSUME NEW db \in FiniteDBs, NEW s \in Sessions, NEW t \in Nat, NEW tag \in Tag
  PROVE  /\ Stamped(db, s, t) \in FiniteDBs
         /\ Cleared(db, s) \in FiniteDBs
         /\ MessagesPruned(db, s) \in FiniteDBs
         /\ RowPruned(db, s) \in FiniteDBs
         /\ SchemaRebuilt(db) \in FiniteDBs
         /\ Tagged(db, s, tag) \in FiniteDBs
         /\ Judged(db, s, tag) \in FiniteDBs
<1>1. MessagesPruned(db, s) \in FiniteDBs /\ RowPruned(db, s) \in FiniteDBs
  BY MessagesOfFinite DEF MessagesPruned, RowPruned, FiniteDBs, SourceDBs, OnlyCopy, Absent
<1>2. SchemaRebuilt(db) \in FiniteDBs
  BY EmptyDBType DEF SchemaRebuilt, FiniteDBs, SourceDBs
<1> QED
  BY <1>1, <1>2 DEF FiniteDBs, SourceDBs, OnlyCopy, Live, Stamped, Cleared, Tagged, Judged

(* A watermark is well typed, and bounds the row ids it was read from.      *)
LEMMA TagMarkType ==
  ASSUME NEW tags \in [Sessions -> Tag]
  PROVE  TagMark(tags) \in Nat \X Int
<1> DEFINE at == [s \in Rows(tags) |-> tags[s].at]
           ats == {tags[s].at : s \in Rows(tags)}
<1>1. IsFiniteSet(Rows(tags)) /\ Cardinality(Rows(tags)) \in Nat
  BY SourceAssumption, FS_Subset, FS_CardinalityType DEF Rows
<1>2. ats = {at[s] : s \in Rows(tags)}
  OBVIOUS
<1>3. IsFiniteSet({at[s] : s \in Rows(tags)})
  <2> HIDE DEF at
  <2> QED
    BY <1>1, FiniteImage
<1>4. ats \subseteq Int
  BY DEF Rows, Tag
<1>5. Top(ats) \in Int
  <2> HIDE DEF ats, at
  <2> QED
    BY <1>2, <1>3, <1>4, TopIsMax
<1> QED
  BY <1>1, <1>5 DEF TagMark

LEMMA MarkOfType ==
  ASSUME NEW db \in FiniteDBs
  PROVE  /\ MarkOf(db) \in Mark
         /\ \A m \in db.msgs : m.id <= MarkOf(db).max
         /\ \A b \in Nat : (\A m \in db.msgs : m.id <= b) => MarkOf(db).max <= b
<1> DEFINE stamped == {s \in Sessions : db.sess[s] > Live}
           stamps == {db.sess[s] : s \in stamped}
           id == [m \in db.msgs |-> m.id]
           ids == {m.id : m \in db.msgs}
           oc == <<Cardinality(stamped), Top(stamps)>>
           n == Cardinality({s \in Sessions : Has(db, s)})
<1>1. db.sess \in [Sessions -> OnlyCopy] /\ db.msgs \subseteq Message /\ IsFiniteSet(db.msgs)
  BY DEF FiniteDBs, SourceDBs
<1>2. n \in Nat
  BY SourceAssumption, FS_Subset, FS_CardinalityType
<1>3. oc \in Nat \X Int
  <2>1. IsFiniteSet(stamped) /\ Cardinality(stamped) \in Nat
    BY SourceAssumption, FS_Subset, FS_CardinalityType
  <2>2. IsFiniteSet(stamps)
    BY <2>1, FiniteImage
  <2>3. stamps \subseteq Int
    BY <1>1 DEF OnlyCopy, Absent
  <2> HIDE DEF stamps
  <2> QED
    BY <2>1, <2>2, <2>3, TopIsMax
<1>4. IsFiniteSet(ids)
  <2>1. ids = {id[m] : m \in db.msgs}
    OBVIOUS
  <2>2. IsFiniteSet({id[m] : m \in db.msgs})
    <3> HIDE DEF id
    <3> QED
      BY <1>1, FiniteImage
  <2> QED
    BY <2>1, <2>2
<1>5. ids \subseteq Nat
  BY <1>1 DEF Message
<1>6. /\ Top(ids) \in Nat
      /\ \A i \in ids : i <= Top(ids)
      /\ ids # {} => Top(ids) \in ids
  <2>1. ids = {} => Top(ids) = 0
    BY DEF Top
  <2> HIDE DEF ids
  <2> QED
    BY <1>4, <1>5, <2>1, TopIsMax
<1>7. ids = {} => Top(ids) = 0
  BY DEF Top
<1>8. Cardinality(db.msgs) \in Nat
  BY <1>1, FS_CardinalityType
<1>9. TagMark(db.topic) \in Nat \X Int /\ TagMark(db.verdict) \in Nat \X Int /\ db.layer \in BOOLEAN
  BY TagMarkType DEF FiniteDBs, SourceDBs
<1>10. MarkOf(db) = [n |-> n, k |-> Cardinality(db.msgs), max |-> Top(ids), oc |-> oc,
                     layer |-> db.layer, t |-> TagMark(db.topic), v |-> TagMark(db.verdict)]
  BY DEF MarkOf
<1>11. MarkOf(db) \in Mark
  <2> HIDE DEF n, oc, ids
  <2> QED
    BY <1>2, <1>3, <1>6, <1>8, <1>9, <1>10 DEF Mark
<1>12. \A m \in db.msgs : m.id <= MarkOf(db).max
  BY <1>6, <1>10
<1>13. ASSUME NEW b \in Nat, \A m \in db.msgs : m.id <= b
       PROVE  MarkOf(db).max <= b
  BY <1>6, <1>7, <1>10, <1>13
<1> QED
  BY <1>11, <1>12, <1>13

-----------------------------------------------------------------------------
(* The consolidated store. *)

LEMMA RecountedType ==
  ASSUME NEW msgs \in SUBSET (Sessions \X Uuids), NEW s
  PROVE  Recounted(msgs, s) \in Nat
<1>1. IsFiniteSet(Sessions \X Uuids)
  BY SourceAssumption, UuidsType, FS_Product
<1>2. Stored(msgs, s) \in SUBSET (Sessions \X Uuids)
  BY DEF Stored
<1> QED
  BY <1>1, <1>2, FS_Subset, FS_CardinalityType DEF Recounted

LEMMA MergedType ==
  ASSUME NEW c \in [Contributors -> OnlyCopy]
  PROVE  Merged(c) \in OnlyCopy
<1> DEFINE all == {c[d] : d \in Contributors}
           said == all \ {Absent}
<1>1. IsFiniteSet(Contributors)
  BY StoreAssumption, FS_AddElement DEF Contributors
<1>2. IsFiniteSet(said)
  <2>1. IsFiniteSet(all)
    BY <1>1, FiniteImage
  <2> HIDE DEF all
  <2> QED
    BY <2>1, FS_RemoveElement
<1>3. said \subseteq Nat
  BY DEF OnlyCopy
<1>4. said # {} => Top(said) \in Nat
  <2> HIDE DEF said
  <2> QED
    BY <1>2, <1>3, TopIsMax
<1>5. Merged(c) = CASE said = {} -> Absent [] Live \in said -> Live [] OTHER -> Top(said)
  BY DEF Merged
<1> HIDE DEF said
<1> QED
  BY <1>4, <1>5 DEF OnlyCopy, Live

LEMMA EmptyStoreType == EmptyStore \in Stores
BY DEF EmptyStore, Stores, OnlyCopy, Absent, Tag, NoTag

(* A store is well typed when its fields are. *)
LEMMA StoreFields ==
  ASSUME NEW st \in Stores
  PROVE  /\ st.contrib \in [Sessions -> [Contributors -> OnlyCopy]]
         /\ st.row \in [Sessions -> OnlyCopy]
         /\ st.count \in [Sessions -> Nat]
         /\ st.msgs \in SUBSET (Sessions \X Uuids)
         /\ st.topic \in [Sessions -> Tag] /\ st.verdict \in [Sessions -> Tag]
         /\ st.mark \in [Sources -> Mark \cup {NoMark}]
         /\ st.behind \in BOOLEAN
BY DEF Stores

LEMMA OpenedType ==
  ASSUME NEW st \in Stores, NEW prev \in Stores
  PROVE  /\ SchemaReset(st) \in Stores
         /\ Healed(st) \in Stores
         /\ Migrated(st) \in Stores
         /\ TagsRestored(st, prev) \in Stores
<1>1. SchemaReset(st) \in Stores /\ TagsRestored(st, prev) \in Stores
  BY EmptyStoreType DEF SchemaReset, TagsRestored, Stores
<1>2. Healed(st) \in Stores
  BY DEF Healed, Stores
<1>3. Migrated(st) \in Stores
  <2> DEFINE contrib == [s \in Sessions |->
               IF Claimed(st.contrib, s) THEN st.contrib[s]
               ELSE [st.contrib[s] EXCEPT ![Legacy] = st.row[s]]]
  <2>1. contrib \in [Sessions -> [Contributors -> OnlyCopy]]
    BY StoreFields
  <2>2. Migrated(st) = [st EXCEPT !.contrib = contrib]
    BY DEF Migrated, Stores
  <2> HIDE DEF contrib
  <2> QED
    BY <2>1, <2>2 DEF Stores
<1> QED
  BY <1>1, <1>2, <1>3

LEMMA StoreWith ==
  ASSUME NEW st \in Stores, NEW contrib \in [Sessions -> [Contributors -> OnlyCopy]],
         NEW row \in [Sessions -> OnlyCopy], NEW msgs \in SUBSET (Sessions \X Uuids),
         NEW count \in [Sessions -> Nat], NEW topic \in [Sessions -> Tag],
         NEW verdict \in [Sessions -> Tag], NEW mark \in [Sources -> Mark \cup {NoMark}]
  PROVE  [st EXCEPT !.contrib = contrib, !.row = row, !.msgs = msgs, !.count = count,
                    !.topic = topic, !.verdict = verdict, !.mark = mark] \in Stores
BY DEF Stores

LEMMA FoldedType ==
  ASSUME NEW st \in Stores, NEW d \in Sources, NEW db \in FiniteDBs, NEW mk \in Mark
  PROVE  Folded(st, d, db, mk) \in Stores
<1> DEFINE incr == IsIncrementalAppend(st.mark[d], mk)
           recount == Recountable(st.mark[d], mk, db)
           incoming == Incoming(st.mark[d], mk, db)
           contrib == Contributed(st.contrib, d, db)
           offered == {s \in Sessions : Has(db, s)}
           gone == {s \in Sessions : st.contrib[s][d] # Absent /\ ~Has(db, s)}
           orphaned == {s \in gone : ~Claimed(contrib, s)}
           landed == st.msgs \cup {<<m.s, m.u>> : m \in incoming}
           msgs == IF incr THEN landed ELSE {x \in landed : x[1] \notin orphaned}
           sole == {s \in offered : \A c \in Contributors \ {d} : contrib[s][c] = Absent}
           kept == [s \in Sessions |->
                      IF db.layer /\ s \in sole /\ db.topic[s] = NoTag THEN NoTag ELSE st.topic[s]]
           row == [s \in Sessions |-> IF s \in offered \cup gone THEN Merged(contrib[s])
                                      ELSE st.row[s]]
           count == [s \in Sessions |-> IF s \in orphaned THEN 0
                                        ELSE IF s \in recount THEN Recounted(msgs, s)
                                        ELSE st.count[s]]
           topic == [s \in Sessions |-> IF s \in orphaned THEN NoTag
                                        ELSE MergedTopic(db.topic[s], kept[s])]
           verdict == [s \in Sessions |-> IF s \in orphaned THEN NoTag
                                          ELSE MergedVerdict(db.verdict[s], st.verdict[s])]
           mark == [st.mark EXCEPT ![d] = mk]
<1>1. contrib \in [Sessions -> [Contributors -> OnlyCopy]]
  BY StoreFields DEF Contributed, FiniteDBs, SourceDBs
<1>2. row \in [Sessions -> OnlyCopy]
  <2> HIDE DEF contrib
  <2> QED
    BY <1>1, StoreFields, MergedType
<1>3. msgs \in SUBSET (Sessions \X Uuids)
  <2>1. incoming \subseteq Message
    BY DEF Incoming, FiniteDBs, SourceDBs
  <2>2. {<<m.s, m.u>> : m \in incoming} \subseteq Sessions \X Uuids
    <3> HIDE DEF incoming
    <3> QED
      BY <2>1 DEF Message
  <2> HIDE DEF incoming, incr, orphaned
  <2> QED
    BY <2>2, StoreFields
<1>4. count \in [Sessions -> Nat]
  <2> HIDE DEF msgs, orphaned, recount
  <2> QED
    BY <1>3, StoreFields, RecountedType
<1>5. db.topic \in [Sessions -> Tag] /\ db.verdict \in [Sessions -> Tag] /\ NoTag \in Tag
  BY DEF FiniteDBs, SourceDBs, NoTag, Tag
<1>6. topic \in [Sessions -> Tag]
  <2>1. kept \in [Sessions -> Tag]
    <3> HIDE DEF sole
    <3> QED
      BY <1>5, StoreFields
  <2> HIDE DEF kept, orphaned
  <2> QED
    BY <1>5, <2>1 DEF MergedTopic
<1>7. verdict \in [Sessions -> Tag]
  <2> HIDE DEF orphaned
  <2> QED
    BY <1>5, StoreFields DEF MergedVerdict
<1>8. Folded(st, d, db, mk) =
        [st EXCEPT !.contrib = contrib, !.row = row, !.msgs = msgs, !.count = count,
                   !.topic = topic, !.verdict = verdict, !.mark = mark]
  BY DEF Folded, Stores
<1>9. mark \in [Sources -> Mark \cup {NoMark}]
  BY StoreFields
<1> HIDE DEF incr, recount, incoming, contrib, offered, gone, orphaned, landed, msgs, sole, kept,
             row, count, topic, verdict, mark
<1>10. [st EXCEPT !.contrib = contrib, !.row = row, !.msgs = msgs, !.count = count,
                  !.topic = topic, !.verdict = verdict, !.mark = mark] \in Stores
  BY <1>1, <1>2, <1>3, <1>4, <1>6, <1>7, <1>9, StoreWith
<1> QED
  BY <1>8, <1>10

LEMMA FinishedType ==
  ASSUME NEW st \in Stores, NEW prev \in Stores, NEW stones \in SUBSET Sessions
  PROVE  /\ LegacyPruned(st) \in Stores
         /\ CarriedForward(st, prev) \in Stores
         /\ TombstonesPruned(st, stones) \in Stores
<1>1. LegacyPruned(st) \in Stores
  <2> DEFINE contrib == [s \in Sessions |->
               IF \E d \in Sources : st.contrib[s][d] # Absent
               THEN [st.contrib[s] EXCEPT ![Legacy] = Absent] ELSE st.contrib[s]]
  <2>1. contrib \in [Sessions -> [Contributors -> OnlyCopy]]
    BY StoreFields DEF OnlyCopy
  <2>2. LegacyPruned(st) = [st EXCEPT !.contrib = contrib]
    BY DEF LegacyPruned, Stores
  <2> HIDE DEF contrib
  <2> QED
    BY <2>1, <2>2 DEF Stores
<1>2. CarriedForward(st, prev) \in Stores
  <2> DEFINE carried == Present(prev) \ Present(st)
             msgs == st.msgs \cup {x \in prev.msgs : x[1] \in carried}
             row == [s \in Sessions |-> IF s \in carried THEN prev.row[s] ELSE st.row[s]]
             contrib == [s \in Sessions |-> IF s \in carried
                           THEN [st.contrib[s] EXCEPT ![Legacy] = prev.row[s]]
                           ELSE st.contrib[s]]
             count == [s \in Sessions |-> IF s \in carried \/ s \in Present(st)
                                          THEN Recounted(msgs, s) ELSE st.count[s]]
  <2>1. msgs \in SUBSET (Sessions \X Uuids)
    BY StoreFields
  <2>2. row \in [Sessions -> OnlyCopy] /\ contrib \in [Sessions -> [Contributors -> OnlyCopy]]
    <3> HIDE DEF carried
    <3> QED
      BY StoreFields
  <2>3. count \in [Sessions -> Nat]
    <3> HIDE DEF carried, msgs
    <3> QED
      BY <2>1, StoreFields, RecountedType
  <2>4. CarriedForward(st, prev) =
          [st EXCEPT !.row = row, !.contrib = contrib, !.msgs = msgs, !.count = count]
    BY DEF CarriedForward, Stores
  <2> HIDE DEF msgs, row, contrib, count
  <2> QED
    BY <2>1, <2>2, <2>3, <2>4 DEF Stores
<1>3. TombstonesPruned(st, stones) \in Stores
  <2>1. Absent \in OnlyCopy /\ NoTag \in Tag /\ 0 \in Nat
    BY DEF OnlyCopy, NoTag, Tag
  <2> QED
    BY <2>1 DEF TombstonesPruned, Stores
<1> QED
  BY <1>1, <1>2, <1>3

-----------------------------------------------------------------------------

(* Type correctness is inductive together with the finiteness of the        *)
(* databases, and with what the fold transaction finds in its job.          *)
Typed ==
  /\ TypeOK
  /\ src \in [Sources -> FiniteDBs]
  /\ job.pc = "tx" => job.d \in Sources /\ job.mk \in Mark

LEMMA OldStoreType ==
  ASSUME NEW db \in [Sources -> FiniteDBs]
  PROVE  OldStore(db) \in Stores
<1> DEFINE owned(s) == {d \in Sources : Has(db[d], s)}
           row == [s \in Sessions |-> IF owned(s) # {} THEN Live ELSE Absent]
           msgs == {<<m.s, m.u>> : m \in UNION {db[d].msgs : d \in Sources}}
           uuids(s) == {m.u : m \in UNION {MessagesOf(db[d], s) : d \in Sources}}
           count == [s \in Sessions |-> Cardinality(uuids(s))]
           mark == [d \in Sources |-> IF db[d].behind THEN NoMark ELSE MarkOf(db[d])]
<1>1. row \in [Sessions -> OnlyCopy]
  BY DEF OnlyCopy, Live
<1>2. \A d \in Sources : db[d].msgs \subseteq Message
  BY DEF FiniteDBs, SourceDBs
<1>3. msgs \in SUBSET (Sessions \X Uuids)
  <2>1. UNION {db[d].msgs : d \in Sources} \subseteq Message
    BY <1>2
  <2> QED
    BY <2>1 DEF Message
<1>4. count \in [Sessions -> Nat]
  <2> SUFFICES ASSUME NEW s \in Sessions PROVE Cardinality(uuids(s)) \in Nat
    OBVIOUS
  <2>1. UNION {MessagesOf(db[d], s) : d \in Sources} \subseteq Message
    BY <1>2 DEF MessagesOf
  <2>2. uuids(s) \in SUBSET Uuids
    BY <2>1 DEF Message
  <2> HIDE DEF uuids
  <2> QED
    BY <2>2, UuidsType, FS_Subset, FS_CardinalityType
<1>5. mark \in [Sources -> Mark \cup {NoMark}]
  BY MarkOfType
<1>6. OldStore(db) = [EmptyStore EXCEPT !.row = row, !.msgs = msgs, !.count = count,
                                        !.mark = mark]
  BY DEF OldStore
<1> HIDE DEF row, msgs, count, mark
<1> QED
  BY <1>1, <1>3, <1>4, <1>5, <1>6, EmptyStoreType DEF Stores

LEMMA IndexedType == Indexed \subseteq FiniteDBs
<1>1. \A s \in Sessions : Reindexed(EmptyDB, s, 1) \in FiniteDBs
  BY EmptyDBType, ReindexedType, SourceAssumption
<1> QED
  BY SMTT(30), <1>1, EmptyDBType DEF Indexed, FiniteDBs, SourceDBs

LEMMA IdleType == Idle \in Jobs
BY DEF Idle, Jobs, Contributors

LEMMA TypedInit == Init => Typed
<1> SUFFICES ASSUME Init PROVE Typed
  OBVIOUS
<1> USE DEF Init, Begin
<1>1. src \in [Sources -> FiniteDBs]
  BY EmptyDBType, IndexedType DEF Fresh, Upgraded
<1>2. live \in Stores
  BY <1>1, EmptyStoreType, OldStoreType DEF Fresh, Upgraded
<1>3. src \in [Sources -> SourceDBs]
  BY <1>1 DEF FiniteDBs
<1>4. now \in 0..MaxTime /\ faults \in 0..MaxFaults
  BY BoundAssumption
<1> QED
  BY <1>1, <1>2, <1>3, <1>4, EmptyStoreType, IdleType DEF Typed, TypeOK, Idle

LEMMA TypedSourceStep == Typed /\ SourceStep => Typed'
<1> SUFFICES ASSUME Typed, SourceStep PROVE Typed'
  OBVIOUS
<1>1. /\ src \in [Sources -> FiniteDBs] /\ now \in 0..MaxTime /\ MaxTime \in Nat
      /\ tombs \subseteq Sessions /\ seen \in [Sources -> SUBSET Sessions]
  BY BoundAssumption DEF Typed, TypeOK
<1>2. CASE \E s \in Sessions : Delete(s)
  BY <1>1, <1>2 DEF Delete, Tick, Typed, TypeOK
<1>3. ASSUME NEW d \in Sources, StartIndex(d) PROVE Typed'
  <2>1. SchemaRebuilt(src[d]) \in FiniteDBs
    BY <1>1, EmptyDBType DEF SchemaRebuilt, FiniteDBs, SourceDBs
  <2>2. src' \in [Sources -> FiniteDBs]
    BY <1>1, <1>3, <2>1 DEF StartIndex
  <2>3. src' \in [Sources -> SourceDBs]
    BY <2>2 DEF FiniteDBs
  <2> QED
    BY <1>1, <1>3, <2>2, <2>3 DEF StartIndex, Typed, TypeOK
<1>4. ASSUME NEW d \in Sources, NEW db \in FiniteDBs, Writes(d, db), now' \in 0..MaxTime
      PROVE  Typed'
  <2>1. src' \in [Sources -> FiniteDBs]
    BY <1>1, <1>4 DEF Writes
  <2>2. src' \in [Sources -> SourceDBs]
    BY <2>1 DEF FiniteDBs
  <2> QED
    BY <1>4, <2>1, <2>2 DEF Writes, Typed, TypeOK
<1>5. Tick => now' \in 0..MaxTime
  BY <1>1 DEF Tick
<1>6. ASSUME NEW d \in Sources, NEW s \in Sessions, NEW k \in 0..MaxUuid, SrcReindex(d, s, k)
      PROVE  Typed'
  BY <1>1, <1>4, <1>5, <1>6, ReindexedType DEF SrcReindex
<1>7. ASSUME NEW d \in Sources, NEW s \in Sessions,
             \/ SrcAppend(d, s) \/ SrcStamp(d, s) \/ SrcClear(d, s)
             \/ SrcPruneMessages(d, s) \/ SrcPruneRow(d, s)
      PROVE  Typed'
  <2>1. now + 1 \in Nat /\ NoTag \in Tag
    BY <1>1 DEF NoTag, Tag
  <2>2. /\ Stamped(src[d], s, now + 1) \in FiniteDBs
        /\ Cleared(src[d], s) \in FiniteDBs
        /\ MessagesPruned(src[d], s) \in FiniteDBs
        /\ RowPruned(src[d], s) \in FiniteDBs
    BY <1>1, <2>1, SourceTxType
  <2>3. CASE SrcAppend(d, s)
    BY <1>1, <1>4, <1>5, <2>3, AppendedType DEF SrcAppend
  <2>4. CASE SrcStamp(d, s)
    BY <1>4, <1>5, <2>2, <2>4 DEF SrcStamp
  <2>5. CASE SrcClear(d, s)
    BY <1>4, <1>5, <2>2, <2>5 DEF SrcClear
  <2>6. CASE SrcPruneMessages(d, s) \/ SrcPruneRow(d, s)
    BY <1>1, <1>4, <2>2, <2>6 DEF SrcPruneMessages, SrcPruneRow
  <2> QED
    BY <1>7, <2>3, <2>4, <2>5, <2>6
<1>8. ASSUME NEW d \in Sources, NEW s \in Sessions, NEW tag \in Tags,
             SrcTag(d, s, tag) \/ SrcJudge(d, s, tag)
      PROVE  Typed'
  <2>1. tag \in Tag
    BY BoundAssumption DEF Tag
  <2>2. Tagged(src[d], s, tag) \in FiniteDBs /\ Judged(src[d], s, tag) \in FiniteDBs
    BY <1>1, <2>1, SourceTxType
  <2> QED
    BY <1>4, <1>5, <1>8, <2>2 DEF SrcTag, SrcJudge
<1> QED
  BY <1>2, <1>3, <1>6, <1>7, <1>8 DEF SourceStep

(* The commits of a pass.                                                   *)
LEMMA CommitType ==
  ASSUME Typed, NEW st \in Stores, Commit(st)
  PROVE  live' \in Stores /\ build' \in Stores
BY DEF Commit, Typed, TypeOK

LEMMA TypedPassStep == Typed /\ PassStep => Typed'
<1> SUFFICES ASSUME Typed, PassStep PROVE Typed'
  OBVIOUS
<1>1. /\ live \in Stores /\ build \in Stores /\ Work \in Stores
      /\ job \in Jobs /\ tombs \in SUBSET Sessions
      /\ src \in [Sources -> FiniteDBs]
  BY DEF Typed, TypeOK, Work
(* It is enough that the stores and the job keep their types.               *)
<1>2. ASSUME UNCHANGED <<outside, faults>>, live' \in Stores, build' \in Stores, job' \in Jobs,
             job'.pc = "tx" => job'.d \in Sources /\ job'.mk \in Mark
      PROVE  Typed'
  BY <1>2 DEF Typed, TypeOK, outside
<1>3. ASSUME NEW kind \in {"sync", "full", "rebuild"}, NEW todo \in SUBSET Sources,
             Start(kind, todo), build' \in Stores
      PROVE  Typed'
  <2>1. job' \in Jobs /\ job'.pc # "tx"
    BY <1>3, IdleType DEF Start, Idle, Jobs
  <2> QED
    BY <1>1, <1>2, <1>3, <2>1 DEF Start
<1>4. CASE StartFull
  BY <1>1, <1>3, <1>4 DEF StartFull
<1>5. CASE StartRebuild
  BY <1>3, <1>5, EmptyStoreType DEF StartRebuild
<1>6. ASSUME NEW d \in Sources, StartSync(d) PROVE Typed'
  BY <1>1, <1>3, <1>6 DEF StartSync
<1>7. CASE Heal
  <2>1. Healed(IF Work.behind THEN SchemaReset(Work) ELSE Work) \in Stores
    BY <1>1, OpenedType
  <2>2. job' \in Jobs /\ job'.pc # "tx"
    BY <1>1, <1>7 DEF Heal, Goto, Jobs
  <2> QED
    BY <1>2, <1>7, <2>1, <2>2, CommitType DEF Heal
<1>8. CASE Migrate
  <2>1. Migrated(IF job.kind = "rebuild" THEN TagsRestored(build, live) ELSE live) \in Stores
    BY <1>1, OpenedType
  <2>2. job' \in Jobs /\ job'.pc # "tx"
    BY <1>1, <1>8 DEF Migrate, Goto, Jobs
  <2> QED
    BY <1>2, <1>8, <2>1, <2>2, CommitType DEF Migrate
<1>9. ASSUME NEW d \in Sources, SkipBehind(d) \/ SkipUnchanged(d) PROVE Typed'
  <2>1. PICK tooOld \in BOOLEAN : PassOver(d, tooOld) /\ job.pc = "fold"
    BY <1>9 DEF SkipBehind, SkipUnchanged
  <2>2. job' \in Jobs /\ job'.pc # "tx"
    BY <1>1, <2>1, IdleType DEF PassOver, Jobs, Idle
  <2> QED
    BY <1>1, <1>2, <2>1, <2>2 DEF PassOver
<1>10. ASSUME NEW d \in Sources, ReadMark(d) PROVE Typed'
  <2>1. MarkOf(src[d]) \in Mark
    BY <1>1, MarkOfType
  <2>2. job' \in Jobs /\ job'.d = d /\ job'.mk = MarkOf(src[d])
    BY <1>1, <1>10, <2>1 DEF ReadMark, Jobs, Contributors
  <2> QED
    BY <1>1, <1>2, <1>10, <2>1, <2>2 DEF ReadMark
<1>11. CASE FoldTx
  <2>1. job.d \in Sources /\ job.mk \in Mark
    BY <1>11 DEF FoldTx, Typed
  <2>2. Folded(Work, job.d, src[job.d], job.mk) \in Stores
    BY <1>1, <2>1, FoldedType
  <2>3. job' \in Jobs /\ job'.pc # "tx"
    BY <1>1, <1>11 DEF FoldTx, Jobs, Contributors
  <2> QED
    BY <1>2, <1>11, <2>2, <2>3, CommitType DEF FoldTx
<1>12. CASE EndFolds
  <2>1. (IF job.skipped THEN Work ELSE LegacyPruned(Work)) \in Stores
    BY <1>1, FinishedType
  <2>2. job' \in Jobs /\ job'.pc # "tx"
    BY <1>1, <1>12 DEF EndFolds, Goto, Jobs
  <2> QED
    BY <1>2, <1>12, <2>1, <2>2, CommitType DEF EndFolds
<1>13. CASE Carry
  <2>1. CarriedForward(build, live) \in Stores
    BY <1>1, FinishedType
  <2>2. job' \in Jobs /\ job'.pc # "tx"
    BY <1>1, <1>13 DEF Carry, Goto, Jobs
  <2> QED
    BY <1>1, <1>2, <1>13, <2>1, <2>2 DEF Carry
<1>14. CASE Prune
  <2>1. TombstonesPruned(Work, tombs) \in Stores
    BY <1>1, FinishedType
  <2>2. job' \in Jobs /\ job'.pc # "tx"
    BY <1>1, <1>14, IdleType DEF Prune, AfterPrune, Jobs, Idle
  <2> QED
    BY <1>2, <1>14, <2>1, <2>2, CommitType DEF Prune
<1>15. CASE Swap
  <2>1. job' \in Jobs /\ job'.pc # "tx"
    BY <1>15, IdleType DEF Swap, Idle
  <2> QED
    BY <1>1, <1>2, <1>15, <2>1, EmptyStoreType DEF Swap
<1> QED
  BY <1>4, <1>5, <1>6, <1>7, <1>8, <1>9, <1>10, <1>11, <1>12, <1>13, <1>14, <1>15 DEF PassStep

LEMMA TypedFaultStep == Typed /\ FaultStep => Typed'
<1> SUFFICES ASSUME Typed, FaultStep PROVE Typed'
  OBVIOUS
<1>1. faults' \in 0..MaxFaults /\ job \in Jobs
  BY BoundAssumption DEF FaultStep, PruneUnreadable, Fail, Kill, Faulty, Typed, TypeOK
<1>2. job' \in Jobs /\ job'.pc # "tx"
  BY <1>1, IdleType DEF FaultStep, PruneUnreadable, Fail, Kill, AfterPrune, Jobs, Idle
<1>3. live' \in Stores /\ build' \in Stores
  BY EmptyStoreType DEF FaultStep, PruneUnreadable, Fail, Kill, Typed, TypeOK
<1> QED
  BY <1>1, <1>2, <1>3 DEF FaultStep, PruneUnreadable, Fail, Kill, Typed, TypeOK, outside

LEMMA TypedStep == Typed /\ [Next]_vars => Typed'
<1>1. ASSUME Typed, UNCHANGED vars PROVE Typed'
  BY <1>1 DEF vars, Typed, TypeOK
<1> QED
  BY <1>1, TypedSourceStep, TypedPassStep, TypedFaultStep DEF Next

(* Every reachable state is well typed: the store's rows, contributions,    *)
(* messages and counts, the watermarks, and the job of the running pass.    *)
THEOREM TypeCorrect == Spec => []TypeOK
<1>1. Typed => TypeOK
  BY DEF Typed
<1> QED
  BY <1>1, TypedInit, TypedStep, PTL DEF Spec

-----------------------------------------------------------------------------
(* No message is missed: WatermarksVouch is inductive.                      *)

Inv == Typed /\ WatermarksVouch

LEMMA IdsArePositive ==
  ASSUME src \in [Sources -> FiniteDBs], NEW d \in Sources, NEW m \in src[d].msgs
  PROVE  m.id \in Nat \ {0} /\ m.s \in Sessions /\ m.u \in Uuids
BY DEF FiniteDBs, SourceDBs, Message

(* A store without watermarks vouches for nothing.                          *)
LEMMA NoMarkVouches ==
  ASSUME src \in [Sources -> FiniteDBs], NEW st, \A d \in Sources : st.mark[d] = NoMark
  PROVE  Accounted(st)
BY IdsArePositive DEF Accounted, VouchedFor, NoMark

LEMMA EmptyStoreVouches ==
  ASSUME src \in [Sources -> FiniteDBs]
  PROVE  Accounted(EmptyStore) /\ MarksFit(EmptyStore)
<1>1. \A d \in Sources : EmptyStore.mark[d] = NoMark /\ ~EmptyStore.behind
  BY DEF EmptyStore
<1>2. MarksFit(EmptyStore)
  <2>1. ~EmptyStore.behind
    BY DEF EmptyStore
  <2>2. \A d \in Sources : src[d].last \in Nat
    BY DEF FiniteDBs, SourceDBs
  <2> QED
    BY <1>1, <2>1, <2>2 DEF MarksFit, NoMark
<1> QED
  BY <1>1, <1>2, NoMarkVouches

LEMMA IndexedIsNumbered ==
  ASSUME NEW db \in Indexed
  PROVE  /\ Numbered(db)
         /\ db = EmptyDB \/ \E s \in Sessions, b \in BOOLEAN :
              db = [Reindexed(EmptyDB, s, 1) EXCEPT !.behind = b]
<1>1. CASE db = EmptyDB
  BY <1>1, FS_EmptySet DEF Numbered, EmptyDB
<1>2. ASSUME NEW s \in Sessions, NEW b \in BOOLEAN,
             db = [Reindexed(EmptyDB, s, 1) EXCEPT !.behind = b]
      PROVE  Numbered(db)
  <2>1. IsFiniteSet(db.msgs)
    BY IndexedType DEF FiniteDBs
  <2>2. /\ db.msgs = {[id |-> 0 + i, s |-> s, u |-> i] : i \in 1..1}
        /\ db.last = 1
        /\ db.sess[s] = Live
    BY <1>2 DEF Reindexed, EmptyDB, MessagesOf
  <2> QED
    BY <2>1, <2>2 DEF Numbered, Has, Live, Absent
<1> QED
  BY <1>1, <1>2 DEF Indexed

LEMMA OldStoreVouches ==
  ASSUME src \in [Sources -> FiniteDBs], \A d \in Sources : Numbered(src[d])
  PROVE  Unhealed(OldStore(src)) /\ MarksFit(OldStore(src))
<1> DEFINE st == OldStore(src)
<1>1. /\ st.contrib = EmptyStore.contrib
      /\ st.mark = [d \in Sources |-> IF src[d].behind THEN NoMark ELSE MarkOf(src[d])]
      /\ st.msgs = {<<m.s, m.u>> : m \in UNION {src[d].msgs : d \in Sources}}
      /\ st.row = [s \in Sessions |->
                     IF {d \in Sources : Has(src[d], s)} # {} THEN Live ELSE Absent]
      /\ st.behind = FALSE
  BY DEF OldStore, EmptyStore
<1> HIDE DEF st
<1>2. \A s \in Sessions : ~Claimed(st.contrib, s)
  BY <1>1 DEF Claimed, EmptyStore
<1>3. ASSUME NEW d \in Sources, NEW m \in src[d].msgs
      PROVE  <<m.s, m.u>> \in st.msgs /\ m.s \in Present(st)
  BY <1>1, <1>3, IdsArePositive DEF Present, Numbered, Live, Absent
<1>4. MarksFit(st)
  <2>1. \A d \in Sources : src[d].last \in Nat /\ MarkOf(src[d]).max <= src[d].last
    BY MarkOfType DEF Numbered, FiniteDBs, SourceDBs
  <2> QED
    BY <1>1, <2>1 DEF MarksFit
<1> QED
  BY <1>2, <1>3, <1>4 DEF Unhealed, VouchedFor, st

LEMMA InvInit == Init => Inv
<1> SUFFICES ASSUME Init PROVE Inv
  OBVIOUS
<1>1. Typed
  BY TypedInit
<1>2. src \in [Sources -> FiniteDBs]
  BY <1>1 DEF Typed
<1>3. build = EmptyStore /\ job = Idle
  BY DEF Init, Begin
<1>4. \A d \in Sources : Numbered(src[d])
  BY IndexedIsNumbered DEF Init, Fresh, Upgraded, Indexed
<1>5. MarksFit(live) /\ (Accounted(live) \/ Unhealed(live))
  BY <1>2, <1>4, EmptyStoreVouches, OldStoreVouches DEF Init, Fresh, Upgraded
<1> QED
  BY <1>1, <1>2, <1>3, <1>4, <1>5, EmptyStoreVouches DEF Inv, WatermarksVouch, Idle

(* What a source writes does not make a watermark taken before lie: rows it *)
(* adds are above the row ids it handed out, and rows it removes are gone.  *)
Grown(db, new) ==
  /\ Numbered(new) /\ db.last <= new.last /\ ~new.behind
  /\ \A m \in new.msgs : m \in db.msgs \/ m.id > db.last

LEMMA GrownVouches ==
  ASSUME Inv, NEW d \in Sources, NEW db \in FiniteDBs, Grown(src[d], db), Writes(d, db)
  PROVE  WatermarksVouch'
<1>1. /\ src \in [Sources -> FiniteDBs] /\ ~src[d].behind
      /\ src' = [src EXCEPT ![d] = db]
      /\ UNCHANGED <<tombs, live, build, job>>
  BY DEF Inv, Typed, Writes
<1>2. src'[d] = db /\ \A e \in Sources : e # d => src'[e] = src[e]
  BY <1>1
<1>3. \A e \in Sources : src[e].last \in Nat
  BY <1>1 DEF FiniteDBs, SourceDBs
<1>4. db.last \in Nat /\ \A m \in db.msgs : m.id \in Nat
  BY DEF FiniteDBs, SourceDBs, Message
<1>5. \A e \in Sources : Numbered(src[e])'
  BY <1>1, <1>2 DEF Grown, Inv, WatermarksVouch, Numbered, Has
<1>6. ASSUME NEW st \in Stores, MarksFit(st)
      PROVE  /\ \A e \in Sources : IF src'[e].behind THEN st.mark[e] = NoMark
                                   ELSE st.mark[e].max <= src'[e].last
             /\ \A e \in Sources : \A m \in src'[e].msgs :
                  m.id <= st.mark[e].max => m \in VouchedFor(st, e)
  <2>1. \A e \in Sources : st.mark[e].max \in Int
    BY <1>6 DEF Stores, Mark, NoMark
  <2>2. st.mark[d].max <= src[d].last
    BY <1>1, <1>6 DEF MarksFit
  <2>3. \A e \in Sources : IF src'[e].behind THEN st.mark[e] = NoMark
                           ELSE st.mark[e].max <= src'[e].last
    BY <1>1, <1>2, <1>3, <1>4, <1>6, <2>1, <2>2 DEF MarksFit, Grown
  <2>4. \A m \in db.msgs : m.id <= st.mark[d].max => m \in src[d].msgs
    BY <1>3, <1>4, <2>1, <2>2 DEF Grown
  <2> QED
    BY <1>2, <2>3, <2>4 DEF VouchedFor
<1>7. live \in Stores /\ build \in Stores
  BY DEF Inv, Typed, TypeOK
<1>8. MarksFit(live)' /\ MarksFit(build)'
  BY <1>1, <1>6, <1>7 DEF Inv, WatermarksVouch, MarksFit
<1>9. Accounted(live) => Accounted(live)'
  BY <1>1, <1>6, <1>7 DEF Inv, WatermarksVouch, Accounted, VouchedFor, Deleted
<1>10. Accounted(build)'
  BY <1>1, <1>6, <1>7 DEF Inv, WatermarksVouch, Accounted, VouchedFor, Deleted
<1>11. Unhealed(live) => Unhealed(live)'
  BY <1>1, <1>6, <1>7 DEF Inv, WatermarksVouch, Unhealed, VouchedFor, Claimed, Present
<1>12. job'.pc = "tx" => /\ job'.d \in Sources /\ ~src'[job'.d].behind
                        /\ job'.mk.max <= src'[job'.d].last
  <2>1. job.pc = "tx" => job.mk.max \in Nat
    BY DEF Inv, Typed, Mark
  <2> QED
    BY <1>1, <1>2, <1>3, <1>4, <2>1 DEF Inv, WatermarksVouch, Grown
<1> QED
  BY <1>1, <1>5, <1>8, <1>9, <1>10, <1>11, <1>12 DEF Inv, WatermarksVouch

LEMMA SourceTxGrown ==
  ASSUME NEW db \in FiniteDBs, Numbered(db), ~db.behind, NEW s \in Sessions
  PROVE  /\ \A k \in 0..MaxUuid : Grown(db, Reindexed(db, s, k))
         /\ Cardinality(MessagesOf(db, s)) < MaxUuid => Grown(db, Appended(db, s))
         /\ Has(db, s) => \A t \in Nat : Grown(db, Stamped(db, s, t))
         /\ Grown(db, Cleared(db, s))
         /\ Grown(db, MessagesPruned(db, s))
         /\ MessagesOf(db, s) = {} => Grown(db, RowPruned(db, s))
         /\ \A tag \in Tag : Grown(db, Tagged(db, s, tag)) /\ Grown(db, Judged(db, s, tag))
<1>1. db.last \in Nat /\ db.sess \in [Sessions -> OnlyCopy] /\ IsFiniteSet(db.msgs)
  BY DEF FiniteDBs, SourceDBs
<1>2. \A m \in db.msgs : m.s \in Sessions /\ m.id \in Nat
  BY DEF FiniteDBs, SourceDBs, Message
<1>3. ASSUME NEW k \in 0..MaxUuid PROVE Grown(db, Reindexed(db, s, k))
  <2> DEFINE new == Reindexed(db, s, k)
  <2>1. /\ new.last = db.last + k
        /\ new.sess = [db.sess EXCEPT ![s] = Live]
        /\ new.behind = db.behind
        /\ new.msgs = (db.msgs \ MessagesOf(db, s))
                        \cup {[id |-> db.last + i, s |-> s, u |-> i] : i \in 1..k}
    BY DEF Reindexed, FiniteDBs, SourceDBs
  <2>2. IsFiniteSet(new.msgs)
    BY ReindexedType DEF FiniteDBs
  <2>3. k \in Nat
    BY SourceAssumption
  <2> HIDE DEF new
  <2>4. \A m \in new.msgs : m \in db.msgs \/ (m.s = s /\ m.id > db.last /\ m.id <= new.last)
    BY <1>1, <2>1, <2>3
  <2>5. \A m \in new.msgs : Has(new, m.s) /\ m.id <= new.last
    BY <1>1, <1>2, <2>1, <2>3, <2>4 DEF Numbered, Has, Live, Absent
  <2>6. Grown(db, new)
    BY <1>1, <2>1, <2>2, <2>3, <2>4, <2>5 DEF Grown, Numbered
  <2> QED
    BY <2>6 DEF new
<1>4. ASSUME Cardinality(MessagesOf(db, s)) < MaxUuid PROVE Grown(db, Appended(db, s))
  <2> DEFINE new == Appended(db, s)
             m == [id |-> db.last + 1, s |-> s, u |-> Cardinality(MessagesOf(db, s)) + 1]
  <2>1. /\ new.last = db.last + 1
        /\ new.sess = [db.sess EXCEPT ![s] = Live]
        /\ new.behind = db.behind
        /\ new.msgs = db.msgs \cup {m}
    BY DEF Appended, FiniteDBs, SourceDBs
  <2>2. IsFiniteSet(new.msgs)
    BY <1>4, AppendedType DEF FiniteDBs
  <2>3. m.id = db.last + 1 /\ m.s = s
    OBVIOUS
  <2> HIDE DEF new, m
  <2>4. \A x \in new.msgs : Has(new, x.s) /\ x.id <= new.last
    BY <1>1, <1>2, <2>1, <2>3 DEF Numbered, Has, Live, Absent
  <2>5. Grown(db, new)
    BY <1>1, <2>1, <2>2, <2>3, <2>4 DEF Grown, Numbered
  <2> QED
    BY <2>5 DEF new
<1>5. ASSUME NEW t \in Nat, Has(db, s) PROVE Grown(db, Stamped(db, s, t))
  BY <1>1, <1>2, <1>5 DEF Grown, Numbered, Stamped, Has, Absent, FiniteDBs, SourceDBs
<1>6. Grown(db, Cleared(db, s))
  BY <1>1, <1>2 DEF Grown, Numbered, Cleared, Has, Live, Absent, FiniteDBs, SourceDBs
<1>7. Grown(db, MessagesPruned(db, s))
  <2>1. IsFiniteSet(db.msgs \ MessagesOf(db, s))
    BY MessagesOfFinite
  <2> QED
    BY <1>1, <1>2, <2>1 DEF Grown, Numbered, MessagesPruned, MessagesOf, Has, FiniteDBs, SourceDBs
<1>8. ASSUME MessagesOf(db, s) = {} PROVE Grown(db, RowPruned(db, s))
  BY <1>1, <1>2, <1>8 DEF Grown, Numbered, RowPruned, MessagesOf, Has, FiniteDBs, SourceDBs
<1>9. ASSUME NEW tag \in Tag
      PROVE  Grown(db, Tagged(db, s, tag)) /\ Grown(db, Judged(db, s, tag))
  BY <1>1 DEF Grown, Numbered, Tagged, Judged, Has, FiniteDBs, SourceDBs
<1> QED
  BY <1>3, <1>4, <1>5, <1>6, <1>7, <1>8, <1>9

(* What the writers of the project databases do: a user deletes, an index   *)
(* pass begins, or a database grows, by a tagging or without one.           *)
Retopiced(d, db) ==
  \/ db.topic = src[d].topic
  \/ \E s \in Sessions, tag \in Tags : db.topic = [src[d].topic EXCEPT ![s] = tag]

LEMMA SourceStepWrites ==
  ASSUME Inv, SourceStep
  PROVE  \/ \E s \in Sessions : Delete(s)
         \/ \E d \in Sources : StartIndex(d)
         \/ \E d \in Sources, db \in FiniteDBs :
              Writes(d, db) /\ Grown(src[d], db) /\ Retopiced(d, db)
<1> DEFINE Wrote == \E d \in Sources, db \in FiniteDBs :
                      Writes(d, db) /\ Grown(src[d], db) /\ Retopiced(d, db)
<1>1. /\ Typed /\ src \in [Sources -> FiniteDBs] /\ now \in Nat
      /\ \A d \in Sources : Numbered(src[d])
  BY BoundAssumption DEF Inv, Typed, TypeOK, WatermarksVouch
<1>2. ASSUME NEW d \in Sources, NEW s \in Sessions,
             \/ \E k \in 0..MaxUuid : SrcReindex(d, s, k)
             \/ SrcAppend(d, s) \/ SrcStamp(d, s) \/ SrcClear(d, s)
             \/ SrcPruneMessages(d, s) \/ SrcPruneRow(d, s)
             \/ \E tag \in Tags : SrcTag(d, s, tag) \/ SrcJudge(d, s, tag)
      PROVE  Wrote
  <2>1. src[d] \in FiniteDBs /\ src[d] \in SourceDBs /\ Numbered(src[d]) /\ now + 1 \in Nat
        /\ Tags \subseteq Tag
    BY <1>1, BoundAssumption DEF Tag, FiniteDBs
  <2>2. ~src[d].behind
    BY <1>2 DEF SrcReindex, SrcAppend, SrcStamp, SrcClear, SrcPruneMessages, SrcPruneRow,
                SrcTag, SrcJudge, Writes
  <2>3. ASSUME NEW db \in FiniteDBs, Writes(d, db), Grown(src[d], db), Retopiced(d, db)
        PROVE  Wrote
    BY <2>3
  <2> HIDE DEF Wrote
  <2>4. ASSUME NEW k \in 0..MaxUuid, SrcReindex(d, s, k) PROVE Wrote
    <3>1. Reindexed(src[d], s, k).topic = src[d].topic
      BY <2>1 DEF Reindexed, SourceDBs
    <3> QED
      BY <2>1, <2>2, <2>3, <2>4, <3>1, ReindexedType, SourceTxGrown DEF SrcReindex, Retopiced
  <2>5. CASE SrcAppend(d, s)
    <3>1. Appended(src[d], s).topic = src[d].topic
      BY <2>1 DEF Appended, SourceDBs
    <3> QED
      BY <2>1, <2>2, <2>3, <2>5, <3>1, AppendedType, SourceTxGrown DEF SrcAppend, Retopiced
  <2>6. /\ Stamped(src[d], s, now + 1) \in FiniteDBs
        /\ Cleared(src[d], s) \in FiniteDBs
        /\ MessagesPruned(src[d], s) \in FiniteDBs
        /\ RowPruned(src[d], s) \in FiniteDBs
    <3>1. NoTag \in Tag
      BY DEF NoTag, Tag
    <3> QED
      BY <2>1, <3>1, SourceTxType
  <2>7. /\ Stamped(src[d], s, now + 1).topic = src[d].topic
        /\ Cleared(src[d], s).topic = src[d].topic
        /\ MessagesPruned(src[d], s).topic = src[d].topic
        /\ RowPruned(src[d], s).topic = src[d].topic
    BY <2>1 DEF Stamped, Cleared, MessagesPruned, RowPruned, SourceDBs
  <2>8. CASE SrcStamp(d, s)
    <3>1. Has(src[d], s)
      BY <2>8 DEF SrcStamp, Has, Live, Absent
    <3> QED
      BY <2>1, <2>2, <2>3, <2>6, <2>7, <2>8, <3>1, SourceTxGrown DEF SrcStamp, Retopiced
  <2>9. CASE SrcClear(d, s)
    BY <2>1, <2>2, <2>3, <2>6, <2>7, <2>9, SourceTxGrown DEF SrcClear, Retopiced
  <2>10. CASE SrcPruneMessages(d, s) \/ SrcPruneRow(d, s)
    BY <2>1, <2>2, <2>3, <2>6, <2>7, <2>10, SourceTxGrown
       DEF SrcPruneMessages, SrcPruneRow, Retopiced
  <2>11. ASSUME NEW tag \in Tags, SrcTag(d, s, tag) \/ SrcJudge(d, s, tag)
         PROVE  Wrote
    <3>1. Tagged(src[d], s, tag) \in FiniteDBs /\ Judged(src[d], s, tag) \in FiniteDBs
      BY <2>1, SourceTxType
    <3>2. /\ Tagged(src[d], s, tag).topic = [src[d].topic EXCEPT ![s] = tag]
          /\ Judged(src[d], s, tag).topic = src[d].topic
      BY <2>1 DEF Tagged, Judged, SourceDBs
    <3>3. Retopiced(d, Tagged(src[d], s, tag)) /\ Retopiced(d, Judged(src[d], s, tag))
      BY <3>2 DEF Retopiced
    <3> QED
      BY <2>1, <2>2, <2>3, <2>11, <3>1, <3>3, SourceTxGrown DEF SrcTag, SrcJudge
  <2> QED
    BY <1>2, <2>4, <2>5, <2>8, <2>9, <2>10, <2>11
<1> QED
  BY <1>2 DEF SourceStep

LEMMA InvSourceStep == Inv /\ SourceStep => WatermarksVouch'
<1> SUFFICES ASSUME Inv, SourceStep PROVE WatermarksVouch'
  OBVIOUS
<1>1. /\ Typed /\ src \in [Sources -> FiniteDBs] /\ now \in Nat
      /\ \A d \in Sources : Numbered(src[d])
  BY BoundAssumption DEF Inv, Typed, TypeOK, WatermarksVouch
<1>2. ASSUME NEW s \in Sessions, Delete(s) PROVE WatermarksVouch'
  <2>1. \A r \in Sessions : Deleted(r) => Deleted(r)'
    BY <1>2 DEF Delete, Deleted
  <2>2. UNCHANGED <<src, live, build, job>>
    BY <1>2 DEF Delete
  <2>3. \A d \in Sources : \A m \in src[d].msgs : m.s \in Sessions
    BY <1>1, IdsArePositive
  <2>4. Accounted(live) => Accounted(live)'
    BY <2>1, <2>2, <2>3 DEF Accounted, VouchedFor
  <2>5. Accounted(build) => Accounted(build)'
    BY <2>1, <2>2, <2>3 DEF Accounted, VouchedFor
  <2>6. Unhealed(live) => Unhealed(live)'
    BY <2>2 DEF Unhealed, VouchedFor, Claimed, Present
  <2> QED
    BY <2>2, <2>4, <2>5, <2>6 DEF Inv, WatermarksVouch, MarksFit, Numbered, Has
<1>3. ASSUME NEW d \in Sources, StartIndex(d) PROVE WatermarksVouch'
  <2>1. UNCHANGED <<tombs, live, build, job>>
    BY <1>3 DEF StartIndex
  <2>2. CASE ~src[d].behind
    <3>1. src' = src
      BY <1>1, <1>3, <2>2 DEF StartIndex
    <3> QED
      BY <2>1, <3>1 DEF Inv, WatermarksVouch, MarksFit, Accounted, Unhealed, VouchedFor,
                        Deleted, Claimed, Present, Numbered, Has
  <2>3. CASE src[d].behind
    <3> DEFINE db == SchemaRebuilt(src[d])
    <3>1. src' = [src EXCEPT ![d] = db]
      BY <1>3, <2>3 DEF StartIndex
    <3>2. db.msgs = {} /\ db.last = 0 /\ ~db.behind
      BY DEF SchemaRebuilt, EmptyDB
    <3> HIDE DEF db
    <3>3. src'[d] = db /\ \A e \in Sources : e # d => src'[e] = src[e]
      BY <1>1, <3>1
    <3>4. Numbered(db)
      BY <3>2, FS_EmptySet DEF Numbered
    <3>5. \A e \in Sources : Numbered(src[e])'
      BY <1>1, <3>3, <3>4 DEF Numbered, Has
    <3>6. MarksFit(live)' /\ MarksFit(build)'
      BY <2>1, <2>3, <3>2, <3>3 DEF Inv, WatermarksVouch, MarksFit, NoMark
    <3>7. \A e \in Sources : src'[e].msgs \subseteq src[e].msgs
      BY <3>2, <3>3
    <3>8. Accounted(live) => Accounted(live)'
      BY <2>1, <3>7 DEF Accounted, VouchedFor, Deleted
    <3>9. Accounted(build) => Accounted(build)'
      BY <2>1, <3>7 DEF Accounted, VouchedFor, Deleted
    <3>10. Unhealed(live) => Unhealed(live)'
      BY <2>1, <3>7 DEF Unhealed, VouchedFor, Claimed, Present
    <3>11. job.pc = "tx" => job.d # d
      BY <2>3 DEF Inv, WatermarksVouch
    <3> QED
      BY <2>1, <3>3, <3>5, <3>6, <3>8, <3>9, <3>10, <3>11 DEF Inv, WatermarksVouch
  <2> QED
    BY <2>2, <2>3
<1>4. ASSUME NEW d \in Sources, NEW db \in FiniteDBs, Writes(d, db), Grown(src[d], db)
      PROVE  WatermarksVouch'
  BY <1>4, GrownVouches
<1> QED
  BY <1>2, <1>3, <1>4, SourceStepWrites

(* What a pass commits vouches for what the store it read vouched for.      *)
LEMMA HealedVouches ==
  ASSUME Inv, NEW st \in Stores, MarksFit(st), Accounted(st) \/ Unhealed(st)
  PROVE  Accounted(Healed(st)) /\ MarksFit(Healed(st))
<1>1. src \in [Sources -> FiniteDBs]
  BY DEF Inv, Typed
<1>2. CASE Present(st) # {} /\ \A s \in Sessions : ~Claimed(st.contrib, s)
  <2>1. Healed(st).mark = [d \in Sources |-> NoMark] /\ Healed(st).behind = st.behind
    BY <1>2 DEF Healed, Stores
  <2>2. \A d \in Sources : src[d].last \in Nat
    BY <1>1 DEF FiniteDBs, SourceDBs
  <2>3. \A d \in Sources : Healed(st).mark[d] = NoMark
    BY <2>1
  <2>4. MarksFit(Healed(st))
    BY <2>1, <2>2, <2>3 DEF MarksFit, NoMark
  <2>5. Accounted(Healed(st))
    BY <1>1, <2>3, NoMarkVouches
  <2> QED
    BY <2>4, <2>5
<1>3. CASE ~(Present(st) # {} /\ \A s \in Sessions : ~Claimed(st.contrib, s))
  <2>1. Healed(st) = st
    BY <1>3 DEF Healed
  <2>2. Unhealed(st) => Accounted(st)
    BY <1>3 DEF Unhealed, Accounted
  <2> QED
    BY <2>1, <2>2
<1> QED
  BY <1>2, <1>3

LEMMA OpenedVouches ==
  ASSUME Inv, NEW st \in Stores, NEW prev \in Stores, MarksFit(st), Accounted(st)
  PROVE  /\ Accounted(Migrated(st)) /\ MarksFit(Migrated(st))
         /\ Accounted(TagsRestored(st, prev)) /\ MarksFit(TagsRestored(st, prev))
<1>1. src \in [Sources -> FiniteDBs]
  BY DEF Inv, Typed
<1>2. /\ TagsRestored(st, prev).mark = st.mark /\ TagsRestored(st, prev).msgs = st.msgs
      /\ TagsRestored(st, prev).contrib = st.contrib
      /\ TagsRestored(st, prev).behind = st.behind
  BY DEF TagsRestored, Stores
<1>3. /\ Migrated(st).mark = st.mark /\ Migrated(st).msgs = st.msgs
      /\ Migrated(st).behind = st.behind
  BY DEF Migrated, Stores
<1>4. \A s \in Sessions, d \in Sources : Migrated(st).contrib[s][d] = st.contrib[s][d]
  <2>1. Migrated(st).contrib =
          [s \in Sessions |-> IF Claimed(st.contrib, s) THEN st.contrib[s]
                              ELSE [st.contrib[s] EXCEPT ![Legacy] = st.row[s]]]
    BY DEF Migrated, Stores
  <2> QED
    BY <2>1, StoreFields, StoreAssumption DEF Contributors
<1> QED
  BY <1>1, <1>2, <1>3, <1>4, IdsArePositive DEF Accounted, VouchedFor, MarksFit

LEMMA FinishedVouches ==
  ASSUME Inv, NEW st \in Stores, NEW prev \in Stores, MarksFit(st), Accounted(st)
  PROVE  /\ Accounted(LegacyPruned(st)) /\ MarksFit(LegacyPruned(st))
         /\ Accounted(CarriedForward(st, prev)) /\ MarksFit(CarriedForward(st, prev))
         /\ Accounted(TombstonesPruned(st, tombs)) /\ MarksFit(TombstonesPruned(st, tombs))
<1>1. src \in [Sources -> FiniteDBs] /\ tombs \subseteq Sessions
  BY DEF Inv, Typed, TypeOK
<1>2. Accounted(LegacyPruned(st)) /\ MarksFit(LegacyPruned(st))
  <2> DEFINE new == LegacyPruned(st)
  <2>1. new.mark = st.mark /\ new.msgs = st.msgs /\ new.behind = st.behind
    BY DEF LegacyPruned, Stores
  <2>2. new.contrib = [s \in Sessions |->
          IF \E d \in Sources : st.contrib[s][d] # Absent
          THEN [st.contrib[s] EXCEPT ![Legacy] = Absent] ELSE st.contrib[s]]
    BY DEF LegacyPruned, Stores
  <2> HIDE DEF new
  <2>3. \A s \in Sessions, d \in Sources : new.contrib[s][d] = st.contrib[s][d]
    BY <2>2, StoreFields, StoreAssumption DEF Contributors
  <2>4. Accounted(new) /\ MarksFit(new)
    BY <1>1, <2>1, <2>3, IdsArePositive DEF Accounted, VouchedFor, MarksFit
  <2> QED
    BY <2>4 DEF new
<1>3. Accounted(CarriedForward(st, prev)) /\ MarksFit(CarriedForward(st, prev))
  <2> DEFINE new == CarriedForward(st, prev)
             carried == Present(prev) \ Present(st)
  <2>1. new.mark = st.mark /\ new.behind = st.behind /\ st.msgs \subseteq new.msgs
    BY DEF CarriedForward, Stores
  <2>2. new.contrib = [s \in Sessions |->
          IF s \in carried THEN [st.contrib[s] EXCEPT ![Legacy] = prev.row[s]]
          ELSE st.contrib[s]]
    BY DEF CarriedForward, Stores
  <2> HIDE DEF new
  <2>3. \A s \in Sessions, d \in Sources : new.contrib[s][d] = st.contrib[s][d]
    BY <2>2, StoreFields, StoreAssumption DEF Contributors
  <2>4. Accounted(new) /\ MarksFit(new)
    BY <1>1, <2>1, <2>3, IdsArePositive DEF Accounted, VouchedFor, MarksFit
  <2> QED
    BY <2>4 DEF new
<1>4. Accounted(TombstonesPruned(st, tombs)) /\ MarksFit(TombstonesPruned(st, tombs))
  <2> DEFINE new == TombstonesPruned(st, tombs)
             doomed == Doomed(st, tombs)
  <2>1. /\ new.mark = st.mark /\ new.behind = st.behind
        /\ new.msgs = {x \in st.msgs : x[1] \notin doomed}
        /\ new.contrib = [s \in Sessions |-> IF s \in doomed
                                             THEN [c \in Contributors |-> Absent]
                                             ELSE st.contrib[s]]
    BY DEF TombstonesPruned, Stores
  <2>2. \A s \in doomed : Deleted(s)
    BY DEF Doomed, Deleted
  <2> HIDE DEF new, doomed
  <2>3. \A s \in Sessions, u \in Uuids : s \notin doomed /\ <<s, u>> \in st.msgs =>
          <<s, u>> \in new.msgs /\ new.contrib[s] = st.contrib[s]
    BY <2>1
  <2>4. Accounted(new)
    BY <1>1, <2>1, <2>2, <2>3, IdsArePositive DEF Accounted, VouchedFor
  <2>5. MarksFit(new)
    BY <2>1 DEF MarksFit
  <2> QED
    BY <2>4, <2>5 DEF new
<1> QED
  BY <1>2, <1>3, <1>4

(* The fold transaction: the tail it lands continues what the last          *)
(* watermark vouched for, and what it deletes no other source claims.       *)
LEMMA FoldedVouches ==
  ASSUME Inv, NEW st \in Stores, MarksFit(st), Accounted(st),
         NEW d \in Sources, NEW mk \in Mark, mk.max <= src[d].last, ~src[d].behind
  PROVE  /\ Accounted(Folded(st, d, src[d], mk))
         /\ MarksFit(Folded(st, d, src[d], mk))
<1> DEFINE db == src[d]
           prev == st.mark[d]
           incoming == Incoming(prev, mk, db)
           contrib == Contributed(st.contrib, d, db)
           orphaned == {s \in Sessions : /\ st.contrib[s][d] # Absent /\ ~Has(db, s)
                                         /\ ~Claimed(contrib, s)}
           landed == st.msgs \cup {<<m.s, m.u>> : m \in incoming}
           msgs == IF IsIncrementalAppend(prev, mk) THEN landed
                   ELSE {x \in landed : x[1] \notin orphaned}
           new == Folded(st, d, db, mk)
<1>1. src \in [Sources -> FiniteDBs] /\ \A e \in Sources : Numbered(src[e])
  BY DEF Inv, Typed, WatermarksVouch
<1>2. /\ new.contrib = contrib /\ new.msgs = msgs
      /\ new.mark = [st.mark EXCEPT ![d] = mk] /\ new.behind = st.behind
  BY DEF Folded, Stores
<1> HIDE DEF new
<1>3. /\ \A s \in Sessions : contrib[s][d] = db.sess[s]
      /\ \A s \in Sessions, e \in Sources : e # d => contrib[s][e] = st.contrib[s][e]
  BY StoreFields DEF Contributed, Contributors
<1>4. ASSUME NEW m \in db.msgs, m.id <= mk.max
      PROVE  m \in incoming \/ (m \in VouchedFor(st, d) /\ IsIncrementalAppend(prev, mk))
  <2>1. m.id \in Nat /\ mk.max \in Nat /\ prev.max \in Int
    BY <1>1, IdsArePositive, StoreFields DEF Mark, NoMark
  <2> QED
    BY <1>4, <2>1 DEF Incoming, VouchedFor
<1>5. ASSUME NEW s \in Sessions, NEW e \in Sources, contrib[s][e] # Absent
      PROVE  s \notin orphaned
  BY <1>5 DEF Claimed, Contributors
<1> HIDE DEF contrib, orphaned, incoming
<1>6. ASSUME NEW s \in Sessions, NEW u \in Uuids, <<s, u>> \in landed, s \notin orphaned
      PROVE  <<s, u>> \in msgs
  BY <1>6
<1>7. ASSUME NEW m \in db.msgs, m.id <= mk.max
      PROVE  Deleted(m.s) \/ (<<m.s, m.u>> \in msgs /\ contrib[m.s][d] # Absent)
  <2>1. m.s \in Sessions /\ m.u \in Uuids
    BY <1>1, IdsArePositive
  <2>2. contrib[m.s][d] # Absent
    BY <1>1, <1>3, <2>1 DEF Numbered, Has
  <2>3. Deleted(m.s) \/ <<m.s, m.u>> \in landed
    BY <1>4, <1>7 DEF Accounted
  <2> HIDE DEF landed, msgs
  <2> QED
    BY <1>5, <1>6, <2>1, <2>2, <2>3
<1>8. ASSUME NEW e \in Sources, e # d, NEW m \in VouchedFor(st, e)
      PROVE  Deleted(m.s) \/ (<<m.s, m.u>> \in msgs /\ contrib[m.s][e] # Absent)
  <2>1. m.s \in Sessions /\ m.u \in Uuids
    BY <1>1, IdsArePositive DEF VouchedFor
  <2>2. Deleted(m.s) \/ (<<m.s, m.u>> \in landed /\ contrib[m.s][e] # Absent)
    BY <1>3, <1>8, <2>1 DEF Accounted
  <2> HIDE DEF landed, msgs
  <2> QED
    BY <1>5, <1>6, <2>1, <2>2
<1>9. new.mark[d] = mk /\ \A e \in Sources : e # d => new.mark[e] = st.mark[e]
  BY <1>2, StoreFields
<1>10. Accounted(new)
  <2> HIDE DEF msgs
  <2> QED
    BY <1>2, <1>7, <1>8, <1>9 DEF Accounted, VouchedFor
<1>11. MarksFit(new)
  BY <1>2, <1>9 DEF MarksFit
<1> QED
  BY <1>10, <1>11 DEF new

(* A pass, and a fault in it, leaves the databases and the tombstones alone: *)
(* the invariant is a matter of the stores and of the job.                   *)
LEMMA InsideStep ==
  ASSUME Inv, UNCHANGED outside,
         MarksFit(live'), MarksFit(build'),
         Accounted(live') \/ Unhealed(live'), Accounted(build'),
         job'.pc \notin {"idle", "heal"} /\ job'.kind # "rebuild" => Accounted(live'),
         job'.pc = "tx" => /\ job'.d \in Sources /\ ~src[job'.d].behind
                           /\ job'.mk.max <= src[job'.d].last
  PROVE  WatermarksVouch'
<1>1. src' = src /\ tombs' = tombs
  BY DEF outside
<1>2. MarksFit(live)' /\ MarksFit(build)'
  BY <1>1 DEF MarksFit
<1>3. Accounted(live') => Accounted(live)'
  BY <1>1 DEF Accounted, VouchedFor, Deleted
<1>4. Accounted(build)'
  BY <1>1 DEF Accounted, VouchedFor, Deleted
<1>5. Unhealed(live') => Unhealed(live)'
  BY <1>1 DEF Unhealed, VouchedFor, Claimed, Present
<1>6. \A d \in Sources : Numbered(src[d])'
  BY <1>1 DEF Inv, WatermarksVouch, Numbered, Has
<1> QED
  BY <1>1, <1>2, <1>3, <1>4, <1>5, <1>6 DEF WatermarksVouch

LEMMA CommitVouches ==
  ASSUME Inv, NEW st \in Stores, Accounted(st), MarksFit(st), Commit(st), UNCHANGED outside,
         job'.kind = job.kind \/ job'.pc = "idle", job'.pc # "tx"
  PROVE  WatermarksVouch'
<1>1. CASE job.kind = "rebuild"
  <2>1. build' = st /\ live' = live
    BY <1>1 DEF Commit
  <2> QED
    BY <1>1, <2>1, InsideStep DEF Inv, WatermarksVouch
<1>2. CASE job.kind # "rebuild"
  <2>1. live' = st /\ build' = build
    BY <1>2 DEF Commit
  <2> QED
    BY <2>1, InsideStep DEF Inv, WatermarksVouch
<1> QED
  BY <1>1, <1>2

LEMMA InvPassStep == Inv /\ PassStep => WatermarksVouch'
<1> SUFFICES ASSUME Inv, PassStep PROVE WatermarksVouch'
  OBVIOUS
<1>1. /\ live \in Stores /\ build \in Stores /\ Work \in Stores
      /\ src \in [Sources -> FiniteDBs] /\ job \in Jobs
      /\ job.pc = "tx" => job.d \in Sources /\ job.mk \in Mark
  BY DEF Inv, Typed, TypeOK, Work
<1>2. /\ MarksFit(live) /\ MarksFit(build) /\ MarksFit(Work)
      /\ Accounted(live) \/ Unhealed(live)
      /\ Accounted(build)
      /\ Accounted(Work) \/ Unhealed(Work)
      /\ job.pc \notin {"idle", "heal"} => Accounted(Work)
  BY DEF Inv, WatermarksVouch, Work
<1>3. ASSUME NEW kind \in {"sync", "full", "rebuild"}, NEW todo \in SUBSET Sources,
             Start(kind, todo), build' = build \/ build' = EmptyStore
      PROVE  WatermarksVouch'
  <2>1. MarksFit(build') /\ Accounted(build')
    BY <1>1, <1>2, <1>3, EmptyStoreVouches
  <2>2. job'.pc = "heal" /\ live' = live /\ UNCHANGED outside
    BY <1>3 DEF Start, Idle
  <2> QED
    BY <1>2, <2>1, <2>2, InsideStep
<1>4. CASE StartFull
  BY <1>3, <1>4 DEF StartFull
<1>5. CASE StartRebuild
  BY <1>3, <1>5 DEF StartRebuild
<1>6. ASSUME NEW d \in Sources, StartSync(d) PROVE WatermarksVouch'
  BY <1>3, <1>6 DEF StartSync
<1>7. CASE Heal
  <2>1. ~Work.behind
    BY <1>2 DEF MarksFit
  <2>2. Commit(Healed(Work)) /\ Healed(Work) \in Stores
    BY <1>1, <1>7, <2>1, OpenedType DEF Heal
  <2>3. Accounted(Healed(Work)) /\ MarksFit(Healed(Work))
    BY <1>1, <1>2, HealedVouches
  <2>4. job'.kind = job.kind /\ job'.pc = "migrate" /\ UNCHANGED outside
    BY <1>1, <1>7 DEF Heal, Goto, Jobs
  <2> QED
    BY <2>2, <2>3, <2>4, CommitVouches
<1>8. CASE Migrate
  <2> DEFINE st == IF job.kind = "rebuild" THEN TagsRestored(build, live) ELSE live
  <2>1. st \in Stores
    BY <1>1, OpenedType
  <2>2. Accounted(st) /\ MarksFit(st)
    <3>1. CASE job.kind = "rebuild"
      BY <1>1, <1>2, <3>1, OpenedVouches
    <3>2. CASE job.kind # "rebuild"
      BY <1>2, <1>8, <3>2 DEF Migrate, Work
    <3> QED
      BY <3>1, <3>2
  <2>3. Commit(Migrated(st))
    BY <1>8 DEF Migrate
  <2> HIDE DEF st
  <2>4. Migrated(st) \in Stores /\ Accounted(Migrated(st)) /\ MarksFit(Migrated(st))
    BY <1>1, <2>1, <2>2, OpenedType, OpenedVouches
  <2>5. job'.kind = job.kind /\ job'.pc = "fold" /\ UNCHANGED outside
    BY <1>1, <1>8 DEF Migrate, Goto, Jobs
  <2> QED
    BY <2>3, <2>4, <2>5, CommitVouches
<1>9. ASSUME NEW d \in Sources, SkipBehind(d) \/ SkipUnchanged(d) PROVE WatermarksVouch'
  <2>1. PICK tooOld \in BOOLEAN : PassOver(d, tooOld) /\ job.pc = "fold"
    BY <1>9 DEF SkipBehind, SkipUnchanged
  <2>2. /\ UNCHANGED <<outside, live, build>>
        /\ job' = Idle \/ (job'.pc = "fold" /\ job'.kind = job.kind)
    BY <1>1, <2>1 DEF PassOver, Jobs
  <2>3. job'.pc # "tx" /\ (job'.pc \notin {"idle", "heal"} => job'.kind = job.kind)
    BY <2>2 DEF Idle
  <2> QED
    BY <1>2, <2>1, <2>2, <2>3, InsideStep DEF Work
<1>10. ASSUME NEW d \in Sources, ReadMark(d) PROVE WatermarksVouch'
  <2>1. /\ UNCHANGED <<outside, live, build>> /\ job.pc = "fold" /\ ~src[d].behind
        /\ job'.kind = job.kind /\ job'.d = d /\ job'.mk = MarkOf(src[d])
    BY <1>1, <1>10 DEF ReadMark, Jobs
  <2>2. MarkOf(src[d]).max <= src[d].last
    <3>1. Numbered(src[d]) /\ src[d] \in FiniteDBs /\ src[d].last \in Nat
      BY <1>1 DEF Inv, WatermarksVouch, FiniteDBs, SourceDBs
    <3> QED
      BY <3>1, MarkOfType DEF Numbered
  <2> QED
    BY <1>2, <2>1, <2>2, InsideStep DEF Work
<1>11. CASE FoldTx
  <2> DEFINE st == Folded(Work, job.d, src[job.d], job.mk)
  <2>1. /\ job.pc = "tx" /\ job.d \in Sources /\ job.mk \in Mark
        /\ job.mk.max <= src[job.d].last /\ ~src[job.d].behind
    BY <1>1, <1>11 DEF FoldTx, Inv, WatermarksVouch
  <2>2. st \in Stores /\ Accounted(st) /\ MarksFit(st)
    BY <1>1, <1>2, <2>1, FoldedType, FoldedVouches
  <2>3. Commit(st)
    BY <1>11 DEF FoldTx
  <2> HIDE DEF st
  <2>4. job'.kind = job.kind /\ job'.pc # "tx" /\ UNCHANGED outside
    BY <1>1, <1>11 DEF FoldTx, Jobs
  <2> QED
    BY <2>2, <2>3, <2>4, CommitVouches
<1>12. CASE EndFolds
  <2> DEFINE st == IF job.skipped THEN Work ELSE LegacyPruned(Work)
  <2>1. st \in Stores /\ Accounted(st) /\ MarksFit(st)
    BY <1>1, <1>2, <1>12, FinishedType, FinishedVouches DEF EndFolds
  <2>2. Commit(st)
    BY <1>12 DEF EndFolds
  <2> HIDE DEF st
  <2>3. job'.kind = job.kind /\ job'.pc # "tx" /\ UNCHANGED outside
    BY <1>1, <1>12 DEF EndFolds, Goto, Jobs
  <2> QED
    BY <2>1, <2>2, <2>3, CommitVouches
<1>13. CASE Carry
  <2>1. /\ build' = CarriedForward(build, live) /\ live' = live /\ UNCHANGED outside
        /\ job'.kind = job.kind /\ job'.pc = "prune" /\ job.pc = "carry"
    BY <1>1, <1>13 DEF Carry, Goto, Jobs
  <2>2. Accounted(build') /\ MarksFit(build')
    BY <1>1, <1>2, <2>1, FinishedVouches
  <2> QED
    BY <1>2, <2>1, <2>2, InsideStep DEF Work
<1>14. CASE Prune
  <2> DEFINE st == TombstonesPruned(Work, tombs)
  <2>1. tombs \in SUBSET Sessions
    BY DEF Inv, Typed, TypeOK
  <2>2. st \in Stores /\ Accounted(st) /\ MarksFit(st)
    BY <1>1, <1>2, <1>14, <2>1, FinishedType, FinishedVouches DEF Prune
  <2>3. Commit(st)
    BY <1>14 DEF Prune
  <2> HIDE DEF st
  <2>4. /\ job'.kind = job.kind \/ job'.pc = "idle"
        /\ job'.pc # "tx" /\ UNCHANGED outside
    BY <1>1, <1>14 DEF Prune, AfterPrune, Idle, Jobs
  <2> QED
    BY <2>2, <2>3, <2>4, CommitVouches
<1>15. CASE Swap
  <2>1. live' = build /\ build' = EmptyStore /\ job'.pc = "idle" /\ UNCHANGED outside
    BY <1>15 DEF Swap, Idle
  <2> QED
    BY <1>1, <1>2, <2>1, EmptyStoreVouches, InsideStep
<1> QED
  BY <1>4, <1>5, <1>6, <1>7, <1>8, <1>9, <1>10, <1>11, <1>12, <1>13, <1>14, <1>15 DEF PassStep

LEMMA InvFaultStep == Inv /\ FaultStep => WatermarksVouch'
<1> SUFFICES ASSUME Inv, FaultStep PROVE WatermarksVouch'
  OBVIOUS
<1>1. src \in [Sources -> FiniteDBs] /\ job \in Jobs
  BY DEF Inv, Typed, TypeOK
<1>2. UNCHANGED <<outside, live>> /\ build' \in {build, EmptyStore}
  BY DEF FaultStep, PruneUnreadable, Fail, Kill
<1>3. /\ job'.pc # "tx"
      /\ job'.pc # "idle" => job.pc = "prune" /\ job.kind = "rebuild" /\ job'.kind = job.kind
  BY <1>1 DEF FaultStep, PruneUnreadable, Fail, Kill, AfterPrune, Idle, Jobs
<1>4. MarksFit(build') /\ Accounted(build')
  BY <1>1, <1>2, EmptyStoreVouches DEF Inv, WatermarksVouch
<1> QED
  BY <1>2, <1>3, <1>4, InsideStep DEF Inv, WatermarksVouch

LEMMA InvStep == Inv /\ [Next]_vars => Inv'
<1>1. ASSUME Inv, UNCHANGED vars PROVE WatermarksVouch'
  BY <1>1 DEF vars, Inv, WatermarksVouch, Numbered, Has, MarksFit, Accounted, Unhealed,
              VouchedFor, Deleted, Claimed, Present
<1> QED
  BY <1>1, TypedStep, InvSourceStep, InvPassStep, InvFaultStep DEF Next, Inv

(* A watermark in the store, or in the replacement a rebuild fills, vouches *)
(* for the messages up to its highest row id, whatever the order in which   *)
(* indexers, passes, deletes and faults interleave (consolidateOne reads    *)
(* the watermark before the transaction that stores it).                    *)
THEOREM WatermarksAreSound == Spec => []WatermarksVouch
<1>1. Inv => WatermarksVouch
  BY DEF Inv
<1> QED
  BY <1>1, InvInit, InvStep, PTL DEF Spec

(* A source that consolidateOne would skip as unchanged has no message the  *)
(* store lacks, other than those of sessions the user deleted.              *)
THEOREM NothingMissed == Spec => []NoMissedMessage
<1>1. Inv => NoMissedMessage
  <2> SUFFICES ASSUME Inv, NEW d \in Sources, live.mark[d] = MarkOf(src[d]),
                      NEW m \in src[d].msgs
               PROVE  <<m.s, m.u>> \in live.msgs \/ Deleted(m.s)
    BY DEF NoMissedMessage
  <2>1. src[d] \in FiniteDBs
    BY DEF Inv, Typed
  <2>2. m.id <= live.mark[d].max
    BY <2>1, MarkOfType
  <2>3. m \in VouchedFor(live, d)
    BY <2>2 DEF VouchedFor
  <2> QED
    BY <2>3 DEF Inv, WatermarksVouch, Accounted, Unhealed
<1> QED
  BY <1>1, InvInit, InvStep, PTL DEF Spec

----------------------------------------------------------------------------
(* What the passes do to the sessions the store has: which ones it has,     *)
(* which it may lose, and what it says of their messages.                   *)

(* The store has a session of whatever contributes; once anything does, it  *)
(* has no other.                                                            *)
Union(st) ==
  \A s \in Sessions :
    /\ Claimed(st.contrib, s) => s \in Present(st)
    /\ s \in Present(st) /\ (\E r \in Sessions : Claimed(st.contrib, r)) => Claimed(st.contrib, s)
    /\ (\E d \in Sources : st.contrib[s][d] = Live) => st.row[s] = Live

(* Every session it has is contributed.                                     *)
Backed(st) == Union(st) /\ \A s \in Present(st) : Claimed(st.contrib, s)

(* A session that is not there counts nothing.                              *)
Zeroed(st) == \A s \in Sessions : s \notin Present(st) => st.count[s] = 0

(* The count of a session is that of its messages.                          *)
HonestIn(st, s) == s \in Present(st) => st.count[s] = Recounted(st.msgs, s)

(* The invariant.  From the migration on, a pass works on a store that is   *)
(* backed; a rebuild, once it has carried forward, has all of the live      *)
(* store's sessions but deleted ones, and has counted them.                 *)
Kept ==
  /\ Union(live) /\ Zeroed(live)
  /\ Union(build) /\ Zeroed(build)
  /\ job.pc \in {"carry", "swap"} => job.kind = "rebuild"
  /\ job.pc \notin {"idle", "heal", "migrate"} => Backed(Work)
  /\ job.kind = "rebuild" /\ job.pc \in {"prune", "swap"} =>
       /\ \A s \in Present(live) : s \in Present(build) \/ Deleted(s)
       /\ \A s \in Sessions : HonestIn(build, s)

-----------------------------------------------------------------------------
(* The transactions. *)

LEMMA NothingStored ==
  ASSUME NEW msgs, NEW s, \A x \in msgs : x[1] # s
  PROVE  Recounted(msgs, s) = 0
<1>1. Stored(msgs, s) = {}
  BY DEF Stored
<1> QED
  BY <1>1, FS_EmptySet DEF Recounted

(* Messages of other sessions do not count.                                 *)
LEMMA SameStored ==
  ASSUME NEW msgs, NEW more, NEW s,
         \A x : x[1] = s => (x \in msgs <=> x \in more)
  PROVE  Recounted(msgs, s) = Recounted(more, s)
<1>1. Stored(msgs, s) = Stored(more, s)
  BY DEF Stored
<1> QED
  BY <1>1 DEF Recounted

(* The row that is derived from a session's contributions.                  *)
LEMMA MergedIs ==
  ASSUME NEW c \in [Contributors -> OnlyCopy]
  PROVE  /\ Merged(c) = Absent <=> \A d \in Contributors : c[d] = Absent
         /\ (\E d \in Contributors : c[d] = Live) => Merged(c) = Live
<1> DEFINE all == {c[d] : d \in Contributors}
           said == all \ {Absent}
<1>1. IsFiniteSet(said)
  <2>1. IsFiniteSet(Contributors)
    BY StoreAssumption, FS_AddElement DEF Contributors
  <2>2. IsFiniteSet(all)
    BY <2>1, FiniteImage
  <2> HIDE DEF all
  <2> QED
    BY <2>2, FS_RemoveElement
<1>2. said \subseteq Nat
  BY DEF OnlyCopy
<1>3. said # {} => Top(said) \in Nat
  <2> HIDE DEF said
  <2> QED
    BY <1>1, <1>2, TopIsMax
<1>4. said = {} <=> \A d \in Contributors : c[d] = Absent
  OBVIOUS
<1>5. (\E d \in Contributors : c[d] = Live) => Live \in said
  BY DEF Live, Absent
<1>6. Merged(c) = CASE said = {} -> Absent [] Live \in said -> Live [] OTHER -> Top(said)
  BY DEF Merged
<1> HIDE DEF said
<1> QED
  BY <1>3, <1>4, <1>5, <1>6 DEF Live, Absent

LEMMA EmptyStoreKeeps == Backed(EmptyStore) /\ Zeroed(EmptyStore)
BY StoreAssumption DEF EmptyStore, Backed, Union, Zeroed, Present, Claimed, Contributors, Live, Absent

(* Stores that differ in their taggings, marks or messages alone.           *)
LEMMA SameRows ==
  ASSUME NEW st, NEW new, new.contrib = st.contrib, new.row = st.row, new.count = st.count
  PROVE  /\ Present(new) = Present(st)
         /\ Union(new) <=> Union(st)
         /\ Backed(new) <=> Backed(st)
         /\ Zeroed(new) <=> Zeroed(st)
<1>1. Present(new) = Present(st)
  BY DEF Present
<1> QED
  BY <1>1 DEF Union, Backed, Zeroed

LEMMA OpenedKeeps ==
  ASSUME NEW st \in Stores, NEW prev \in Stores, Union(st), Zeroed(st)
  PROVE  /\ Union(Healed(st)) /\ Zeroed(Healed(st))
         /\ Present(Healed(st)) = Present(st) /\ Healed(st).count = st.count
         /\ Healed(st).msgs = st.msgs /\ Healed(st).contrib = st.contrib
         /\ Union(TagsRestored(st, prev)) /\ Zeroed(TagsRestored(st, prev))
<1>1. /\ Healed(st).contrib = st.contrib /\ Healed(st).row = st.row /\ Healed(st).count = st.count
      /\ Healed(st).msgs = st.msgs
  BY DEF Healed, Stores
<1>2. /\ TagsRestored(st, prev).contrib = st.contrib /\ TagsRestored(st, prev).row = st.row
      /\ TagsRestored(st, prev).count = st.count
  BY DEF TagsRestored, Stores
<1> QED
  BY <1>1, <1>2, SameRows

LEMMA MigratedKeeps ==
  ASSUME NEW st \in Stores, Union(st), Zeroed(st)
  PROVE  /\ Backed(Migrated(st)) /\ Zeroed(Migrated(st))
         /\ Present(Migrated(st)) = Present(st) /\ Migrated(st).count = st.count
         /\ Migrated(st).msgs = st.msgs
         /\ \A s \in Sessions : IF Claimed(st.contrib, s) THEN Migrated(st).contrib[s] = st.contrib[s]
                                ELSE Migrated(st).contrib[s][Legacy] = st.row[s]
<1> DEFINE new == Migrated(st)
<1>1. /\ new.row = st.row /\ new.count = st.count /\ new.msgs = st.msgs
      /\ new.contrib = [s \in Sessions |-> IF Claimed(st.contrib, s) THEN st.contrib[s]
                                           ELSE [st.contrib[s] EXCEPT ![Legacy] = st.row[s]]]
  BY DEF Migrated, Stores
<1> HIDE DEF new
<1>2. /\ Legacy \in Contributors /\ Legacy \notin Sources /\ Sources \subseteq Contributors
      /\ st.contrib \in [Sessions -> [Contributors -> OnlyCopy]]
  BY StoreAssumption, StoreFields DEF Contributors
<1>3. ASSUME NEW s \in Sessions, ~Claimed(st.contrib, s)
      PROVE  /\ new.contrib[s][Legacy] = st.row[s]
             /\ \A c \in Contributors \ {Legacy} : new.contrib[s][c] = Absent
  BY <1>1, <1>2, <1>3 DEF Claimed
<1>4. ASSUME NEW s \in Sessions, Claimed(st.contrib, s)
      PROVE  new.contrib[s] = st.contrib[s]
  BY <1>1, <1>4
<1>5. Present(new) = Present(st)
  BY <1>1 DEF Present
<1>6. ASSUME NEW s \in Sessions
      PROVE  /\ Claimed(new.contrib, s) <=> s \in Present(new)
             /\ (\E d \in Sources : new.contrib[s][d] = Live) => new.row[s] = Live
  <2>1. CASE Claimed(st.contrib, s)
    BY <1>1, <1>4, <1>5, <2>1 DEF Claimed, Union
  <2>2. CASE ~Claimed(st.contrib, s)
    BY <1>1, <1>2, <1>3, <2>2 DEF Claimed, Present, Live, Absent
  <2> QED
    BY <2>1, <2>2
<1>7. Backed(new) /\ Zeroed(new)
  <2>1. Present(new) \subseteq Sessions
    BY DEF Present
  <2> QED
    BY <1>1, <1>5, <1>6, <2>1 DEF Backed, Union, Zeroed
<1> QED
  BY <1>1, <1>3, <1>4, <1>5, <1>7 DEF new

LEMMA FinishedKeeps ==
  ASSUME NEW st \in Stores, Backed(st), Zeroed(st)
  PROVE  /\ Backed(LegacyPruned(st)) /\ Zeroed(LegacyPruned(st))
         /\ Present(LegacyPruned(st)) = Present(st) /\ LegacyPruned(st).count = st.count
         /\ LegacyPruned(st).msgs = st.msgs
<1> DEFINE new == LegacyPruned(st)
<1>1. /\ new.row = st.row /\ new.count = st.count /\ new.msgs = st.msgs
      /\ new.contrib = [s \in Sessions |-> IF \E d \in Sources : st.contrib[s][d] # Absent
                                           THEN [st.contrib[s] EXCEPT ![Legacy] = Absent]
                                           ELSE st.contrib[s]]
  BY DEF LegacyPruned, Stores
<1> HIDE DEF new
<1>2. /\ Legacy \in Contributors /\ Legacy \notin Sources /\ Sources \subseteq Contributors
      /\ st.contrib \in [Sessions -> [Contributors -> OnlyCopy]]
  BY StoreAssumption, StoreFields DEF Contributors
<1>3. ASSUME NEW s \in Sessions
      PROVE  /\ Claimed(new.contrib, s) <=> Claimed(st.contrib, s)
             /\ \A d \in Sources : new.contrib[s][d] = st.contrib[s][d]
  <2>1. \A d \in Sources : new.contrib[s][d] = st.contrib[s][d]
    BY <1>1, <1>2
  <2>2. CASE \E d \in Sources : st.contrib[s][d] # Absent
    BY <1>2, <2>1, <2>2 DEF Claimed
  <2>3. CASE ~ \E d \in Sources : st.contrib[s][d] # Absent
    BY <1>1, <2>1, <2>3 DEF Claimed
  <2> QED
    BY <2>1, <2>2, <2>3
<1>4. Present(new) = Present(st) /\ Present(st) \subseteq Sessions
  BY <1>1 DEF Present
<1>5. Backed(new) /\ Zeroed(new)
  BY <1>1, <1>3, <1>4 DEF Backed, Union, Zeroed
<1> QED
  BY <1>1, <1>4, <1>5 DEF new

LEMMA CarriedKeeps ==
  ASSUME NEW st \in Stores, NEW prev \in Stores, Backed(st), Zeroed(st)
  PROVE  /\ Backed(CarriedForward(st, prev)) /\ Zeroed(CarriedForward(st, prev))
         /\ Present(prev) \subseteq Present(CarriedForward(st, prev))
         /\ \A s \in Sessions : HonestIn(CarriedForward(st, prev), s)
<1> DEFINE new == CarriedForward(st, prev)
           carried == Present(prev) \ Present(st)
           msgs == st.msgs \cup {x \in prev.msgs : x[1] \in carried}
<1>1. /\ new.row = [s \in Sessions |-> IF s \in carried THEN prev.row[s] ELSE st.row[s]]
      /\ new.contrib = [s \in Sessions |-> IF s \in carried
                                           THEN [st.contrib[s] EXCEPT ![Legacy] = prev.row[s]]
                                           ELSE st.contrib[s]]
      /\ new.msgs = msgs
      /\ new.count = [s \in Sessions |-> IF s \in carried \/ s \in Present(st)
                                         THEN Recounted(msgs, s) ELSE st.count[s]]
  BY DEF CarriedForward, Stores
<1>2. /\ Legacy \in Contributors /\ Legacy \notin Sources /\ Sources \subseteq Contributors
      /\ st.contrib \in [Sessions -> [Contributors -> OnlyCopy]]
  BY StoreAssumption, StoreFields DEF Contributors
<1> HIDE DEF new, msgs
<1>3. Present(new) = Present(st) \cup Present(prev)
  BY <1>1 DEF Present
<1>4. ASSUME NEW s \in carried
      PROVE  /\ s \in Sessions /\ Claimed(new.contrib, s)
             /\ \A d \in Sources : new.contrib[s][d] = Absent
  <2>1. s \in Sessions /\ s \notin Present(st) /\ prev.row[s] # Absent
    BY DEF Present
  <2>2. new.contrib[s] = [st.contrib[s] EXCEPT ![Legacy] = prev.row[s]]
    BY <1>1, <2>1
  <2>3. ~Claimed(st.contrib, s)
    BY <2>1 DEF Backed, Union
  <2> QED
    BY <1>2, <2>1, <2>2, <2>3 DEF Claimed
<1>5. ASSUME NEW s \in Sessions \ carried
      PROVE  new.contrib[s] = st.contrib[s] /\ new.row[s] = st.row[s]
  BY <1>1
<1>6. Backed(new)
  <2>1. ASSUME NEW s \in Sessions
        PROVE  /\ Claimed(new.contrib, s) <=> s \in Present(new)
               /\ (\E d \in Sources : new.contrib[s][d] = Live) => new.row[s] = Live
    <3>1. CASE s \in carried
      BY <1>3, <1>4, <3>1 DEF Live, Absent
    <3>2. CASE s \notin carried
      <4>1. new.contrib[s] = st.contrib[s] /\ new.row[s] = st.row[s]
        BY <1>5, <3>2
      <4>2. s \in Present(new) <=> s \in Present(st)
        BY <1>3, <3>2
      <4> QED
        BY <4>1, <4>2 DEF Backed, Union, Claimed
    <3> QED
      BY <3>1, <3>2
  <2>2. Present(new) \subseteq Sessions
    BY DEF Present
  <2> QED
    BY <2>1, <2>2 DEF Backed, Union
<1>7. Zeroed(new)
  BY <1>1, <1>3 DEF Zeroed
<1>8. \A s \in Sessions : HonestIn(new, s)
  BY <1>1, <1>3 DEF HonestIn
<1> QED
  BY <1>3, <1>6, <1>7, <1>8 DEF new

LEMMA PrunedKeeps ==
  ASSUME NEW st \in Stores, NEW gone \in SUBSET Sessions, Backed(st), Zeroed(st)
  PROVE  LET new == TombstonesPruned(st, gone) IN
         /\ Backed(new) /\ Zeroed(new)
         /\ \A s \in Present(st) : s \in Present(new) \/ s \in Doomed(st, gone)
         /\ \A s \in Sessions : HonestIn(st, s) => HonestIn(new, s)
         /\ \A s \in Sessions : s \in Doomed(st, gone) \/ new.contrib[s] = st.contrib[s]
<1> DEFINE new == TombstonesPruned(st, gone)
           doomed == Doomed(st, gone)
<1>1. /\ new.contrib = [s \in Sessions |-> IF s \in doomed THEN [c \in Contributors |-> Absent]
                                           ELSE st.contrib[s]]
      /\ new.row = [s \in Sessions |-> IF s \in doomed THEN Absent ELSE st.row[s]]
      /\ new.count = [s \in Sessions |-> IF s \in doomed THEN 0 ELSE st.count[s]]
      /\ new.msgs = {x \in st.msgs : x[1] \notin doomed}
  BY DEF TombstonesPruned, Stores
<1> HIDE DEF new, doomed
<1>2. Present(new) = Present(st) \ doomed
  BY <1>1 DEF Present
<1>3. Sources \subseteq Contributors
  BY DEF Contributors
<1>4. ASSUME NEW s \in Sessions
      PROVE  /\ Claimed(new.contrib, s) <=> s \in Present(new)
             /\ (\E d \in Sources : new.contrib[s][d] = Live) => new.row[s] = Live
  <2>1. CASE s \in doomed
    BY <1>1, <1>2, <1>3, <2>1 DEF Claimed, Live, Absent
  <2>2. CASE s \notin doomed
    BY <1>1, <1>2, <2>2 DEF Claimed, Backed, Union
  <2> QED
    BY <2>1, <2>2
<1>5. Backed(new)
  <2>1. Present(new) \subseteq Sessions
    BY DEF Present
  <2> QED
    BY <1>4, <2>1 DEF Backed, Union
<1>6. Zeroed(new)
  BY <1>1, <1>2 DEF Zeroed
<1>7. ASSUME NEW s \in Sessions, HonestIn(st, s), s \in Present(new)
      PROVE  new.count[s] = Recounted(new.msgs, s)
  <2>1. s \notin doomed /\ s \in Present(st)
    BY <1>2, <1>7
  <2>2. Recounted(new.msgs, s) = Recounted(st.msgs, s)
    BY <1>1, <2>1, SameStored
  <2> QED
    BY <1>1, <1>7, <2>1, <2>2 DEF HonestIn
<1> QED
  BY <1>1, <1>2, <1>5, <1>6, <1>7 DEF new, doomed, HonestIn

(* The fold: what it takes out, no other contributor has, and it restates   *)
(* the count of each session whose messages it changes.                     *)
LEMMA FoldedKeeps ==
  ASSUME NEW st \in Stores, NEW d \in Sources, NEW db \in FiniteDBs, NEW mk \in Mark,
         Backed(st), Zeroed(st), Numbered(db)
  PROVE  LET new == Folded(st, d, db, mk) IN
         /\ Backed(new) /\ Zeroed(new)
         /\ \A s \in Present(st) : \/ s \in Present(new)
                                   \/ ~Has(db, s) /\ \A c \in Contributors \ {d} : st.contrib[s][c] = Absent
         /\ \A s \in Sessions, c \in Contributors \ {d} : new.contrib[s][c] = st.contrib[s][c]
         /\ \A s \in Sessions :
              HonestIn(st, s) /\ (s \in Present(st) \/ Stored(st.msgs, s) = {}) => HonestIn(new, s)
<1> DEFINE new == Folded(st, d, db, mk)
           incr == IsIncrementalAppend(st.mark[d], mk)
           recount == Recountable(st.mark[d], mk, db)
           incoming == Incoming(st.mark[d], mk, db)
           contrib == Contributed(st.contrib, d, db)
           offered == {s \in Sessions : Has(db, s)}
           gone == {s \in Sessions : st.contrib[s][d] # Absent /\ ~Has(db, s)}
           orphaned == {s \in gone : ~Claimed(contrib, s)}
           landed == st.msgs \cup {<<m.s, m.u>> : m \in incoming}
           msgs == IF incr THEN landed ELSE {x \in landed : x[1] \notin orphaned}
<1>1. /\ new.contrib = contrib
      /\ new.row = [s \in Sessions |-> IF s \in offered \cup gone THEN Merged(contrib[s]) ELSE st.row[s]]
      /\ new.msgs = msgs
      /\ new.count = [s \in Sessions |-> IF s \in orphaned THEN 0
                                         ELSE IF s \in recount THEN Recounted(msgs, s) ELSE st.count[s]]
  BY DEF Folded, Stores
<1>2. /\ d \in Contributors /\ Sources \subseteq Contributors
      /\ st.contrib \in [Sessions -> [Contributors -> OnlyCopy]]
      /\ db.sess \in [Sessions -> OnlyCopy]
  BY StoreFields DEF Contributors, FiniteDBs, SourceDBs
<1>3. /\ contrib \in [Sessions -> [Contributors -> OnlyCopy]]
      /\ \A s \in Sessions : contrib[s][d] = db.sess[s]
      /\ \A s \in Sessions, c \in Contributors \ {d} : contrib[s][c] = st.contrib[s][c]
  BY <1>2 DEF Contributed
<1>4. \A m \in incoming : m \in db.msgs /\ m.s \in offered
  <2>1. \A m \in db.msgs : m.s \in Sessions /\ Has(db, m.s)
    BY DEF FiniteDBs, SourceDBs, Message, Numbered
  <2> QED
    BY <2>1 DEF Incoming
<1>5. \A m \in incoming : m.s \in recount
  BY <1>4 DEF Recountable
<1>6. recount \subseteq offered
  <2>1. recount \in {offered, {m.s : m \in incoming}}
    BY DEF Recountable
  <2> HIDE DEF recount, incoming, offered
  <2> QED
    BY <1>4, <2>1
<1> HIDE DEF new, contrib, recount, incoming, incr
(* A session that is offered or given up: its row is derived.               *)
<1>7. ASSUME NEW s \in offered \cup gone
      PROVE  /\ s \in Sessions /\ new.row[s] = Merged(contrib[s])
             /\ new.row[s] = Absent <=> ~Claimed(contrib, s)
             /\ (\E e \in Sources : contrib[s][e] = Live) => new.row[s] = Live
  <2>1. s \in Sessions /\ new.row[s] = Merged(contrib[s]) /\ contrib[s] \in [Contributors -> OnlyCopy]
    BY <1>1, <1>3
  <2> QED
    BY <1>2, <2>1, MergedIs DEF Claimed
(* Any other: it keeps its row and its contributions.                       *)
<1>8. ASSUME NEW s \in Sessions, s \notin offered \cup gone
      PROVE  /\ new.row[s] = st.row[s]
             /\ \A c \in Contributors : contrib[s][c] = st.contrib[s][c]
  BY <1>1, <1>2, <1>3, <1>8 DEF Has
<1>9. ASSUME NEW s \in Sessions
      PROVE  /\ Claimed(contrib, s) <=> s \in Present(new)
             /\ (\E e \in Sources : contrib[s][e] = Live) => new.row[s] = Live
  <2>1. CASE s \in offered \cup gone
    BY <1>7, <2>1 DEF Present
  <2>2. CASE s \notin offered \cup gone
    <3>1. Claimed(contrib, s) <=> Claimed(st.contrib, s)
      BY <1>8, <2>2 DEF Claimed
    <3>2. s \in Present(new) <=> s \in Present(st)
      BY <1>8, <2>2 DEF Present
    <3> QED
      BY <1>2, <1>8, <2>2, <3>1, <3>2 DEF Backed, Union
  <2> QED
    BY <2>1, <2>2
<1>10. Backed(new)
  <2>1. Present(new) \subseteq Sessions
    BY DEF Present
  <2> QED
    BY <1>1, <1>9, <2>1 DEF Backed, Union
<1>11. ASSUME NEW s \in Sessions, s \notin Present(new)
       PROVE  new.count[s] = 0 /\ (s \in orphaned \/ s \notin Present(st))
  <2>1. ~Claimed(contrib, s)
    BY <1>9, <1>11
  <2>2. s \notin offered
    BY <1>2, <1>3, <2>1 DEF Claimed, Has
  <2>3. CASE s \in gone
    BY <1>1, <2>1, <2>3
  <2>4. CASE s \notin gone
    <3>1. s \notin Present(st)
      BY <1>8, <1>11, <2>2, <2>4 DEF Present
    <3> QED
      BY <1>1, <1>6, <2>2, <2>4, <3>1 DEF Zeroed
  <2> QED
    BY <2>3, <2>4
<1>12. Zeroed(new)
  BY <1>11 DEF Zeroed
<1>13. ASSUME NEW s \in Present(st), s \notin Present(new)
       PROVE  ~Has(db, s) /\ \A c \in Contributors \ {d} : st.contrib[s][c] = Absent
  <2>1. s \in Sessions /\ s \in orphaned
    BY <1>11, <1>13 DEF Present
  <2> QED
    BY <1>3, <2>1 DEF Claimed
<1>14. ASSUME NEW s \in Sessions, HonestIn(st, s), s \in Present(st) \/ Stored(st.msgs, s) = {},
              s \in Present(new)
       PROVE  new.count[s] = Recounted(new.msgs, s)
  <2>1. s \notin orphaned
    BY <1>9, <1>14
  <2>2. CASE s \in recount
    BY <1>1, <2>1, <2>2
  <2>3. CASE s \notin recount
    <3>1. \A x : x[1] = s => (x \in msgs <=> x \in st.msgs)
      BY <1>5, <2>1, <2>3
    <3>2. Recounted(msgs, s) = Recounted(st.msgs, s)
      <4> HIDE DEF msgs
      <4> QED
        BY <3>1, SameStored
    <3>3. st.count[s] = Recounted(st.msgs, s)
      <4>1. CASE s \in Present(st)
        BY <1>14, <4>1 DEF HonestIn
      <4>2. CASE s \notin Present(st)
        <5>1. st.count[s] = 0 /\ Stored(st.msgs, s) = {}
          BY <1>14, <4>2 DEF Zeroed
        <5> QED
          BY <5>1, FS_EmptySet DEF Recounted
      <4> QED
        BY <4>1, <4>2
    <3> QED
      BY <1>1, <2>1, <2>3, <3>2, <3>3
  <2> QED
    BY <2>2, <2>3
<1> QED
  BY <1>1, <1>3, <1>10, <1>12, <1>13, <1>14 DEF new, HonestIn

-----------------------------------------------------------------------------
(* The invariant, step by step. *)

LEMMA OldStoreKeeps ==
  ASSUME src \in [Sources -> FiniteDBs], \A d \in Sources : Numbered(src[d])
  PROVE  Union(OldStore(src)) /\ Zeroed(OldStore(src))
<1> DEFINE st == OldStore(src)
           owned(s) == {d \in Sources : Has(src[d], s)}
           texts(s) == {m.u : m \in UNION {MessagesOf(src[d], s) : d \in Sources}}
<1>1. /\ st.contrib = EmptyStore.contrib
      /\ st.row = [s \in Sessions |-> IF owned(s) # {} THEN Live ELSE Absent]
      /\ st.count = [s \in Sessions |-> Cardinality(texts(s))]
  BY DEF OldStore, EmptyStore
<1> HIDE DEF st
<1>2. /\ \A s \in Sessions : ~Claimed(st.contrib, s)
      /\ \A s \in Sessions, d \in Sources : st.contrib[s][d] = Absent
  BY <1>1 DEF Claimed, EmptyStore, Contributors
<1>3. Union(st)
  BY <1>2 DEF Union, Live, Absent
<1>4. ASSUME NEW s \in Sessions, s \notin Present(st) PROVE st.count[s] = 0
  <2>1. owned(s) = {}
    BY <1>1, <1>4 DEF Present, Live, Absent
  <2>2. \A d \in Sources : MessagesOf(src[d], s) = {}
    BY <2>1 DEF MessagesOf, Numbered
  <2>3. texts(s) = {}
    BY <2>2
  <2> QED
    BY <1>1, <2>3, FS_EmptySet
<1> QED
  BY <1>3, <1>4 DEF st, Zeroed

LEMMA KeptInit == Init => Kept
<1> SUFFICES ASSUME Init PROVE Kept
  OBVIOUS
<1>1. src \in [Sources -> FiniteDBs] /\ \A d \in Sources : Numbered(src[d])
  BY InvInit DEF Inv, Typed, WatermarksVouch
<1>2. live \in {EmptyStore, OldStore(src)} /\ build = EmptyStore /\ job = Idle
  BY DEF Init, Begin, Fresh, Upgraded
<1>3. Union(EmptyStore) /\ Zeroed(EmptyStore)
  BY EmptyStoreKeeps DEF Backed
<1>4. Union(live) /\ Zeroed(live)
  BY <1>1, <1>2, <1>3, OldStoreKeeps
<1> QED
  BY <1>2, <1>3, <1>4 DEF Kept, Idle

(* A step that leaves the stores and the pass alone: deletes are for good.  *)
LEMMA KeptOutside ==
  ASSUME Kept, UNCHANGED <<live, build, job>>, tombs \subseteq tombs'
  PROVE  Kept'
<1>1. \A s \in Sessions : Deleted(s) => Deleted(s)'
  BY DEF Deleted
<1>2. Work' = Work
  BY DEF Work
<1>3. Present(live) \subseteq Sessions
  BY DEF Present
<1> QED
  BY <1>1, <1>2, <1>3 DEF Kept

LEMMA KeptInside ==
  ASSUME UNCHANGED outside, Union(live'), Zeroed(live'), Union(build'), Zeroed(build'),
         job'.pc \in {"carry", "swap"} => job'.kind = "rebuild",
         job'.pc \notin {"idle", "heal", "migrate"} =>
             IF job'.kind = "rebuild" THEN Backed(build') ELSE Backed(live'),
         job'.kind = "rebuild" /\ job'.pc \in {"prune", "swap"} =>
             /\ \A s \in Present(live') : s \in Present(build') \/ Deleted(s)
             /\ \A s \in Sessions : HonestIn(build', s)
  PROVE  Kept'
<1>1. \A s : Deleted(s)' <=> Deleted(s)
  BY DEF outside, Deleted
<1>2. job'.pc \notin {"idle", "heal", "migrate"} => Backed(Work')
  BY DEF Work
<1> QED
  BY <1>1, <1>2 DEF Kept

LEMMA CommitKept ==
  ASSUME Kept, NEW st, Union(st), Zeroed(st), Commit(st), UNCHANGED outside, job'.kind = job.kind,
         job'.pc \notin {"idle", "heal", "migrate"} => Backed(st),
         job.kind = "rebuild" => job'.pc \notin {"prune", "swap"},
         job.kind # "rebuild" => job'.pc \notin {"carry", "swap"}
  PROVE  Kept'
<1>1. CASE job.kind = "rebuild"
  <2>1. build' = st /\ live' = live
    BY <1>1 DEF Commit
  <2> QED
    BY <1>1, <2>1, KeptInside DEF Kept
<1>2. CASE job.kind # "rebuild"
  <2>1. live' = st /\ build' = build
    BY <1>2 DEF Commit
  <2> QED
    BY <1>2, <2>1, KeptInside DEF Kept
<1> QED
  BY <1>1, <1>2

LEMMA DoomedAreDeleted ==
  ASSUME NEW st, NEW s \in Doomed(st, tombs)
  PROVE  Deleted(s)
BY DEF Doomed, Deleted

LEMMA KeptPassStep == Inv /\ Kept /\ PassStep => Kept'
<1> SUFFICES ASSUME Inv, Kept, PassStep PROVE Kept'
  OBVIOUS
<1>1. /\ live \in Stores /\ build \in Stores /\ Work \in Stores /\ job \in Jobs
      /\ src \in [Sources -> FiniteDBs] /\ tombs \in SUBSET Sessions
      /\ \A d \in Sources : Numbered(src[d])
  BY DEF Inv, Typed, TypeOK, Work, WatermarksVouch
<1>2. /\ Union(live) /\ Zeroed(live) /\ Union(build) /\ Zeroed(build)
      /\ Union(Work) /\ Zeroed(Work)
      /\ job.pc \notin {"idle", "heal", "migrate"} => Backed(Work)
  BY DEF Kept, Work
<1>3. ASSUME NEW kind \in {"sync", "full", "rebuild"}, NEW todo \in SUBSET Sources,
             Start(kind, todo), build' = build \/ build' = EmptyStore
      PROVE  Kept'
  <2>1. Union(build') /\ Zeroed(build')
    BY <1>2, <1>3, EmptyStoreKeeps DEF Backed
  <2>2. job'.pc = "heal" /\ live' = live /\ UNCHANGED outside
    BY <1>3 DEF Start, Idle
  <2> QED
    BY <1>2, <2>1, <2>2, KeptInside
<1>4. CASE StartFull
  BY <1>3, <1>4 DEF StartFull
<1>5. CASE StartRebuild
  BY <1>3, <1>5 DEF StartRebuild
<1>6. ASSUME NEW d \in Sources, StartSync(d) PROVE Kept'
  BY <1>3, <1>6 DEF StartSync
<1>7. CASE Heal
  <2>1. ~Work.behind
    BY DEF Inv, WatermarksVouch, MarksFit, Work
  <2>2. Commit(Healed(Work)) /\ Union(Healed(Work)) /\ Zeroed(Healed(Work))
    BY <1>1, <1>2, <1>7, <2>1, OpenedKeeps DEF Heal
  <2>3. job'.kind = job.kind /\ job'.pc = "migrate" /\ UNCHANGED outside
    BY <1>1, <1>7 DEF Heal, Goto, Jobs
  <2> QED
    BY <2>2, <2>3, CommitKept
<1>8. CASE Migrate
  <2> DEFINE st == IF job.kind = "rebuild" THEN TagsRestored(build, live) ELSE live
  <2>1. st \in Stores
    BY <1>1, OpenedType
  <2>2. Union(st) /\ Zeroed(st)
    BY <1>1, <1>2, OpenedKeeps
  <2>3. Commit(Migrated(st))
    BY <1>8 DEF Migrate
  <2> HIDE DEF st
  <2>4. Backed(Migrated(st)) /\ Union(Migrated(st)) /\ Zeroed(Migrated(st))
    BY <2>1, <2>2, MigratedKeeps DEF Backed
  <2>5. job'.kind = job.kind /\ job'.pc = "fold" /\ UNCHANGED outside
    BY <1>1, <1>8 DEF Migrate, Goto, Jobs
  <2> QED
    BY <2>3, <2>4, <2>5, CommitKept
<1>9. ASSUME NEW d \in Sources, SkipBehind(d) \/ SkipUnchanged(d) PROVE Kept'
  <2>1. PICK tooOld \in BOOLEAN : PassOver(d, tooOld) /\ job.pc = "fold"
    BY <1>9 DEF SkipBehind, SkipUnchanged
  <2>2. /\ UNCHANGED <<outside, live, build>>
        /\ job' = Idle \/ (job'.pc = "fold" /\ job'.kind = job.kind)
    BY <1>1, <2>1 DEF PassOver, Jobs
  <2>3. CASE job' = Idle
    BY <1>2, <2>2, <2>3, KeptInside DEF Idle
  <2>4. CASE job'.pc = "fold" /\ job'.kind = job.kind
    BY <1>2, <2>1, <2>2, <2>4, KeptInside DEF Work
  <2> QED
    BY <2>2, <2>3, <2>4
<1>10. ASSUME NEW d \in Sources, ReadMark(d) PROVE Kept'
  <2>1. /\ UNCHANGED <<outside, live, build>> /\ job.pc = "fold"
        /\ job'.kind = job.kind /\ job'.pc = "tx"
    BY <1>1, <1>10 DEF ReadMark, Jobs
  <2> QED
    BY <1>2, <2>1, KeptInside DEF Work
<1>11. CASE FoldTx
  <2> DEFINE st == Folded(Work, job.d, src[job.d], job.mk)
  <2>1. /\ job.pc = "tx" /\ job.d \in Sources /\ job.mk \in Mark /\ Commit(st)
    BY <1>1, <1>11 DEF FoldTx, Inv, Typed
  <2>2. Backed(st) /\ Zeroed(st)
    BY <1>1, <1>2, <2>1, FoldedKeeps
  <2> HIDE DEF st
  <2>3. /\ job'.kind = job.kind /\ UNCHANGED outside
        /\ job'.pc = "fold" \/ (job'.pc = "prune" /\ job.kind # "rebuild")
    BY <1>1, <1>11 DEF FoldTx, Jobs
  <2> QED
    BY <2>1, <2>2, <2>3, CommitKept DEF Backed
<1>12. CASE EndFolds
  <2> DEFINE st == IF job.skipped THEN Work ELSE LegacyPruned(Work)
  <2>1. Commit(st) /\ job.pc = "fold"
    BY <1>12 DEF EndFolds
  <2>2. Backed(st) /\ Zeroed(st)
    BY <1>1, <1>2, <2>1, FinishedKeeps
  <2> HIDE DEF st
  <2>3. /\ job'.kind = job.kind /\ UNCHANGED outside
        /\ job'.pc = IF job.kind = "rebuild" THEN "carry" ELSE "prune"
    BY <1>1, <1>12 DEF EndFolds, Goto, Jobs
  <2> QED
    BY <2>1, <2>2, <2>3, CommitKept DEF Backed
<1>13. CASE Carry
  <2>1. /\ build' = CarriedForward(build, live) /\ live' = live /\ UNCHANGED outside
        /\ job'.kind = job.kind /\ job'.pc = "prune" /\ job.pc = "carry"
    BY <1>1, <1>13 DEF Carry, Goto, Jobs
  <2>2. job.kind = "rebuild" /\ Backed(build)
    BY <1>2, <2>1 DEF Kept, Work
  <2>3. /\ Backed(build') /\ Union(build') /\ Zeroed(build') /\ Present(live) \subseteq Present(build')
        /\ \A s \in Sessions : HonestIn(build', s)
    BY <1>1, <1>2, <2>1, <2>2, CarriedKeeps DEF Backed
  <2> QED
    BY <1>2, <2>1, <2>2, <2>3, KeptInside
<1>14. CASE Prune
  <2> DEFINE st == TombstonesPruned(Work, tombs)
  <2>1. Commit(st) /\ job.pc = "prune" /\ UNCHANGED outside
    BY <1>14 DEF Prune
  <2>2. /\ Backed(st) /\ Zeroed(st)
        /\ \A s \in Present(Work) : s \in Present(st) \/ s \in Doomed(Work, tombs)
        /\ \A s \in Sessions : HonestIn(Work, s) => HonestIn(st, s)
    BY <1>1, <1>2, <2>1, PrunedKeeps
  <2> HIDE DEF st
  <2>3. CASE job.kind = "rebuild"
    <3>1. /\ build' = st /\ live' = live /\ Work = build
          /\ job'.kind = job.kind /\ job'.pc = "swap"
      BY <1>1, <1>14, <2>1, <2>3 DEF Commit, Prune, AfterPrune, Work, Jobs
    <3>2. \A s \in Present(live') : s \in Present(build') \/ Deleted(s)
      BY <2>1, <2>2, <2>3, <3>1, DoomedAreDeleted DEF Kept
    <3>3. \A s \in Sessions : HonestIn(build', s)
      BY <2>1, <2>2, <2>3, <3>1 DEF Kept
    <3> QED
      BY <1>2, <2>1, <2>2, <2>3, <3>1, <3>2, <3>3, KeptInside DEF Backed
  <2>4. CASE job.kind # "rebuild"
    <3>1. live' = st /\ build' = build /\ job'.pc = "idle" /\ job'.kind = "none"
      BY <1>14, <2>1, <2>4 DEF Commit, Prune, AfterPrune, Idle
    <3> QED
      BY <1>2, <2>1, <2>2, <3>1, KeptInside DEF Backed
  <2> QED
    BY <2>3, <2>4
<1>15. CASE Swap
  <2>1. live' = build /\ build' = EmptyStore /\ job'.pc = "idle" /\ UNCHANGED outside
    BY <1>15 DEF Swap, Idle
  <2>2. Union(EmptyStore) /\ Zeroed(EmptyStore) /\ job'.kind = "none"
    BY <1>15, EmptyStoreKeeps DEF Backed, Swap, Idle
  <2> QED
    BY <1>2, <2>1, <2>2, KeptInside
<1> QED
  BY <1>4, <1>5, <1>6, <1>7, <1>8, <1>9, <1>10, <1>11, <1>12, <1>13, <1>14, <1>15 DEF PassStep

LEMMA KeptFaultStep == Inv /\ Kept /\ FaultStep => Kept'
<1> SUFFICES ASSUME Inv, Kept, FaultStep PROVE Kept'
  OBVIOUS
<1>1. job \in Jobs
  BY DEF Inv, Typed, TypeOK
<1>2. CASE PruneUnreadable /\ job.kind = "rebuild"
  <2>1. /\ UNCHANGED <<outside, live, build>> /\ job.pc = "prune"
        /\ job'.kind = "rebuild" /\ job'.pc = "swap"
    BY <1>1, <1>2 DEF PruneUnreadable, AfterPrune, Jobs
  <2> QED
    BY <1>2, <2>1, KeptInside DEF Kept, Work
<1>3. CASE Fail \/ Kill \/ (PruneUnreadable /\ job.kind # "rebuild")
  <2>1. /\ UNCHANGED <<outside, live>> /\ build' \in {build, EmptyStore}
        /\ job'.pc = "idle" /\ job'.kind = "none"
    BY <1>3 DEF Fail, Kill, PruneUnreadable, AfterPrune, Idle
  <2>2. Union(EmptyStore) /\ Zeroed(EmptyStore)
    BY EmptyStoreKeeps DEF Backed
  <2>3. Union(build') /\ Zeroed(build')
    BY <2>1, <2>2 DEF Kept
  <2> QED
    BY <2>1, <2>3, KeptInside DEF Kept
<1> QED
  BY <1>2, <1>3 DEF FaultStep

(* What the processes outside the passes leave alone.                       *)
LEMMA OutsideStep ==
  ASSUME SourceStep
  PROVE  UNCHANGED <<live, build, job>> /\ tombs \subseteq tombs'
BY DEF SourceStep, Delete, StartIndex, SrcReindex, SrcAppend, SrcStamp, SrcClear,
       SrcPruneMessages, SrcPruneRow, SrcTag, SrcJudge, Writes

LEMMA KeptStep == Inv /\ Kept /\ [Next]_vars => Kept'
<1>1. ASSUME Kept, UNCHANGED vars PROVE Kept'
  BY <1>1, KeptOutside DEF vars
<1>2. ASSUME Kept, SourceStep PROVE Kept'
  BY <1>2, OutsideStep, KeptOutside
<1> QED
  BY <1>1, <1>2, KeptPassStep, KeptFaultStep DEF Next

LEMMA StoreKept == Spec => [](Inv /\ Kept)
BY InvInit, KeptInit, InvStep, KeptStep, PTL DEF Spec

(* The store has the sessions its contributions name and no other, and      *)
(* shows as live what any project still has.                                *)
THEOREM StoreIsTheUnion == Spec => []SessionsAreTheUnion
<1>1. Kept => SessionsAreTheUnion
  BY DEF Kept, Union, SessionsAreTheUnion
<1> QED
  BY <1>1, StoreKept, PTL

-----------------------------------------------------------------------------
(* What a step does to the live store. *)

(* It keeps its sessions and their messages; or it loses deleted ones; or   *)
(* it takes a source in; or it is replaced.                                 *)
LEMMA LiveStep ==
  ASSUME Inv, Kept, [Next]_vars
  PROVE  \/ Present(live') = Present(live) /\ live'.count = live.count /\ live'.msgs = live.msgs
         \/ Backed(live) /\ Zeroed(live) /\ live' = TombstonesPruned(live, tombs)
         \/ /\ Backed(live) /\ Zeroed(live) /\ job.pc = "tx" /\ job.kind # "rebuild"
            /\ job.d \in Sources /\ job.mk \in Mark
            /\ live' = Folded(live, job.d, src[job.d], job.mk)
         \/ /\ live' = build /\ \A s \in Present(live) : s \in Present(build) \/ Deleted(s)
            /\ \A s \in Sessions : HonestIn(build, s)
<1> DEFINE Quiet == Present(live') = Present(live) /\ live'.count = live.count /\ live'.msgs = live.msgs
<1>1. /\ live \in Stores /\ build \in Stores /\ job \in Jobs
      /\ Union(live) /\ Zeroed(live)
      /\ job.pc \notin {"idle", "heal", "migrate"} /\ job.kind # "rebuild" => Backed(live)
  BY DEF Inv, Typed, TypeOK, Kept, Work
<1>2. CASE UNCHANGED live
  BY <1>2
<1>3. CASE UNCHANGED vars \/ SourceStep \/ FaultStep
  <2>1. UNCHANGED live
    BY <1>3, OutsideStep DEF vars, FaultStep, PruneUnreadable, Fail, Kill
  <2> QED
    BY <2>1
<1>4. CASE Heal
  <2>1. CASE job.kind = "rebuild"
    BY <1>2, <1>4, <2>1 DEF Heal, Commit
  <2>2. CASE job.kind # "rebuild"
    <3>1. live' = Healed(live)
      BY <1>4, <2>2 DEF Heal, Commit, Work, Inv, WatermarksVouch, MarksFit
    <3>2. Quiet
      BY <1>1, <3>1, OpenedKeeps
    <3> QED
      BY <3>2
  <2> QED
    BY <2>1, <2>2
<1>5. CASE Migrate
  <2>1. CASE job.kind = "rebuild"
    BY <1>2, <1>5, <2>1 DEF Migrate, Commit
  <2>2. CASE job.kind # "rebuild"
    <3>1. live' = Migrated(live)
      BY <1>5, <2>2 DEF Migrate, Commit
    <3>2. Quiet
      BY <1>1, <3>1, MigratedKeeps
    <3> QED
      BY <3>2
  <2> QED
    BY <2>1, <2>2
<1>6. CASE EndFolds
  <2>1. CASE job.kind = "rebuild"
    BY <1>2, <1>6, <2>1 DEF EndFolds, Commit
  <2>2. CASE job.kind # "rebuild"
    <3>1. live' = live \/ live' = LegacyPruned(live)
      BY <1>6, <2>2 DEF EndFolds, Commit, Work
    <3>2. Backed(live)
      BY <1>1, <1>6, <2>2 DEF EndFolds
    <3>3. Quiet
      BY <1>1, <3>1, <3>2, FinishedKeeps
    <3> QED
      BY <3>3
  <2> QED
    BY <2>1, <2>2
<1>7. CASE FoldTx
  <2>1. CASE job.kind = "rebuild"
    BY <1>2, <1>7, <2>1 DEF FoldTx, Commit
  <2>2. CASE job.kind # "rebuild"
    <3>1. /\ job.pc = "tx" /\ live' = Folded(live, job.d, src[job.d], job.mk)
          /\ job.d \in Sources /\ job.mk \in Mark
      BY <1>7, <2>2 DEF FoldTx, Commit, Work, Inv, Typed
    <3> QED
      BY <1>1, <2>2, <3>1
  <2> QED
    BY <2>1, <2>2
<1>8. CASE Prune
  <2>1. CASE job.kind = "rebuild"
    BY <1>2, <1>8, <2>1 DEF Prune, Commit
  <2>2. CASE job.kind # "rebuild"
    BY <1>1, <1>8, <2>2 DEF Prune, Commit, Work
  <2> QED
    BY <2>1, <2>2
<1>9. CASE Swap
  <2>1. live' = build /\ job.pc = "swap"
    BY <1>9 DEF Swap
  <2>2. job.kind = "rebuild"
    BY <2>1 DEF Kept
  <2> QED
    BY <2>1, <2>2 DEF Kept
<1>10. CASE StartFull \/ StartRebuild \/ Carry
            \/ \E d \in Sources : StartSync(d) \/ SkipBehind(d) \/ SkipUnchanged(d) \/ ReadMark(d)
  <2>1. UNCHANGED live
    BY <1>10 DEF StartFull, StartRebuild, Carry, StartSync, Start, SkipBehind, SkipUnchanged,
                 PassOver, ReadMark
  <2> QED
    BY <2>1
<1> QED
  BY <1>3, <1>4, <1>5, <1>6, <1>7, <1>8, <1>9, <1>10 DEF Next, PassStep

(* A session leaves the store only by a user delete, or when a fold finds   *)
(* that its last contributor has dropped it: not because a pass failed, was *)
(* killed or skipped a source, nor because a rebuild replaced the store.    *)
THEOREM HistoryStays == Spec => HistoryIsKept
<1>1. Inv /\ Kept /\ [Next]_vars =>
        [\A s \in Lost : Deleted(s) \/ \E d \in Sources : LastContributor(s, d)]_vars
  <2> SUFFICES ASSUME Inv, Kept, [Next]_vars, NEW s \in Lost
               PROVE  Deleted(s) \/ \E d \in Sources : LastContributor(s, d)
    OBVIOUS
  <2>1. s \in Present(live) /\ s \notin Present(live')
    BY DEF Lost
  <2>2. /\ live \in Stores /\ src \in [Sources -> FiniteDBs] /\ tombs \in SUBSET Sessions
        /\ \A d \in Sources : Numbered(src[d])
    BY DEF Inv, Typed, TypeOK, WatermarksVouch
  <2>3. CASE Backed(live) /\ Zeroed(live) /\ live' = TombstonesPruned(live, tombs)
    BY <2>1, <2>2, <2>3, PrunedKeeps, DoomedAreDeleted
  <2>4. CASE /\ Backed(live) /\ Zeroed(live) /\ job.pc = "tx" /\ job.kind # "rebuild"
             /\ job.d \in Sources /\ job.mk \in Mark
             /\ live' = Folded(live, job.d, src[job.d], job.mk)
    <3>1. ~Has(src[job.d], s) /\ \A c \in Contributors \ {job.d} : live.contrib[s][c] = Absent
      BY <2>1, <2>2, <2>4, FoldedKeeps
    <3> QED
      BY <2>4, <3>1 DEF LastContributor
  <2> QED
    BY <2>1, <2>3, <2>4, LiveStep
<1> QED
  BY <1>1, StoreKept, PTL DEF Spec, HistoryIsKept

(* The count a session shows is that of its messages, and stays so.         *)
THEOREM CountsAreHonest == Spec => CountsStayHonest
<1>1. Inv /\ Kept /\ [Next]_vars =>
        [\A s \in Sessions : /\ Honest(s)
                             /\ s \in Present(live) \/ Stored(live.msgs, s) = {}
                             => Honest(s)']_vars
  <2> SUFFICES ASSUME Inv, Kept, [Next]_vars, NEW s \in Sessions, HonestIn(live, s),
                      s \in Present(live) \/ Stored(live.msgs, s) = {}
               PROVE  HonestIn(live', s)
    BY DEF Honest, HonestIn
  <2>1. /\ live \in Stores /\ src \in [Sources -> FiniteDBs] /\ tombs \in SUBSET Sessions
        /\ \A d \in Sources : Numbered(src[d])
    BY DEF Inv, Typed, TypeOK, WatermarksVouch
  <2>2. CASE Present(live') = Present(live) /\ live'.count = live.count /\ live'.msgs = live.msgs
    BY <2>2 DEF HonestIn
  <2>3. CASE Backed(live) /\ Zeroed(live) /\ live' = TombstonesPruned(live, tombs)
    BY <2>1, <2>3, PrunedKeeps
  <2>4. CASE /\ Backed(live) /\ Zeroed(live) /\ job.d \in Sources /\ job.mk \in Mark
             /\ live' = Folded(live, job.d, src[job.d], job.mk)
    BY <2>1, <2>4, FoldedKeeps
  <2>5. CASE live' = build /\ \A r \in Sessions : HonestIn(build, r)
    BY <2>5
  <2> QED
    BY <2>2, <2>3, <2>4, <2>5, LiveStep
<1> QED
  BY <1>1, StoreKept, PTL DEF Spec, CountsStayHonest

-----------------------------------------------------------------------------
(* Sources that are skipped.  A rebuild forgets the baseline of '' (the run *)
(* store_rebuild_skip shows what that loses); what follows is about a store *)
(* that is synced and consolidated, and not rebuilt.                        *)

(* What a database too old to read holds has a baseline in the store, which *)
(* no full pass that skipped a source may drop.                             *)
Baseline ==
  /\ job.kind # "rebuild" /\ (job.kind = "none" => job.pc = "idle")
  /\ \A e \in Sources, s \in Sessions : src[e].behind /\ Has(src[e], s) =>
       \/ Deleted(s)
       \/ /\ s \in Present(live)
          /\ live.contrib[s][Legacy] # Absent \/ ~Claimed(live.contrib, s)
  /\ job.kind = "full" /\ job.pc \in {"heal", "migrate"} => job.todo = Sources
  /\ job.kind = "full" /\ job.pc \in {"fold", "tx"} /\ ~job.skipped =>
       \A e \in Sources \ job.todo : ~src[e].behind

LEMMA BaselineInit == Init => Baseline
<1> SUFFICES ASSUME Init PROVE Baseline
  OBVIOUS
<1>1. job.kind = "none" /\ job.pc = "idle"
  BY DEF Init, Begin, Idle
<1>2. CASE Fresh
  BY <1>1, <1>2 DEF Fresh, Baseline, EmptyDB
<1>3. CASE Upgraded
  <2>1. live = OldStore(src)
    BY <1>3 DEF Upgraded
  <2>2. /\ live.contrib = EmptyStore.contrib
        /\ live.row = [s \in Sessions |-> IF {d \in Sources : Has(src[d], s)} # {} THEN Live ELSE Absent]
    BY <2>1 DEF OldStore, EmptyStore
  <2>3. \A s \in Sessions : ~Claimed(live.contrib, s)
    BY <2>2 DEF Claimed, EmptyStore
  <2>4. \A e \in Sources, s \in Sessions : Has(src[e], s) => s \in Present(live)
    BY <2>2 DEF Present, Live, Absent
  <2> QED
    BY <1>1, <2>3, <2>4 DEF Baseline
<1> QED
  BY <1>2, <1>3 DEF Init

(* A database that is behind is as it was.                                  *)
LEMMA BehindStays ==
  ASSUME Inv, SourceStep, NEW e \in Sources, src'[e].behind
  PROVE  src[e].behind /\ src'[e] = src[e]
<1>1. src \in [Sources -> FiniteDBs]
  BY DEF Inv, Typed
<1>2. CASE \E s \in Sessions : Delete(s)
  BY <1>2 DEF Delete
<1>3. ASSUME NEW d \in Sources, StartIndex(d) PROVE src[e].behind /\ src'[e] = src[e]
  <2>1. src' = [src EXCEPT ![d] = IF src[d].behind THEN SchemaRebuilt(src[d]) ELSE src[d]]
    BY <1>3 DEF StartIndex
  <2>2. ~SchemaRebuilt(src[d]).behind
    BY DEF SchemaRebuilt, EmptyDB
  <2> QED
    BY <1>1, <2>1, <2>2
<1>4. ASSUME NEW d \in Sources, NEW db, Writes(d, db), ~src[d].behind => ~db.behind
      PROVE  src[e].behind /\ src'[e] = src[e]
  <2>1. ~src[d].behind /\ src' = [src EXCEPT ![d] = db]
    BY <1>4 DEF Writes
  <2> QED
    BY <1>1, <1>4, <2>1
<1>5. ASSUME NEW d \in Sources, NEW s \in Sessions, NEW k, NEW t, NEW tag
      PROVE  /\ Reindexed(src[d], s, k).behind = src[d].behind
             /\ Appended(src[d], s).behind = src[d].behind
             /\ Stamped(src[d], s, t).behind = src[d].behind
             /\ Cleared(src[d], s).behind = src[d].behind
             /\ MessagesPruned(src[d], s).behind = src[d].behind
             /\ RowPruned(src[d], s).behind = src[d].behind
             /\ Tagged(src[d], s, tag).behind = src[d].behind
             /\ Judged(src[d], s, tag).behind = src[d].behind
  <2>1. src[d] \in SourceDBs
    BY <1>1 DEF FiniteDBs
  <2> QED
    BY <2>1 DEF SourceDBs, Reindexed, Appended, Stamped, Cleared, MessagesPruned, RowPruned,
                Tagged, Judged
<1>6. ASSUME NEW d \in Sources, NEW s \in Sessions,
             \/ \E k \in 0..MaxUuid : SrcReindex(d, s, k)
             \/ SrcAppend(d, s) \/ SrcStamp(d, s) \/ SrcClear(d, s)
             \/ SrcPruneMessages(d, s) \/ SrcPruneRow(d, s)
             \/ \E tag \in Tags : SrcTag(d, s, tag) \/ SrcJudge(d, s, tag)
      PROVE  src[e].behind /\ src'[e] = src[e]
  BY <1>4, <1>5, <1>6 DEF SrcReindex, SrcAppend, SrcStamp, SrcClear, SrcPruneMessages,
                          SrcPruneRow, SrcTag, SrcJudge
<1> QED
  BY <1>2, <1>3, <1>6 DEF SourceStep

LEMMA BaselineOutside == Inv /\ Baseline /\ SourceStep => Baseline'
<1> SUFFICES ASSUME Inv, Baseline, SourceStep PROVE Baseline'
  OBVIOUS
<1>1. UNCHANGED <<live, build, job>> /\ \A s : Deleted(s) => Deleted(s)'
  BY OutsideStep DEF Deleted
<1>2. \A e \in Sources : src'[e].behind => src[e].behind /\ src'[e] = src[e]
  BY BehindStays
<1> QED
  BY <1>1, <1>2 DEF Baseline, Has

(* Inside a pass, it is enough to look at the sessions' rows and baselines.  *)
Grounded(st, s) ==
  s \in Present(st) /\ (st.contrib[s][Legacy] # Absent \/ ~Claimed(st.contrib, s))
GroundKept == \A s \in Sessions : Grounded(live, s) => Deleted(s) \/ Grounded(live', s)
TurnFits ==
  /\ job'.kind # "rebuild" /\ (job'.kind = "none" => job'.pc = "idle")
  /\ job'.kind = "full" /\ job'.pc \in {"heal", "migrate"} => job'.todo = Sources
  /\ job'.kind = "full" /\ job'.pc \in {"fold", "tx"} /\ ~job'.skipped =>
       \A e \in Sources \ job'.todo : ~src[e].behind

LEMMA BaselineInside ==
  ASSUME Baseline, UNCHANGED outside, TurnFits,
         \/ GroundKept
         \/ \A e \in Sources : ~src[e].behind
  PROVE  Baseline'
<1>1. src' = src /\ \A s : Deleted(s)' <=> Deleted(s)
  BY DEF outside, Deleted
<1>2. \A e \in Sources, s \in Sessions : src[e].behind /\ Has(src[e], s) =>
        Deleted(s) \/ Grounded(live', s)
  BY DEF Baseline, GroundKept, Grounded
<1> QED
  BY <1>1, <1>2 DEF Baseline, Has, TurnFits, Grounded

LEMMA BaselinePassStep ==
  ASSUME "rebuild" \notin Passes, Inv, Kept, Baseline, PassStep
  PROVE  Baseline'
<1>1. /\ live \in Stores /\ job \in Jobs /\ src \in [Sources -> FiniteDBs] /\ tombs \in SUBSET Sessions
      /\ job.kind # "rebuild" /\ Work = live
      /\ Union(live) /\ Zeroed(live)
      /\ job.pc \notin {"idle", "heal", "migrate"} => Backed(live)
  BY DEF Inv, Typed, TypeOK, Baseline, Work, Kept
<1>2. /\ Legacy \in Contributors /\ Legacy \notin Sources
      /\ live.contrib \in [Sessions -> [Contributors -> OnlyCopy]]
  BY <1>1, StoreAssumption, StoreFields DEF Contributors
<1>3. ASSUME live' = live PROVE GroundKept
  BY <1>3 DEF GroundKept
<1>4. CASE StartFull \/ StartRebuild \/ \E d \in Sources : StartSync(d)
  <2>1. PICK kind, todo : Start(kind, todo) /\ kind # "rebuild" /\ (kind = "full" => todo = Sources)
    <3>1. ~StartRebuild
      BY DEF StartRebuild, Start
    <3>2. CASE StartFull
      BY <3>2 DEF StartFull
    <3>3. CASE \E d \in Sources : StartSync(d)
      BY <3>3 DEF StartSync
    <3> QED
      BY <1>4, <3>1, <3>2, <3>3
  <2>2. live' = live /\ UNCHANGED outside /\ job' = [Idle EXCEPT !.kind = kind, !.pc = "heal", !.todo = todo]
    BY <2>1 DEF Start
  <2>3. TurnFits
    <3>1. kind \in {"sync", "full"}
      BY <2>1, BoundAssumption DEF Start
    <3> QED
      BY <2>1, <2>2, <3>1 DEF TurnFits, Idle
  <2> QED
    BY <1>3, <2>2, <2>3, BaselineInside
<1>5. CASE Heal
  <2>1. live' = Healed(live)
    BY <1>1, <1>5 DEF Heal, Commit, Inv, WatermarksVouch, MarksFit
  <2>2. Present(live') = Present(live) /\ live'.contrib = live.contrib
    BY <1>1, <2>1, OpenedKeeps
  <2>3. UNCHANGED outside /\ job'.kind = job.kind /\ job'.pc = "migrate" /\ job'.todo = job.todo
        /\ job.pc = "heal"
    BY <1>1, <1>5 DEF Heal, Goto, Jobs
  <2>4. TurnFits
    BY <1>1, <2>3 DEF TurnFits, Baseline
  <2>5. GroundKept
    BY <2>2 DEF GroundKept, Grounded
  <2> QED
    BY <2>3, <2>4, <2>5, BaselineInside
<1>6. CASE Migrate
  <2>1. live' = Migrated(live)
    BY <1>1, <1>6 DEF Migrate, Commit
  <2>2. /\ Present(live') = Present(live)
        /\ \A s \in Sessions : IF Claimed(live.contrib, s) THEN live'.contrib[s] = live.contrib[s]
                               ELSE live'.contrib[s][Legacy] = live.row[s]
    BY <1>1, <2>1, MigratedKeeps
  <2>3. /\ UNCHANGED outside /\ job'.kind = job.kind /\ job'.pc = "fold"
        /\ job'.todo = job.todo /\ job.pc = "migrate"
    BY <1>1, <1>6 DEF Migrate, Goto, Jobs
  <2>4. TurnFits
    BY <1>1, <2>3 DEF TurnFits, Baseline
  <2>5. GroundKept
    BY <2>2 DEF GroundKept, Grounded, Present
  <2> QED
    BY <2>3, <2>4, <2>5, BaselineInside
<1>7. ASSUME NEW d \in Sources, SkipBehind(d) \/ SkipUnchanged(d) \/ ReadMark(d) PROVE Baseline'
  <2>1. UNCHANGED <<outside, live>> /\ job.pc = "fold"
    BY <1>7 DEF SkipBehind, SkipUnchanged, ReadMark, PassOver
  <2>2. ASSUME SkipBehind(d) PROVE TurnFits
    <3>1. \/ job' = Idle
          \/ job' = [job EXCEPT !.todo = job.todo \ {d}, !.skipped = TRUE]
      BY <2>2 DEF SkipBehind, PassOver
    <3>2. CASE job' = Idle
      BY <3>2 DEF TurnFits, Idle
    <3>3. CASE job' = [job EXCEPT !.todo = job.todo \ {d}, !.skipped = TRUE]
      <4>1. job'.kind = job.kind /\ job'.skipped = TRUE /\ job'.pc = job.pc
        BY <1>1, <3>3 DEF Jobs
      <4> QED
        BY <1>1, <2>1, <4>1 DEF TurnFits, Baseline
    <3> QED
      BY <3>1, <3>2, <3>3
  <2>3. ASSUME SkipUnchanged(d) PROVE TurnFits
    <3>1. /\ ~src[d].behind
          /\ \/ job' = Idle
             \/ job' = [job EXCEPT !.todo = job.todo \ {d}, !.skipped = job.skipped \/ FALSE]
      BY <2>3 DEF SkipUnchanged, PassOver
    <3>2. CASE job' = Idle
      BY <3>2 DEF TurnFits, Idle
    <3>3. CASE job' = [job EXCEPT !.todo = job.todo \ {d}, !.skipped = job.skipped \/ FALSE]
      <4>1. /\ job'.kind = job.kind /\ job'.todo = job.todo \ {d} /\ job'.pc = job.pc
            /\ job'.skipped = (job.skipped \/ FALSE)
        BY <1>1, <3>3 DEF Jobs
      <4>2. ~job'.skipped => ~job.skipped
        BY <4>1
      <4> QED
        BY <1>1, <2>1, <3>1, <4>1, <4>2 DEF TurnFits, Baseline
    <3> QED
      BY <3>1, <3>2, <3>3
  <2>4. ASSUME ReadMark(d) PROVE TurnFits
    <3>1. /\ ~src[d].behind /\ job'.kind = job.kind /\ job'.todo = job.todo \ {d} /\ job'.pc = "tx"
          /\ job'.skipped = job.skipped
      BY <1>1, <2>4 DEF ReadMark, Jobs
    <3> QED
      BY <1>1, <2>1, <3>1 DEF TurnFits, Baseline
  <2>5. TurnFits
    BY <1>7, <2>2, <2>3, <2>4
  <2> QED
    BY <1>3, <2>1, <2>5, BaselineInside
<1>8. CASE FoldTx
  <2>1. /\ job.pc = "tx" /\ job.d \in Sources /\ job.mk \in Mark
        /\ live' = Folded(live, job.d, src[job.d], job.mk)
    BY <1>1, <1>8 DEF FoldTx, Commit, Inv, Typed
  <2>2. Numbered(src[job.d])
    BY <2>1 DEF Inv, WatermarksVouch
  <2>3. Backed(live)
    BY <1>1, <2>1
  <2>4. \A s \in Present(live) : \/ s \in Present(live')
                                 \/ \A c \in Contributors \ {job.d} : live.contrib[s][c] = Absent
    BY <1>1, <2>1, <2>2, <2>3, FoldedKeeps
  <2>5. \A s \in Sessions, c \in Contributors \ {job.d} : live'.contrib[s][c] = live.contrib[s][c]
    BY <1>1, <2>1, <2>2, <2>3, FoldedKeeps
  <2>6. Legacy \in Contributors \ {job.d}
    BY <1>2, <2>1
  <2>7. \A s \in Present(live) : s \in Sessions /\ Claimed(live.contrib, s)
    BY <2>3 DEF Backed, Present
  <2>8. GroundKept
    BY <2>4, <2>5, <2>6, <2>7 DEF GroundKept, Grounded
  <2>9. /\ UNCHANGED outside /\ job'.kind = job.kind /\ job'.todo = job.todo
        /\ job'.skipped = job.skipped /\ (job.kind = "full" => job'.pc = "fold")
    BY <1>1, <1>8 DEF FoldTx, Jobs
  <2>10. TurnFits
    BY <1>1, <2>1, <2>9 DEF TurnFits, Baseline
  <2> QED
    BY <2>8, <2>9, <2>10, BaselineInside
<1>9. CASE EndFolds
  <2>1. /\ job.pc = "fold" /\ job.todo = {} /\ job.kind = "full" /\ UNCHANGED outside
        /\ job'.kind = job.kind /\ job'.pc = "prune"
        /\ live' = IF job.skipped THEN live ELSE LegacyPruned(live)
    BY <1>1, <1>9 DEF EndFolds, Goto, Commit, Jobs, Baseline
  <2>2. TurnFits
    BY <1>1, <2>1 DEF TurnFits
  <2>3. CASE job.skipped
    BY <1>3, <2>1, <2>2, <2>3, BaselineInside
  <2>4. CASE ~job.skipped
    <3>1. \A e \in Sources : ~src[e].behind
      BY <2>1, <2>4 DEF Baseline
    <3> QED
      BY <2>1, <2>2, <3>1, BaselineInside
  <2> QED
    BY <2>3, <2>4
<1>10. CASE Prune
  <2>1. live' = TombstonesPruned(live, tombs) /\ job.pc = "prune" /\ UNCHANGED outside
    BY <1>1, <1>10 DEF Prune, Commit
  <2>2. job' = Idle
    BY <1>1, <1>10 DEF Prune, AfterPrune
  <2>3. TurnFits
    BY <2>2 DEF TurnFits, Idle
  <2>4. Backed(live)
    BY <1>1, <2>1
  <2>5. /\ \A s \in Present(live) : s \in Present(live') \/ s \in Doomed(live, tombs)
        /\ \A s \in Sessions : s \in Doomed(live, tombs) \/ live'.contrib[s] = live.contrib[s]
    BY <1>1, <2>1, <2>4, PrunedKeeps
  <2>6. \A s \in Doomed(live, tombs) : Deleted(s)
    BY DoomedAreDeleted
  <2>7. GroundKept
    BY <2>5, <2>6 DEF GroundKept, Grounded, Claimed
  <2> QED
    BY <2>1, <2>3, <2>7, BaselineInside
<1>11. ~Carry /\ ~Swap
  BY <1>1 DEF Carry, Swap, Kept
<1> QED
  BY <1>4, <1>5, <1>6, <1>7, <1>8, <1>9, <1>10, <1>11 DEF PassStep

LEMMA BaselineFaultStep == Inv /\ Baseline /\ FaultStep => Baseline'
<1> SUFFICES ASSUME Inv, Baseline, FaultStep PROVE Baseline'
  OBVIOUS
<1>1. UNCHANGED <<outside, live>> /\ job'.kind = "none" /\ job'.pc = "idle"
  BY DEF Baseline, FaultStep, PruneUnreadable, Fail, Kill, AfterPrune, Idle
<1>2. TurnFits /\ GroundKept
  BY <1>1 DEF TurnFits, GroundKept
<1> QED
  BY <1>1, <1>2, BaselineInside

LEMMA BaselineStep ==
  ASSUME "rebuild" \notin Passes
  PROVE  Inv /\ Kept /\ Baseline /\ [Next]_vars => Baseline'
<1>1. ASSUME Baseline, UNCHANGED vars PROVE Baseline'
  BY <1>1 DEF vars, Baseline, Deleted, Has, Present, Claimed
<1> QED
  BY <1>1, BaselineOutside, BaselinePassStep, BaselineFaultStep DEF Next

(* A session that a database too old to read still holds is not lost to the *)
(* fold of another.                                                         *)
THEOREM SkippedStays ==
  ASSUME "rebuild" \notin Passes
  PROVE  Spec => SkippedSourcesCount
<1>1. Inv /\ Kept /\ Baseline /\ [Next]_vars =>
        [\A s \in Lost : Deleted(s) \/ \A d \in Sources : src[d].behind => ~Has(src[d], s)]_vars
  <2> SUFFICES ASSUME Inv, Kept, Baseline, [Next]_vars, NEW s \in Lost, ~Deleted(s),
                      NEW e \in Sources, src[e].behind, Has(src[e], s)
               PROVE  FALSE
    OBVIOUS
  <2>1. s \in Present(live) /\ s \notin Present(live') /\ s \in Sessions
    BY DEF Lost, Present
  <2>2. /\ live \in Stores /\ src \in [Sources -> FiniteDBs] /\ tombs \in SUBSET Sessions
        /\ \A d \in Sources : Numbered(src[d])
    BY DEF Inv, Typed, TypeOK, WatermarksVouch
  <2>3. live.contrib[s][Legacy] # Absent \/ ~Claimed(live.contrib, s)
    BY <2>1 DEF Baseline
  <2>4. CASE Backed(live) /\ Zeroed(live) /\ live' = TombstonesPruned(live, tombs)
    BY <2>1, <2>2, <2>4, PrunedKeeps, DoomedAreDeleted
  <2>5. CASE /\ Backed(live) /\ Zeroed(live) /\ job.d \in Sources /\ job.mk \in Mark
             /\ live' = Folded(live, job.d, src[job.d], job.mk)
    <3>1. \A c \in Contributors \ {job.d} : live.contrib[s][c] = Absent
      BY <2>1, <2>2, <2>5, FoldedKeeps
    <3>2. Legacy \in Contributors \ {job.d}
      BY <2>5, StoreAssumption DEF Contributors
    <3>3. Claimed(live.contrib, s)
      BY <2>1, <2>5 DEF Backed
    <3> QED
      BY <2>3, <3>1, <3>2, <3>3
  <2> QED
    BY <2>1, <2>4, <2>5, LiveStep
<1>2. Inv /\ Kept /\ Baseline /\ [Next]_vars => Baseline'
  BY BaselineStep
<1> QED
  BY <1>1, <1>2, BaselineInit, StoreKept, PTL DEF Spec, SkippedSourcesCount

-----------------------------------------------------------------------------
(* Taggings.  The watermark tells a database's taggings apart by their       *)
(* number and the highest of their times: as long as each is later than all  *)
(* that the database has, no two states of them look the same.              *)

NotAbove(a, b) == a[1] <= b[1] /\ a[2] <= b[2]

(* A store that has the database's number and highest time has no lower     *)
(* tagging of a session whose messages the watermark vouches for.           *)
TagsVouch(st) ==
  \A d \in Sources : st.mark[d].t = TagMark(src[d].topic) =>
    \A m \in VouchedFor(st, d) : src[d].topic[m.s] # NoTag =>
      ~Later(src[d].topic[m.s], st.topic[m.s]) \/ Deleted(m.s)

MarksAreOld(st) == \A d \in Sources : NotAbove(st.mark[d].t, TagMark(src[d].topic))
Timed(tags) == \A s \in Sessions : tags[s] # NoTag => tags[s].at \in Nat

(* The invariant.  A rebuild takes the live store's taggings over before any *)
(* watermark is in its store.                                               *)
Tagging ==
  /\ \A d \in Sources : Timed(src[d].topic)
  /\ MarksAreOld(live) /\ MarksAreOld(build)
  /\ job.pc = "tx" => NotAbove(job.mk.t, TagMark(src[job.d].topic))
  /\ TagsVouch(live) /\ TagsVouch(build)
  /\ job.kind = "rebuild" /\ job.pc \in {"heal", "migrate"} =>
       \A d \in Sources : build.mark[d] = NoMark

LEMMA TagMarkBounds ==
  ASSUME NEW tags \in [Sessions -> Tag], Timed(tags)
  PROVE  /\ TagMark(tags)[1] = Cardinality(Rows(tags)) /\ Cardinality(Rows(tags)) \in Nat
         /\ IsFiniteSet(Rows(tags))
         /\ TagMark(tags)[2] \in Nat
         /\ \A s \in Rows(tags) : tags[s].at <= TagMark(tags)[2]
         /\ TagMark(tags)[2] = 0 \/ \E s \in Rows(tags) : tags[s].at = TagMark(tags)[2]
<1> DEFINE at == [s \in Rows(tags) |-> tags[s].at]
           ats == {tags[s].at : s \in Rows(tags)}
<1>1. IsFiniteSet(Rows(tags)) /\ Cardinality(Rows(tags)) \in Nat
  BY SourceAssumption, FS_Subset, FS_CardinalityType DEF Rows
<1>2. ats = {at[s] : s \in Rows(tags)}
  OBVIOUS
<1>3. IsFiniteSet({at[s] : s \in Rows(tags)})
  <2> HIDE DEF at
  <2> QED
    BY <1>1, FiniteImage
<1>4. ats \subseteq Nat
  BY DEF Rows, Timed
<1>5. /\ Top(ats) \in Int /\ (ats # {} => Top(ats) \in ats)
      /\ \A y \in ats : y <= Top(ats)
      /\ ats = {} => Top(ats) = 0
  <2>1. ats = {} => Top(ats) = 0
    BY DEF Top
  <2>2. IsFiniteSet(ats)
    BY <1>2, <1>3
  <2>3. ats \in SUBSET Int
    BY <1>4
  <2> HIDE DEF ats, at
  <2> QED
    BY <2>1, <2>2, <2>3, TopIsMax
<1>6. TagMark(tags)[1] = Cardinality(Rows(tags)) /\ TagMark(tags)[2] = Top(ats)
  BY DEF TagMark
<1>7. \A s \in Rows(tags) : tags[s].at \in ats
  OBVIOUS
<1>8. \A y \in ats : \E s \in Rows(tags) : tags[s].at = y
  OBVIOUS
<1> HIDE DEF ats, at
<1>9. TagMark(tags)[2] \in Nat
  BY <1>4, <1>5, <1>6
<1>10. TagMark(tags)[2] = 0 \/ TagMark(tags)[2] \in ats
  BY <1>5, <1>6
<1>11. \A s \in Rows(tags) : tags[s].at <= TagMark(tags)[2]
  BY <1>5, <1>6, <1>7
<1> QED
  BY <1>1, <1>6, <1>8, <1>9, <1>10, <1>11

(* A tagging later than all there are is told from every watermark before.  *)
LEMMA TaggingIsSeen ==
  ASSUME NEW tags \in [Sessions -> Tag], Timed(tags), NEW s \in Sessions, NEW tag \in Tags,
         \A r \in Sessions : tags[r].at < tag.at
  PROVE  LET new == [tags EXCEPT ![s] = tag] IN
         /\ Timed(new)
         /\ NotAbove(TagMark(tags), TagMark(new))
         /\ \A a \in Nat \X Int : NotAbove(a, TagMark(tags)) => a # TagMark(new)
<1> DEFINE new == [tags EXCEPT ![s] = tag]
<1>1. tag \in Tag /\ tag.at \in Nat
  BY BoundAssumption DEF Tag
<1>2. tag # NoTag
  BY <1>1 DEF NoTag
<1>3. new \in [Sessions -> Tag] /\ new[s] = tag /\ \A r \in Sessions : r # s => new[r] = tags[r]
  BY <1>1
<1> HIDE DEF new
<1>4. Timed(new)
  BY <1>1, <1>3 DEF Timed
<1>5. Rows(new) = Rows(tags) \cup {s} /\ s \in Rows(new) /\ Rows(tags) \subseteq Sessions
  BY <1>2, <1>3 DEF Rows
<1> DEFINE n == Cardinality(Rows(tags))
           m == Cardinality(Rows(new))
           old == TagMark(tags)
           mk == TagMark(new)
<1>6. n \in Nat /\ m \in Nat /\ old[1] = n /\ mk[1] = m /\ IsFiniteSet(Rows(tags))
      /\ old[2] \in Nat /\ mk[2] \in Nat
  BY <1>3, <1>4, TagMarkBounds
<1>7. m = IF s \in Rows(tags) THEN n ELSE n + 1
  <2>1. s \in Rows(tags) => Rows(new) = Rows(tags)
    BY <1>5
  <2>2. s \notin Rows(tags) => Cardinality(Rows(tags) \cup {s}) = n + 1
    BY <1>6, FS_AddElement
  <2> QED
    BY <1>5, <2>1, <2>2
<1>8. tag.at <= mk[2]
  BY <1>3, <1>4, <1>5, TagMarkBounds
<1>9. old[2] = 0 \/ old[2] < tag.at
  BY <1>5, TagMarkBounds
<1>10. s \in Rows(tags) => old[2] < tag.at
  <2>1. s \in Rows(tags) => tags[s].at \in Nat
    BY DEF Rows, Timed
  <2> QED
    BY <1>1, <1>9, <2>1
<1> HIDE DEF n, m, old, mk
<1>11. old[1] <= mk[1] /\ old[2] <= mk[2] /\ (old[1] < mk[1] \/ old[2] < mk[2])
  BY <1>1, <1>6, <1>7, <1>8, <1>9, <1>10
<1>12. ASSUME NEW a \in Nat \X Int, a[1] <= old[1], a[2] <= old[2]
       PROVE  a # mk
  <2>1. a[1] \in Nat /\ a[2] \in Int
    OBVIOUS
  <2> QED
    BY <1>6, <1>11, <1>12, <2>1
<1> QED
  BY <1>4, <1>11, <1>12 DEF NotAbove, new, old, mk

(* A store whose taggings and watermarks are another's, or which has none.   *)
LEMMA TagsCarried ==
  ASSUME src \in [Sources -> FiniteDBs], \A d \in Sources : Timed(src[d].topic),
         NEW st, NEW new,
         \A d \in Sources :
           \/ new.mark[d] = NoMark
           \/ /\ MarksAreOld(st) /\ TagsVouch(st)
              /\ new.mark[d] = st.mark[d]
              /\ \A s \in Sessions : new.topic[s] = st.topic[s] \/ Deleted(s)
  PROVE  MarksAreOld(new) /\ TagsVouch(new)
<1>1. ASSUME NEW d \in Sources PROVE NotAbove(new.mark[d].t, TagMark(src[d].topic))
  <2>1. CASE new.mark[d] = NoMark
    <3>1. src[d].topic \in [Sessions -> Tag]
      BY DEF FiniteDBs, SourceDBs
    <3>2. TagMark(src[d].topic)[1] \in Nat /\ TagMark(src[d].topic)[2] \in Nat
      BY <3>1, TagMarkBounds
    <3>3. new.mark[d].t = <<0, 0>>
      BY <2>1 DEF NoMark
    <3> QED
      BY <3>2, <3>3 DEF NotAbove
  <2>2. CASE new.mark[d] # NoMark
    BY <2>2 DEF MarksAreOld
  <2> QED
    BY <2>1, <2>2
<1>2. ASSUME NEW d \in Sources, new.mark[d].t = TagMark(src[d].topic),
             NEW m \in VouchedFor(new, d), src[d].topic[m.s] # NoTag
      PROVE  ~Later(src[d].topic[m.s], new.topic[m.s]) \/ Deleted(m.s)
  <2>1. m \in src[d].msgs /\ m.id \in Nat \ {0} /\ m.s \in Sessions /\ m.id <= new.mark[d].max
    BY <1>2, IdsArePositive DEF VouchedFor
  <2>2. new.mark[d] # NoMark
    BY <2>1 DEF NoMark
  <2>3. m \in VouchedFor(st, d) /\ TagsVouch(st) /\ new.mark[d] = st.mark[d]
        /\ (new.topic[m.s] = st.topic[m.s] \/ Deleted(m.s))
    BY <2>1, <2>2 DEF VouchedFor
  <2> QED
    BY <1>2, <2>3 DEF TagsVouch
<1> QED
  BY <1>1, <1>2 DEF MarksAreOld, TagsVouch

(* The fold transaction: it takes in what the source has now, which is what  *)
(* the watermark counted or comes after it; and what another source vouches  *)
(* for is not its own to remove.                                            *)
LEMMA FoldedTags ==
  ASSUME Inv, NEW st \in Stores, Accounted(st), MarksAreOld(st), TagsVouch(st),
         NEW d \in Sources, NEW mk \in Mark, NotAbove(mk.t, TagMark(src[d].topic))
  PROVE  /\ MarksAreOld(Folded(st, d, src[d], mk))
         /\ TagsVouch(Folded(st, d, src[d], mk))
<1> DEFINE db == src[d]
           contrib == Contributed(st.contrib, d, db)
           orphaned == {s \in {r \in Sessions : st.contrib[r][d] # Absent /\ ~Has(db, r)} :
                          ~Claimed(contrib, s)}
           sole == {s \in {r \in Sessions : Has(db, r)} :
                      \A c \in Contributors \ {d} : contrib[s][c] = Absent}
           kept == [s \in Sessions |->
                      IF db.layer /\ s \in sole /\ db.topic[s] = NoTag THEN NoTag ELSE st.topic[s]]
           new == Folded(st, d, db, mk)
<1>1. /\ src \in [Sources -> FiniteDBs] /\ \A e \in Sources : Numbered(src[e])
      /\ \A e \in Sources : src[e].topic \in [Sessions -> Tag]
      /\ st.topic \in [Sessions -> Tag]
  BY DEF Inv, Typed, WatermarksVouch, FiniteDBs, SourceDBs, Stores
<1>2. /\ new.mark = [st.mark EXCEPT ![d] = mk]
      /\ new.topic = [s \in Sessions |-> IF s \in orphaned THEN NoTag
                                         ELSE MergedTopic(db.topic[s], kept[s])]
  BY DEF Folded, Stores
<1>3. new.mark[d] = mk /\ \A e \in Sources : e # d => new.mark[e] = st.mark[e]
  BY <1>2, StoreFields
<1>4. \A s \in Sessions, e \in Sources : e # d => contrib[s][e] = st.contrib[s][e]
  BY StoreFields DEF Contributed, Contributors
<1>5. \A s \in Sessions : Has(db, s) => s \notin orphaned
  OBVIOUS
<1>6. ASSUME NEW s \in Sessions, NEW e \in Sources, e # d, st.contrib[s][e] # Absent
      PROVE  s \notin orphaned /\ s \notin sole
  BY <1>4, <1>6 DEF Claimed, Contributors
<1>7. \A s \in Sessions : kept[s] \in Tag /\ (s \notin sole => kept[s] = st.topic[s])
  BY <1>1 DEF Tag, NoTag
<1> HIDE DEF new, contrib, orphaned, sole, kept
<1>8. \A s \in Sessions : s \notin orphaned => new.topic[s] = MergedTopic(db.topic[s], kept[s])
  BY <1>2
<1>9. ASSUME NEW s \in Sessions, s \notin orphaned, NEW a \in Tag,
             a = db.topic[s] \/ ~Later(a, kept[s])
      PROVE  ~Later(a, new.topic[s])
  <2>1. PICK b \in Tag : b = db.topic[s]
    BY <1>1
  <2>2. PICK c \in Tag : c = kept[s]
    BY <1>7
  <2>3. a.org \in Int /\ a.at \in Int /\ b.org \in Int /\ b.at \in Int /\ c.org \in Int /\ c.at \in Int
    BY DEF Tag
  <2>4. ~Later(a, MergedTopic(b, c))
    BY <1>9, <2>1, <2>2, <2>3 DEF MergedTopic, Later
  <2> QED
    BY <1>8, <1>9, <2>1, <2>2, <2>4
<1>10. MarksAreOld(new)
  BY <1>3 DEF MarksAreOld
<1>11. ASSUME NEW e \in Sources, new.mark[e].t = TagMark(src[e].topic),
              NEW m \in VouchedFor(new, e), src[e].topic[m.s] # NoTag, ~Deleted(m.s)
       PROVE  ~Later(src[e].topic[m.s], new.topic[m.s])
  <2>1. m \in src[e].msgs /\ m.s \in Sessions /\ src[e].topic[m.s] \in Tag
    BY <1>1, <1>11, IdsArePositive DEF VouchedFor
  <2>2. CASE e = d
    <3>1. m.s \notin orphaned
      BY <1>1, <1>5, <2>1, <2>2 DEF Numbered
    <3> QED
      BY <1>9, <2>1, <2>2, <3>1
  <2>3. CASE e # d
    <3>1. m \in VouchedFor(st, e) /\ st.mark[e].t = TagMark(src[e].topic)
      BY <1>3, <1>11, <2>3 DEF VouchedFor
    <3>2. st.contrib[m.s][e] # Absent /\ ~Later(src[e].topic[m.s], st.topic[m.s])
      BY <1>11, <3>1 DEF Accounted, TagsVouch
    <3>3. m.s \notin orphaned /\ kept[m.s] = st.topic[m.s]
      BY <1>6, <1>7, <2>1, <2>3, <3>2
    <3> QED
      BY <1>9, <2>1, <3>2, <3>3
  <2> QED
    BY <2>2, <2>3
<1> QED
  BY <1>10, <1>11 DEF TagsVouch, new

(* What happens outside the passes.                                         *)
LEMMA TagsOutside ==
  ASSUME Inv, Tagging, UNCHANGED <<live, build, job>>,
         \A s \in Sessions : Deleted(s) => Deleted(s)',
         NEW d \in Sources, \A e \in Sources : e # d => src'[e] = src[e],
         \A m \in src'[d].msgs : m.id <= live.mark[d].max => m \in src[d].msgs,
         \A m \in src'[d].msgs : m.id <= build.mark[d].max => m \in src[d].msgs,
         \/ src'[d].topic = src[d].topic
         \/ \E s \in Sessions, tag \in Tags :
              /\ src'[d].topic = [src[d].topic EXCEPT ![s] = tag]
              /\ \A r \in Sessions : src[d].topic[r].at < tag.at
  PROVE  Tagging'
<1>1. /\ src \in [Sources -> FiniteDBs] /\ live \in Stores /\ build \in Stores
      /\ job.pc = "tx" => job.d \in Sources /\ job.mk \in Mark
      /\ \A e \in Sources : src[e].topic \in [Sessions -> Tag]
  BY DEF Inv, Typed, TypeOK, FiniteDBs, SourceDBs
<1>2. \A e \in Sources : Timed(src[e].topic) /\ TagMark(src[e].topic) \in Nat \X Int
  BY <1>1, TagMarkType DEF Tagging
<1>3. ASSUME NEW e \in Sources
      PROVE  /\ Timed(src'[e].topic)
             /\ NotAbove(TagMark(src[e].topic), TagMark(src'[e].topic))
             /\ \/ src'[e].topic = src[e].topic
                \/ \A a \in Nat \X Int : NotAbove(a, TagMark(src[e].topic)) => a # TagMark(src'[e].topic)
             /\ TagMark(src'[e].topic) \in Nat \X Int
  <2>1. CASE src'[e].topic = src[e].topic
    <3>1. NotAbove(TagMark(src[e].topic), TagMark(src[e].topic))
      BY <1>2 DEF NotAbove
    <3> QED
      BY <1>2, <2>1, <3>1
  <2>2. CASE src'[e].topic # src[e].topic
    <3>1. PICK s \in Sessions, tag \in Tags :
            /\ src'[e].topic = [src[e].topic EXCEPT ![s] = tag]
            /\ \A r \in Sessions : src[e].topic[r].at < tag.at
      BY <2>2
    <3>2. PICK tags \in [Sessions -> Tag] : tags = src[e].topic
      BY <1>1
    <3>3. Timed(tags) /\ \A r \in Sessions : tags[r].at < tag.at
      BY <1>2, <3>1, <3>2
    <3>4. /\ Timed([tags EXCEPT ![s] = tag])
          /\ NotAbove(TagMark(tags), TagMark([tags EXCEPT ![s] = tag]))
          /\ \A a \in Nat \X Int :
               NotAbove(a, TagMark(tags)) => a # TagMark([tags EXCEPT ![s] = tag])
      BY <3>3, TaggingIsSeen
    <3>5. [tags EXCEPT ![s] = tag] \in [Sessions -> Tag]
      BY BoundAssumption DEF Tag
    <3>6. TagMark([tags EXCEPT ![s] = tag]) \in Nat \X Int
      BY <3>5, TagMarkType
    <3> QED
      BY <3>1, <3>2, <3>4, <3>6
  <2> QED
    BY <2>1, <2>2
<1>4. ASSUME NEW e \in Sources, NEW a \in Nat \X Int, NotAbove(a, TagMark(src[e].topic))
      PROVE  NotAbove(a, TagMark(src'[e].topic))
  <2>1. PICK b \in Nat \X Int : b = TagMark(src[e].topic)
    BY <1>2
  <2>2. PICK c \in Nat \X Int : c = TagMark(src'[e].topic)
    BY <1>3
  <2>3. NotAbove(a, b) /\ NotAbove(b, c)
    BY <1>3, <1>4, <2>1, <2>2
  <2> QED
    BY <2>2, <2>3 DEF NotAbove
<1>5. ASSUME NEW st \in Stores, MarksAreOld(st), TagsVouch(st),
             \A m \in src'[d].msgs : m.id <= st.mark[d].max => m \in src[d].msgs
      PROVE  /\ \A e \in Sources : NotAbove(st.mark[e].t, TagMark(src'[e].topic))
             /\ \A e \in Sources : st.mark[e].t = TagMark(src'[e].topic) =>
                  \A m \in src'[e].msgs : m.id <= st.mark[e].max /\ src'[e].topic[m.s] # NoTag =>
                    ~Later(src'[e].topic[m.s], st.topic[m.s]) \/ Deleted(m.s)
  <2>1. \A e \in Sources : st.mark[e].t \in Nat \X Int
    BY StoreFields DEF Mark, NoMark
  <2>2. \A e \in Sources : NotAbove(st.mark[e].t, TagMark(src[e].topic))
    BY <1>5 DEF MarksAreOld
  <2>3. \A e \in Sources : \A m \in src'[e].msgs : m.id <= st.mark[e].max => m \in VouchedFor(st, e)
    BY <1>5 DEF VouchedFor
  <2>4. \A e \in Sources : st.mark[e].t = TagMark(src'[e].topic) => src'[e].topic = src[e].topic
    BY <1>3, <2>1, <2>2
  <2> QED
    BY <1>4, <1>5, <2>1, <2>2, <2>3, <2>4 DEF TagsVouch
<1>6. \A e \in Sources : \A m \in src'[e].msgs :
        m.id <= live.mark[e].max \/ m.id <= build.mark[e].max => m.s \in Sessions
  BY <1>1, IdsArePositive
<1>7. MarksAreOld(live)' /\ MarksAreOld(build)'
  BY <1>1, <1>5 DEF Tagging, MarksAreOld
<1>8. TagsVouch(live)'
  BY <1>1, <1>5, <1>6 DEF Tagging, TagsVouch, VouchedFor
<1>9. TagsVouch(build)'
  BY <1>1, <1>5, <1>6 DEF Tagging, TagsVouch, VouchedFor
<1>10. job'.pc = "tx" => NotAbove(job'.mk.t, TagMark(src'[job'.d].topic))
  <2>1. job.pc = "tx" => job.mk.t \in Nat \X Int
    BY <1>1 DEF Mark
  <2> QED
    BY <1>1, <1>4, <2>1 DEF Tagging
<1>11. \A e \in Sources : Timed(src[e].topic)'
  BY <1>3 DEF Timed
<1> QED
  BY <1>7, <1>8, <1>9, <1>10, <1>11 DEF Tagging

LEMMA TaggingSourceStep ==
  ASSUME Inv, Tagging, SourceStep, TaggedInOrder
  PROVE  Tagging'
<1>1. UNCHANGED <<live, build, job>> /\ \A s \in Sessions : Deleted(s) => Deleted(s)'
  BY OutsideStep DEF Deleted
<1>2. /\ src \in [Sources -> FiniteDBs] /\ live \in Stores /\ build \in Stores
      /\ MarksFit(live) /\ MarksFit(build)
  BY DEF Inv, Typed, TypeOK, WatermarksVouch
<1>3. CASE \E s \in Sessions : Delete(s)
  <2>1. src' = src
    BY <1>3 DEF Delete
  <2>2. \A d \in Sources : \A m \in src[d].msgs : m.s \in Sessions
    BY <1>2, IdsArePositive
  <2>3. TagsVouch(live)'
    BY <1>1, <2>1, <2>2 DEF Tagging, TagsVouch, VouchedFor
  <2>4. TagsVouch(build)'
    BY <1>1, <2>1, <2>2 DEF Tagging, TagsVouch, VouchedFor
  <2> QED
    BY <1>1, <2>1, <2>3, <2>4 DEF Tagging, Timed, MarksAreOld
<1>4. ASSUME NEW d \in Sources, StartIndex(d) PROVE Tagging'
  <2>1. src' = [src EXCEPT ![d] = IF src[d].behind THEN SchemaRebuilt(src[d]) ELSE src[d]]
    BY <1>4 DEF StartIndex
  <2>2. SchemaRebuilt(src[d]).topic = src[d].topic /\ SchemaRebuilt(src[d]).msgs = {}
    BY DEF SchemaRebuilt, EmptyDB
  <2>3. src'[d].topic = src[d].topic /\ src'[d].msgs \subseteq src[d].msgs
    BY <1>2, <2>1, <2>2
  <2>4. \A e \in Sources : e # d => src'[e] = src[e]
    BY <1>2, <2>1
  <2> QED
    BY <1>1, <2>3, <2>4, TagsOutside
<1>5. ASSUME NEW d \in Sources, NEW db \in FiniteDBs, Writes(d, db), Grown(src[d], db),
             Retopiced(d, db)
      PROVE  Tagging'
  <2>1. src'[d] = db /\ ~src[d].behind /\ \A e \in Sources : e # d => src'[e] = src[e]
    BY <1>2, <1>5 DEF Writes
  <2>2. src[d].last \in Nat /\ \A m \in db.msgs : m.id \in Nat
    BY <1>2 DEF FiniteDBs, SourceDBs, Message
  <2>3. ASSUME NEW st \in Stores, MarksFit(st)
        PROVE  \A m \in src'[d].msgs : m.id <= st.mark[d].max => m \in src[d].msgs
    <3>1. st.mark[d].max \in Int /\ st.mark[d].max <= src[d].last
      BY <2>1, <2>3, StoreFields DEF MarksFit, Mark, NoMark
    <3> QED
      BY <1>5, <2>1, <2>2, <3>1 DEF Grown
  <2>4. CASE src'[d].topic = src[d].topic
    BY <1>1, <1>2, <2>1, <2>3, <2>4, TagsOutside
  <2>5. CASE src'[d].topic # src[d].topic
    <3>1. PICK s \in Sessions, tag \in Tags : src'[d].topic = [src[d].topic EXCEPT ![s] = tag]
      BY <1>5, <2>1, <2>5 DEF Retopiced
    <3>2. src[d].topic \in [Sessions -> Tag]
      BY <1>2 DEF FiniteDBs, SourceDBs
    <3>3. src'[d].topic[s] = tag /\ src'[d].topic[s] # src[d].topic[s]
      BY <2>5, <3>1, <3>2
    <3>4. \A r \in Sessions : src[d].topic[r].at < tag.at
      BY <3>3 DEF TaggedInOrder
    <3> QED
      BY <1>1, <1>2, <2>1, <2>3, <3>1, <3>4, TagsOutside
  <2> QED
    BY <2>4, <2>5
<1> QED
  BY <1>3, <1>4, <1>5, SourceStepWrites

(* Inside a pass.                                                           *)
LEMMA TagsInside ==
  ASSUME Tagging, UNCHANGED outside,
         MarksAreOld(live'), TagsVouch(live'), MarksAreOld(build'), TagsVouch(build'),
         job'.pc = "tx" => NotAbove(job'.mk.t, TagMark(src[job'.d].topic)),
         job'.kind = "rebuild" /\ job'.pc \in {"heal", "migrate"} =>
           \A d \in Sources : build'.mark[d] = NoMark
  PROVE  Tagging'
<1>1. src' = src /\ tombs' = tombs
  BY DEF outside
<1>2. TagsVouch(live)' /\ TagsVouch(build)'
  BY <1>1 DEF TagsVouch, VouchedFor, Deleted
<1> QED
  BY <1>1, <1>2 DEF Tagging, MarksAreOld, Timed

LEMMA TagsCommitted ==
  ASSUME Tagging, NEW st, MarksAreOld(st), TagsVouch(st), Commit(st), UNCHANGED outside,
         job'.kind = job.kind \/ job'.pc = "idle", job'.pc # "tx",
         job.kind = "rebuild" /\ job'.pc \in {"heal", "migrate"} =>
           \A d \in Sources : st.mark[d] = NoMark
  PROVE  Tagging'
<1>1. CASE job.kind = "rebuild"
  <2>1. build' = st /\ live' = live
    BY <1>1 DEF Commit
  <2> QED
    BY <1>1, <2>1, TagsInside DEF Tagging
<1>2. CASE job.kind # "rebuild"
  <2>1. live' = st /\ build' = build
    BY <1>2 DEF Commit
  <2> QED
    BY <1>2, <2>1, TagsInside DEF Tagging
<1> QED
  BY <1>1, <1>2

LEMMA TaggingPassStep == Inv /\ Tagging /\ PassStep => Tagging'
<1> SUFFICES ASSUME Inv, Tagging, PassStep PROVE Tagging'
  OBVIOUS
<1>1. /\ live \in Stores /\ build \in Stores /\ Work \in Stores
      /\ src \in [Sources -> FiniteDBs] /\ job \in Jobs
      /\ \A d \in Sources : Timed(src[d].topic)
  BY DEF Inv, Typed, TypeOK, Work, Tagging
<1>2. /\ MarksAreOld(live) /\ TagsVouch(live)
      /\ MarksAreOld(build) /\ TagsVouch(build)
      /\ MarksAreOld(Work) /\ TagsVouch(Work)
  BY DEF Tagging, Work
<1>3. MarksAreOld(EmptyStore) /\ TagsVouch(EmptyStore) /\ \A d \in Sources : EmptyStore.mark[d] = NoMark
  <2>1. \A d \in Sources : EmptyStore.mark[d] = NoMark
    BY DEF EmptyStore
  <2> QED
    BY <1>1, <2>1, TagsCarried
<1>4. ASSUME NEW st, NEW new, MarksAreOld(st), TagsVouch(st),
             \/ new.mark = st.mark
             \/ \A d \in Sources : new.mark[d] = NoMark,
             \A s \in Sessions : new.topic[s] = st.topic[s] \/ Deleted(s)
      PROVE  MarksAreOld(new) /\ TagsVouch(new)
  BY <1>1, <1>4, TagsCarried
<1>5. ASSUME NEW kind \in {"sync", "full", "rebuild"}, NEW todo \in SUBSET Sources,
             Start(kind, todo),
             build' = EmptyStore \/ (build' = build /\ kind # "rebuild")
      PROVE  Tagging'
  <2>1. /\ job'.pc = "heal" /\ job'.kind = kind /\ live' = live /\ UNCHANGED outside
    BY <1>5 DEF Start, Idle
  <2> QED
    BY <1>2, <1>3, <1>5, <2>1, TagsInside
<1>6. CASE StartFull \/ StartRebuild
  BY <1>5, <1>6 DEF StartFull, StartRebuild
<1>7. ASSUME NEW d \in Sources, StartSync(d) PROVE Tagging'
  BY <1>5, <1>7 DEF StartSync
<1>8. CASE Heal
  <2> DEFINE st == Healed(Work)
  <2>1. ~Work.behind
    BY DEF Inv, WatermarksVouch, MarksFit, Work
  <2>2. Commit(st)
    BY <1>8, <2>1 DEF Heal
  <2>3. \/ st = Work
        \/ st.mark = [d \in Sources |-> NoMark] /\ st.topic = Work.topic
    BY <1>1 DEF Healed, Stores
  <2>4. /\ job'.kind = job.kind /\ job'.pc = "migrate" /\ UNCHANGED outside /\ job.pc = "heal"
    BY <1>1, <1>8 DEF Heal, Goto, Jobs
  <2> HIDE DEF st
  <2>5. st.topic = Work.topic /\ (st.mark = Work.mark \/ \A d \in Sources : st.mark[d] = NoMark)
    BY <2>3
  <2>6. job.kind = "rebuild" => \A d \in Sources : st.mark[d] = NoMark
    BY <2>3, <2>4 DEF Tagging, Work
  <2>7. MarksAreOld(st) /\ TagsVouch(st)
    BY <1>2, <1>4, <2>5
  <2> QED
    BY <2>2, <2>4, <2>6, <2>7, TagsCommitted
<1>9. CASE Migrate
  <2> DEFINE st == Migrated(IF job.kind = "rebuild" THEN TagsRestored(build, live) ELSE live)
  <2>1. Commit(st)
    BY <1>9 DEF Migrate
  <2>2. /\ job'.kind = job.kind /\ job'.pc = "fold" /\ UNCHANGED outside /\ job.pc = "migrate"
    BY <1>1, <1>9 DEF Migrate, Goto, Jobs
  <2>3. CASE job.kind = "rebuild"
    <3>1. st.mark = build.mark
      BY <1>1, <2>3 DEF Migrated, TagsRestored, Stores
    <3>2. \A d \in Sources : st.mark[d] = NoMark
      BY <2>2, <2>3, <3>1 DEF Tagging
    <3> HIDE DEF st
    <3>3. MarksAreOld(st) /\ TagsVouch(st)
      BY <1>1, <3>2, TagsCarried
    <3> QED
      BY <2>1, <2>2, <3>3, TagsCommitted
  <2>4. CASE job.kind # "rebuild"
    <3>1. st.mark = live.mark /\ st.topic = live.topic
      BY <1>1, <2>4 DEF Migrated, Stores
    <3> HIDE DEF st
    <3>2. MarksAreOld(st) /\ TagsVouch(st)
      BY <1>2, <1>4, <3>1
    <3> QED
      BY <2>1, <2>2, <3>2, TagsCommitted
  <2> QED
    BY <2>3, <2>4
<1>10. ASSUME NEW d \in Sources, SkipBehind(d) \/ SkipUnchanged(d) PROVE Tagging'
  <2>1. PICK tooOld \in BOOLEAN : PassOver(d, tooOld) /\ job.pc = "fold"
    BY <1>10 DEF SkipBehind, SkipUnchanged
  <2>2. /\ UNCHANGED <<outside, live, build>>
        /\ job' = Idle \/ job'.pc = "fold"
    BY <1>1, <2>1 DEF PassOver, Jobs
  <2>3. job'.pc \notin {"tx", "heal", "migrate"}
    BY <2>2 DEF Idle
  <2> QED
    BY <1>2, <2>2, <2>3, TagsInside
<1>11. ASSUME NEW d \in Sources, ReadMark(d) PROVE Tagging'
  <2>1. /\ UNCHANGED <<outside, live, build>>
        /\ job'.pc = "tx" /\ job'.d = d /\ job'.mk = MarkOf(src[d])
    BY <1>1, <1>11 DEF ReadMark, Jobs
  <2>2. job'.mk.t = TagMark(src[d].topic)
    BY <2>1 DEF MarkOf
  <2>3. TagMark(src[d].topic) \in Nat \X Int
    BY <1>1, TagMarkType DEF FiniteDBs, SourceDBs
  <2>4. NotAbove(TagMark(src[d].topic), TagMark(src[d].topic))
    BY <2>3 DEF NotAbove
  <2> QED
    BY <1>2, <2>1, <2>2, <2>4, TagsInside
<1>12. CASE FoldTx
  <2> DEFINE st == Folded(Work, job.d, src[job.d], job.mk)
  <2>1. /\ job.pc = "tx" /\ job.d \in Sources /\ job.mk \in Mark
        /\ NotAbove(job.mk.t, TagMark(src[job.d].topic))
    BY <1>12 DEF FoldTx, Inv, Typed, Tagging
  <2>2. Accounted(Work)
    BY <2>1 DEF Inv, WatermarksVouch, Work
  <2>3. MarksAreOld(st) /\ TagsVouch(st)
    BY <1>1, <1>2, <2>1, <2>2, FoldedTags
  <2>4. Commit(st)
    BY <1>12 DEF FoldTx
  <2> HIDE DEF st
  <2>5. job'.kind = job.kind /\ job'.pc \in {"prune", "fold"} /\ UNCHANGED outside
    BY <1>1, <1>12 DEF FoldTx, Jobs
  <2> QED
    BY <2>3, <2>4, <2>5, TagsCommitted
<1>13. CASE EndFolds
  <2> DEFINE st == IF job.skipped THEN Work ELSE LegacyPruned(Work)
  <2>1. st.mark = Work.mark /\ st.topic = Work.topic
    BY <1>1 DEF LegacyPruned, Stores
  <2>2. Commit(st)
    BY <1>13 DEF EndFolds
  <2> HIDE DEF st
  <2>3. MarksAreOld(st) /\ TagsVouch(st)
    BY <1>2, <1>4, <2>1
  <2>4. job'.kind = job.kind /\ job'.pc \in {"carry", "prune"} /\ UNCHANGED outside
    BY <1>1, <1>13 DEF EndFolds, Goto, Jobs
  <2> QED
    BY <2>2, <2>3, <2>4, TagsCommitted
<1>14. CASE Carry
  <2>1. /\ build' = CarriedForward(build, live) /\ live' = live /\ UNCHANGED outside
        /\ job'.pc = "prune"
    BY <1>1, <1>14 DEF Carry, Goto, Jobs
  <2>2. build'.mark = build.mark /\ build'.topic = build.topic
    BY <1>1, <2>1 DEF CarriedForward, Stores
  <2>3. MarksAreOld(build') /\ TagsVouch(build')
    BY <1>2, <1>4, <2>2
  <2> QED
    BY <1>2, <2>1, <2>3, TagsInside
<1>15. CASE Prune
  <2> DEFINE st == TombstonesPruned(Work, tombs)
             doomed == Doomed(Work, tombs)
  <2>1. /\ st.mark = Work.mark
        /\ st.topic = [s \in Sessions |-> IF s \in doomed THEN NoTag ELSE Work.topic[s]]
    BY <1>1 DEF TombstonesPruned, Stores
  <2>2. \A s \in doomed : Deleted(s)
    BY DoomedAreDeleted
  <2>3. Commit(st)
    BY <1>15 DEF Prune
  <2> HIDE DEF st, doomed
  <2>4. MarksAreOld(st) /\ TagsVouch(st)
    BY <1>2, <1>4, <2>1, <2>2
  <2>5. /\ job'.kind = job.kind \/ job'.pc = "idle"
        /\ job'.pc \in {"idle", "swap"} /\ UNCHANGED outside
    BY <1>1, <1>15 DEF Prune, AfterPrune, Idle, Jobs
  <2> QED
    BY <2>3, <2>4, <2>5, TagsCommitted
<1>16. CASE Swap
  <2>1. live' = build /\ build' = EmptyStore /\ job'.pc = "idle" /\ UNCHANGED outside
    BY <1>16 DEF Swap, Idle
  <2> QED
    BY <1>2, <1>3, <2>1, TagsInside
<1> QED
  BY <1>6, <1>7, <1>8, <1>9, <1>10, <1>11, <1>12, <1>13, <1>14, <1>15, <1>16 DEF PassStep

LEMMA TaggingFaultStep == Inv /\ Tagging /\ FaultStep => Tagging'
<1> SUFFICES ASSUME Inv, Tagging, FaultStep PROVE Tagging'
  OBVIOUS
<1>1. /\ src \in [Sources -> FiniteDBs] /\ job \in Jobs
      /\ \A d \in Sources : Timed(src[d].topic)
  BY DEF Inv, Typed, TypeOK, Tagging
<1>2. UNCHANGED <<outside, live>> /\ build' \in {build, EmptyStore}
  BY DEF FaultStep, PruneUnreadable, Fail, Kill
<1>3. job'.pc \in {"idle", "swap"}
  BY <1>1 DEF FaultStep, PruneUnreadable, Fail, Kill, AfterPrune, Idle, Jobs
<1>4. \A d \in Sources : EmptyStore.mark[d] = NoMark
  BY DEF EmptyStore
<1>5. MarksAreOld(build') /\ TagsVouch(build')
  BY <1>1, <1>2, <1>4, TagsCarried DEF Tagging
<1> QED
  BY <1>2, <1>3, <1>5, TagsInside DEF Tagging

LEMMA TaggingInit == Init => Tagging
<1> SUFFICES ASSUME Init PROVE Tagging
  OBVIOUS
<1>1. src \in [Sources -> FiniteDBs] /\ build = EmptyStore /\ job = Idle
  BY InvInit DEF Inv, Typed, Init, Begin
<1>2. ASSUME NEW d \in Sources, NEW s \in Sessions PROVE src[d].topic[s] = NoTag
  <2>1. CASE src[d] = EmptyDB
    BY <2>1 DEF EmptyDB
  <2>2. CASE \E r \in Sessions, b \in BOOLEAN : src[d] = [Reindexed(EmptyDB, r, 1) EXCEPT !.behind = b]
    BY <2>2 DEF Reindexed, EmptyDB
  <2> QED
    BY <2>1, <2>2, IndexedIsNumbered DEF Init, Fresh, Upgraded
<1>3. \A d \in Sources : Timed(src[d].topic)
  BY <1>2 DEF Timed
<1>4. \A d \in Sources : EmptyStore.mark[d] = NoMark
  BY DEF EmptyStore
<1>5. MarksAreOld(EmptyStore) /\ TagsVouch(EmptyStore)
  BY <1>1, <1>3, <1>4, TagsCarried
<1>6. TagsVouch(live)
  <2>1. \A d \in Sources : \A m \in src[d].msgs : m.s \in Sessions
    BY <1>1, IdsArePositive
  <2> QED
    BY <1>2, <2>1 DEF TagsVouch, VouchedFor
<1>7. MarksAreOld(live)
  <2>1. CASE Fresh
    BY <1>5, <2>1 DEF Fresh
  <2>2. CASE Upgraded
    <3>1. live.mark = [d \in Sources |-> IF src[d].behind THEN NoMark ELSE MarkOf(src[d])]
      BY <2>2 DEF Upgraded, OldStore, EmptyStore
    <3>2. ASSUME NEW d \in Sources PROVE NotAbove(live.mark[d].t, TagMark(src[d].topic))
      <4>1. NotAbove(NoMark.t, TagMark(src[d].topic))
        BY <1>4, <1>5 DEF MarksAreOld
      <4>2. TagMark(src[d].topic) \in Nat \X Int
        BY <1>1, TagMarkType DEF FiniteDBs, SourceDBs
      <4>3. NotAbove(TagMark(src[d].topic), TagMark(src[d].topic))
        BY <4>2 DEF NotAbove
      <4>4. MarkOf(src[d]).t = TagMark(src[d].topic)
        BY DEF MarkOf
      <4> QED
        BY <3>1, <4>1, <4>3, <4>4
    <3> QED
      BY <3>2 DEF MarksAreOld
  <2> QED
    BY <2>1, <2>2 DEF Init
<1> QED
  BY <1>1, <1>3, <1>5, <1>6, <1>7 DEF Tagging, Idle

LEMMA TaggingStep == Inv /\ Tagging /\ [Next]_vars /\ [TaggedInOrder]_vars => Tagging'
<1>1. ASSUME Tagging, UNCHANGED vars PROVE Tagging'
  BY <1>1 DEF vars, Tagging, Timed, MarksAreOld, TagsVouch, VouchedFor, Deleted
<1>2. ASSUME Inv, Tagging, SourceStep, [TaggedInOrder]_vars PROVE Tagging'
  BY <1>1, <1>2, TaggingSourceStep
<1> QED
  BY <1>1, <1>2, TaggingPassStep, TaggingFaultStep DEF Next

(* A source that consolidateOne would skip as unchanged has no higher       *)
(* tagging of a session with messages than the store, other than of         *)
(* sessions the user deleted: whatever the interleaving of taggings, passes, *)
(* deletes and faults, as long as each tagging in a database is later than  *)
(* those before it.                                                         *)
THEOREM NoTagMissed == Spec /\ [][TaggedInOrder]_vars => []NoMissedTag
<1>1. Inv /\ Tagging => NoMissedTag
  <2> SUFFICES ASSUME Inv, Tagging, NEW d \in Sources, live.mark[d] = MarkOf(src[d]),
                      NEW s \in Sessions, MessagesOf(src[d], s) # {}, src[d].topic[s] # NoTag
               PROVE  ~Later(src[d].topic[s], live.topic[s]) \/ Deleted(s)
    BY DEF NoMissedTag
  <2>1. src[d] \in FiniteDBs
    BY DEF Inv, Typed
  <2>2. PICK m \in src[d].msgs : m.s = s
    BY DEF MessagesOf
  <2>3. m \in VouchedFor(live, d)
    BY <2>1, MarkOfType DEF VouchedFor
  <2>4. live.mark[d].t = TagMark(src[d].topic)
    BY DEF MarkOf
  <2> QED
    BY <2>2, <2>3, <2>4 DEF Tagging, TagsVouch
<1> QED
  BY <1>1, InvInit, InvStep, TaggingInit, TaggingStep, PTL DEF Spec
=============================================================================
