----------------------------- MODULE DeltaProofs -----------------------------
(* What DeltaSync.tla guarantees for any number of rows and transactions, any
   retention and any endpoint. *)
EXTENDS DeltaSync, TLAPS

\* Only a deleted row has a tombstone, and a row that exists has been written.
Shape ==
    \A e \in Entity :
        /\ deletedAt[e] # None => row[e].state = "gone"
        /\ row[e].state = "live" => row[e].version > 0

\* No transaction in flight, and none to come, can stamp a row before m.
Safe(m) == m <= clock /\ \A t \in Tx : tx[t] # None => m <= tx[t]

Behind ==
    /\ cursor # None => Safe(cursor)
    /\ req.phase # "idle" => Safe(req.mark)
    /\ req.phase \in {"marked", "listed"} => cursor # None /\ cursor <= req.mark

\* What the list read for e is still right, or what happened to e since is
\* ahead of the cursor the client is about to get.
Followed(e) ==
    IF row[e].state = "live"
      THEN \/ req.items[e] = row[e].version
           \/ row[e].at >= req.mark
           \/ req.items[e] = 0 /\ cache[e] = row[e].version
      ELSE \/ req.items[e] = 0
           \/ deletedAt[e] # None /\ deletedAt[e] >= req.mark
           \/ ~DeltaIsResumable(cursor, clock)

Listing == req.phase = "listed" /\ ~late => \A e \in Entity : Followed(e)

IInv == TypeOK /\ Shape /\ Behind /\ NothingMissed /\ Listing

LEMMA InitIInv == Init => IInv
<1> SUFFICES ASSUME Init PROVE IInv
  OBVIOUS
<1> USE DeltaAssumption
<1>1. TypeOK
  <2>1. clock \in Time /\ cursor \in 0..clock \cup {None}
    BY DEF Init, Time
  <2>2. late \in BOOLEAN
    BY DEF Init
  <2>3. /\ deletedAt \in [Entity -> Time \cup {None}] /\ tx \in [Tx -> Time \cup {None}]
        /\ cache \in [Entity -> 0..MaxVersion]
    BY DEF Init, Time
  <2>4. row \in [Entity -> [state : {"fresh", "live", "gone"}, version : 0..MaxVersion, at : Time]]
    BY DEF Init, Time
  <2>5. req \in [phase : {"idle", "marked", "listed", "anchored", "error"}, mark : 0..clock,
                 items : [Entity -> 0..MaxVersion]]
    BY DEF Init, Time
  <2> QED
    BY <2>1, <2>2, <2>3, <2>4, <2>5 DEF TypeOK
<1>2. Shape /\ Behind /\ NothingMissed /\ Listing
  BY DEF Init, Shape, Behind, NothingMissed, Listing
<1> QED
  BY <1>1, <1>2 DEF IInv

LEMMA TickKeeps == IInv /\ Tick => IInv'
<1> SUFFICES ASSUME IInv, Tick PROVE IInv'
  OBVIOUS
<1> USE DeltaAssumption
<1>1. TypeOK'
  BY DEF IInv, TypeOK, Tick, Time
<1>2. Shape'
  BY DEF IInv, Shape, Tick
<1>3. Behind'
  BY DEF IInv, Behind, Safe, Tick, TypeOK, Time
<1>4. cursor # None /\ ~DeltaIsResumable(cursor, clock) => ~DeltaIsResumable(cursor', clock')
  BY DEF IInv, Tick, TypeOK, Time, DeltaIsResumable
<1>5. NothingMissed'
  BY <1>4 DEF IInv, NothingMissed, Announced, Stored, Tick
<1>6. Listing'
  BY <1>4 DEF IInv, Listing, Followed, Behind, Tick
<1> QED
  BY <1>1, <1>2, <1>3, <1>5, <1>6 DEF IInv

LEMMA BeginKeeps == ASSUME NEW t \in Tx, IInv, Begin(t) PROVE IInv'
<1> USE DeltaAssumption
<1>1. TypeOK'
  BY DEF IInv, TypeOK, Begin, Time
<1>2. Shape'
  BY DEF IInv, Shape, Begin
<1>3. Behind'
  BY DEF IInv, Behind, Safe, Begin, TypeOK, Time
<1>4. NothingMissed'
  BY DEF IInv, NothingMissed, Announced, Stored, Begin, DeltaIsResumable
<1>5. Listing'
  BY DEF IInv, Listing, Followed, Begin, DeltaIsResumable
<1> QED
  BY <1>1, <1>2, <1>3, <1>4, <1>5 DEF IInv

LEMMA CommitKeeps ==
  ASSUME NEW t \in Tx, NEW W \in SUBSET Entity, NEW D \in SUBSET Entity, IInv, Commit(t, W, D)
  PROVE  IInv'
<1> USE DeltaAssumption
<1>0. /\ tx[t] \in Time
      /\ cursor # None => cursor <= tx[t]
      /\ req.phase # "idle" => req.mark <= tx[t]
      /\ UNCHANGED <<clock, cursor, cache, req, late>>
  BY DEF IInv, TypeOK, Behind, Safe, Commit
<1>1. \A e \in Entity :
        \/ e \in W /\ row[e].state # "gone" /\ row[e].version < MaxVersion
             /\ row'[e] = Written(row[e], tx[t]) /\ deletedAt'[e] = deletedAt[e]
        \/ e \in D /\ row[e].state = "live" /\ deletedAt'[e] = tx[t]
             /\ row'[e] = [state |-> "gone", version |-> row[e].version, at |-> row[e].at]
        \/ row'[e] = row[e] /\ deletedAt'[e] = deletedAt[e]
  BY DEF Commit
<1>2. TypeOK'
  <2>1. \A e \in Entity : row'[e] \in [state : {"fresh", "live", "gone"}, version : 0..MaxVersion, at : Time]
    <3> DEFINE T == [state : {"fresh", "live", "gone"}, version : 0..MaxVersion, at : Time]
    <3> SUFFICES ASSUME NEW e \in Entity PROVE row'[e] \in T
      OBVIOUS
    <3>1. row[e] \in T
      BY DEF IInv, TypeOK
    <3>2. CASE row[e].version < MaxVersion /\ row'[e] = Written(row[e], tx[t])
      <4>1. row[e].version + 1 \in 0..MaxVersion
        BY <3>1, <3>2
      <4> QED
        BY <1>0, <3>2, <4>1 DEF Written
    <3>3. CASE row'[e] = [state |-> "gone", version |-> row[e].version, at |-> row[e].at]
      BY <3>1, <3>3
    <3>4. CASE row'[e] = row[e]
      BY <3>1, <3>4
    <3> QED
      BY <1>1, <3>2, <3>3, <3>4
  <2>2. row' \in [Entity -> [state : {"fresh", "live", "gone"}, version : 0..MaxVersion, at : Time]]
    <3>1. row' = [e \in Entity |-> row'[e]]
      BY DEF Commit
    <3> QED
      BY <2>1, <3>1
  <2>3. deletedAt' \in [Entity -> Time \cup {None}]
    BY <1>0 DEF IInv, TypeOK, Commit
  <2>4. tx' \in [Tx -> Time \cup {None}]
    BY DEF IInv, TypeOK, Commit
  <2> QED
    BY <1>0, <2>2, <2>3, <2>4 DEF IInv, TypeOK
<1>3. Shape'
  <2> SUFFICES ASSUME NEW e \in Entity
               PROVE  /\ deletedAt'[e] # None => row'[e].state = "gone"
                      /\ row'[e].state = "live" => row'[e].version > 0
    BY DEF Shape
  <2>1. /\ deletedAt[e] # None => row[e].state = "gone"
        /\ row[e].state = "live" => row[e].version > 0
        /\ row[e].version \in Nat
    BY DEF IInv, Shape, TypeOK
  <2>2. CASE row[e].state # "gone" /\ row'[e] = Written(row[e], tx[t]) /\ deletedAt'[e] = deletedAt[e]
    <3>1. row'[e].state = "live" /\ row'[e].version = row[e].version + 1
      BY <2>2 DEF Written
    <3> QED
      BY <2>1, <2>2, <3>1
  <2>3. CASE row'[e] = [state |-> "gone", version |-> row[e].version, at |-> row[e].at]
    BY <2>3
  <2>4. CASE row'[e] = row[e] /\ deletedAt'[e] = deletedAt[e]
    BY <2>1, <2>4
  <2> QED
    BY <1>1, <2>2, <2>3, <2>4
<1>4. Behind'
  <2>1. \A u \in Tx : tx'[u] # None => tx[u] # None /\ tx'[u] = tx[u]
    BY DEF IInv, TypeOK, Commit
  <2> QED
    BY <1>0, <2>1 DEF IInv, Behind, Safe
<1>5. NothingMissed'
  <2> SUFFICES ASSUME cursor # None, ~late, NEW e \in Entity
               PROVE  cache[e] = Stored(e)' \/ Announced(e)'
    BY <1>0 DEF NothingMissed
  <2>1. CASE e \in W /\ row'[e] = Written(row[e], tx[t])
    BY <1>0, <2>1 DEF Announced, Written
  <2>2. CASE /\ deletedAt'[e] = tx[t]
             /\ row'[e] = [state |-> "gone", version |-> row[e].version, at |-> row[e].at]
    BY <1>0, <2>2 DEF Announced, Time
  <2>3. CASE row'[e] = row[e] /\ deletedAt'[e] = deletedAt[e]
    BY <1>0, <2>3 DEF IInv, NothingMissed, Announced, Stored, DeltaIsResumable
  <2> QED
    BY <1>1, <2>1, <2>2, <2>3
<1>6. Listing'
  <2> SUFFICES ASSUME req.phase = "listed", ~late, NEW e \in Entity
               PROVE  Followed(e)'
    BY <1>0 DEF Listing
  <2>1. CASE e \in W /\ row'[e] = Written(row[e], tx[t])
    BY <1>0, <2>1 DEF Followed, Written
  <2>2. CASE /\ deletedAt'[e] = tx[t]
             /\ row'[e] = [state |-> "gone", version |-> row[e].version, at |-> row[e].at]
    BY <1>0, <2>2 DEF Followed, Time
  <2>3. CASE row'[e] = row[e] /\ deletedAt'[e] = deletedAt[e]
    BY <1>0, <2>3 DEF IInv, Listing, Followed, DeltaIsResumable
  <2> QED
    BY <1>1, <2>1, <2>2, <2>3
<1> QED
  BY <1>2, <1>3, <1>4, <1>5, <1>6 DEF IInv

LEMMA SweepKeeps == IInv /\ SweepTombstones => IInv'
<1> SUFFICES ASSUME IInv, SweepTombstones PROVE IInv'
  OBVIOUS
<1> USE DeltaAssumption
<1>0. UNCHANGED <<clock, row, tx, cursor, cache, req, late>>
  BY DEF SweepTombstones
<1>1. \A e \in Entity :
        \/ deletedAt'[e] = deletedAt[e]
        \/ deletedAt[e] # None /\ deletedAt[e] < clock - Retention /\ deletedAt'[e] = None
  BY DEF SweepTombstones
<1>2. TypeOK'
  BY <1>0 DEF IInv, TypeOK, SweepTombstones
<1>3. Shape'
  BY <1>0, <1>1 DEF IInv, Shape
<1>4. Behind'
  BY <1>0 DEF IInv, Behind, Safe
<1>5. NothingMissed'
  <2> SUFFICES ASSUME cursor # None, ~late, NEW e \in Entity
               PROVE  cache[e] = Stored(e)' \/ Announced(e)'
    BY <1>0 DEF NothingMissed
  <2>1. cache[e] = Stored(e) \/ Announced(e)
    BY DEF IInv, NothingMissed
  <2>2. CASE deletedAt'[e] = deletedAt[e]
    BY <1>0, <2>1, <2>2 DEF Announced, Stored, DeltaIsResumable
  <2>3. CASE deletedAt[e] # None /\ deletedAt[e] < clock - Retention /\ deletedAt'[e] = None
    BY <1>0, <2>1, <2>3 DEF IInv, Shape, Announced, Stored, DeltaIsResumable, TypeOK, Time
  <2> QED
    BY <1>1, <2>2, <2>3
<1>6. Listing'
  <2> SUFFICES ASSUME req.phase = "listed", ~late, NEW e \in Entity
               PROVE  Followed(e)'
    BY <1>0 DEF Listing
  <2>1. Followed(e)
    BY DEF IInv, Listing
  <2>2. CASE deletedAt'[e] = deletedAt[e]
    BY <1>0, <2>1, <2>2 DEF Followed, DeltaIsResumable
  <2>3. CASE deletedAt[e] # None /\ deletedAt[e] < clock - Retention /\ deletedAt'[e] = None
    BY <1>0, <2>1, <2>3 DEF IInv, Shape, Behind, Followed, DeltaIsResumable, TypeOK, Time
  <2> QED
    BY <1>1, <2>2, <2>3
<1> QED
  BY <1>2, <1>3, <1>4, <1>5, <1>6 DEF IInv

\* The watermark is safe, and no cursor handed out before is past it.
LEMMA WatermarkIsSafe ==
  ASSUME TypeOK, Behind, NEW m \in Time, Watermark(m)
  PROVE  Safe(m) /\ (cursor # None => cursor <= m) /\ m \in 0..clock
<1> USE DeltaAssumption
<1>1. Safe(m)
  BY DEF Watermark, Open, Safe
<1>2. cursor # None => cursor <= m
  BY DEF Behind, Safe, Watermark, Open
<1> QED
  BY <1>1, <1>2 DEF Safe, Time, TypeOK

LEMMA AskKeeps == IInv /\ Ask => IInv'
<1> SUFFICES ASSUME IInv, Ask PROVE IInv'
  OBVIOUS
<1> USE DeltaAssumption
<1>0. PICK m \in Time :
        /\ Watermark(m)
        /\ IF DeltaIsResumable(cursor, m)
             THEN req' = Marked(m) /\ UNCHANGED <<cursor, cache>>
             ELSE cursor' = None /\ cache' = [e \in Entity |-> 0] /\ UNCHANGED req
  BY DEF Ask
<1>1. req.phase = "idle" /\ cursor # None /\ UNCHANGED <<clock, row, deletedAt, tx, late>>
  BY DEF Ask
<1>2. CASE req' = Marked(m) /\ UNCHANGED <<cursor, cache>>
  <2>1. Safe(m) /\ cursor <= m /\ m \in 0..clock
    BY <1>0, <1>1, WatermarkIsSafe DEF IInv
  <2>2. TypeOK'
    BY <1>1, <1>2, <2>1 DEF IInv, TypeOK, Marked
  <2>3. Behind'
    BY <1>1, <1>2, <2>1 DEF IInv, Behind, Safe, Marked
  <2>4. Shape' /\ NothingMissed' /\ Listing'
    BY <1>1, <1>2 DEF IInv, Shape, NothingMissed, Announced, Stored, DeltaIsResumable, Listing, Marked
  <2> QED
    BY <2>2, <2>3, <2>4 DEF IInv
<1>3. CASE cursor' = None /\ cache' = [e \in Entity |-> 0] /\ UNCHANGED req
  <2>1. TypeOK'
    BY <1>1, <1>3 DEF IInv, TypeOK
  <2>2. Shape' /\ Behind' /\ NothingMissed' /\ Listing'
    BY <1>1, <1>3 DEF IInv, Shape, Behind, NothingMissed, Listing
  <2> QED
    BY <2>1, <2>2 DEF IInv
<1> QED
  BY <1>0, <1>2, <1>3

LEMMA ReadChangedKeeps == IInv /\ ReadChanged => IInv'
<1> SUFFICES ASSUME IInv, ReadChanged PROVE IInv'
  OBVIOUS
<1> USE DeltaAssumption
<1>0. /\ UNCHANGED <<clock, row, deletedAt, tx, cursor, cache, late>>
      /\ req'.mark = req.mark /\ req'.phase \in {"listed", "error"}
      /\ req.phase = "marked" /\ cursor # None
      /\ req'.items = [e \in Entity |-> IF Changed(e) THEN row[e].version ELSE 0]
  BY DEF ReadChanged, IInv, Behind
<1>1. TypeOK'
  <2>1. req'.items \in [Entity -> 0..MaxVersion]
    BY <1>0 DEF IInv, TypeOK
  <2>2. req' = [phase |-> req'.phase, mark |-> req.mark, items |-> req'.items]
    BY DEF ReadChanged
  <2> QED
    BY <1>0, <2>1, <2>2 DEF IInv, TypeOK
<1>2. Shape' /\ Behind' /\ NothingMissed'
  BY <1>0 DEF IInv, Shape, Behind, Safe, NothingMissed, Announced, Stored, DeltaIsResumable
<1>3. Listing'
  <2> SUFFICES ASSUME ~late, NEW e \in Entity PROVE Followed(e)'
    BY <1>0 DEF Listing
  <2>1. cache[e] = Stored(e) \/ Announced(e)
    BY <1>0 DEF IInv, NothingMissed
  <2>2. CASE row[e].state = "live"
    BY <1>0, <2>1, <2>2 DEF Followed, Changed, Stored, Announced
  <2>3. CASE row[e].state # "live"
    BY <1>0, <2>3 DEF Followed, Changed
  <2> QED
    BY <2>2, <2>3
<1> QED
  BY <1>1, <1>2, <1>3 DEF IInv

LEMMA ReadDeletedKeeps == IInv /\ ReadDeleted => IInv'
<1> SUFFICES ASSUME IInv, ReadDeleted PROVE IInv'
  OBVIOUS
<1> USE DeltaAssumption
<1>0. /\ req.phase = "listed" /\ cursor # None /\ cursor <= req.mark /\ Safe(req.mark)
      /\ UNCHANGED <<clock, row, deletedAt, tx>>
      /\ cursor' = req.mark /\ req' = Idle
      /\ late' = (late \/ ~DeltaIsResumable(cursor, clock))
  BY DEF ReadDeleted, IInv, Behind
<1>1. \A e \in Entity :
        cache'[e] = IF Dropped(e) THEN 0 ELSE IF req.items[e] > 0 THEN req.items[e] ELSE cache[e]
  BY DEF ReadDeleted
<1>2. TypeOK'
  <2>1. cache' \in [Entity -> 0..MaxVersion]
    BY DEF ReadDeleted, IInv, TypeOK
  <2>2. Idle \in [phase : {"idle", "marked", "listed", "anchored", "error"}, mark : 0..clock,
                  items : [Entity -> 0..MaxVersion]]
    BY DEF Idle, IInv, TypeOK, Time
  <2>3. late' \in BOOLEAN
    BY <1>0
  <2> QED
    BY <1>0, <2>1, <2>2, <2>3 DEF IInv, TypeOK
<1>3. Shape' /\ Behind' /\ Listing'
  BY <1>0 DEF IInv, Shape, Behind, Safe, Listing, Idle, TypeOK
<1>4. NothingMissed'
  <2> SUFFICES ASSUME ~late, DeltaIsResumable(cursor, clock), NEW e \in Entity
               PROVE  cache'[e] = Stored(e)' \/ Announced(e)'
    BY <1>0 DEF NothingMissed
  <2>0. Stored(e)' = Stored(e)
    BY <1>0 DEF Stored
  <2>1. cache[e] = Stored(e) \/ Announced(e)
    BY <1>0 DEF IInv, NothingMissed
  <2>2. Followed(e)
    BY <1>0 DEF IInv, Listing
  <2>3. /\ deletedAt[e] # None => row[e].state = "gone"
        /\ row[e].state = "live" => row[e].version > 0
        /\ cursor \in Int /\ req.mark \in Int /\ row[e].at \in Int /\ row[e].version \in Int
        /\ deletedAt[e] # None => deletedAt[e] \in Int
        /\ req.items[e] \in Nat /\ cache[e] \in Nat
    BY <1>0 DEF IInv, Shape, TypeOK, Time
  <2>4. CASE row[e].state = "live"
    BY <1>0, <1>1, <2>0, <2>2, <2>3, <2>4 DEF Followed, Dropped, Stored, Announced
  <2>5. CASE row[e].state # "live"
    <3>1. Stored(e) = 0
      BY <2>5 DEF Stored
    <3>2. CASE Dropped(e)
      BY <1>1, <2>0, <3>1, <3>2
    <3>3. CASE ~Dropped(e)
      <4>1. req.items[e] = 0
        BY <1>0, <2>2, <2>3, <2>5, <3>3 DEF Followed, Dropped
      <4>2. cache[e] = 0
        BY <2>1, <2>3, <2>5, <3>1, <3>3 DEF Announced, Dropped
      <4> QED
        BY <1>1, <2>0, <3>1, <3>3, <4>1, <4>2
    <3> QED
      BY <3>2, <3>3
  <2> QED
    BY <2>4, <2>5
<1> QED
  BY <1>2, <1>3, <1>4 DEF IInv

LEMMA LoseKeeps == IInv /\ Lose => IInv'
<1> SUFFICES ASSUME IInv, Lose PROVE IInv'
  OBVIOUS
<1> USE DeltaAssumption
<1>1. TypeOK'
  BY DEF IInv, TypeOK, Lose, Idle, Time
<1>2. Shape' /\ Behind' /\ NothingMissed' /\ Listing'
  BY DEF IInv, Shape, Behind, Safe, NothingMissed, Announced, Stored, DeltaIsResumable, Listing, Lose, Idle
<1> QED
  BY <1>1, <1>2 DEF IInv

LEMMA AnchorKeeps == IInv /\ Anchor => IInv'
<1> SUFFICES ASSUME IInv, Anchor PROVE IInv'
  OBVIOUS
<1> USE DeltaAssumption
<1>0. PICK m \in Time : Watermark(m) /\ req' = [Marked(m) EXCEPT !.phase = "anchored"]
  BY DEF Anchor
<1>1. cursor = None /\ UNCHANGED <<clock, row, deletedAt, tx, cursor, cache, late>>
  BY DEF Anchor
<1>2. req' = [phase |-> "anchored", mark |-> m, items |-> [e \in Entity |-> 0]]
  BY <1>0 DEF Marked
<1>3. Safe(m) /\ m \in 0..clock
  BY <1>0, WatermarkIsSafe DEF IInv
<1>4. TypeOK'
  BY <1>1, <1>2, <1>3 DEF IInv, TypeOK
<1>5. Shape' /\ Behind' /\ NothingMissed' /\ Listing'
  BY <1>1, <1>2, <1>3 DEF IInv, Shape, Behind, Safe, NothingMissed, Listing
<1> QED
  BY <1>4, <1>5 DEF IInv

LEMMA FetchAllKeeps == IInv /\ FetchAll => IInv'
<1> SUFFICES ASSUME IInv, FetchAll PROVE IInv'
  OBVIOUS
<1> USE DeltaAssumption
<1>1. TypeOK'
  <2>1. cache' \in [Entity -> 0..MaxVersion]
    BY DEF FetchAll, Stored, IInv, TypeOK
  <2>2. Idle \in [phase : {"idle", "marked", "listed", "anchored", "error"}, mark : 0..clock,
                  items : [Entity -> 0..MaxVersion]]
    BY DEF Idle, IInv, TypeOK, Time
  <2>3. cursor' \in 0..clock /\ late' \in BOOLEAN
    BY DEF FetchAll, IInv, TypeOK
  <2>4. req' = Idle /\ UNCHANGED <<clock, row, deletedAt, tx>>
    BY DEF FetchAll
  <2> QED
    BY <2>1, <2>2, <2>3, <2>4 DEF IInv, TypeOK
<1>2. Shape' /\ Behind' /\ Listing'
  BY DEF IInv, Shape, Behind, Safe, Listing, FetchAll, Idle, TypeOK
<1>3. NothingMissed'
  BY DEF NothingMissed, Stored, FetchAll
<1> QED
  BY <1>1, <1>2, <1>3 DEF IInv

LEMMA Inductive == IInv /\ [Next]_vars => IInv'
<1> SUFFICES ASSUME IInv, [Next]_vars PROVE IInv'
  OBVIOUS
<1>1. CASE UNCHANGED vars
  BY <1>1 DEF vars, IInv, TypeOK, Shape, Behind, Safe, NothingMissed, Announced, Stored,
              DeltaIsResumable, Listing, Followed
<1>2. CASE Next
  BY <1>2, TickKeeps, BeginKeeps, CommitKeeps, SweepKeeps, AskKeeps, ReadChangedKeeps,
     ReadDeletedKeeps, LoseKeeps, AnchorKeeps, FetchAllKeeps DEF Next
<1> QED
  BY <1>1, <1>2

LEMMA Invariance == Spec => []IInv
BY InitIInv, Inductive, PTL DEF Spec

(* The state keeps its types, and no instant a client is given is ahead of the
   clock. *)
THEOREM TypeCorrect == Spec => []TypeOK
<1>1. IInv => TypeOK
  BY DEF IInv
<1> QED
  BY Invariance, <1>1, PTL

(* deltaWatermark and the inclusive comparison make delta sync at-least-once: for
   any number of overlapping transactions, however long they stay open, no
   insert, update or deletion falls between two deltas of a client that was not
   served past the retention window. *)
THEOREM DeltaLosesNothing == Spec => []NothingMissed
<1>1. IInv => NothingMissed
  BY DEF IInv
<1> QED
  BY Invariance, <1>1, PTL

=============================================================================
