---------------------------- MODULE ListenerProofs ----------------------------
(***************************************************************************)
(* Proofs about Listener and the Platform it follows, for any number of    *)
(* callers, threads, events and faults.                                    *)
(***************************************************************************)
EXTENDS Listener, FiniteSetTheorems, SequenceTheorems, TLAPS

ItemRow == [live : BOOLEAN, stock : Int, sales : Int]
Events == {OrderCreated, StockUpdated, ProductUpdated, SalesUpdated, ItemDeleted} \cup Inserted

\* What an operation has yet to announce: the last of it is always the item's.
Announcements ==
    {<<OrderCreated, StockUpdated>>, <<StockUpdated>>, <<ProductUpdated>>, <<SalesUpdated>>}

Writing == [pc : {"write"}, what : {"order", "stock", "sales", "other"}, n : Int,
            old : ItemRow, events : Announcements]
Emitting == [pc : {"emit"}, events : Announcements]

PlatformType ==
    /\ item \in ItemRow
    /\ timeline \in Seq(Events)
    /\ call \in [Callers -> {Idle} \cup Writing \cup Emitting]
    /\ base \in Int /\ raced \in BOOLEAN
    /\ Len(timeline) + Cardinality(Announced) <= MaxEvents

Acting == {"fetch", "upsert", "mark", "act"}
Outcomes == {"skipped", "error", "critical", "creative", "analytical", "hybrid"}
Hand == [pc : Acting \cup {"meta"}, ev : Nat, row : ItemRow, outcome : Outcomes]

\* The batch is what lies behind the cursor; every event at hand is in the timeline.
ListenerType ==
    /\ cursor \in Nat
    /\ loop \in {"poll", "submit", "advance", "drain"}
    /\ batch \in Seq(Nat)
    /\ \A k \in 1..Len(batch) : batch[k] = cursor + k
    /\ cursor + Len(batch) <= Len(timeline)
    /\ loop \in {"submit", "advance"} <=> batch # <<>>
    /\ queue \in Seq(1..Len(timeline))
    /\ th \in [Threads -> {Free} \cup Hand]
    /\ \A t \in Threads : th[t] # Free => th[t].ev \in 1..Len(timeline)
    /\ meta \in [Ids -> Outcomes \cup {"pending"}]
    /\ mirror \in [status : {"none", "active", "deleted"}, stock : Int]
    /\ acted \in [Ids -> Nat]
    /\ lost \in SUBSET Ids
    /\ again \in Nat
    /\ excused \in BOOLEAN
    /\ faults \in 0..MaxFaults

TypeInv == PlatformType /\ ListenerType

-----------------------------------------------------------------------------
(* Nothing skipped                                                         *)

\* Between submitting an event and moving the cursor the event is accounted for
\* like those behind the cursor.
Submitted == IF loop = "advance" THEN cursor + 1 ELSE cursor
AccountedInv ==
    \A i \in 1..Submitted : meta[i] # "pending" \/ i \in Elems(queue) \cup InHand \cup lost

-----------------------------------------------------------------------------
(* Nothing done twice                                                      *)

Positions(s, i) == {k \in 1..Len(s) : s[k] = i}
Actors(f, i) == {t \in Threads : f[t].pc \in Acting /\ f[t].ev = i}
Copies(i) == Cardinality(Positions(queue, i)) + Cardinality(Actors(th, i)) + acted[i]

\* Every copy of an event in the pool was submitted, once and again after every
\* stop between the two steps of the loop.
CopiesInv ==
    \A i \in Ids : Copies(i) <= IF i <= Submitted THEN 1 + again
                                ELSE IF i = cursor + 1 THEN again ELSE 0

EchoInv ==
    /\ \A i \in Ids : i > Len(timeline) => acted[i] = 0
    /\ \A i \in 1..Len(timeline) : Skipped(timeline[i]) => acted[i] = 0
    /\ \A t \in Threads : th[t].pc \in Acting => ~Skipped(timeline[th[t].ev])

-----------------------------------------------------------------------------
(* The mirror                                                              *)

\* Events that no thread has taken yet.
Untaken == Elems(queue) \cup (Submitted + 1 .. Len(timeline))
IsItem(i) == ~Skipped(timeline[i]) /\ timeline[i].subject = "Item"
RefreshAhead == (\E c \in Callers : call[c].pc = "emit") \/ \E i \in Untaken : IsItem(i)
DeletionAhead == \E i \in Untaken : timeline[i].name = "item.deleted"
Same(row) == row.live /\ row.stock = item.stock

Mirroring == {"fetch", "upsert", "mark"}

\* Which events reach the mirror: the item's, and a deletion only of what is gone.
ItemEvents ==
    /\ \A i \in 1..Len(timeline) : timeline[i].name = "item.deleted" => ~item.live /\ IsItem(i)
    /\ \A i \in 1..Len(timeline) :
           timeline[i].name \in {"stock.updated", "product.updated"} => IsItem(i)
    /\ \A t \in Threads : th[t].pc \in Mirroring => IsItem(th[t].ev)
    /\ \A t \in Threads : th[t].pc = "mark" => timeline[th[t].ev].name = "item.deleted"

\* No second thread works on the item.
OneAtATime ==
    \A t, u \in Busy : t # u => ~(ev(t).subject = "Item" /\ ev(u).subject = "Item")

\* The mirror of a live item is right, or something still to come will set it right;
\* a row that was fetched is the item's, or it will be fetched again.
LiveMirror ==
    item.live =>
        /\ Mentioned => \/ mirror = [status |-> "active", stock |-> item.stock]
                        \/ RefreshAhead
                        \/ \E t \in Threads : th[t].pc \in {"fetch", "upsert"}
        /\ \A t \in Threads : th[t].pc = "upsert" => Same(th[t].row) \/ RefreshAhead

\* The same of an item that is gone.
GoneMirror ==
    ~item.live =>
        /\ \/ mirror.status # "active"
           \/ DeletionAhead
           \/ \E t \in Threads : th[t].pc \in Mirroring /\ timeline[th[t].ev].name = "item.deleted"
        /\ \A t \in Threads : th[t].pc = "upsert" /\ th[t].row.live => DeletionAhead

MirrorInv == ItemEvents /\ (~excused => OneAtATime /\ LiveMirror /\ GoneMirror)

-----------------------------------------------------------------------------
(* The platform                                                            *)

\* Appending an event keeps the events there are.
LEMMA Appended ==
    ASSUME timeline \in Seq(Events), NEW e \in Events, timeline' = Append(timeline, e)
    PROVE  /\ timeline' \in Seq(Events)
           /\ Len(timeline') = Len(timeline) + 1
           /\ \A i \in 1..Len(timeline) : timeline'[i] = timeline[i]
           /\ timeline'[Len(timeline) + 1] = e
BY AppendProperties

\* A caller announces one or two events, no deletion; one alone is of the item.
LEMMA AnnouncementType ==
    ASSUME NEW s \in Announcements
    PROVE  /\ s # <<>> /\ s \in Seq(Events)
           /\ Len(s) \in 1..2
           /\ Head(s) \in Events
           /\ Len(s) = 1 => s[1].subject = "Item" /\ s[1].name # "item.deleted"
                            /\ s[1].source = "fake_platform"
           /\ Len(s) # 1 => Tail(s) \in Announcements /\ Len(Tail(s)) = Len(s) - 1
           /\ Head(s).source = "fake_platform" /\ Head(s).name # "item.deleted"
           /\ Head(s).name \in {"stock.updated", "product.updated"} => Head(s).subject = "Item"
<1>. DEFINE Fact(r) == /\ r # <<>> /\ r \in Seq(Events)
                       /\ Len(r) \in 1..2
                       /\ Head(r) \in Events
                       /\ Head(r).source = "fake_platform" /\ Head(r).name # "item.deleted"
                       /\ Head(r).name \in {"stock.updated", "product.updated"} =>
                              Head(r).subject = "Item"
<1>1. /\ OrderCreated \in Events /\ StockUpdated \in Events
      /\ ProductUpdated \in Events /\ SalesUpdated \in Events
    BY DEF Events
<1>2. CASE s = <<OrderCreated, StockUpdated>>
    <2>1. Len(s) = 2 /\ Head(s) = OrderCreated /\ Tail(s) = <<StockUpdated>>
        BY <1>1, <1>2
    <2>2. Fact(s)
        BY <1>1, <1>2, <2>1 DEF OrderCreated, Event
    <2>. QED  BY <2>1, <2>2 DEF Announcements
<1>3. ASSUME NEW e \in {StockUpdated, ProductUpdated, SalesUpdated}, s = <<e>>
      PROVE  Fact(s) /\ Len(s) = 1 /\ s[1].subject = "Item" /\ s[1].name # "item.deleted"
                     /\ s[1].source = "fake_platform"
    <2>1. Len(s) = 1 /\ Head(s) = e /\ s[1] = e
        BY <1>1, <1>3
    <2>. QED  BY <1>1, <1>3, <2>1 DEF StockUpdated, ProductUpdated, SalesUpdated, Event
<1>. QED  BY <1>2, <1>3 DEF Announcements

\* There are finitely many events still to be announced, now and behind a step.
LEMMA AnnouncedFinite ==
    /\ IsFiniteSet(Announced) /\ Cardinality(Announced) \in Nat
    /\ IsFiniteSet(Announced') /\ Cardinality(Announced') \in Nat
<1>1. IsFiniteSet(1..2)
    BY FS_Interval, 1 \in Int, 2 \in Int
<1>2. IsFiniteSet(Callers \X (1..2))
    BY <1>1, PlatformAssumption, FS_Product
<1>3. IsFiniteSet(Announced) /\ IsFiniteSet(Announced')
    <2>1. Announced \subseteq Callers \X (1..2) /\ Announced' \subseteq Callers \X (1..2)
        BY DEF Announced
    <2>. QED  BY <1>2, <2>1, FS_Subset
<1>. QED  BY <1>3, FS_CardinalityType

\* One element more counts for one at most.
LEMMA AddOne ==
    ASSUME NEW S, IsFiniteSet(S), NEW x, NEW T, T \subseteq S \cup {x}
    PROVE  /\ IsFiniteSet(T)
           /\ Cardinality(S) \in Nat /\ Cardinality(T) \in Nat
           /\ Cardinality(T) <= Cardinality(S) + 1
<1>. DEFINE U == S \cup {x}
<1>1. Cardinality(S) \in Nat
    BY FS_CardinalityType
<1>2. IsFiniteSet(U) /\ Cardinality(U) = IF x \in S THEN Cardinality(S) ELSE Cardinality(S) + 1
    BY FS_AddElement
<1>. HIDE DEF U
<1>3. IsFiniteSet(T) /\ Cardinality(T) <= Cardinality(U)
    BY <1>2, FS_Subset DEF U
<1>4. Cardinality(T) \in Nat
    BY <1>3, FS_CardinalityType
<1>. QED  BY <1>1, <1>2, <1>3, <1>4

\* What is left to announce never outgrows the room that was left for it.
LEMMA AnnouncedGrows ==
    ASSUME PlatformType, NEW c \in Callers, NEW s \in Announcements,
           NEW op, op.pc # "idle", op.events = s, call' = [call EXCEPT ![c] = op]
    PROVE  Cardinality(Announced') <= Cardinality(Announced) + Len(s)
<1>1. Len(s) \in 1..2
    BY AnnouncementType
<1>2. ASSUME NEW p \in Announced', p \notin Announced
      PROVE  p = <<c, 1>> \/ (p = <<c, 2>> /\ Len(s) = 2)
    <2>1. p \in Callers \X (1..2) /\ p = <<p[1], p[2]>>
        BY DEF Announced
    <2>2. call' \in [Callers -> {Idle, op} \cup Writing \cup Emitting]
        BY DEF PlatformType
    <2>3. p[1] = c
        BY <1>2, <2>1 DEF Announced, PlatformType
    <2>4. p[2] <= Len(s)
        BY <2>3, <2>2, <2>1 DEF Announced, PlatformType
    <2>. QED  BY <1>1, <2>1, <2>3, <2>4
<1>3. CASE Len(s) = 1
    <2>1. Announced' \subseteq Announced \cup {<<c, 1>>}
        BY <1>2, <1>3
    <2>. QED  BY <1>3, <2>1, AnnouncedFinite, AddOne
<1>4. CASE Len(s) = 2
    <2>. DEFINE One == Announced \cup {<<c, 1>>}
    <2>1. Announced' \subseteq One \cup {<<c, 2>>}
        BY <1>2
    <2>2. IsFiniteSet(One) /\ Cardinality(One) <= Cardinality(Announced) + 1
        BY AnnouncedFinite, AddOne
    <2>. HIDE DEF One
    <2>3. /\ Cardinality(Announced') <= Cardinality(One) + 1
          /\ Cardinality(One) \in Nat /\ Cardinality(Announced') \in Nat
        BY <2>1, <2>2, AddOne
    <2>. QED  BY <1>4, <2>2, <2>3, AnnouncedFinite
<1>. QED  BY <1>1, <1>3, <1>4

\* Announcing one event takes one away.
LEMMA AnnouncedShrinks ==
    ASSUME PlatformType, NEW c \in Callers, call[c].pc = "emit",
           call' = [call EXCEPT ![c] = IF Len(@.events) = 1 THEN Idle
                                       ELSE [pc |-> "emit", events |-> Tail(@.events)]]
    PROVE  Cardinality(Announced') + 1 <= Cardinality(Announced)
<1>. DEFINE s == call[c].events
<1>1. call[c] \in Emitting /\ s \in Announcements
    BY DEF PlatformType, Idle, Writing, Emitting
<1>2. Len(s) \in 1..2 /\ (Len(s) # 1 => Len(Tail(s)) = Len(s) - 1)
    BY <1>1, AnnouncementType
<1>3. <<c, Len(s)>> \in Announced
    <2>. DEFINE p == <<c, Len(s)>>
    <2>1. p \in Callers \X (1..2) /\ p[1] = c /\ p[2] = Len(s)
        BY <1>2
    <2>. HIDE DEF p
    <2>2. p \in Announced
        BY <1>2, <2>1 DEF Announced
    <2>. QED  BY <2>2 DEF p
<1>4. Announced' \subseteq Announced \ {<<c, Len(s)>>}
    <2>. SUFFICES ASSUME NEW p \in Announced' PROVE p \in Announced /\ p # <<c, Len(s)>>
        OBVIOUS
    <2>1. CASE p[1] # c
        BY <2>1 DEF Announced, PlatformType
    <2>2. CASE p[1] = c /\ Len(s) = 1
        BY <2>2 DEF Announced, PlatformType, Idle
    <2>3. CASE p[1] = c /\ Len(s) # 1
        <3>1. call'[c].events = Tail(s)
            BY <2>3 DEF PlatformType
        <3>2. p \in Callers \X (1..2) /\ p[2] <= Len(s) - 1
            BY <1>2, <2>3, <3>1 DEF Announced
        <3>. QED  BY <1>1, <1>2, <2>3, <3>2 DEF Announced, Emitting
    <2>. QED  BY <2>1, <2>2, <2>3
<1>5. /\ IsFiniteSet(Announced \ {<<c, Len(s)>>})
      /\ Cardinality(Announced \ {<<c, Len(s)>>}) = Cardinality(Announced) - 1
    BY <1>3, AnnouncedFinite, FS_RemoveElement
<1>6. Cardinality(Announced') <= Cardinality(Announced \ {<<c, Len(s)>>})
    BY <1>4, <1>5, FS_Subset
<1>. QED  BY <1>5, <1>6, AnnouncedFinite

\* What an operation reads and will write.
LEMMA BeginType ==
    ASSUME PlatformType, NEW c \in Callers, NEW what, NEW n, NEW s, Begin(c, what, n, s),
           what \in {"order", "stock", "sales", "other"}, n \in Int, s \in Announcements
    PROVE  PlatformType' /\ UNCHANGED <<item, timeline, base, raced>>
<1>. DEFINE op == [pc |-> "write", what |-> what, n |-> n, old |-> item, events |-> s]
<1>1. op \in Writing /\ op.pc # "idle" /\ op.events = s
    BY DEF Writing, PlatformType
<1>2. call' = [call EXCEPT ![c] = op] /\ UNCHANGED <<item, timeline, base, raced>>
    BY DEF Begin
<1>. HIDE DEF op
<1>3. call' \in [Callers -> {Idle} \cup Writing \cup Emitting]
    BY <1>1, <1>2 DEF PlatformType
<1>4. Len(timeline') + Cardinality(Announced') <= MaxEvents
    <2>1. Cardinality(Announced') <= Cardinality(Announced) + Len(s)
        BY <1>1, <1>2, AnnouncedGrows
    <2>2. Len(timeline) + Cardinality(Announced) + Len(s) <= MaxEvents
        BY DEF Begin, Room
    <2>. QED  BY <1>2, <2>1, <2>2, AnnouncedFinite, AnnouncementType, PlatformAssumption
                 DEF PlatformType
<1>. QED  BY <1>2, <1>3, <1>4 DEF PlatformType

\* A caller that begins keeps the types and changes no row.
LEMMA BeginsType ==
    ASSUME PlatformType, NEW c \in Callers, create_order(c) \/ Update(c)
    PROVE  PlatformType' /\ UNCHANGED <<item, timeline, base, raced>>
<1>1. CASE create_order(c)
    <2>1. PICK q \in Quantities : Begin(c, "order", q, <<OrderCreated, StockUpdated>>)
        BY <1>1 DEF create_order
    <2>2. <<OrderCreated, StockUpdated>> \in Announcements /\ q \in Int
        BY PlatformAssumption DEF Announcements
    <2>. QED  BY <2>1, <2>2, BeginType
<1>2. CASE Update(c)
    <2>1. PICK u \in Updates : Begin(c, u.what, u.n, <<u.event>>)
        BY <1>2 DEF Update
    <2>2. /\ u.n \in Int
          /\ u.what \in {"stock", "sales", "other"}
          /\ u.event \in {StockUpdated, ProductUpdated, SalesUpdated}
        BY PlatformAssumption
        DEF update_stock, update_product, update_name, update_discount, update_sales
    <2>3. <<u.event>> \in Announcements
        BY <2>2 DEF Announcements
    <2>. QED  BY <2>1, <2>2, <2>3, BeginType
<1>. QED  BY <1>1, <1>2

\* What a commit writes.
LEMMA CommitType ==
    ASSUME PlatformType, NEW c \in Callers, Commit(c)
    PROVE  /\ PlatformType' /\ UNCHANGED timeline
           /\ item'.live = item.live
           /\ call[c] \in Writing
           /\ call' = [call EXCEPT ![c] = [pc |-> "emit", events |-> call[c].events]]
           /\ call[c].what \in {"sales", "other"} => item'.stock = item.stock
<1>1. /\ call[c] \in Writing /\ call[c].old \in ItemRow /\ call[c].n \in Int
      /\ call[c].events \in Announcements
      /\ call[c].what \in {"order", "stock", "sales", "other"}
    BY DEF Commit, PlatformType, Idle, Writing, Emitting
<1>2. /\ item' \in ItemRow /\ item'.live = item.live
      /\ call[c].what \in {"sales", "other"} => item'.stock = item.stock
    <2>1. item \in ItemRow /\ item' = IF item.live THEN Written(item, call[c]) ELSE item
        BY DEF Commit, PlatformType
    <2>2. CASE call[c].what = "order"
        <3>1. PICK x, y \in Int : Written(item, call[c]) = [item EXCEPT !.stock = x, !.sales = y]
            <4>1. call[c].old.stock - call[c].n \in Int /\ item.sales + call[c].n \in Int
                BY <1>1, <2>1 DEF ItemRow
            <4>. QED  BY <2>2, <4>1 DEF Written
        <3>. QED  BY <2>1, <2>2, <3>1 DEF ItemRow
    <2>3. CASE call[c].what \in {"stock", "sales", "other"}
        BY <1>1, <2>1, <2>3 DEF Written, ItemRow
    <2>. QED  BY <1>1, <2>2, <2>3
<1>3. base' \in Int /\ raced' \in BOOLEAN
    <2>1. item'.stock \in Int /\ item'.sales \in Int
        BY <1>2 DEF ItemRow
    <2>2. base' \in Int
        BY <2>1 DEF Commit, PlatformType
    <2>3. raced' \in BOOLEAN
        BY <1>1 DEF Commit, PlatformType
    <2>. QED  BY <2>2, <2>3
<1>4. [pc |-> "emit", events |-> call[c].events] \in Emitting
    BY <1>1 DEF Emitting
<1>5. call' = [call EXCEPT ![c] = [pc |-> "emit", events |-> call[c].events]]
    BY DEF Commit
<1>6. call' \in [Callers -> {Idle} \cup Writing \cup Emitting]
    BY <1>4, <1>5 DEF PlatformType
<1>7. Announced' = Announced
    <2>1. call[c].pc = "write" /\ call'[c].pc = "emit" /\ call'[c].events = call[c].events
          /\ \A d \in Callers \ {c} : call'[d] = call[d]
        BY <1>5 DEF PlatformType, Commit
    <2>2. \A d \in Callers : /\ (call'[d].pc = "idle" <=> call[d].pc = "idle")
                             /\ call'[d].events = call[d].events
        BY <2>1
    <2>3. \A p \in Callers \X (1..2) : p[1] \in Callers
        OBVIOUS
    <2>. QED  BY <2>2, <2>3 DEF Announced
<1>. QED  BY <1>1, <1>2, <1>3, <1>5, <1>6, <1>7 DEF PlatformType, Commit

\* emit_timeline_event appends the first event its caller still has.
LEMMA EmitType ==
    ASSUME PlatformType, NEW c \in Callers, emit_timeline_event(c)
    PROVE  /\ PlatformType' /\ UNCHANGED <<item, base, raced>>
           /\ call[c].events \in Announcements
           /\ timeline' = Append(timeline, Head(call[c].events))
           /\ Head(call[c].events) \in Events
<1>1. call[c] \in Emitting /\ call[c].events \in Announcements
    BY DEF emit_timeline_event, PlatformType, Idle, Writing, Emitting
<1>2. Head(call[c].events) \in Events
    BY <1>1, AnnouncementType
<1>3. timeline' \in Seq(Events) /\ Len(timeline') = Len(timeline) + 1
    BY <1>2, Appended DEF PlatformType, emit_timeline_event
<1>4. call' \in [Callers -> {Idle} \cup Writing \cup Emitting]
    <2>1. Len(call[c].events) # 1 => [pc |-> "emit", events |-> Tail(call[c].events)] \in Emitting
        BY <1>1, AnnouncementType DEF Emitting
    <2>. QED  BY <2>1 DEF emit_timeline_event, PlatformType
<1>5. Cardinality(Announced') + 1 <= Cardinality(Announced)
    BY AnnouncedShrinks DEF emit_timeline_event
<1>6. Len(timeline') + Cardinality(Announced') <= MaxEvents
    BY <1>3, <1>5, AnnouncedFinite, PlatformAssumption DEF PlatformType
<1>. QED  BY <1>1, <1>2, <1>3, <1>4, <1>6 DEF PlatformType, emit_timeline_event

\* An insert appends one event.
LEMMA InsertType ==
    ASSUME PlatformType, Insert
    PROVE  /\ PlatformType' /\ UNCHANGED <<item, call, base, raced>>
           /\ \E e \in Inserted : timeline' = Append(timeline, e)
<1>1. PICK e \in Inserted : timeline' = Append(timeline, e)
    BY DEF Insert
<1>2. e \in Events
    BY DEF Events
<1>3. timeline' \in Seq(Events) /\ Len(timeline') = Len(timeline) + 1
    BY <1>1, <1>2, Appended DEF PlatformType
<1>4. Announced' = Announced
    BY DEF Insert, Announced
<1>5. Len(timeline') + Cardinality(Announced') <= MaxEvents
    BY <1>3, <1>4, AnnouncedFinite, PlatformAssumption DEF PlatformType, Insert, Room
<1>. QED  BY <1>1, <1>3, <1>5 DEF PlatformType, Insert

\* A deletion takes the item and appends its event.
LEMMA DeleteType ==
    ASSUME PlatformType, Delete
    PROVE  /\ PlatformType' /\ UNCHANGED <<call, base, raced>>
           /\ item' = Gone
           /\ timeline' = Append(timeline, ItemDeleted) /\ ItemDeleted \in Events
<1>1. ItemDeleted \in Events
    BY DEF Events
<1>2. timeline' = Append(timeline, ItemDeleted) /\ item' = Gone /\ UNCHANGED <<call, base, raced>>
    BY DEF Delete
<1>3. timeline' \in Seq(Events) /\ Len(timeline') = Len(timeline) + 1
    BY <1>1, <1>2, Appended DEF PlatformType
<1>4. Announced' = Announced
    BY <1>2 DEF Announced
<1>5. Len(timeline') + Cardinality(Announced') <= MaxEvents
    BY <1>3, <1>4, AnnouncedFinite, PlatformAssumption DEF PlatformType, Delete, Room
<1>6. item' \in ItemRow
    BY <1>2 DEF Gone, ItemRow
<1>. QED  BY <1>1, <1>2, <1>3, <1>5, <1>6 DEF PlatformType

\* A caller that dies changes no row.
LEMMA DiesType ==
    ASSUME PlatformType, NEW c \in Callers, CallerDies(c)
    PROVE  PlatformType' /\ UNCHANGED <<item, timeline, base, raced>>
<1>1. call' \in [Callers -> {Idle} \cup Writing \cup Emitting]
    BY DEF CallerDies, PlatformType
<1>2. Announced' \subseteq Announced
    <2>1. \A d \in Callers : call'[d] = call[d] \/ call'[d].pc = "idle"
        BY DEF CallerDies, PlatformType, Idle
    <2>2. \A p \in Callers \X (1..2) : p[1] \in Callers
        OBVIOUS
    <2>. QED  BY <2>1, <2>2 DEF Announced
<1>3. Cardinality(Announced') <= Cardinality(Announced)
    BY <1>2, AnnouncedFinite, FS_Subset
<1>4. Len(timeline') + Cardinality(Announced') <= MaxEvents
    BY <1>3, AnnouncedFinite, PlatformAssumption DEF PlatformType, CallerDies
<1>. QED  BY <1>1, <1>4 DEF PlatformType, CallerDies

\* The platform as the listener sees it: its types hold, and the timeline grows by
\* one event at a time.
LEMMA PlatformTypeStep ==
    ASSUME PlatformType, PlatformStep \/ (\E c \in Callers : CallerDies(c)) \/ UNCHANGED platformVars
    PROVE  /\ PlatformType'
           /\ timeline' = timeline \/ \E e \in Events : timeline' = Append(timeline, e)
<1>1. ASSUME NEW c \in Callers, create_order(c) \/ Update(c)
      PROVE  PlatformType' /\ timeline' = timeline
    BY <1>1, BeginsType
<1>2. ASSUME NEW c \in Callers, Commit(c) PROVE PlatformType' /\ timeline' = timeline
    BY <1>2, CommitType
<1>3. ASSUME NEW c \in Callers, emit_timeline_event(c)
      PROVE  PlatformType' /\ \E e \in Events : timeline' = Append(timeline, e)
    BY <1>3, EmitType
<1>4. CASE Insert
    BY <1>4, InsertType DEF Events
<1>5. CASE Delete
    BY <1>5, DeleteType
<1>6. ASSUME NEW c \in Callers, CallerDies(c) PROVE PlatformType' /\ timeline' = timeline
    BY <1>6, DiesType
<1>7. CASE UNCHANGED platformVars
    BY <1>7 DEF platformVars, PlatformType, Announced
<1>. QED  BY <1>1, <1>2, <1>3, <1>4, <1>5, <1>6, <1>7 DEF PlatformStep, CallerStep

-----------------------------------------------------------------------------
(* The stock                                                               *)

\* Every step of the platform keeps the balance of stock and sales.
LEMMA StockStep ==
    ASSUME PlatformType, StockConserved,
           PlatformStep \/ (\E c \in Callers : CallerDies(c)) \/ UNCHANGED platformVars
    PROVE  StockConserved'
<1>1. ASSUME UNCHANGED <<item, base, raced>> PROVE StockConserved'
    BY <1>1 DEF StockConserved
<1>2. ASSUME NEW c \in Callers, Commit(c) PROVE StockConserved'
    <2>1. /\ call[c] \in Writing /\ call[c].old \in ItemRow /\ call[c].n \in Int
          /\ call[c].what \in {"order", "stock", "sales", "other"}
          /\ item \in ItemRow /\ item'.live = item.live
        BY <1>2, CommitType DEF PlatformType, Writing
    <2>2. CASE call[c].what = "order"
        <3>1. raced' = (raced \/ call[c].old.stock # item.stock) /\ base' = base
            BY <1>2, <2>2 DEF Commit
        <3>2. ASSUME item.live, ~raced'
              PROVE  item'.stock = item.stock - call[c].n /\ item'.sales = item.sales + call[c].n
            BY <1>2, <2>1, <2>2, <3>1, <3>2 DEF Commit, Written, ItemRow
        <3>3. item.stock \in Int /\ item.sales \in Int
            BY <2>1 DEF ItemRow
        <3>4. ASSUME item.live, ~raced'
              PROVE  item'.stock + item'.sales = base
            <4>1. item.stock + item.sales = base
                BY <3>1, <3>4 DEF StockConserved
            <4>. QED  BY <2>1, <3>2, <3>3, <3>4, <4>1
        <3>. QED  BY <2>1, <3>1, <3>4 DEF StockConserved
    <2>3. CASE call[c].what \in {"stock", "sales"}
        BY <1>2, <2>3 DEF Commit, StockConserved
    <2>4. CASE call[c].what = "other"
        <3>1. item' = item /\ base' = base /\ raced' = raced
            BY <1>2, <2>4 DEF Commit, Written
        <3>. QED  BY <1>1, <3>1
    <2>. QED  BY <2>1, <2>2, <2>3, <2>4
<1>3. CASE Delete
    BY <1>3, DeleteType DEF StockConserved, Gone
<1>. QED
    BY <1>1, <1>2, <1>3, BeginsType, EmitType, InsertType, DiesType
    DEF PlatformStep, CallerStep, platformVars

-----------------------------------------------------------------------------
(* Types of the listener                                                   *)

\* A longer timeline, and everything else as it was.
LEMMA TypeGrows ==
    ASSUME TypeInv, PlatformType',
           timeline' = timeline \/ \E e \in Events : timeline' = Append(timeline, e),
           UNCHANGED <<cursor, loop, batch, queue, th, meta, mirror, acted, lost, again>>,
           excused' \in BOOLEAN, faults' \in 0..MaxFaults
    PROVE  ListenerType'
<1>1. Len(timeline) \in Nat /\ Len(timeline') \in Nat /\ Len(timeline') >= Len(timeline)
    BY Appended DEF TypeInv, PlatformType
<1>2. 1..Len(timeline) \subseteq 1..Len(timeline')
    BY <1>1
<1>3. queue' \in Seq(1..Len(timeline'))
    BY <1>2, SeqMonotonic DEF TypeInv, ListenerType
<1>4. cursor + Len(batch) <= Len(timeline')
    BY <1>1, LenProperties DEF TypeInv, ListenerType
<1>5. \A t \in Threads : th[t] # Free => th[t].ev \in 1..Len(timeline')
    BY <1>2 DEF TypeInv, ListenerType
<1>. QED  BY <1>3, <1>4, <1>5 DEF TypeInv, ListenerType, Hand, Ids

\* What Len(timeline) bounds is an index of meta and acted.
LEMMA TimelineBound ==
    ASSUME TypeInv
    PROVE  /\ Len(timeline) \in Nat /\ Len(timeline) <= MaxEvents
           /\ 1..Len(timeline) \subseteq Ids
           /\ MaxEvents \in Nat /\ MaxFaults \in Nat /\ BatchLimit \in Nat \ {0}
BY AnnouncedFinite, PlatformAssumption, ListenerAssumption DEF TypeInv, PlatformType, Ids

\* The loop: the batch is read behind the cursor, and used up from its head.
LEMMA FetchType ==
    ASSUME TypeInv
    PROVE  /\ fetch_events(cursor) \in Seq(Nat)
           /\ \A k \in 1..Len(fetch_events(cursor)) : fetch_events(cursor)[k] = cursor + k
           /\ cursor + Len(fetch_events(cursor)) <= Len(timeline)
<1>. DEFINE last == IF cursor + BatchLimit < Len(timeline) THEN cursor + BatchLimit
                    ELSE Len(timeline)
            n == last - cursor
<1>1. cursor \in Nat /\ n \in Nat /\ cursor + n <= Len(timeline)
    BY TimelineBound, LenProperties DEF TypeInv, ListenerType
<1>2. fetch_events(cursor) = [k \in 1..n |-> cursor + k]
    BY DEF fetch_events
<1>. HIDE DEF n
<1>. QED  BY <1>1, <1>2

\* The batch in hand is the events behind the cursor, in their order.
LEMMA BatchHead ==
    ASSUME TypeInv, batch # <<>>
    PROVE  /\ Head(batch) = cursor + 1 /\ Head(batch) \in 1..Len(timeline)
           /\ Len(batch) \in Nat \ {0}
           /\ Tail(batch) \in Seq(Nat) /\ Len(Tail(batch)) = Len(batch) - 1
           /\ \A k \in 1..Len(Tail(batch)) : Tail(batch)[k] = Head(batch) + k
           /\ Len(batch) = 1 <=> Tail(batch) = <<>>
<1>1. /\ batch \in Seq(Nat) /\ cursor \in Nat /\ cursor + Len(batch) <= Len(timeline)
      /\ \A k \in 1..Len(batch) : batch[k] = cursor + k
    BY DEF TypeInv, ListenerType
<1>2. Len(batch) \in Nat \ {0} /\ Head(batch) = batch[1]
    BY <1>1, EmptySeq
<1>3. /\ Tail(batch) \in Seq(Nat) /\ Len(Tail(batch)) = Len(batch) - 1
      /\ \A k \in 1..Len(Tail(batch)) : Tail(batch)[k] = batch[k + 1]
    BY <1>1, HeadTailProperties
<1>4. Head(batch) = cursor + 1 /\ Head(batch) \in 1..Len(timeline)
    BY <1>1, <1>2, TimelineBound
<1>5. \A k \in 1..Len(Tail(batch)) : Tail(batch)[k] = Head(batch) + k
    BY <1>1, <1>2, <1>3, <1>4
<1>6. Len(batch) = 1 <=> Tail(batch) = <<>>
    <2>1. CASE Tail(batch) = <<>>
        <3>1. Len(Tail(batch)) = 0
            BY <2>1, EmptySeq
        <3>2. Len(batch) = 1
            BY <1>2, <1>3, <3>1
        <3>. QED  BY <2>1, <3>2
    <2>2. CASE Tail(batch) # <<>>
        <3>1. Len(Tail(batch)) \in Nat \ {0}
            BY <1>3, <2>2, EmptySeq
        <3>. QED  BY <1>2, <1>3, <2>2, <3>1
    <2>. QED  BY <2>1, <2>2
<1>. QED  BY <1>2, <1>3, <1>4, <1>5, <1>6

\* What waits in the pool are events, and taking one leaves the others.
LEMMA QueueHead ==
    ASSUME TypeInv, queue # <<>>
    PROVE  /\ Head(queue) \in 1..Len(timeline)
           /\ Tail(queue) \in Seq(1..Len(timeline))
           /\ Len(queue) \in Nat \ {0} /\ Len(Tail(queue)) = Len(queue) - 1
           /\ Head(queue) = queue[1]
           /\ \A k \in 1..Len(Tail(queue)) : Tail(queue)[k] = queue[k + 1]
BY HeadTailProperties, EmptySeq DEF TypeInv, ListenerType

\* A thread that goes on with its event, or ends with it.
LEMMA HandType ==
    ASSUME TypeInv, NEW t \in Threads, th[t] # Free
    PROVE  th[t] \in Hand /\ th[t].ev \in 1..Len(timeline) /\ th[t].ev \in Ids
BY TimelineBound DEF TypeInv, ListenerType

\* A thread takes up an event or puts it down with the types kept.
LEMMA ThreadType ==
    ASSUME TypeInv, NEW t \in Threads, NEW h \in {Free} \cup Hand,
           h # Free => h.ev \in 1..Len(timeline), th' = [th EXCEPT ![t] = h]
    PROVE  /\ th' \in [Threads -> {Free} \cup Hand]
           /\ \A u \in Threads : th'[u] # Free => th'[u].ev \in 1..Len(timeline)
BY DEF TypeInv, ListenerType

\* A thread takes the oldest event of the queue.
LEMMA TakeType ==
    ASSUME TypeInv, NEW t \in Threads, Take(t)
    PROVE  \E h \in Hand :
               /\ th' = [th EXCEPT ![t] = h] /\ h.ev = Head(queue)
               /\ h.pc = CASE Skipped(timeline[Head(queue)]) -> "meta"
                           [] ~Skipped(timeline[Head(queue)])
                                  /\ timeline[Head(queue)].subject = "Item" -> "fetch"
                           [] OTHER -> "act"
<1>. DEFINE i == Head(queue)
            h == [pc |-> CASE Skipped(timeline[i]) -> "meta"
                            [] ~Skipped(timeline[i]) /\ timeline[i].subject = "Item" -> "fetch"
                            [] OTHER -> "act",
                  ev |-> i, row |-> Gone,
                  outcome |-> IF Skipped(timeline[i]) THEN "skipped"
                              ELSE route_event(timeline[i])]
<1>1. i \in Nat /\ Gone \in ItemRow
    <2>1. i \in 1..Len(timeline)
        BY QueueHead DEF Take
    <2>. QED  BY <2>1 DEF Gone, ItemRow
<1>2. route_event(timeline[i]) \in Outcomes
    BY DEF route_event, Outcomes
<1>3. h.pc \in Acting \cup {"meta"}
    BY DEF Acting
<1>4. h \in Hand
    BY <1>1, <1>2, <1>3 DEF Hand, Outcomes, Acting
<1>5. th' = [th EXCEPT ![t] = h]
    BY DEF Take
<1>. QED  BY <1>4, <1>5

\* The moves of a thread that keeps its event.
LEMMA MoveType ==
    ASSUME TypeInv, NEW t \in Threads,
           fetch_item(t) \/ upsert_item(t) \/ mark_item_status(t) \/ Act(t) \/ Raise(t)
    PROVE  /\ th[t] \in Hand /\ th[t].ev \in 1..Len(timeline) /\ th[t].ev \in Ids
           /\ th[t].pc \in Acting
           /\ \E h \in Hand : th' = [th EXCEPT ![t] = h] /\ h.ev = th[t].ev
           /\ th' \in [Threads -> {Free} \cup Hand]
           /\ \A u \in Threads : th'[u] # Free => th'[u].ev \in 1..Len(timeline)
           /\ UNCHANGED <<platformVars, cursor, loop, batch, queue, meta, lost, again>>
<1>1. th[t] # Free /\ th[t].pc \in Acting
    BY DEF fetch_item, upsert_item, mark_item_status, Act, Raise, Free, Acting
<1>2. th[t] \in Hand /\ th[t].ev \in 1..Len(timeline) /\ th[t].ev \in Ids
    BY <1>1, HandType
<1>3. PICK h \in Hand : th' = [th EXCEPT ![t] = h] /\ h.ev = th[t].ev
    <2>1. item \in ItemRow /\ Gone \in ItemRow
        BY DEF TypeInv, PlatformType, Gone, ItemRow
    <2>2. CASE fetch_item(t)
        <3>1. [th[t] EXCEPT !.pc = "upsert", !.row = item] \in Hand
            BY <1>2, <2>1 DEF Hand, Acting
        <3>. QED  BY <1>2, <2>2, <3>1 DEF fetch_item, Hand
    <2>3. CASE upsert_item(t)
        <3>. DEFINE p == IF ev(t).name = "item.deleted" THEN "mark" ELSE "act"
        <3>1. p \in Acting
            BY DEF Acting
        <3>2. th' = [th EXCEPT ![t] = [@ EXCEPT !.pc = p, !.row = Gone]]
            BY <2>3 DEF upsert_item
        <3>. HIDE DEF p
        <3>3. [th[t] EXCEPT !.pc = p, !.row = Gone] \in Hand
            BY <1>2, <2>1, <3>1 DEF Hand
        <3>. QED  BY <1>2, <3>2, <3>3 DEF Hand
    <2>4. CASE mark_item_status(t) \/ Act(t)
        <3>1. \A p \in Acting \cup {"meta"} : [th[t] EXCEPT !.pc = p] \in Hand
            BY <1>2 DEF Hand
        <3>. QED  BY <1>2, <2>4, <3>1 DEF mark_item_status, Act, Goto, Hand, Acting
    <2>5. CASE Raise(t)
        <3>1. [th[t] EXCEPT !.pc = "meta", !.outcome = "error"] \in Hand
            BY <1>2 DEF Hand, Outcomes
        <3>. QED  BY <1>2, <2>5, <3>1 DEF Raise, Hand
    <2>. QED  BY <2>2, <2>3, <2>4, <2>5
<1>4. /\ th' \in [Threads -> {Free} \cup Hand]
      /\ \A u \in Threads : th'[u] # Free => th'[u].ev \in 1..Len(timeline)
    BY <1>2, <1>3, ThreadType
<1>5. UNCHANGED <<platformVars, cursor, loop, batch, queue, meta, lost, again>>
    BY DEF fetch_item, upsert_item, mark_item_status, Act, Raise
<1>. QED  BY <1>1, <1>2, <1>3, <1>4, <1>5

\* Every step keeps the types.
LEMMA TypeStep == TypeInv /\ [Next]_vars => TypeInv'
<1>. SUFFICES ASSUME TypeInv, [Next]_vars PROVE TypeInv'
    OBVIOUS
<1>0. /\ PlatformType /\ ListenerType /\ faults \in 0..MaxFaults /\ excused \in BOOLEAN
      /\ MaxFaults \in Nat
    BY TimelineBound DEF TypeInv, ListenerType
<1>1. Fault => faults' \in 0..MaxFaults
    BY <1>0 DEF Fault
<1>2. CASE PlatformStep
    <2>1. /\ UNCHANGED <<cursor, loop, batch, queue, th, meta, mirror, acted, lost, again>>
          /\ UNCHANGED <<excused, faults>>
        BY <1>2 DEF PlatformStep, CallerStep, listenerVars
    <2>. QED  BY <1>0, <1>2, <2>1, PlatformTypeStep, TypeGrows DEF TypeInv
<1>3. ASSUME NEW c \in Callers, CallerFails(c) PROVE TypeInv'
    <2>1. /\ UNCHANGED <<cursor, loop, batch, queue, th, meta, mirror, acted, lost, again>>
          /\ excused' \in BOOLEAN /\ faults' \in 0..MaxFaults /\ CallerDies(c)
        BY <1>1, <1>3 DEF CallerFails
    <2>. QED  BY <1>0, <2>1, PlatformTypeStep, TypeGrows DEF TypeInv
<1>4. UNCHANGED platformVars => PlatformType' /\ timeline' = timeline
    BY <1>0, PlatformTypeStep DEF platformVars
<1>5. CASE Poll
    BY <1>0, <1>4, <1>5, FetchType DEF Poll, TypeInv, ListenerType, Hand
<1>6. CASE Submit
    <2>1. batch # <<>> /\ Head(batch) \in 1..Len(timeline)
        BY <1>0, <1>6, BatchHead DEF Submit, ListenerType
    <2>2. queue' \in Seq(1..Len(timeline))
        BY <1>0, <1>6, <2>1, AppendProperties DEF Submit, ListenerType
    <2>. QED  BY <1>0, <1>4, <1>6, <2>1, <2>2 DEF Submit, TypeInv, ListenerType, Hand
<1>7. CASE set_cursor
    <2>1. batch # <<>>
        BY <1>0, <1>7 DEF set_cursor, ListenerType
    <2>2. /\ cursor' = Head(batch) /\ batch' = Tail(batch)
          /\ loop' = IF Len(batch) = 1 THEN "poll" ELSE "submit"
        BY <1>7 DEF set_cursor
    <2>3. /\ cursor \in Nat /\ cursor + Len(batch) <= Len(timeline)
        BY <1>0 DEF ListenerType
    <2>4. /\ cursor' \in Nat /\ batch' \in Seq(Nat)
          /\ \A k \in 1..Len(batch') : batch'[k] = cursor' + k
          /\ cursor' + Len(batch') <= Len(timeline)
        <3>1. /\ cursor' = cursor + 1 /\ batch' \in Seq(Nat)
              /\ Len(batch') = Len(batch) - 1 /\ Len(batch) \in Nat
            BY <1>0, <2>1, <2>2, BatchHead
        <3>2. \A k \in 1..Len(batch') : batch'[k] = cursor' + k
            BY <1>0, <2>1, <2>2, <3>1, BatchHead
        <3>3. Len(timeline) \in Nat
            BY <1>0, TimelineBound
        <3>. QED  BY <2>3, <3>1, <3>2, <3>3
    <2>5. (loop' \in {"submit", "advance"} <=> batch' # <<>>) /\ loop' \in {"poll", "submit"}
        BY <2>1, <2>2, BatchHead
    <2>. QED  BY <1>0, <1>4, <1>7, <2>4, <2>5 DEF set_cursor, TypeInv, ListenerType, Hand
<1>8. CASE AdvanceFails \/ Interrupt
    <2>1. /\ batch' = <<>> /\ loop' \in {"poll", "drain"} /\ again' \in {again, again + 1}
          /\ faults' \in 0..MaxFaults /\ excused' \in BOOLEAN
          /\ UNCHANGED <<platformVars, cursor, queue, th, meta, mirror, acted, lost>>
        BY <1>0, <1>1, <1>8 DEF AdvanceFails, Interrupt
    <2>2. cursor + Len(batch) <= Len(timeline) /\ Len(batch) \in Nat /\ cursor \in Nat
        BY <1>0 DEF ListenerType
    <2>3. batch' \in Seq(Nat) /\ Len(batch') = 0
        BY <2>1
    <2>4. again' \in Nat
        BY <1>0, <2>1 DEF ListenerType
    <2>. QED  BY <1>0, <1>4, <2>1, <2>2, <2>3, <2>4, TimelineBound DEF TypeInv, ListenerType, Hand
<1>9. CASE Restart
    BY <1>0, <1>4, <1>9 DEF Restart, TypeInv, ListenerType, Hand
<1>10. CASE Crash
    <2>1. cursor + Len(batch) <= Len(timeline) /\ Len(batch) \in Nat /\ cursor \in Nat
        BY <1>0 DEF ListenerType
    <2>2. batch' = <<>> /\ batch' \in Seq(Nat) /\ Len(batch') = 0
          /\ queue' \in Seq(1..Len(timeline))
        BY <1>10 DEF Crash
    <2>3. again' \in Nat /\ faults' \in 0..MaxFaults
        BY <1>0, <1>1, <1>10 DEF Crash, ListenerType
    <2>4. lost' \in SUBSET Ids
        <3>1. Elems(queue) \subseteq Ids
            <4>1. queue \in Seq(1..Len(timeline))
                BY <1>0 DEF ListenerType
            <4>. QED  BY <4>1, ElementOfSeq, LenProperties, TimelineBound DEF Elems
        <3>2. InHand \subseteq Ids
            BY HandType DEF InHand, Busy
        <3>. QED  BY <1>0, <1>10, <3>1, <3>2 DEF Crash, ListenerType
    <2>. QED
        BY <1>0, <1>4, <1>10, <2>1, <2>2, <2>3, <2>4, TimelineBound
        DEF Crash, TypeInv, ListenerType, Hand
<1>11. ASSUME NEW t \in Threads, Take(t) PROVE TypeInv'
    <2>1. PICK h \in Hand : th' = [th EXCEPT ![t] = h] /\ h.ev = Head(queue)
        BY <1>11, TakeType
    <2>2. Head(queue) \in 1..Len(timeline) /\ Tail(queue) \in Seq(1..Len(timeline))
        BY <1>11, QueueHead DEF Take
    <2>3. excused' \in BOOLEAN
        BY <1>0, <1>11 DEF Take
    <2>4. /\ th' \in [Threads -> {Free} \cup Hand]
          /\ \A u \in Threads : th'[u] # Free => th'[u].ev \in 1..Len(timeline)
        BY <2>1, <2>2, ThreadType
    <2>. QED  BY <1>0, <1>4, <1>11, <2>2, <2>3, <2>4 DEF Take, TypeInv, ListenerType
<1>12. ASSUME NEW t \in Threads, fetch_item(t) \/ upsert_item(t) \/ mark_item_status(t)
                                 \/ Act(t) \/ Raise(t)
       PROVE  TypeInv'
    <2>2. th[t] \in Hand /\ th[t].ev \in Ids
        BY <1>12, MoveType
    <2>4. /\ th' \in [Threads -> {Free} \cup Hand]
          /\ \A u \in Threads : th'[u] # Free => th'[u].ev \in 1..Len(timeline)
        BY <1>12, MoveType
    <2>5. mirror' \in [status : {"none", "active", "deleted"}, stock : Int]
        <3>1. mirror \in [status : {"none", "active", "deleted"}, stock : Int]
              /\ th[t].row.stock \in Int
            BY <1>0, <2>2 DEF ListenerType, Hand, ItemRow
        <3>. QED
            BY <1>12, <3>1 DEF fetch_item, upsert_item, mark_item_status, Act, Raise
    <2>6. acted' \in [Ids -> Nat]
        <3>1. acted[th[t].ev] + 1 \in Nat /\ acted \in [Ids -> Nat]
            BY <1>0, <2>2 DEF ListenerType
        <3>. QED
            BY <1>12, <3>1 DEF fetch_item, upsert_item, mark_item_status, Act, Raise
    <2>7. /\ UNCHANGED <<platformVars, cursor, loop, batch, queue, meta, lost, again>>
          /\ excused' \in BOOLEAN /\ faults' \in 0..MaxFaults
        BY <1>0, <1>1, <1>12 DEF fetch_item, upsert_item, mark_item_status, Act, Raise
    <2>. QED  BY <1>0, <1>4, <2>4, <2>5, <2>6, <2>7 DEF TypeInv, ListenerType
<1>13. ASSUME NEW t \in Threads, update_event_processing_meta(t) \/ MetaFails(t)
       PROVE  TypeInv'
    <2>1. th[t] # Free
        BY <1>13 DEF update_event_processing_meta, MetaFails, Free
    <2>2. th[t] \in Hand /\ th[t].ev \in 1..Len(timeline) /\ th[t].ev \in Ids
          /\ th[t].outcome \in Outcomes
        BY <2>1, HandType DEF Hand
    <2>3. PICK h \in {Free} \cup Hand : /\ th' = [th EXCEPT ![t] = h]
                                        /\ h # Free => h.ev = th[t].ev
        <3>1. CASE th' = [th EXCEPT ![t] = Free]
            BY <3>1
        <3>2. CASE th' = [th EXCEPT ![t] = [@ EXCEPT !.outcome = "error"]]
            <4>1. [th[t] EXCEPT !.outcome = "error"] \in Hand
                BY <2>2 DEF Hand, Outcomes
            <4>2. [th[t] EXCEPT !.outcome = "error"].ev = th[t].ev
                BY <2>2 DEF Hand
            <4>. QED  BY <3>2, <4>1, <4>2
        <3>. QED  BY <1>13, <3>1, <3>2 DEF update_event_processing_meta, MetaFails
    <2>4. /\ th' \in [Threads -> {Free} \cup Hand]
          /\ \A u \in Threads : th'[u] # Free => th'[u].ev \in 1..Len(timeline)
        BY <2>2, <2>3, ThreadType
    <2>5. meta' \in [Ids -> Outcomes \cup {"pending"}] /\ lost' \in SUBSET Ids
        BY <1>0, <1>13, <2>2 DEF update_event_processing_meta, MetaFails, ListenerType
    <2>6. faults' \in 0..MaxFaults
        BY <1>0, <1>1, <1>13 DEF update_event_processing_meta, MetaFails, NoFault
    <2>7. UNCHANGED <<platformVars, cursor, loop, batch, queue, mirror, acted, again, excused>>
        BY <1>13 DEF update_event_processing_meta, MetaFails
    <2>. QED  BY <1>0, <1>4, <2>4, <2>5, <2>6, <2>7 DEF TypeInv, ListenerType
<1>14. CASE UNCHANGED vars
    BY <1>0, <1>4, <1>14, TypeGrows DEF vars, listenerVars, TypeInv
<1>. QED
    BY <1>2, <1>3, <1>5, <1>6, <1>7, <1>8, <1>9, <1>10, <1>11, <1>12, <1>13, <1>14
    DEF Next, MainStep, ThreadStep, ListenerFault


\* The types hold at the start.
LEMMA InitType == Init => TypeInv
<1>. SUFFICES ASSUME Init PROVE TypeInv
    OBVIOUS
<1>1. item \in ItemRow /\ base \in Int /\ raced \in BOOLEAN /\ timeline \in Seq(Events)
      /\ Len(timeline) = 0
    <2>1. item \in ItemRow /\ base \in Int
        BY DEF Init, PlatformInit, ItemRow, InitialStock
    <2>2. raced \in BOOLEAN /\ timeline = <<>>
        BY DEF Init, PlatformInit
    <2>. QED  BY <2>1, <2>2
<1>2. call \in [Callers -> {Idle} \cup Writing \cup Emitting]
    BY DEF Init, PlatformInit
<1>3. Announced = {}
    <2>1. \A c \in Callers : call[c].pc = "idle"
        BY DEF Init, PlatformInit, Idle
    <2>2. \A p \in Callers \X (1..2) : p[1] \in Callers
        OBVIOUS
    <2>. QED  BY <2>1, <2>2 DEF Announced
<1>4. Len(timeline) + Cardinality(Announced) <= MaxEvents
    BY <1>1, <1>3, FS_EmptySet, PlatformAssumption
<1>5. PlatformType
    BY <1>1, <1>2, <1>4 DEF PlatformType
<1>6. ListenerType
    <2>1. /\ cursor = 0 /\ loop = "poll" /\ batch = <<>> /\ queue = <<>> /\ again = 0
          /\ faults = 0 /\ excused = FALSE /\ lost = {}
          /\ th = [t \in Threads |-> Free] /\ mirror = [status |-> "none", stock |-> 0]
          /\ meta = [i \in Ids |-> "pending"] /\ acted = [i \in Ids |-> 0]
        BY DEF Init
    <2>2. /\ batch \in Seq(Nat) /\ Len(batch) = 0 /\ queue \in Seq(1..Len(timeline))
        BY <2>1
    <2>3. /\ cursor \in Nat /\ loop \in {"poll", "submit", "advance", "drain"}
          /\ \A k \in 1..Len(batch) : batch[k] = cursor + k
          /\ cursor + Len(batch) <= Len(timeline)
          /\ loop \in {"submit", "advance"} <=> batch # <<>>
          /\ again \in Nat /\ faults \in 0..MaxFaults
        BY <1>1, <2>1, <2>2, ListenerAssumption
    <2>4. /\ th \in [Threads -> {Free} \cup Hand]
          /\ \A t \in Threads : th[t] = Free
          /\ meta \in [Ids -> Outcomes \cup {"pending"}]
        BY <2>1
    <2>5. /\ mirror \in [status : {"none", "active", "deleted"}, stock : Int]
          /\ acted \in [Ids -> Nat]
        BY <2>1
    <2>6. lost \in SUBSET Ids /\ excused \in BOOLEAN
        BY <2>1
    <2>. QED  BY <2>2, <2>3, <2>4, <2>5, <2>6 DEF ListenerType
<1>. QED  BY <1>5, <1>6 DEF TypeInv

-----------------------------------------------------------------------------
(* Nothing skipped                                                         *)

\* An element appended is an element.
LEMMA ElemsAppend ==
    ASSUME NEW S, NEW s \in Seq(S), NEW x \in S
    PROVE  Elems(Append(s, x)) = Elems(s) \cup {x}
<1>1. /\ Len(Append(s, x)) = Len(s) + 1 /\ Len(s) \in Nat
      /\ DOMAIN Append(s, x) = 1..(Len(s) + 1) /\ DOMAIN s = 1..Len(s)
      /\ \A k \in 1..Len(s) : Append(s, x)[k] = s[k]
      /\ Append(s, x)[Len(s) + 1] = x
    BY AppendProperties, LenProperties
<1>2. \A k \in 1..(Len(s) + 1) : k \in 1..Len(s) \/ k = Len(s) + 1
    BY <1>1
<1>. QED  BY <1>1, <1>2 DEF Elems

\* The elements are the first and the others.
LEMMA ElemsHead ==
    ASSUME NEW S, NEW s \in Seq(S), s # <<>>
    PROVE  Elems(s) = {Head(s)} \cup Elems(Tail(s))
<1>1. /\ Len(s) \in Nat \ {0} /\ Tail(s) \in Seq(S) /\ Len(Tail(s)) = Len(s) - 1
      /\ DOMAIN s = 1..Len(s) /\ DOMAIN Tail(s) = 1..(Len(s) - 1)
      /\ Head(s) = s[1] /\ \A k \in 1..(Len(s) - 1) : Tail(s)[k] = s[k + 1]
    BY HeadTailProperties, LenProperties, EmptySeq
<1>2. \A k \in 1..Len(s) : k = 1 \/ (k - 1 \in 1..(Len(s) - 1) /\ (k - 1) + 1 = k)
    BY <1>1
<1>3. \A k \in 1..(Len(s) - 1) : k + 1 \in 1..Len(s)
    BY <1>1
<1>4. 1 \in 1..Len(s)
    BY <1>1
<1>5. Elems(s) \subseteq {Head(s)} \cup Elems(Tail(s))
    <2>. SUFFICES ASSUME NEW k \in 1..Len(s) PROVE s[k] \in {Head(s)} \cup Elems(Tail(s))
        BY <1>1 DEF Elems
    <2>1. k # 1 => s[k] = Tail(s)[k - 1] /\ k - 1 \in DOMAIN Tail(s)
        BY <1>1, <1>2
    <2>. QED  BY <1>1, <2>1 DEF Elems
<1>6. {Head(s)} \cup Elems(Tail(s)) \subseteq Elems(s)
    BY <1>1, <1>3, <1>4 DEF Elems
<1>. QED  BY <1>5, <1>6

\* What a thread has in hand stays there until the thread is done with it.
LEMMA HandKept ==
    ASSUME TypeInv, NEW t \in Threads, NEW h \in Hand, th' = [th EXCEPT ![t] = h],
           th[t] # Free => h.ev = th[t].ev
    PROVE  InHand \subseteq InHand' /\ h.ev \in InHand' /\ InHand' \subseteq InHand \cup {h.ev}
<1>1. h # Free
    BY DEF Hand, Free, Acting
<1>. QED  BY <1>1 DEF InHand, Busy, TypeInv, ListenerType

\* A thread that is done drops its own event only.
LEMMA HandDone ==
    ASSUME TypeInv, NEW t \in Threads, th' = [th EXCEPT ![t] = Free]
    PROVE  InHand \subseteq InHand' \cup {th[t].ev}
BY DEF InHand, Busy, TypeInv, ListenerType


\* The events submitted are the ones up to the cursor, or one more before it moves.
LEMMA SubmittedType ==
    ASSUME TypeInv
    PROVE  Submitted \in Nat /\ Submitted <= Len(timeline) /\ 1..Submitted \subseteq Ids
           /\ (loop # "advance" => Submitted = cursor)
           /\ (loop = "advance" => Submitted = cursor + 1)
<1>1. cursor \in Nat /\ cursor <= Len(timeline)
    BY TimelineBound, LenProperties DEF TypeInv, ListenerType
<1>2. loop = "advance" => cursor + 1 \in 1..Len(timeline)
    <2>1. loop = "advance" => batch # <<>>
        BY DEF TypeInv, ListenerType
    <2>. QED  BY <2>1, BatchHead
<1>. QED  BY <1>1, <1>2, TimelineBound DEF Submitted, Ids

\* Every step keeps the account of submitted events.
LEMMA AccountedStep == TypeInv /\ AccountedInv /\ [Next]_vars => AccountedInv'
<1>. SUFFICES ASSUME TypeInv, AccountedInv, [Next]_vars PROVE AccountedInv'
    OBVIOUS
<1>0. /\ cursor \in Nat /\ queue \in Seq(1..Len(timeline))
      /\ Submitted \in Nat /\ 1..Submitted \subseteq Ids /\ 1..Len(timeline) \subseteq Ids
      /\ meta \in [Ids -> Outcomes \cup {"pending"}]
    BY SubmittedType, TimelineBound DEF TypeInv, ListenerType
\* Steps that submit nothing and write no outcome.
<1>1. ASSUME Submitted' \in Nat, Submitted' <= Submitted, meta' = meta,
             \A i \in Elems(queue) \cup InHand \cup lost :
                 i <= Submitted' => i \in Elems(queue)' \cup InHand' \cup lost'
      PROVE  AccountedInv'
    BY <1>0, <1>1 DEF AccountedInv
<1>2. ASSUME UNCHANGED <<cursor, queue, th, meta, lost>>, Submitted' = Submitted
      PROVE  AccountedInv'
    BY <1>0, <1>1, <1>2 DEF Elems, InHand, Busy
<1>3. CASE PlatformStep \/ (\E c \in Callers : CallerFails(c)) \/ Poll \/ Restart
           \/ UNCHANGED vars
    <2>1. UNCHANGED <<cursor, queue, th, meta, lost>>
        BY <1>3 DEF PlatformStep, CallerStep, CallerFails, Poll, Restart, vars, listenerVars
    <2>2. loop' = "advance" <=> loop = "advance"
        BY <1>3 DEF PlatformStep, CallerStep, CallerFails, Poll, Restart, vars, listenerVars
    <2>. QED  BY <1>2, <2>1, <2>2 DEF Submitted
<1>4. CASE Submit
    <2>1. batch # <<>> /\ Head(batch) = cursor + 1 /\ Head(batch) \in 1..Len(timeline)
        BY <1>4, BatchHead DEF Submit, TypeInv, ListenerType
    <2>2. Elems(queue)' = Elems(queue) \cup {cursor + 1}
        <3>1. Elems(queue)' = Elems(Append(queue, cursor + 1))
            BY <1>4, <2>1 DEF Submit, Elems
        <3>. QED  BY <1>0, <2>1, <3>1, ElemsAppend
    <2>3. Submitted = cursor /\ Submitted' = cursor + 1
        BY <1>4 DEF Submit, Submitted
    <2>4. UNCHANGED <<th, meta, lost>> /\ InHand' = InHand
        BY <1>4 DEF Submit, InHand, Busy
    <2>5. ASSUME NEW i \in 1..Submitted' PROVE i \in 1..Submitted \/ i = cursor + 1
        BY <1>0, <2>3
    <2>. QED  BY <2>2, <2>4, <2>5 DEF AccountedInv
<1>5. CASE set_cursor
    <2>1. batch # <<>> /\ Head(batch) = cursor + 1
        BY <1>5, BatchHead DEF set_cursor, TypeInv, ListenerType
    <2>2. Submitted' = Submitted
        BY <1>5, <2>1 DEF set_cursor, Submitted
    <2>3. UNCHANGED <<th, meta, lost, queue>>
        BY <1>5 DEF set_cursor
    <2>. QED  BY <1>0, <1>1, <2>2, <2>3 DEF Elems, InHand, Busy
<1>6. CASE AdvanceFails \/ Interrupt
    <2>1. UNCHANGED <<cursor, queue, th, meta, lost>> /\ loop' # "advance"
        BY <1>6 DEF AdvanceFails, Interrupt
    <2>2. Submitted' \in Nat /\ Submitted' <= Submitted
        BY <1>0, <2>1 DEF Submitted
    <2>. QED  BY <1>1, <2>1, <2>2 DEF Elems, InHand, Busy
<1>7. CASE Crash
    <2>1. /\ cursor' = cursor /\ meta' = meta /\ loop' # "advance"
          /\ lost' = lost \cup {i \in Elems(queue) \cup InHand : i <= cursor}
        BY <1>7 DEF Crash
    <2>2. Submitted' = cursor /\ cursor <= Submitted
        BY <1>0, <2>1 DEF Submitted
    <2>. QED  BY <1>0, <1>1, <2>1, <2>2
<1>8. ASSUME NEW t \in Threads, Take(t) PROVE AccountedInv'
    <2>1. PICK h \in Hand : th' = [th EXCEPT ![t] = h] /\ h.ev = Head(queue)
        BY <1>8, TakeType
    <2>2. /\ queue # <<>> /\ queue' = Tail(queue) /\ th[t] = Free
          /\ UNCHANGED <<cursor, loop, meta, lost>>
        BY <1>8 DEF Take
    <2>3. Elems(queue) = {Head(queue)} \cup Elems(queue)'
        <3>1. Elems(queue)' = Elems(Tail(queue))
            BY <2>2 DEF Elems
        <3>. QED  BY <1>0, <2>2, <3>1, ElemsHead
    <2>4. InHand \subseteq InHand' /\ Head(queue) \in InHand'
        BY <2>1, <2>2, HandKept
    <2>5. Submitted' = Submitted
        BY <2>2 DEF Submitted
    <2>. QED  BY <1>0, <1>1, <2>2, <2>3, <2>4, <2>5
<1>9. ASSUME NEW t \in Threads, fetch_item(t) \/ upsert_item(t) \/ mark_item_status(t)
                                \/ Act(t) \/ Raise(t)
      PROVE  AccountedInv'
    <2>1. /\ UNCHANGED <<cursor, loop, queue, meta, lost>>
          /\ \E h \in Hand : th' = [th EXCEPT ![t] = h] /\ h.ev = th[t].ev
        BY <1>9, MoveType
    <2>2. InHand \subseteq InHand'
        BY <2>1, HandKept
    <2>3. Submitted' = Submitted
        BY <2>1 DEF Submitted
    <2>. QED  BY <1>0, <1>1, <2>1, <2>2, <2>3 DEF Elems
<1>10. ASSUME NEW t \in Threads, update_event_processing_meta(t) \/ MetaFails(t)
       PROVE  AccountedInv'
    <2>1. th[t] # Free
        BY <1>10 DEF update_event_processing_meta, MetaFails, Free
    <2>2. th[t] \in Hand /\ th[t].ev \in Ids
        BY <2>1, HandType
    <2>3. UNCHANGED <<cursor, loop, queue>> /\ Elems(queue)' = Elems(queue)
          /\ Submitted' = Submitted
        BY <1>10 DEF update_event_processing_meta, MetaFails, Elems, Submitted
    <2>4. CASE update_event_processing_meta(t)
        <3>1. meta' = [meta EXCEPT ![th[t].ev] = th[t].outcome] /\ lost' = lost
              /\ th' = [th EXCEPT ![t] = Free] /\ th[t].outcome # "pending"
            BY <2>2, <2>4 DEF update_event_processing_meta, Hand, Outcomes
        <3>2. InHand \subseteq InHand' \cup {th[t].ev}
            BY <3>1, HandDone
        <3>3. meta'[th[t].ev] # "pending" /\ \A i \in Ids : i # th[t].ev => meta'[i] = meta[i]
            BY <1>0, <2>2, <3>1
        <3>4. ASSUME NEW i \in 1..Submitted
              PROVE  meta'[i] # "pending" \/ i \in Elems(queue) \cup InHand' \cup lost
            <4>1. i \in Ids
                BY <1>0
            <4>. QED  BY <3>2, <3>3, <4>1 DEF AccountedInv
        <3>. QED  BY <2>3, <3>1, <3>4 DEF AccountedInv
    <2>5. CASE MetaFails(t) /\ th[t].outcome # "error"
        <3>1. meta' = meta /\ lost' = lost
              /\ th' = [th EXCEPT ![t] = [@ EXCEPT !.outcome = "error"]]
            BY <2>5 DEF MetaFails
        <3>2. [th[t] EXCEPT !.outcome = "error"] \in Hand
              /\ [th[t] EXCEPT !.outcome = "error"].ev = th[t].ev
            BY <2>2 DEF Hand, Outcomes
        <3>3. InHand \subseteq InHand'
            BY <3>1, <3>2, HandKept
        <3>. QED  BY <1>0, <1>1, <2>3, <3>1, <3>3
    <2>6. CASE MetaFails(t) /\ th[t].outcome = "error"
        <3>1. meta' = meta /\ lost' = lost \cup {th[t].ev} /\ th' = [th EXCEPT ![t] = Free]
            BY <2>6 DEF MetaFails
        <3>2. InHand \subseteq InHand' \cup {th[t].ev}
            BY <3>1, HandDone
        <3>. QED  BY <1>0, <1>1, <2>3, <3>1, <3>2
    <2>. QED  BY <1>10, <2>4, <2>5, <2>6
<1>. QED
    BY <1>3, <1>4, <1>5, <1>6, <1>7, <1>8, <1>9, <1>10
    DEF Next, MainStep, ThreadStep, ListenerFault


-----------------------------------------------------------------------------
(* Nothing done twice                                                      *)

\* An event has finitely many places in a sequence.
LEMMA PositionsType ==
    ASSUME NEW s \in Seq(Nat), NEW i
    PROVE  IsFiniteSet(Positions(s, i)) /\ Cardinality(Positions(s, i)) \in Nat
<1>1. IsFiniteSet(1..Len(s))
    BY LenProperties, FS_Interval, 1 \in Int
<1>2. Positions(s, i) \subseteq 1..Len(s)
    BY DEF Positions
<1>. QED  BY <1>1, <1>2, FS_Subset, FS_CardinalityType

\* An event is in finitely many hands.
LEMMA ActorsType ==
    ASSUME NEW f, NEW i
    PROVE  IsFiniteSet(Actors(f, i)) /\ Cardinality(Actors(f, i)) \in Nat
<1>1. Actors(f, i) \subseteq Threads
    BY DEF Actors
<1>. QED  BY <1>1, ListenerAssumption, FS_Subset, FS_CardinalityType

\* Only the event that is appended gets a place, only the one taken gives one up.
LEMMA PositionsAppend ==
    ASSUME NEW s \in Seq(Nat), NEW x \in Nat, NEW i
    PROVE  /\ i = x => Cardinality(Positions(Append(s, x), i)) <= Cardinality(Positions(s, i)) + 1
           /\ i # x => Positions(Append(s, x), i) = Positions(s, i)
<1>1. /\ Len(Append(s, x)) = Len(s) + 1 /\ Len(s) \in Nat
      /\ \A k \in 1..Len(s) : Append(s, x)[k] = s[k]
      /\ Append(s, x)[Len(s) + 1] = x
    BY AppendProperties, LenProperties
<1>2. \A k \in 1..(Len(s) + 1) : k \in 1..Len(s) \/ k = Len(s) + 1
    BY <1>1
<1>3. \A k \in 1..Len(s) : k \in 1..(Len(s) + 1)
    BY <1>1
<1>4. Positions(Append(s, x), i) \subseteq Positions(s, i) \cup {Len(s) + 1}
    BY <1>1, <1>2 DEF Positions
<1>5. i # x => Positions(Append(s, x), i) = Positions(s, i)
    BY <1>1, <1>2, <1>3 DEF Positions
<1>. QED  BY <1>4, <1>5, PositionsType, AddOne

\* Taking the first of a sequence takes one place from its event.
LEMMA PositionsTail ==
    ASSUME NEW s \in Seq(Nat), s # <<>>, NEW i
    PROVE  /\ Cardinality(Positions(Tail(s), i)) <= Cardinality(Positions(s, i))
           /\ i = Head(s) =>
                  Cardinality(Positions(Tail(s), i)) + 1 <= Cardinality(Positions(s, i))
<1>. DEFINE S == Positions(Tail(s), i)
            T == Positions(s, i) \ {1}
            f == [k \in S |-> k + 1]
<1>1. /\ Len(s) \in Nat \ {0} /\ Tail(s) \in Seq(Nat) /\ Len(Tail(s)) = Len(s) - 1
      /\ Head(s) = s[1] /\ \A k \in 1..(Len(s) - 1) : Tail(s)[k] = s[k + 1]
    BY HeadTailProperties, LenProperties, EmptySeq
<1>2. f \in Injection(S, T)
    <2>1. \A k \in S : k \in Nat /\ k + 1 \in T
        BY <1>1 DEF Positions
    <2>2. f \in [S -> T]
        BY <2>1
    <2>3. \A a, b \in S : f[a] = f[b] => a = b
        BY <2>1
    <2>. HIDE DEF f, S, T
    <2>. QED  BY <2>2, <2>3 DEF Injection, IsInjective
<1>3. /\ IsFiniteSet(T) /\ Cardinality(Positions(s, i)) \in Nat
      /\ Cardinality(T) = IF 1 \in Positions(s, i) THEN Cardinality(Positions(s, i)) - 1
                          ELSE Cardinality(Positions(s, i))
    BY PositionsType, FS_RemoveElement
<1>4. Cardinality(S) <= Cardinality(T) /\ Cardinality(S) \in Nat
    <2>. HIDE DEF f, T
    <2>1. Cardinality(S) <= Cardinality(T)
        BY <1>2, <1>3, FS_Injection
    <2>. QED  BY <1>1, <2>1, PositionsType
<1>5. i = Head(s) => 1 \in Positions(s, i)
    BY <1>1 DEF Positions
<1>. HIDE DEF S, T
<1>6. Cardinality(S) <= Cardinality(Positions(s, i))
      /\ (i = Head(s) => Cardinality(S) + 1 <= Cardinality(Positions(s, i)))
    BY <1>3, <1>4, <1>5
<1>. QED  BY <1>6 DEF S

\* A thread acts on one event at a time.
LEMMA ActorsStep ==
    ASSUME NEW f, NEW t \in Threads, f \in [Threads -> {Free} \cup Hand],
           NEW h \in {Free} \cup Hand, NEW i, NEW g, g = [f EXCEPT ![t] = h]
    PROVE  /\ Cardinality(Actors(g, i)) <= Cardinality(Actors(f, i)) + 1
           /\ ~(h.pc \in Acting /\ h.ev = i) \/ (f[t].pc \in Acting /\ f[t].ev = i) =>
                  Cardinality(Actors(g, i)) <= Cardinality(Actors(f, i))
           /\ ~(h.pc \in Acting /\ h.ev = i) /\ f[t].pc \in Acting /\ f[t].ev = i =>
                  Cardinality(Actors(g, i)) + 1 <= Cardinality(Actors(f, i))
<1>1. g[t] = h /\ \A u \in Threads \ {t} : g[u] = f[u]
    OBVIOUS
<1>2. Cardinality(Actors(g, i)) <= Cardinality(Actors(f, i)) + 1
    <2>1. Actors(g, i) \subseteq Actors(f, i) \cup {t}
        BY <1>1 DEF Actors
    <2>. QED  BY <2>1, ActorsType, AddOne
<1>3. ASSUME ~(h.pc \in Acting /\ h.ev = i) \/ (f[t].pc \in Acting /\ f[t].ev = i)
      PROVE  Cardinality(Actors(g, i)) <= Cardinality(Actors(f, i))
    <2>1. Actors(g, i) \subseteq Actors(f, i)
        BY <1>1, <1>3 DEF Actors
    <2>. QED  BY <2>1, ActorsType, FS_Subset
<1>4. ASSUME ~(h.pc \in Acting /\ h.ev = i), f[t].pc \in Acting, f[t].ev = i
      PROVE  Cardinality(Actors(g, i)) + 1 <= Cardinality(Actors(f, i))
    <2>1. Actors(g, i) \subseteq Actors(f, i) \ {t} /\ t \in Actors(f, i)
        BY <1>1, <1>4 DEF Actors
    <2>2. IsFiniteSet(Actors(f, i) \ {t})
          /\ Cardinality(Actors(f, i) \ {t}) = Cardinality(Actors(f, i)) - 1
        BY <2>1, ActorsType, FS_RemoveElement
    <2>3. Cardinality(Actors(g, i)) <= Cardinality(Actors(f, i) \ {t})
        BY <2>1, <2>2, FS_Subset
    <2>. QED  BY <2>2, <2>3, ActorsType
<1>. QED  BY <1>2, <1>3, <1>4


\* The moves of a thread: what it begins to do it does once.
LEMMA MoveActs ==
    ASSUME TypeInv, NEW t \in Threads,
           fetch_item(t) \/ upsert_item(t) \/ mark_item_status(t) \/ Act(t) \/ Raise(t),
           NEW i \in Ids
    PROVE  Cardinality(Actors(th', i)) + acted'[i] <= Cardinality(Actors(th, i)) + acted[i]
<1>0. /\ th \in [Threads -> {Free} \cup Hand] /\ acted \in [Ids -> Nat]
      /\ th[t] \in Hand /\ th[t].pc \in Acting
      /\ Cardinality(Actors(th, i)) \in Nat /\ Cardinality(Actors(th', i)) \in Nat
    BY MoveType, ActorsType DEF TypeInv, ListenerType
<1>1. PICK h \in Hand : th' = [th EXCEPT ![t] = h] /\ h.ev = th[t].ev
    BY MoveType
<1>2. CASE fetch_item(t) \/ upsert_item(t) \/ mark_item_status(t)
    <2>1. acted' = acted
        BY <1>2 DEF fetch_item, upsert_item, mark_item_status
    <2>2. Cardinality(Actors(th', i)) <= Cardinality(Actors(th, i))
        BY <1>0, <1>1, ActorsStep
    <2>. QED  BY <1>0, <2>1, <2>2
<1>3. CASE Act(t) \/ Raise(t)
    <2>1. /\ h.pc = "meta"
          /\ acted' = acted \/ acted' = [acted EXCEPT ![th[t].ev] = acted[th[t].ev] + 1]
        <3>1. th'[t].pc = "meta"
            <4>1. [th[t] EXCEPT !.pc = "meta"].pc = "meta"
                  /\ [th[t] EXCEPT !.pc = "meta", !.outcome = "error"].pc = "meta"
                BY <1>0 DEF Hand
            <4>2. th'[t] \in {[th[t] EXCEPT !.pc = "meta"],
                              [th[t] EXCEPT !.pc = "meta", !.outcome = "error"]}
                BY <1>0, <1>3 DEF Act, Raise, Goto
            <4>. QED  BY <4>1, <4>2
        <3>2. th'[t] = h
            BY <1>0, <1>1
        <3>3. acted' \in {acted, [acted EXCEPT ![th[t].ev] = acted[th[t].ev] + 1]}
            BY <1>0, <1>3 DEF Act, Raise
        <3>. QED  BY <3>1, <3>2, <3>3
    <2>2. h.pc \notin Acting
        BY <2>1 DEF Acting
    <2>3. CASE i = th[t].ev
        <3>1. acted'[i] \in {acted[i], acted[i] + 1}
            BY <1>0, <2>1, <2>3
        <3>2. Cardinality(Actors(th', i)) + 1 <= Cardinality(Actors(th, i))
            BY <1>0, <1>1, <2>2, <2>3, ActorsStep
        <3>. QED  BY <1>0, <3>1, <3>2
    <2>4. CASE i # th[t].ev
        <3>1. acted'[i] = acted[i]
            BY <1>0, <2>1, <2>4
        <3>2. Cardinality(Actors(th', i)) <= Cardinality(Actors(th, i))
            BY <1>0, <1>1, <2>2, ActorsStep
        <3>. QED  BY <1>0, <3>1, <3>2
    <2>. QED  BY <2>3, <2>4
<1>. QED  BY <1>2, <1>3

\* A thread that has acted stays out of the action.
LEMMA GivenUp ==
    ASSUME TypeInv, NEW t \in Threads, update_event_processing_meta(t) \/ MetaFails(t)
    PROVE  \E h \in {Free} \cup Hand : th' = [th EXCEPT ![t] = h] /\ h.pc \notin Acting
<1>1. th[t] \in Hand /\ th[t].pc = "meta"
    BY HandType DEF update_event_processing_meta, MetaFails, Free
<1>2. /\ [th[t] EXCEPT !.outcome = "error"] \in Hand
      /\ [th[t] EXCEPT !.outcome = "error"].pc = "meta"
    BY <1>1 DEF Hand, Outcomes
<1>3. Free.pc \notin Acting /\ "meta" \notin Acting
    BY DEF Free, Acting
<1>. QED  BY <1>2, <1>3 DEF update_event_processing_meta, MetaFails

\* Every step keeps the count of copies of an event.
LEMMA CopiesStep == TypeInv /\ CopiesInv /\ [Next]_vars => CopiesInv'
<1>. SUFFICES ASSUME TypeInv, CopiesInv, [Next]_vars PROVE CopiesInv'
    OBVIOUS
<1>0. /\ cursor \in Nat /\ again \in Nat /\ queue \in Seq(Nat)
      /\ th \in [Threads -> {Free} \cup Hand] /\ acted \in [Ids -> Nat]
      /\ Submitted \in Nat
      /\ Submitted = IF loop = "advance" THEN cursor + 1 ELSE cursor
    <2>1. queue \in Seq(Nat)
        <3>1. queue \in Seq(1..Len(timeline)) /\ 1..Len(timeline) \subseteq Nat
            BY DEF TypeInv, ListenerType
        <3>. QED  BY <3>1, SeqMonotonic
    <2>. QED  BY <2>1, SubmittedType DEF TypeInv, ListenerType
<1>1. /\ \A i \in Ids : Cardinality(Positions(queue, i)) \in Nat
      /\ \A i \in Ids : Cardinality(Actors(th, i)) \in Nat /\ Copies(i) \in Nat
      /\ \A i \in Ids : acted[i] \in Nat
    BY <1>0, PositionsType, ActorsType DEF Copies
<1>2. \A i \in Ids : i \in Nat
    BY PlatformAssumption DEF Ids
\* The room for copies of an event never shrinks.
<1>3. ASSUME \A i \in Ids : Copies(i)' <= Copies(i) /\ Copies(i)' \in Nat,
             \/ UNCHANGED <<cursor, again>> /\ Submitted' = Submitted
             \/ cursor' = Submitted /\ Submitted' = Submitted /\ again' = again
                /\ loop = "advance"
             \/ cursor' = cursor /\ loop = "advance" /\ Submitted' = cursor /\ again' = again + 1
      PROVE  CopiesInv'
    <2>. SUFFICES ASSUME NEW i \in Ids
                  PROVE  Copies(i)' <= IF i <= Submitted' THEN 1 + again'
                                       ELSE IF i = cursor' + 1 THEN again' ELSE 0
        BY DEF CopiesInv
    <2>1. Copies(i) <= IF i <= Submitted THEN 1 + again ELSE IF i = cursor + 1 THEN again ELSE 0
        BY DEF CopiesInv
    <2>. QED  BY <1>0, <1>1, <1>2, <1>3, <2>1
<1>4. ASSUME UNCHANGED <<cursor, queue, th, acted, again>>, Submitted' = Submitted
      PROVE  CopiesInv'
    BY <1>1, <1>3, <1>4 DEF Copies
<1>5. CASE PlatformStep \/ (\E c \in Callers : CallerFails(c)) \/ Poll \/ Restart
           \/ UNCHANGED vars
    <2>1. UNCHANGED <<cursor, queue, th, acted, again>>
        BY <1>5 DEF PlatformStep, CallerStep, CallerFails, Poll, Restart, vars, listenerVars
    <2>2. loop' = "advance" <=> loop = "advance"
        BY <1>5 DEF PlatformStep, CallerStep, CallerFails, Poll, Restart, vars, listenerVars
    <2>. QED  BY <1>4, <2>1, <2>2 DEF Submitted
<1>6. CASE Submit
    <2>1. batch # <<>> /\ Head(batch) = cursor + 1
        BY <1>6, BatchHead DEF Submit, TypeInv, ListenerType
    <2>2. /\ UNCHANGED <<cursor, th, acted, again>> /\ queue' = Append(queue, cursor + 1)
          /\ Submitted = cursor /\ Submitted' = cursor + 1
        BY <1>6, <2>1 DEF Submit, Submitted
    <2>. SUFFICES ASSUME NEW i \in Ids
                  PROVE  Copies(i)' <= IF i <= Submitted' THEN 1 + again'
                                       ELSE IF i = cursor' + 1 THEN again' ELSE 0
        BY DEF CopiesInv
    <2>3. Copies(i)' = Cardinality(Positions(Append(queue, cursor + 1), i))
                       + Cardinality(Actors(th, i)) + acted[i]
        BY <2>2 DEF Copies
    <2>4. Append(queue, cursor + 1) \in Seq(Nat)
        BY <1>0, AppendProperties
    <2>5. Cardinality(Positions(Append(queue, cursor + 1), i)) \in Nat
        BY <2>4, PositionsType
    <2>6. /\ i = cursor + 1 => Copies(i)' <= Copies(i) + 1
          /\ i # cursor + 1 => Copies(i)' = Copies(i)
        BY <1>0, <1>1, <2>3, <2>5, PositionsAppend DEF Copies
    <2>7. Copies(i) <= IF i <= Submitted THEN 1 + again ELSE IF i = cursor + 1 THEN again ELSE 0
        BY DEF CopiesInv
    <2>8. Copies(i)' \in Nat
        BY <1>1, <2>3, <2>5
    <2>. QED  BY <1>0, <1>1, <1>2, <2>2, <2>6, <2>7, <2>8
<1>7. CASE set_cursor
    <2>1. batch # <<>> /\ Head(batch) = cursor + 1
        BY <1>7, BatchHead DEF set_cursor, TypeInv, ListenerType
    <2>2. /\ loop = "advance" /\ loop' # "advance" /\ cursor' = cursor + 1
          /\ UNCHANGED <<again, queue, th, acted>>
        BY <1>7, <2>1 DEF set_cursor
    <2>3. Submitted = cursor + 1 /\ Submitted' = cursor + 1
        BY <2>2 DEF Submitted
    <2>. QED  BY <1>1, <1>3, <2>2, <2>3 DEF Copies
<1>8. CASE AdvanceFails \/ Interrupt
    <2>1. /\ UNCHANGED <<cursor, queue, th, acted>> /\ loop' # "advance"
          /\ again' = IF loop = "advance" THEN again + 1 ELSE again
        BY <1>8 DEF AdvanceFails, Interrupt
    <2>2. Submitted' = cursor
        BY <2>1 DEF Submitted
    <2>. QED  BY <1>0, <1>1, <1>3, <2>1, <2>2 DEF Copies
<1>9. CASE Crash
    <2>1. /\ UNCHANGED <<cursor, acted>> /\ loop' # "advance"
          /\ queue' = <<>> /\ th' = [t \in Threads |-> Free]
          /\ again' = IF loop = "advance" THEN again + 1 ELSE again
        BY <1>9 DEF Crash
    <2>2. Submitted' = cursor
        BY <2>1 DEF Submitted
    <2>3. ASSUME NEW i \in Ids PROVE Copies(i)' <= Copies(i) /\ Copies(i)' \in Nat
        <3>1. Positions(queue', i) = {}
            BY <2>1 DEF Positions
        <3>2. Actors(th', i) = {}
            BY <2>1 DEF Actors, Free, Acting
        <3>3. Copies(i)' = acted[i]
            <4>1. Copies(i)' = Cardinality(Positions(queue', i)) + Cardinality(Actors(th', i))
                               + acted[i]
                BY <2>1 DEF Copies
            <4>2. Copies(i)' = Cardinality({}) + Cardinality({}) + acted[i]
                BY <3>1, <3>2, <4>1
            <4>. QED  BY <1>1, <4>2, FS_EmptySet
        <3>. QED  BY <1>1, <3>3 DEF Copies
    <2>. QED  BY <1>0, <1>3, <2>1, <2>2, <2>3
<1>10. ASSUME NEW t \in Threads, Take(t) PROVE CopiesInv'
    <2>1. PICK h \in Hand : th' = [th EXCEPT ![t] = h] /\ h.ev = Head(queue)
        BY <1>10, TakeType
    <2>2. /\ queue # <<>> /\ queue' = Tail(queue)
          /\ UNCHANGED <<cursor, loop, again, acted>>
        BY <1>10 DEF Take
    <2>3. ASSUME NEW i \in Ids PROVE Copies(i)' <= Copies(i) /\ Copies(i)' \in Nat
        <3>1. Copies(i)' = Cardinality(Positions(Tail(queue), i))
                           + Cardinality(Actors(th', i)) + acted[i]
            BY <2>2 DEF Copies
        <3>2. Tail(queue) \in Seq(Nat)
            BY <1>0, <2>2, HeadTailProperties
        <3>3. /\ Cardinality(Positions(Tail(queue), i)) \in Nat
              /\ Cardinality(Actors(th', i)) \in Nat
            BY <3>2, PositionsType, ActorsType
        <3>4. /\ Cardinality(Positions(Tail(queue), i)) <= Cardinality(Positions(queue, i))
              /\ i = Head(queue) =>
                    Cardinality(Positions(Tail(queue), i)) + 1 <= Cardinality(Positions(queue, i))
            BY <1>0, <2>2, PositionsTail
        <3>5. /\ Cardinality(Actors(th', i)) <= Cardinality(Actors(th, i)) + 1
              /\ i # Head(queue) => Cardinality(Actors(th', i)) <= Cardinality(Actors(th, i))
            BY <1>0, <2>1, ActorsStep
        <3>. QED  BY <1>1, <3>1, <3>3, <3>4, <3>5 DEF Copies
    <2>4. Submitted' = Submitted
        BY <2>2 DEF Submitted
    <2>. QED  BY <1>3, <2>2, <2>3, <2>4
<1>11. ASSUME NEW t \in Threads, fetch_item(t) \/ upsert_item(t) \/ mark_item_status(t)
                                 \/ Act(t) \/ Raise(t)
       PROVE  CopiesInv'
    <2>1. UNCHANGED <<cursor, loop, queue, again>>
        BY <1>11, MoveType
    <2>2. ASSUME NEW i \in Ids PROVE Copies(i)' <= Copies(i) /\ Copies(i)' \in Nat
        <3>1. Copies(i)' = Cardinality(Positions(queue, i)) + Cardinality(Actors(th', i)) + acted'[i]
            BY <2>1 DEF Copies
        <3>2. Cardinality(Actors(th', i)) + acted'[i] <= Cardinality(Actors(th, i)) + acted[i]
            BY <1>11, MoveActs
        <3>3. Cardinality(Actors(th', i)) \in Nat /\ acted'[i] \in Nat
            <4>1. acted' \in [Ids -> Nat]
                BY TypeStep DEF TypeInv, ListenerType
            <4>. QED  BY <4>1, ActorsType
        <3>. QED  BY <1>1, <3>1, <3>2, <3>3 DEF Copies
    <2>3. Submitted' = Submitted
        BY <2>1 DEF Submitted
    <2>. QED  BY <1>3, <2>1, <2>2, <2>3
<1>12. ASSUME NEW t \in Threads, update_event_processing_meta(t) \/ MetaFails(t)
       PROVE  CopiesInv'
    <2>1. UNCHANGED <<cursor, loop, queue, again, acted>> /\ Submitted' = Submitted
        BY <1>12 DEF update_event_processing_meta, MetaFails, Submitted
    <2>3. PICK h \in {Free} \cup Hand : th' = [th EXCEPT ![t] = h] /\ h.pc \notin Acting
        BY <1>12, GivenUp
    <2>4. ASSUME NEW i \in Ids PROVE Copies(i)' <= Copies(i) /\ Copies(i)' \in Nat
        <3>1. Copies(i)' = Cardinality(Positions(queue, i)) + Cardinality(Actors(th', i)) + acted[i]
            BY <2>1 DEF Copies
        <3>2. Cardinality(Actors(th', i)) <= Cardinality(Actors(th, i))
              /\ Cardinality(Actors(th', i)) \in Nat
            BY <1>0, <2>3, ActorsStep, ActorsType
        <3>. QED  BY <1>1, <3>1, <3>2 DEF Copies
    <2>. QED  BY <1>3, <2>1, <2>4
<1>. QED
    BY <1>5, <1>6, <1>7, <1>8, <1>9, <1>10, <1>11, <1>12
    DEF Next, MainStep, ThreadStep, ListenerFault


\* What the platform does is news at the end of the timeline.
LEMMA NewsStep ==
    ASSUME TypeInv, PlatformStep \/ (\E c \in Callers : CallerFails(c)) \/ UNCHANGED vars
    PROVE  /\ UNCHANGED <<cursor, loop, batch, queue, th, meta, mirror, acted, lost, again>>
           /\ timeline \in Seq(Events) /\ timeline' \in Seq(Events)
           /\ timeline' = timeline \/ \E e \in Events : timeline' = Append(timeline, e)
           /\ Len(timeline) \in Nat /\ Len(timeline') \in Nat
           /\ Len(timeline) <= Len(timeline')
           /\ \A i \in 1..Len(timeline) : timeline'[i] = timeline[i]
           /\ \A i \in 1..Len(timeline') : i \in 1..Len(timeline) \/ i = Len(timeline) + 1
<1>1. UNCHANGED <<cursor, loop, batch, queue, th, meta, mirror, acted, lost, again>>
    BY DEF PlatformStep, CallerStep, CallerFails, vars, listenerVars
<1>2. PlatformStep \/ (\E c \in Callers : CallerDies(c)) \/ UNCHANGED platformVars
    BY DEF CallerFails, vars
<1>3. /\ timeline \in Seq(Events) /\ timeline' \in Seq(Events)
      /\ timeline' = timeline \/ \E e \in Events : timeline' = Append(timeline, e)
    BY <1>2, PlatformTypeStep DEF TypeInv, PlatformType
<1>. QED  BY <1>1, <1>3, Appended, LenProperties

\* Every step leaves the echoes of tools without a rule.
LEMMA EchoStep == TypeInv /\ EchoInv /\ [Next]_vars => EchoInv'
<1>. SUFFICES ASSUME TypeInv, EchoInv, [Next]_vars PROVE EchoInv'
    OBVIOUS
<1>0. /\ th \in [Threads -> {Free} \cup Hand] /\ acted \in [Ids -> Nat]
      /\ \A t \in Threads : th[t].pc \in Acting => th[t].ev \in 1..Len(timeline)
      /\ 1..Len(timeline) \subseteq Ids
    <2>1. Free.pc \notin Acting
        BY DEF Free, Acting
    <2>. QED  BY <2>1, TimelineBound DEF TypeInv, ListenerType
<1>1. CASE PlatformStep \/ (\E c \in Callers : CallerFails(c)) \/ UNCHANGED vars
    <2>1. /\ acted' = acted /\ th' = th
          /\ Len(timeline) \in Nat /\ Len(timeline') \in Nat /\ Len(timeline) <= Len(timeline')
          /\ \A i \in 1..Len(timeline) : timeline'[i] = timeline[i]
          /\ \A i \in 1..Len(timeline') : i \in 1..Len(timeline) \/ i = Len(timeline) + 1
        BY <1>1, NewsStep
    <2>2. Len(timeline') <= MaxEvents /\ \A i \in Ids : i \in Nat
        <3>1. Len(timeline') + Cardinality(Announced') <= MaxEvents
            BY TypeStep DEF TypeInv, PlatformType
        <3>2. Cardinality(Announced') \in Nat /\ MaxEvents \in Nat
            BY AnnouncedFinite, PlatformAssumption
        <3>. QED  BY <2>1, <3>1, <3>2 DEF Ids
    <2>3. \A i \in Ids : i > Len(timeline') => acted'[i] = 0
        BY <2>1, <2>2 DEF EchoInv
    <2>4. ASSUME NEW i \in 1..Len(timeline'), Skipped(timeline'[i]) PROVE acted'[i] = 0
        <3>1. CASE i \in 1..Len(timeline)
            BY <2>1, <2>4, <3>1 DEF EchoInv
        <3>2. CASE i = Len(timeline) + 1
            <4>1. i \in Ids /\ i > Len(timeline)
                BY <2>1, <2>2, <3>2, PlatformAssumption DEF Ids
            <4>. QED  BY <2>1, <4>1 DEF EchoInv
        <3>. QED  BY <2>1, <3>1, <3>2
    <2>5. \A t \in Threads : th'[t].pc \in Acting => ~Skipped(timeline'[th'[t].ev])
        BY <1>0, <2>1 DEF EchoInv
    <2>. QED  BY <2>3, <2>4, <2>5 DEF EchoInv
<1>2. ASSUME timeline' = timeline, th' = th \/ (\A t \in Threads : th'[t] = Free), acted' = acted
      PROVE  EchoInv'
    BY <1>2 DEF EchoInv, Free, Acting
<1>3. CASE Poll \/ Submit \/ set_cursor \/ AdvanceFails \/ Interrupt \/ Restart \/ Crash
    BY <1>2, <1>3 DEF Poll, Submit, set_cursor, AdvanceFails, Interrupt, Restart, Crash,
                      platformVars
<1>4. ASSUME NEW t \in Threads, NEW h \in {Free} \cup Hand, th' = [th EXCEPT ![t] = h],
             h.pc \in Acting => ~Skipped(timeline[h.ev]),
             timeline' = timeline, acted' = acted
      PROVE  EchoInv'
    BY <1>0, <1>4 DEF EchoInv
<1>5. ASSUME NEW t \in Threads, Take(t) PROVE EchoInv'
    <2>1. PICK h \in Hand :
               /\ th' = [th EXCEPT ![t] = h] /\ h.ev = Head(queue)
               /\ h.pc = CASE Skipped(timeline[Head(queue)]) -> "meta"
                           [] ~Skipped(timeline[Head(queue)])
                                  /\ timeline[Head(queue)].subject = "Item" -> "fetch"
                           [] OTHER -> "act"
        BY <1>5, TakeType
    <2>2. h.pc \in Acting => ~Skipped(timeline[h.ev])
        BY <2>1 DEF Acting
    <2>3. timeline' = timeline /\ acted' = acted
        BY <1>5 DEF Take, platformVars
    <2>. QED  BY <1>4, <2>1, <2>2, <2>3
<1>6. ASSUME NEW t \in Threads, fetch_item(t) \/ upsert_item(t) \/ mark_item_status(t)
                                \/ Act(t) \/ Raise(t)
      PROVE  EchoInv'
    <2>1. /\ th[t] \in Hand /\ th[t].ev \in 1..Len(timeline) /\ th[t].pc \in Acting
          /\ timeline' = timeline
        BY <1>6, MoveType DEF platformVars
    <2>2. PICK h \in Hand : th' = [th EXCEPT ![t] = h] /\ h.ev = th[t].ev
        BY <1>6, MoveType
    <2>3. ~Skipped(timeline[h.ev])
        BY <2>1, <2>2 DEF EchoInv
    <2>4. \A u \in Threads : th'[u].pc \in Acting => ~Skipped(timeline'[th'[u].ev])
        BY <1>0, <2>1, <2>2, <2>3 DEF EchoInv
    <2>5. \A i \in Ids : i # th[t].ev => acted'[i] = acted[i]
        BY <1>0, <1>6 DEF fetch_item, upsert_item, mark_item_status, Act, Raise
    <2>6. \A i \in Ids : i > Len(timeline) => i # th[t].ev
        BY <2>1, TimelineBound DEF Ids
    <2>7. \A i \in Ids : i > Len(timeline') => acted'[i] = 0
        BY <2>1, <2>5, <2>6 DEF EchoInv
    <2>8. \A i \in 1..Len(timeline') : Skipped(timeline'[i]) => acted'[i] = 0
        BY <1>0, <2>1, <2>2, <2>3, <2>5 DEF EchoInv
    <2>. QED  BY <2>4, <2>7, <2>8 DEF EchoInv
<1>7. ASSUME NEW t \in Threads, update_event_processing_meta(t) \/ MetaFails(t)
      PROVE  EchoInv'
    <2>1. timeline' = timeline /\ acted' = acted
        BY <1>7 DEF update_event_processing_meta, MetaFails, platformVars
    <2>3. PICK h \in {Free} \cup Hand : th' = [th EXCEPT ![t] = h] /\ h.pc \notin Acting
        BY <1>7, GivenUp
    <2>. QED  BY <1>4, <2>1, <2>3
<1>. QED
    BY <1>1, <1>3, <1>5, <1>6, <1>7 DEF Next, MainStep, ThreadStep, ListenerFault


-----------------------------------------------------------------------------
(* The mirror                                                              *)

\* A longer timeline and a queue that only lost what was taken: what is ahead stays.
LEMMA AheadKept ==
    ASSUME \A i \in Untaken : i \in Untaken' /\ timeline'[i] = timeline[i],
           \A c \in Callers : call[c].pc = "emit" => call'[c].pc = "emit"
    PROVE  (RefreshAhead => RefreshAhead') /\ (DeletionAhead => DeletionAhead')
BY DEF RefreshAhead, DeletionAhead, IsItem

\* The events nobody took up are events.
LEMMA UntakenType ==
    ASSUME TypeInv
    PROVE  Untaken \subseteq 1..Len(timeline)
<1>1. Elems(queue) \subseteq 1..Len(timeline)
    <2>1. queue \in Seq(1..Len(timeline))
        BY DEF TypeInv, ListenerType
    <2>. QED  BY <2>1, ElementOfSeq, LenProperties DEF Elems
<1>. QED  BY <1>1, SubmittedType, TimelineBound DEF Untaken

\* Steps of the loop, and of threads away from the mirror.
LEMMA MirrorCalm ==
    ASSUME TypeInv, MirrorInv, UNCHANGED <<item, timeline, call, mirror>>,
           ~excused' => ~excused /\ Untaken \subseteq Untaken',
           \A t \in Threads :
               th'[t] = th[t] \/ /\ th[t].pc \notin Mirroring /\ th'[t].pc \notin Mirroring
                                 /\ th'[t] # Free => th[t] # Free /\ th'[t].ev = th[t].ev
    PROVE  MirrorInv'
<1>1. ItemEvents'
    <2>1. ItemEvents /\ \A i : IsItem(i)' <=> IsItem(i)
        BY DEF MirrorInv, IsItem
    <2>2. \A t \in Threads : th'[t].pc \in Mirroring => th'[t] = th[t]
        OBVIOUS
    <2>3. "mark" \in Mirroring
        BY DEF Mirroring
    <2>. QED  BY <2>1, <2>2, <2>3 DEF ItemEvents
<1>2. ASSUME ~excused' PROVE OneAtATime' /\ LiveMirror' /\ GoneMirror'
    <2>1. OneAtATime /\ LiveMirror /\ GoneMirror
        BY <1>2 DEF MirrorInv
    <2>2. (RefreshAhead => RefreshAhead') /\ (DeletionAhead => DeletionAhead')
        BY <1>2, AheadKept
    <2>3. OneAtATime'
        BY <2>1 DEF OneAtATime, Busy, ev
    <2>4. LiveMirror'
        BY <2>1, <2>2 DEF LiveMirror, Mentioned, Same, Mirroring
    <2>5. GoneMirror'
        BY <2>1, <2>2 DEF GoneMirror, Mirroring
    <2>. QED  BY <2>3, <2>4, <2>5
<1>. QED  BY <1>1, <1>2 DEF MirrorInv

\* An event more on the timeline, while nobody moves in the pool.
LEMMA MirrorNews ==
    ASSUME TypeInv, MirrorInv, NEW e \in Events, timeline' = Append(timeline, e),
           UNCHANGED <<cursor, loop, queue, th, mirror, excused>>,
           item' = item \/ item' = Gone,
           e.name = "item.deleted" => ~item'.live,
           e.name \in {"item.deleted", "stock.updated", "product.updated"} =>
               e.source = "fake_platform" /\ e.subject = "Item"
    PROVE  /\ ItemEvents'
           /\ OneAtATime => OneAtATime'
           /\ \A i \in Untaken : i \in Untaken' /\ timeline'[i] = timeline[i]
           /\ Len(timeline) + 1 \in Untaken'
           /\ timeline'[Len(timeline) + 1] = e
           /\ Mentioned' => Mentioned \/ e.name \in {"stock.updated", "product.updated"}
<1>. DEFINE n == Len(timeline)
<1>1. /\ n \in Nat /\ Len(timeline') = n + 1 /\ timeline'[n + 1] = e
      /\ \A i \in 1..n : timeline'[i] = timeline[i]
    BY Appended, TimelineBound DEF TypeInv, PlatformType
<1>2. \A i \in 1..(n + 1) : i \in 1..n \/ i = n + 1
    BY <1>1
<1>3. \A t \in Threads : th[t].pc \in Mirroring => th[t].ev \in 1..n
    BY HandType DEF Mirroring, Free
<1>4. \A i \in 1..n : IsItem(i) => IsItem(i)'
    BY <1>1 DEF IsItem
<1>5. ASSUME NEW i, i = n + 1,
             e.name \in {"item.deleted", "stock.updated", "product.updated"}
      PROVE  IsItem(i)'
    <2>1. timeline'[i] = e /\ e.source = "fake_platform" /\ e.subject = "Item"
        BY <1>1, <1>5
    <2>. QED  BY <2>1 DEF IsItem, Skipped
<1>6. ItemEvents'
    <2>1. ~item.live => ~item'.live
        BY DEF Gone
    <2>2. ASSUME NEW i \in 1..(n + 1), timeline'[i].name = "item.deleted"
          PROVE  ~item'.live /\ IsItem(i)'
        <3>1. CASE i \in 1..n
            BY <1>1, <1>4, <2>1, <2>2, <3>1 DEF MirrorInv, ItemEvents
        <3>2. CASE i = n + 1
            BY <1>1, <1>5, <2>2, <3>2
        <3>. QED  BY <1>2, <3>1, <3>2
    <2>3. ASSUME NEW i \in 1..(n + 1), timeline'[i].name \in {"stock.updated", "product.updated"}
          PROVE  IsItem(i)'
        <3>1. CASE i \in 1..n
            BY <1>1, <1>4, <2>3, <3>1 DEF MirrorInv, ItemEvents
        <3>2. CASE i = n + 1
            BY <1>1, <1>5, <2>3, <3>2
        <3>. QED  BY <1>2, <3>1, <3>2
    <2>4. \A t \in Threads : th'[t].pc \in Mirroring => IsItem(th[t].ev)'
        BY <1>3, <1>4 DEF MirrorInv, ItemEvents
    <2>5. \A t \in Threads : th'[t].pc = "mark" => timeline'[th'[t].ev].name = "item.deleted"
        BY <1>1, <1>3 DEF MirrorInv, ItemEvents, Mirroring
    <2>. QED  BY <1>1, <2>2, <2>3, <2>4, <2>5 DEF ItemEvents
<1>7. OneAtATime => OneAtATime'
    <2>1. \A t \in Busy : th[t].ev \in 1..n
        BY HandType DEF Busy
    <2>. QED  BY <1>1, <2>1 DEF OneAtATime, Busy, ev
<1>8. \A i \in Untaken : i \in Untaken' /\ timeline'[i] = timeline[i]
    <2>1. Untaken' = Elems(queue) \cup (Submitted + 1 .. n + 1)
        BY <1>1 DEF Untaken, Elems, Submitted
    <2>2. \A i \in (Submitted + 1 .. n) : i \in (Submitted + 1 .. n + 1)
        BY <1>1
    <2>. QED  BY <1>1, <2>1, <2>2, UntakenType DEF Untaken
<1>9. n + 1 \in Untaken'
    <2>1. n + 1 \in (Submitted + 1 .. n + 1)
        BY <1>1, SubmittedType
    <2>. QED  BY <1>1, <2>1 DEF Untaken, Submitted
<1>10. Mentioned' => Mentioned \/ e.name \in {"stock.updated", "product.updated"}
    BY <1>1, <1>2 DEF Mentioned
<1>. QED  BY <1>1, <1>6, <1>7, <1>8, <1>9, <1>10


\* What a thread works on does not change under it.
LEMMA ThreadsKept ==
    ASSUME TypeInv, NEW e \in Events, timeline' = Append(timeline, e), th' = th
    PROVE  \A t \in Threads : th[t].pc \in Mirroring => timeline'[th'[t].ev] = timeline[th[t].ev]
<1>1. \A i \in 1..Len(timeline) : timeline'[i] = timeline[i]
    BY Appended DEF TypeInv, PlatformType
<1>2. \A t \in Threads : th[t].pc \in Mirroring => th[t].ev \in 1..Len(timeline)
    BY HandType DEF Mirroring, Free
<1>. QED  BY <1>1, <1>2

\* Nothing moves in the pool and on the timeline, and the item stays what it is.
LEMMA MirrorQuiet ==
    ASSUME MirrorInv, UNCHANGED <<item, timeline, cursor, loop, queue, th, mirror, excused>>,
           \A c \in Callers : call[c].pc = "emit" => call'[c].pc = "emit"
    PROVE  MirrorInv'
<1>1. RefreshAhead => RefreshAhead'
    BY DEF RefreshAhead, Untaken, Elems, Submitted, IsItem
<1>2. DeletionAhead' <=> DeletionAhead
    BY DEF DeletionAhead, Untaken, Elems, Submitted
<1>3. ItemEvents'
    BY DEF MirrorInv, ItemEvents, IsItem
<1>4. OneAtATime => OneAtATime'
    BY DEF OneAtATime, Busy, ev
<1>5. LiveMirror => LiveMirror'
    BY <1>1 DEF LiveMirror, Mentioned, Same
<1>6. GoneMirror => GoneMirror'
    BY <1>2 DEF GoneMirror
<1>. QED  BY <1>3, <1>4, <1>5, <1>6 DEF MirrorInv

\* The steps of the platform keep the account of the mirror.
LEMMA PlatformMirror == ASSUME TypeInv, MirrorInv, PlatformStep PROVE MirrorInv'
<1>0. /\ UNCHANGED <<cursor, loop, batch, queue, th, meta, mirror, acted, lost, again, excused>>
      /\ PlatformType /\ timeline \in Seq(Events)
    BY DEF PlatformStep, CallerStep, listenerVars, TypeInv, PlatformType
<1>1. ASSUME NEW c \in Callers, create_order(c) \/ Update(c) PROVE MirrorInv'
    <2>1. UNCHANGED <<item, timeline>>
        BY <1>0, <1>1, BeginsType
    <2>2. \A d \in Callers : call[d].pc = "emit" => call'[d].pc = "emit"
        <3>1. PICK op : call' = [call EXCEPT ![c] = op] /\ call[c] = Idle
            BY <1>1 DEF create_order, Update, Begin
        <3>. QED  BY <1>0, <3>1 DEF PlatformType, Idle
    <2>. QED  BY <1>0, <2>1, <2>2, MirrorQuiet
<1>2. ASSUME NEW c \in Callers, Commit(c) PROVE MirrorInv'
    <2>1. /\ timeline' = timeline /\ item'.live = item.live
          /\ call' = [call EXCEPT ![c] = [pc |-> "emit", events |-> call[c].events]]
        BY <1>0, <1>2, CommitType
    <2>2. call'[c].pc = "emit" /\ \A d \in Callers \ {c} : call'[d] = call[d]
        BY <1>0, <2>1 DEF PlatformType
    <2>3. RefreshAhead' /\ (DeletionAhead <=> DeletionAhead')
        BY <1>0, <2>1, <2>2 DEF RefreshAhead, DeletionAhead, Untaken, Elems, Submitted
    <2>4. ItemEvents'
        BY <1>0, <2>1 DEF MirrorInv, ItemEvents, IsItem
    <2>5. OneAtATime => OneAtATime'
        BY <1>0, <2>1 DEF OneAtATime, Busy, ev
    <2>6. LiveMirror'
        BY <2>3 DEF LiveMirror
    <2>7. GoneMirror => GoneMirror'
        BY <1>0, <2>1, <2>3 DEF GoneMirror
    <2>. QED  BY <1>0, <2>4, <2>5, <2>6, <2>7 DEF MirrorInv
<1>3. ASSUME NEW c \in Callers, emit_timeline_event(c) PROVE MirrorInv'
    <2>. DEFINE s == call[c].events
                e == Head(s)
    <2>1. /\ item' = item /\ s \in Announcements
          /\ timeline' = Append(timeline, e) /\ e \in Events
        BY <1>0, <1>3, EmitType
    <2>2. /\ e.source = "fake_platform" /\ e.name # "item.deleted"
          /\ e.name \in {"stock.updated", "product.updated"} => e.subject = "Item"
          /\ Len(s) = 1 => e.subject = "Item"
          /\ s # <<>> /\ Len(s) \in 1..2
        BY <2>1, AnnouncementType
    <2>3. \A d \in Callers \ {c} : call'[d] = call[d]
        BY <1>0, <1>3 DEF emit_timeline_event, PlatformType
    <2>4. Len(s) # 1 => call'[c].pc = "emit"
        BY <1>0, <1>3 DEF emit_timeline_event, PlatformType
    <2>. HIDE DEF e, s
    <2>5. /\ ItemEvents'
          /\ OneAtATime => OneAtATime'
          /\ \A i \in Untaken : i \in Untaken' /\ timeline'[i] = timeline[i]
          /\ Len(timeline) + 1 \in Untaken'
          /\ timeline'[Len(timeline) + 1] = e
        BY <1>0, <2>1, <2>2, MirrorNews
    <2>6. RefreshAhead'
        <3>1. CASE Len(s) = 1
            <4>1. \A i : i = Len(timeline) + 1 => IsItem(i)'
                BY <2>2, <2>5, <3>1 DEF IsItem, Skipped
            <4>. QED  BY <2>5, <4>1 DEF RefreshAhead
        <3>2. CASE Len(s) # 1
            BY <2>4, <3>2 DEF RefreshAhead
        <3>. QED  BY <3>1, <3>2
    <2>7. DeletionAhead => DeletionAhead'
        BY <2>5 DEF DeletionAhead
    <2>8. LiveMirror'
        BY <2>6 DEF LiveMirror
    <2>9. GoneMirror => GoneMirror'
        BY <1>0, <2>1, <2>7, ThreadsKept DEF GoneMirror
    <2>. QED  BY <1>0, <2>5, <2>8, <2>9 DEF MirrorInv
<1>4. CASE Insert
    <2>1. UNCHANGED <<item, call>>
        BY <1>0, <1>4, InsertType
    <2>2. PICK e \in Inserted : timeline' = Append(timeline, e)
        BY <1>0, <1>4, InsertType
    <2>3. e \in Events /\ e.name \notin {"stock.updated", "product.updated", "item.deleted"}
        BY PlatformAssumption DEF Events
    <2>4. /\ ItemEvents'
          /\ OneAtATime => OneAtATime'
          /\ \A i \in Untaken : i \in Untaken' /\ timeline'[i] = timeline[i]
          /\ Mentioned' => Mentioned
        BY <1>0, <2>1, <2>2, <2>3, MirrorNews
    <2>5. (RefreshAhead => RefreshAhead') /\ (DeletionAhead => DeletionAhead')
        BY <2>1, <2>4, AheadKept
    <2>6. LiveMirror => LiveMirror'
        BY <1>0, <2>1, <2>4, <2>5 DEF LiveMirror, Same
    <2>7. GoneMirror => GoneMirror'
        BY <1>0, <2>1, <2>2, <2>3, <2>5, ThreadsKept DEF GoneMirror
    <2>. QED  BY <1>0, <2>4, <2>6, <2>7 DEF MirrorInv
<1>5. CASE Delete
    <2>1. /\ item' = Gone /\ timeline' = Append(timeline, ItemDeleted) /\ ItemDeleted \in Events
        BY <1>0, <1>5, DeleteType
    <2>2. /\ ItemDeleted.name = "item.deleted" /\ ItemDeleted.source = "fake_platform"
          /\ ItemDeleted.subject = "Item" /\ ~Gone.live
        BY DEF ItemDeleted, Event, Gone
    <2>3. /\ ItemEvents'
          /\ OneAtATime => OneAtATime'
          /\ Len(timeline) + 1 \in Untaken'
          /\ timeline'[Len(timeline) + 1] = ItemDeleted
        BY <1>0, <2>1, <2>2, MirrorNews
    <2>4. DeletionAhead'
        BY <2>2, <2>3 DEF DeletionAhead
    <2>5. LiveMirror' /\ GoneMirror'
        BY <2>1, <2>2, <2>4 DEF LiveMirror, GoneMirror
    <2>. QED  BY <1>0, <2>3, <2>5 DEF MirrorInv
<1>. QED  BY <1>1, <1>2, <1>3, <1>4, <1>5 DEF PlatformStep, CallerStep

\* The thread that takes an event of the item will read the item.
LEMMA TakeMirror == ASSUME TypeInv, MirrorInv, NEW t \in Threads, Take(t) PROVE MirrorInv'
<1>. DEFINE i == Head(queue)
<1>1. PICK h \in Hand :
           /\ th' = [th EXCEPT ![t] = h] /\ h.ev = i
           /\ h.pc = CASE Skipped(timeline[i]) -> "meta"
                       [] ~Skipped(timeline[i]) /\ timeline[i].subject = "Item" -> "fetch"
                       [] OTHER -> "act"
    BY TakeType
<1>2. /\ UNCHANGED <<item, timeline, call, cursor, loop, mirror>>
      /\ queue # <<>> /\ queue' = Tail(queue) /\ th[t] = Free
      /\ ~excused' => /\ ~excused
                      /\ timeline[i].subject = "Item" =>
                             \A u \in Busy : timeline[th[u].ev].subject # "Item"
    BY DEF Take, platformVars, ev, TypeInv, ListenerType
<1>3. /\ th' \in [Threads -> {Free} \cup Hand] /\ th'[t] = h
      /\ \A u \in Threads \ {t} : th'[u] = th[u]
      /\ h.pc \in {"meta", "fetch", "act"}
      /\ h.pc = "fetch" <=> IsItem(i)
    BY <1>1 DEF TypeInv, ListenerType, IsItem
<1>4. \A j \in Untaken : j \in Untaken' \/ j = i
    <2>1. queue \in Seq(1..Len(timeline))
        BY DEF TypeInv, ListenerType
    <2>2. Elems(queue) = {i} \cup Elems(Tail(queue))
        BY <1>2, <2>1, ElemsHead
    <2>3. Elems(queue)' = Elems(Tail(queue)) /\ Submitted' = Submitted /\ timeline' = timeline
        BY <1>2 DEF Elems, Submitted
    <2>. QED  BY <2>2, <2>3 DEF Untaken
<1>. HIDE DEF i
<1>5. ItemEvents'
    <2>1. ItemEvents /\ \A j : IsItem(j)' <=> IsItem(j)
        BY <1>2 DEF MirrorInv, IsItem
    <2>2. th'[t].pc \in Mirroring => th'[t].pc = "fetch"
        BY <1>3 DEF Mirroring
    <2>. QED  BY <1>1, <1>2, <1>3, <2>1, <2>2 DEF ItemEvents
<1>6. ASSUME ~excused' PROVE OneAtATime' /\ LiveMirror' /\ GoneMirror'
    <2>1. OneAtATime /\ LiveMirror /\ GoneMirror /\ ItemEvents
        BY <1>2, <1>6 DEF MirrorInv
    <2>2. \A u \in Busy : timeline[i].subject = "Item" => timeline[th[u].ev].subject # "Item"
        BY <1>2, <1>6
    <2>3. OneAtATime'
        BY <1>1, <1>2, <1>3, <2>1, <2>2 DEF OneAtATime, Busy, ev
    <2>4. (RefreshAhead => RefreshAhead' \/ h.pc = "fetch")
          /\ (DeletionAhead => DeletionAhead' \/ (h.pc = "fetch" /\ timeline[i].name = "item.deleted"))
        <3>1. ASSUME NEW j \in Untaken, IsItem(j) PROVE RefreshAhead' \/ h.pc = "fetch"
            BY <1>2, <1>3, <1>4, <3>1 DEF RefreshAhead, IsItem
        <3>2. ASSUME NEW j \in Untaken, timeline[j].name = "item.deleted"
              PROVE  DeletionAhead' \/ (h.pc = "fetch" /\ timeline[i].name = "item.deleted")
            <4>1. j \in 1..Len(timeline)
                BY UntakenType
            <4>2. IsItem(j)
                BY <2>1, <3>2, <4>1 DEF ItemEvents
            <4>. QED  BY <1>2, <1>3, <1>4, <3>2, <4>2 DEF DeletionAhead
        <3>3. (\E c \in Callers : call[c].pc = "emit") => RefreshAhead'
            BY <1>2 DEF RefreshAhead
        <3>. QED  BY <3>1, <3>2, <3>3 DEF RefreshAhead, DeletionAhead
    \* A thread with a row in hand is the only one that works on the item.
    <2>5. ASSUME NEW u \in Threads, th'[u].pc = "upsert"
          PROVE  /\ th[u] = th'[u] /\ h.pc # "fetch"
                 /\ th[u].pc = "upsert"
        <3>1. u # t /\ th[u] = th'[u] /\ th[u].pc = "upsert" /\ u \in Busy
            BY <1>3, <2>5 DEF Busy, Free
        <3>2. timeline[th[u].ev].subject = "Item"
            BY <2>1, <3>1 DEF ItemEvents, IsItem, Mirroring
        <3>. QED  BY <1>3, <2>2, <3>1, <3>2 DEF IsItem
    <2>6. LiveMirror'
        <3>. SUFFICES ASSUME item.live PROVE LiveMirror'
            BY <1>2 DEF LiveMirror
        <3>1. Mentioned' =>
                 \/ mirror' = [status |-> "active", stock |-> item'.stock]
                 \/ RefreshAhead'
                 \/ \E u \in Threads : th'[u].pc \in {"fetch", "upsert"}
            <4>1. \A u \in Threads : th[u].pc \in {"fetch", "upsert"} => th'[u] = th[u]
                BY <1>2, <1>3 DEF Free
            <4>. QED  BY <1>2, <1>3, <2>1, <2>4, <4>1 DEF LiveMirror, Mentioned
        <3>2. \A u \in Threads : th'[u].pc = "upsert" => Same(th[u].row)' \/ RefreshAhead'
            BY <1>2, <2>1, <2>4, <2>5 DEF LiveMirror, Same
        <3>. QED  BY <3>1, <3>2 DEF LiveMirror
    <2>7. GoneMirror'
        <3>. SUFFICES ASSUME ~item.live PROVE GoneMirror'
            BY <1>2 DEF GoneMirror
        <3>1. \/ mirror'.status # "active"
              \/ DeletionAhead'
              \/ \E u \in Threads : /\ th'[u].pc \in Mirroring
                                    /\ timeline'[th'[u].ev].name = "item.deleted"
            <4>1. \A u \in Threads : th[u].pc \in Mirroring => th'[u] = th[u]
                BY <1>2, <1>3 DEF Free, Mirroring
            <4>2. "fetch" \in Mirroring
                BY DEF Mirroring
            <4>. QED  BY <1>1, <1>2, <1>3, <2>1, <2>4, <4>1, <4>2 DEF GoneMirror
        <3>2. \A u \in Threads : th'[u].pc = "upsert" /\ th'[u].row.live => DeletionAhead'
            BY <1>2, <2>1, <2>4, <2>5 DEF GoneMirror
        <3>. QED  BY <3>1, <3>2 DEF GoneMirror
    <2>. QED  BY <2>3, <2>6, <2>7
<1>. QED  BY <1>5, <1>6 DEF MirrorInv

\* A thread fetches the row, writes it into the mirror, and marks the deletion.
LEMMA MirrorMove ==
    ASSUME TypeInv, MirrorInv, NEW t \in Threads,
           fetch_item(t) \/ upsert_item(t) \/ mark_item_status(t)
    PROVE  MirrorInv'
<1>1. PICK h \in Hand : th' = [th EXCEPT ![t] = h] /\ h.ev = th[t].ev
    BY MoveType
<1>2. /\ UNCHANGED <<item, timeline, call, cursor, loop, queue, excused>>
      /\ th[t] \in Hand /\ th[t].pc \in Mirroring
      /\ \A u \in Threads \ {t} : th'[u] = th[u]
      /\ th'[t] = h
    BY <1>1, MoveType
    DEF fetch_item, upsert_item, mark_item_status, platformVars, TypeInv, ListenerType, Mirroring
<1>3. /\ fetch_item(t) => h.pc = "upsert" /\ h.row = item /\ mirror' = mirror
      /\ upsert_item(t) =>
            /\ h.pc = IF timeline[th[t].ev].name = "item.deleted" THEN "mark" ELSE "act"
            /\ mirror' = IF th[t].row.live
                         THEN [status |-> "active", stock |-> th[t].row.stock] ELSE mirror
      /\ mark_item_status(t) =>
            /\ h.pc = "act"
            /\ mirror' = IF mirror.status = "none" THEN mirror
                         ELSE [mirror EXCEPT !.status = "deleted"]
    <2>2. th \in [Threads -> {Free} \cup Hand]
        BY DEF TypeInv, ListenerType
    <2>3. ASSUME fetch_item(t) PROVE h.pc = "upsert" /\ h.row = item
        <3>1. h = [th[t] EXCEPT !.pc = "upsert", !.row = item]
            BY <1>2, <2>2, <2>3 DEF fetch_item
        <3>. QED  BY <1>2, <3>1 DEF Hand
    <2>4. ASSUME upsert_item(t)
          PROVE  h.pc = IF timeline[th[t].ev].name = "item.deleted" THEN "mark" ELSE "act"
        <3>. DEFINE p == IF timeline[th[t].ev].name = "item.deleted" THEN "mark" ELSE "act"
        <3>1. h = [th[t] EXCEPT !.pc = p, !.row = Gone]
            BY <1>2, <2>2, <2>4 DEF upsert_item, ev
        <3>. HIDE DEF p
        <3>2. h.pc = p
            BY <1>2, <3>1 DEF Hand
        <3>. QED  BY <3>2 DEF p
    <2>5. ASSUME mark_item_status(t) PROVE h.pc = "act"
        <3>1. h = [th[t] EXCEPT !.pc = "act"]
            BY <1>2, <2>2, <2>5 DEF mark_item_status, Goto
        <3>. QED  BY <1>2, <3>1 DEF Hand
    <2>6. /\ fetch_item(t) => mirror' = mirror
          /\ upsert_item(t) => mirror' = IF th[t].row.live
                                         THEN [status |-> "active", stock |-> th[t].row.stock]
                                         ELSE mirror
          /\ mark_item_status(t) => mirror' = IF mirror.status = "none" THEN mirror
                                              ELSE [mirror EXCEPT !.status = "deleted"]
        BY DEF fetch_item, upsert_item, mark_item_status
    <2>. QED  BY <2>3, <2>4, <2>5, <2>6
<1>4. /\ fetch_item(t) => th[t].pc = "fetch"
      /\ upsert_item(t) => th[t].pc = "upsert"
      /\ mark_item_status(t) => th[t].pc = "mark"
    BY DEF fetch_item, upsert_item, mark_item_status
<1>5. /\ ItemEvents
      /\ mark_item_status(t) => ~item.live
    <2>1. th[t].ev \in 1..Len(timeline)
        BY MoveType
    <2>. QED  BY <1>4, <2>1 DEF MirrorInv, ItemEvents
<1>6. (RefreshAhead' <=> RefreshAhead) /\ (DeletionAhead' <=> DeletionAhead)
      /\ \A i : IsItem(i)' <=> IsItem(i)
    BY <1>2 DEF RefreshAhead, DeletionAhead, Untaken, Elems, Submitted, IsItem
<1>7. ItemEvents'
    <2>1. IsItem(th[t].ev)
        BY <1>2, <1>5 DEF ItemEvents
    <2>2. h.pc = "mark" => timeline[th[t].ev].name = "item.deleted"
        BY <1>3
    <2>3. \A u \in Threads : th'[u].ev = th[u].ev
        BY <1>1, <1>2
    <2>4. \A u \in Threads : th'[u].pc \in Mirroring => IsItem(th'[u].ev)
        BY <1>2, <1>5, <2>1, <2>3 DEF ItemEvents
    <2>5. \A u \in Threads : th'[u].pc = "mark" => timeline[th'[u].ev].name = "item.deleted"
        BY <1>2, <1>5, <2>2, <2>3 DEF ItemEvents
    <2>. QED  BY <1>2, <1>5, <1>6, <2>4, <2>5 DEF ItemEvents
<1>8. ASSUME ~excused' PROVE OneAtATime' /\ LiveMirror' /\ GoneMirror'
    <2>1. OneAtATime /\ LiveMirror /\ GoneMirror
        BY <1>2, <1>8 DEF MirrorInv
    <2>2. OneAtATime'
        <3>1. th[t] # Free
            BY <1>2 DEF Free, Mirroring
        <3>. QED  BY <1>1, <1>2, <2>1, <3>1 DEF OneAtATime, Busy, ev
    <2>3. LiveMirror'
        <3>. SUFFICES ASSUME item.live PROVE LiveMirror'
            BY <1>2 DEF LiveMirror
        <3>1. CASE fetch_item(t)
            BY <1>2, <1>3, <1>6, <2>1, <3>1 DEF LiveMirror, Mentioned, Same
        <3>2. CASE upsert_item(t)
            <4>1. Same(th[t].row) \/ RefreshAhead
                BY <1>4, <2>1, <3>2 DEF LiveMirror
            <4>2. Same(th[t].row) => mirror' = [status |-> "active", stock |-> item.stock]
                BY <1>3, <3>2 DEF Same
            <4>3. h.pc # "upsert"
                BY <1>3, <3>2
            <4>. QED  BY <1>2, <1>6, <2>1, <4>1, <4>2, <4>3 DEF LiveMirror, Mentioned, Same
        <3>. QED  BY <1>5, <3>1, <3>2
    <2>4. GoneMirror'
        <3>. SUFFICES ASSUME ~item.live PROVE GoneMirror'
            BY <1>2 DEF GoneMirror
        <3>1. CASE fetch_item(t)
            <4>1. "upsert" \in Mirroring
                BY DEF Mirroring
            <4>. QED  BY <1>1, <1>2, <1>3, <1>6, <2>1, <3>1, <4>1 DEF GoneMirror
        <3>2. CASE upsert_item(t)
            <4>1. th[t].row.live => DeletionAhead
                BY <1>4, <2>1, <3>2 DEF GoneMirror
            <4>2. ~th[t].row.live => mirror' = mirror
                BY <1>3, <3>2
            <4>3. timeline[th[t].ev].name = "item.deleted" => h.pc \in Mirroring
                BY <1>3, <3>2 DEF Mirroring
            <4>4. h.pc # "upsert"
                BY <1>3, <3>2
            <4>. QED  BY <1>1, <1>2, <1>6, <2>1, <4>1, <4>2, <4>3, <4>4 DEF GoneMirror
        <3>3. CASE mark_item_status(t)
            <4>1. mirror'.status # "active"
                BY <1>3, <3>3 DEF TypeInv, ListenerType
            <4>2. h.pc # "upsert"
                BY <1>3, <3>3
            <4>. QED  BY <1>2, <1>6, <2>1, <4>1, <4>2 DEF GoneMirror
        <3>. QED  BY <3>1, <3>2, <3>3
    <2>. QED  BY <2>2, <2>3, <2>4
<1>. QED  BY <1>7, <1>8 DEF MirrorInv

\* Every step keeps the account of the mirror.
LEMMA MirrorStep == TypeInv /\ MirrorInv /\ [Next]_vars => MirrorInv'
<1>. SUFFICES ASSUME TypeInv, MirrorInv, [Next]_vars PROVE MirrorInv'
    OBVIOUS
<1>1. CASE PlatformStep
    BY <1>1, PlatformMirror
\* After a fault nothing is claimed of the mirror any more.
<1>2. ASSUME excused', UNCHANGED <<item, timeline>>,
             \A t \in Threads : th'[t] = th[t] \/ th'[t].pc \notin Mirroring
      PROVE  MirrorInv'
    <2>1. ItemEvents /\ \A i : IsItem(i)' <=> IsItem(i)
        BY <1>2 DEF MirrorInv, IsItem
    <2>2. "mark" \in Mirroring
        BY DEF Mirroring
    <2>. QED  BY <1>2, <2>1, <2>2 DEF MirrorInv, ItemEvents
<1>3. ASSUME NEW c \in Callers, CallerFails(c) PROVE MirrorInv'
    <2>1. excused' /\ th' = th /\ UNCHANGED <<item, timeline>>
        BY <1>3 DEF CallerFails, CallerDies
    <2>. QED  BY <1>2, <2>1
<1>4. CASE AdvanceFails \/ Crash
    <2>1. excused' /\ UNCHANGED <<item, timeline>>
          /\ \A t \in Threads : th'[t] = th[t] \/ th'[t].pc \notin Mirroring
        BY <1>4 DEF AdvanceFails, Crash, platformVars, Free, Mirroring
    <2>. QED  BY <1>2, <2>1
<1>5. ASSUME NEW t \in Threads, Raise(t) PROVE MirrorInv'
    <2>1. excused' /\ UNCHANGED <<item, timeline>>
        BY <1>5 DEF Raise, platformVars
    <2>2. th[t] \in Hand
        BY <1>5, MoveType
    <2>3. [th[t] EXCEPT !.pc = "meta", !.outcome = "error"].pc = "meta"
        BY <2>2 DEF Hand
    <2>4. \A u \in Threads : th'[u] = th[u] \/ th'[u].pc = "meta"
        BY <1>5, <2>3 DEF Raise, TypeInv, ListenerType
    <2>5. "meta" \notin Mirroring
        BY DEF Mirroring
    <2>. QED  BY <1>2, <2>1, <2>4, <2>5
<1>6. CASE Poll \/ Restart \/ UNCHANGED vars
    <2>1. UNCHANGED <<item, timeline, call, cursor, queue, th, mirror, excused>>
          /\ (loop' = "advance" <=> loop = "advance")
        BY <1>6 DEF Poll, Restart, vars, listenerVars, platformVars
    <2>2. Untaken' = Untaken
        BY <2>1 DEF Untaken, Elems, Submitted
    <2>. QED  BY <2>1, <2>2, MirrorCalm
<1>7. CASE Submit
    <2>1. batch # <<>> /\ Head(batch) = cursor + 1 /\ Head(batch) \in 1..Len(timeline)
        BY <1>7, BatchHead DEF Submit, TypeInv, ListenerType
    <2>2. UNCHANGED <<item, timeline, call, cursor, th, mirror, excused>>
          /\ queue' = Append(queue, cursor + 1) /\ loop = "submit" /\ loop' = "advance"
        BY <1>7, <2>1 DEF Submit, platformVars
    <2>3. Elems(queue)' = Elems(queue) \cup {cursor + 1}
        <3>1. Elems(queue)' = Elems(Append(queue, cursor + 1))
            BY <2>2 DEF Elems
        <3>2. queue \in Seq(1..Len(timeline))
            BY DEF TypeInv, ListenerType
        <3>. QED  BY <2>1, <3>1, <3>2, ElemsAppend
    <2>4. \A i \in (cursor + 1 .. Len(timeline)) : i = cursor + 1 \/ i \in (cursor + 2 .. Len(timeline))
        BY TimelineBound DEF TypeInv, ListenerType
    <2>5. cursor + 1 + 1 = cursor + 2
        BY DEF TypeInv, ListenerType
    <2>6. Untaken \subseteq Untaken'
        BY <2>2, <2>3, <2>4, <2>5 DEF Untaken, Submitted
    <2>. QED  BY <2>2, <2>6, MirrorCalm
<1>8. CASE set_cursor
    <2>1. batch # <<>> /\ Head(batch) = cursor + 1
        BY <1>8, BatchHead DEF set_cursor, TypeInv, ListenerType
    <2>2. UNCHANGED <<item, timeline, call, queue, th, mirror, excused>>
          /\ cursor' = cursor + 1 /\ loop = "advance" /\ loop' # "advance"
        BY <1>8, <2>1 DEF set_cursor, platformVars
    <2>3. Untaken' = Untaken
        BY <2>2 DEF Untaken, Elems, Submitted
    <2>. QED  BY <2>2, <2>3, MirrorCalm
<1>9. CASE Interrupt
    <2>1. UNCHANGED <<item, timeline, call, cursor, queue, th, mirror, excused>> /\ loop' # "advance"
        BY <1>9 DEF Interrupt, platformVars
    <2>2. Submitted' = cursor /\ cursor <= Submitted /\ cursor \in Nat /\ Submitted \in Nat
        BY <2>1, SubmittedType DEF Submitted, TypeInv, ListenerType
    <2>3. \A i \in (Submitted + 1 .. Len(timeline)) : i \in (cursor + 1 .. Len(timeline))
        BY <2>2, TimelineBound
    <2>4. Untaken \subseteq Untaken'
        BY <2>1, <2>2, <2>3 DEF Untaken, Elems
    <2>. QED  BY <2>1, <2>4, MirrorCalm
<1>10. ASSUME NEW t \in Threads,
              Act(t) \/ update_event_processing_meta(t) \/ MetaFails(t)
       PROVE  MirrorInv'
    <2>1. UNCHANGED <<item, timeline, call, cursor, loop, queue, mirror, excused>>
        BY <1>10 DEF Act, update_event_processing_meta, MetaFails, platformVars
    <2>2. th[t] \in Hand /\ th[t].pc \in {"act", "meta"}
        BY <1>10, HandType DEF Act, update_event_processing_meta, MetaFails, Free
    <2>3. /\ [th[t] EXCEPT !.pc = "meta"].pc = "meta" /\ [th[t] EXCEPT !.pc = "meta"].ev = th[t].ev
          /\ [th[t] EXCEPT !.outcome = "error"].pc = th[t].pc
          /\ [th[t] EXCEPT !.outcome = "error"].ev = th[t].ev
          /\ th[t] # Free
        BY <2>2 DEF Hand, Free
    <2>4. th'[t] \in {Free, [th[t] EXCEPT !.pc = "meta"], [th[t] EXCEPT !.outcome = "error"]}
          /\ \A u \in Threads \ {t} : th'[u] = th[u]
        BY <1>10 DEF Act, Goto, update_event_processing_meta, MetaFails, TypeInv, ListenerType
    <2>5. "act" \notin Mirroring /\ "meta" \notin Mirroring /\ Free.pc \notin Mirroring
        BY DEF Mirroring, Free
    <2>6. th[t].pc \notin Mirroring /\ th'[t].pc \notin Mirroring
          /\ (th'[t] # Free => th[t] # Free /\ th'[t].ev = th[t].ev)
        BY <2>2, <2>3, <2>4, <2>5
    <2>7. Untaken' = Untaken
        BY <2>1 DEF Untaken, Elems, Submitted
    <2>. QED  BY <2>1, <2>4, <2>6, <2>7, MirrorCalm
<1>. QED
    BY <1>1, <1>3, <1>4, <1>5, <1>6, <1>7, <1>8, <1>9, <1>10, TakeMirror, MirrorMove
    DEF Next, MainStep, ThreadStep, ListenerFault


-----------------------------------------------------------------------------
(* The theorems                                                            *)

\* The types hold always.
LEMMA TypesKept == Spec => []TypeInv
<1>. QED  BY InitType, TypeStep, PTL DEF Spec

\* The types of the proof are at least those of the model.
LEMMA TypeGivesOK == TypeInv => TypeOK
<1>. SUFFICES ASSUME TypeInv PROVE TypeOK
    OBVIOUS
<1>1. Elems(batch) \subseteq 1..Len(timeline)
    <2>1. /\ batch \in Seq(Nat) /\ cursor \in Nat /\ cursor + Len(batch) <= Len(timeline)
          /\ \A k \in 1..Len(batch) : batch[k] = cursor + k
        BY DEF TypeInv, ListenerType
    <2>2. Len(batch) \in Nat /\ DOMAIN batch = 1..Len(batch) /\ Len(timeline) \in Nat
        BY <2>1, LenProperties, TimelineBound
    <2>3. \A k \in 1..Len(batch) : cursor + k \in 1..Len(timeline)
        BY <2>1, <2>2
    <2>. QED  BY <2>1, <2>2, <2>3 DEF Elems
<1>2. Elems(queue) \subseteq 1..Len(timeline)
    <2>1. queue \in Seq(1..Len(timeline))
        BY DEF TypeInv, ListenerType
    <2>. QED  BY <2>1, ElementOfSeq, LenProperties DEF Elems
<1>3. InHand \subseteq 1..Len(timeline)
    BY HandType DEF InHand, Busy
<1>4. cursor \in 0..Len(timeline)
    BY TimelineBound, LenProperties DEF TypeInv, ListenerType
<1>. QED  BY <1>1, <1>2, <1>3, <1>4 DEF TypeOK, TypeInv, PlatformType, ListenerType, ItemRow

\* Every variable of the platform and of the listener keeps its type, the cursor
\* never passes the end of the timeline, and the batch, the queue and the threads
\* only hold events that are there, whatever crashes and is restarted.
THEOREM TypeCorrect == Spec => []TypeOK
<1>. QED  BY TypesKept, TypeGivesOK, PTL

\* No event is skipped: set_cursor moves behind an event only once it is answered in
\* its meta data, waits in the pool, or went down with a pool that died.
THEOREM EventsAccounted == Spec => []NothingSkipped
<1>1. Init => AccountedInv
    BY DEF Init, AccountedInv, Submitted
<1>2. TypeInv /\ AccountedInv => NothingSkipped
    <2>. SUFFICES ASSUME TypeInv, AccountedInv PROVE NothingSkipped
        OBVIOUS
    <2>1. cursor \in Nat /\ Submitted \in Nat /\ cursor <= Submitted
        BY SubmittedType DEF TypeInv, ListenerType
    <2>. QED  BY <2>1 DEF AccountedInv, NothingSkipped
<1>. QED  BY TypesKept, AccountedStep, <1>1, <1>2, PTL DEF Spec

\* The rules and planners run once for an event, and once more at most for every time
\* the loop was stopped between submit and set_cursor; never for the echo of a tool.
THEOREM ActedOnce == Spec => []ActsOnce
<1>1. Init => CopiesInv /\ EchoInv
    <2>. SUFFICES ASSUME Init PROVE CopiesInv /\ EchoInv
        OBVIOUS
    <2>1. /\ timeline = <<>> /\ queue = <<>> /\ cursor = 0 /\ again = 0 /\ loop = "poll"
          /\ th = [t \in Threads |-> Free] /\ acted = [i \in Ids |-> 0]
        BY DEF Init, PlatformInit
    <2>2. ASSUME NEW i \in Ids PROVE Copies(i) = 0
        <3>1. Positions(queue, i) = {} /\ Actors(th, i) = {} /\ acted[i] = 0
            BY <2>1 DEF Positions, Actors, Free, Acting
        <3>. QED  BY <3>1, FS_EmptySet DEF Copies
    <2>3. CopiesInv
        BY <2>1, <2>2 DEF CopiesInv
    <2>4. Len(timeline) = 0 /\ \A t \in Threads : th[t].pc \notin Acting
        BY <2>1 DEF Free, Acting
    <2>5. EchoInv
        BY <2>1, <2>4 DEF EchoInv
    <2>. QED  BY <2>3, <2>5
<1>2. TypeInv /\ CopiesInv /\ EchoInv => ActsOnce
    <2>. SUFFICES ASSUME TypeInv, CopiesInv, EchoInv, NEW i \in 1..Len(timeline)
                  PROVE  acted[i] <= IF Skipped(timeline[i]) THEN 0 ELSE 1 + again
        BY DEF ActsOnce
    <2>1. /\ i \in Ids /\ acted[i] \in Nat /\ again \in Nat
        BY TimelineBound DEF TypeInv, ListenerType
    <2>2. acted[i] <= Copies(i) /\ Copies(i) \in Nat
        <3>1. queue \in Seq(Nat)
            <4>1. queue \in Seq(1..Len(timeline)) /\ 1..Len(timeline) \subseteq Nat
                BY DEF TypeInv, ListenerType
            <4>. QED  BY <4>1, SeqMonotonic
        <3>. QED  BY <2>1, <3>1, PositionsType, ActorsType DEF Copies
    <2>3. Copies(i) <= 1 + again
        BY <2>1, <2>2 DEF CopiesInv
    <2>4. Skipped(timeline[i]) => acted[i] = 0
        BY DEF EchoInv
    <2>. QED  BY <2>1, <2>2, <2>3, <2>4
<1>. QED  BY TypesKept, CopiesStep, EchoStep, <1>1, <1>2, PTL DEF Spec

\* Whatever orders, updates, deletions and crashes of their callers interleave, the
\* stock and the sales add up to what was last set by hand, except after an order
\* that computed the stock from a row that had changed since it was read.
THEOREM StockKept == Spec => []StockConserved
<1>1. Init => StockConserved
    BY DEF Init, PlatformInit, StockConserved, InitialStock
<1>2. TypeInv /\ StockConserved /\ [Next]_vars => StockConserved'
    <2>. SUFFICES ASSUME TypeInv, StockConserved, [Next]_vars PROVE StockConserved'
        OBVIOUS
    <2>1. PlatformStep \/ (\E c \in Callers : CallerDies(c)) \/ UNCHANGED platformVars
        BY DEF Next, CallerFails, MainStep, ThreadStep, ListenerFault, Poll, Submit, set_cursor,
               Restart, Take, fetch_item, upsert_item, mark_item_status, Act,
               update_event_processing_meta, AdvanceFails, Interrupt, Crash, Raise, MetaFails, vars
    <2>. QED  BY <2>1, StockStep DEF TypeInv
<1>. QED  BY TypesKept, <1>1, <1>2, PTL DEF Spec


\* When everything is still, the mirror shows the item as the platform has it, or no
\* active item when it is gone: the order of commit and event, of fetch and upsert,
\* of upsert and mark leaves nothing behind, as long as no step failed and no two
\* threads were on the item at once.
THEOREM MirrorFollows == Spec => []MirrorAgrees
<1>1. Init => MirrorInv
    <2>. SUFFICES ASSUME Init PROVE MirrorInv
        OBVIOUS
    <2>1. /\ timeline = <<>> /\ item.live /\ \A t \in Threads : th[t] = Free
        BY DEF Init, PlatformInit
    <2>2. Len(timeline) = 0 /\ Busy = {} /\ \A t \in Threads : th[t].pc \notin Mirroring
        BY <2>1 DEF Busy, Free, Mirroring
    <2>3. ItemEvents
        BY <2>2 DEF ItemEvents, Mirroring
    <2>4. OneAtATime /\ LiveMirror /\ GoneMirror
        BY <2>1, <2>2 DEF OneAtATime, LiveMirror, GoneMirror, Mentioned, Mirroring
    <2>. QED  BY <2>3, <2>4 DEF MirrorInv
<1>2. TypeInv /\ MirrorInv => MirrorAgrees
    <2>. SUFFICES ASSUME TypeInv, MirrorInv, Still, ~excused
                  PROVE  IF item.live
                         THEN Mentioned => mirror = [status |-> "active", stock |-> item.stock]
                         ELSE mirror.status # "active"
        BY DEF MirrorAgrees
    <2>1. Untaken = {}
        <3>1. /\ queue = <<>> /\ Submitted = Len(timeline) /\ Len(timeline) \in Nat
            BY TimelineBound DEF Still, Submitted
        <3>. QED  BY <3>1 DEF Untaken, Elems
    <2>2. \A t \in Threads : th[t].pc \notin Mirroring
        BY DEF Still, Busy, Free, Mirroring
    <2>3. ~RefreshAhead /\ ~DeletionAhead
        BY <2>1 DEF RefreshAhead, DeletionAhead, Still, Idle
    <2>4. LiveMirror /\ GoneMirror
        BY DEF MirrorInv
    <2>. QED  BY <2>2, <2>3, <2>4 DEF LiveMirror, GoneMirror, Mirroring
<1>. QED  BY TypesKept, MirrorStep, <1>1, <1>2, PTL DEF Spec
=============================================================================
