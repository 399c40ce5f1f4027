------------------------------- MODULE Platform -------------------------------
(***************************************************************************)
(* The commerce platform that the listener follows: internal_service.py,   *)
(* called by the handlers of fake_commerce_app.py (one process) and by     *)
(* business_activity_simulator.py (another one).  An operation commits its *)
(* change of the tables and then, in a transaction of its own, the         *)
(* timeline event that announces it; create_order announces two.           *)
(*                                                                         *)
(* One item stands for the rows that several callers change: its stock and *)
(* its sales.  Prices, names and the rows only ever inserted (stores,      *)
(* reviews, questions, campaigns) leave their event and nothing else.      *)
(***************************************************************************)
EXTENDS Integers, Sequences, FiniteSets

CONSTANTS Callers,      \* the processes that call internal_service
          Quantities,   \* the quantities ordered
          Updates,      \* the other operations on the item: [what, n, event]
          Inserted,     \* events of rows that are only ever inserted
          MaxEvents     \* bound: timeline entries

VARIABLES
    item,      \* the row of items: [live, stock, sales]
    timeline,  \* the events; an event's id is its position
    call,      \* where each caller stands in its operation
    base,      \* history: stock plus sales when one of them was last set by hand
    raced      \* history: since then an order computed the stock from an old row

platformVars == <<item, timeline, call, base, raced>>

Gone == [live |-> FALSE, stock |-> 0, sales |-> 0]
Idle == [pc |-> "idle"]
InitialStock == 4

\* The shape of an event: what the listener reads of it.
Event(name, subject) == [name |-> name, subject |-> subject, source |-> "fake_platform"]

OrderCreated   == Event("order.created", "Order")
StockUpdated   == Event("stock.updated", "Item")
ProductUpdated == Event("product.updated", "Item")
SalesUpdated   == Event("sales.updated", "Item")
ReviewNegative == Event("review.negative", "Review")
QuestionAsked  == Event("customer.created", "Question")
StoreCreated   == Event("store.created", "Store")
ItemDeleted    == Event("item.deleted", "Item")
\* emit_tool_event: what a tool did, tagged so that the listener leaves it alone.
ToolExecuted   == [Event("automation.executed", "Item") EXCEPT !.source = "tool_emit"]

\* What the operations on the item other than an order set, and the event of each.
update_stock(n)    == [what |-> "stock", n |-> n, event |-> StockUpdated]
\* update_product can set the stock too; without it only names and prices change.
update_product(n)  == [what |-> "stock", n |-> n, event |-> ProductUpdated]
update_name        == [what |-> "other", n |-> 0, event |-> ProductUpdated]
update_discount    == [what |-> "other", n |-> 0, event |-> ProductUpdated]
update_sales(n)    == [what |-> "sales", n |-> n, event |-> SalesUpdated]

\* The handlers pass integers; what is only ever inserted is not the item's business.
ASSUME PlatformAssumption ==
    /\ IsFiniteSet(Callers) /\ MaxEvents \in Nat
    /\ Quantities \subseteq Int
    /\ \A u \in Updates :
           /\ u.n \in Int
           /\ u \in {update_stock(u.n), update_product(u.n), update_name, update_discount,
                    update_sales(u.n)}
    /\ \A e \in Inserted :
           /\ e.name \notin {"stock.updated", "product.updated", "item.deleted"}
           /\ e.source = "fake_platform" => e.subject # "Item"

PlatformInit ==
    /\ item = [live |-> TRUE, stock |-> InitialStock, sales |-> 0]
    /\ timeline = <<>>
    /\ call = [c \in Callers |-> Idle]
    /\ base = InitialStock
    /\ raced = FALSE

\* Events that operations under way will still write, one or two each.
Announced == {p \in Callers \X (1..2) :
                 call[p[1]].pc # "idle" /\ p[2] <= Len(call[p[1]].events)}
Room(n) == Len(timeline) + Cardinality(Announced) + n <= MaxEvents

(***************************************************************************)
(* Operations on the item.  Each begins with SELECT * FROM items, outside  *)
(* any transaction, and keeps the row in a local variable.                 *)
(***************************************************************************)
\* An operation on a missing item raises ValueError (HTTP 404) and does nothing.
Begin(c, what, n, events) ==
    /\ call[c] = Idle
    /\ item.live
    /\ Room(Len(events))
    /\ call' = [call EXCEPT ![c] = [pc |-> "write", what |-> what, n |-> n,
                                    old |-> item, events |-> events]]
    /\ UNCHANGED <<item, timeline, base, raced>>

create_order(c)    == \E q \in Quantities : Begin(c, "order", q, <<OrderCreated, StockUpdated>>)
Update(c)          == \E u \in Updates : Begin(c, u.what, u.n, <<u.event>>)

\* Mutation: an order decrements the stock by one, whatever its quantity.
WrittenByOne(row, op) ==
    CASE op.what = "order" -> [row EXCEPT !.stock = op.old.stock - 1, !.sales = @ + op.n]
      [] op.what = "stock" -> [row EXCEPT !.stock = op.n]
      [] op.what = "sales" -> [row EXCEPT !.sales = op.n]
      [] OTHER -> row

\* The row an operation writes: an order's stock comes from the row it read, its
\* sales from the row as it is (sales = sales + ?).
Written(row, op) ==
    CASE op.what = "order" -> [row EXCEPT !.stock = op.old.stock - op.n, !.sales = @ + op.n]
      [] op.what = "stock" -> [row EXCEPT !.stock = op.n]
      [] op.what = "sales" -> [row EXCEPT !.sales = op.n]
      [] OTHER -> row

\* The transaction that changes the tables.
Commit(c) ==
    /\ call[c].pc = "write"
    /\ item' = IF item.live THEN Written(item, call[c]) ELSE item
    /\ base' = IF call[c].what \in {"stock", "sales"} THEN item'.stock + item'.sales ELSE base
    /\ raced' = CASE call[c].what \in {"stock", "sales"} -> FALSE
                  [] call[c].what = "order" -> raced \/ call[c].old.stock # item.stock
                  [] OTHER -> raced
    /\ call' = [call EXCEPT ![c] = [pc |-> "emit", events |-> call[c].events]]
    /\ UNCHANGED timeline

\* The transaction that writes the next event of the operation.
emit_timeline_event(c) ==
    /\ call[c].pc = "emit"
    /\ timeline' = Append(timeline, Head(call[c].events))
    /\ call' = [call EXCEPT ![c] = IF Len(@.events) = 1 THEN Idle
                                   ELSE [pc |-> "emit", events |-> Tail(@.events)]]
    /\ UNCHANGED <<item, base, raced>>

(***************************************************************************)
(* Everything else that appends to the timeline.                           *)
(***************************************************************************)
\* create_store, create_review, create_question and emit_tool_event: one row inserted,
\* then its event.  The row is nobody else's before the event names it: one action.
Insert ==
    /\ Room(1)
    /\ \E e \in Inserted : timeline' = Append(timeline, e)
    /\ UNCHANGED <<item, call, base, raced>>

\* External: the platform in production removes an item and says so.
Delete ==
    /\ item.live
    /\ Room(1)
    /\ item' = Gone
    /\ timeline' = Append(timeline, ItemDeleted)
    /\ UNCHANGED <<call, base, raced>>

\* A caller dies: its committed operation goes without its events.  (Before the
\* commit it leaves nothing behind.)
CallerDies(c) ==
    /\ call[c].pc = "emit"
    /\ call' = [call EXCEPT ![c] = Idle]
    /\ UNCHANGED <<item, timeline, base, raced>>

(***************************************************************************)
(* Every unit sold left the stock: since one of the two was last set by    *)
(* hand, stock and sales add up to the same, unless an order computed the  *)
(* stock from a row that had changed meanwhile (create_order reads it      *)
(* outside the transaction that writes it, and sales = sales + ? hides     *)
(* that nothing was lost there).                                           *)
(***************************************************************************)
StockConserved == item.live /\ ~raced => item.stock + item.sales = base
=============================================================================
