---------------------------- MODULE RuleGraphsProofs ----------------------------
(***************************************************************************)
(* What the nodes of a rule's graph keep, for every set of accounts and    *)
(* any number of faults.                                                   *)
(*                                                                         *)
(* Everything rests on the order of the nodes: each has a rank, along the  *)
(* edges of every graph the rank rises, and so a checkpoint only ever      *)
(* moves away from what was done.                                          *)
(***************************************************************************)
EXTENDS RuleGraphs, TLAPS

-----------------------------------------------------------------------------
(* The order of the nodes                                                  *)

Nodes == {"supervisor", "wait", "condition_check", "generate_content", "create_coupon",
          "risk_check", "approval", "publish", "notify_customer", "monitor", "finalize"}

Rank(node) ==
    CASE node = "supervisor"       -> 0
      [] node = "wait"             -> 1
      [] node = "condition_check"  -> 2
      [] node = "generate_content" -> 3
      [] node = "create_coupon"    -> 4
      [] node = "risk_check"       -> 5
      [] node = "approval"         -> 6
      [] node = "publish"          -> 7
      [] node = "notify_customer"  -> 8
      [] node = "monitor"          -> 9
      [] node = "finalize"         -> 10
      [] node = "end"              -> 11

\* The ranks of the nodes, in the order the builders put them.
LEMMA Ranks ==
    /\ \A n \in Nodes : Rank(n) \in Nat /\ Rank(n) < 11
    /\ Rank("supervisor") = 0 /\ Rank("wait") = 1 /\ Rank("condition_check") = 2
    /\ Rank("generate_content") = 3 /\ Rank("create_coupon") = 4 /\ Rank("risk_check") = 5
    /\ Rank("approval") = 6 /\ Rank("publish") = 7 /\ Rank("notify_customer") = 8
    /\ Rank("monitor") = 9 /\ Rank("finalize") = 10 /\ Rank("end") = 11
    /\ \A n \in Nodes : Rank(n) = 0 => n = "supervisor"
    /\ \A n \in Nodes : Rank(n) = 7 => n = "publish"
    /\ \A n \in Nodes : Rank(n) = 10 => n = "finalize"
    /\ ActionKinds \cup {"condition_check", "finalize"} = Nodes \ {"supervisor"}
  BY DEF Nodes, Rank, ActionKinds

\* A list of nodes of S in rising order, with ranks from lo to below hi.
Rising(s, S, lo, hi) ==
    /\ s \in Seq(S)
    /\ \A i \in 1..Len(s) : lo <= Rank(s[i]) /\ Rank(s[i]) < hi
    /\ \A i, j \in 1..Len(s) : i < j => Rank(s[i]) < Rank(s[j])

\* Two rising parts, the second above the first, rise together.
LEMMA RisingConcat ==
    ASSUME NEW S \in SUBSET Nodes, NEW s, NEW t, NEW a \in Nat, NEW b \in Nat, NEW c \in Nat,
           Rising(s, S, a, b), Rising(t, S, b, c), a <= b, b <= c
    PROVE  Rising(s \o t, S, a, c)
<1> DEFINE u == s \o t
<1>1. /\ s \in Seq(S) /\ t \in Seq(S) /\ u \in Seq(S) /\ Len(u) = Len(s) + Len(t)
      /\ Len(s) \in Nat /\ Len(t) \in Nat
      /\ \A i \in 1..Len(s) : s[i] \in S
      /\ \A i \in 1..Len(t) : t[i] \in S
  BY DEF Rising
<1>2. \A i \in 1..Len(u) : /\ i <= Len(s) => i \in 1..Len(s) /\ u[i] = s[i]
                           /\ i > Len(s) => i - Len(s) \in 1..Len(t) /\ u[i] = t[i - Len(s)]
  BY <1>1
<1>3. \A n \in S : Rank(n) \in Nat
  BY Ranks
<1> HIDE DEF u
<1>4. ASSUME NEW i \in 1..Len(u)
      PROVE  /\ a <= Rank(u[i]) /\ Rank(u[i]) < c
             /\ i <= Len(s) => Rank(u[i]) < b
             /\ i > Len(s) => b <= Rank(u[i])
  <2>1. CASE i <= Len(s)
    <3>1. i \in 1..Len(s) /\ u[i] = s[i]
      BY <1>2, <2>1
    <3>2. a <= Rank(s[i]) /\ Rank(s[i]) < b /\ Rank(s[i]) \in Nat
      BY <1>1, <1>3, <3>1 DEF Rising
    <3> QED BY <1>1, <2>1, <3>1, <3>2
  <2>2. CASE i > Len(s)
    <3> DEFINE k == i - Len(s)
    <3>1. k \in 1..Len(t) /\ u[i] = t[k]
      BY <1>2, <2>2
    <3> HIDE DEF k
    <3>2. b <= Rank(t[k]) /\ Rank(t[k]) < c /\ Rank(t[k]) \in Nat
      BY <1>1, <1>3, <3>1 DEF Rising
    <3> QED BY <1>1, <2>2, <3>1, <3>2
  <2> QED BY <1>1, <2>1, <2>2
<1>5. ASSUME NEW i \in 1..Len(u), NEW j \in 1..Len(u), i < j
      PROVE  Rank(u[i]) < Rank(u[j])
  <2>1. CASE j <= Len(s)
    <3>1. i \in 1..Len(s) /\ u[i] = s[i] /\ j \in 1..Len(s) /\ u[j] = s[j]
      BY <1>1, <1>2, <1>5, <2>1
    <3> QED BY <1>5, <3>1 DEF Rising
  <2>2. CASE i > Len(s)
    <3> DEFINE k == i - Len(s)
               l == j - Len(s)
    <3>0. Len(s) \in Nat /\ i \in Nat /\ j \in Nat
      BY <1>1
    <3>a. j > Len(s)
      BY <1>5, <2>2, <3>0
    <3>1. k \in 1..Len(t) /\ u[i] = t[k]
      BY <1>2, <2>2
    <3>2. l \in 1..Len(t) /\ u[j] = t[l]
      BY <1>2, <3>a
    <3>3. k < l
      BY <1>5, <3>0
    <3> HIDE DEF k, l
    <3> QED BY <3>1, <3>2, <3>3 DEF Rising
  <2>3. CASE i <= Len(s) /\ j > Len(s)
    <3>1. u[i] \in S /\ u[j] \in S
      BY <1>1, <1>2, <2>3
    <3> QED BY <1>3, <1>4, <2>3, <3>1
  <2> QED BY <1>1, <2>1, <2>2, <2>3
<1> QED BY <1>1, <1>4, <1>5 DEF Rising, u

\* One node rises.
LEMMA RisingOne ==
    ASSUME NEW S \in SUBSET Nodes, NEW node \in S, NEW lo \in Nat, NEW hi \in Nat,
           lo <= Rank(node), Rank(node) < hi
    PROVE  Rising(<<node>>, S, lo, hi)
  BY Ranks DEF Rising

\* One node that may be missing rises.
LEMMA RisingOptional ==
    ASSUME NEW S \in SUBSET Nodes, NEW present \in BOOLEAN, NEW node, NEW lo \in Nat, NEW hi \in Nat,
           present => node \in S, lo <= Rank(node), Rank(node) < hi
    PROVE  Rising(Optional(present, node), S, lo, hi)
<1>1. CASE present
  BY <1>1, RisingOne DEF Optional
<1>2. CASE ~present
  <2>1. Optional(present, node) = <<>>
    BY <1>2 DEF Optional
  <2> QED BY <2>1 DEF Rising
<1> QED BY <1>1, <1>2

-----------------------------------------------------------------------------
(* The graphs                                                              *)

\* The nodes a rule may have.
NodesOf(r) == {n \in Nodes : /\ n = "wait" => r.wait \/ r.timing
                             /\ n = "condition_check" => r.parsed}

\* A parsed rule that was not edited has a wait node only with its delay.
LEMMA ParsedRising ==
    ASSUME NEW r \in ParsedRules
    PROVE  LET s == _build_graph_definition(r) IN
           /\ Rising(s, NodesOf(r), 0, 11)
           /\ Len(s) \in Nat \ {0} /\ s[1] = "supervisor" /\ s[Len(s)] = "finalize"
<1> DEFINE S == NodesOf(r)
           a == <<"supervisor">> \o Optional(r.wait, "wait")
           b == a \o Optional(r.checks, "condition_check")
           c == b \o <<"generate_content", "risk_check">>
           d == c \o Optional(r.approval, "approval")
           e == d \o <<"publish", "finalize">>
<1>1. /\ r.wait \in BOOLEAN /\ r.checks \in BOOLEAN /\ r.approval \in BOOLEAN
      /\ S \in SUBSET Nodes /\ {"supervisor", "condition_check", "generate_content", "risk_check",
                                "approval", "publish", "finalize"} \subseteq S
      /\ r.wait => "wait" \in S
  BY DEF ParsedRules, NodesOf, Nodes
<1>2. _build_graph_definition(r) = e
  BY DEF _build_graph_definition
<1>3. Rising(a, S, 0, 2)
  <2>1. Rising(<<"supervisor">>, S, 0, 1)
    BY <1>1, Ranks, RisingOne
  <2>2. Rising(Optional(r.wait, "wait"), S, 1, 2)
    BY <1>1, Ranks, RisingOptional
  <2> HIDE DEF S
  <2> QED BY <1>1, <2>1, <2>2, RisingConcat
<1>4. Rising(b, S, 0, 3)
  <2>1. Rising(Optional(r.checks, "condition_check"), S, 2, 3)
    BY <1>1, Ranks, RisingOptional
  <2> HIDE DEF S, a
  <2> QED BY <1>1, <1>3, <2>1, RisingConcat
<1>5. Rising(c, S, 0, 6)
  <2>1. Rising(<<"generate_content", "risk_check">>, S, 3, 6)
    BY <1>1, Ranks DEF Rising
  <2> HIDE DEF S, b
  <2> QED BY <1>1, <1>4, <2>1, RisingConcat
<1>6. Rising(d, S, 0, 7)
  <2>1. Rising(Optional(r.approval, "approval"), S, 6, 7)
    BY <1>1, Ranks, RisingOptional
  <2> HIDE DEF S, c
  <2> QED BY <1>1, <1>5, <2>1, RisingConcat
<1>7. Rising(e, S, 0, 11)
  <2>1. Rising(<<"publish", "finalize">>, S, 7, 11)
    BY <1>1, Ranks DEF Rising
  <2> HIDE DEF S, d
  <2> QED BY <1>1, <1>6, <2>1, RisingConcat
<1>8. Len(e) \in Nat \ {0} /\ e[1] = "supervisor" /\ e[Len(e)] = "finalize"
  OBVIOUS
<1> QED BY <1>2, <1>7, <1>8


\* The canonical graph of a stored rule rises from supervisor to finalize.
LEMMA StoredRising ==
    ASSUME NEW r \in StoredRules
    PROVE  LET s == _build_canonical_graph(r) IN
           /\ Rising(s, NodesOf(r), 0, 11)
           /\ Len(s) \in Nat \ {0} /\ s[1] = "supervisor" /\ s[Len(s)] = "finalize"
<1> DEFINE S == NodesOf(r)
           requested == r.actions
                        \cup (IF "publish" \in r.actions
                              THEN {"risk_check", "generate_content"}
                                   \cup (IF r.approval THEN {"approval"} ELSE {})
                              ELSE {})
                        \cup (IF r.timing THEN {"wait"} ELSE {})
           Kind(i) == Optional(_CANONICAL_ORDER[i] \in requested, _CANONICAL_ORDER[i])
           Two   == Kind(1) \o Kind(2)
           Three == Two \o Kind(3)
           Four  == Three \o Kind(4)
           Five  == Four \o Kind(5)
           Six   == Five \o Kind(6)
           Seven == Six \o Kind(7)
           Eight == Seven \o Kind(8)
           Front == <<"supervisor">> \o Eight
           Whole == Front \o <<"finalize">>
<1>1. _build_canonical_graph(r) = Whole
  BY DEF _build_canonical_graph, _selected_kinds
<1>2. /\ S \in SUBSET Nodes
      /\ "wait" \in requested => "wait" \in S
      /\ {"supervisor", "generate_content", "create_coupon", "risk_check", "approval", "publish",
          "notify_customer", "monitor", "finalize"} \subseteq S
  BY DEF StoredRules, NodesOf, Nodes
<1>3. /\ _CANONICAL_ORDER[1] = "wait" /\ _CANONICAL_ORDER[2] = "generate_content"
      /\ _CANONICAL_ORDER[3] = "create_coupon" /\ _CANONICAL_ORDER[4] = "risk_check"
      /\ _CANONICAL_ORDER[5] = "approval" /\ _CANONICAL_ORDER[6] = "publish"
      /\ _CANONICAL_ORDER[7] = "notify_customer" /\ _CANONICAL_ORDER[8] = "monitor"
  BY DEF _CANONICAL_ORDER
<1>4. ASSUME NEW i \in 1..8, NEW lo \in Nat, NEW hi \in Nat,
             _CANONICAL_ORDER[i] \in requested => _CANONICAL_ORDER[i] \in S,
             lo <= Rank(_CANONICAL_ORDER[i]), Rank(_CANONICAL_ORDER[i]) < hi
      PROVE  Rising(Kind(i), S, lo, hi)
  <2> DEFINE node == _CANONICAL_ORDER[i]
             present == node \in requested
  <2>1. present \in BOOLEAN
    OBVIOUS
  <2>2. Kind(i) = Optional(present, node)
    OBVIOUS
  <2>3. /\ S \in SUBSET Nodes /\ (present => node \in S)
        /\ lo <= Rank(node) /\ Rank(node) < hi
    BY <1>2, <1>4
  <2> HIDE DEF S, node, present
  <2> QED BY <1>4, <2>1, <2>2, <2>3, RisingOptional
<1> HIDE DEF requested
<1>5. /\ Rising(Kind(1), S, 1, 2) /\ Rising(Kind(2), S, 2, 4) /\ Rising(Kind(3), S, 4, 5)
      /\ Rising(Kind(4), S, 5, 6) /\ Rising(Kind(5), S, 6, 7) /\ Rising(Kind(6), S, 7, 8)
      /\ Rising(Kind(7), S, 8, 9) /\ Rising(Kind(8), S, 9, 10)
  <2> HIDE DEF Kind, S
  <2>1. \A i \in 1..8 : i # 1 => _CANONICAL_ORDER[i] \in S
    BY <1>2, <1>3
  <2>2. _CANONICAL_ORDER[1] \in requested => _CANONICAL_ORDER[1] \in S
    BY <1>2, <1>3
  <2> QED BY <1>3, <1>4, <2>1, <2>2, Ranks
<1>6. Rising(<<"supervisor">>, S, 0, 1) /\ Rising(<<"finalize">>, S, 10, 11)
  BY <1>2, Ranks, RisingOne
<1> HIDE DEF Kind, S
<1>7. Rising(Two, S, 1, 4)
  BY <1>2, <1>5, RisingConcat
<1> HIDE DEF Two
<1>8. Rising(Three, S, 1, 5)
  BY <1>2, <1>5, <1>7, RisingConcat
<1> HIDE DEF Three
<1>9. Rising(Four, S, 1, 6)
  BY <1>2, <1>5, <1>8, RisingConcat
<1> HIDE DEF Four
<1>10. Rising(Five, S, 1, 7)
  BY <1>2, <1>5, <1>9, RisingConcat
<1> HIDE DEF Five
<1>11. Rising(Six, S, 1, 8)
  BY <1>2, <1>5, <1>10, RisingConcat
<1> HIDE DEF Six
<1>12. Rising(Seven, S, 1, 9)
  BY <1>2, <1>5, <1>11, RisingConcat
<1> HIDE DEF Seven
<1>13. Rising(Eight, S, 1, 10)
  BY <1>2, <1>5, <1>12, RisingConcat
<1> HIDE DEF Eight
<1>14. Rising(Front, S, 0, 10)
  BY <1>2, <1>6, <1>13, RisingConcat
<1>15. Front \in Seq(S) /\ Len(Front) \in Nat \ {0} /\ Front[1] = "supervisor"
  <2>1. Eight \in Seq(S) /\ Front \in Seq(S)
    BY <1>13, <1>14 DEF Rising
  <2>2. Len(Front) = 1 + Len(Eight) /\ Front[1] = "supervisor" /\ Len(Eight) \in Nat
    BY <2>1
  <2> QED BY <2>1, <2>2
<1> HIDE DEF Front
<1>16. Rising(Whole, S, 0, 11)
  BY <1>2, <1>6, <1>14, RisingConcat
<1>17. Len(Whole) = Len(Front) + 1 /\ Whole[Len(Whole)] = "finalize" /\ Whole[1] = Front[1]
  BY <1>15
<1> QED BY <1>1, <1>15, <1>16, <1>17 DEF S

\* Every graph the runtime builds rises from supervisor to finalize.
LEMMA GraphRises ==
    ASSUME NEW r \in ParsedRules \cup StoredRules
    PROVE  LET s == build_graph(r) IN
           /\ Rising(s, NodesOf(r), 0, 11)
           /\ Len(s) \in Nat \ {0} /\ s[1] = "supervisor" /\ s[Len(s)] = "finalize"
<1>1. CASE r \in ParsedRules
  BY <1>1, ParsedRising DEF build_graph, ParsedRules
<1>2. CASE r \in StoredRules
  BY <1>2, StoredRising DEF build_graph, StoredRules
<1> QED BY <1>1, <1>2

\* The node is one of the rule's graph.
InGraph(node) == \E i \in 1..Len(build_graph(rule)) : node = build_graph(rule)[i]

\* A graph begins with supervisor, has nodes only, waits only for a rule with a wait or a time,
\* and checks conditions only of a parsed rule.
LEMMA InGraphFacts ==
    ASSUME rule \in ParsedRules \cup StoredRules
    PROVE  /\ InGraph("supervisor")
           /\ \A n : InGraph(n) => /\ n \in Nodes
                                  /\ (n = "wait" => rule.wait \/ rule.timing)
                                  /\ (n = "condition_check" => rule.parsed)
<1> DEFINE s == build_graph(rule)
<1>1. Rising(s, NodesOf(rule), 0, 11) /\ Len(s) \in Nat \ {0} /\ s[1] = "supervisor"
  BY GraphRises
<1> HIDE DEF s
<1>2. \A i \in 1..Len(s) : s[i] \in NodesOf(rule)
  BY <1>1 DEF Rising
<1> QED BY <1>1, <1>2 DEF InGraph, NodesOf, s

\* An edge leads on: to a node of a higher rank, and from the last one to the end.
LEMMA SuccessorLater ==
    ASSUME rule \in ParsedRules \cup StoredRules, NEW node, InGraph(node)
    PROVE  /\ node = "finalize" => Successor(node) = "end"
           /\ node # "finalize" => /\ InGraph(Successor(node)) /\ Successor(node) \in Nodes
                                   /\ Rank(Successor(node)) > Rank(node)
<1> DEFINE s == build_graph(rule)
           targets == ActionKinds \cup {"condition_check", "finalize", "end"}
<1>1. Rising(s, NodesOf(rule), 0, 11) /\ Len(s) \in Nat \ {0} /\ s[1] = "supervisor"
      /\ s[Len(s)] = "finalize"
  BY GraphRises
<1>2. \A a, b : <<a, b>> \in Edges(rule)
                <=> \/ \E i \in 1..(Len(s) - 1) : a = s[i] /\ b = s[i + 1]
                    \/ a = "finalize" /\ b = "end"
  <2> DEFINE groups == [i \in 1..Len(s) |-> {s[i]}]
  <2>1. Edges(rule) = _wire_edges(groups) \cup {<<"finalize", "end">>}
    BY DEF Edges
  <2>2. Len(groups) = Len(s)
    BY <1>1
  <2>3. _wire_edges(groups) = UNION {groups[i] \X groups[i + 1] : i \in 1..(Len(s) - 1)}
    BY <2>2 DEF _wire_edges
  <2> HIDE DEF s
  <2>4. \A i \in 1..(Len(s) - 1) : groups[i] = {s[i]} /\ groups[i + 1] = {s[i + 1]}
    BY <1>1
  <2> HIDE DEF groups
  <2>5. SUFFICES ASSUME NEW a, NEW b
                 PROVE  <<a, b>> \in Edges(rule)
                        <=> \/ \E i \in 1..(Len(s) - 1) : a = s[i] /\ b = s[i + 1]
                            \/ a = "finalize" /\ b = "end"
    OBVIOUS
  <2>6. <<a, b>> \in Edges(rule)
        <=> \/ \E i \in 1..(Len(s) - 1) : <<a, b>> \in groups[i] \X groups[i + 1]
            \/ <<a, b>> = <<"finalize", "end">>
    BY <2>1, <2>3
  <2>7. \A i \in 1..(Len(s) - 1) :
            <<a, b>> \in groups[i] \X groups[i + 1] <=> (a = s[i] /\ b = s[i + 1])
    BY <2>4
  <2>8. <<a, b>> = <<"finalize", "end">> <=> (a = "finalize" /\ b = "end")
    OBVIOUS
  <2> QED BY <2>6, <2>7, <2>8
<1>3. PICK i \in 1..Len(s) : node = s[i]
  BY DEF InGraph
<1>4. /\ \A j \in 1..Len(s) : s[j] \in NodesOf(rule) /\ s[j] \in Nodes
      /\ \A j, k \in 1..Len(s) : j < k => Rank(s[j]) < Rank(s[k])
      /\ \A j \in 1..Len(s) : Rank(s[j]) \in Nat /\ Rank(s[j]) < 11
  <2> HIDE DEF s
  <2>1. \A j \in 1..Len(s) : s[j] \in NodesOf(rule)
    BY <1>1 DEF Rising
  <2> QED BY <1>1, <2>1, Ranks DEF Rising, NodesOf
<1> HIDE DEF s
<1>5. \A j \in 1..(Len(s) - 1) : s[j] # "finalize"
  BY <1>1, <1>4
<1>6. \A j \in 1..Len(s) : s[j] = node => j = i
  BY <1>1, <1>3, <1>4
<1>7. Successor(node) = CHOOSE n \in targets : <<node, n>> \in Edges(rule)
  BY DEF Successor
<1>8. CASE node = "finalize"
  <2>1. \A n : <<node, n>> \in Edges(rule) <=> n = "end"
    BY <1>2, <1>5, <1>8
  <2> QED BY <1>7, <1>8, <2>1
<1>9. CASE node # "finalize"
  <2>1. i \in 1..(Len(s) - 1) /\ i + 1 \in 1..Len(s)
    BY <1>1, <1>3, <1>9
  <2>2. \A n : <<node, n>> \in Edges(rule) <=> n = s[i + 1]
    BY <1>2, <1>3, <1>6, <1>9, <2>1
  <2>3. s[i + 1] \in Nodes /\ Rank(s[i + 1]) > Rank(node) /\ Rank(node) \in Nat
    BY <1>3, <1>4, <2>1
  <2>4. s[i + 1] \in targets
    BY <2>3, Ranks
  <2>5. Successor(node) = s[i + 1]
    BY <1>7, <2>2, <2>4
  <2>6. InGraph(s[i + 1])
    BY <2>1 DEF InGraph, s
  <2> QED BY <1>9, <2>3, <2>5, <2>6
<1> QED BY <1>8, <1>9


-----------------------------------------------------------------------------
(* The invariant                                                           *)

Contents == [text: {"none", "ai", "static"}, image: {"none", "generated", "template"}]

States == [status: {"running", "waiting_timer", "waiting_human", "completed", "cancelled", "failed"},
           at: Nodes \cup {"none"}, wait: {"none", "set", "resolved"},
           checked: {"none", "yes", "no"},
           decision: {"none", "pending", "approved", "rejected", "edited"},
           publish: {"none", "yes", "no"}, content: Contents]

GraphType ==
    /\ rule \in ParsedRules \cup StoredRules
    /\ row \in {"none", "running", "waiting_timer", "waiting_human",
                "completed", "cancelled", "failed"}
    /\ next = "end" \/ InGraph(next)
    /\ state \in States
    /\ driver \in {"none", "thread", "worker", "operator"}
    /\ stage \in {"node", "calling", "marking", "drafting", "saving"}
    /\ todo \subseteq rule.accounts
    /\ sent \in [Accounts -> Nat]
    /\ entry \in {"none", "pending", "fired", "failed"}
    /\ firers \subseteq {"worker", "api"} /\ overtaken \in BOOLEAN
    /\ drafts \in Nat
    /\ asked \in SUBSET Contents /\ shown \in SUBSET Contents
    /\ faults \in Nat

Publishing == stage \in {"calling", "marking", "drafting"}
Over == row \in {"completed", "cancelled", "failed"}

\* Who runs what: a thread what is new, a worker what has passed its wait, nobody what
\* is over; and only a publishing node is left half done.
Driven ==
    /\ row = "none" => driver = "none" /\ state.decision = "none"
    /\ driver = "thread" => state.decision \in {"none", "pending"}
    /\ driver = "worker" \/ row = "waiting_timer" \/ state.status = "waiting_timer" => Rank(next) > 1
    /\ driver # "none" => row \in {"running", "waiting_timer", "waiting_human"}
    /\ driver = "none" => stage = "node"
    /\ Publishing => next = "publish" /\ rule.parsed /\ state.checked # "no"
    /\ state.at # "none" => Rank(next) > Rank(state.at)

Untouched == Published = {} /\ entry = "none" /\ drafts = 0 /\ shown = {}

\* Before the publishing node nothing is in the world, and nothing is asked before the gate;
\* a stored rule never comes to the calendar, and a poll only to a record there is.
InOrder ==
    /\ Rank(next) < 7 => Untouched
    /\ faults = 0 /\ next = "publish" /\ ~Publishing => Untouched
    /\ state.checked = "no" => Published = {} /\ entry = "none" /\ drafts = 0
    /\ Rank(next) <= 6 => asked = {}
    /\ asked \cup shown \subseteq {state.content}
    /\ firers # {} => entry # "none"
    /\ ~rule.parsed => entry = "none" /\ state.checked # "no"

\* Where an invocation stops on its way, and what it has asked there.
Stopped ==
    /\ stage = "saving" /\ next # "end" =>
           \/ state.at = "approval"
           \/ state.at = "wait" /\ driver # "worker" /\ (Edited(rule) \/ state.wait = "set")
    /\ state.at = "approval" => state.decision # "none"
    /\ faults = 0 =>
           /\ state.decision = "pending" \/ state.status = "waiting_human" => asked # {}
           /\ ~Edited(rule) /\ row = "waiting_human" => asked # {}

\* Everybody was served, or nobody was to be.
All == rule.accounts = Published \/ (Disabled /\ rule.adapter)

Told(publish) ==
    entry # "none" => /\ publish = (IF All THEN "yes" ELSE "no")
                      /\ entry = (IF All \/ overtaken THEN "fired" ELSE "failed")

\* What a publishing node has done so far, and what it leaves when no fault comes.
Publishes ==
    /\ stage \in {"marking", "drafting"} => todo = {}
    /\ Publishing /\ ~rule.adapter => todo = {}
    /\ faults = 0 /\ Publishing =>
           /\ Published \subseteq rule.accounts \ todo
           /\ ok <=> rule.adapter /\ (Disabled \/ Published = rule.accounts \ todo)
           /\ ~rule.adapter => Published = {}
           /\ entry \in CASE stage = "calling"  -> {"none"}
                          [] stage = "marking"  -> {"pending", "fired"}
                          [] stage = "drafting" -> {IF ok \/ overtaken THEN "fired" ELSE "failed"}
    /\ faults = 0 /\ Rank(next) > 7 => Told(state.publish)

\* What the end says.
Ends ==
    /\ state.status \in {"completed", "failed"} => next = "end"
    /\ faults = 0 /\ next = "end" =>
           /\ state.status \in {"completed", "cancelled", "failed"}
           /\ driver = "none" => Over
           /\ state.status # "cancelled" /\ entry # "none" => (state.status = "completed" <=> All)
    /\ RecordTells

GraphInv == GraphType /\ Driven /\ InOrder /\ Stopped /\ Publishes /\ Ends

\* What it takes for a node to return s, when the world stays as it is but for the card and
\* the post of the canonical publication: each premise is what one of the nodes is about.
LEMMA ReturnKeeps ==
    ASSUME GraphInv, NEW node \in Nodes, NEW s \in States,
           next = node, driver # "none", Return(node, s),
           UNCHANGED <<rule, live, row, driver, todo, entry, firers, overtaken>>,
           \/ UNCHANGED <<sent, shown>>
           \/ /\ node = "publish" /\ ~rule.parsed /\ sent' \in [Accounts -> Nat]
              /\ shown' \in {shown, shown \cup {state.content}},
           faults' \in Nat, faults' = 0 => faults = 0,
           \/ drafts' = drafts
           \/ node = "publish" /\ drafts' \in Nat /\ state.checked # "no",
           \/ asked' = asked
           \/ node = "approval" /\ asked' = asked \cup {state.content},
           s.content = state.content \/ node = "generate_content",
           s.checked = state.checked \/ node = "condition_check",
           driver = "thread" => s.decision \in {"none", "pending"},
           s.status = "waiting_timer" => state.status = "waiting_timer" \/ node = "wait",
           node = "approval" => s.decision # "none",
           node = "wait" /\ Pauses("wait") => Edited(rule) \/ s.wait = "set",
           faults' = 0 => (s.decision = "pending" \/ s.status = "waiting_human" => asked' # {}),
           s.status \in {"completed", "failed"} => node = "finalize",
           node = "finalize" => s.status \in {"completed", "cancelled", "failed"},
           faults' = 0 /\ node = "finalize" /\ s.status # "cancelled" /\ entry # "none" =>
               (s.status = "completed" <=> All),
           Rank(node) > 7 => s.publish = state.publish,
           faults' = 0 /\ node = "publish" => Told(s.publish)
    PROVE  GraphInv'
<1>1. /\ state' \in States /\ state'.at = node
      /\ state'.status = s.status /\ state'.wait = s.wait /\ state'.checked = s.checked
      /\ state'.decision = s.decision /\ state'.publish = s.publish /\ state'.content = s.content
  BY DEF Return, States
<1>2. /\ rule \in ParsedRules \cup StoredRules /\ InGraph(node)
      /\ Rank(node) \in Nat /\ Rank(node) <= 10 /\ (Rank(node) = 10 <=> node = "finalize")
      /\ node # "end"
  BY Ranks DEF GraphInv, GraphType, Nodes
<1>3. /\ next' = "end" <=> node = "finalize"
      /\ next' = "end" \/ InGraph(next')
      /\ Rank(next') \in Nat /\ Rank(next') > Rank(node)
  <2>1. next' = Successor(node)
    BY DEF Return
  <2> QED BY <1>2, <2>1, SuccessorLater, Ranks DEF Nodes
<1>4. stage' \in {"node", "saving"} /\ (stage' = "saving" /\ next' # "end" => Pauses(node))
  BY DEF Return
<1>5. row \in {"running", "waiting_timer", "waiting_human"} /\ row' = row
  BY DEF GraphInv, Driven
<1>6. node # "publish" \/ entry # "none" \/ state.checked = "no" =>
          Published' = Published /\ (All' <=> All) /\ shown' = shown
  <2>1. node # "publish" \/ entry # "none" \/ state.checked = "no" => UNCHANGED <<sent, shown>>
    BY DEF GraphInv, InOrder
  <2> QED BY <2>1 DEF Published, All, Disabled
<1>c. node = "condition_check" => rule.parsed
  BY <1>2, InGraphFacts
<1>7. GraphType'
  <2>1. next' = "end" \/ InGraph(next)'
    BY <1>3 DEF InGraph
  <2>2. asked' \in SUBSET Contents
    BY DEF GraphInv, GraphType, States
  <2>3. sent' \in [Accounts -> Nat] /\ shown' \in SUBSET Contents
    BY DEF GraphInv, GraphType, States
  <2> QED BY <1>1, <1>4, <2>1, <2>2, <2>3 DEF GraphInv, GraphType
<1>8. Driven'
  BY <1>1, <1>2, <1>3, <1>4, <1>5, Ranks DEF GraphInv, Driven, Publishing
<1>9. InOrder'
  BY <1>1, <1>2, <1>3, <1>6, <1>c, Ranks DEF GraphInv, InOrder, Untouched, Publishing
<1>10. Stopped'
  BY <1>1, <1>2, <1>3, <1>4, <1>5, Ranks DEF GraphInv, Driven, Stopped, Pauses
<1>11. Publishes'
  <2>1. ASSUME faults' = 0, Rank(next') > 7
        PROVE  Told(state.publish)'
    <3>1. CASE Rank(node) < 7
      BY <3>1 DEF GraphInv, InOrder, Untouched, Told
    <3>2. CASE node = "publish"
      BY <1>1, <1>6, <2>1, <3>2 DEF Told
    <3>3. CASE Rank(node) > 7
      BY <1>1, <1>6, <2>1, <3>3 DEF GraphInv, Publishes, Told
    <3> QED BY <1>2, <3>1, <3>2, <3>3, Ranks
  <2> QED BY <1>4, <2>1 DEF Publishes, Publishing
<1>12. Ends'
  BY <1>1, <1>2, <1>3, <1>4, <1>5, <1>6 DEF GraphInv, Ends, RecordTells
<1> QED BY <1>7, <1>8, <1>9, <1>10, <1>11, <1>12 DEF GraphInv


\* Whatever comes of an attempt, a post shows the content of the checkpoint.
LEMMA AttemptSends ==
    ASSUME GraphInv, Attempt
    PROVE  sent' \in [Accounts -> Nat] /\ shown' \in {shown, shown \cup {state.content}}
  BY DEF Attempt, Post, GraphInv, GraphType

\* The nodes that publish nothing, or what the canonical one attempts, one by one.
LEMMA NodesKeep ==
    ASSUME GraphInv,
           \/ supervisor_node \/ wait_node \/ condition_check_node \/ risk_analyzer_node
           \/ approval_gate_node \/ publisher_node \/ create_coupon_node
           \/ notify_customer_node \/ monitor_node \/ finalize_node
    PROVE  GraphInv'
<1>0. /\ rule \in ParsedRules \cup StoredRules /\ state \in States /\ faults \in Nat
      /\ next = "end" \/ InGraph(next)
      /\ driver = "thread" => state.decision \in {"none", "pending"}
      /\ state.status \in {"completed", "failed"} => next = "end"
      /\ faults = 0 => (state.decision = "pending" \/ state.status = "waiting_human" => asked # {})
  BY DEF GraphInv, GraphType, Driven, Stopped, Ends
<1>1. CASE supervisor_node
  <2> DEFINE s == [state EXCEPT !.status = "running"]
  <2>1. s \in States /\ s.status = "running" /\ s.content = state.content /\ s.checked = state.checked
        /\ s.decision = state.decision /\ s.publish = state.publish
    BY <1>0 DEF States
  <2>2. /\ next = "supervisor" /\ driver # "none" /\ Return("supervisor", s)
        /\ UNCHANGED <<rule, live, row, driver, todo, sent, shown, entry, drafts, firers,
                       overtaken, asked, faults>>
    BY <1>1 DEF supervisor_node, At, world, polls
  <2> HIDE DEF s
  <2> QED BY <1>0, <2>1, <2>2, ReturnKeeps, Ranks DEF Nodes
<1>2. CASE wait_node
  <2> DEFINE s == [state EXCEPT !.status = "waiting_timer", !.wait = "set"]
  <2>1. /\ next = "wait" /\ driver # "none" /\ faults' \in {faults, faults + 1}
        /\ IF Delay THEN Return("wait", s) ELSE Return("wait", state)
        /\ UNCHANGED <<rule, live, row, driver, todo, sent, shown, entry, drafts, firers,
                       overtaken, asked>>
    BY <1>2 DEF wait_node, At, world, polls, Sound, Fault
  <2>2. s \in States /\ s.status = "waiting_timer" /\ s.wait = "set" /\ s.content = state.content
        /\ s.checked = state.checked /\ s.decision = state.decision /\ s.publish = state.publish
    BY <1>0 DEF States
  <2>3. faults' \in Nat /\ (faults' = 0 => faults = 0) /\ "wait" \in Nodes
    BY <1>0, <2>1 DEF Nodes
  <2> HIDE DEF s
  <2>4. CASE Delay
    BY <1>0, <2>1, <2>2, <2>3, <2>4, ReturnKeeps, Ranks
  <2>5. CASE ~Delay
    <3>1. Pauses("wait") => Edited(rule)
      <4>1. rule.wait \/ rule.timing
        BY <1>0, <2>1, InGraphFacts
      <4> QED BY <1>0, <2>5, <4>1 DEF Pauses, Edited, Delay, ParsedRules, StoredRules
    <3> QED BY <1>0, <2>1, <2>3, <2>5, <3>1, ReturnKeeps, Ranks
  <2> QED BY <2>4, <2>5
<1>3. CASE condition_check_node
  <2> DEFINE passed == [state EXCEPT !.checked = "yes"]
             missed == [state EXCEPT !.checked = "no", !.status = "cancelled"]
  <2>1. /\ next = "condition_check" /\ driver # "none"
        /\ Return("condition_check", passed) \/ Return("condition_check", missed)
        /\ UNCHANGED <<rule, live, row, driver, todo, sent, shown, entry, drafts, firers,
                       overtaken, asked, faults>>
    BY <1>3 DEF condition_check_node, At, world, polls
  <2>2. /\ passed \in States /\ passed.status = state.status /\ passed.content = state.content
        /\ passed.decision = state.decision /\ passed.publish = state.publish
        /\ missed \in States /\ missed.status = "cancelled" /\ missed.content = state.content
        /\ missed.decision = state.decision /\ missed.publish = state.publish
    BY <1>0 DEF States
  <2> HIDE DEF passed, missed
  <2>3. CASE Return("condition_check", passed)
    BY <1>0, <2>1, <2>2, <2>3, ReturnKeeps, Ranks DEF Nodes
  <2>4. CASE Return("condition_check", missed)
    BY <1>0, <2>1, <2>2, <2>4, ReturnKeeps, Ranks DEF Nodes
  <2> QED BY <2>1, <2>3, <2>4
\* A node that hands the state on as it is.
<1>4. ASSUME NEW node \in {"risk_check", "create_coupon", "notify_customer", "monitor"},
             At(node), Return(node, state),
             UNCHANGED <<rule, live, row, driver, todo, sent, shown, entry, drafts, firers,
                         overtaken, asked, faults>>
      PROVE  GraphInv'
  <2>1. next = node /\ driver # "none" /\ node \in Nodes
    BY <1>4 DEF At, Nodes
  <2> QED BY <1>0, <1>4, <2>1, ReturnKeeps, Ranks DEF Nodes
<1>5. CASE risk_analyzer_node
  BY <1>4, <1>5 DEF risk_analyzer_node, world, polls
<1>6. CASE create_coupon_node \/ notify_customer_node \/ monitor_node
  BY <1>4, <1>6 DEF create_coupon_node, notify_customer_node, monitor_node, Effect, polls
<1>7. CASE approval_gate_node
  <2> DEFINE s == [state EXCEPT !.status = "waiting_human", !.decision = "pending"]
  <2>1. /\ next = "approval" /\ driver # "none"
        /\ UNCHANGED <<rule, live, row, driver, todo, sent, shown, entry, drafts, firers,
                       overtaken>>
        /\ IF state.decision \in {"approved", "rejected", "edited"}
           THEN Return("approval", state) /\ asked' = asked /\ faults' = faults
           ELSE /\ Return("approval", s)
                /\ \/ asked' = asked \cup {state.content} /\ faults' = faults
                   \/ asked' = asked /\ faults' = faults + 1
    BY <1>7 DEF approval_gate_node, At, world, polls, Sound, Fault
  <2>2. s \in States /\ s.status = "waiting_human" /\ s.content = state.content
        /\ s.checked = state.checked /\ s.decision = "pending" /\ s.publish = state.publish
    BY <1>0 DEF States
  <2>3. faults' \in Nat /\ (faults' = 0 => faults = 0) /\ "approval" \in Nodes
    BY <1>0, <2>1 DEF Nodes
  <2> HIDE DEF s
  <2>4. CASE state.decision \in {"approved", "rejected", "edited"}
    BY <1>0, <2>1, <2>3, <2>4, ReturnKeeps, Ranks
  <2>5. CASE state.decision \notin {"approved", "rejected", "edited"}
    <3>1. asked' = asked \/ asked' = asked \cup {state.content}
      BY <2>1, <2>5
    <3>2. faults' = 0 => asked' # {}
      BY <1>0, <2>1, <2>5
    <3> QED BY <1>0, <2>1, <2>2, <2>3, <2>5, <3>1, <3>2, ReturnKeeps, Ranks
  <2> QED BY <2>4, <2>5
<1>8. CASE publisher_node
  <2> DEFINE cancelled == [state EXCEPT !.publish = "no", !.status = "cancelled"]
             tried(success) == [state EXCEPT !.publish = success]
  <2>1. /\ next = "publish" /\ driver # "none" /\ stage = "node" /\ "publish" \in Nodes
        /\ UNCHANGED <<rule, live, row, driver, todo, entry, drafts, firers, overtaken, asked,
                       faults>>
        /\ ~rule.parsed
        /\ \/ Return("publish", cancelled) /\ UNCHANGED <<sent, shown>>
           \/ Attempt /\ \E success \in {"yes", "no"} : Return("publish", tried(success))
    BY <1>8 DEF publisher_node, At, Nodes, polls
  <2>2. faults = 0 => entry = "none"
    BY <2>1 DEF GraphInv, InOrder, Untouched, Publishing
  <2>3. CASE Return("publish", cancelled) /\ UNCHANGED <<sent, shown>>
    <3>1. cancelled \in States /\ cancelled.status = "cancelled" /\ cancelled.content = state.content
          /\ cancelled.checked = state.checked /\ cancelled.decision = state.decision
      BY <1>0 DEF States
    <3> HIDE DEF cancelled
    <3> QED BY <1>0, <2>1, <2>2, <2>3, <3>1, ReturnKeeps, Ranks DEF Told
  <2>4. ASSUME NEW success \in {"yes", "no"}, Return("publish", tried(success)), Attempt
        PROVE  GraphInv'
    <3> DEFINE s == tried(success)
    <3>1. s \in States /\ s.status = state.status /\ s.content = state.content
          /\ s.checked = state.checked /\ s.decision = state.decision
      BY <1>0 DEF States
    <3>2. Return("publish", s)
      BY <2>4
    <3>3. /\ sent' \in [Accounts -> Nat] /\ shown' \in {shown, shown \cup {state.content}}
      BY <2>4, AttemptSends
    <3> HIDE DEF s
    <3> QED BY <1>0, <2>1, <2>2, <3>1, <3>2, <3>3, ReturnKeeps, Ranks DEF Told
  <2> QED BY <2>1, <2>3, <2>4
<1>9. CASE finalize_node
  <2> DEFINE status == IF state.decision = "rejected" THEN "cancelled"
                       ELSE IF state.publish = "no" THEN "failed" ELSE "completed"
             s == [state EXCEPT !.status = status]
  <2>1. /\ next = "finalize" /\ driver # "none" /\ Return("finalize", s) /\ "finalize" \in Nodes
        /\ UNCHANGED <<rule, live, row, driver, todo, sent, shown, entry, drafts, firers,
                       overtaken, asked, faults>>
    BY <1>9 DEF finalize_node, At, world, polls, Nodes
  <2>2. /\ s \in States /\ s.status = status /\ s.content = state.content
        /\ s.checked = state.checked /\ s.decision = state.decision /\ s.publish = state.publish
        /\ status \in {"completed", "cancelled", "failed"}
    BY <1>0 DEF States
  <2>3. faults = 0 /\ status # "cancelled" /\ entry # "none" => (status = "completed" <=> All)
    BY <2>1, Ranks DEF GraphInv, Publishes, Told
  <2> HIDE DEF s, status
  <2> QED BY <1>0, <2>1, <2>2, <2>3, ReturnKeeps, Ranks
<1> QED BY <1>1, <1>2, <1>3, <1>5, <1>6, <1>7, <1>8, <1>9


\* The text is made before anything is asked or shown.
LEMMA ContentKeeps ==
    ASSUME GraphInv, content_generator_node
    PROVE  GraphInv'
<1>1. /\ next = "generate_content" /\ driver # "none" /\ stage = "node"
      /\ rule \in ParsedRules \cup StoredRules /\ state \in States /\ faults \in Nat
      /\ driver = "thread" => state.decision \in {"none", "pending"}
      /\ state.status \notin {"completed", "failed"}
      /\ faults = 0 => (state.decision = "pending" \/ state.status = "waiting_human" => asked # {})
      /\ "generate_content" \in Nodes
  BY DEF content_generator_node, At, GraphInv, GraphType, Driven, Stopped, Ends, Nodes
<1>2. ASSUME NEW template \in _fetch_template_from_mysql, NEW text \in _ai_generate_caption,
             NEW image \in _generate_image_via_pipeline(template),
             Return("generate_content",
                    [state EXCEPT !.content = [text |-> text, image |-> image]]),
             UNCHANGED <<rule, live, row, driver, todo, sent, shown, entry, drafts, firers,
                         overtaken, asked, faults>>
      PROVE  GraphInv'
  <2> DEFINE content == [text |-> text, image |-> image]
             s == [state EXCEPT !.content = content]
  <2>1. content \in Contents
    BY DEF Contents, _fetch_template_from_mysql, _ai_generate_caption, _generate_image_via_pipeline
  <2> HIDE DEF content
  <2>2. s \in States /\ s.status = state.status /\ s.checked = state.checked
        /\ s.decision = state.decision /\ s.publish = state.publish
    BY <1>1, <2>1 DEF States
  <2>3. Return("generate_content", s)
    BY <1>2 DEF content
  <2> HIDE DEF s
  <2> QED BY <1>1, <1>2, <2>2, <2>3, ReturnKeeps, Ranks
<1>3. CASE Raise
  <2>1. /\ row' = "failed" /\ driver' = "none" /\ stage' = "node"
        /\ UNCHANGED <<rule, live, next, state, todo, ok, sent, shown, entry, drafts, firers,
                       overtaken, asked, faults>>
    BY <1>3 DEF Raise, world, polls
  <2>2. Untouched /\ asked = {}
    BY <1>1, Ranks DEF GraphInv, InOrder
  <2>3. Published' = Published /\ entry' = "none" /\ Rank(next') = 3
    BY <1>1, <2>1, <2>2, Ranks DEF Published, Untouched
  <2>4. GraphType'
    BY <2>1 DEF GraphInv, GraphType, InGraph
  <2>5. Driven'
    BY <1>1, <2>1, <2>3 DEF GraphInv, Driven, Publishing
  <2>6. InOrder'
    BY <2>1, <2>2, <2>3 DEF GraphInv, InOrder, Untouched, Publishing
  <2>7. Stopped'
    BY <2>1 DEF GraphInv, Stopped
  <2>8. Publishes'
    BY <2>1, <2>3 DEF Publishes, Publishing
  <2>9. Ends'
    BY <1>1, <2>1, <2>3 DEF GraphInv, Ends, RecordTells
  <2> QED BY <2>4, <2>5, <2>6, <2>7, <2>8, <2>9 DEF GraphInv
<1> QED BY <1>2, <1>3 DEF content_generator_node, world, polls

\* Inside the publishing node: the checkpoint, its driver and the questions stay.
LEMMA PublishKeeps ==
    ASSUME GraphInv,
           \/ publish_post_node \/ publish_banner_node
           \/ \E a \in Accounts : _publish_via_adapter(a)
           \/ _create_calendar_entry \/ MarkCalendarEntry \/ _save_to_social_documents
    PROVE  GraphInv'
<1>0. /\ rule \in ParsedRules \cup StoredRules /\ state \in States /\ faults \in Nat
      /\ next = "end" \/ InGraph(next)
      /\ driver = "thread" => state.decision \in {"none", "pending"}
      /\ state.status \in {"completed", "failed"} => next = "end"
      /\ faults = 0 => (state.decision = "pending" \/ state.status = "waiting_human" => asked # {})
      /\ todo \subseteq rule.accounts /\ rule.accounts \subseteq Accounts
      /\ sent \in [Accounts -> Nat] /\ drafts \in Nat
      /\ asked \cup shown \subseteq {state.content}
      /\ rule.parsed /\ ~rule.adapter => rule.accounts # {}
      /\ stage \in {"marking", "drafting"} => todo = {}
      /\ "publish" \in Nodes /\ "publish" # "end" /\ Rank("publish") = 7
  BY Ranks DEF GraphInv, GraphType, Driven, InOrder, Stopped, Publishes, Ends, ParsedRules, StoredRules, Nodes
\* What every step within it keeps.
<1>1. ASSUME UNCHANGED <<rule, live, row, next, state, driver, asked>>, next = "publish",
             Publishing', rule.parsed, state.checked # "no", driver # "none",
             stage' \in {"calling", "marking", "drafting"},
             stage' # "calling" \/ ~rule.adapter => todo' = {},
             todo' \subseteq todo \/ todo' \subseteq rule.accounts,
             sent' \in [Accounts -> Nat], entry' \in {"none", "pending", "fired", "failed"},
             firers' \in SUBSET {"worker", "api"}, overtaken' \in BOOLEAN,
             firers' # {} => entry' # "none",
             drafts' = drafts, shown' \in {shown, shown \cup {state.content}},
             faults' \in Nat, faults' = 0 => faults = 0,
             faults' = 0 =>
                 /\ Published' \subseteq rule.accounts \ todo'
                 /\ ok' <=> rule.adapter /\ (Disabled \/ Published' = rule.accounts \ todo')
                 /\ ~rule.adapter => Published' = {}
                 /\ stage' = "calling" => entry' = "none"
                 /\ stage' = "marking" => entry' \in {"pending", "fired"}
                 /\ stage' = "drafting" => entry' = IF ok' \/ overtaken' THEN "fired" ELSE "failed"
      PROVE  GraphInv'
  <2>1. (Disabled' <=> Disabled) /\ Rank(next') = 7 /\ next' # "end"
    BY <1>0, <1>1 DEF Disabled
  <2>2. GraphType'
    BY <1>0, <1>1 DEF GraphInv, GraphType, InGraph, States
  <2>3. Driven'
    BY <1>0, <1>1, <2>1 DEF GraphInv, Driven
  <2>4. InOrder'
    BY <1>0, <1>1, <2>1 DEF GraphInv, InOrder
  <2>5. Stopped'
    BY <1>1 DEF GraphInv, Stopped
  <2>6. Publishes'
    BY <1>1, <2>1 DEF Publishes, Publishing
  <2>7. Ends'
    <3>1. row \notin {"completed", "failed"}
      BY <1>1 DEF GraphInv, Driven
    <3> QED BY <1>0, <1>1, <2>1, <3>1 DEF Ends, RecordTells
  <2> QED BY <2>2, <2>3, <2>4, <2>5, <2>6, <2>7 DEF GraphInv
<1>2. ASSUME BeginPublishing
      PROVE  GraphInv'
  <2>1. /\ next = "publish" /\ driver # "none" /\ stage = "node" /\ rule.parsed
        /\ UNCHANGED <<rule, live, row, driver, sent, shown, entry, drafts, firers, overtaken,
                       asked, faults>>
    BY <1>2 DEF BeginPublishing, At, world, polls
  <2>2. faults = 0 => Published = {} /\ entry = "none"
    BY <2>1 DEF GraphInv, InOrder, Untouched, Publishing
  <2>3. Published' = Published
    BY <2>1 DEF Published
  <2>4. CASE state.checked = "no"
    <3>1. Return("publish", state) /\ UNCHANGED todo
      BY <1>2, <2>4 DEF BeginPublishing
    <3> QED BY <1>0, <2>1, <2>2, <3>1, ReturnKeeps DEF Told
  <2>5. CASE state.checked # "no"
    <3>1. /\ stage' = "calling" /\ UNCHANGED <<next, state>>
          /\ todo' = IF rule.adapter THEN rule.accounts ELSE {}
          /\ ok' = (rule.adapter \/ rule.accounts = {})
      BY <1>2, <2>5 DEF BeginPublishing
    <3>2. todo' \subseteq rule.accounts /\ (ok' <=> rule.adapter)
      BY <1>0, <2>1, <3>1
    <3>3. faults' = 0 => /\ Published' \subseteq rule.accounts \ todo'
                         /\ ok' <=> rule.adapter /\ (Disabled \/ Published' = rule.accounts \ todo')
                         /\ ~rule.adapter => Published' = {}
                         /\ entry' = "none"
      BY <2>1, <2>2, <2>3, <3>1, <3>2
    <3> QED BY <1>0, <1>1, <2>1, <2>5, <3>1, <3>2, <3>3 DEF Publishing, GraphInv, GraphType, InOrder
  <2> QED BY <2>4, <2>5
<1>t. ASSUME Publishing
      PROVE  /\ next = "publish" /\ rule.parsed /\ state.checked # "no" /\ driver # "none"
             /\ entry \in {"none", "pending", "fired", "failed"}
             /\ firers \in SUBSET {"worker", "api"} /\ overtaken \in BOOLEAN
             /\ firers # {} => entry # "none"
             /\ ~rule.adapter => todo = {}
             /\ faults = 0 =>
                    /\ Published \subseteq rule.accounts \ todo
                    /\ ok <=> rule.adapter /\ (Disabled \/ Published = rule.accounts \ todo)
                    /\ ~rule.adapter => Published = {}
                    /\ stage = "calling" => entry = "none"
                    /\ stage = "marking" => entry \in {"pending", "fired"}
                    /\ stage = "drafting" => entry = IF ok \/ overtaken THEN "fired" ELSE "failed"
  <2>1. stage # "node"
    BY <1>t DEF Publishing
  <2> QED BY <1>t, <2>1 DEF GraphInv, GraphType, Driven, InOrder, Publishes
<1>3. ASSUME NEW a \in Accounts, _publish_via_adapter(a)
      PROVE  GraphInv'
  <2>1. /\ stage = "calling" /\ stage' = "calling" /\ a \in todo /\ todo' = todo \ {a}
        /\ UNCHANGED <<rule, live, row, next, state, driver, entry, drafts, firers, overtaken,
                       asked>>
        /\ \/ Disabled /\ UNCHANGED <<sent, shown, ok, faults>>
           \/ ~Disabled /\ Post(a) /\ UNCHANGED <<ok, faults>>
           \/ ~Disabled /\ ok' = FALSE /\ UNCHANGED <<sent, shown, faults>>
           \/ ~Disabled /\ Post(a) /\ faults' = faults + 1
    BY <1>3 DEF _publish_via_adapter, Sound, Fault, polls
  <2>2. Publishing /\ Publishing'
    BY <2>1 DEF Publishing
  <2>3. Post(a) => /\ sent' \in [Accounts -> Nat] /\ shown' = shown \cup {state.content}
                   /\ Published' = Published \cup {a}
    <3> SUFFICES ASSUME Post(a)
                 PROVE  /\ sent' \in [Accounts -> Nat] /\ shown' = shown \cup {state.content}
                        /\ Published' = Published \cup {a}
      OBVIOUS
    <3>1. /\ sent' \in [Accounts -> Nat] /\ sent'[a] > 0
          /\ \A b \in Accounts \ {a} : sent'[b] = sent[b]
      BY <1>0 DEF Post
    <3> QED BY <3>1 DEF Post, Published
  <2>4. UNCHANGED sent => Published' = Published
    BY DEF Published
  <2>5. /\ sent' \in [Accounts -> Nat] /\ shown' \in {shown, shown \cup {state.content}}
        /\ faults' \in Nat /\ (faults' = 0 => faults = 0) /\ todo' \subseteq todo
    BY <1>0, <2>1, <2>3
  <2>6. faults' = 0 =>
            /\ Published' \subseteq rule.accounts \ todo'
            /\ ok' <=> rule.adapter /\ (Disabled \/ Published' = rule.accounts \ todo')
            /\ ~rule.adapter => Published' = {}
            /\ entry' = "none"
    <3> SUFFICES ASSUME faults' = 0
                 PROVE  /\ Published' \subseteq rule.accounts \ todo'
                        /\ ok' <=> rule.adapter /\ (Disabled \/ Published' = rule.accounts \ todo')
                        /\ ~rule.adapter => Published' = {}
                        /\ entry' = "none"
      OBVIOUS
    <3>1. /\ Published \subseteq rule.accounts \ todo
          /\ ok <=> rule.adapter /\ (Disabled \/ Published = rule.accounts \ todo)
          /\ ~rule.adapter => Published = {}
          /\ entry' = "none"
      BY <1>t, <2>1, <2>2, <2>5
    <3>2. a \in rule.accounts /\ a \notin Published
      BY <1>0, <2>1, <3>1
    <3>3. rule.adapter
      BY <1>t, <2>1, <2>2
    <3>4. CASE Disabled /\ UNCHANGED <<sent, ok>>
      BY <2>1, <2>4, <3>1, <3>2, <3>3, <3>4
    <3>5. CASE ~Disabled /\ Post(a) /\ UNCHANGED ok
      BY <2>1, <2>3, <3>1, <3>2, <3>3, <3>5
    <3>6. CASE ~Disabled /\ ok' = FALSE /\ UNCHANGED sent
      BY <2>1, <2>4, <3>1, <3>2, <3>3, <3>6
    <3>7. faults' # faults + 1
      BY <1>0
    <3> QED BY <2>1, <3>4, <3>5, <3>6, <3>7
  <2> QED BY <1>1, <1>t, <2>1, <2>2, <2>5, <2>6
<1>4. CASE _create_calendar_entry
  <2>1. /\ stage = "calling" /\ todo = {} /\ stage' \in {"marking", "drafting"}
        /\ entry' \in {entry, "pending"} /\ faults' \in {faults, faults + 1}
        /\ faults' = faults => stage' = "marking" /\ entry' = "pending"
        /\ \/ entry' = "pending" /\ firers' = {} /\ overtaken' = FALSE
           \/ UNCHANGED <<entry, firers, overtaken>>
        /\ UNCHANGED <<rule, live, row, next, state, driver, todo, ok, sent, shown, drafts, asked>>
    BY <1>0, <1>4 DEF _create_calendar_entry, Sound, Fault, polls
  <2>2. Publishing /\ Publishing' /\ Published' = Published
    BY <2>1 DEF Publishing, Published
  <2>3. faults' \in Nat /\ (faults' = 0 => faults = 0 /\ faults' = faults)
    BY <1>0, <2>1
  <2> QED BY <1>0, <1>1, <1>t, <2>1, <2>2, <2>3
<1>5. CASE MarkCalendarEntry
  <2>1. /\ stage = "marking" /\ stage' = "drafting"
        /\ faults' \in {faults, faults + 1}
        /\ entry' \in {entry, "fired", "failed"} /\ overtaken' \in BOOLEAN
        /\ faults' = faults => overtaken' = FALSE /\ entry' = IF ok THEN "fired" ELSE "failed"
        /\ UNCHANGED firers
        /\ UNCHANGED <<rule, live, row, next, state, driver, todo, ok, sent, shown, drafts, asked>>
    <3>1. stage = "marking" /\ overtaken \in BOOLEAN
      BY <1>5 DEF MarkCalendarEntry, GraphInv, GraphType
    <3>2. CASE Marks(IF ok THEN "fired" ELSE "failed") /\ Sound
      BY <1>0, <1>5, <3>1, <3>2 DEF MarkCalendarEntry, Marks, Sound
    <3>3. CASE UNCHANGED <<entry, overtaken>> /\ Fault
      BY <1>0, <1>5, <3>1, <3>3 DEF MarkCalendarEntry, Fault
    <3> QED BY <1>5, <3>2, <3>3 DEF MarkCalendarEntry
  <2>2. Publishing /\ Publishing' /\ Published' = Published
    BY <2>1 DEF Publishing, Published
  <2>3. faults' \in Nat /\ (faults' = 0 => faults = 0 /\ faults' = faults)
    BY <1>0, <2>1
  <2> QED BY <1>0, <1>1, <1>t, <2>1, <2>2, <2>3
<1>6. CASE _save_to_social_documents
  <2> DEFINE publish == IF ok THEN "yes" ELSE "no"
             s == [state EXCEPT !.publish = publish]
  <2>1. /\ stage = "drafting" /\ Return("publish", s)
        /\ drafts' \in {drafts, drafts + 1} /\ faults' \in {faults, faults + 1}
        /\ UNCHANGED <<rule, live, row, driver, todo, sent, shown, entry, firers, overtaken, asked>>
    BY <1>6 DEF _save_to_social_documents, Sound, Fault, polls
  <2>2. Publishing /\ todo = {}
    BY <1>0, <2>1 DEF Publishing
  <2>3. s \in States /\ s.status = state.status /\ s.content = state.content
        /\ s.checked = state.checked /\ s.decision = state.decision /\ s.publish = publish
    BY <1>0 DEF States
  <2>4. drafts' \in Nat /\ faults' \in Nat /\ (faults' = 0 => faults = 0)
    BY <1>0, <2>1
  <2>5. faults' = 0 => Told(publish)
    <3> SUFFICES ASSUME faults' = 0
                 PROVE  Told(publish)
      OBVIOUS
    <3>1. ok <=> All
      BY <1>0, <1>t, <2>2, <2>4 DEF All
    <3> QED BY <1>t, <2>1, <2>2, <2>4, <3>1 DEF Told
  <2> HIDE DEF s, publish
  <2> QED BY <1>0, <1>t, <2>1, <2>2, <2>3, <2>4, <2>5, ReturnKeeps
<1> QED BY <1>2, <1>3, <1>4, <1>5, <1>6 DEF publish_post_node, publish_banner_node


\* What moves a driver and no node: the row, and who holds the checkpoint.
LEMMA DriversKeep ==
    ASSUME GraphInv,
           \/ start_execution \/ _do_resume_after_wait
           \/ \E decision \in {"approved", "rejected", "edited"} : resume_execution(decision)
           \/ SaveOutcome \/ Crash
           \/ \E f \in {"worker", "api"} : due_schedules(f) \/ fire_schedule(f)
    PROVE  GraphInv'
<1>0. /\ rule \in ParsedRules \cup StoredRules /\ state \in States /\ faults \in Nat
      /\ todo \subseteq rule.accounts
      /\ next = "end" \/ InGraph(next)
      /\ driver = "none" => stage = "node"
      /\ state.status \in {"completed", "failed"} => next = "end"
      /\ faults = 0 /\ next = "end" => state.status \in {"completed", "cancelled", "failed"}
      /\ faults = 0 /\ next = "end" /\ driver = "none" => Over
      /\ Rank("end") = 11
  BY Ranks DEF GraphInv, GraphType, Driven, Ends
\* What all but the firing of the record keep.
<1>1. ASSUME UNCHANGED <<rule, live, next, sent, entry, drafts, asked, shown>>
      PROVE  /\ Published' = Published /\ (All' <=> All) /\ (Untouched' <=> Untouched)
             /\ InGraph(next)' <=> InGraph(next)
  BY <1>1 DEF Published, All, Disabled, Untouched, InGraph
<1>2. CASE start_execution
  <2>1. /\ row = "none" /\ row' = "running" /\ driver' = "thread" /\ driver = "none"
        /\ state.decision = "none"
        /\ UNCHANGED <<rule, live, next, state, stage, todo, ok, sent, entry, drafts, asked, shown,
                       firers, overtaken, faults>>
    BY <1>2 DEF start_execution, volatile, world, polls, GraphInv, Driven
  <2>2. GraphType'
    BY <1>1, <2>1 DEF GraphInv, GraphType
  <2>3. Driven'
    BY <1>0, <2>1 DEF GraphInv, Driven, Publishing
  <2>4. InOrder' /\ Stopped'
    BY <1>0, <1>1, <2>1 DEF GraphInv, InOrder, Stopped, Publishing
  <2>5. Publishes' /\ Ends'
    BY <1>0, <1>1, <2>1 DEF GraphInv, Publishes, Publishing, Told, Ends, RecordTells, Over
  <2> QED BY <2>2, <2>3, <2>4, <2>5 DEF GraphInv
\* Both resumptions: the row says that the execution waits.
<1>3. ASSUME driver = "none", driver' \in {"worker", "operator"}, row \in {"waiting_timer", "waiting_human"},
             driver' = "worker" => row = "waiting_timer" /\ state'.decision = state.decision,
             driver' = "operator" => state'.decision \in {"approved", "rejected", "edited"},
             stage' = Resumed, state' \in States, state'.status = "running",
             state'.at = state.at, state'.checked = state.checked, state'.publish = state.publish,
             state'.content = state.content,
             UNCHANGED <<rule, live, row, next, todo, ok, sent, entry, drafts, asked, shown,
                       firers, overtaken, faults>>
      PROVE  GraphInv'
  <2>1. /\ stage = "node" /\ stage' \in {"node", "saving"} /\ (stage' = "saving" => next = "end")
        /\ faults = 0 => next # "end"
    BY <1>0, <1>3 DEF Resumed, Over
  <2>2. GraphType'
    BY <1>1, <1>3, <2>1 DEF GraphInv, GraphType
  <2>3. Driven'
    BY <1>0, <1>3, <2>1 DEF GraphInv, Driven, Publishing
  <2>4. InOrder' /\ Stopped'
    BY <1>0, <1>1, <1>3, <2>1 DEF GraphInv, InOrder, Stopped, Publishing
  <2>5. Publishes' /\ Ends'
    BY <1>0, <1>1, <1>3, <2>1 DEF GraphInv, Publishes, Publishing, Told, Ends, RecordTells, Over
  <2> QED BY <2>2, <2>3, <2>4, <2>5 DEF GraphInv
<1>4. CASE _do_resume_after_wait
  <2>1. /\ state' \in States /\ state'.status = "running" /\ state'.at = state.at
        /\ state'.checked = state.checked /\ state'.publish = state.publish
        /\ state'.content = state.content /\ state'.decision = state.decision
    BY <1>0, <1>4 DEF _do_resume_after_wait, States
  <2> QED BY <1>3, <1>4, <2>1 DEF _do_resume_after_wait, world, polls
<1>5. ASSUME NEW decision \in {"approved", "rejected", "edited"}, resume_execution(decision)
      PROVE  GraphInv'
  <2>1. /\ state' \in States /\ state'.status = "running" /\ state'.at = state.at
        /\ state'.checked = state.checked /\ state'.publish = state.publish
        /\ state'.content = state.content /\ state'.decision = decision
    BY <1>0, <1>5 DEF resume_execution, States
  <2> QED BY <1>3, <1>5, <2>1 DEF resume_execution, world, polls
<1>6. CASE SaveOutcome
  <2>1. /\ stage = "saving" /\ stage' = "node" /\ row' = Outcome /\ driver' = "none"
        /\ driver \in {"thread", "worker", "operator"}
        /\ UNCHANGED <<rule, live, next, state, todo, ok, sent, entry, drafts, asked, shown,
                       firers, overtaken, faults>>
    BY <1>0, <1>6 DEF SaveOutcome, world, polls, GraphInv, GraphType
  <2>2. /\ row' \in {"waiting_timer", "waiting_human", state.status, "completed"}
        /\ row' = "completed" => next = "end"
        /\ row' = "failed" => state.status = "failed"
        /\ next = "end" /\ state.status # "running" => row' = state.status
        /\ row' = "waiting_timer" => Rank(next) > 1
        /\ row' = "waiting_human" /\ faults = 0 /\ ~Edited(rule) => asked # {}
    <3>1. /\ next # "end" => \/ state.at = "approval"
                             \/ /\ state.at = "wait" /\ driver # "worker"
                                /\ Edited(rule) \/ state.wait = "set"
          /\ state.at = "approval" => state.decision # "none"
          /\ faults = 0 => (state.decision = "pending" \/ state.status = "waiting_human" => asked # {})
          /\ driver = "thread" => state.decision \in {"none", "pending"}
          /\ driver = "worker" \/ state.status = "waiting_timer" => Rank(next) > 1
          /\ state.at = "wait" => Rank(next) > 1
      BY <2>1, Ranks DEF GraphInv, Stopped, Driven
    <3>2. CASE next = "end"
      <4>1. row' = IF state.status = "running" /\ driver # "operator" THEN "completed"
                   ELSE state.status
        BY <2>1, <3>2 DEF Outcome
      <4> QED BY <1>0, <3>1, <3>2, <4>1
    <3>3. CASE next # "end" /\ driver = "thread"
      <4>1. row' = IF state.at = "wait" /\ state.wait = "set" THEN "waiting_timer" ELSE "waiting_human"
        BY <2>1, <3>3 DEF Outcome
      <4> QED BY <3>1, <3>3, <4>1
    <3>4. CASE next # "end" /\ driver = "worker"
      <4>1. row' = IF state.decision \in {"none", "pending"} THEN "waiting_human" ELSE state.status
        BY <2>1, <3>4 DEF Outcome
      <4> QED BY <1>0, <3>1, <3>4, <4>1
    <3>5. CASE next # "end" /\ driver = "operator"
      <4>1. row' = state.status
        BY <2>1, <3>5 DEF Outcome
      <4> QED BY <1>0, <3>1, <3>5, <4>1
    <3> QED BY <2>1, <3>2, <3>3, <3>4, <3>5
  <2>3. GraphType'
    BY <1>1, <2>1, <2>2 DEF GraphInv, GraphType, States
  <2>4. Driven'
    BY <1>0, <2>1, <2>2 DEF GraphInv, Driven, Publishing, States
  <2>5. InOrder' /\ Stopped'
    BY <1>0, <1>1, <2>1, <2>2 DEF GraphInv, InOrder, Stopped, Publishing
  <2>6. Publishes'
    BY <1>1, <2>1 DEF GraphInv, Publishes, Publishing, Told
  <2>7. faults = 0 /\ next = "end" => row' = state.status
    BY <1>0, <2>2
  <2>8. faults = 0 /\ row' \in {"completed", "failed"} /\ entry # "none" =>
            (row' = "completed" <=> All) /\ entry = IF All \/ overtaken THEN "fired" ELSE "failed"
    BY <1>0, <2>2, <2>7 DEF GraphInv, Ends, Publishes, Told
  <2>9. RecordTells'
    BY <1>1, <2>1, <2>8 DEF RecordTells, All
  <2>10. Ends'
    BY <1>0, <1>1, <2>1, <2>7, <2>9 DEF GraphInv, Ends, Over
  <2> QED BY <2>3, <2>4, <2>5, <2>6, <2>10 DEF GraphInv
\* A poll that reads the record leaves it as it is.
<1>7. ASSUME NEW f \in {"worker", "api"}, due_schedules(f)
      PROVE  GraphInv'
  <2>1. /\ entry = "pending" /\ firers' = firers \cup {f}
        /\ UNCHANGED <<rule, live, row, next, state, driver, stage, todo, ok, sent, entry, drafts,
                       asked, shown, overtaken, faults>>
    BY <1>7 DEF due_schedules, volatile
  <2>2. GraphType' /\ Driven'
    BY <1>1, <2>1 DEF GraphInv, GraphType, Driven, Publishing
  <2>3. InOrder' /\ Stopped'
    BY <1>1, <2>1 DEF GraphInv, InOrder, Stopped, Publishing
  <2>4. Publishes' /\ Ends'
    BY <1>1, <2>1 DEF GraphInv, Publishes, Publishing, Told, Disabled, Ends, RecordTells, Over, All
  <2> QED BY <2>2, <2>3, <2>4 DEF GraphInv
\* A poll that marks it has overtaken the node, or a fault has come.
<1>8. ASSUME NEW f \in {"worker", "api"}, fire_schedule(f)
      PROVE  GraphInv'
  <2>1. /\ firers' \subseteq firers /\ firers # {}
        /\ UNCHANGED <<rule, live, row, next, state, driver, stage, todo, ok, sent, drafts, asked,
                       shown>>
        /\ \/ entry' = "fired" /\ overtaken' = TRUE /\ faults' = faults
           \/ /\ entry' \in {entry, "failed"} /\ overtaken' \in BOOLEAN
              /\ faults' = faults + 1
    BY <1>8 DEF fire_schedule, volatile, Sound, Fault, GraphInv, GraphType
  <2>2. /\ entry # "none" /\ entry' \in {entry, "fired", "failed"}
        /\ ~Untouched /\ Published' = Published /\ (All' <=> All) /\ (Disabled' <=> Disabled)
        /\ faults' \in Nat
        /\ faults' = 0 => faults = 0 /\ entry' = "fired" /\ overtaken' = TRUE
    <3>1. entry # "none" /\ faults \in Nat
      BY <1>0, <2>1 DEF GraphInv, InOrder
    <3>2. Published' = Published /\ (Disabled' <=> Disabled)
      BY <2>1 DEF Published, Disabled
    <3>3. (All' <=> All) /\ ~Untouched
      BY <2>1, <3>1, <3>2 DEF All, Untouched
    <3> QED BY <2>1, <3>1, <3>2, <3>3
  <2>3. GraphType' /\ Driven'
    <3>1. overtaken' \in BOOLEAN /\ firers' \subseteq {"worker", "api"}
      BY <2>1 DEF GraphInv, GraphType
    <3>2. GraphType'
      BY <2>1, <2>2, <3>1 DEF GraphInv, GraphType, InGraph
    <3>3. Driven'
      BY <2>1 DEF GraphInv, Driven, Publishing
    <3> QED BY <3>2, <3>3
  <2>4. InOrder' /\ Stopped'
    BY <2>1, <2>2 DEF GraphInv, InOrder, Stopped, Publishing
  <2>5. Publishes'
    BY <2>1, <2>2 DEF GraphInv, Publishes, Publishing, Told
  <2>6. Ends'
    BY <2>1, <2>2 DEF GraphInv, Ends, RecordTells, Over, All
  <2> QED BY <2>3, <2>4, <2>5, <2>6 DEF GraphInv
<1>9. CASE Crash
  <2>1. /\ driver' = "none" /\ stage' = "node" /\ todo' = {} /\ faults' = faults + 1 /\ faults' # 0
        /\ driver # "none" /\ faults' \in Nat
        /\ UNCHANGED <<rule, live, row, next, state, entry, drafts, asked, firers, overtaken>>
        /\ IF At("publish") /\ ~rule.parsed /\ state.decision # "rejected"
           THEN Attempt ELSE UNCHANGED <<sent, shown>>
    BY <1>0, <1>9 DEF Crash, polls, Fault
  <2>2. /\ sent' \in [Accounts -> Nat] /\ shown' \in {shown, shown \cup {state.content}}
        /\ UNCHANGED <<sent, shown>> \/ (next = "publish" /\ ~rule.parsed)
    BY <2>1, AttemptSends DEF At, GraphInv, GraphType
  <2>3. UNCHANGED <<sent, shown>> => Published' = Published /\ (Untouched' <=> Untouched)
    BY <2>1 DEF Published, Untouched
  <2>4. GraphType'
    BY <2>1, <2>2 DEF GraphInv, GraphType, States, InGraph
  <2>5. Driven'
    BY <2>1 DEF GraphInv, Driven, Publishing
  <2>6. InOrder'
    BY <2>1, <2>2, <2>3, Ranks DEF GraphInv, InOrder, Untouched
  <2>7. Stopped' /\ Publishes' /\ Ends'
    BY <2>1 DEF GraphInv, Stopped, Publishes, Publishing, Ends, RecordTells
  <2> QED BY <2>4, <2>5, <2>6, <2>7 DEF GraphInv
<1> QED BY <1>2, <1>4, <1>5, <1>6, <1>7, <1>8, <1>9

\* The invariant of the graph holds at the start.
LEMMA InitGraph ==
    ASSUME Init
    PROVE  GraphInv
<1>1. /\ rule \in ParsedRules \cup StoredRules /\ row = "none" /\ next = "supervisor"
      /\ state = initial_state /\ driver = "none" /\ stage = "node" /\ todo = {}
      /\ sent = [a \in Accounts |-> 0] /\ entry = "none" /\ drafts = 0 /\ asked = {}
      /\ shown = {} /\ faults = 0 /\ firers = {} /\ overtaken = FALSE
  BY DEF Init
<1>2. state \in States /\ state.status = "running" /\ state.at = "none" /\ state.decision = "none"
      /\ state.checked = "none" /\ Published = {}
  BY <1>1 DEF initial_state, States, Contents, NoContent, Published
<1>3. GraphType
  BY <1>1, <1>2, InGraphFacts DEF GraphType
<1>4. Driven /\ Stopped
  BY <1>1, <1>2, Ranks DEF Driven, Stopped, Publishing
<1>5. InOrder
  BY <1>1, <1>2 DEF InOrder, Untouched
<1>6. Publishes /\ Ends
  BY <1>1, <1>2, Ranks DEF Publishes, Publishing, Ends, RecordTells
<1> QED BY <1>3, <1>4, <1>5, <1>6 DEF GraphInv

\* The invariant of the graph holds always.
THEOREM GraphKept == Spec => []GraphInv
<1>1. Init => GraphInv
  BY InitGraph
<1>2. GraphInv /\ [Next]_vars => GraphInv'
  <2> SUFFICES ASSUME GraphInv, [Next]_vars
               PROVE  GraphInv'
    OBVIOUS
  <2>1. CASE Next
    BY <2>1, NodesKeep, ContentKeeps, PublishKeeps, DriversKeep DEF Next, Invocation
  <2>2. CASE UNCHANGED vars
    <3>1. UNCHANGED <<rule, live, row, next, state, driver, stage, todo, ok, sent, entry, drafts,
                      asked, shown, firers, overtaken, faults>>
      BY <2>2 DEF vars, volatile, world, polls
    <3>2. (Published' = Published) /\ (Disabled' <=> Disabled)
      BY <3>1 DEF Published, Disabled
    <3>3. GraphType' /\ Driven'
      BY <3>1 DEF GraphInv, GraphType, InGraph, Driven, Publishing
    <3>4. InOrder' /\ Stopped'
      BY <3>1, <3>2 DEF GraphInv, InOrder, Untouched, Stopped, Publishing
    <3>5. Publishes' /\ Ends'
      BY <3>1, <3>2 DEF GraphInv, Publishes, Publishing, Told, All, Ends, RecordTells, Over
    <3> QED BY <3>3, <3>4, <3>5 DEF GraphInv
  <2> QED BY <2>1, <2>2
<1> QED BY <1>1, <1>2, PTL DEF Spec

\* A rule whose conditions do not hold leaves no post, no record in the calendar and no
\* card, for any number of accounts, crashes and resumptions.
THEOREM FailedConditionsLeaveNothing == Spec => []ConditionsHold
<1>1. GraphInv => ConditionsHold
  BY DEF GraphInv, InOrder, ConditionsHold
<1> QED BY <1>1, GraphKept, PTL

\* Where no fault came, the calendar and the row tell which publication there was.
THEOREM CalendarTells == Spec => []RecordTells
<1>1. GraphInv => RecordTells
  BY DEF GraphInv, Ends
<1> QED BY <1>1, GraphKept, PTL

\* Whoever waits for a human has asked one, and what was asked about is what goes out.
THEOREM WhatIsAskedGoesOut == Spec => []AskedGoesOut
<1>1. GraphInv => AskedGoesOut
  BY DEF GraphInv, InOrder, Stopped, AskedGoesOut
<1> QED BY <1>1, GraphKept, PTL
=============================================================================
