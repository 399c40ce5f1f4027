----------------------------- MODULE Conversation -----------------------------
(***************************************************************************)
(* The business chat: POST /chat of orchestration_api.py, answer_question  *)
(* of business_chat.py, and what it goes through: the sessions of          *)
(* chat_session_service.py, the turns of conversation_memory.py,           *)
(* business_query_router.py with its cache and its rate limit,             *)
(* nl_to_sql.py, product_resolver.py and the index of products behind it,  *)
(* which commerce_service.py and reindex_products.py keep.                 *)
(*                                                                         *)
(* A question is the set of its subjects: products it names, "this" for    *)
(* "bu ürün"; no subject is the shop as a whole.  The handlers of the chat *)
(* block, so that questions are answered one by one; the handlers of the   *)
(* shop, the script and time run beside them.  What language models answer *)
(* is chosen freely within what their prompts ask for, or they fail.       *)
(***************************************************************************)
EXTENDS Naturals, Sequences, FiniteSets, TLC

CONSTANTS Products,
          Limit,        \* _SELLER_LIMIT: questions in a window
          MaxSessions,  \* bound: sessions ever opened
          MaxQuestions, \* bound: questions
          MaxIncidents     \* bound: changes of the shop, and failures

VARIABLES
    open,    \* chat_sessions
    turns,   \* bchat_turns: primary_entity_label by session, a product or "none"
    cache,   \* Redis: a key, what the text kept for it is about, and the shops it tells of
    recent,  \* Redis: questions of the present window
    product, \* products: new (not created yet), here or gone
    index,   \* ChromaDB: the products in it
    sync,    \* work on the index that is still to be done, as <<operation, product>>
    job,     \* where the handler stands
    questions,   \* questions so far
    meant,    \* history: by session, what a user may think "this product" is
    faults   \* changes of the shop and failures so far

shopVars == <<product, index, sync>>
vars == <<open, turns, cache, recent, shopVars, job, questions, meant, faults>>

Sessions == 1..MaxSessions
Questions == {q \in SUBSET (Products \cup {"this"}) : Cardinality(q) <= 2}

\* Whose shops a question names: none, a shop of the user's own or of somebody else, a
\* user, all.
parse_mention == {"self", "own", "foreign", "user", "all"}

\* The shops a user who is no administrator may ask about: all of the user's, the one
\* that is named, or none for another's, and where the table cannot be read.
resolve_scope_to_store_ids(mention) ==
    CASE mention = "foreign" -> {"no shop"}
      [] mention = "own" -> {"one shop", "no shop"}
      [] OTHER -> {"own", "no shop"}

Mentions == UNION {resolve_scope_to_store_ids(m) : m \in parse_mention}

Idle == [pc |-> "idle"]

\* The turns that have a label.
LabelsOf(s) == {k \in 1..Len(turns[s]) : turns[s][k] # "none"}

\* Mutation: the label of the last turn, whether it has one or not.
LastTurn(s) == IF turns[s] = <<>> THEN "none" ELSE turns[s][Len(turns[s])]

\* The label of the last turn that has one.
conversation_context(s) ==
    IF LabelsOf(s) = {} THEN "none"
    ELSE turns[s][CHOOSE k \in LabelsOf(s) : \A j \in LabelsOf(s) : j <= k]

Init ==
    /\ open = {1}
    /\ turns \in {[s \in Sessions |-> IF s = 1 THEN first ELSE <<>>] :
                     first \in {<<>>} \cup {<<p>> : p \in Products}}
    /\ cache = {} /\ recent = 0
    /\ product \in {f \in [Products -> {"new", "here"}] : \E p \in Products : f[p] = "here"}
    /\ index = {p \in Products : product[p] = "here"}
    /\ sync = {}
    /\ job = Idle /\ questions = 0
    /\ meant = [s \in Sessions |-> IF s > 1 THEN {} ELSE {conversation_context(1)}]
    /\ faults = 0

At(pc) == job.pc = pc

\* A question reads the cache, the index and the table once for every part of it: what
\* changes while it is answered might have changed before or behind it.
Between == job = Idle /\ questions < MaxQuestions

\* The last question the bound allows is followed up to its answer, not to its record,
\* which nobody reads.
Read == questions < MaxQuestions

Fault == faults < MaxIncidents /\ faults' = faults + 1
Named == job.question \cap Products
shop == {p \in Products : product[p] = "here"}

(***************************************************************************)
(* ensure_session, open_session, _classify_intent                          *)
(***************************************************************************)
\* The session the client names, or a new one: the id of a deleted session is not used
\* again, so that what the turns keeps under it is out of reach.
ensure_session(s) ==
    IF s \in open THEN s
    ELSE CHOOSE n \in Sessions : meant[n] = {} /\ \A m \in 1..n - 1 : meant[m] # {}

\* POST /chat/new-session, for ids the user has; DELETE /chat/sessions.
delete_session(s) ==
    /\ Between
    /\ s \in open
    /\ open' = open \ {s}
    /\ UNCHANGED <<turns, cache, recent, shopVars, job, questions, meant, faults>>

(***************************************************************************)
(* conversation_context, record_turn                                       *)
(***************************************************************************)
\* _classify_intent splits a question of two subjects into parts, or does not.
Parts(q) == {<<q>>} \cup {<<{x[1]}, {x[2]}>> : x \in {y \in q \X q : y[1] # y[2] /\ y[1] # "this"}}

\* The question goes to the router, part by part.
Route(s, q, label, blind) ==
    \E parts \in Parts(q) :
        job' = [pc |-> "route", session |-> s, question |-> q, parts |-> parts,
                label |-> label, blind |-> blind, rewritten |-> FALSE, blocks |-> <<>>]

\* An exception of the memory is swallowed: there is no active product.
Context(s, q) ==
    \/ Route(s, q, conversation_context(s), FALSE) /\ UNCHANGED faults
    \/ Fault /\ Route(s, q, "none", TRUE)

\* POST /chat, up to what _classify_intent makes of the question: one about data, or a
\* command, or one that needs no data.
Ask(s, q) ==
    /\ Between
    /\ s \in open \/ (s = MaxSessions /\ \E n \in Sessions : meant[n] = {})
    /\ LET sid == ensure_session(s) IN
       /\ open' = open \cup {sid}
       /\ meant' = IF meant[sid] = {} THEN [meant EXCEPT ![sid] = {"none"}] ELSE meant
       /\ \/ Context(sid, q)
          \/ \E intent \in {"action", "chat"} :
                /\ "this" \notin q /\ questions + 1 < MaxQuestions
                /\ job' = [pc |-> intent, session |-> sid, question |-> q]
                /\ UNCHANGED faults
    /\ questions' = questions + 1
    /\ UNCHANGED <<turns, cache, recent, shopVars>>

\* What the user may think is spoken of: the one product of a question or a command,
\* once it is recorded; otherwise still what it was, or a product just named.
Thinks(label, plain) ==
    meant' = [meant EXCEPT ![job.session] =
                IF plain THEN {label} ELSE @ \cup Named \cup ({label} \ {"none"})]

record_turn(label, plain) ==
    /\ turns' = [turns EXCEPT ![job.session] = Append(@, label)]
    /\ Thinks(label, plain)
    /\ UNCHANGED faults

\* The exception is swallowed.
TurnIsLost(label) ==
    /\ Fault
    /\ Thinks(label, FALSE)
    /\ UNCHANGED turns

(***************************************************************************)
(* _answer_chat, and the action path of answer_question                    *)
(***************************************************************************)
\* Nothing is looked up in the shop for the question, and no product is recorded.
_answer_chat ==
    /\ At("chat") /\ Read
    /\ record_turn("none", FALSE) \/ TurnIsLost("none")
    /\ job' = Idle
    /\ UNCHANGED <<open, cache, recent, shopVars, questions>>

(***************************************************************************)
(* product_resolver                                                        *)
(***************************************************************************)
\* The candidates: what the index has; the table if that is nothing, or fails.
_fetch_catalog == IF index = {} THEN {shop} ELSE {index, shop}

\* The products meant: those of the candidates that are named.  A model that fails, or
\* an answer that cannot be read, gives none.
resolve_products == {{}} \cup {Named \cap c : c \in _fetch_catalog}

\* A product only where it is the only one.
resolve_single ==
    {IF Cardinality(m) = 1 THEN CHOOSE p \in m : TRUE ELSE "none" : m \in resolve_products}

\* The product with its pictures, if it is in the table.
enrich_by_id(p) == IF p \in shop THEN p ELSE "none"
resolve_and_enrich == {enrich_by_id(p) : p \in resolve_single}

\* The products of the shop by sales or by margin, one of which comes first.
_one_shot_find_top_products == shop

\* A rule for one run was made of the command, about a product of the shop, or of none,
\* which was not found ...
OneShot ==
    /\ At("action") /\ Read
    /\ \E p \in resolve_and_enrich \cup _one_shot_find_top_products :
        \/ record_turn(p, p # "none" /\ job.question \in {{}, {p}})
        \/ TurnIsLost(p)
    /\ job' = Idle
    /\ UNCHANGED <<open, cache, recent, shopVars, questions>>

\* ... or could not be made, and the command is taken for a question.
NoOneShot ==
    /\ At("action")
    /\ Context(job.session, job.question)
    /\ UNCHANGED <<open, turns, cache, recent, shopVars, questions, meant>>

(***************************************************************************)
(* nl_to_sql                                                               *)
(***************************************************************************)
\* What a model may answer when it is asked for a query: one that is restricted to the
\* shops in scope; to those of the user; to neither, though it names a parameter; one
\* that names none; one with columns that do not exist, no SELECT, one that fails when
\* it runs; or nothing.
_llm_generate_sql ==
    {"right", "owner", "loose", "unscoped", "invalid", "unsafe", "failing", "nothing"}

\* The first time it may choose a template instead: one of the shops in scope, genel_ozet,
\* which is of those of the user, or one that is broken.
Templates == {"template", "genel_ozet", "broken"}
_route_and_generate == _llm_generate_sql \cup Templates

_validate_sql(d) == d # "invalid"
_is_safe(d) == d \notin {"unsafe", "nothing"}

\* Mutation: what a query is restricted to is not looked at.
ScopeUnchecked(d) == TRUE

\* It looks for the name of a parameter in the text, not at what it restricts.
_enforce_scope(d) == d # "unscoped"

Accepted(d) == _is_safe(d) /\ (d \in Templates \/ _enforce_scope(d))
Runs(d) == d \in {"template", "genel_ozet", "right", "owner", "loose", "unscoped"}

\* No query ran.
_empty == "error"

\* The first draft, or another, when a column of that does not exist.
Drafts == UNION {IF _validate_sql(d) THEN {d} ELSE _llm_generate_sql : d \in _route_and_generate}

\* The query that runs: the draft; one more, when that fails and is no template.  All are
\* looked through before they run.
Runnable(d) == Accepted(d) /\ Runs(d)
Run(d) ==
    IF Runnable(d) THEN {d}
    ELSE IF ~Accepted(d) \/ d \in Templates THEN {_empty}
    ELSE {IF Runnable(x) THEN x ELSE _empty : x \in _llm_generate_sql}
Queries == UNION {Run(d) : d \in Drafts}

\* Whether the rows of a query are of the shops in scope, of others too, or of all without
\* asking whose they are.
Reach(in, run, found) ==
    CASE found # "rows" -> "scope"
      [] run = "unscoped" -> "all"
      [] run = "loose" \/ (run \in {"owner", "genel_ozet"} /\ in # "own") -> "beyond"
      [] OTHER -> "scope"

\* Rows, rows of which no cell has a value, or no row.
Finds(run) == IF run = _empty THEN {"error"} ELSE {"rows", "blank", "none"}

nl_to_sql(in, q) ==
    UNION {{[found |-> f, about |-> <<in, q>>, reach |-> Reach(in, run, f)] : f \in Finds(run)} :
           run \in Queries}

\* The result as it is handed on: formatted, row_count and is_error.
_format_rows(found) == found \in {"rows", "none"}
HasRows(found) == found \in {"rows", "blank"}
Tells(found) == _format_rows(found) /\ HasRows(found)

(***************************************************************************)
(* route                                                                   *)
(***************************************************************************)
_rewrite_pronouns(q) ==
    IF "this" \in q /\ job.label # "none" THEN (q \ {"this"}) \cup {job.label} ELSE q

\* Mutation: the key of the cache is made of the question before the rewriting.
RawKey(in, part) == <<in, part>>

\* The key of the cache: the shops and the question as it was rewritten.
scope_hash(in, part) == <<in, _rewrite_pronouns(part)>>

\* The result of one part; behind the last one the handler goes on.  A lookup answers
\* whether the pronoun was rewritten, the cache does not.
Routed(in, result, rewritten) ==
    IF result.found = "refused" /\ job.blocks = <<>> /\ Len(job.parts) = 1 THEN job' = Idle
    ELSE job' = [job EXCEPT
        !.blocks = Append(@,
            [found   |-> result.found,
             matches |-> result.about = <<in, _rewrite_pronouns(Head(job.parts))>>,
             reach   |-> result.reach]),
        !.parts = Tail(@),
        !.rewritten = rewritten /\ Len(job.blocks) = 0 /\ Len(job.parts) = 1,
        !.pc = IF Len(job.parts) > 1 THEN "route" ELSE "record"]

\* check_rate_limit counts the question, also one it refuses.
Counted == recent' = IF recent < Limit THEN recent + 1 ELSE recent

Refused ==
    /\ At("route")
    /\ recent >= Limit
    /\ Counted
    /\ Routed("own", [found |-> "refused", about |-> <<"own", {}>>, reach |-> "scope"], FALSE)
    /\ IF job' = Idle THEN Thinks("none", FALSE) ELSE UNCHANGED meant
    /\ UNCHANGED <<open, turns, cache, shopVars, questions, faults>>

Cached ==
    /\ At("route")
    /\ recent < Limit
    /\ \E entry \in cache, in \in Mentions :
        /\ entry[1] = scope_hash(in, Head(job.parts))
        /\ Routed(in, [found |-> "rows", about |-> entry[2], reach |-> entry[3]], FALSE)
    /\ Counted
    /\ UNCHANGED <<open, turns, cache, shopVars, questions, meant, faults>>

\* Rows with a text are kept, nothing else is.
LookedUp ==
    /\ At("route")
    /\ recent < Limit
    /\ \E in \in Mentions :
       LET part == Head(job.parts)  key == scope_hash(in, part)  q == _rewrite_pronouns(part) IN
       /\ \A entry \in cache : entry[1] # key
       /\ \E result \in nl_to_sql(in, q) :
           /\ Routed(in, result, q # part)
           /\ cache' = IF Tells(result.found)
                       THEN cache \cup {<<key, result.about, result.reach>>} ELSE cache
    /\ Counted
    /\ UNCHANGED <<open, turns, shopVars, questions, meant, faults>>

\* The minute of the window passes, or the two minutes of the cache.  Where Redis cannot
\* be reached nothing is kept and nothing counted, as if they had.
Passes ==
    /\ Between
    /\ recent > 0 \/ cache # {}
    /\ recent' = 0
    /\ cache' \in {cache, {}}
    /\ UNCHANGED <<open, turns, shopVars, job, questions, meant, faults>>

(***************************************************************************)
(* The answer to a question about data                                     *)
(***************************************************************************)
\* The blocks of several parts are joined: a part that failed or was refused, or whose
\* rows have no text, reads like one without rows.
_multipart_retrieval(blocks) ==
    IF \E i \in 1..Len(blocks) : Tells(blocks[i].found) THEN "rows" ELSE "none"

\* What the language model is told beside the question: the data, that there is no
\* record, that something failed, or nothing.
_compose_context_text(blocks) ==
    LET found == IF Len(blocks) = 1 THEN blocks[1].found ELSE _multipart_retrieval(blocks) IN
    IF found = _empty THEN "error"
    ELSE IF Tells(found) THEN "data"
    ELSE IF ~HasRows(found) THEN "no record" ELSE "nothing"

\* The product of this turn: the one the pronoun stood for, the one the resolver finds,
\* or still the last one.
Label(p) == IF job.rewritten \/ p = "none" THEN job.label ELSE p

answer_question ==
    /\ At("record") /\ Read
    /\ \E p \in IF job.rewritten THEN {"none"} ELSE resolve_single :
        \/ record_turn(Label(p), p # "none" /\ job.question = {p})
        \/ TurnIsLost(Label(p))
    /\ job' = Idle
    /\ UNCHANGED <<open, cache, recent, shopVars, questions>>

(***************************************************************************)
(* commerce_service and reindex_products: the table, then the index.       *)
(***************************************************************************)
Change == Between /\ Fault

create_product(p) ==
    /\ Change
    /\ product[p] = "new"
    /\ product' = [product EXCEPT ![p] = "here"]
    /\ sync' = sync \cup {<<"upsert", p>>}
    /\ UNCHANGED <<open, turns, cache, recent, index, job, questions, meant>>

update_product(p) ==
    /\ Change
    /\ product[p] = "here"
    /\ sync' = sync \cup {<<"upsert", p>>}
    /\ UNCHANGED <<open, turns, cache, recent, product, index, job, questions, meant>>

delete_product(p) ==
    /\ Change
    /\ product[p] = "here"
    /\ product' = [product EXCEPT ![p] = "gone"]
    /\ sync' = sync \cup {<<"remove", p>>}
    /\ UNCHANGED <<open, turns, cache, recent, index, job, questions, meant>>

\* The script reads the table, may drop the whole index, and upserts in batches.
Reindex(reset) ==
    /\ Change
    /\ sync' = sync \cup {<<"upsert", p>> : p \in shop}
    /\ index' = IF reset THEN {} ELSE index
    /\ UNCHANGED <<open, turns, cache, recent, product, job, questions, meant>>

_sync_product_to_index(p) ==
    /\ Between
    /\ <<"upsert", p>> \in sync
    /\ sync' = sync \ {<<"upsert", p>>}
    /\ index' = index \cup {p}
    /\ UNCHANGED <<open, turns, cache, recent, product, job, questions, meant, faults>>

_remove_product_from_index(p) ==
    /\ Between
    /\ <<"remove", p>> \in sync
    /\ sync' = sync \ {<<"remove", p>>}
    /\ index' = index \ {p}
    /\ UNCHANGED <<open, turns, cache, recent, product, job, questions, meant, faults>>

\* The index cannot be reached, or the models that make its vectors: passed over.
SyncFails ==
    /\ Between
    /\ \E work \in sync : sync' = sync \ {work}
    /\ UNCHANGED <<open, turns, cache, recent, product, index, job, questions, meant, faults>>

\* The process dies, with the requests it serves.
Die ==
    /\ job # Idle /\ Read
    /\ Fault
    /\ Thinks("none", FALSE)
    /\ job' = Idle
    /\ sync' \in {sync, {}}
    /\ UNCHANGED <<open, turns, cache, recent, product, index, questions>>

\* For TLC: what the rest of a behaviour depends on.  The last question is not recorded, so
\* that only its label and what the cache has for its parts matter, not its session.
View ==
    IF questions < MaxQuestions THEN vars
    ELSE IF job = Idle THEN <<"over">>
    ELSE IF At("record") THEN <<job.blocks>>
    ELSE <<[job EXCEPT !.session = 0, !.question = {}], job.label \in meant[job.session], recent,
           {entry \in cache : \E i \in 1..Len(job.parts) :
                entry[1][2] = _rewrite_pronouns(job.parts[i])}>>

Next ==
    \/ \E s \in Sessions, q \in Questions : Ask(s, q)
    \/ \E s \in Sessions : delete_session(s)
    \/ _answer_chat \/ OneShot \/ NoOneShot
    \/ Refused \/ Cached \/ LookedUp \/ answer_question
    \/ Passes
    \/ \E p \in Products :
           \/ create_product(p) \/ update_product(p) \/ delete_product(p)
           \/ _sync_product_to_index(p) \/ _remove_product_from_index(p)
    \/ (\E reset \in BOOLEAN : Reindex(reset))
    \/ SyncFails \/ Die

Spec == Init /\ [][Next]_vars

(***************************************************************************)
(* Properties.                                                             *)
(***************************************************************************)
\* Every variable keeps its type.
TypeOK ==
    /\ open \subseteq {s \in Sessions : meant[s] # {}}
    /\ index \subseteq {p \in Products : product[p] # "new"}
    /\ \A s \in Sessions : Len(turns[s]) <= questions + 1
    /\ recent \in 0..Limit /\ questions \in 0..MaxQuestions /\ faults \in 0..MaxIncidents

\* "This product" is what the user was last told about in this session, through chat in
\* between, commands, questions about several things, refusals and lost turns, and
\* whatever the index does not know yet: a question is looked up about that product or
\* as it was asked, never about one of another session, or of one that was deleted.
TopicKept ==
    job # Idle /\ job.pc \in {"route", "record"} /\ ~job.blind
        => job.label \in meant[job.session]

\* An answer rests on what was asked: the rows it is made of, those of the cache too,
\* were found for this question, as it reads with its pronoun replaced, and for this
\* scope, by a query that is restricted to the shops in scope or of the user, or that
\* names one of the two parameters at least; none that names neither ever runs.  The
\* answer to a question of one part says that there is no record only where a query ran
\* and found none, and that something failed only where none ran.
AnswersRest ==
    At("record") =>
        LET told == _compose_context_text(job.blocks) IN
        /\ \A i \in 1..Len(job.blocks) : job.blocks[i].found = "rows"
               => job.blocks[i].matches /\ job.blocks[i].reach # "all"
        /\ told = "data" => \E i \in 1..Len(job.blocks) : job.blocks[i].found = "rows"
        /\ Len(job.blocks) = 1 =>
               /\ told = "no record" => job.blocks[1].found = "none"
               /\ told = "error" <=> job.blocks[1].found = "error"
=============================================================================
