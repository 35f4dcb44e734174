------------------------------- MODULE PageKit -------------------------------
(***************************************************************************)
(* What the pages of the management console (src/web, Vue) share.  A page  *)
(* is a component with refs; its handlers run to the next await without    *)
(* interruption, so a handler is split at its awaits: "Do" is the part up  *)
(* to the request, "Back" what follows the answer.  Between the two the    *)
(* user goes on clicking and other answers arrive, in any order.           *)
(*                                                                         *)
(* One page is mounted at a time and its refs die with it, so one record   *)
(* ui holds them.  Each page lists one or two collections of the server;   *)
(* of a row only its state is kept: 0 absent, 1 and 2 two contents.        *)
(***************************************************************************)
EXTENDS Naturals, Sequences, SequencesExt, FiniteSets

CONSTANTS
    Items,        \* row identities
    Protected,    \* the row a page protects: the admin user, a builtin rule
    None,
    MaxEvents,    \* bound: clicks and timer ticks on a visit to each page
    MaxCalls,     \* bound: requests in flight on each page
    MaxFaults     \* bound: requests that fail or lose their answer, on each page

\* No row is called None, and there is a row to protect.
ASSUME KitAssumption == None \notin Items /\ Protected \in Items

VARIABLES
    page,         \* the mounted page; None once the user has left it
    ui,           \* its refs
    db,           \* the server's collections
    calls,        \* requests in flight, in the order they were sent
    events,       \* clicks and ticks so far
    faults,       \* failures so far
    excused       \* collections that were touched, since they were last loaded
                  \* undisturbed, by a failure, an overtaking, or an update
                  \* whose row the list has replaced meanwhile (history)

kitVars == <<page, ui, db, calls, events, faults, excused>>

Collections == {1, 2}
RowStates == 0..3    \* 3: saved from a form that was never filled
flip(v) == IF v = 2 THEN 1 ELSE 2
filled(v) == IF v = 0 THEN 3 ELSE v
Queries == {0, 1}
Kinds == {"list", "get", "create", "update", "save", "delete", "evict", "clear", "purge", "act"}

\* A request: what it does to which row of which collection (kind, col, item,
\* arg), the handler that awaits it (op), the spinners its handler turns off
\* at the end (clears), how it went, whether there is a second page, and
\* whether the row object its handler holds is still the one in the list.
Request(kind, op, col, item, arg, clears) ==
    [kind |-> kind, op |-> op, col |-> col, item |-> item, arg |-> arg,
     clears |-> clears, st |-> "sent", reply |-> None,
     more |-> FALSE, clean |-> TRUE, stale |-> FALSE, held |-> TRUE]

List(op, col, u, clears) == Request("list", op, col, None, u.q, clears)
Get(op, col, i, clears) == Request("get", op, col, i, 0, clears)
Create(op, col, clears) == Request("create", op, col, None, 1, clears)
\* A request that is one of a loop: progress says what the loop has left.
CreateNext(op, col, progress, clears) == Request("create", op, col, progress, 1, clears)
Update(op, col, i, v, clears) == Request("update", op, col, i, v, clears)
Delete(op, col, i, clears) == Request("delete", op, col, i, 0, clears)
DeleteNext(op, col, i, progress, clears) == Request("delete", op, col, i, progress, clears)
Save(op, col, values, clears) == Request("save", op, col, None, values, clears)
Evict(op, col, i, q, clears) == Request("evict", op, col, i, q, clears)
Clear(op, col, q, clears) == Request("clear", op, col, None, q, clears)
Purge(op, col, S, clears) == Request("purge", op, col, None, S, clears)
Act(op, i, clears) == Request("act", op, 1, i, 0, clears)

NoRows == [i \in Items |-> 0]
NoDialog == [kind |-> "none", item |-> None, data |-> 0]

\* The refs of a page as its setup function creates them.
Blank == [q |-> 0,                                  \* filter, keyword, page
          rows |-> [c \in Collections |-> NoRows],  \* what the lists show
          more |-> FALSE,                           \* list 1 has a second page
          asked |-> [c \in Collections |-> None],   \* the query they answer
          spin |-> {},                              \* flags of running handlers
          box |-> NoDialog,                         \* the dialog in front
          form |-> NoRows,                          \* fields of a form page
          sel |-> {},                               \* ticked rows
          tab |-> 1,
          mode |-> "generator",                     \* of a dialog with two faces
          timers |-> {}]                            \* live intervals

Shown(c) == {i \in Items : ui.rows[c][i] # 0}
InFront(k) == ui.box.kind = k
Opened(k, i, v) == [ui EXCEPT !.box = [kind |-> k, item |-> i, data |-> v]]
Closed == [ui EXCEPT !.box = NoDialog]

\* Clicks a template offers: buttons of the page, and of each row.
On(E) == E \X {None}
For(E, S) == E \X S

Flags(S) == UNION {S[k].clears : k \in DOMAIN S}

Pending(cs, c) == \E m \in DOMAIN cs : cs[m].col = c /\ cs[m].kind # "act"

\* The requests of S as they join those already in flight.
Sending(cs, S) ==
    cs \o [k \in DOMAIN S |-> [S[k] EXCEPT !.clean = ~Pending(cs, S[k].col)]]

\* A list that has come replaces the row objects.
Released(cs, c) ==
    [m \in DOMAIN cs |-> IF cs[m].kind = "update" /\ cs[m].col = c
                         THEN [cs[m] EXCEPT !.held = FALSE] ELSE cs[m]]

Distrust(cs, c) ==
    [m \in DOMAIN cs |-> IF cs[m].col = c THEN [cs[m] EXCEPT !.stale = TRUE]
                         ELSE cs[m]]

\* A handler up to its first await: the refs become u, S is sent.
Do(u, S) ==
    /\ ui' = [u EXCEPT !.spin = @ \cup Flags(S)]
    /\ calls' = Sending(calls, S)

\* The rest of the handler that awaited calls[n].  Its finally blocks turn
\* off the spinners it turned on, unless it goes on to await S under them.
Then(n, u, S) ==
    LET c == calls[n]
        late == c.kind # "act" /\ \/ c.st = "err" \/ ~c.held
                                  \/ \E m \in 1..(n - 1) : calls[m].col = c.col
        others == RemoveAt(calls, n)
        rest == IF c.kind = "list" /\ c.st = "ok" THEN Released(others, c.col) ELSE others
    IN /\ ui' = [u EXCEPT !.spin = (@ \ c.clears) \cup Flags(S)]
       /\ calls' = Sending(IF late THEN Distrust(rest, c.col) ELSE rest, S)
       /\ excused' = [excused EXCEPT ![c.col] =
              late \/ (@ /\ ~(c.kind = "list" /\ c.clean /\ ~c.stale))]

\* The mutant: a list is merged into the one that is shown.
ListedMerged(n) ==
    LET shown == ui.rows[calls[n].col]
        new == calls[n].reply
    IN [ui EXCEPT !.rows[calls[n].col] = [i \in Items |-> IF new[i] = 0 THEN shown[i] ELSE new[i]],
                  !.asked[calls[n].col] = calls[n].arg]
\* The list that calls[n] has brought.
Listed(n) == [ui EXCEPT !.rows[calls[n].col] = calls[n].reply,
                        !.more = IF calls[n].col = 1 THEN calls[n].more ELSE @,
                        !.asked[calls[n].col] = calls[n].arg]

Ok(n) == calls[n].st = "ok"
Op(n, O) == calls[n].op \in O

\* The mutant: a load takes what it has for a list without a look at the error.
LoadedAnyhow(n) == Then(n, Listed(n), <<>>)
\* A load that on success replaces the list and on failure leaves it.
Loaded(n) == Then(n, IF Ok(n) THEN Listed(n) ELSE ui, <<>>)
\* A failed request that only shows a message.
Failed(n) == ~Ok(n) /\ Then(n, ui, <<>>)

------------------------------------------------------------------------------
\* The server and the network.

\* What a query selects: 0 everything, 1 the rows in state 2, 2 those in 1,
\* 3 one row by its name.  A paged query adds four times the page it asks
\* for, and 16 if pages are large; the second page has what exceeds a small
\* first one, the row overflowing.
textOf(q) == q % 4
pageOf(q) == (q \div 4) % 4
large(q) == q >= 16
overflowing == CHOOSE i \in Items : i # Protected
Matching(c, t) ==
    {i \in Items : /\ db[c][i] # 0
                   /\ \/ t = 0
                      \/ t \in {1, 2} /\ db[c][i] = 3 - t
                      \/ t = 3 /\ i = Protected}
Overflows(c, q) == pageOf(q) > 0 /\ ~large(q) /\ Matching(c, textOf(q)) = Items
Selected(c, q) ==
    IF Overflows(c, q) THEN IF pageOf(q) = 1 THEN Items \ {overflowing} ELSE {overflowing}
    ELSE IF pageOf(q) > 1 THEN {} ELSE Matching(c, textOf(q))
View(c, q) == [i \in Items |-> IF i \in Selected(c, q) THEN db[c][i] ELSE 0]

Executed(c) ==
    \/ c.kind \in {"list", "get", "act"} /\ UNCHANGED db
    \/ /\ c.kind = "create"
       /\ \E i \in Items : /\ db[c.col][i] = 0
                           /\ db' = [db EXCEPT ![c.col][i] = c.arg]
    \/ /\ c.kind = "update" /\ db[c.col][c.item] # 0
       /\ db' = [db EXCEPT ![c.col][c.item] = c.arg]
    \/ /\ c.kind = "delete" /\ db[c.col][c.item] # 0
       /\ db' = [db EXCEPT ![c.col][c.item] = 0]
    \/ /\ c.kind = "save"              \* several rows; arg is 0 where untouched
       /\ db' = [db EXCEPT ![c.col] =
                    [i \in Items |-> IF c.arg[i] = 0 THEN @[i] ELSE c.arg[i]]]
    \/ /\ c.kind = "evict"             \* a row, if the query selects it
       /\ db' = [db EXCEPT ![c.col][c.item] =
                    IF View(c.col, c.arg)[c.item] = 0 THEN @ ELSE 0]
    \/ /\ c.kind = "purge"             \* the rows named
       /\ db' = [db EXCEPT ![c.col] = [i \in Items |-> IF i \in c.arg THEN 0 ELSE @[i]]]
    \/ /\ c.kind = "clear"             \* every row the query selects
       /\ db' = [db EXCEPT ![c.col] =
                    [i \in Items |-> IF View(c.col, c.arg)[i] = 0 THEN @[i] ELSE 0]]

Answer(c) ==
    IF c.kind = "list" THEN View(c.col, c.arg)
    ELSE IF c.kind = "create"       \* the new row
    THEN CHOOSE i \in Items : db[c.col][i] = 0 /\ db'[c.col][i] # 0
    ELSE IF c.item = None THEN None ELSE db'[c.col][c.item]

\* The request reaches the server; its answer may still be lost (a timeout
\* of 30 s, a broken connection).
Serve(n) ==
    /\ calls[n].st = "sent"
    /\ Executed(calls[n])
    /\ LET c == calls[n]
           early == c.kind # "act" /\ \E m \in 1..(n - 1) :
                        calls[m].col = c.col /\ calls[m].st = "sent"
           cs == IF early THEN Distrust(calls, c.col) ELSE calls
       IN /\ \E st \in {"ok", "err"} :
               /\ st = "err" => faults < MaxFaults[page]
               /\ calls' = [cs EXCEPT ![n].st = st, ![n].reply = Answer(c),
                                     ![n].more = c.kind = "list" /\ Overflows(c.col, c.arg)]
               /\ faults' = IF st = "err" THEN faults + 1 ELSE faults
          /\ excused' = [excused EXCEPT ![c.col] = @ \/ early]
    /\ UNCHANGED <<page, ui, events>>

\* It is refused, or never gets there.
Refuse(n) ==
    /\ calls[n].st = "sent"
    /\ faults < MaxFaults[page]
    /\ calls' = [calls EXCEPT ![n].st = "err"]
    /\ faults' = faults + 1
    /\ UNCHANGED <<page, ui, db, events, excused>>

\* The row it names is gone.
NotFound(n) ==
    /\ calls[n].st = "sent"
    /\ calls[n].kind \in {"update", "delete"}
    /\ db[calls[n].col][calls[n].item] = 0
    /\ calls' = [calls EXCEPT ![n].st = "err"]
    /\ UNCHANGED <<page, ui, db, events, faults, excused>>

\* The user leaves: the component's refs go, and with them whatever answers
\* still to come would have changed.
Leave ==
    /\ page # None
    /\ page' = None
    /\ ui' = Blank
    /\ calls' = <<>>
    /\ UNCHANGED <<db, events, faults, excused>>

Network == \E n \in DOMAIN calls :
    Serve(n) \/ Refuse(n) \/ NotFound(n)

==============================================================================
