------------------------------- MODULE Paging -------------------------------
(***************************************************************************)
(* How a worker of the agent reads a tool result that does not fit into    *)
(* one reply: _exec_tool (agent_v2.py) keeps one cache entry per call,     *)
(* page_result (utils.py) cuts the next page out of it.  Workers run in    *)
(* parallel and share the cache; the entry is looked up before the tool    *)
(* runs and used under page_lock after it returned.                        *)
(*                                                                         *)
(* One call (a tool with its arguments) is modelled, any number of workers *)
(* make it.  A result maps its pageable fields to the lists of their rows' *)
(* sizes; Base is what every page repeats.                                 *)
(***************************************************************************)
EXTENDS Integers, Sequences, FiniteSets, FiniteSetsExt, SequencesExt

CONSTANTS Workers,   \* the workers of a round
          Results,   \* what the tool may return for this call
          Base, Cap, \* size of what is not paged; SENT_CAP
          MaxTurns,  \* turns of the loop that makes a page fit; 400
          MaxPage    \* bound: pages asked for

ASSUME PagesAssumption ==
    Base \in Nat /\ Cap \in Nat /\ MaxPage \in Nat \ {0} /\ MaxTurns \in Nat \ {0}

(* Fields are numbered in the order in which the result names them.        *)
ASSUME ResultsAssumption ==
    \A res \in Results : /\ DOMAIN res \subseteq Nat /\ IsFiniteSet(DOMAIN res)
                         /\ res = [f \in DOMAIN res |-> res[f]]
                         /\ \A f \in DOMAIN res : res[f] \in Seq(Nat)

VARIABLES entries,  \* the cache entries made so far: [res, offsets, last]
          cache,    \* CTX.page_cache of this call: an entry, 0 if none
          call,     \* per worker, the call between lookup and page
          view      \* history: what a worker was shown since its page 1

pageVars == <<entries, cache, call, view>>

NoCall == [page |-> 0, entry |-> 0, res |-> <<>>]

(* of: the entry its page 1 came from; seen: the rows shown per field, in  *)
(* order; told: "there is nothing more to ask for"; alone: nobody else and *)
(* no other result came in between.                                        *)
NoView == [of |-> 0, seen |-> <<>>, told |-> FALSE, alone |-> FALSE]

PageTypeOK ==
    /\ \A k \in DOMAIN entries :
           /\ entries[k].res \in Results
           /\ entries[k].last \in 0 .. MaxPage
           /\ \A f \in DOMAIN entries[k].offsets : entries[k].offsets[f] \in Nat
    /\ cache \in 0 .. Len(entries)
    /\ \A w \in Workers : /\ call[w].page \in 0 .. MaxPage
                          /\ call[w].entry \in 0 .. Len(entries)
                          /\ view[w].of \in 0 .. Len(entries)

PageInit ==
    /\ entries = <<>> /\ cache = 0
    /\ call = [w \in Workers |-> NoCall]
    /\ view = [w \in Workers |-> NoView]

-----------------------------------------------------------------------------
Zero(res) == [f \in DOMAIN res |-> 0]

(* A field that no page showed yet is at its first row.                    *)
Cursor(offsets, res) ==
    [f \in DOMAIN offsets \cup DOMAIN res |-> IF f \in DOMAIN offsets THEN offsets[f] ELSE 0]

(* What is left, less than nothing if the rows became fewer.               *)
Remaining(res, offsets) == [f \in DOMAIN res |-> Len(res[f]) - offsets[f]]

(* The next n rows, as many as there are. *)
Chunk(rows, start, n) == SubSeq(rows, start + 1, Min({Len(rows), start + n}))

Total(sizes) == FoldSeq(LAMBDA x, y : x + y, 0, sizes)

(* The size of a page that shows the next take[f] rows of every field, as  *)
(* the loop tests it: without out["_page"], which is added to the page the *)
(* loop ends on, after the test.                                           *)
Size(res, offsets, take) ==
    Base + MapThenSumSet(LAMBDA f : Total(Chunk(res[f], offsets[f], take[f])), DOMAIN res)

(* The first field with the most rows left in the page. *)
Widest(take) == CHOOSE f \in DOMAIN take :
                    \A g \in DOMAIN take : take[g] < take[f] \/ (take[g] = take[f] /\ f <= g)

(* The widest field gives up half of its rows, its last row in the end. *)
Cut(take, f) ==
    [g \in DOMAIN take |-> IF g # f THEN take[g] ELSE IF take[f] <= 1 THEN 0 ELSE take[f] \div 2]

(* Variant: the page is put together again once nothing is left to cut. *)
NothingLeft(take, f) == take = [g \in DOMAIN take |-> 0]

(* The loop gives up when the next cut would leave no row. *)
LastRow(take, f) == Cut(take, f) = [g \in DOMAIN take |-> 0]

(* The rows of the page that the last turn of the loop put together.  A    *)
(* page that fits is kept, and so is one whose cut would leave no row,     *)
(* whatever its size.                                                      *)
Take(res, offsets) ==
    LET Turn[take \in [DOMAIN res -> Int]] ==
            LET f == Widest(take)
            IN IF Size(res, offsets, take) <= Cap \/ LastRow(take, f) THEN take ELSE Cut(take, f)
        Tried[n \in 1 .. MaxTurns] ==
            IF n = 1 THEN Remaining(res, offsets) ELSE Turn[Tried[n - 1]]
    IN Tried[MaxTurns]

(* The rows of every field in the next page, and the cursor after it.      *)
NextRows(res, offsets) ==
    LET Rows[take \in [DOMAIN res -> Int]] ==
            [f \in DOMAIN res |-> Len(Chunk(res[f], offsets[f], take[f]))]
    IN Rows[Take(res, offsets)]

Advanced(offsets, rows) ==
    [f \in DOMAIN offsets |-> IF f \in DOMAIN rows THEN offsets[f] + rows[f] ELSE offsets[f]]

(* Variant: page 1 goes on where the last page ended. *)
PageResultGoesOn(res, page, entry) ==
    LET at   == Cursor(entry.offsets, res)
        rows == NextRows(res, at)
        new  == Advanced(at, rows)
    IN IF page # 1 /\ page # entry.last + 1
       THEN [offsets |-> entry.offsets, last |-> entry.last, rows |-> Zero(res),
             refused |-> TRUE, complete |-> FALSE]
       ELSE [offsets |-> new, last |-> page, rows |-> rows, refused |-> FALSE,
             complete |-> \A f \in DOMAIN res : new[f] >= Len(res[f])]

(* page_result on an entry's state: [offsets, last] after it, the number   *)
(* of rows shown, whether it was refused and whether all has been shown.   *)
PageResult(res, page, entry) ==
    LET old  == IF page = 1 THEN <<>> ELSE entry.offsets
        last == IF page = 1 THEN 0 ELSE entry.last
        at   == Cursor(old, res)
        rows == NextRows(res, at)
        new  == Advanced(at, rows)
    IN CASE res = <<>> ->
              [offsets |-> old, last |-> last, rows |-> <<>>, refused |-> FALSE, complete |-> TRUE]
         [] res # <<>> /\ page # last + 1 ->
              [offsets |-> old, last |-> last, rows |-> Zero(res), refused |-> TRUE,
               complete |-> FALSE]
         [] OTHER ->
              [offsets |-> new, last |-> page, rows |-> rows, refused |-> FALSE,
               complete |-> \A f \in DOMAIN res : new[f] >= Len(res[f])]

-----------------------------------------------------------------------------
(* _exec_tool up to page_lock: a later page of a cached call is taken from *)
(* the cache, every other call runs the tool.                              *)
Lookup(w, p) ==
    /\ call[w] = NoCall
    /\ \E r \in IF cache # 0 /\ p > 1 THEN {entries[cache].res} ELSE Results :
           call' = [call EXCEPT ![w] = [page |-> p, entry |-> cache, res |-> r]]
    /\ UNCHANGED <<entries, cache, view>>

(* What worker w has been shown after this page. *)
Shown(w, e, p) ==
    LET c == call[w]
        rows == [f \in DOMAIN c.res |->
                    [i \in 1 .. p.rows[f] |-> p.offsets[f] - p.rows[f] + i]]
    IN IF c.page = 1
       THEN [of |-> e, seen |-> rows, told |-> p.complete, alone |-> c.res = entries'[e].res]
       ELSE IF p.refused \/ c.res = <<>> \/ view[w].of = 0 THEN view[w]
       ELSE [view[w] EXCEPT !.seen = [f \in DOMAIN rows |->
                                        (IF f \in DOMAIN @ THEN @[f] ELSE <<>>) \o rows[f]],
                            !.told = p.complete,
                            !.alone = @ /\ view[w].of = e]

(* The part of _exec_tool under page_lock. *)
Page(w) ==
    LET c == call[w]
        fresh == c.entry = 0
        e == IF fresh THEN Len(entries) + 1 ELSE c.entry
        old == IF fresh THEN [res |-> c.res, offsets |-> <<>>, last |-> 0]
                        ELSE entries[e]
    IN /\ c # NoCall
       /\ \E p \in {PageResult(c.res, c.page, old)} :
            /\ entries' = IF fresh
                          THEN Append(entries, [old EXCEPT !.offsets = p.offsets, !.last = p.last])
                          ELSE [entries EXCEPT ![e].offsets = p.offsets, ![e].last = p.last]
            /\ view' = [v \in Workers |->
                          IF v = w THEN Shown(w, e, p)
                          ELSE [view[v] EXCEPT !.alone = @ /\ (p.refused \/ view[v].of # e)]]
       /\ cache' = IF fresh THEN e ELSE cache
       /\ call' = [call EXCEPT ![w] = NoCall]

(* What a field was shown as when it was shown whole. *)
Whole(res) == [f \in DOMAIN res |-> [i \in 1 .. Len(res[f]) |-> i]]

(* "You have now seen ALL rows": a worker that is told so has been shown   *)
(* every row exactly once and in order, unless another worker (or another  *)
(* result) used the entry since its page 1.                                *)
ToldOnlyTheTruth ==
    \A w \in Workers : view[w].told /\ view[w].alone =>
        view[w].seen = Whole(entries[view[w].of].res)

(* Worker w is served a page in this step: it was not refused. *)
PageServed(w) ==
    LET c == call[w] IN
    /\ c.page # 0 /\ call'[w].page = 0
    /\ c.page = 1 \/ (c.entry # 0 /\ entries'[c.entry].last # entries[c.entry].last)

CursorBefore(w) ==
    LET c == call[w]
    IN Cursor(IF c.page = 1 THEN <<>> ELSE entries[c.entry].offsets, c.res)

(* The rows of every field it is shown. *)
Served(w) ==
    LET e == IF call[w].entry = 0 THEN Len(entries') ELSE call[w].entry
    IN [f \in DOMAIN call[w].res |-> entries'[e].offsets[f] - CursorBefore(w)[f]]

(* No page showed more rows of a field than the result has now: false      *)
(* once page 1 moved the cursor through another, longer result.            *)
CursorInside(w) ==
    \A f \in DOMAIN call[w].res : CursorBefore(w)[f] <= Len(call[w].res[f])

(* Some row of what is left, also when the next rows are larger than any   *)
(* page.                                                                   *)
ShowsMore(w) ==
    \/ \E f \in DOMAIN Served(w) : Served(w)[f] > 0
    \/ \A f \in DOMAIN Served(w) : CursorBefore(w)[f] >= Len(call[w].res[f])

(* What the result itself takes of a page is within the limit, unless it   *)
(* is a single row, which cannot be cut.  The page that is sent, with its  *)
(* footer out["_page"], may be over it: "bounded to `cap` characters"      *)
(* (utils.py 205) is not what the loop sees to.                            *)
RowsFitCap(w) ==
    \/ Size(call[w].res, CursorBefore(w), Served(w)) <= Cap
    \/ MapThenSumSet(LAMBDA f : Served(w)[f], DOMAIN Served(w)) <= 1

(* A page that is served shows more, and was cut to the limit but for its  *)
(* footer.                                                                 *)
Advances ==
    \A w \in Workers : PageServed(w) /\ CursorInside(w) => ShowsMore(w) /\ RowsFitCap(w)

(* Asking on makes progress, whoever else pages through the same entry.    *)
PagesAdvance == [][Advances]_pageVars
=============================================================================
