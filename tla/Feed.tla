-------------------------------- MODULE Feed --------------------------------
(***************************************************************************)
(* Keyset pagination of the feed and of a profile's posts: the page        *)
(* function of internal/store/postgres/posts.go (memory.go mirrors it),    *)
(* the cursor of internal/store/cursor.go and the limit handling of        *)
(* pageRequest, read by clients that scroll while others post and delete.  *)
(*                                                                         *)
(* A page is a set here; its order is the total order Newer.  One query is *)
(* one statement, hence one step.                                          *)
(***************************************************************************)
EXTENDS Integers, FiniteSets

CONSTANTS
    Readers,       \* clients scrolling
    Authors,
    Everyone,      \* the filter of GET /v1/posts
    Times,         \* created_at values, at full precision
    Ids,           \* post IDs; random, so unrelated to time
    Limits,        \* limit parameters clients send; 0 stands for none
    DefaultLimit, MaxLimit,
    NoCursor

ASSUME OrderAssumption == Times \subseteq Nat /\ Ids \subseteq Nat
ASSUME LimitAssumption ==
    /\ Limits \subseteq Nat
    /\ DefaultLimit \in Nat \ {0} /\ MaxLimit \in Nat \ {0}
    /\ DefaultLimit <= MaxLimit

Position == [at : Times, id : Ids]
ASSUME CursorAssumption == NoCursor \notin Position
ASSUME FilterAssumption == Everyone \notin Authors

VARIABLES
    posts,       \* the positions of the posts that exist
    author,      \* id -> author_id
    created,     \* IDs ever used
    scan         \* reader -> its scroll

vars == <<posts, author, created, scan>>

\* What a reader has: its filter, the cursor to send next, whether it scrolls
\* at all; and as history what it was given, how many items that was, and
\* which posts existed since it began.
Scan == [state : {"off", "on", "done"}, filter : Authors \cup {Everyone},
         cursor : Position \cup {NoCursor}, got : SUBSET Position,
         count : Nat, owed : SUBSET Position]

NotScrolling == [state |-> "off", filter |-> Everyone, cursor |-> NoCursor,
                 got |-> {}, count |-> 0, owed |-> {}]

Init ==
    /\ posts = {}
    /\ author \in [Ids -> Authors]
    /\ created = {}
    /\ scan = [r \in Readers |-> NotScrolling]

-----------------------------------------------------------------------------
\* (p.created_at, p.id) > (q.created_at, q.id).
Newer(p, q) == p.at > q.at \/ (p.at = q.at /\ p.id > q.id)

\* EncodeCursor then DecodeCursor: RFC 3339 with nanoseconds in UTC and the
\* ID, so the position comes back exactly.  (The createdAt of a response is
\* cut to milliseconds; a cursor built from that would not.)
CursorCutShort(p) == [at |-> (p.at \div 2) * 2, id |-> p.id]
CursorOf(p) == [at |-> p.at, id |-> p.id]

\* PageRequest.Normalise.
Normalise(limit) ==
    IF limit <= 0 THEN DefaultLimit
    ELSE IF limit > MaxLimit THEN MaxLimit ELSE limit

Shown(p, filter) == filter = Everyone \/ author[p.id] = filter

\* The rows the WHERE clause leaves.
IncludingCursor(filter, cursor) ==
    {p \in posts : Shown(p, filter) /\ (cursor = NoCursor \/ ~Newer(p, cursor))}
Matching(filter, cursor) ==
    {p \in posts : Shown(p, filter) /\ (cursor = NoCursor \/ Newer(cursor, p))}

\* ORDER BY ... DESC LIMIT n.
IsNewest(P, A, n) ==
    /\ P \subseteq A
    /\ Cardinality(P) = n
    /\ \A p \in P, q \in A \ P : Newer(p, q)

IsOldest(p, P) == p \in P /\ \A q \in P \ {p} : Newer(q, p)

\* There is a next page when the query for limit + 1 rows returned them all.
LastPage(A, n) == Cardinality(A) <= n

-----------------------------------------------------------------------------
\* Posts().Create.  created_at is when the statement began: it may be older
\* than that of a post already visible.
CreatePost(p) ==
    /\ p.id \notin created
    /\ created' = created \cup {p.id}
    /\ posts' = posts \cup {p}
    /\ UNCHANGED <<author, scan>>

\* Posts().Delete by the author.
DeletePost(p) ==
    /\ p \in posts
    /\ posts' = posts \ {p}
    /\ scan' = [r \in Readers |-> [scan[r] EXCEPT !.owed = @ \ {p}]]
    /\ UNCHANGED <<author, created>>

\* A client begins at the top, or starts over.
Begin(r, filter) ==
    /\ scan' = [scan EXCEPT ![r] =
                  [NotScrolling EXCEPT !.state = "on", !.filter = filter,
                     !.owed = {p \in posts : Shown(p, filter)}]]
    /\ UNCHANGED <<posts, author, created>>

\* The request for the next page, with any limit the client likes.
NextPage(r, limit) ==
    /\ scan[r].state = "on"
    /\ LET A == Matching(scan[r].filter, scan[r].cursor)
           n == Normalise(limit)
       IN \/ /\ LastPage(A, n)
             /\ scan' = [scan EXCEPT ![r].state = "done",
                           ![r].got = @ \cup A,
                           ![r].count = @ + Cardinality(A)]
          \/ /\ ~LastPage(A, n)
             /\ \E P \in SUBSET A : \E last \in P :
                 /\ IsNewest(P, A, n) /\ IsOldest(last, P)
                 /\ scan' = [scan EXCEPT ![r].cursor = CursorOf(last),
                               ![r].got = @ \cup P,
                               ![r].count = @ + n]
    /\ UNCHANGED <<posts, author, created>>

Next ==
    \/ \E p \in Position : CreatePost(p) \/ DeletePost(p)
    \/ \E r \in Readers, f \in Authors \cup {Everyone} : Begin(r, f)
    \/ \E r \in Readers, l \in Limits : NextPage(r, l)

Spec == Init /\ [][Next]_vars

-----------------------------------------------------------------------------
\* Properties.

\* Every variable keeps its type.
TypeOK ==
    /\ posts \subseteq Position
    /\ author \in [Ids -> Authors]
    /\ created \subseteq Ids
    /\ scan \in [Readers -> Scan]

\* Scrolling never shows a post twice, however many posts arrive or disappear
\* between two pages.
NoRepeat == \A r \in Readers : scan[r].count = Cardinality(scan[r].got)

\* Scrolling to the end skips nothing: every post that was there at the
\* beginning and was not deleted meanwhile was shown.
NoSkip == \A r \in Readers : scan[r].state = "done" => scan[r].owed \subseteq scan[r].got

\* A profile shows only posts of its author.
OnlyTheAuthor ==
    \A r \in Readers : \A p \in scan[r].got : Shown(p, scan[r].filter)

\* Pages only go down: all that a page adds is older than everything the
\* reader was given before, and every page but the last moves the cursor to an
\* older post, so neither posts that appear late with an early created_at nor
\* deleted ones make a scroll jump back or stand still.
PagesDescend ==
    [][\A r \in Readers :
        scan[r].state = "on" /\ scan'[r].count > scan[r].count =>
            /\ \A p \in scan'[r].got \ scan[r].got, q \in scan[r].got : Newer(q, p)
            /\ \/ scan'[r].state = "done" \/ scan[r].cursor = NoCursor
               \/ Newer(scan[r].cursor, scan'[r].cursor)]_vars

\* The inductive form: the cursor separates what was given from what is still
\* to come.
CursorSeparates ==
    \A r \in Readers : scan[r].state = "on" =>
        \A p \in scan[r].got \cup scan[r].owed :
            p \in scan[r].got <=> /\ scan[r].cursor # NoCursor
                                  /\ ~Newer(scan[r].cursor, p)

\* What is owed exists and passes the filter; all sets are finite.
OwedExists ==
    /\ IsFiniteSet(posts)
    /\ \A r \in Readers :
        /\ IsFiniteSet(scan[r].got)
        /\ scan[r].owed \subseteq posts
        /\ \A p \in scan[r].owed : Shown(p, scan[r].filter)

ScrollInv ==
    /\ TypeOK /\ CursorSeparates /\ OwedExists
    /\ NoRepeat /\ NoSkip /\ OnlyTheAuthor
=============================================================================
