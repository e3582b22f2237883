----------------------------- MODULE FeedProofs -----------------------------
(***************************************************************************)
(* Proofs about Feed for any readers, authors, timestamps, IDs and limits. *)
(*                                                                         *)
(* NoSkip and NoRepeat speak of a finished or growing scroll; what carries *)
(* them from page to page is CursorSeparates: among the posts given or     *)
(* still owed, the given ones are those not older than the cursor.         *)
(***************************************************************************)
EXTENDS Feed, FiniteSetTheorems, TLAPS

\* (created_at, id) orders positions strictly.
LEMMA NewerOrder ==
    /\ \A p \in Position : ~Newer(p, p)
    /\ \A p, q, s \in Position : Newer(p, q) /\ Newer(q, s) => Newer(p, s)
<1>1. ASSUME NEW p \in Position PROVE p.at \in Int /\ p.id \in Int
  <2>1. p.at \in Times /\ p.id \in Ids
    BY DEF Position
  <2>2. p.at \in Nat /\ p.id \in Nat
    BY <2>1, OrderAssumption
  <2> QED
    BY <2>2
<1> QED
  BY <1>1 DEF Newer

\* Encoding and decoding a cursor gives the position back.
LEMMA CursorExact == \A p \in Position : CursorOf(p) = p
BY DEF CursorOf, Position

\* Adding a page that repeats nothing adds its size to the count.
LEMMA DisjointPage ==
    ASSUME NEW G, NEW P, IsFiniteSet(G), IsFiniteSet(P), G \cap P = {}
    PROVE  /\ IsFiniteSet(G \cup P)
           /\ Cardinality(G \cup P) = Cardinality(G) + Cardinality(P)
<1>1. Cardinality(G \cap P) = 0
  BY FS_EmptySet
<1>2. Cardinality(G) \in Nat /\ Cardinality(P) \in Nat
  BY FS_CardinalityType
<1>3. /\ IsFiniteSet(G \cup P)
      /\ Cardinality(G \cup P) =
            Cardinality(G) + Cardinality(P) - Cardinality(G \cap P)
  BY FS_Union, Zenon
<1> QED
  BY <1>1, <1>2, <1>3

\* Nobody scrolls at first.
LEMMA InitScroll == Init => ScrollInv
<1> SUFFICES ASSUME Init PROVE ScrollInv
  OBVIOUS
<1>1. /\ NotScrolling \in Scan /\ NotScrolling.state = "off"
      /\ NotScrolling.got = {} /\ NotScrolling.count = 0
      /\ NotScrolling.owed = {}
  BY DEF NotScrolling, Scan
<1>2. \A r \in Readers : scan[r] = NotScrolling
  BY DEF Init
<1>3. IsFiniteSet({}) /\ Cardinality({}) = 0
  BY FS_EmptySet
<1>4. TypeOK /\ OwedExists
  BY <1>1, <1>2, <1>3 DEF Init, TypeOK, OwedExists
<1>5. NoRepeat
  BY <1>1, <1>2, <1>3 DEF NoRepeat
<1>6. CursorSeparates /\ NoSkip /\ OnlyTheAuthor
  BY <1>1, <1>2 DEF CursorSeparates, NoSkip, OnlyTheAuthor
<1> QED
  BY <1>4, <1>5, <1>6 DEF ScrollInv

\* New posts change no scroll, and deleted ones are owed to nobody.
LEMMA WriteScroll ==
    ASSUME ScrollInv, NEW p \in Position, CreatePost(p) \/ DeletePost(p)
    PROVE  ScrollInv'
<1> USE DEF ScrollInv
<1>1. CASE CreatePost(p)
  <2>1. IsFiniteSet(posts')
    BY <1>1, FS_AddElement DEF CreatePost, OwedExists
  <2>2. (TypeOK /\ OwedExists)'
    BY <1>1, <2>1 DEF CreatePost, TypeOK, OwedExists, Shown, Position
  <2>3. (CursorSeparates /\ NoRepeat /\ NoSkip /\ OnlyTheAuthor)'
    BY <1>1 DEF CreatePost, CursorSeparates, NoRepeat, NoSkip, OnlyTheAuthor,
       Shown
  <2> QED
    BY <2>2, <2>3
<1>2. CASE DeletePost(p)
  <2>1. IsFiniteSet(posts')
    BY <1>2, FS_RemoveElement DEF DeletePost, OwedExists
  <2>2. \A r \in Readers :
            /\ scan'[r].state = scan[r].state
            /\ scan'[r].filter = scan[r].filter
            /\ scan'[r].cursor = scan[r].cursor
            /\ scan'[r].got = scan[r].got
            /\ scan'[r].count = scan[r].count
            /\ scan'[r].owed = scan[r].owed \ {p}
    BY <1>2 DEF DeletePost, TypeOK, Scan
  <2>3. TypeOK'
    BY <1>2 DEF DeletePost, TypeOK, Scan
  <2>4. OwedExists'
    BY <1>2, <2>1, <2>2 DEF DeletePost, OwedExists, Shown
  <2>5. CursorSeparates'
    BY <2>2 DEF CursorSeparates
  <2>6. NoRepeat'
    BY <2>2 DEF NoRepeat
  <2>7. (NoSkip /\ OnlyTheAuthor)'
    BY <1>2, <2>2 DEF DeletePost, NoSkip, OnlyTheAuthor, Shown
  <2> QED
    BY <2>3, <2>4, <2>5, <2>6, <2>7
<1> QED
  BY <1>1, <1>2

\* A new scroll has been given nothing and is owed what is there.
LEMMA BeginScroll ==
    ASSUME ScrollInv, NEW r \in Readers, NEW f \in Authors \cup {Everyone},
           Begin(r, f)
    PROVE  ScrollInv'
<1> USE DEF ScrollInv
<1> DEFINE q == [NotScrolling EXCEPT !.state = "on", !.filter = f,
                    !.owed = {p \in posts : Shown(p, f)}]
<1>1. /\ q \in Scan
      /\ q.state = "on" /\ q.filter = f /\ q.cursor = NoCursor
      /\ q.got = {} /\ q.count = 0
      /\ q.owed = {p \in posts : Shown(p, f)}
  BY DEF NotScrolling, Scan, TypeOK
<1>2. scan' = [scan EXCEPT ![r] = q] /\ UNCHANGED <<posts, author, created>>
  BY DEF Begin
<1> HIDE DEF q
<1>3. TypeOK'
  BY <1>1, <1>2 DEF TypeOK
<1>4. scan'[r] = q /\ \A s \in Readers : s # r => scan'[s] = scan[s]
  BY <1>2 DEF TypeOK
<1>5. OwedExists'
  BY <1>1, <1>2, <1>4, FS_EmptySet DEF OwedExists, Shown
<1>6. CursorSeparates'
  BY <1>1, <1>4 DEF CursorSeparates
<1>7. NoRepeat'
  BY <1>1, <1>4, FS_EmptySet DEF NoRepeat
<1>8. (NoSkip /\ OnlyTheAuthor)'
  BY <1>1, <1>2, <1>4 DEF NoSkip, OnlyTheAuthor, Shown
<1> QED
  BY <1>3, <1>5, <1>6, <1>7, <1>8

\* The fields a page changes keep the type of a scroll.
LEMMA LastUpdate ==
    ASSUME NEW z \in Scan, NEW g \in SUBSET Position, NEW c \in Nat
    PROVE  [z EXCEPT !.state = "done", !.got = g, !.count = c] \in Scan
  BY DEF Scan

\* The same for a page that is not the last one.
LEMMA PageUpdate ==
    ASSUME NEW z \in Scan, NEW p \in Position, NEW g \in SUBSET Position,
           NEW c \in Nat
    PROVE  [z EXCEPT !.cursor = p, !.got = g, !.count = c] \in Scan
  BY DEF Scan

\* A page gives the newest of what is left and moves the cursor to its end.
LEMMA PageScroll ==
    ASSUME ScrollInv, NEW r \in Readers, NEW l \in Limits, NextPage(r, l)
    PROVE  ScrollInv'
<1> USE DEF ScrollInv
<1> DEFINE A == Matching(scan[r].filter, scan[r].cursor)
           n == Normalise(l)
<1>1. scan[r] \in Scan /\ scan[r].state = "on"
      /\ UNCHANGED <<posts, author, created>>
  BY DEF NextPage, TypeOK
<1>2. A \subseteq posts /\ A \subseteq Position /\ IsFiniteSet(A)
  BY FS_Subset DEF Matching, OwedExists, TypeOK
<1>3. A \cap scan[r].got = {}
  BY <1>1 DEF Matching, CursorSeparates
<1>4. scan[r].owed \subseteq scan[r].got \cup A
  BY <1>1 DEF Matching, CursorSeparates, OwedExists
<1>5. \A p \in A : Shown(p, scan[r].filter)
  BY DEF Matching
<1>6. IsFiniteSet(scan[r].got) /\ scan[r].got \subseteq Position
  BY <1>1 DEF OwedExists, Scan
<1>7. CASE LastPage(A, n) /\ scan' = [scan EXCEPT ![r].state = "done",
                ![r].got = @ \cup A, ![r].count = @ + Cardinality(A)]
  <2>1. /\ scan'[r].state = "done" /\ scan'[r].filter = scan[r].filter
        /\ scan'[r].got = scan[r].got \cup A
        /\ scan'[r].count = scan[r].count + Cardinality(A)
        /\ scan'[r].owed = scan[r].owed
        /\ \A s \in Readers : s # r => scan'[s] = scan[s]
    BY <1>1, <1>7 DEF TypeOK, Scan
  <2>2. TypeOK'
    <3>1. Cardinality(A) \in Nat
      BY <1>2, FS_CardinalityType
    <3> DEFINE e == [scan[r] EXCEPT !.state = "done", !.got = @ \cup A,
                                    !.count = @ + Cardinality(A)]
    <3> HIDE DEF A
    <3>2. scan' = [scan EXCEPT ![r] = e]
      BY <1>7 DEF TypeOK
    <3>3. scan[r].got \cup A \in SUBSET Position
      BY <1>2, <1>6
    <3>4. scan[r].count + Cardinality(A) \in Nat
      BY <1>1, <3>1 DEF Scan
    <3>5. e \in Scan
      BY <1>1, <3>3, <3>4, LastUpdate
    <3> HIDE DEF e
    <3> QED
      BY <1>1, <3>2, <3>5 DEF TypeOK
  <2>3. /\ IsFiniteSet(scan'[r].got)
        /\ scan'[r].count = Cardinality(scan'[r].got)
    BY <1>2, <1>3, <1>6, <2>1, DisjointPage DEF NoRepeat
  <2> HIDE DEF A
  <2>4. OwedExists'
    BY <1>1, <2>1, <2>3 DEF OwedExists, Shown
  <2>5. NoRepeat'
    BY <2>1, <2>3 DEF NoRepeat
  <2>6. NoSkip'
    BY <1>4, <2>1 DEF NoSkip
  <2>7. OnlyTheAuthor'
    BY <1>1, <1>5, <2>1 DEF OnlyTheAuthor, Shown
  <2>8. CursorSeparates'
    BY <2>1 DEF CursorSeparates
  <2> QED
    BY <2>2, <2>4, <2>5, <2>6, <2>7, <2>8
<1>8. ASSUME NEW P \in SUBSET A, NEW last \in P,
             IsNewest(P, A, n), IsOldest(last, P),
             scan' = [scan EXCEPT ![r].cursor = CursorOf(last),
                        ![r].got = @ \cup P, ![r].count = @ + n]
      PROVE  ScrollInv'
  <2>1. last \in Position /\ CursorOf(last) = last /\ last # NoCursor
    BY <1>2, CursorExact, CursorAssumption
  <2>2. IsFiniteSet(P) /\ Cardinality(P) = n /\ n \in Nat
    BY <1>2, <1>8, FS_Subset, FS_CardinalityType DEF IsNewest
  <2>3. /\ scan'[r].state = "on" /\ scan'[r].filter = scan[r].filter
        /\ scan'[r].cursor = last
        /\ scan'[r].got = scan[r].got \cup P
        /\ scan'[r].count = scan[r].count + n
        /\ scan'[r].owed = scan[r].owed
        /\ \A s \in Readers : s # r => scan'[s] = scan[s]
    BY <1>1, <1>8, <2>1 DEF TypeOK, Scan
  <2> HIDE DEF A, n
  <2>4. TypeOK'
    <3> DEFINE e == [scan[r] EXCEPT !.cursor = CursorOf(last),
                                    !.got = @ \cup P, !.count = @ + n]
    <3>1. scan' = [scan EXCEPT ![r] = e]
      BY <1>8 DEF TypeOK
    <3>2. scan[r].got \cup P \in SUBSET Position
      BY <1>2, <1>6
    <3>3. scan[r].count + n \in Nat
      BY <1>1, <2>2 DEF Scan
    <3>4. e \in Scan
      BY <1>1, <2>1, <3>2, <3>3, PageUpdate
    <3> HIDE DEF e
    <3> QED
      BY <1>1, <3>1, <3>4 DEF TypeOK
  <2>5. /\ IsFiniteSet(scan'[r].got)
        /\ scan'[r].count = Cardinality(scan'[r].got)
    <3>1. scan[r].got \cap P = {}
      BY <1>3
    <3>2. /\ IsFiniteSet(scan[r].got \cup P)
          /\ Cardinality(scan[r].got \cup P) =
                Cardinality(scan[r].got) + Cardinality(P)
      BY <1>6, <2>2, <3>1, DisjointPage, Zenon
    <3> QED
      BY <2>2, <2>3, <3>2 DEF NoRepeat
  <2>6. ASSUME NEW p \in scan[r].got PROVE ~Newer(last, p)
    <3>1. scan[r].cursor \in Position /\ ~Newer(scan[r].cursor, p)
      BY <1>1 DEF CursorSeparates, Scan
    <3>2. Newer(scan[r].cursor, last)
      BY <3>1, CursorAssumption DEF Matching, A
    <3> QED
      BY <1>6, <2>1, <3>1, <3>2, NewerOrder
  <2>7. ASSUME NEW p \in P PROVE ~Newer(last, p)
    BY <1>2, <1>8, <2>1, NewerOrder DEF IsOldest
  <2>8. ASSUME NEW p \in scan[r].owed, p \notin scan[r].got \cup P
        PROVE  Newer(last, p)
    BY <1>4, <1>8, <2>8 DEF IsNewest
  <2>9. CursorSeparates'
    BY <2>1, <2>3, <2>6, <2>7, <2>8 DEF CursorSeparates
  <2>10. OwedExists'
    BY <1>1, <2>3, <2>5 DEF OwedExists, Shown
  <2>11. NoRepeat'
    BY <2>3, <2>5 DEF NoRepeat
  <2>12. (NoSkip /\ OnlyTheAuthor)'
    BY <1>1, <1>5, <2>3 DEF NoSkip, OnlyTheAuthor, Shown
  <2> QED
    BY <2>4, <2>9, <2>10, <2>11, <2>12
<1> QED
  BY <1>7, <1>8 DEF NextPage

\* The cursor separates given from owed in every reachable state.
THEOREM ScrollSafety == Spec => []ScrollInv
<1>1. Init => ScrollInv
  BY InitScroll
<1>2. ScrollInv /\ [Next]_vars => ScrollInv'
  <2>1. CASE UNCHANGED vars
    BY <2>1 DEF vars, ScrollInv, TypeOK, CursorSeparates, OwedExists, NoRepeat,
       NoSkip, OnlyTheAuthor, Shown
  <2> QED
    BY <2>1, WriteScroll, BeginScroll, PageScroll DEF Next
<1> QED
  BY <1>1, <1>2, PTL DEF Spec

\* Scrolling never shows a post twice.
THEOREM RepeatSafety == Spec => []NoRepeat
BY ScrollSafety, PTL DEF ScrollInv

\* Scrolling to the end shows every post that was there all along.
THEOREM SkipSafety == Spec => []NoSkip
BY ScrollSafety, PTL DEF ScrollInv

\* The posts of a profile are its author's, on every page.
THEOREM AuthorSafety == Spec => []OnlyTheAuthor
BY ScrollSafety, PTL DEF ScrollInv

\* Two different positions are ordered one way or the other.
LEMMA NewerTotal ==
    ASSUME NEW p \in Position, NEW q \in Position, ~Newer(p, q)
    PROVE  p = q \/ Newer(q, p)
<1>1. /\ p.at \in Times /\ p.id \in Ids /\ q.at \in Times /\ q.id \in Ids
      /\ p.at = q.at /\ p.id = q.id => p = q
  BY DEF Position
<1>2. p.at \in Nat /\ p.id \in Nat /\ q.at \in Nat /\ q.id \in Nat
  BY <1>1, OrderAssumption
<1> QED
  BY <1>1, <1>2 DEF Newer

\* What matches is older than all that was given.
LEMMA MatchingOlder ==
    ASSUME ScrollInv, NEW r \in Readers, scan[r].state = "on",
           NEW p \in Matching(scan[r].filter, scan[r].cursor),
           NEW q \in scan[r].got
    PROVE  Newer(q, p)
<1>1. /\ scan[r].cursor # NoCursor /\ ~Newer(scan[r].cursor, q)
      /\ scan[r] \in Scan
  BY DEF ScrollInv, CursorSeparates, TypeOK
<1>2. scan[r].cursor \in Position /\ q \in Position /\ p \in Position
  BY <1>1 DEF ScrollInv, TypeOK, Scan, Matching
<1>3. Newer(scan[r].cursor, p)
  BY <1>1 DEF Matching
<1>4. scan[r].cursor = q \/ Newer(q, scan[r].cursor)
  BY <1>1, <1>2, NewerTotal
<1> QED
  BY <1>2, <1>3, <1>4, NewerOrder

\* Within a page order is the query's; from page to page it is the cursor's.
THEOREM DescentSafety == Spec => PagesDescend
<1> DEFINE Down(r) ==
      scan[r].state = "on" /\ scan'[r].count > scan[r].count =>
        /\ \A p \in scan'[r].got \ scan[r].got, q \in scan[r].got : Newer(q, p)
        /\ \/ scan'[r].state = "done" \/ scan[r].cursor = NoCursor
           \/ Newer(scan[r].cursor, scan'[r].cursor)
<1>1. ASSUME ScrollInv, [Next]_vars, NEW r \in Readers PROVE Down(r)
  <2>0. scan \in [Readers -> Scan] /\ scan[r].count \in Nat
    BY <1>1 DEF ScrollInv, TypeOK, Scan
  <2>1. ASSUME NEW p \in Position, CreatePost(p) \/ DeletePost(p)
        PROVE  scan'[r].count = scan[r].count
    BY <2>0, <2>1 DEF CreatePost, DeletePost, Scan
  <2>2. ASSUME NEW s \in Readers, NEW f \in Authors \cup {Everyone}, Begin(s, f)
        PROVE  scan'[r].count \in {0, scan[r].count}
    BY <2>0, <2>2 DEF Begin, NotScrolling
  <2>3. ASSUME NEW s \in Readers, NEW l \in Limits, NextPage(s, l), s # r
        PROVE  scan'[r] = scan[r]
    BY <2>0, <2>3 DEF NextPage
  <2>4. ASSUME NEW l \in Limits, NextPage(r, l)
        PROVE  Down(r)
    <3>1. PICK A : A = Matching(scan[r].filter, scan[r].cursor)
      OBVIOUS
    <3>2. scan[r] \in Scan /\ scan[r].state = "on"
      BY <2>0, <2>4 DEF NextPage
    <3>3. \A p \in A, q \in scan[r].got : Newer(q, p)
      BY <1>1, <3>1, <3>2, MatchingOlder
    <3>4. CASE scan' = [scan EXCEPT ![r].state = "done", ![r].got = @ \cup A,
                          ![r].count = @ + Cardinality(A)]
      <4>1. scan'[r].got = scan[r].got \cup A /\ scan'[r].state = "done"
        BY <2>0, <3>2, <3>4 DEF Scan
      <4> QED
        BY <3>3, <4>1
    <3>5. ASSUME NEW P \in SUBSET A, NEW last \in P,
                 scan' = [scan EXCEPT ![r].cursor = CursorOf(last),
                            ![r].got = @ \cup P,
                            ![r].count = @ + Normalise(l)]
          PROVE  Down(r)
      <4>1. last \in posts /\ posts \subseteq Position
        BY <1>1, <3>1, <3>5 DEF Matching, ScrollInv, TypeOK
      <4>2. scan'[r].got = scan[r].got \cup P /\ scan'[r].cursor = last
        BY <2>0, <3>2, <3>5, <4>1, CursorExact DEF Scan
      <4>3. scan[r].cursor # NoCursor => Newer(scan[r].cursor, last)
        BY <3>1 DEF Matching
      <4> QED
        BY <3>3, <4>2, <4>3
    <3> QED
      BY <2>4, <3>1, <3>4, <3>5 DEF NextPage
  <2>5. CASE UNCHANGED vars
    BY <2>0, <2>5 DEF vars
  <2>6. CASE Next
    <3>1. scan'[r].count \in {0, scan[r].count} => Down(r)
      BY <2>0
    <3> HIDE DEF Down
    <3> QED
      BY <2>1, <2>2, <2>3, <2>4, <2>6, <3>1 DEF Next
  <2> QED
    BY <1>1, <2>5, <2>6
<1>2. ScrollInv /\ [Next]_vars => [\A r \in Readers : Down(r)]_vars
  BY <1>1
<1> QED
  BY <1>2, ScrollSafety, PTL DEF Spec, PagesDescend
=============================================================================
