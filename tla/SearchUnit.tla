----------------------------- MODULE SearchUnit -----------------------------
(***************************************************************************)
(* A match-making channel (logic/Logic/Search/SearchUnit.cpp).  A person   *)
(* waits with a value and a window of values that he accepts; one timer    *)
(* widens the windows and lowers the number of people asked for, another   *)
(* looks for sets of people whose values lie in all their windows.         *)
(***************************************************************************)
EXTENDS Integers, FiniteSets, SequencesExt

CONSTANTS
  Persons, Vals,                \* who may enter, and with which values
  Models,                       \* SEARCH_MODEL_PARTNER, SEARCH_MODEL_PAIR_GAME
  ValMin, ValMax, CellVal,            \* SearchConfig: range and unit of the values,
  Num, NumMin, Reduce,          \*   people in a set,
  TransfRadio, TransfMax        \*   widening

ASSUME ModelAssumption == Models \subseteq {"partner", "pair"}
\* RegisterSearchChannel refuses num <= 1; deep is an s8; the float reduce is whole here.
ASSUME SearchAssumption ==
  /\ Num \in 2 .. 127 /\ NumMin \in 0 .. Num /\ Reduce \in Nat
  /\ CellVal \in Nat \ {0} /\ TransfRadio \in Nat /\ TransfMax \in 0 .. 127
  /\ ValMin \in Int /\ ValMax \in Int /\ Vals \subseteq ValMin .. ValMax

VARIABLES
  model,        \* _config.model
  individual,   \* _individual: the list, as a sequence of persons
  individualMap,\* _individualMap: its keys
  args,         \* searchArgs of each person
  update,       \* _update
  made,         \* history: the matches that the last step made
  gone          \* history: somebody left or was matched since _update was last set

searchVars == <<model, individual, individualMap, args, update, made, gone>>

Args == [val : Vals, deep : 0 .. TransfMax, begin : Int, end : Int, num : Nat]
Pair == model = "pair"
Sides == IF Pair THEN 2 ELSE 1

InitSearchArgs(val) ==
  LET index == (val - ValMin) \div CellVal
      begin == IF index < 1 THEN ValMin ELSE ValMin + index * CellVal
  IN  [val |-> val, deep |-> 0, num |-> Num * Sides,
       begin |-> begin, end |-> begin + CellVal - 1]

SearchInit ==
  /\ model \in Models
  /\ individual = <<>> /\ individualMap = {} /\ args = <<>>
  /\ update = FALSE
  /\ made = <<>> /\ gone = FALSE

EnterIndividualSearch(p, val) ==
  /\ p \notin individualMap
  /\ individual' = Append(individual, p)
  /\ individualMap' = individualMap \cup {p}
  /\ args' = [q \in individualMap \cup {p} |-> IF q = p THEN InitSearchArgs(val) ELSE args[q]]
  /\ update' = TRUE /\ made' = <<>> /\ gone' = FALSE
  /\ UNCHANGED model

Only(S) == [q \in S |-> args[q]]

\* What `list' has at the places in DOMAIN rank, in the order of their ranks 1, 2, ...
Arranged(list, rank) ==
  [k \in 1 .. Cardinality(DOMAIN rank) |-> list[CHOOSE i \in DOMAIN rank : rank[i] = k]]

\* A list without those in `out'.
Kept(list, out) ==
  LET K == {i \in DOMAIN list : list[i] \notin out}
  IN  Arranged(list, [i \in K |-> Cardinality({j \in K : j <= i})])

\* LeaveIndividualSearchChannel does not set _update.
LeaveIndividualSearchChannel(p) ==
  /\ p \in individualMap
  /\ individual' = Kept(individual, {p})
  /\ individualMap' = individualMap \ {p}
  /\ args' = Only(individualMap \ {p})
  /\ made' = <<>> /\ gone' = TRUE
  /\ UNCHANGED <<model, update>>

(***************************************************************************)
(* ValExpand, the transfer timer.                                          *)
(***************************************************************************)
\* Whether the number of people asked for is lowered, and to what.
Reduces(a) == NumMin # 0 /\ a.num > NumMin /\ ~(Pair /\ a.num <= NumMin * 2)
Reduced(a) == LET n == Num - Reduce * a.deep
              IN  (IF n < NumMin THEN NumMin ELSE n) * Sides

\* In a pair game the window is not widened any more once the number is at its minimum.
Expands(a) == /\ ~(NumMin # 0 /\ a.num > NumMin /\ Pair /\ a.num <= NumMin * 2)
              /\ a.deep < TransfMax

SearchExpand(a) ==
  LET begin == a.begin - TransfRadio * CellVal
      end == a.end + TransfRadio * CellVal
  IN  [a EXCEPT !.begin = IF @ = ValMin THEN @ ELSE IF begin < ValMin THEN ValMin ELSE begin,
                !.end = IF @ = ValMax THEN @ ELSE IF end > ValMax THEN ValMax ELSE end,
                !.deep = @ + 1]

Bug_Updates(a) == Reduces(a)

\* What sets _update.
Updates(a) == Reduces(a) \/ (Expands(a) /\ (a.begin # ValMin \/ a.end # ValMax))

Expanded(a) ==
  LET b == IF Reduces(a) THEN [a EXCEPT !.num = Reduced(a)] ELSE a
  IN  IF Expands(a) THEN SearchExpand(b) ELSE b

ValExpand ==
  LET set == \E p \in individualMap : Updates(args[p])
  IN  /\ args' = [p \in individualMap |-> Expanded(args[p])]
      /\ update' = (update \/ set)
      /\ gone' = (gone /\ ~set)
      /\ made' = <<>>
      /\ UNCHANGED <<model, individual, individualMap>>

(***************************************************************************)
(* FlushSearch, the search timer.  A box is the intersection of the        *)
(* windows of its members, with the range of their values.                 *)
(***************************************************************************)
Bug_Fits(box, a) ==
  LET begin == IF box.begin > a.begin THEN box.begin ELSE a.begin
      end == IF box.end < a.end THEN box.end ELSE a.end
  IN  begin <= a.val /\ a.val <= end

\* The conditions of InsertBox.
Fits(box, a) ==
  LET begin == IF box.begin > a.begin THEN box.begin ELSE a.begin
      end == IF box.end < a.end THEN box.end ELSE a.end
  IN  /\ begin <= box.valBegin /\ box.valEnd <= end
      /\ begin <= a.val /\ a.val <= end

Bug_InsertBox(box, a) ==
  [begin |-> IF box.begin > a.begin THEN box.begin ELSE a.begin,
   end |-> IF box.end < a.end THEN box.end ELSE a.end,
   valBegin |-> IF a.val < box.valBegin THEN a.val ELSE box.valBegin,
   valEnd |-> IF a.val > box.valEnd THEN a.val ELSE box.valEnd,
   num |-> box.num]

InsertBox(box, a) ==
  [begin |-> IF box.begin > a.begin THEN box.begin ELSE a.begin,
   end |-> IF box.end < a.end THEN box.end ELSE a.end,
   valBegin |-> IF a.val < box.valBegin THEN a.val ELSE box.valBegin,
   valEnd |-> IF a.val > box.valEnd THEN a.val ELSE box.valEnd,
   num |-> IF box.num < a.num THEN a.num ELSE box.num]

\* The k-th place that is looked at from place i: one before, one behind, two before ...
Around(i, k) == IF k % 2 = 1 THEN i - (k + 1) \div 2 ELSE i + k \div 2

\* One candidate.  A side is shut as soon as a window on it misses the box; a set is full
\* with Num people after an insertion, and with the number asked for after a refusal.
Visit(s, p, before) ==
  LET a == args[p]
      shut == IF before THEN a.end < s.box.begin ELSE a.begin > s.box.end
      fits == Fits(s.box, a)
      tmp == IF fits THEN Append(s.tmp, p) ELSE s.tmp
  IN  IF shut THEN (IF before THEN [s EXCEPT !.last = FALSE] ELSE [s EXCEPT !.next = FALSE])
      ELSE [s EXCEPT !.tmp = tmp,
                     !.box = IF fits THEN InsertBox(@, a) ELSE @,
                     !.full = Len(tmp) >= (IF fits THEN Num ELSE s.box.num)]

Alone(p) ==
  LET a == args[p]
  IN  [tmp |-> <<p>>, last |-> TRUE, next |-> TRUE, full |-> FALSE,
       box |-> [begin |-> a.begin, end |-> a.end, valBegin |-> a.val, valEnd |-> a.val,
                num |-> a.num]]

Bug_Look(list, removed, i, s, c) ==
  IF \/ c \notin DOMAIN list \/ s.full
     \/ (c < i /\ ~s.last) \/ (c > i /\ ~s.next)
  THEN s ELSE Visit(s, list[c], c < i)

\* The person at place i looks at place c, if there is one and he still goes that way.
Look(list, removed, i, s, c) ==
  IF \/ c \notin DOMAIN list \/ s.full \/ list[c] \in removed
     \/ (c < i /\ ~s.last) \/ (c > i /\ ~s.next)
  THEN s ELSE Visit(s, list[c], c < i)

\* What the person at place i of the list gathers around him.
Gather(list, removed, i) ==
  LET seen[k \in 0 .. 2 * Len(list)] ==
        IF k = 0 THEN Alone(list[i]) ELSE Look(list, removed, i, seen[k - 1], Around(i, k))
  IN  seen[2 * Len(list)]

\* OnMatchSuccess: the sets that the callback gets.  An odd person of a pair game is left.
SetsOf(tmp) ==
  LET size == Len(tmp) \div Sides
      num == IF size > Num THEN Num ELSE size
  IN  [t \in 1 .. Sides |-> SubSeq(tmp, (t - 1) * num + 1, t * num)]

MembersOf(sets) == UNION {ToSet(sets[t]) : t \in DOMAIN sets}

\* list.sort is stable.
Precedes(list, i, j) == \/ args[list[i]].begin < args[list[j]].begin
                        \/ args[list[i]].begin = args[list[j]].begin /\ i < j

ByBegin(list) ==
  Arranged(list, [i \in DOMAIN list |->
                    Cardinality({j \in DOMAIN list : j = i \/ Precedes(list, j, i)})])

\* The person at place i has his turn, unless he is one of the first NumMin / 2 or was put in
\* a match before.  A set that is only large enough when no candidate is left is a match too,
\* and ends the whole search.
Turn(list, r, i) ==
  LET g == Gather(list, r.removed, i)
  IN  IF \/ r.cut \/ i <= NumMin \div 2 \/ list[i] \in r.removed
         \/ ~(g.full \/ Len(g.tmp) >= g.box.num)
      THEN r
      ELSE [removed |-> r.removed \cup MembersOf(SetsOf(g.tmp)),
            made |-> Append(r.made, SetsOf(g.tmp)),
            cut |-> ~g.full]

Search(list) ==
  LET found[i \in 0 .. Len(list)] ==
        IF i = 0 THEN [removed |-> {}, made |-> <<>>, cut |-> FALSE]
                 ELSE Turn(list, found[i - 1], i)
  IN  found[Len(list)]

FlushSearch ==
  LET found == Search(ByBegin(individual))
  IN  /\ update
      /\ individual' = Kept(ByBegin(individual), found.removed)
      /\ individualMap' = individualMap \ found.removed
      /\ args' = Only(individualMap \ found.removed)
      /\ update' = FALSE
      /\ made' = [m \in DOMAIN found.made |->
                    [sets |-> found.made[m], args |-> Only(MembersOf(found.made[m]))]]
      /\ gone' = (gone \/ found.removed # {})
      /\ UNCHANGED model

SearchNext ==
  \/ \E p \in Persons : \/ LeaveIndividualSearchChannel(p)
                        \/ \E val \in Vals : EnterIndividualSearch(p, val)
  \/ ValExpand
  \/ FlushSearch

SearchSpec == SearchInit /\ [][SearchNext]_searchVars

(***************************************************************************)
(* Properties.                                                             *)
(***************************************************************************)
\* Every variable has its type, list and map hold the same people, each once, and nobody's
\* window loses his own value when it is moved to the border.
SearchTypeOK ==
  /\ model \in Models /\ update \in BOOLEAN /\ gone \in BOOLEAN
  /\ individual \in Seq(Persons) /\ args \in [individualMap -> Args]
  /\ ToSet(individual) = individualMap /\ Len(individual) = Cardinality(individualMap)
  /\ \A p \in individualMap : args[p].begin <= args[p].val /\ args[p].val <= args[p].end

\* Whom FlushSearch puts in one match accept each other: the value of each lies in the
\* window of every other, though each was only compared with the box of those before him.
MutuallyAcceptable ==
  \A m \in DOMAIN made : \A p, q \in DOMAIN made[m].args :
    /\ made[m].args[q].begin <= made[m].args[p].val
    /\ made[m].args[p].val <= made[m].args[q].end

\* Nobody is handed to the callback in two matches of one search, as TestMatch.cpp asserts of
\* what its callback gets: a matched person stays in the list, marked, till the search has ended.
MatchedOnce ==
  \A m, k \in DOMAIN made : m # k => DOMAIN made[m].args \cap DOMAIN made[k].args = {}

\* Looking for partners, nobody is put in a set of fewer people than he asked for, and no
\* set has more than num or fewer than numMin (OnMatchSuccess asserts the last two).
LargeEnough ==
  ~Pair => \A m \in DOMAIN made :
             LET size == Cardinality(DOMAIN made[m].args)
             IN  /\ size \in NumMin .. Num
                 /\ \A p \in DOMAIN made[m].args : made[m].args[p].num <= size

\* Every change of a window, of a number or of the list by somebody entering sets _update:
\* without it FlushSearch would find nothing.  Nothing is claimed once somebody has left, or
\* a search has made a match: neither sets _update, and people who could be matched now may
\* remain, also those whom a search that ended early did not come to.
CleanMeansNothingToFind ==
  ~update /\ ~gone => Search(ByBegin(individual)).made = <<>>
=============================================================================
