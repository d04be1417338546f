------------------------- MODULE FocusPolicy_proofs -------------------------
(***************************************************************************)
(* What the interrupt service makes of the focus list, for every number of *)
(* streams, whatever their types, and whichever sessions come and go: the  *)
(* applications know what is on the list, no two streams sound that clash, *)
(* and none stays paused or ducked without a reason.                       *)
(*                                                                         *)
(* The loops of the service over the list are folds of FocusList. A fold   *)
(* is a function of sets of places, given as the CHOOSE of one that        *)
(* satisfies its own recursion; that there is one, and that it takes its   *)
(* steps one after the other, needs an induction over the length of the    *)
(* list. The induction is here an argument about the least place where a   *)
(* fact fails (LeastNumber, CountUp), which follows from the well-         *)
(* foundedness of < on the natural numbers; FoldRuns and FoldIs draw what  *)
(* is needed of a fold from it, with the step of the fold as a function,   *)
(* and so are used for every loop.                                         *)
(*                                                                         *)
(* The lists in question are proper ones: a stream has at most one entry.  *)
(* Place turns such a list into a state for each stream, Before into an    *)
(* order of the streams, and Moves says which changes of the state go with *)
(* which events. Each step of a loop touches the stream of its own entry   *)
(* alone (Turn), so after the loop every stream has moved once and is      *)
(* where its own turn left it, and the order is the old one (EachInTurn).  *)
(* The lemmas that end in Is say it of the operations, down to those the   *)
(* service offers: ActivateIs, DeactivateIs, RemoveClientIs and            *)
(* AccountsChangedIs.                                                      *)
(*                                                                         *)
(* Kept is the inductive invariant. Its part on told says that events and  *)
(* list agree; each call keeps it because Moves goes with the events       *)
(* (MovesAreHeard). Its part on peace holds as long as no process uses     *)
(* sessions. It says of every two streams, in the order of the list, that  *)
(* they are in keeping with the table (Fine): NoClash alone is not         *)
(* inductive, since a stream that is ducked or paused may sound again      *)
(* later, and a pair of types that is missing in the table must never be   *)
(* looked up. SimulateIs says why a stream is left paused or ducked by     *)
(* ResumeAudioFocusList.                                                   *)
(***************************************************************************)
EXTENDS FocusPolicy, WellFoundedInduction, SequenceTheorems, TLAPS

(* The order of the natural numbers, as a set of pairs. *)
Lesser == {p \in Nat \X Nat : p[1] < p[2]}

(* A set of numbers has a least one ... *)
LEMMA LeastNumber ==
    ASSUME NEW T \in SUBSET Nat, T # {}
    PROVE  \E n \in T : \A m \in T : n <= m
<1>1. OpToRel(<, Nat) = Lesser  BY DEF OpToRel, Lesser
<1>2. IsWellFoundedOn(Lesser, Nat)  BY <1>1, NatLessThanWellFounded
<1>3. PICK n \in T : \A m \in T : <<m, n>> \notin Lesser  BY <1>2, WFMin
<1>4. ASSUME NEW m \in T PROVE n <= m
  <2>1. n \in Nat /\ m \in Nat  OBVIOUS
  <2>2. /\ <<m, n>> \in Nat \X Nat
        /\ <<m, n>>[1] = m /\ <<m, n>>[2] = n
    BY <2>1
  <2>3. ~(m < n)  BY <1>3, <2>2 DEF Lesser
  <2>. QED  BY <2>1, <2>3
<1>. QED  BY <1>4

(* ... so what holds of 0, and of a number whenever of the one before,     *)
(* holds of all up to n.                                                   *)
LEMMA CountUp ==
    ASSUME NEW n \in Nat, NEW T, 0 \in T, \A k \in 1..n : k - 1 \in T => k \in T
    PROVE  0..n \subseteq T
<1>. DEFINE U == (0..n) \ T
<1>. SUFFICES ASSUME U # {} PROVE FALSE  OBVIOUS
<1>1. U \in SUBSET Nat  OBVIOUS
<1>. HIDE DEF U
<1>2. PICK k \in U : \A j \in U : k <= j  BY <1>1, LeastNumber
<1>3. k \in 1..n /\ k - 1 \in 0..n  BY <1>2 DEF U
<1>4. k - 1 \notin U  BY <1>2, <1>3
<1>. QED  BY <1>2, <1>3, <1>4 DEF U

(* The folds go through a set of places from its Max: there is one. *)
LEMMA MaxIs ==
    ASSUME NEW n \in Nat, NEW S \in SUBSET (1..n), S # {}
    PROVE  Max(S) \in S /\ \A x \in S : Max(S) >= x
<1>. DEFINE T == {k \in 0..n : \A A \in SUBSET (1..k) : A # {} => \E x \in A : \A y \in A : x >= y}
<1>1. 0 \in T
  <2>1. \A A \in SUBSET (1..0) : A = {}  OBVIOUS
  <2>2. 0 \in 0..n  OBVIOUS
  <2>. QED  BY <2>1, <2>2
<1>2. ASSUME NEW k \in 1..n, k - 1 \in T PROVE k \in T
  <2>1. ASSUME NEW A \in SUBSET (1..k), A # {} PROVE \E x \in A : \A y \in A : x >= y
    <3>1. CASE k \in A  BY <3>1
    <3>2. CASE k \notin A
      <4>1. A \in SUBSET (1..(k - 1))  BY <3>2
      <4>. QED  BY <1>2, <2>1, <4>1
    <3>. QED  BY <3>1, <3>2
  <2>. QED  BY <2>1
<1>3. n \in T
  <2>. HIDE DEF T
  <2>. QED  BY <1>1, <1>2, CountUp
<1>4. \E x \in S : \A y \in S : x >= y  BY <1>3
<1>. QED  BY <1>4 DEF Max

(* What a fold over 1..n, as Folds and SequencesExt define it, says of the *)
(* function it chooses: b is what it starts with.                          *)
Computes(h, n, b, step) ==
    h = [S \in SUBSET (1..n) |->
            IF S = {} THEN b ELSE step[<<h[S \ {Max(S)}], Max(S)>>]]

(* If its step stays in U, there is a function to choose. *)
LEMMA FoldRuns ==
    ASSUME NEW n \in Nat, NEW U, NEW b \in U, NEW step \in [U \X (1..n) -> U]
    PROVE  \E h \in [SUBSET (1..n) -> U] : Computes(h, n, b, step)
<1>. DEFINE T == {k \in 0..n : \E h \in [SUBSET (1..k) -> U] : Computes(h, k, b, step)}
<1>1. 0 \in T
  <2>. DEFINE h == [S \in SUBSET (1..0) |-> b]
  <2>1. 1..0 = {}  OBVIOUS
  <2>2. h \in [SUBSET (1..0) -> U]  OBVIOUS
  <2>3. Computes(h, 0, b, step)  BY <2>1 DEF Computes
  <2>. QED  BY <2>2, <2>3
<1>2. ASSUME NEW k \in 1..n, k - 1 \in T PROVE k \in T
  <2>1. PICK g \in [SUBSET (1..(k - 1)) -> U] : Computes(g, k - 1, b, step)  BY <1>2
  <2>. DEFINE h == [S \in SUBSET (1..k) |->
                       IF k \in S THEN step[<<g[S \ {k}], k>>] ELSE g[S]]
  <2>2. ASSUME NEW S \in SUBSET (1..k)
        PROVE  /\ h[S] \in U
               /\ h[S] = IF S = {} THEN b ELSE step[<<h[S \ {Max(S)}], Max(S)>>]
    <3>1. CASE k \in S
      <4>0. S # {} /\ k \in Nat  BY <3>1
      <4>1. Max(S) \in 1..k /\ Max(S) >= k  BY <3>1, <4>0, MaxIs
      <4>a. Max(S) = k  BY <4>1
      <4>2. S \ {k} \in SUBSET (1..(k - 1)) /\ k \notin S \ {k}  OBVIOUS
      <4>3. h[S \ {k}] = g[S \ {k}] /\ g[S \ {k}] \in U  BY <4>2
      <4>. QED  BY <3>1, <4>a, <4>2, <4>3
    <3>2. CASE k \notin S
      <4>1. S \in SUBSET (1..(k - 1))  BY <3>2
      <4>2. h[S] = g[S] /\ g[S] \in U  BY <3>2, <4>1
      <4>3. g[S] = IF S = {} THEN b ELSE step[<<g[S \ {Max(S)}], Max(S)>>]
        BY <2>1, <4>1 DEF Computes
      <4>4. S # {} => h[S \ {Max(S)}] = g[S \ {Max(S)}]  BY <3>2, <4>1
      <4>. QED  BY <4>2, <4>3, <4>4
    <3>. QED  BY <3>1, <3>2
  <2>3. h \in [SUBSET (1..k) -> U]
    <3>. HIDE DEF h
    <3>1. h = [S \in SUBSET (1..k) |-> h[S]]  BY DEF h
    <3>. QED  BY <2>2, <3>1
  <2>4. Computes(h, k, b, step)
    <3>. HIDE DEF h
    <3>1. h = [S \in SUBSET (1..k) |-> h[S]]  BY DEF h
    <3>. QED  BY <2>2, <3>1 DEF Computes
  <2>5. k \in 0..n  OBVIOUS
  <2>. HIDE DEF h
  <2>. QED  BY <2>3, <2>4, <2>5
<1>3. n \in T
  <2>. HIDE DEF T
  <2>. QED  BY <1>1, <1>2, CountUp
<1>. QED  BY <1>3

(* The last of the first k places. *)
LEMMA UpTo ==
    ASSUME NEW n \in Nat, NEW k \in 1..n
    PROVE  /\ 1..k \in SUBSET (1..n) /\ 1..k # {} /\ k \in 0..n /\ k - 1 \in 0..n
           /\ Max(1..k) = k /\ (1..k) \ {k} = 1..(k - 1)
<1>1. 1..k \in SUBSET (1..n) /\ k \in 1..k /\ k \in 0..n /\ k - 1 \in 0..n  OBVIOUS
<1>2. Max(1..k) \in 1..k /\ Max(1..k) >= k  BY <1>1, MaxIs
<1>3. Max(1..k) = k  BY <1>2
<1>. QED  BY <1>1, <1>3

(* What is known of a fold before it is known to stay in U ... *)
FoldsIn(U, fold, n, b, step) ==
    /\ fold[{}] = b
    /\ \A S \in SUBSET (1..n) : S # {} /\ fold[S \ {Max(S)}] \in U =>
          fold[S] = step[<<fold[S \ {Max(S)}], Max(S)>>]

(* ... and the run of its steps: r[k] is what it has after the k-th. *)
OneByOne(r, fold, n, b, step) ==
    /\ r[0] = b /\ r[n] = fold[1..n]
    /\ \A k \in 1..n : r[k] = step[<<r[k - 1], k>>]

(* A fold takes its steps one after the other. *)
LEMMA FoldIs ==
    ASSUME NEW n \in Nat, NEW U, NEW b \in U, NEW step \in [U \X (1..n) -> U], NEW fold,
           FoldsIn(U, fold, n, b, step)
    PROVE  \E r \in [0..n -> U] : OneByOne(r, fold, n, b, step)
<1>. USE DEF FoldsIn, OneByOne
<1>. DEFINE T == {k \in 0..n : fold[1..k] \in U}
<1>1. fold[1..0] = b
  <2>1. 1..0 = {}  OBVIOUS
  <2>. QED  BY <2>1
<1>2. ASSUME NEW k \in 1..n, fold[1..(k - 1)] \in U
      PROVE  fold[1..k] = step[<<fold[1..(k - 1)], k>>] /\ fold[1..k] \in U
  <2>1. fold[1..k] = step[<<fold[1..(k - 1)], k>>]  BY <1>2, UpTo
  <2>. QED  BY <1>2, <2>1
<1>3. 0..n \subseteq T
  <2>1. 0 \in T  BY <1>1
  <2>2. ASSUME NEW k \in 1..n, k - 1 \in T PROVE k \in T
    <3>1. k \in 0..n /\ fold[1..(k - 1)] \in U  BY <2>2
    <3>. QED  BY <1>2, <3>1
  <2>. HIDE DEF T
  <2>. QED  BY <2>1, <2>2, CountUp
<1>. DEFINE r == [k \in 0..n |-> fold[1..k]]
<1>4. r \in [0..n -> U]  BY <1>3
<1>5. ASSUME NEW k \in 1..n PROVE r[k] = step[<<r[k - 1], k>>]
  <2>1. k \in 0..n /\ k - 1 \in 0..n  OBVIOUS
  <2>2. fold[1..(k - 1)] \in U  BY <1>3, <2>1
  <2>. QED  BY <1>2, <2>1, <2>2
<1>6. r[0] = b /\ r[n] = fold[1..n]  BY <1>1
<1>. QED  BY <1>4, <1>5, <1>6

-----------------------------------------------------------------------------
(* The states of an entry, the entries, and the lists a loop may meet: no  *)
(* stream has two entries.                                                 *)
States == {"ACTIVE", "DUCK", "PAUSE", "PLACEHOLDER"}
Item == [id : Streams, state : States]

Proper(q) ==
    /\ q \in Seq(Item)
    /\ \A i, j \in DOMAIN q : q[i].id = q[j].id => i = j

(* What a list says of a stream. *)
Place(q, s) ==
    IF \E i \in DOMAIN q : q[i].id = s
    THEN q[CHOOSE i \in DOMAIN q : q[i].id = s].state ELSE "none"

(* A proper list says of a stream what its entry says ... *)
LEMMA PlaceAt ==
    ASSUME NEW q, Proper(q), NEW i \in DOMAIN q
    PROVE  Place(q, q[i].id) = q[i].state
BY DEF Place, Proper

(* ... if it has one. *)
LEMMA PlaceType ==
    ASSUME NEW q, Proper(q), NEW s
    PROVE  Place(q, s) \in States \cup {"none"}
<1>1. CASE \E i \in DOMAIN q : q[i].id = s
  <2>1. PICK i \in DOMAIN q : q[i].id = s  BY <1>1
  <2>2. Place(q, s) = q[i].state  BY <2>1, PlaceAt
  <2>3. q[i] \in Item  BY ElementOfSeq, LenProperties DEF Proper
  <2>. QED  BY <2>2, <2>3 DEF Item
<1>2. CASE ~ \E i \in DOMAIN q : q[i].id = s  BY <1>2 DEF Place
<1>. QED  BY <1>1, <1>2

(* One stream is listed before another. *)
Before(q, a, b) == \E i, j \in DOMAIN q : i < j /\ q[i].id = a /\ q[j].id = b

(* What a loop leaves of a list is in the order it was in. *)
Sub(r, q) == \A a, b : Before(r, a, b) => Before(q, a, b)

(* Of a proper list, a stream is not before itself. *)
LEMMA BeforeListed ==
    ASSUME NEW q, Proper(q), NEW a, NEW b, Before(q, a, b)
    PROVE  a \in Streams /\ b \in Streams /\ a # b /\ Place(q, a) # "none" /\ Place(q, b) # "none"
<1>1. PICK i, j \in DOMAIN q : i < j /\ q[i].id = a /\ q[j].id = b  BY DEF Before
<1>2. q[i] \in Item /\ q[j] \in Item /\ DOMAIN q = 1..Len(q) /\ Len(q) \in Nat
  BY <1>1, ElementOfSeq, LenProperties DEF Proper
<1>3. Place(q, a) = q[i].state /\ Place(q, b) = q[j].state  BY <1>1, PlaceAt
<1>4. i # j  BY <1>1, <1>2
<1>. QED  BY <1>1, <1>2, <1>3, <1>4 DEF Proper, Item, States

(* Two lists with the same entries say the same. *)
LEMMA SamePlace ==
    ASSUME NEW q, Proper(q), NEW r, Proper(r), NEW s,
           \A i \in DOMAIN q : q[i].id = s => \E j \in DOMAIN r : r[j] = q[i],
           \A j \in DOMAIN r : r[j].id = s => \E i \in DOMAIN q : r[j] = q[i]
    PROVE  Place(q, s) = Place(r, s)
<1>1. CASE \E i \in DOMAIN q : q[i].id = s
  <2>1. PICK i \in DOMAIN q : q[i].id = s  BY <1>1
  <2>2. PICK j \in DOMAIN r : r[j] = q[i]  BY <2>1
  <2>3. Place(q, s) = q[i].state  BY <2>1, PlaceAt
  <2>4. Place(r, s) = r[j].state  BY <2>1, <2>2, PlaceAt
  <2>. QED  BY <2>2, <2>3, <2>4
<1>2. CASE ~ \E i \in DOMAIN q : q[i].id = s
  <2>1. ~ \E i \in DOMAIN r : r[i].id = s  BY <1>2
  <2>. QED  BY <1>2, <2>1 DEF Place
<1>. QED  BY <1>1, <1>2

(* A stream that is not listed is added. *)
LEMMA AppendPlace ==
    ASSUME NEW q, Proper(q), NEW e \in Item, Place(q, e.id) = "none"
    PROVE  /\ Proper(Append(q, e))
           /\ \A s : Place(Append(q, e), s) = IF s = e.id THEN e.state ELSE Place(q, s)
           /\ \A a, b : Before(Append(q, e), a, b) =>
                 /\ a # e.id /\ \E i \in DOMAIN q : q[i].id = a
                 /\ b # e.id => Before(q, a, b)
<1>. DEFINE r == Append(q, e)
<1>1. /\ Len(q) \in Nat /\ DOMAIN q = 1..Len(q) /\ DOMAIN r = 1..(Len(q) + 1)
      /\ \A i \in 1..Len(q) : r[i] = q[i]
      /\ r[Len(q) + 1] = e /\ r \in Seq(Item)
  BY AppendProperties, LenProperties DEF Proper
<1>. HIDE DEF r
<1>2. \A i \in DOMAIN q : q[i].id # e.id
  <2>1. ASSUME NEW i \in DOMAIN q PROVE q[i].state # "none"
    <3>1. q[i] \in Item  BY ElementOfSeq, LenProperties DEF Proper
    <3>. QED  BY <3>1 DEF Item, States
  <2>. QED  BY <2>1, PlaceAt
<1>3. Proper(r)
  <2>. SUFFICES ASSUME NEW i \in DOMAIN r, NEW j \in DOMAIN r, r[i].id = r[j].id PROVE i = j
    BY <1>1 DEF Proper
  <2>. QED  BY <1>1, <1>2 DEF Proper
<1>4. ASSUME NEW s PROVE Place(r, s) = IF s = e.id THEN e.state ELSE Place(q, s)
  <2>1. CASE s = e.id  BY <1>1, <1>3, <2>1, PlaceAt
  <2>2. CASE s # e.id
    <3>1. \A i \in DOMAIN q : \E j \in DOMAIN r : r[j] = q[i]  BY <1>1
    <3>2. \A j \in DOMAIN r : r[j].id = s => \E i \in DOMAIN q : r[j] = q[i]  BY <1>1, <2>2
    <3>3. Place(q, s) = Place(r, s)  BY <1>3, <3>1, <3>2, SamePlace
    <3>. QED  BY <2>2, <3>3
  <2>. QED  BY <2>1, <2>2
<1>5. ASSUME NEW a, NEW b, Before(r, a, b)
      PROVE  /\ a # e.id /\ \E i \in DOMAIN q : q[i].id = a
             /\ b # e.id => Before(q, a, b)
  <2>1. PICK i, j \in DOMAIN r : i < j /\ r[i].id = a /\ r[j].id = b  BY <1>5 DEF Before
  <2>2. i \in DOMAIN q /\ q[i].id = a  BY <1>1, <2>1
  <2>3. CASE j = Len(q) + 1  BY <1>1, <1>2, <2>1, <2>2, <2>3
  <2>4. CASE j # Len(q) + 1
    <3>1. j \in DOMAIN q /\ q[j].id = b  BY <1>1, <2>1, <2>4
    <3>. QED  BY <1>2, <2>1, <2>2, <3>1 DEF Before
  <2>. QED  BY <2>3, <2>4
<1>. QED  BY <1>3, <1>4, <1>5 DEF r

(* The entry of a stream gets another state. *)
LEMMA ChangePlace ==
    ASSUME NEW q, Proper(q), NEW s, NEW st \in States
    PROVE  LET r == [i \in DOMAIN q |-> IF q[i].id = s THEN [q[i] EXCEPT !.state = st] ELSE q[i]]
           IN  /\ Proper(r)
               /\ \A x : Place(r, x) = IF x = s /\ Place(q, s) # "none" THEN st ELSE Place(q, x)
               /\ Sub(r, q)
<1>. DEFINE r == [i \in DOMAIN q |-> IF q[i].id = s THEN [q[i] EXCEPT !.state = st] ELSE q[i]]
<1>1. \A i \in DOMAIN q : q[i] \in Item  BY ElementOfSeq, LenProperties DEF Proper
<1>2. /\ DOMAIN r = DOMAIN q /\ Len(q) \in Nat /\ DOMAIN q = 1..Len(q)
      /\ \A i \in DOMAIN q : /\ r[i] \in Item /\ r[i].id = q[i].id
                             /\ r[i].state = IF q[i].id = s THEN st ELSE q[i].state
                             /\ q[i].id # s => r[i] = q[i]
  BY <1>1, LenProperties DEF Item, Proper
<1>3. r \in [1..Len(q) -> Item]
  <2>1. r = [i \in 1..Len(q) |-> r[i]]  BY <1>2
  <2>. HIDE DEF r
  <2>. QED  BY <1>2, <2>1
<1>. HIDE DEF r
<1>4. Proper(r)  BY <1>2, <1>3 DEF Proper
<1>5. \A i \in DOMAIN q : q[i].state # "none"  BY <1>1 DEF Item, States
<1>6. ASSUME NEW x PROVE Place(r, x) = IF x = s /\ Place(q, s) # "none" THEN st ELSE Place(q, x)
  <2>1. CASE \E i \in DOMAIN q : q[i].id = x
    <3>1. PICK i \in DOMAIN q : q[i].id = x  BY <2>1
    <3>2. Place(q, x) = q[i].state  BY <3>1, PlaceAt
    <3>3. Place(r, x) = r[i].state  BY <1>2, <1>4, <3>1, PlaceAt
    <3>. QED  BY <1>2, <1>5, <3>1, <3>2, <3>3
  <2>2. CASE ~ \E i \in DOMAIN q : q[i].id = x
    <3>1. ~ \E i \in DOMAIN r : r[i].id = x  BY <1>2, <2>2
    <3>. QED  BY <2>2, <3>1 DEF Place
  <2>. QED  BY <2>1, <2>2
<1>7. Sub(r, q)  BY <1>2 DEF Sub, Before
<1>. QED  BY <1>4, <1>6, <1>7 DEF r

(* The entries of some streams are taken out, by a loop over the list. *)
LEMMA RemainingPlace ==
    ASSUME NEW q, Proper(q), NEW gone
    PROVE  /\ Proper(Remaining(q, gone))
           /\ \A s : Place(Remaining(q, gone), s) = IF s \in gone THEN "none" ELSE Place(q, s)
           /\ Sub(Remaining(q, gone), q)
<1>. DEFINE n == Len(q)
            Step(left, i) == IF q[i].id \in gone THEN left ELSE Append(left, q[i])
            Runs(g) == g = [S \in SUBSET DOMAIN q |->
                              IF S = {} THEN <<>> ELSE Step(g[S \ {Max(S)}], Max(S))]
            fold == CHOOSE g : Runs(g)
            step == [t \in Seq(Item) \X (1..n) |-> Step(t[1], t[2])]
<1>1. /\ n \in Nat /\ DOMAIN q = 1..n
      /\ \A i \in 1..n : q[i] \in Item
  BY LenProperties, ElementOfSeq DEF Proper
<1>2. step \in [Seq(Item) \X (1..n) -> Seq(Item)]
  <2>1. ASSUME NEW left \in Seq(Item), NEW i \in 1..n PROVE Step(left, i) \in Seq(Item)
    BY <1>1, AppendProperties
  <2>. QED  BY <2>1
<1>3. \E g : Runs(g)
  <2>1. <<>> \in Seq(Item)  OBVIOUS
  <2>. HIDE DEF step
  <2>2. PICK g \in [SUBSET (1..n) -> Seq(Item)] : Computes(g, n, <<>>, step)
    BY <1>1, <1>2, <2>1, FoldRuns
  <2>3. ASSUME NEW S \in SUBSET (1..n), S # {}
        PROVE  step[<<g[S \ {Max(S)}], Max(S)>>] = Step(g[S \ {Max(S)}], Max(S))
    <3>1. Max(S) \in 1..n  BY <1>1, <2>3, MaxIs
    <3>2. g[S \ {Max(S)}] \in Seq(Item)  OBVIOUS
    <3>. QED  BY <3>1, <3>2 DEF step
  <2>4. Runs(g)  BY <1>1, <2>2, <2>3 DEF Computes
  <2>. QED  BY <2>4
<1>4. Runs(fold)  BY <1>3
<1>5. Remaining(q, gone) = fold[1..n]
  BY <1>1 DEF Remaining, FoldLeft, MapThenFoldSet
<1>6. fold[{}] = <<>>  BY <1>4
<1>7. FoldsIn(Seq(Item), fold, n, <<>>, step)
  <2>. SUFFICES \A S \in SUBSET (1..n) : S # {} /\ fold[S \ {Max(S)}] \in Seq(Item) =>
                   fold[S] = step[<<fold[S \ {Max(S)}], Max(S)>>]
    BY <1>6 DEF FoldsIn
  <2>. SUFFICES ASSUME NEW S \in SUBSET (1..n), S # {}, fold[S \ {Max(S)}] \in Seq(Item)
                PROVE  fold[S] = step[<<fold[S \ {Max(S)}], Max(S)>>]
    OBVIOUS
  <2>1. Max(S) \in 1..n  BY <1>1, MaxIs
  <2>2. fold[S] = Step(fold[S \ {Max(S)}], Max(S))
    <3>. HIDE DEF fold
    <3>. QED  BY <1>1, <1>4
  <2>. HIDE DEF fold
  <2>. QED  BY <2>1, <2>2
<1>. HIDE DEF fold, Runs, step
<1>8. PICK r \in [0..n -> Seq(Item)] : OneByOne(r, fold, n, <<>>, step)
  <2>1. <<>> \in Seq(Item)  OBVIOUS
  <2>. QED  BY <1>1, <1>2, <1>7, <2>1, FoldIs
<1>9. \A k \in 1..n : r[k] = Step(r[k - 1], k)
  <2>1. ASSUME NEW k \in 1..n PROVE r[k] = Step(r[k - 1], k)
    <3>1. k - 1 \in 0..n  BY <1>1
    <3>2. r[k - 1] \in Seq(Item)  BY <3>1
    <3>. QED  BY <1>8, <3>2 DEF step, OneByOne
  <2>. QED  BY <2>1
<1>. DEFINE T == {k \in 0..n :
                    /\ Proper(r[k])
                    /\ \A j \in DOMAIN r[k] :
                          \E i \in 1..k : r[k][j] = q[i] /\ q[i].id \notin gone
                    /\ \A i \in 1..k : q[i].id \notin gone =>
                          \E j \in DOMAIN r[k] : r[k][j] = q[i]
                    /\ Sub(r[k], q)}
<1>10. 0 \in T
  <2>1. r[0] \in Seq(Item) /\ DOMAIN r[0] = {} /\ 1..0 = {} /\ 0 \in 0..n
    BY <1>1, <1>8 DEF OneByOne
  <2>. QED  BY <2>1 DEF Proper, Sub, Before
<1>11. ASSUME NEW k \in 1..n, k - 1 \in T PROVE k \in T
  <2>. DEFINE old == r[k - 1]
  <2>1. r[k] = Step(old, k) /\ k \in 0..n /\ q[k] \in Item  BY <1>1, <1>9
  <2>2. /\ Proper(old)
        /\ \A j \in DOMAIN old : \E i \in 1..(k - 1) : old[j] = q[i] /\ q[i].id \notin gone
        /\ \A i \in 1..(k - 1) : q[i].id \notin gone => \E j \in DOMAIN old : old[j] = q[i]
        /\ Sub(old, q)
    BY <1>11
  <2>. HIDE DEF old
  <2>3. CASE q[k].id \in gone
    <3>1. r[k] = old  BY <2>1, <2>3
    <3>2. \A i \in 1..k : i \in 1..(k - 1) \/ i = k  OBVIOUS
    <3>3. \A i \in 1..(k - 1) : i \in 1..k  OBVIOUS
    <3>. QED  BY <2>1, <2>2, <2>3, <3>1, <3>2, <3>3
  <2>4. CASE q[k].id \notin gone
    <3>1. r[k] = Append(old, q[k])  BY <2>1, <2>4
    <3>2. Place(old, q[k].id) = "none"
      <4>1. ASSUME NEW j \in DOMAIN old PROVE old[j].id # q[k].id
        <5>1. PICK i \in 1..(k - 1) : old[j] = q[i]  BY <2>2
        <5>2. i \in DOMAIN q /\ k \in DOMAIN q /\ i # k  BY <1>1
        <5>. QED  BY <5>1, <5>2 DEF Proper
      <4>. QED  BY <4>1 DEF Place
    <3>3. Proper(r[k])  BY <2>1, <2>2, <3>1, <3>2, AppendPlace
    <3>4. /\ Len(old) \in Nat /\ DOMAIN old = 1..Len(old) /\ DOMAIN r[k] = 1..(Len(old) + 1)
          /\ \A j \in 1..Len(old) : r[k][j] = old[j]
          /\ r[k][Len(old) + 1] = q[k]
      BY <2>1, <2>2, <3>1, AppendProperties, LenProperties DEF Proper
    <3>5. \A j \in DOMAIN r[k] : \E i \in 1..k : r[k][j] = q[i] /\ q[i].id \notin gone
      <4>1. \A j \in DOMAIN r[k] : j \in DOMAIN old \/ j = Len(old) + 1  BY <3>4
      <4>2. k \in 1..k /\ \A i \in 1..(k - 1) : i \in 1..k  OBVIOUS
      <4>. QED  BY <2>2, <2>4, <3>4, <4>1, <4>2
    <3>6. \A i \in 1..k : q[i].id \notin gone => \E j \in DOMAIN r[k] : r[k][j] = q[i]
      <4>1. \A i \in 1..k : i \in 1..(k - 1) \/ i = k  OBVIOUS
      <4>2. Len(old) + 1 \in DOMAIN r[k] /\ DOMAIN old \subseteq DOMAIN r[k]  BY <3>4
      <4>. QED  BY <2>2, <3>4, <4>1, <4>2
    <3>7. Sub(r[k], q)
      <4>. SUFFICES ASSUME NEW a, NEW b, Before(r[k], a, b) PROVE Before(q, a, b)  BY DEF Sub
      <4>1. /\ \E j \in DOMAIN old : old[j].id = a
            /\ b # q[k].id => Before(old, a, b)
        BY <2>1, <2>2, <3>1, <3>2, AppendPlace
      <4>2. CASE b # q[k].id  BY <2>2, <4>1, <4>2 DEF Sub
      <4>3. CASE b = q[k].id
        <5>1. PICK i \in 1..(k - 1) : q[i].id = a  BY <2>2, <4>1
        <5>2. i \in DOMAIN q /\ k \in DOMAIN q /\ i < k  BY <1>1
        <5>. QED  BY <4>3, <5>1, <5>2 DEF Before
      <4>. QED  BY <4>2, <4>3
    <3>. QED  BY <2>1, <3>3, <3>5, <3>6, <3>7
  <2>. QED  BY <2>3, <2>4
<1>12. n \in T
  <2>1. \A k \in 1..n : k - 1 \in T => k \in T  BY <1>11
  <2>. HIDE DEF T
  <2>2. 0..n \subseteq T  BY <1>1, <1>10, <2>1, CountUp
  <2>. QED  BY <1>1, <2>2
<1>. DEFINE left == Remaining(q, gone)
<1>13. /\ Proper(left)
       /\ \A j \in DOMAIN left : \E i \in DOMAIN q : left[j] = q[i] /\ q[i].id \notin gone
       /\ \A i \in DOMAIN q : q[i].id \notin gone => \E j \in DOMAIN left : left[j] = q[i]
       /\ Sub(left, q)
  <2>1. left = r[n]  BY <1>5, <1>8 DEF OneByOne
  <2>. HIDE DEF left
  <2>. QED  BY <1>1, <1>12, <2>1
<1>. HIDE DEF left
<1>14. ASSUME NEW s PROVE Place(left, s) = IF s \in gone THEN "none" ELSE Place(q, s)
  <2>1. CASE s \in gone  BY <1>13, <2>1 DEF Place
  <2>2. CASE s \notin gone
    <3>1. Place(q, s) = Place(left, s)  BY <1>13, <2>2, SamePlace
    <3>. QED  BY <2>2, <3>1
  <2>. QED  BY <2>1, <2>2
<1>. QED  BY <1>13, <1>14 DEF left

-----------------------------------------------------------------------------
(* What a stream can be sent. *)
Hints == {"DUCK", "UNDUCK", "PAUSE", "RESUME", "STOP"}

(* Where the streams are of types t, and sessions of modes of M.           *)
Worlds(t, M) ==
    [type : {t}, list : {q \in Seq(Item) : Proper(q)}, mode : [Pids -> M \cup {"none"}],
     members : [Pids -> SUBSET Streams], sent : [Streams -> Seq(Hints)]]

(* Nothing has happened to x from w to v. *)
SameFor(x, v, w) == Place(v.list, x) = Place(w.list, x) /\ v.sent[x] = w.sent[x]

(* No session is on. *)
Quiet(w) == \A p \in Pids : w.mode[p] = "none"

(* From w to v no stream has come, and no session has begun. *)
Orderly(v, w) == Sub(v.list, w.list) /\ (Quiet(w) => Quiet(v))

(* One orderly step after the other. *)
LEMMA OrderlyTwice == \A u, v, w : Orderly(u, v) /\ Orderly(v, w) => Orderly(u, w)
BY DEF Orderly, Sub

(* A list and the sessions as they were. *)
LEMMA OrderlySame == \A v, w : v.list = w.list /\ v.mode = w.mode => Orderly(v, w)
BY DEF Orderly, Sub, Quiet

(* The client of a stream is one of the clients. *)
LEMMA PidType == \A s \in Streams : Pid[s] \in Pids
BY DEF Pids

(* Send adds to what its stream is sent, and does nothing else. *)
LEMMA SendIs ==
    ASSUME NEW t, NEW M, NEW w \in Worlds(t, M), NEW s \in Streams, NEW h \in Hints
    PROVE  /\ Send(w, s, h) \in Worlds(t, M)
           /\ Send(w, s, h).list = w.list
           /\ Send(w, s, h).mode = w.mode
           /\ Orderly(Send(w, s, h), w)
           /\ Send(w, s, h).sent[s] = Append(w.sent[s], h)
           /\ \A x \in Streams \ {s} : Send(w, s, h).sent[x] = w.sent[x]
<1>1. Append(w.sent[s], h) \in Seq(Hints)  BY AppendProperties DEF Worlds
<1>2. Send(w, s, h).list = w.list /\ Send(w, s, h).mode = w.mode  BY DEF Worlds, Send
<1>3. Orderly(Send(w, s, h), w)  BY <1>2, OrderlySame
<1>. QED  BY <1>1, <1>3 DEF Worlds, Send

(* Without takes its stream off the list. *)
LEMMA WithoutIs ==
    ASSUME NEW t, NEW M, NEW w \in Worlds(t, M), NEW s
    PROVE  /\ Without(w, s) \in Worlds(t, M)
           /\ Without(w, s).sent = w.sent
           /\ Without(w, s).mode = w.mode
           /\ Orderly(Without(w, s), w)
           /\ Place(Without(w, s).list, s) = "none"
           /\ \A x : x # s => Place(Without(w, s).list, x) = Place(w.list, x)
<1>. DEFINE q == Remaining(w.list, {s})
<1>1. Proper(w.list)  BY DEF Worlds
<1>2. /\ Proper(q)
      /\ \A x : Place(q, x) = IF x \in {s} THEN "none" ELSE Place(w.list, x)
      /\ Sub(q, w.list)
  BY <1>1, RemainingPlace
<1>3. q \in Seq(Item)  BY <1>2 DEF Proper
<1>. HIDE DEF q
<1>4. Without(w, s) = [w EXCEPT !.list = q]  BY DEF Without, q
<1>5. Orderly(Without(w, s), w)  BY <1>2, <1>4 DEF Orderly, Quiet, Worlds
<1>. QED  BY <1>2, <1>3, <1>4, <1>5 DEF Worlds

(* SetState changes what the list says of its stream, if it says anything. *)
LEMMA SetStateIs ==
    ASSUME NEW t, NEW M, NEW w \in Worlds(t, M), NEW s, NEW st \in States
    PROVE  /\ SetState(w, s, st) \in Worlds(t, M)
           /\ SetState(w, s, st).sent = w.sent
           /\ SetState(w, s, st).mode = w.mode
           /\ Orderly(SetState(w, s, st), w)
           /\ Place(w.list, s) # "none" => Place(SetState(w, s, st).list, s) = st
           /\ \A x : x # s => Place(SetState(w, s, st).list, x) = Place(w.list, x)
<1>. DEFINE q == w.list
            r == [i \in DOMAIN q |-> IF q[i].id = s THEN [q[i] EXCEPT !.state = st] ELSE q[i]]
<1>1. Proper(q)  BY DEF Worlds
<1>. HIDE DEF q
<1>2. /\ Proper(r)
      /\ \A x : Place(r, x) = IF x = s /\ Place(q, s) # "none" THEN st ELSE Place(q, x)
      /\ Sub(r, q)
  BY <1>1, ChangePlace
<1>3. r \in Seq(Item)  BY <1>2 DEF Proper
<1>4. SetState(w, s, st) = [w EXCEPT !.list = r]  BY DEF SetState, q
<1>. HIDE DEF r
<1>5. Orderly(SetState(w, s, st), w)  BY <1>2, <1>4 DEF Orderly, Quiet, Worlds, q
<1>. QED  BY <1>2, <1>3, <1>4, <1>5 DEF Worlds, q

(* The end of a low-priority session leaves the list as it is. *)
LEMMA HandleLowPriorityIs ==
    ASSUME NEW t, NEW M, NEW w \in Worlds(t, M), NEW s \in Streams
    PROVE  /\ HandleLowPriorityEvent(w, s) \in Worlds(t, M)
           /\ HandleLowPriorityEvent(w, s).list = w.list
           /\ HandleLowPriorityEvent(w, s).sent = w.sent
           /\ Orderly(HandleLowPriorityEvent(w, s), w)
<1>. DEFINE v == HandleLowPriorityEvent(w, s)
<1>1. v \in Worlds(t, M) /\ v.list = w.list /\ v.sent = w.sent
  BY PidType DEF Worlds, HandleLowPriorityEvent, Forget
<1>2. \A p \in Pids : w.mode[p] = "none" => v.mode[p] = "none"
  BY DEF Worlds, HandleLowPriorityEvent, Forget
<1>. HIDE DEF v
<1>3. Orderly(v, w)  BY <1>1, <1>2 DEF Orderly, Sub, Quiet
<1>. QED  BY <1>1, <1>3 DEF v

-----------------------------------------------------------------------------
(* What a call may do to a stream that is not its own: with h its state in *)
(* the list goes from f to g.                                              *)
Moves(f, h, g) ==
    \/ h = <<>> /\ (g = f \/ (f = "PLACEHOLDER" /\ g = "none"))
    \/ h = <<"PAUSE">> /\ f \in {"ACTIVE", "DUCK"} /\ g = "PAUSE"
    \/ h = <<"DUCK">> /\ f = "ACTIVE" /\ g = "DUCK"
    \/ h = <<"UNDUCK">> /\ f = "DUCK" /\ g = "ACTIVE"
    \/ h = <<"UNDUCK", "PAUSE">> /\ f = "DUCK" /\ g = "PAUSE"
    \/ h = <<"RESUME">> /\ f = "PAUSE" /\ g = "none"
    \/ h = <<"STOP">> /\ f # "none" /\ g = "none"

(* To send nothing is to move nobody. *)
LEMMA Still ==
    \A f, h, g : h = <<>> /\ (g = f \/ (f = "PLACEHOLDER" /\ g = "none")) => Moves(f, h, g)
BY Zenon DEF Moves

(* From w to v only x has been moved. *)
Touches(w, x, v) ==
    /\ \A y \in Streams \ {x} : SameFor(y, v, w)
    /\ Moves(Place(w.list, x), v.sent[x], Place(v.list, x))
    /\ Orderly(v, w)

(* An entry has its turn, if nothing has happened to its stream so far;   *)
(* all that its stream may be sent is in H, and its place, where there are *)
(* no sessions, is then in G.                                              *)
Turn(w, e, v, H, G) ==
    Place(w.list, e.id) = e.state /\ w.sent[e.id] = <<>> =>
      /\ Touches(w, e.id, v)
      /\ v.sent[e.id] = <<>> \/ v.sent[e.id] \in H
      /\ Quiet(w) => Place(v.list, e.id) \in G

(* A new state and the event for it. *)
LEMMA SetAndSend ==
    ASSUME NEW t, NEW M, NEW w \in Worlds(t, M), NEW x \in Streams,
           NEW st \in States, NEW h \in Hints
    PROVE  LET v == Send(SetState(w, x, st), x, h)
           IN  /\ v \in Worlds(t, M)
               /\ \A y \in Streams \ {x} : SameFor(y, v, w)
               /\ w.sent[x] = <<>> => v.sent[x] = <<h>>
               /\ Place(w.list, x) # "none" => Place(v.list, x) = st
               /\ Orderly(v, w)
<1>. DEFINE a == SetState(w, x, st)
            v == Send(a, x, h)
<1>1. /\ a \in Worlds(t, M) /\ a.sent = w.sent
      /\ Place(w.list, x) # "none" => Place(a.list, x) = st
      /\ \A y : y # x => Place(a.list, y) = Place(w.list, y)
      /\ Orderly(a, w)
  BY SetStateIs
<1>. HIDE DEF a
<1>2. /\ v \in Worlds(t, M) /\ v.list = a.list /\ v.sent[x] = Append(a.sent[x], h)
      /\ \A y \in Streams \ {x} : v.sent[y] = a.sent[y]
      /\ Orderly(v, a)
  BY <1>1, SendIs
<1>. HIDE DEF v
<1>3. Append(<<>>, h) = <<h>>  OBVIOUS
<1>4. w.sent[x] = <<>> => v.sent[x] = <<h>>  BY <1>1, <1>2, <1>3
<1>5. \A y \in Streams \ {x} : SameFor(y, v, w)  BY <1>1, <1>2 DEF SameFor
<1>6. Orderly(v, w)  BY <1>1, <1>2, OrderlyTwice
<1>. QED  BY <1>1, <1>2, <1>4, <1>5, <1>6 DEF v, a

(* An entry goes, with the event for it. *)
LEMMA DropAndSend ==
    ASSUME NEW t, NEW M, NEW w \in Worlds(t, M), NEW x \in Streams, NEW h \in Hints
    PROVE  LET v == Send(Without(w, x), x, h)
           IN  /\ v \in Worlds(t, M)
               /\ \A y \in Streams \ {x} : SameFor(y, v, w)
               /\ w.sent[x] = <<>> => v.sent[x] = <<h>>
               /\ Place(v.list, x) = "none"
               /\ Orderly(v, w)
<1>. DEFINE a == Without(w, x)
            v == Send(a, x, h)
<1>1. /\ a \in Worlds(t, M) /\ a.sent = w.sent
      /\ Place(a.list, x) = "none"
      /\ \A y : y # x => Place(a.list, y) = Place(w.list, y)
      /\ Orderly(a, w)
  BY WithoutIs
<1>. HIDE DEF a
<1>2. /\ v \in Worlds(t, M) /\ v.list = a.list /\ v.sent[x] = Append(a.sent[x], h)
      /\ \A y \in Streams \ {x} : v.sent[y] = a.sent[y]
      /\ Orderly(v, a)
  BY <1>1, SendIs
<1>. HIDE DEF v
<1>3. Append(<<>>, h) = <<h>>  OBVIOUS
<1>4. w.sent[x] = <<>> => v.sent[x] = <<h>>  BY <1>1, <1>2, <1>3
<1>5. \A y \in Streams \ {x} : SameFor(y, v, w)  BY <1>1, <1>2 DEF SameFor
<1>6. Orderly(v, w)  BY <1>1, <1>2, OrderlyTwice
<1>. QED  BY <1>1, <1>2, <1>4, <1>5, <1>6 DEF v, a

(* A stream is stopped: its entry goes, and it may have been the last of a *)
(* session.                                                                *)
LEMMA StopAndSend ==
    ASSUME NEW t, NEW M, NEW w \in Worlds(t, M), NEW x \in Streams
    PROVE  LET v == Send(HandleLowPriorityEvent(Without(w, x), x), x, "STOP")
           IN  /\ v \in Worlds(t, M)
               /\ \A y \in Streams \ {x} : SameFor(y, v, w)
               /\ w.sent[x] = <<>> => v.sent[x] = <<"STOP">>
               /\ Place(v.list, x) = "none"
               /\ Orderly(v, w)
<1>. DEFINE a == Without(w, x)
            b == HandleLowPriorityEvent(a, x)
            v == Send(b, x, "STOP")
<1>1. /\ a \in Worlds(t, M) /\ a.sent = w.sent
      /\ Place(a.list, x) = "none"
      /\ \A y : y # x => Place(a.list, y) = Place(w.list, y)
      /\ Orderly(a, w)
  BY WithoutIs
<1>. HIDE DEF a
<1>2. b \in Worlds(t, M) /\ b.list = a.list /\ b.sent = a.sent /\ Orderly(b, a)
  BY <1>1, HandleLowPriorityIs
<1>. HIDE DEF b
<1>3. "STOP" \in Hints  BY DEF Hints
<1>4. /\ v \in Worlds(t, M) /\ v.list = b.list /\ v.sent[x] = Append(b.sent[x], "STOP")
      /\ \A y \in Streams \ {x} : v.sent[y] = b.sent[y]
      /\ Orderly(v, b)
  BY <1>2, <1>3, SendIs
<1>. HIDE DEF v
<1>5. Append(<<>>, "STOP") = <<"STOP">>  OBVIOUS
<1>6. w.sent[x] = <<>> => v.sent[x] = <<"STOP">>  BY <1>1, <1>2, <1>4, <1>5
<1>7. \A y \in Streams \ {x} : SameFor(y, v, w)  BY <1>1, <1>2, <1>4 DEF SameFor
<1>8. Orderly(v, w)  BY <1>1, <1>2, <1>4, OrderlyTwice
<1>. QED  BY <1>1, <1>2, <1>4, <1>6, <1>7, <1>8 DEF v, a, b

(* Where no session is on, none mixes or softens what the table says. *)
LEMMA QuietIs ==
    ASSUME NEW w, Quiet(w), NEW a \in Streams, NEW b \in Streams
    PROVE  /\ ~CanMixForSession(w, a, b)
           /\ \A e : UpdateHintTypeForExistingSession(w, a, e) = e.hint
<1>1. w.mode[Pid[a]] = "none" /\ w.mode[Pid[b]] = "none"  BY PidType DEF Quiet
<1>. QED  BY <1>1 DEF CanMixForSession, UpdateHintTypeForExistingSession

(* Two streams that may be heard together whatever the table says of their *)
(* types, and what it says.                                                *)
Shares(t, a, b) ==
    IsSameAppInShareMode(a, b) \/ t[a] \in ConcurrentSources[b] \/ t[b] \in ConcurrentSources[a]
Rule(t, a, b) == focusCfgMap[<<t[a], t[b]>>]

(* The places x may have in the list when s has come. *)
After(t, x, s) ==
    {g \in States \cup {"none"} :
       ~Shares(t, x, s) /\ Rule(t, x, s).actionOn = "CURRENT" =>
         /\ Rule(t, x, s).hint = "STOP" => g \in {"none", "PLACEHOLDER"}
         /\ Rule(t, x, s).hint = "PAUSE" => g \notin {"ACTIVE", "DUCK"}}

(* What a stream that gets the focus does to one entry of the list. *)
LEMMA ProcessExistIs ==
    ASSUME NEW t, NEW M, NEW w \in Worlds(t, M), NEW s \in Streams, NEW e \in Item
    PROVE  /\ ProcessExistInterrupt(w, s, e) \in Worlds(t, M)
           /\ Turn(w, e, ProcessExistInterrupt(w, s, e), Seq(Hints), After(t, e.id, s))
<1>. DEFINE x == e.id
            v == ProcessExistInterrupt(w, s, e)
            entry == Entry(w, x, s)
            hint == UpdateHintTypeForExistingSession(w, s, entry)
            concurrent == IsAudioSourceConcurrency(w, x, s)
            spared == \/ entry.actionOn # "CURRENT" \/ e.state = "PLACEHOLDER"
                      \/ IsSameAppInShareMode(s, x) \/ CanMixForSession(w, s, x)
            paused == Send(SetState(w, x, "PAUSE"), x, "PAUSE")
            duck == Send(SetState(w, x, "DUCK"), x, "DUCK")
<1>1. x \in Streams /\ e.state \in States /\ e.state # "none"  BY DEF Item, States
<1>2. \/ /\ v = w
         /\ ~spared /\ ~concurrent =>
               hint # "STOP" /\ (hint = "PAUSE" => e.state \notin {"ACTIVE", "DUCK"})
      \/ v = Send(HandleLowPriorityEvent(Without(w, x), x), x, "STOP")
      \/ e.state \in {"ACTIVE", "DUCK"} /\ v = paused /\ hint = "PAUSE"
      \/ e.state = "ACTIVE" /\ v = duck /\ hint = "DUCK"
  BY DEF ProcessExistInterrupt
<1>a. ASSUME Quiet(w)
      PROVE  /\ hint = Rule(t, x, s).hint /\ entry.actionOn = Rule(t, x, s).actionOn
             /\ ~CanMixForSession(w, s, x)
             /\ concurrent \/ IsSameAppInShareMode(s, x) <=> Shares(t, x, s)
  <2>1. entry = Rule(t, x, s) /\ w.type = t  BY DEF Worlds, Entry, Rule
  <2>2. hint = entry.hint /\ ~CanMixForSession(w, s, x)  BY <1>1, <1>a, QuietIs
  <2>3. concurrent \/ IsSameAppInShareMode(s, x) <=> Shares(t, x, s)
    BY <2>1 DEF IsAudioSourceConcurrency, Shares, IsSameAppInShareMode
  <2>. HIDE DEF entry, hint, concurrent
  <2>. QED  BY <2>1, <2>2, <2>3
<1>. HIDE DEF v, x, entry, hint, concurrent
<1>3. v \in Worlds(t, M)
  <2>1. {"PAUSE", "DUCK"} \subseteq States \cap Hints  BY DEF States, Hints
  <2>. QED  BY <1>1, <1>2, <2>1, SetAndSend, StopAndSend
<1>4. ASSUME Place(w.list, x) = e.state, w.sent[x] = <<>> PROVE Touches(w, x, v)
  <2>1. CASE v = w  BY <1>1, <1>4, <2>1, Still, OrderlySame DEF Touches, SameFor
  <2>2. CASE v = Send(HandleLowPriorityEvent(Without(w, x), x), x, "STOP")
    BY <1>1, <1>4, <2>2, StopAndSend DEF Touches, Moves
  <2>3. CASE e.state \in {"ACTIVE", "DUCK"} /\ v = Send(SetState(w, x, "PAUSE"), x, "PAUSE")
    <3>1. "PAUSE" \in States /\ "PAUSE" \in Hints  BY DEF States, Hints
    <3>. QED  BY <1>1, <1>4, <2>3, <3>1, SetAndSend DEF Touches, Moves
  <2>4. CASE e.state = "ACTIVE" /\ v = Send(SetState(w, x, "DUCK"), x, "DUCK")
    <3>1. "DUCK" \in States /\ "DUCK" \in Hints  BY DEF States, Hints
    <3>. QED  BY <1>1, <1>4, <2>4, <3>1, SetAndSend DEF Touches, Moves
  <2>. QED  BY <1>2, <2>1, <2>2, <2>3, <2>4
<1>5. Turn(w, e, v, Seq(Hints), After(t, x, s))
  <2>1. v.sent[x] \in Seq(Hints)  BY <1>1, <1>3 DEF Worlds
  <2>2. ASSUME Place(w.list, x) = e.state, Quiet(w) PROVE Place(v.list, x) \in After(t, x, s)
    <3>0. "PAUSE" \in States /\ "DUCK" \in States /\ "PAUSE" \in Hints /\ "DUCK" \in Hints
      BY DEF States, Hints
    <3>1. CASE v = w /\ (~spared /\ ~concurrent =>
                 hint # "STOP" /\ (hint = "PAUSE" => e.state \notin {"ACTIVE", "DUCK"}))
      BY <1>1, <1>a, <2>2, <3>1 DEF After, Shares, IsSameAppInShareMode
    <3>2. CASE v = Send(HandleLowPriorityEvent(Without(w, x), x), x, "STOP")
      <4>1. Place(v.list, x) = "none"  BY <1>1, <3>2, StopAndSend
      <4>. QED  BY <4>1 DEF After
    <3>3. CASE v = paused /\ hint = "PAUSE"
      <4>1. Place(v.list, x) = "PAUSE"  BY <1>1, <2>2, <3>0, <3>3, SetAndSend
      <4>. QED  BY <1>a, <2>2, <3>0, <3>3, <4>1 DEF After
    <3>4. CASE v = duck /\ hint = "DUCK"
      <4>1. Place(v.list, x) = "DUCK"  BY <1>1, <2>2, <3>0, <3>4, SetAndSend
      <4>. QED  BY <1>a, <2>2, <3>0, <3>4, <4>1 DEF After
    <3>. QED  BY <1>2, <3>1, <3>2, <3>3, <3>4
  <2>. QED  BY <1>4, <2>1, <2>2 DEF Turn, x
<1>. QED  BY <1>3, <1>5 DEF v, x

(* The entries of w's list have their turn one after the other: step is    *)
(* what the k-th does, fold the fold, and each gets to a place of its own  *)
(* set if no session is on.                                                *)
LEMMA EachInTurn ==
    ASSUME NEW t, NEW M, NEW w \in Worlds(t, M), w.sent = Nothing, NEW H, NEW G,
           NEW step \in [Worlds(t, M) \X (1..Len(w.list)) -> Worlds(t, M)],
           \A v \in Worlds(t, M), k \in 1..Len(w.list) : Turn(v, w.list[k], step[<<v, k>>], H, G[k]),
           NEW fold, FoldsIn(Worlds(t, M), fold, Len(w.list), w, step)
    PROVE  LET v == fold[1..Len(w.list)]
           IN  /\ v \in Worlds(t, M)
               /\ \A x \in Streams : /\ Moves(Place(w.list, x), v.sent[x], Place(v.list, x))
                                     /\ v.sent[x] = <<>> \/ v.sent[x] \in H
               /\ Orderly(v, w)
               /\ Quiet(w) => \A k \in 1..Len(w.list) : Place(v.list, w.list[k].id) \in G[k]
<1>. DEFINE q == w.list
            n == Len(q)
            W == Worlds(t, M)
<1>1. /\ Proper(q) /\ n \in Nat /\ DOMAIN q = 1..n /\ \A k \in 1..n : q[k] \in Item
  BY LenProperties, ElementOfSeq DEF Worlds, Proper
<1>2. \A k \in 1..n : q[k].id \in Streams  BY <1>1 DEF Item
<1>3. \A x \in Streams : w.sent[x] = <<>>  BY DEF Nothing
<1>4. w \in W /\ step \in [W \X (1..n) -> W]  OBVIOUS
<1>5. \A v \in W, k \in 1..n : Turn(v, q[k], step[<<v, k>>], H, G[k])  OBVIOUS
<1>6. PICK r \in [0..n -> W] : OneByOne(r, fold, n, w, step)
  <2>. HIDE DEF n, W
  <2>1. FoldsIn(W, fold, n, w, step)  BY DEF n, W
  <2>. QED  BY <1>1, <1>4, <2>1, FoldIs
<1>. HIDE DEF q, n, W
<1>. DEFINE Done(k, v) ==
              \A x \in Streams :
                IF \E i \in 1..k : q[i].id = x
                THEN /\ Moves(Place(q, x), v.sent[x], Place(v.list, x))
                     /\ v.sent[x] = <<>> \/ v.sent[x] \in H
                ELSE SameFor(x, v, w)
            Ends(k, v) ==
              /\ Orderly(v, w)
              /\ Quiet(w) => \A i \in 1..k : Place(v.list, q[i].id) \in G[i]
            T == {k \in 0..n : Done(k, r[k]) /\ Ends(k, r[k])}
<1>7. 0 \in T
  <2>1. r[0] = w /\ 1..0 = {} /\ 0 \in 0..n  BY <1>1, <1>6 DEF OneByOne
  <2>. QED  BY <2>1, OrderlySame DEF SameFor
<1>8. ASSUME NEW k \in 1..n, k - 1 \in T PROVE k \in T
  <2>. DEFINE old == r[k - 1]
              x == q[k].id
  <2>0. k \in 0..n /\ k - 1 \in 0..n  BY <1>1
  <2>1. old \in W /\ r[k] = step[<<old, k>>]  BY <1>6, <2>0 DEF OneByOne
  <2>2. Done(k - 1, old) /\ Ends(k - 1, old)  BY <1>8
  <2>3. x \in Streams /\ ~ \E i \in 1..(k - 1) : q[i].id = x
    <3>1. \A i \in 1..(k - 1) : i \in DOMAIN q /\ k \in DOMAIN q /\ i # k  BY <1>1
    <3>. QED  BY <1>2, <3>1, <1>1 DEF Proper
  <2>. HIDE DEF old
  <2>4. SameFor(x, old, w)  BY <2>2, <2>3
  <2>5. Place(q, x) = q[k].state  BY <1>1, PlaceAt
  <2>6. Place(old.list, x) = q[k].state /\ old.sent[x] = <<>>
    BY <1>3, <2>3, <2>4, <2>5 DEF SameFor, q
  <2>7. /\ Touches(old, x, r[k])
        /\ r[k].sent[x] = <<>> \/ r[k].sent[x] \in H
        /\ Quiet(old) => Place(r[k].list, x) \in G[k]
    BY <1>5, <2>1, <2>6 DEF Turn
  <2>8. ASSUME NEW y \in Streams
        PROVE  IF \E i \in 1..k : q[i].id = y
               THEN /\ Moves(Place(q, y), r[k].sent[y], Place(r[k].list, y))
                    /\ r[k].sent[y] = <<>> \/ r[k].sent[y] \in H
               ELSE SameFor(y, r[k], w)
    <3>1. CASE y = x
      <4>1. \E i \in 1..k : q[i].id = y  BY <1>1, <3>1
      <4>. QED  BY <2>5, <2>6, <2>7, <3>1, <4>1 DEF Touches
    <3>2. CASE y # x
      <4>1. SameFor(y, r[k], old)  BY <2>7, <3>2 DEF Touches
      <4>2. (\E i \in 1..k : q[i].id = y) <=> \E i \in 1..(k - 1) : q[i].id = y  BY <1>1, <3>2
      <4>3. IF \E i \in 1..(k - 1) : q[i].id = y
            THEN /\ Moves(Place(q, y), old.sent[y], Place(old.list, y))
                 /\ old.sent[y] = <<>> \/ old.sent[y] \in H
            ELSE SameFor(y, old, w)
        BY <2>2
      <4>4. CASE \E i \in 1..(k - 1) : q[i].id = y
        <5>1. old.sent[y] = r[k].sent[y] /\ Place(old.list, y) = Place(r[k].list, y)
          BY <4>1 DEF SameFor
        <5>. QED  BY <4>2, <4>3, <4>4, <5>1
      <4>5. CASE ~ \E i \in 1..(k - 1) : q[i].id = y
        BY <4>1, <4>2, <4>3, <4>5 DEF SameFor
      <4>. QED  BY <4>4, <4>5
    <3>. QED  BY <3>1, <3>2
  <2>9. Orderly(r[k], w)  BY <2>2, <2>7, OrderlyTwice DEF Touches
  <2>10. ASSUME Quiet(w), NEW i \in 1..k PROVE Place(r[k].list, q[i].id) \in G[i]
    <3>1. CASE i = k  BY <2>2, <2>7, <2>10, <3>1 DEF Orderly
    <3>2. CASE i # k
      <4>1. i \in 1..(k - 1) /\ q[i].id \in Streams /\ q[i].id # x
        BY <1>1, <1>2, <2>3, <3>2
      <4>2. Place(old.list, q[i].id) \in G[i]  BY <2>2, <2>10, <4>1
      <4>. QED  BY <2>7, <4>1, <4>2 DEF Touches, SameFor
    <3>. QED  BY <3>1, <3>2
  <2>. QED  BY <2>0, <2>8, <2>9, <2>10
<1>9. n \in T
  <2>1. \A k \in 1..n : k - 1 \in T => k \in T  BY <1>8
  <2>. HIDE DEF T
  <2>2. 0..n \subseteq T  BY <1>1, <1>7, <2>1, CountUp
  <2>. QED  BY <1>1, <2>2
<1>10. r[n] \in W /\ r[n] = fold[1..n]  BY <1>1, <1>6 DEF OneByOne
<1>11. ASSUME NEW x \in Streams
       PROVE  /\ Moves(Place(q, x), r[n].sent[x], Place(r[n].list, x))
              /\ r[n].sent[x] = <<>> \/ r[n].sent[x] \in H
  <2>1. CASE \E i \in 1..n : q[i].id = x  BY <1>9, <2>1
  <2>2. CASE ~ \E i \in 1..n : q[i].id = x
    <3>1. SameFor(x, r[n], w)  BY <1>9, <2>2
    <3>2. r[n].sent[x] = <<>> /\ Place(r[n].list, x) = Place(q, x)  BY <1>3, <3>1 DEF SameFor, q
    <3>. QED  BY <3>2, Still
  <2>. QED  BY <2>1, <2>2
<1>12. Orderly(r[n], w) /\ (Quiet(w) => \A k \in 1..n : Place(r[n].list, q[k].id) \in G[k])
  BY <1>9
<1>. QED  BY <1>10, <1>11, <1>12 DEF q, n, W

(* ProcessActiveInterrupt goes through the list: every stream moves once. *)
LEMMA ProcessActiveIs ==
    ASSUME NEW t, NEW M, NEW w \in Worlds(t, M), w.sent = Nothing,
           NEW s \in Streams
    PROVE  LET v == ProcessActiveInterrupt(w, s)
           IN  /\ v \in Worlds(t, M)
               /\ \A x \in Streams : Moves(Place(w.list, x), v.sent[x], Place(v.list, x))
               /\ Orderly(v, w)
               /\ Quiet(w) => \A k \in 1..Len(w.list) :
                                Place(v.list, w.list[k].id) \in After(t, w.list[k].id, s)
<1>. DEFINE q == w.list
            n == Len(q)
            W == Worlds(t, M)
            Step(v, i) == ProcessExistInterrupt(v, s, q[i])
            Runs(g) == g = [S \in SUBSET DOMAIN q |->
                              IF S = {} THEN w ELSE Step(g[S \ {Max(S)}], Max(S))]
            fold == CHOOSE g : Runs(g)
            step == [a \in W \X (1..n) |-> Step(a[1], a[2])]
            G == [i \in 1..n |-> After(t, q[i].id, s)]
<1>1. /\ Proper(q) /\ n \in Nat /\ DOMAIN q = 1..n /\ \A k \in 1..n : q[k] \in Item
  BY LenProperties, ElementOfSeq DEF Worlds, Proper
<1>2. ASSUME NEW v \in W, NEW i \in 1..n 
      PROVE  Step(v, i) \in W /\ Turn(v, q[i], Step(v, i), Seq(Hints), G[i])
  BY <1>1, ProcessExistIs
<1>3. ProcessActiveInterrupt(w, s) = fold[1..n]
  BY <1>1 DEF ProcessActiveInterrupt, FoldLeft, MapThenFoldSet
<1>. HIDE DEF Step, W, n
<1>4. step \in [W \X (1..n) -> W]  BY <1>2
<1>5. \A v \in W, i \in 1..n : step[<<v, i>>] = Step(v, i)  OBVIOUS
<1>. HIDE DEF step
<1>6. w \in W  BY DEF W
<1>7. \E g : Runs(g)
  <2>1. PICK g \in [SUBSET (1..n) -> W] : Computes(g, n, w, step)  BY <1>1, <1>4, <1>6, FoldRuns
  <2>2. ASSUME NEW S \in SUBSET (1..n), S # {}
        PROVE  step[<<g[S \ {Max(S)}], Max(S)>>] = Step(g[S \ {Max(S)}], Max(S))
    <3>1. Max(S) \in 1..n  BY <1>1, <2>2, MaxIs
    <3>. QED  BY <1>5, <3>1
  <2>3. Runs(g)  BY <1>1, <2>1, <2>2 DEF Computes
  <2>. QED  BY <2>3
<1>8. Runs(fold)  BY <1>7
<1>. HIDE DEF fold
<1>9. FoldsIn(W, fold, n, w, step)
  <2>1. ASSUME NEW S \in SUBSET (1..n), S # {}, fold[S \ {Max(S)}] \in W
        PROVE  fold[S] = step[<<fold[S \ {Max(S)}], Max(S)>>]
    <3>1. Max(S) \in 1..n  BY <1>1, <2>1, MaxIs
    <3>2. fold[S] = Step(fold[S \ {Max(S)}], Max(S))  BY <1>1, <1>8, <2>1
    <3>. QED  BY <1>5, <2>1, <3>1, <3>2
  <2>2. fold[{}] = w  BY <1>8
  <2>. QED  BY <2>1, <2>2 DEF FoldsIn
<1>10. \A v \in W, i \in 1..n : Turn(v, q[i], step[<<v, i>>], Seq(Hints), G[i])  BY <1>2, <1>5
<1>. DEFINE v == fold[1..n]
<1>. HIDE DEF G
<1>11. /\ v \in W /\ Orderly(v, w)
       /\ \A x \in Streams : Moves(Place(w.list, x), v.sent[x], Place(v.list, x))
       /\ Quiet(w) => \A k \in 1..n : Place(v.list, q[k].id) \in G[k]
  BY <1>4, <1>9, <1>10, EachInTurn DEF W, n
<1>. HIDE DEF v
<1>. QED  BY <1>3, <1>11 DEF W, v, n, G

(* Where a stream may be once a change of state has been announced. *)
Settled(new) == {g \in States \cup {"none"} :
                   new \in {"ACTIVE", "DUCK", "PAUSE"} => g \in {new, "none", "PLACEHOLDER"}}

(* What a change of state, from the old list to the simulated one, sends. *)
LEMMA SendInterruptIs ==
    ASSUME NEW t, NEW M, NEW w \in Worlds(t, M), NEW e \in Item, NEW new
    PROVE  /\ SendInterruptEvent(w, e.id, e.state, new) \in Worlds(t, M)
           /\ Turn(w, e, SendInterruptEvent(w, e.id, e.state, new), Seq(Hints), Settled(new))
<1>. DEFINE x == e.id
            old == e.state
            v == SendInterruptEvent(w, x, old, new)
<1>1. x \in Streams /\ old \in States /\ old # "none"  BY DEF Item, States
<1>2. /\ "RESUME" \in Hints /\ "UNDUCK" \in Hints /\ "DUCK" \in Hints /\ "PAUSE" \in Hints
      /\ "ACTIVE" \in States /\ "DUCK" \in States /\ "PAUSE" \in States
  BY DEF Hints, States
<1>3. \/ v = w /\ (new \in {"ACTIVE", "DUCK", "PAUSE"} => old \in {new, "PLACEHOLDER"})
      \/ old = "PAUSE" /\ v = Send(Without(w, x), x, "RESUME")
      \/ old = "DUCK" /\ v = Send(SetState(w, x, "ACTIVE"), x, "UNDUCK") /\ new = "ACTIVE"
      \/ old = "ACTIVE" /\ v = Send(SetState(w, x, "DUCK"), x, "DUCK") /\ new = "DUCK"
      \/ /\ old = "DUCK" /\ v = Send(Send(SetState(w, x, "PAUSE"), x, "UNDUCK"), x, "PAUSE")
         /\ new = "PAUSE"
      \/ old = "ACTIVE" /\ v = Send(SetState(w, x, "PAUSE"), x, "PAUSE") /\ new = "PAUSE"
  BY <1>1 DEF SendInterruptEvent, States
<1>. HIDE DEF v, x, old
<1>. DEFINE a == Send(SetState(w, x, "PAUSE"), x, "UNDUCK")
<1>5. /\ a \in Worlds(t, M)
      /\ \A y \in Streams \ {x} : SameFor(y, a, w)
      /\ Orderly(a, w)
      /\ w.sent[x] = <<>> => a.sent[x] = <<"UNDUCK">>
      /\ Place(w.list, x) # "none" => Place(a.list, x) = "PAUSE"
  BY <1>1, <1>2, SetAndSend
<1>. HIDE DEF a
<1>. DEFINE b == Send(a, x, "PAUSE")
<1>6. /\ b \in Worlds(t, M)
      /\ \A y \in Streams \ {x} : SameFor(y, b, w)
      /\ Orderly(b, w)
      /\ w.sent[x] = <<>> => b.sent[x] = <<"UNDUCK", "PAUSE">>
      /\ Place(w.list, x) # "none" => Place(b.list, x) = "PAUSE"
  <2>1. /\ b \in Worlds(t, M) /\ b.list = a.list /\ b.sent[x] = Append(a.sent[x], "PAUSE")
        /\ \A y \in Streams \ {x} : b.sent[y] = a.sent[y]
        /\ Orderly(b, a)
    BY <1>1, <1>2, <1>5, SendIs
  <2>2. Append(<<"UNDUCK">>, "PAUSE") = <<"UNDUCK", "PAUSE">>
    <3>. DEFINE h == Append(<<"UNDUCK">>, "PAUSE")
                g == <<"UNDUCK", "PAUSE">>
    <3>1. <<"UNDUCK">> \in Seq(Hints) /\ Len(<<"UNDUCK">>) = 1 /\ g \in Seq(Hints) /\ Len(g) = 2
      BY <1>2
    <3>2. h \in Seq(Hints) /\ Len(h) = 2 /\ h[1] = "UNDUCK" /\ h[2] = "PAUSE"
      BY <1>2, <3>1, AppendProperties
    <3>3. \A i \in 1..Len(h) : h[i] = g[i]  BY <3>2
    <3>. HIDE DEF h, g
    <3>. QED  BY <3>1, <3>2, <3>3, SeqEqual DEF h, g
  <2>. HIDE DEF b
  <2>3. Orderly(b, w)  BY <1>5, <2>1, OrderlyTwice
  <2>. QED  BY <1>5, <2>1, <2>2, <2>3 DEF SameFor
<1>. HIDE DEF b
<1>7. v \in Worlds(t, M)
  <2>1. v = w => v \in Worlds(t, M)  OBVIOUS
  <2>2. v = b => v \in Worlds(t, M)  BY <1>6
  <2>. QED  BY <1>1, <1>2, <1>3, <2>1, <2>2, SetAndSend, DropAndSend DEF b, a
<1>8. ASSUME Place(w.list, x) = old, w.sent[x] = <<>> PROVE Touches(w, x, v)
  <2>1. CASE v = w  BY <1>8, <2>1, Still, OrderlySame DEF Touches, SameFor
  <2>2. CASE old = "PAUSE" /\ v = Send(Without(w, x), x, "RESUME")
    BY <1>1, <1>2, <1>8, <2>2, DropAndSend DEF Touches, Moves
  <2>3. CASE old = "DUCK" /\ v = Send(SetState(w, x, "ACTIVE"), x, "UNDUCK")
    BY <1>1, <1>2, <1>8, <2>3, SetAndSend DEF Touches, Moves
  <2>4. CASE old = "ACTIVE" /\ v = Send(SetState(w, x, "DUCK"), x, "DUCK")
    BY <1>1, <1>2, <1>8, <2>4, SetAndSend DEF Touches, Moves
  <2>5. CASE old = "DUCK" /\ v = b
    BY <1>1, <1>6, <1>8, <2>5 DEF Touches, Moves
  <2>6. CASE old = "ACTIVE" /\ v = Send(SetState(w, x, "PAUSE"), x, "PAUSE")
    BY <1>1, <1>2, <1>8, <2>6, SetAndSend DEF Touches, Moves
  <2>. QED  BY <1>3, <2>1, <2>2, <2>3, <2>4, <2>5, <2>6 DEF a, b
<1>9. Turn(w, e, v, Seq(Hints), Settled(new))
  <2>1. v.sent[x] \in Seq(Hints)  BY <1>1, <1>7 DEF Worlds
  <2>2. ASSUME Place(w.list, x) = old PROVE Place(v.list, x) \in Settled(new)
    <3>1. CASE v = w /\ (new \in {"ACTIVE", "DUCK", "PAUSE"} => old \in {new, "PLACEHOLDER"})
      BY <1>1, <2>2, <3>1 DEF Settled
    <3>2. CASE v = Send(Without(w, x), x, "RESUME")
      <4>1. Place(v.list, x) = "none"  BY <1>1, <1>2, <3>2, DropAndSend
      <4>. QED  BY <4>1 DEF Settled
    <3>3. CASE v = b /\ new = "PAUSE"  BY <1>1, <1>2, <1>6, <2>2, <3>3 DEF Settled
    <3>4. CASE \E h \in Hints : new \in States /\ v = Send(SetState(w, x, new), x, h)
      <4>1. Place(v.list, x) = new  BY <1>1, <2>2, <3>4, SetAndSend
      <4>. QED  BY <3>4, <4>1 DEF Settled
    <3>. QED  BY <1>2, <1>3, <3>1, <3>2, <3>3, <3>4 DEF a, b
  <2>. QED  BY <1>8, <2>1, <2>2 DEF Turn, x, old
<1>. QED  BY <1>7, <1>9 DEF v, x, old

(* ResumeAudioFocusList goes through the list: every stream moves once. *)
LEMMA ResumeIs ==
    ASSUME NEW t, NEW M, NEW w \in Worlds(t, M), w.sent = Nothing, NEW timeout
    PROVE  LET v == ResumeAudioFocusList(w, timeout)
           IN  /\ v \in Worlds(t, M)
               /\ \A x \in Streams : Moves(Place(w.list, x), v.sent[x], Place(v.list, x))
               /\ Orderly(v, w)
               /\ Quiet(w) => \A k \in 1..Len(w.list) :
                     Place(v.list, w.list[k].id) \in Settled(SimulateFocusEntry(w)[k].state)
<1>. DEFINE q == w.list
            n == Len(q)
            W == Worlds(t, M)
            new == SimulateFocusEntry(w)
            places == [i \in DOMAIN q |-> i]
            Step(v, i) == IF timeout /\ q[i].state = "PAUSE" /\ new[i].state \in {"ACTIVE", "DUCK"}
                          THEN Send(Without(v, q[i].id), q[i].id, "STOP")
                          ELSE SendInterruptEvent(v, q[i].id, q[i].state, new[i].state)
            Runs(g) == g = [S \in SUBSET DOMAIN places |->
                              IF S = {} THEN w ELSE Step(g[S \ {Max(S)}], places[Max(S)])]
            fold == CHOOSE g : Runs(g)
            step == [a \in W \X (1..n) |-> Step(a[1], a[2])]
            G == [i \in 1..n |-> Settled(new[i].state)]
<1>1. /\ Proper(q) /\ n \in Nat /\ DOMAIN q = 1..n /\ \A k \in 1..n : q[k] \in Item
  BY LenProperties, ElementOfSeq DEF Worlds, Proper
<1>a. \A k \in 1..n : places[k] = k  BY <1>1
<1>2. ASSUME NEW v \in W, NEW i \in 1..n 
      PROVE  Step(v, i) \in W /\ Turn(v, q[i], Step(v, i), Seq(Hints), G[i])
  <2>. HIDE DEF new
  <2>1. q[i] \in Item /\ q[i].id \in Streams  BY <1>1 DEF Item
  <2>2. CASE timeout /\ q[i].state = "PAUSE" /\ new[i].state \in {"ACTIVE", "DUCK"}
    <3>. DEFINE u == Send(Without(v, q[i].id), q[i].id, "STOP")
    <3>1. /\ u \in Worlds(t, M) /\ \A y \in Streams \ {q[i].id} : SameFor(y, u, v)
          /\ v.sent[q[i].id] = <<>> => u.sent[q[i].id] = <<"STOP">>
          /\ Place(u.list, q[i].id) = "none" /\ Orderly(u, v)
      <4>1. "STOP" \in Hints  BY DEF Hints
      <4>2. v \in Worlds(t, M)  OBVIOUS
      <4>. QED  BY <2>1, <4>1, <4>2, DropAndSend
    <3>2. Step(v, i) = u  BY <2>2
    <3>. HIDE DEF u, Step
    <3>3. u.sent[q[i].id] \in Seq(Hints)  BY <2>1, <3>1 DEF Worlds
    <3>4. Turn(v, q[i], u, Seq(Hints), G[i])  BY <2>2, <3>1, <3>3 DEF Turn, Touches, Moves, Settled
    <3>. QED  BY <3>1, <3>2, <3>4
  <2>3. CASE ~(timeout /\ q[i].state = "PAUSE" /\ new[i].state \in {"ACTIVE", "DUCK"})
    <3>1. Step(v, i) = SendInterruptEvent(v, q[i].id, q[i].state, new[i].state)  BY <2>3
    <3>. HIDE DEF Step
    <3>. QED  BY <2>1, <3>1, SendInterruptIs
  <2>. QED  BY <2>2, <2>3
<1>3. ResumeAudioFocusList(w, timeout) = fold[1..n]
  BY <1>1 DEF ResumeAudioFocusList, FoldLeft, MapThenFoldSet
<1>b. DOMAIN places = 1..n  BY <1>1
<1>. HIDE DEF Step, W, n, places
<1>4. step \in [W \X (1..n) -> W]  BY <1>2
<1>5. \A v \in W, i \in 1..n : step[<<v, i>>] = Step(v, i)  OBVIOUS
<1>. HIDE DEF step
<1>6. w \in W  BY DEF W
<1>7. \E g : Runs(g)
  <2>1. PICK g \in [SUBSET (1..n) -> W] : Computes(g, n, w, step)  BY <1>1, <1>4, <1>6, FoldRuns
  <2>2. ASSUME NEW S \in SUBSET (1..n), S # {}
        PROVE  step[<<g[S \ {Max(S)}], Max(S)>>] = Step(g[S \ {Max(S)}], places[Max(S)])
    <3>1. Max(S) \in 1..n  BY <1>1, <2>2, MaxIs
    <3>. QED  BY <1>a, <1>5, <3>1
  <2>3. Runs(g)  BY <1>b, <2>1, <2>2 DEF Computes
  <2>. QED  BY <2>3
<1>8. Runs(fold)  BY <1>7
<1>. HIDE DEF fold
<1>9. FoldsIn(W, fold, n, w, step)
  <2>1. ASSUME NEW S \in SUBSET (1..n), S # {}, fold[S \ {Max(S)}] \in W
        PROVE  fold[S] = step[<<fold[S \ {Max(S)}], Max(S)>>]
    <3>1. Max(S) \in 1..n  BY <1>1, <2>1, MaxIs
    <3>2. fold[S] = Step(fold[S \ {Max(S)}], Max(S))  BY <1>a, <1>b, <1>8, <2>1, <3>1
    <3>. QED  BY <1>5, <2>1, <3>1, <3>2
  <2>2. fold[{}] = w  BY <1>8
  <2>. QED  BY <2>1, <2>2 DEF FoldsIn
<1>10. \A v \in W, i \in 1..n : Turn(v, q[i], step[<<v, i>>], Seq(Hints), G[i])  BY <1>2, <1>5
<1>. DEFINE v == fold[1..n]
<1>. HIDE DEF G
<1>11. /\ v \in W /\ Orderly(v, w)
       /\ \A x \in Streams : Moves(Place(w.list, x), v.sent[x], Place(v.list, x))
       /\ Quiet(w) => \A k \in 1..n : Place(v.list, q[k].id) \in G[k]
  BY <1>4, <1>9, <1>10, EachInTurn DEF W, n
<1>. HIDE DEF v, new
<1>. QED  BY <1>3, <1>11 DEF W, v, n, G, new

(* When the account changes, those that are not of the modem are stopped. *)
LEMMA AccountsChangedIs ==
    ASSUME NEW t, NEW M, NEW w \in Worlds(t, M), w.sent = Nothing
    PROVE  LET v == ClearAudioFocusInfoListOnAccountsChanged(w)
           IN  /\ v \in Worlds(t, M)
               /\ \A x \in Streams : /\ Moves(Place(w.list, x), v.sent[x], Place(v.list, x))
                                     /\ v.sent[x] \in {<<>>, <<"STOP">>}
               /\ Orderly(v, w)
<1>. DEFINE q == w.list
            n == Len(q)
            W == Worlds(t, M)
            Step(v, i) == IF w.type[q[i].id] \in ModemTypes THEN v
                          ELSE Send(Without(v, q[i].id), q[i].id, "STOP")
            Runs(g) == g = [S \in SUBSET DOMAIN q |->
                              IF S = {} THEN w ELSE Step(g[S \ {Max(S)}], Max(S))]
            fold == CHOOSE g : Runs(g)
            step == [a \in W \X (1..n) |-> Step(a[1], a[2])]
            G == [i \in 1..n |-> States \cup {"none"}]
<1>1. /\ Proper(q) /\ n \in Nat /\ DOMAIN q = 1..n /\ \A k \in 1..n : q[k] \in Item
  BY LenProperties, ElementOfSeq DEF Worlds, Proper
<1>2. ASSUME NEW v \in W, NEW i \in 1..n 
      PROVE  Step(v, i) \in W /\ Turn(v, q[i], Step(v, i), {<<"STOP">>}, G[i])
  <2>1. q[i] \in Item /\ q[i].id \in Streams /\ q[i].state # "none"  BY <1>1 DEF Item, States
  <2>2. CASE Step(v, i) = v
    <3>. HIDE DEF Step
    <3>1. Place(v.list, q[i].id) \in G[i]  BY PlaceType DEF Worlds
    <3>. QED  BY <2>2, <3>1, Still, OrderlySame DEF Turn, Touches, SameFor
  <2>3. CASE Step(v, i) = Send(Without(v, q[i].id), q[i].id, "STOP")
    <3>. DEFINE u == Send(Without(v, q[i].id), q[i].id, "STOP")
    <3>1. /\ u \in Worlds(t, M) /\ \A y \in Streams \ {q[i].id} : SameFor(y, u, v)
          /\ v.sent[q[i].id] = <<>> => u.sent[q[i].id] = <<"STOP">>
          /\ Place(u.list, q[i].id) = "none" /\ Orderly(u, v)
      <4>1. "STOP" \in Hints  BY DEF Hints
      <4>2. v \in Worlds(t, M)  OBVIOUS
      <4>. QED  BY <2>1, <4>1, <4>2, DropAndSend
    <3>2. Step(v, i) = u  BY <2>3
    <3>. HIDE DEF u, Step
    <3>3. Turn(v, q[i], u, {<<"STOP">>}, G[i])  BY <2>1, <3>1 DEF Turn, Touches, Moves
    <3>. QED  BY <3>1, <3>2, <3>3
  <2>. QED  BY <2>2, <2>3
<1>3. ClearAudioFocusInfoListOnAccountsChanged(w) = fold[1..n]
  BY <1>1 DEF ClearAudioFocusInfoListOnAccountsChanged, FoldLeft, MapThenFoldSet
<1>. HIDE DEF Step, W, n
<1>4. step \in [W \X (1..n) -> W]  BY <1>2
<1>5. \A v \in W, i \in 1..n : step[<<v, i>>] = Step(v, i)  OBVIOUS
<1>. HIDE DEF step
<1>6. w \in W  BY DEF W
<1>7. \E g : Runs(g)
  <2>1. PICK g \in [SUBSET (1..n) -> W] : Computes(g, n, w, step)  BY <1>1, <1>4, <1>6, FoldRuns
  <2>2. ASSUME NEW S \in SUBSET (1..n), S # {}
        PROVE  step[<<g[S \ {Max(S)}], Max(S)>>] = Step(g[S \ {Max(S)}], Max(S))
    <3>1. Max(S) \in 1..n  BY <1>1, <2>2, MaxIs
    <3>. QED  BY <1>5, <3>1
  <2>3. Runs(g)  BY <1>1, <2>1, <2>2 DEF Computes
  <2>. QED  BY <2>3
<1>8. Runs(fold)  BY <1>7
<1>. HIDE DEF fold
<1>9. FoldsIn(W, fold, n, w, step)
  <2>1. ASSUME NEW S \in SUBSET (1..n), S # {}, fold[S \ {Max(S)}] \in W
        PROVE  fold[S] = step[<<fold[S \ {Max(S)}], Max(S)>>]
    <3>1. Max(S) \in 1..n  BY <1>1, <2>1, MaxIs
    <3>2. fold[S] = Step(fold[S \ {Max(S)}], Max(S))  BY <1>1, <1>8, <2>1
    <3>. QED  BY <1>5, <2>1, <3>1, <3>2
  <2>2. fold[{}] = w  BY <1>8
  <2>. QED  BY <2>1, <2>2 DEF FoldsIn
<1>10. \A v \in W, i \in 1..n : Turn(v, q[i], step[<<v, i>>], {<<"STOP">>}, G[i])  BY <1>2, <1>5
<1>. DEFINE v == fold[1..n]
<1>. HIDE DEF G
<1>11. /\ v \in W /\ Orderly(v, w)
       /\ \A x \in Streams : Moves(Place(w.list, x), v.sent[x], Place(v.list, x))
       /\ \A x \in Streams : v.sent[x] = <<>> \/ v.sent[x] \in {<<"STOP">>}
  BY <1>4, <1>9, <1>10, EachInTurn DEF W, n
<1>. HIDE DEF v
<1>. QED  BY <1>3, <1>11 DEF W, v

-----------------------------------------------------------------------------
(* The worst of some states is one of them. *)
LEMMA WorstIs ==
    ASSUME NEW S \in SUBSET {"ACTIVE", "DUCK", "PAUSE"}, S # {}
    PROVE  Worst(S) \in S /\ ("PAUSE" \in S => Worst(S) = "PAUSE")
<1>1. Rank["ACTIVE"] = 0 /\ Rank["DUCK"] = 1 /\ Rank["PAUSE"] = 2  BY DEF Rank
<1>2. \E x \in S : \A y \in S : Rank[y] <= Rank[x]
  <2>1. CASE "PAUSE" \in S  BY <1>1, <2>1
  <2>2. CASE "PAUSE" \notin S /\ "DUCK" \in S  BY <1>1, <2>2
  <2>3. CASE "PAUSE" \notin S /\ "DUCK" \notin S
    <3>1. S = {"ACTIVE"}  BY <2>3
    <3>. QED  BY <1>1, <3>1
  <2>. QED  BY <2>1, <2>2, <2>3
<1>3. Worst(S) \in S /\ \A y \in S : Rank[y] <= Rank[Worst(S)]  BY <1>2 DEF Worst
<1>4. ASSUME "PAUSE" \in S PROVE Worst(S) = "PAUSE"
  <2>1. Rank["PAUSE"] <= Rank[Worst(S)] /\ Worst(S) \in {"ACTIVE", "DUCK", "PAUSE"}  BY <1>3, <1>4
  <2>. HIDE DEF Worst
  <2>. QED  BY <1>1, <2>1
<1>. QED  BY <1>3, <1>4

(* What the table says: it acts on one of the two, and an incoming stream  *)
(* that is to stop is rejected.                                            *)
LEMMA RuleIs ==
    ASSUME NEW t \in [Streams -> FocusTypes], NEW a \in Streams, NEW b \in Streams,
           <<t[a], t[b]>> \notin Missing
    PROVE  /\ Rule(t, a, b).actionOn \in {"CURRENT", "INCOMING"}
           /\ Rule(t, a, b).hint \in {"STOP", "PAUSE", "DUCK", "NONE"}
           /\ Rule(t, a, b).hint = "STOP" /\ Rule(t, a, b).actionOn = "INCOMING" => Rule(t, a, b).isReject
<1>. DEFINE pair == <<t[a], t[b]>>
            e == Rule(t, a, b)
<1>1. pair \in (FocusTypes \X FocusTypes) \ Missing  OBVIOUS
<1>2. e = FocusEntry(pair)  BY <1>1 DEF Rule, focusCfgMap
<1>. HIDE DEF e, pair
<1>3. e.actionOn \in {"CURRENT", "INCOMING"}  BY <1>2 DEF FocusEntry
<1>4. e.hint \in {"STOP", "PAUSE", "DUCK", "NONE"}  BY <1>2 DEF FocusEntry
<1>5. e.hint = "STOP" /\ e.actionOn = "INCOMING" => e.isReject
  <2>1. e.hint = "STOP" => pair \in Denied \cup StopExisting  BY <1>2 DEF FocusEntry
  <2>2. e.actionOn = "INCOMING" => pair \notin StopExisting  BY <1>2 DEF FocusEntry
  <2>3. pair \in Denied => e.isReject  BY <1>2 DEF FocusEntry
  <2>. QED  BY <2>1, <2>2, <2>3
<1>. QED  BY <1>3, <1>4, <1>5 DEF e

(* A stream s is let in beside x, and gets the state st.                   *)
Welcome(t, x, s, st) ==
    /\ ~IsSameAppInShareMode(x, s) => <<t[x], t[s]>> \notin Missing
    /\ ~Shares(t, x, s) /\ Rule(t, x, s).actionOn # "CURRENT" =>
          Rule(t, x, s).hint # "STOP" /\ (Rule(t, x, s).hint = "PAUSE" => st = "PAUSE")

(* ProcessFocusEntry denies, or says in which state the stream gets the    *)
(* focus.                                                                  *)
LEMMA ProcessFocusEntryIs ==
    ASSUME NEW t \in [Streams -> FocusTypes], NEW M, NEW w \in Worlds(t, M), NEW s \in Streams
    PROVE  LET st == ProcessFocusEntry(w, s)
           IN  /\ st \in {"INVALID", "STOP", "ACTIVE", "DUCK", "PAUSE"}
               /\ st \notin {"INVALID", "STOP"} /\ Quiet(w) =>
                     \A i \in DOMAIN w.list : w.list[i].state # "PLACEHOLDER" =>
                        Welcome(t, w.list[i].id, s, st)
<1>. DEFINE Id(i) == w.list[i].id
            others == {i \in DOMAIN w.list : ~IsSameAppInShareMode(s, Id(i))}
            missing == {i \in others : <<w.type[Id(i)], w.type[s]>> \in Missing}
            asking == {i \in others \ missing :
                         LET e == Entry(w, Id(i), s)
                         IN /\ e.actionOn # "CURRENT" /\ w.list[i].state # "PLACEHOLDER"
                            /\ ~CanMixForSession(w, s, Id(i))
                            /\ ~(e.hint \in {"PAUSE", "STOP"} /\ IsAudioSourceConcurrency(w, Id(i), s))}
            rejecting == {i \in asking : Entry(w, Id(i), s).isReject}
            asked == {"ACTIVE"} \cup {HINT_STATE_MAP[Entry(w, Id(i), s).hint] : i \in asking}
            st == ProcessFocusEntry(w, s)
<1>1. st = IF \E i \in missing : \A j \in rejecting : i < j THEN "INVALID"
           ELSE IF rejecting # {} THEN "STOP" ELSE Worst(asked)
  BY DEF ProcessFocusEntry
<1>a. w.type = t /\ \A i \in DOMAIN w.list : Id(i) \in Streams
  <2>1. w.type = t /\ \A i \in DOMAIN w.list : w.list[i] \in Item
    BY ElementOfSeq, LenProperties DEF Worlds
  <2>. QED  BY <2>1 DEF Item
<1>b. ASSUME NEW i \in DOMAIN w.list PROVE Entry(w, Id(i), s) = Rule(t, Id(i), s)
  BY <1>a DEF Entry, Rule
<1>2. ASSUME rejecting = {}, NEW i \in asking
      PROVE  HINT_STATE_MAP[Entry(w, Id(i), s).hint] \in {"ACTIVE", "DUCK", "PAUSE"}
  <2>. DEFINE e == Rule(t, Id(i), s)
  <2>1. i \in DOMAIN w.list /\ <<t[Id(i)], t[s]>> \notin Missing /\ Id(i) \in Streams  BY <1>a
  <2>2. Entry(w, Id(i), s) = e  BY <1>b, <2>1
  <2>3. e.actionOn # "CURRENT" /\ ~e.isReject  BY <1>2, <2>2
  <2>4. e.hint \in {"PAUSE", "DUCK", "NONE"}  BY <2>1, <2>3, RuleIs
  <2>. HIDE DEF e
  <2>5. HINT_STATE_MAP[e.hint] \in {"ACTIVE", "DUCK", "PAUSE"}  BY <2>4 DEF HINT_STATE_MAP
  <2>. QED  BY <2>2, <2>5
<1>3. ASSUME rejecting = {}
      PROVE  /\ Worst(asked) \in {"ACTIVE", "DUCK", "PAUSE"}
             /\ "PAUSE" \in asked => Worst(asked) = "PAUSE"
  <2>1. asked \in SUBSET {"ACTIVE", "DUCK", "PAUSE"} /\ asked # {}
    <3>. HIDE DEF asking, rejecting
    <3>. QED  BY <1>2, <1>3
  <2>. HIDE DEF asked
  <2>. QED  BY <2>1, WorstIs
<1>4. ASSUME st \notin {"INVALID", "STOP"}, Quiet(w), NEW i \in DOMAIN w.list,
             w.list[i].state # "PLACEHOLDER"
      PROVE  Welcome(t, Id(i), s, st)
  <2>. DEFINE x == Id(i)
              e == Rule(t, x, s)
  <2>1. rejecting = {} /\ missing = {} /\ st = Worst(asked)
    <3>. HIDE DEF asking, rejecting, missing, asked, st
    <3>. QED  BY <1>1, <1>4
  <2>2. ~IsSameAppInShareMode(x, s) => i \in others  BY DEF IsSameAppInShareMode
  <2>3. ~IsSameAppInShareMode(x, s) => <<t[x], t[s]>> \notin Missing  BY <1>a, <2>1, <2>2
  <2>4. ASSUME ~Shares(t, x, s), e.actionOn # "CURRENT"
        PROVE  e.hint # "STOP" /\ (e.hint = "PAUSE" => st = "PAUSE")
    <3>1. ~IsSameAppInShareMode(x, s) /\ ~IsAudioSourceConcurrency(w, x, s)
      BY <1>a, <2>4 DEF Shares, IsAudioSourceConcurrency
    <3>2. ~CanMixForSession(w, s, x) /\ Entry(w, x, s) = e  BY <1>4, <1>a, <1>b, QuietIs
    <3>3. i \in asking  BY <1>4, <2>1, <2>2, <2>4, <3>1, <3>2
    <3>4. ~e.isReject  BY <2>1, <3>2, <3>3
    <3>5. /\ e.actionOn \in {"CURRENT", "INCOMING"}
          /\ e.hint = "STOP" /\ e.actionOn = "INCOMING" => e.isReject
      BY <1>a, <2>3, <3>1, RuleIs
    <3>6. e.hint = "PAUSE" => "PAUSE" \in asked
      <4>1. HINT_STATE_MAP[Entry(w, Id(i), s).hint] \in asked  BY <3>3
      <4>2. HINT_STATE_MAP["PAUSE"] = "PAUSE"  BY DEF HINT_STATE_MAP
      <4>. QED  BY <3>2, <4>1, <4>2
    <3>. HIDE DEF e, asked
    <3>. QED  BY <1>3, <2>1, <2>4, <3>4, <3>5, <3>6
  <2>. QED  BY <2>3, <2>4 DEF Welcome
<1>. HIDE DEF missing, rejecting, asked
<1>5. st \in {"INVALID", "STOP", "ACTIVE", "DUCK", "PAUSE"}  BY <1>1, <1>3
<1>. QED  BY <1>4, <1>5 DEF st, Id

(* Place is what the operations of FocusList read. *)
LEMMA ListedIs ==
    ASSUME NEW w, NEW s
    PROVE  Place(w.list, s) = IF Listed(w, s) THEN StateOf(w, s) ELSE "none"
BY DEF Place, Listed, StateOf

(* To forget a stream of a session leaves the list as it is. *)
LEMMA ForgetIs ==
    ASSUME NEW t, NEW M, NEW w \in Worlds(t, M), NEW s \in Streams
    PROVE  /\ Forget(w, s) \in Worlds(t, M) /\ Forget(w, s).list = w.list
           /\ Forget(w, s).sent = w.sent /\ Forget(w, s).mode = w.mode
           /\ Orderly(Forget(w, s), w)
<1>1. /\ Forget(w, s) \in Worlds(t, M) /\ Forget(w, s).list = w.list
      /\ Forget(w, s).sent = w.sent /\ Forget(w, s).mode = w.mode
  BY PidType DEF Worlds, Forget
<1>. QED  BY <1>1, OrderlySame

(* The old entry of a stream that asks for the focus goes, and so do the   *)
(* placeholders of its client.                                             *)
LEMMA ProcessAudioSceneIs ==
    ASSUME NEW t, NEW M, NEW w \in Worlds(t, M), NEW s \in Streams
    PROVE  LET b == ProcessAudioScene(w, s)
           IN  /\ b \in Worlds(t, M) /\ b.sent = w.sent /\ Orderly(b, w)
               /\ Place(b.list, s) = "none"
               /\ \A x \in Streams : x # s =>
                     \/ Place(b.list, x) = Place(w.list, x)
                     \/ Place(w.list, x) = "PLACEHOLDER" /\ Place(b.list, x) = "none"
<1>. DEFINE gone == {s} \cup Placeholders(w, Pid[s])
            q == Remaining(w.list, gone)
            a == [w EXCEPT !.list = q]
            b == Forget(a, s)
<1>1. Proper(w.list)  BY DEF Worlds
<1>2. /\ Proper(q) /\ Sub(q, w.list)
      /\ \A x : Place(q, x) = IF x \in gone THEN "none" ELSE Place(w.list, x)
  BY <1>1, RemainingPlace
<1>3. ProcessAudioScene(w, s) = b  BY DEF ProcessAudioScene
<1>4. \A x \in gone : x = s \/ Place(w.list, x) = "PLACEHOLDER"  BY ListedIs DEF Placeholders
<1>5. s \in gone  OBVIOUS
<1>. HIDE DEF q, gone
<1>6. a \in Worlds(t, M) /\ a.list = q /\ a.sent = w.sent /\ a.mode = w.mode
  BY <1>2 DEF Worlds, Proper
<1>a. Orderly(a, w)  BY <1>2, <1>6 DEF Orderly, Quiet
<1>. HIDE DEF a
<1>7. b \in Worlds(t, M) /\ b.list = q /\ b.sent = w.sent /\ Orderly(b, w)
  BY <1>6, <1>a, ForgetIs, OrderlyTwice
<1>. HIDE DEF b
<1>. QED  BY <1>2, <1>3, <1>4, <1>5, <1>7

(* The stream that has been granted the focus is added. *)
LEMMA AddIs ==
    ASSUME NEW t, NEW M, NEW w \in Worlds(t, M), NEW s \in Streams, NEW st \in States,
           Place(w.list, s) = "none"
    PROVE  LET v == AddToAudioFocusInfoList(w, s, st)
           IN  /\ v \in Worlds(t, M) /\ v.sent = w.sent /\ v.mode = w.mode
               /\ Place(v.list, s) = st
               /\ \A x \in Streams : x # s => Place(v.list, x) = Place(w.list, x)
               /\ \A a, b : Before(v.list, a, b) =>
                     /\ a # s /\ \E i \in DOMAIN w.list : w.list[i].id = a
                     /\ b # s => Before(w.list, a, b)
<1>. DEFINE e == [id |-> s, state |-> st]
            q == Append(w.list, e)
            v == AddToAudioFocusInfoList(w, s, st)
<1>1. e \in Item /\ e.id = s /\ e.state = st  BY DEF Item
<1>2. Proper(w.list)  BY DEF Worlds
<1>. HIDE DEF e
<1>3. /\ Proper(q) /\ \A x : Place(q, x) = IF x = s THEN st ELSE Place(w.list, x)
      /\ \A a, b : Before(q, a, b) =>
            /\ a # s /\ \E i \in DOMAIN w.list : w.list[i].id = a
            /\ b # s => Before(w.list, a, b)
  BY <1>1, <1>2, AppendPlace
<1>4. \E m \in [Pids -> SUBSET Streams] : v = [w EXCEPT !.list = q, !.members = m]
  <2>. DEFINE m == [w.members EXCEPT ![Pid[s]] = IF IsAudioSessionActivated(w, Pid[s])
                                                 THEN @ \cup {s} ELSE @]
  <2>1. m \in [Pids -> SUBSET Streams]  BY PidType DEF Worlds
  <2>2. v = [w EXCEPT !.list = q, !.members = m]  BY DEF AddToAudioFocusInfoList, e, Worlds
  <2>. HIDE DEF m, v, q
  <2>. QED  BY <2>1, <2>2
<1>. HIDE DEF q, v
<1>5. v \in Worlds(t, M) /\ v.sent = w.sent /\ v.list = q /\ v.mode = w.mode
  BY <1>3, <1>4 DEF Worlds, Proper
<1>. QED  BY <1>3, <1>5 DEF v

(* What a stream that asks for the focus gets: with the events h its state *)
(* in the list is g.                                                       *)
Gets(h, g) ==
    \/ h = <<>> /\ g \in {"ACTIVE", "none"}
    \/ h = <<"DUCK">> /\ g = "DUCK"
    \/ h = <<"PAUSE">> /\ g = "PAUSE"
    \/ h = <<"STOP">> /\ g = "none"

(* Two streams listed in this order, at the places f and g, are so in      *)
(* keeping with the table.                                                 *)
Fine(t, a, b, f, g) ==
    /\ ~IsSameAppInShareMode(a, b) => <<t[a], t[b]>> \notin Missing
    /\ ~Shares(t, a, b) =>
          /\ Rule(t, a, b).hint # "STOP"
          /\ f \in {"ACTIVE", "DUCK"} /\ g \in {"ACTIVE", "DUCK"} => Rule(t, a, b).hint # "PAUSE"

(* What s does to x, and what it suffers itself, is in keeping with it. *)
LEMMA WelcomeIsFine ==
    ASSUME NEW t, NEW x, NEW s, NEW f \in After(t, x, s), f \notin {"none", "PLACEHOLDER"},
           NEW g, Welcome(t, x, s, g)
    PROVE  Fine(t, x, s, f, g)
BY DEF Fine, After, Welcome, Shares

(* Where no session is on there is no placeholder. *)
Plain(w) == Quiet(w) /\ \A x \in Streams : Place(w.list, x) # "PLACEHOLDER"

(* ActivateAudioInterrupt: the one that asks gets its state, and the       *)
(* others move once. It is listed last, and in keeping with the table.     *)
LEMMA ActivateIs ==
    ASSUME NEW t \in [Streams -> FocusTypes], NEW M, NEW w \in Worlds(t, M), w.sent = Nothing,
           NEW s \in Streams
    PROVE  LET v == ActivateAudioInterrupt(w, s)
           IN  /\ v \in Worlds(t, M)
               /\ Gets(v.sent[s], Place(v.list, s))
               /\ \A x \in Streams \ {s} : Moves(Place(w.list, x), v.sent[x], Place(v.list, x))
               /\ Quiet(w) => Quiet(v)
               /\ \A a, b : Before(v.list, a, b) => a # s /\ (b # s => Before(w.list, a, b))
               /\ Plain(w) => \A a : Before(v.list, a, s) =>
                                 Fine(t, a, s, Place(v.list, a), Place(v.list, s))
<1>. DEFINE base == ProcessAudioScene(w, s)
            st == ProcessFocusEntry(base, s)
            others == ProcessActiveInterrupt(base, s)
            added == AddToAudioFocusInfoList(others, s, st)
            first == [base EXCEPT !.list = <<[id |-> s, state |-> "ACTIVE"]>>]
            v == ActivateAudioInterrupt(w, s)
<1>1. v = IF base.list = <<>> THEN first
          ELSE CASE st = "INVALID" -> base
                 [] st = "STOP" -> Send(base, s, "STOP")
                 [] st = "ACTIVE" -> added
                 [] OTHER -> Send(added, s, st)
  BY DEF ActivateAudioInterrupt
<1>. DEFINE Right(u) == /\ u \in Worlds(t, M)
                        /\ Gets(u.sent[s], Place(u.list, s))
                        /\ \A x \in Streams \ {s} : Moves(Place(w.list, x), u.sent[x], Place(u.list, x))
                        /\ Quiet(w) => Quiet(u)
                        /\ \A a, b : Before(u.list, a, b) => a # s /\ (b # s => Before(w.list, a, b))
                        /\ Plain(w) => \A a : Before(u.list, a, s) =>
                                          Fine(t, a, s, Place(u.list, a), Place(u.list, s))
<1>2. /\ base \in Worlds(t, M) /\ base.sent = Nothing /\ Orderly(base, w)
      /\ Place(base.list, s) = "none"
      /\ \A x \in Streams : x # s =>
            \/ Place(base.list, x) = Place(w.list, x)
            \/ Place(w.list, x) = "PLACEHOLDER" /\ Place(base.list, x) = "none"
  BY ProcessAudioSceneIs
<1>. HIDE DEF base, v
<1>3. \A x \in Streams : base.sent[x] = <<>>  BY <1>2 DEF Nothing
<1>4. /\ st \in {"INVALID", "STOP", "ACTIVE", "DUCK", "PAUSE"}
      /\ st \notin {"INVALID", "STOP"} /\ Quiet(base) =>
            \A i \in DOMAIN base.list : base.list[i].state # "PLACEHOLDER" =>
               Welcome(t, base.list[i].id, s, st)
  BY <1>2, ProcessFocusEntryIs
<1>c. Quiet(w) => Quiet(base)  BY <1>2 DEF Orderly
<1>d. \A a, b : Before(base.list, a, b) => a # s /\ b # s /\ Before(w.list, a, b)
  <2>1. Proper(base.list)  BY <1>2 DEF Worlds
  <2>. QED  BY <1>2, <2>1, BeforeListed DEF Orderly, Sub
<1>a. \A x \in Streams \ {s} : Moves(Place(w.list, x), <<>>, Place(base.list, x))
  BY <1>2, Still
<1>b. /\ Gets(<<>>, "none") /\ Gets(<<>>, "ACTIVE") /\ Gets(<<"STOP">>, "none")
      /\ \A h \in {"DUCK", "PAUSE"} : Gets(<<h>>, h)
  BY DEF Gets
<1>5. Right(base)  BY <1>2, <1>3, <1>a, <1>b, <1>c, <1>d
<1>6. Right(Send(base, s, "STOP"))
  <2>. DEFINE u == Send(base, s, "STOP")
  <2>1. "STOP" \in Hints /\ Append(<<>>, "STOP") = <<"STOP">>  BY DEF Hints
  <2>2. /\ u \in Worlds(t, M) /\ u.list = base.list
        /\ u.sent[s] = Append(base.sent[s], "STOP")
        /\ \A x \in Streams \ {s} : u.sent[x] = base.sent[x]
        /\ Orderly(u, base)
    BY <1>2, <2>1, SendIs
  <2>. HIDE DEF u
  <2>3. Right(u)  BY <1>2, <1>3, <1>a, <1>b, <1>c, <1>d, <2>1, <2>2 DEF Orderly
  <2>. QED  BY <2>3 DEF u
<1>7. base.list = <<>> => Right(first)
  <2>. SUFFICES ASSUME base.list = <<>> PROVE Right(first)  OBVIOUS
  <2>. DEFINE u == AddToAudioFocusInfoList(base, s, "ACTIVE")
              e == [id |-> s, state |-> "ACTIVE"]
  <2>1. /\ u \in Worlds(t, M) /\ u.sent = Nothing /\ Place(u.list, s) = "ACTIVE"
        /\ \A x \in Streams : x # s => Place(u.list, x) = Place(base.list, x)
    BY <1>2, AddIs DEF States
  <2>2. u.list = Append(base.list, e)  BY <1>2 DEF AddToAudioFocusInfoList, Worlds
  <2>3. Append(<<>>, e) = <<e>>  OBVIOUS
  <2>. HIDE DEF u, e
  <2>4. first = [base EXCEPT !.list = u.list]  BY <2>2, <2>3 DEF e
  <2>5. /\ first \in Worlds(t, M) /\ first.list = u.list /\ first.sent = Nothing
        /\ first.mode = base.mode
    BY <1>2, <2>1, <2>4 DEF Worlds
  <2>6. \A a, b : ~Before(u.list, a, b)
    <3>1. u.list = <<e>>  BY <2>2, <2>3
    <3>2. DOMAIN <<e>> = {1}  OBVIOUS
    <3>. QED  BY <3>1, <3>2 DEF Before
  <2>7. Quiet(w) => Quiet(first)  BY <1>c, <2>5 DEF Quiet
  <2>. HIDE DEF first
  <2>. QED  BY <1>2, <1>3, <1>a, <1>b, <2>1, <2>5, <2>6, <2>7
<1>8. /\ others \in Worlds(t, M)
      /\ \A x \in Streams : Moves(Place(base.list, x), others.sent[x], Place(others.list, x))
      /\ Orderly(others, base)
      /\ Quiet(base) => \A k \in 1..Len(base.list) :
                          Place(others.list, base.list[k].id) \in After(t, base.list[k].id, s)
  BY <1>2, ProcessActiveIs
<1>. HIDE DEF others, st
<1>9. Place(others.list, s) = "none" /\ others.sent[s] = <<>>  BY <1>2, <1>8 DEF Moves
<1>10. \A x \in Streams \ {s} : Moves(Place(w.list, x), others.sent[x], Place(others.list, x))
  BY <1>2, <1>8 DEF Moves
<1>11. ASSUME st \in {"ACTIVE", "DUCK", "PAUSE"}
       PROVE  /\ added \in Worlds(t, M) /\ added.sent = others.sent /\ Place(added.list, s) = st
              /\ \A x \in Streams : x # s => Place(added.list, x) = Place(others.list, x)
              /\ added.mode = others.mode
              /\ \A a, b : Before(added.list, a, b) =>
                    /\ a # s /\ \E i \in DOMAIN others.list : others.list[i].id = a
                    /\ b # s => Before(others.list, a, b)
  <2>1. st \in States  BY <1>11 DEF States
  <2>. QED  BY <1>8, <1>9, <2>1, AddIs
<1>. HIDE DEF added
<1>e. ASSUME st \in {"ACTIVE", "DUCK", "PAUSE"}
      PROVE  /\ Quiet(w) => Quiet(added)
             /\ \A a, b : Before(added.list, a, b) => a # s /\ (b # s => Before(w.list, a, b))
             /\ Plain(w) => \A a : Before(added.list, a, s) => Fine(t, a, s, Place(added.list, a), st)
  <2>1. Quiet(w) => Quiet(added)  BY <1>c, <1>8, <1>11, <1>e DEF Orderly, Quiet
  <2>2. \A a, b : Before(added.list, a, b) => a # s /\ (b # s => Before(w.list, a, b))
    BY <1>d, <1>8, <1>11, <1>e DEF Orderly, Sub
  <2>3. ASSUME Plain(w), NEW a, Before(added.list, a, s)
        PROVE  Fine(t, a, s, Place(added.list, a), st)
    <3>1. PICK i \in DOMAIN others.list : others.list[i].id = a /\ a # s  BY <1>11, <1>e, <2>3
    <3>2. Proper(others.list) /\ Proper(base.list)  BY <1>2, <1>8 DEF Worlds
    <3>3. others.list[i] \in Item  BY <3>1, <3>2, ElementOfSeq, LenProperties DEF Proper
    <3>4. a \in Streams /\ Place(others.list, a) # "none"
      <4>1. Place(others.list, a) = others.list[i].state  BY <3>1, <3>2, PlaceAt
      <4>. QED  BY <3>1, <3>3, <4>1 DEF Item, States
    <3>5. Moves(Place(w.list, a), <<>>, Place(base.list, a)) /\ Place(w.list, a) # "PLACEHOLDER"
      BY <1>a, <2>3, <3>1, <3>4 DEF Plain
    <3>6. Moves(Place(base.list, a), others.sent[a], Place(others.list, a))  BY <1>8, <3>4
    <3>7. /\ Place(base.list, a) \notin {"none", "PLACEHOLDER"}
          /\ Place(others.list, a) \notin {"none", "PLACEHOLDER"}
      BY <3>4, <3>5, <3>6 DEF Moves
    <3>8. PICK k \in DOMAIN base.list : base.list[k].id = a  BY <3>7 DEF Place
    <3>9. base.list[k].state # "PLACEHOLDER" /\ k \in 1..Len(base.list)
      <4>1. Place(base.list, a) = base.list[k].state  BY <3>2, <3>8, PlaceAt
      <4>. QED  BY <3>2, <3>7, <3>8, <4>1, LenProperties DEF Proper
    <3>10. Place(others.list, a) \in After(t, a, s) /\ Welcome(t, a, s, st)
      BY <1>c, <1>4, <1>8, <1>e, <2>3, <3>8, <3>9 DEF Plain
    <3>11. Place(added.list, a) = Place(others.list, a)  BY <1>11, <1>e, <3>1, <3>4
    <3>. QED  BY <3>7, <3>10, <3>11, WelcomeIsFine
  <2>. QED  BY <2>1, <2>2, <2>3
<1>12. st = "ACTIVE" => Right(added)  BY <1>9, <1>10, <1>11, <1>b, <1>e
<1>13. ASSUME st \in {"DUCK", "PAUSE"} PROVE Right(Send(added, s, st))
  <2>. DEFINE u == Send(added, s, st)
  <2>1. st \in Hints /\ Append(<<>>, st) = <<st>>  BY <1>13 DEF Hints
  <2>2. /\ u \in Worlds(t, M) /\ u.list = added.list /\ u.sent[s] = <<st>>
        /\ \A x \in Streams \ {s} : u.sent[x] = others.sent[x]
        /\ u.mode = added.mode
    BY <1>9, <1>11, <1>13, <2>1, SendIs
  <2>. HIDE DEF u
  <2>3. Quiet(w) => Quiet(u)  BY <1>13, <1>e, <2>2 DEF Quiet
  <2>4. Right(u)  BY <1>10, <1>11, <1>13, <1>b, <1>e, <2>2, <2>3
  <2>. QED  BY <2>4 DEF u
<1>14. Right(v)
  <2>. HIDE DEF Right, first
  <2>. QED  BY <1>1, <1>4, <1>5, <1>6, <1>7, <1>12, <1>13
<1>. QED  BY <1>14 DEF v

(* A stream gives the focus up, by itself or because its client is gone.   *)
Leaves(w, s, v) ==
    /\ v.sent[s] = <<>> /\ Place(v.list, s) \in {"none", "PLACEHOLDER"}
    /\ w.mode[Pid[s]] = "none" => Place(v.list, s) = "none"
    /\ \A x \in Streams \ {s} : Moves(Place(w.list, x), v.sent[x], Place(v.list, x))
    /\ Orderly(v, w)

(* DeactivateAudioInterrupt: the stream goes, or stays as a placeholder if *)
(* its client has a session.                                               *)
LEMMA DeactivateIs ==
    ASSUME NEW t, NEW M, NEW w \in Worlds(t, M), w.sent = Nothing, NEW s \in Streams, NEW timeout
    PROVE  /\ DeactivateAudioInterrupt(w, s, timeout) \in Worlds(t, M)
           /\ Leaves(w, s, DeactivateAudioInterrupt(w, s, timeout))
<1>. DEFINE left == Forget(w, s)
            stay == Without(left, s)
            v == DeactivateAudioInterrupt(w, s, timeout)
            kept == SetState(left, s, "PLACEHOLDER")
            rest == ResumeAudioFocusList(stay, timeout)
<1>0. \/ ~Listed(w, s) /\ v = left
      \/ Listed(w, s) /\ w.mode[Pid[s]] # "none" /\ v = kept
      \/ v = rest
  BY DEF DeactivateAudioInterrupt, IsAudioSessionActivated
<1>1. left \in Worlds(t, M) /\ left.list = w.list /\ left.sent = Nothing /\ Orderly(left, w)
  BY ForgetIs
<1>. HIDE DEF left, v
<1>2. /\ stay \in Worlds(t, M) /\ stay.sent = Nothing /\ Place(stay.list, s) = "none"
      /\ \A x : x # s => Place(stay.list, x) = Place(w.list, x)
      /\ Orderly(stay, w)
  <2>1. Place(stay.list, s) = "none" /\ stay \in Worlds(t, M) /\ stay.sent = left.sent
        /\ \A x : x # s => Place(stay.list, x) = Place(left.list, x)
        /\ Orderly(stay, left)
    BY <1>1, WithoutIs
  <2>. QED  BY <1>1, <2>1, OrderlyTwice
<1>3. /\ kept \in Worlds(t, M) /\ kept.sent = Nothing
      /\ Place(w.list, s) # "none" => Place(kept.list, s) = "PLACEHOLDER"
      /\ \A x : x # s => Place(kept.list, x) = Place(w.list, x)
      /\ Orderly(kept, w)
  <2>1. "PLACEHOLDER" \in States  BY DEF States
  <2>. QED  BY <1>1, <2>1, SetStateIs, OrderlyTwice
<1>. HIDE DEF stay, kept
<1>4. /\ rest \in Worlds(t, M)
      /\ \A x \in Streams : Moves(Place(stay.list, x), rest.sent[x], Place(rest.list, x))
      /\ Orderly(rest, w)
  BY <1>2, ResumeIs, OrderlyTwice
<1>. HIDE DEF rest
<1>5. \A x \in Streams : Nothing[x] = <<>>  BY DEF Nothing
<1>. SUFFICES v \in Worlds(t, M) /\ Leaves(w, s, v)  BY DEF v
<1>6. CASE ~Listed(w, s) /\ v = left
  <2>1. Place(w.list, s) = "none"  BY <1>6, ListedIs
  <2>. QED  BY <1>1, <1>5, <1>6, <2>1, Still DEF Leaves
<1>7. CASE Listed(w, s) /\ w.mode[Pid[s]] # "none" /\ v = kept
  <2>1. Place(w.list, s) # "none"
    <3>1. PICK i \in DOMAIN w.list : w.list[i].id = s  BY <1>7 DEF Listed
    <3>2. Proper(w.list)  BY DEF Worlds
    <3>3. w.list[i] \in Item  BY <3>1, <3>2, ElementOfSeq, LenProperties DEF Proper
    <3>4. Place(w.list, s) = w.list[i].state  BY <3>1, <3>2, PlaceAt
    <3>. QED  BY <3>3, <3>4 DEF Item, States
  <2>. QED  BY <1>3, <1>5, <1>7, <2>1, Still DEF Leaves
<1>8. CASE v = rest
  <2>1. rest.sent[s] = <<>> /\ Place(rest.list, s) = "none"  BY <1>2, <1>4 DEF Moves
  <2>2. \A x \in Streams \ {s} : Moves(Place(w.list, x), rest.sent[x], Place(rest.list, x))
    BY <1>2, <1>4
  <2>. QED  BY <1>4, <1>8, <2>1, <2>2 DEF Leaves
<1>. QED  BY <1>0, <1>6, <1>7, <1>8

(* RemoveClient: the same, if the stream is listed at all. *)
LEMMA RemoveClientIs ==
    ASSUME NEW t, NEW M, NEW w \in Worlds(t, M), w.sent = Nothing, NEW s \in Streams
    PROVE  RemoveClient(w, s) \in Worlds(t, M) /\ Leaves(w, s, RemoveClient(w, s))
<1>1. CASE Listed(w, s)  BY <1>1, DeactivateIs DEF RemoveClient
<1>2. CASE ~Listed(w, s)
  <2>1. Place(w.list, s) = "none" /\ RemoveClient(w, s) = w  BY <1>2, ListedIs DEF RemoveClient
  <2>2. \A x \in Streams : Nothing[x] = <<>>  BY DEF Nothing
  <2>. QED  BY <2>1, <2>2, Still, OrderlySame DEF Leaves
<1>. QED  BY <1>1, <1>2

-----------------------------------------------------------------------------
(* What an application knows of a stream with a place in the list. *)
Heard(p) == IF p = "PLACEHOLDER" THEN "none" ELSE p

(* What it knows when it has taken in the events h. *)
Learnt(known, h) == FoldLeft(Learns, known, h)

(* An application takes its events in one after the other. *)
LEMMA LearnsInTurn ==
    ASSUME NEW h \in Seq(Hints), NEW known
    PROVE  \E r : /\ r[0] = known /\ r[Len(h)] = Learnt(known, h)
                  /\ \A k \in 1..Len(h) : r[k] = Learns(r[k - 1], h[k])
<1>. DEFINE n == Len(h)
            U == {"ACTIVE", "DUCK", "PAUSE", "none", known}
            Step(u, i) == Learns(u, h[i])
            Runs(g) == g = [S \in SUBSET DOMAIN h |->
                              IF S = {} THEN known ELSE Step(g[S \ {Max(S)}], Max(S))]
            fold == CHOOSE g : Runs(g)
            step == [a \in U \X (1..n) |-> Step(a[1], a[2])]
<1>1. n \in Nat /\ DOMAIN h = 1..n  BY LenProperties
<1>2. ASSUME NEW u \in U, NEW i \in 1..n PROVE Step(u, i) \in U  BY DEF Learns
<1>3. Learnt(known, h) = fold[1..n]  BY <1>1 DEF Learnt, FoldLeft, MapThenFoldSet
<1>. HIDE DEF Step, U, n
<1>4. step \in [U \X (1..n) -> U]  BY <1>2
<1>5. \A u \in U, i \in 1..n : step[<<u, i>>] = Step(u, i)  OBVIOUS
<1>. HIDE DEF step
<1>6. known \in U  BY DEF U
<1>7. \E g : Runs(g)
  <2>1. PICK g \in [SUBSET (1..n) -> U] : Computes(g, n, known, step)
    BY <1>1, <1>4, <1>6, FoldRuns
  <2>2. ASSUME NEW S \in SUBSET (1..n), S # {}
        PROVE  step[<<g[S \ {Max(S)}], Max(S)>>] = Step(g[S \ {Max(S)}], Max(S))
    <3>1. Max(S) \in 1..n  BY <1>1, <2>2, MaxIs
    <3>. QED  BY <1>5, <3>1
  <2>3. Runs(g)  BY <1>1, <2>1, <2>2 DEF Computes
  <2>. QED  BY <2>3
<1>8. Runs(fold)  BY <1>7
<1>. HIDE DEF fold
<1>9. FoldsIn(U, fold, n, known, step)
  <2>1. ASSUME NEW S \in SUBSET (1..n), S # {}, fold[S \ {Max(S)}] \in U
        PROVE  fold[S] = step[<<fold[S \ {Max(S)}], Max(S)>>]
    <3>1. Max(S) \in 1..n  BY <1>1, <2>1, MaxIs
    <3>2. fold[S] = Step(fold[S \ {Max(S)}], Max(S))  BY <1>1, <1>8, <2>1
    <3>. QED  BY <1>5, <2>1, <3>1, <3>2
  <2>2. fold[{}] = known  BY <1>8
  <2>. QED  BY <2>1, <2>2 DEF FoldsIn
<1>10. PICK r \in [0..n -> U] : OneByOne(r, fold, n, known, step)
  BY <1>1, <1>4, <1>6, <1>9, FoldIs
<1>11. \A k \in 1..n : r[k] = Learns(r[k - 1], h[k])
  <2>1. ASSUME NEW k \in 1..n PROVE r[k] = Step(r[k - 1], k)
    <3>1. k - 1 \in 0..n  BY <1>1
    <3>2. r[k - 1] \in U  BY <3>1
    <3>. QED  BY <1>5, <1>10, <3>2 DEF OneByOne
  <2>. QED  BY <2>1 DEF Step
<1>. QED  BY <1>3, <1>10, <1>11 DEF OneByOne, n

(* None, one, or two events. *)
LEMMA LearnsIs ==
    ASSUME NEW known
    PROVE  /\ Learnt(known, <<>>) = known
           /\ \A h \in Hints : Learnt(known, <<h>>) = Learns(known, h)
           /\ \A h, i \in Hints : Learnt(known, <<h, i>>) = Learns(Learns(known, h), i)
<1>1. Learnt(known, <<>>) = known
  <2>1. <<>> \in Seq(Hints) /\ Len(<<>>) = 0  OBVIOUS
  <2>. QED  BY <2>1, LearnsInTurn
<1>2. ASSUME NEW h \in Hints PROVE Learnt(known, <<h>>) = Learns(known, h)
  <2>. DEFINE q == <<h>>
  <2>1. Len(q) = 1 /\ q[1] = h  OBVIOUS
  <2>a. q \in Seq(Hints)  OBVIOUS
  <2>. HIDE DEF q
  <2>2. PICK r : /\ r[0] = known /\ r[Len(q)] = Learnt(known, q)
                 /\ \A k \in 1..Len(q) : r[k] = Learns(r[k - 1], q[k])
    BY <2>a, LearnsInTurn
  <2>3. 1 \in 1..1 /\ 1 - 1 = 0  OBVIOUS
  <2>4. r[1] = Learns(r[1 - 1], h)  BY <2>1, <2>2, <2>3
  <2>. QED  BY <2>1, <2>2, <2>3, <2>4 DEF q
<1>3. ASSUME NEW h \in Hints, NEW i \in Hints
      PROVE  Learnt(known, <<h, i>>) = Learns(Learns(known, h), i)
  <2>. DEFINE q == <<h, i>>
  <2>1. Len(q) = 2 /\ q[1] = h /\ q[2] = i  OBVIOUS
  <2>a. q \in Seq(Hints)  OBVIOUS
  <2>. HIDE DEF q
  <2>2. PICK r : /\ r[0] = known /\ r[Len(q)] = Learnt(known, q)
                 /\ \A k \in 1..Len(q) : r[k] = Learns(r[k - 1], q[k])
    BY <2>a, LearnsInTurn
  <2>3. 1 \in 1..2 /\ 2 \in 1..2 /\ 1 - 1 = 0 /\ 2 - 1 = 1  OBVIOUS
  <2>4. r[1] = Learns(r[1 - 1], h) /\ r[2] = Learns(r[2 - 1], i)  BY <2>1, <2>2, <2>3
  <2>. QED  BY <2>1, <2>2, <2>3, <2>4 DEF q
<1>. QED  BY <1>1, <1>2, <1>3

(* Whoever is moved hears where to. *)
LEMMA MovesAreHeard ==
    ASSUME NEW f, NEW h, NEW g, Moves(f, h, g)
    PROVE  Learnt(Heard(f), h) = Heard(g)
<1>1. /\ "PAUSE" \in Hints /\ "DUCK" \in Hints /\ "UNDUCK" \in Hints /\ "RESUME" \in Hints
      /\ "STOP" \in Hints
  BY DEF Hints
<1>2. CASE h = <<>>  BY <1>2, LearnsIs DEF Moves, Heard
<1>3. CASE h = <<"UNDUCK", "PAUSE">> /\ f = "DUCK" /\ g = "PAUSE"
  <2>1. Learnt(Heard(f), h) = Learns(Learns(Heard(f), "UNDUCK"), "PAUSE")
    BY <1>1, <1>3, LearnsIs
  <2>. QED  BY <1>3, <2>1 DEF Learns, Heard
<1>4. ASSUME NEW x \in Hints, h = <<x>>, Learns(Heard(f), x) = Heard(g)
      PROVE  Learnt(Heard(f), h) = Heard(g)
  BY <1>4, LearnsIs
<1>5. CASE h = <<"PAUSE">> /\ g = "PAUSE"
  <2>1. Learns(Heard(f), "PAUSE") = Heard(g)  BY <1>5 DEF Learns, Heard
  <2>. QED  BY <1>1, <1>4, <1>5, <2>1
<1>6. CASE h = <<"DUCK">> /\ f = "ACTIVE" /\ g = "DUCK"
  <2>1. Learns(Heard(f), "DUCK") = Heard(g)  BY <1>6 DEF Learns, Heard
  <2>. QED  BY <1>1, <1>4, <1>6, <2>1
<1>7. CASE h = <<"UNDUCK">> /\ f = "DUCK" /\ g = "ACTIVE"
  <2>1. Learns(Heard(f), "UNDUCK") = Heard(g)  BY <1>7 DEF Learns, Heard
  <2>. QED  BY <1>1, <1>4, <1>7, <2>1
<1>8. CASE h = <<"RESUME">> /\ g = "none"
  <2>1. Learns(Heard(f), "RESUME") = Heard(g)  BY <1>8 DEF Learns, Heard
  <2>. QED  BY <1>1, <1>4, <1>8, <2>1
<1>9. CASE h = <<"STOP">> /\ g = "none"
  <2>1. Learns(Heard(f), "STOP") = Heard(g)  BY <1>9 DEF Learns, Heard
  <2>. QED  BY <1>1, <1>4, <1>9, <2>1
<1>. QED  BY <1>2, <1>3, <1>5, <1>6, <1>7, <1>8, <1>9 DEF Moves

(* Whoever asks hears what it gets, with the answer and the events. *)
LEMMA GetsIsHeard ==
    ASSUME NEW h, NEW g, Gets(h, g)
    PROVE  Learnt(IF g = "none" THEN "none" ELSE "ACTIVE", h) = Heard(g)
<1>. DEFINE known == IF g = "none" THEN "none" ELSE "ACTIVE"
<1>1. "PAUSE" \in Hints /\ "DUCK" \in Hints /\ "STOP" \in Hints  BY DEF Hints
<1>2. CASE h = <<>> /\ g \in {"ACTIVE", "none"}
  <2>1. known = Heard(g)  BY <1>2 DEF Heard
  <2>2. Learnt(known, <<>>) = known  BY LearnsIs
  <2>. QED  BY <1>2, <2>1, <2>2
<1>3. ASSUME NEW x \in Hints, h = <<x>>, Learns(known, x) = Heard(g)
      PROVE  Learnt(known, h) = Heard(g)
  <2>. HIDE DEF known
  <2>. QED  BY <1>3, LearnsIs
<1>4. CASE h = <<"DUCK">> /\ g = "DUCK"
  <2>1. Learns(known, "DUCK") = Heard(g)  BY <1>4 DEF Learns, Heard
  <2>. QED  BY <1>1, <1>3, <1>4, <2>1
<1>5. CASE h = <<"PAUSE">> /\ g = "PAUSE"
  <2>1. Learns(known, "PAUSE") = Heard(g)  BY <1>5 DEF Learns, Heard
  <2>. QED  BY <1>1, <1>3, <1>5, <2>1
<1>6. CASE h = <<"STOP">> /\ g = "none"
  <2>1. Learns(known, "STOP") = Heard(g)  BY <1>6 DEF Learns, Heard
  <2>. QED  BY <1>1, <1>3, <1>6, <2>1
<1>. QED  BY <1>2, <1>4, <1>5, <1>6 DEF Gets

-----------------------------------------------------------------------------
(* Every two streams of a list are in keeping with the table. *)
Peaceful(t, q) == \A a, b : Before(q, a, b) => Fine(t, a, b, Place(q, a), Place(q, b))

(* Streams that go, are silenced or change the way they sound break no     *)
(* peace.                                                                  *)
LEMMA PeaceStays ==
    ASSUME NEW t, NEW M, NEW w \in Worlds(t, M), NEW v \in Worlds(t, M), Orderly(v, w),
           Peaceful(t, w.list),
           \A x \in Streams : Place(v.list, x) \in {"ACTIVE", "DUCK"} => Place(w.list, x) \in {"ACTIVE", "DUCK"}
    PROVE  Peaceful(t, v.list)
<1>. SUFFICES ASSUME NEW a, NEW b, Before(v.list, a, b)
              PROVE  Fine(t, a, b, Place(v.list, a), Place(v.list, b))
  BY DEF Peaceful
<1>1. Proper(v.list) /\ Proper(w.list)  BY DEF Worlds
<1>2. a \in Streams /\ b \in Streams  BY <1>1, BeforeListed
<1>3. Fine(t, a, b, Place(w.list, a), Place(w.list, b))  BY DEF Orderly, Sub, Peaceful
<1>. QED  BY <1>2, <1>3 DEF Fine

(* The inductive invariant. *)
Kept ==
    /\ type \in [Streams -> FocusTypes]
    /\ modes \in {{}, Modes}
    /\ world \in Worlds(type, Modes)
    /\ told = [s \in Streams |-> Heard(Place(list, s))]
    /\ modes = {} => Plain(world) /\ Peaceful(type, list)

(* What the service finds when it is called is what the lemmas on its      *)
(* operations ask for.                                                     *)
LEMMA WorldIs ==
    ASSUME Kept
    PROVE  /\ world \in Worlds(type, Modes) /\ world.sent = Nothing /\ world.list = list
           /\ world.mode = mode /\ world.type = type /\ world.members = members
           /\ type \in [Streams -> FocusTypes]
BY DEF Kept, world

(* A call keeps the invariant if its events take every application from    *)
(* what it knows to what the list has, and it keeps the peace.             *)
LEMMA BecomesHolds ==
    ASSUME Kept, NEW w \in Worlds(type, Modes), NEW know, Becomes(w, know),
           \A s \in Streams : Learnt(know[s], w.sent[s]) = Heard(Place(w.list, s)),
           modes = {} => Plain(w) /\ Peaceful(type, w.list)
    PROVE  Kept'
<1>1. /\ list' = w.list /\ mode' = w.mode /\ members' = w.members
      /\ type' = type /\ modes' = modes
  BY DEF Becomes
<1>2. told' = [s \in Streams |-> Learnt(know[s], w.sent[s])]  BY DEF Becomes, Learnt
<1>3. told' = [s \in Streams |-> Heard(Place(list', s))]  BY <1>1, <1>2
<1>4. Nothing \in [Streams -> Seq(Hints)]  BY DEF Nothing
<1>5. world' = [type |-> type, list |-> w.list, mode |-> w.mode, members |-> w.members,
                sent |-> Nothing]
  BY <1>1 DEF world
<1>6. world' \in Worlds(type, Modes) /\ world'.list = w.list /\ world'.mode = w.mode
  BY <1>4, <1>5 DEF Worlds
<1>7. modes = {} => Plain(world') /\ Peaceful(type, list')  BY <1>1, <1>6 DEF Plain, Quiet
<1>. QED  BY <1>1, <1>3, <1>6, <1>7 DEF Kept

(* A call that moves every stream but one, which makes no sound. *)
LEMMA MovingHolds ==
    ASSUME Kept, NEW w \in Worlds(type, Modes), Orderly(w, world), NEW s, NEW know,
           Becomes(w, know),
           \A x \in Streams \ {s} : /\ Moves(Place(list, x), w.sent[x], Place(w.list, x))
                                    /\ know[x] = told[x],
           s \in Streams =>
              /\ w.sent[s] = <<>> /\ know[s] = "none" /\ Place(w.list, s) \in {"none", "PLACEHOLDER"}
              /\ modes = {} => Place(w.list, s) = "none"
    PROVE  Kept'
<1>1. ASSUME NEW x \in Streams PROVE Learnt(know[x], w.sent[x]) = Heard(Place(w.list, x))
  <2>1. CASE x = s
    <3>1. Learnt(know[s], w.sent[s]) = "none"  BY <2>1, LearnsIs
    <3>2. Heard(Place(w.list, s)) = "none"  BY <2>1 DEF Heard
    <3>. QED  BY <2>1, <3>1, <3>2
  <2>2. CASE x # s
    <3>1. know[x] = Heard(Place(list, x))  BY <2>2 DEF Kept
    <3>2. Moves(Place(list, x), w.sent[x], Place(w.list, x))  BY <2>2
    <3>. QED  BY <3>1, <3>2, MovesAreHeard
  <2>. QED  BY <2>1, <2>2
<1>2. ASSUME modes = {} PROVE Plain(w) /\ Peaceful(type, w.list)
  <2>1. Plain(world) /\ Peaceful(type, world.list) /\ world.list = list  BY <1>2, WorldIs DEF Kept
  <2>2. Quiet(w)  BY <2>1 DEF Orderly, Plain
  <2>3. ASSUME NEW x \in Streams
        PROVE  /\ Place(w.list, x) # "PLACEHOLDER"
               /\ Place(w.list, x) \in {"ACTIVE", "DUCK"} => Place(world.list, x) \in {"ACTIVE", "DUCK"}
    <3>1. CASE x = s  BY <1>2, <3>1
    <3>2. CASE x # s
      <4>1. Moves(Place(list, x), w.sent[x], Place(w.list, x))  BY <3>2
      <4>2. Place(list, x) # "PLACEHOLDER"  BY <2>1 DEF Plain
      <4>. QED  BY <2>1, <4>1, <4>2 DEF Moves
    <3>. QED  BY <3>1, <3>2
  <2>4. Peaceful(type, w.list)  BY <2>1, <2>3, WorldIs, PeaceStays
  <2>. QED  BY <2>2, <2>3, <2>4 DEF Plain
<1>. QED  BY <1>1, <1>2, BecomesHolds

(* At the start no stream is listed, and none has been told anything. *)
LEMMA KeptAtFirst == ASSUME TypesAssumption PROVE Init => Kept
<1>. SUFFICES ASSUME Init PROVE Kept  OBVIOUS
<1>1. type \in [Streams -> FocusTypes]  BY TypesAssumption DEF Init, TypesAssumption
<1>2. Proper(<<>>) /\ \A s : Place(<<>>, s) = "none"  BY DEF Proper, Place
<1>3. list = <<>> /\ mode = [p \in Pids |-> "none"] /\ members = [p \in Pids |-> {}]
  BY DEF Init
<1>4. world \in Worlds(type, Modes) /\ world.mode = mode /\ world.list = list
  <2>1. Nothing \in [Streams -> Seq(Hints)]  BY DEF Nothing
  <2>. QED  BY <1>2, <1>3, <2>1 DEF Worlds, world
<1>5. told = [s \in Streams |-> Heard(Place(list, s))]  BY <1>2, <1>3 DEF Init, Heard
<1>6. Plain(world) /\ Peaceful(type, list)  BY <1>2, <1>3, <1>4 DEF Plain, Quiet, Peaceful, Before
<1>7. modes \in {{}, Modes}  BY DEF Init
<1>. QED  BY <1>1, <1>4, <1>5, <1>6, <1>7 DEF Kept

(* A stream asks for the focus. *)
LEMMA ActivateHolds ==
    ASSUME Kept, NEW s \in Streams, Activate(s)
    PROVE  Kept'
<1>. DEFINE w == ActivateAudioInterrupt(world, s)
            know == [told EXCEPT ![s] = IF Listed(w, s) THEN "ACTIVE" ELSE "none"]
<1>1. Becomes(w, know)  BY DEF Activate
<1>2. /\ w \in Worlds(type, Modes)
      /\ Gets(w.sent[s], Place(w.list, s))
      /\ \A x \in Streams \ {s} : Moves(Place(list, x), w.sent[x], Place(w.list, x))
      /\ Quiet(world) => Quiet(w)
      /\ \A a, b : Before(w.list, a, b) => a # s /\ (b # s => Before(list, a, b))
      /\ Plain(world) => \A a : Before(w.list, a, s) =>
                            Fine(type, a, s, Place(w.list, a), Place(w.list, s))
  <2>1. /\ world \in Worlds(type, Modes) /\ world.sent = Nothing /\ world.list = list
        /\ type \in [Streams -> FocusTypes]
    BY WorldIs
  <2>2. /\ w \in Worlds(type, Modes)
        /\ Gets(w.sent[s], Place(w.list, s))
        /\ \A x \in Streams \ {s} : Moves(Place(world.list, x), w.sent[x], Place(w.list, x))
        /\ Quiet(world) => Quiet(w)
        /\ \A a, b : Before(w.list, a, b) => a # s /\ (b # s => Before(world.list, a, b))
        /\ Plain(world) => \A a : Before(w.list, a, s) =>
                              Fine(type, a, s, Place(w.list, a), Place(w.list, s))
    BY <2>1, ActivateIs
  <2>. QED  BY <2>1, <2>2
<1>. HIDE DEF w
<1>3. /\ know[s] = IF Place(w.list, s) = "none" THEN "none" ELSE "ACTIVE"
      /\ \A x \in Streams \ {s} : know[x] = Heard(Place(list, x))
  <2>1. Listed(w, s) <=> Place(w.list, s) # "none"
    <3>1. ASSUME Listed(w, s) PROVE Place(w.list, s) # "none"
      <4>1. PICK i \in DOMAIN w.list : w.list[i].id = s  BY <3>1 DEF Listed
      <4>2. Proper(w.list)  BY <1>2 DEF Worlds
      <4>3. w.list[i] \in Item  BY <4>1, <4>2, ElementOfSeq, LenProperties DEF Proper
      <4>4. Place(w.list, s) = w.list[i].state  BY <4>1, <4>2, PlaceAt
      <4>. QED  BY <4>3, <4>4 DEF Item, States
    <3>. QED  BY <3>1, ListedIs
  <2>. QED  BY <2>1 DEF Kept
<1>. HIDE DEF know
<1>4. ASSUME NEW x \in Streams PROVE Learnt(know[x], w.sent[x]) = Heard(Place(w.list, x))
  <2>1. CASE x = s  BY <1>2, <1>3, <2>1, GetsIsHeard
  <2>2. CASE x # s  BY <1>2, <1>3, <2>2, MovesAreHeard
  <2>. QED  BY <2>1, <2>2
<1>5. ASSUME modes = {} PROVE Plain(w) /\ Peaceful(type, w.list)
  <2>1. Plain(world) /\ Peaceful(type, list) /\ world.list = list  BY <1>5, WorldIs DEF Kept
  <2>2. ASSUME NEW x \in Streams, x # s
        PROVE  /\ Place(w.list, x) # "PLACEHOLDER"
               /\ Place(w.list, x) \in {"ACTIVE", "DUCK"} => Place(list, x) \in {"ACTIVE", "DUCK"}
    <3>1. Moves(Place(list, x), w.sent[x], Place(w.list, x))  BY <1>2, <2>2
    <3>2. Place(list, x) # "PLACEHOLDER"  BY <2>1 DEF Plain
    <3>. QED  BY <3>1, <3>2 DEF Moves
  <2>3. Place(w.list, s) # "PLACEHOLDER"  BY <1>2 DEF Gets
  <2>4. Plain(w)  BY <1>2, <2>1, <2>2, <2>3 DEF Plain
  <2>5. ASSUME NEW a, NEW b, Before(w.list, a, b)
        PROVE  Fine(type, a, b, Place(w.list, a), Place(w.list, b))
    <3>1. CASE b = s  BY <1>2, <2>1, <2>5, <3>1
    <3>2. CASE b # s
      <4>1. a # s /\ Before(list, a, b)  BY <1>2, <2>5, <3>2
      <4>2. a \in Streams /\ b \in Streams
        <5>1. Proper(w.list)  BY <1>2 DEF Worlds
        <5>. QED  BY <2>5, <5>1, BeforeListed
      <4>3. Fine(type, a, b, Place(list, a), Place(list, b))  BY <2>1, <4>1 DEF Peaceful
      <4>. QED  BY <2>2, <3>2, <4>1, <4>2, <4>3 DEF Fine
    <3>. QED  BY <3>1, <3>2
  <2>. QED  BY <2>4, <2>5 DEF Peaceful
<1>. QED  BY <1>1, <1>2, <1>4, <1>5, BecomesHolds

(* A stream gives the focus up, or its client dies. *)
LEMMA LeavingHolds ==
    ASSUME Kept, NEW s \in Streams, NEW w \in Worlds(type, Modes), Leaves(world, s, w),
           Becomes(w, [told EXCEPT ![s] = "none"])
    PROVE  Kept'
<1>. DEFINE know == [told EXCEPT ![s] = "none"]
<1>1. know[s] = "none" /\ \A x \in Streams \ {s} : know[x] = told[x]  BY DEF Kept
<1>. HIDE DEF know
<1>2. /\ Orderly(w, world) /\ w.sent[s] = <<>> /\ Place(w.list, s) \in {"none", "PLACEHOLDER"}
      /\ \A x \in Streams \ {s} : Moves(Place(list, x), w.sent[x], Place(w.list, x))
  BY WorldIs DEF Leaves
<1>3. modes = {} => Place(w.list, s) = "none"  BY PidType DEF Leaves, Kept, Plain, Quiet
<1>4. Becomes(w, know)  BY DEF know
<1>. QED  BY <1>1, <1>2, <1>3, <1>4, MovingHolds

(* Its own call, or RemoveClient. *)
LEMMA DeactivateHolds ==
    ASSUME Kept, NEW s \in Streams, Deactivate(s) \/ ClientDies(s)
    PROVE  Kept'
<1>1. CASE Deactivate(s)
  <2>. DEFINE w == DeactivateAudioInterrupt(world, s, FALSE)
  <2>1. Becomes(w, [told EXCEPT ![s] = "none"])  BY <1>1 DEF Deactivate
  <2>2. w \in Worlds(type, Modes) /\ Leaves(world, s, w)  BY WorldIs, DeactivateIs
  <2>. HIDE DEF w
  <2>. QED  BY <2>1, <2>2, LeavingHolds
<1>2. CASE ClientDies(s)
  <2>. DEFINE w == RemoveClient(world, s)
  <2>1. Becomes(w, [told EXCEPT ![s] = "none"])  BY <1>2 DEF ClientDies
  <2>2. w \in Worlds(type, Modes) /\ Leaves(world, s, w)  BY WorldIs, RemoveClientIs
  <2>. HIDE DEF w
  <2>. QED  BY <2>1, <2>2, LeavingHolds
<1>. QED  BY <1>1, <1>2

(* The account changes. *)
LEMMA AccountsHold ==
    ASSUME Kept, AccountsChange
    PROVE  Kept'
<1>. DEFINE w == ClearAudioFocusInfoListOnAccountsChanged(world)
<1>1. Becomes(w, told)  BY DEF AccountsChange
<1>2. /\ w \in Worlds(type, Modes) /\ Orderly(w, world)
      /\ \A x \in Streams : Moves(Place(list, x), w.sent[x], Place(w.list, x))
  BY WorldIs, AccountsChangedIs
<1>. HIDE DEF w
<1>3. PICK nobody : nobody \notin Streams  BY NoSetContainsEverything
<1>. QED  BY <1>1, <1>2, <1>3, MovingHolds

(* A process begins a session: the list stays, and the streams listed are  *)
(* counted.                                                                *)
LEMMA SessionBeginsHolds ==
    ASSUME Kept, NEW p \in Pids, SessionBegins(p)
    PROVE  Kept'
<1>1. PICK m \in modes : Becomes(ActivateAudioSession(world, p, m), told)  BY DEF SessionBegins
<1>. DEFINE w == ActivateAudioSession(world, p, m)
<1>2. m \in Modes /\ modes # {}  BY DEF Kept
<1>3. w \in Worlds(type, Modes) /\ w.list = list /\ w.sent = Nothing
  BY <1>2, WorldIs DEF Worlds, ActivateAudioSession
<1>4. Becomes(w, told)  BY <1>1
<1>. HIDE DEF w
<1>5. ASSUME NEW s \in Streams PROVE Learnt(told[s], w.sent[s]) = Heard(Place(w.list, s))
  <2>1. w.sent[s] = <<>>  BY <1>3 DEF Nothing
  <2>2. told[s] = Heard(Place(list, s))  BY DEF Kept
  <2>. QED  BY <1>3, <2>1, <2>2, LearnsIs
<1>. QED  BY <1>2, <1>3, <1>4, <1>5, BecomesHolds

(* A session ends, and the stream that held its place goes. *)
LEMMA EndSessionHolds ==
    ASSUME Kept, NEW p \in Pids, NEW timeout, mode[p] # "none",
           Becomes(EndSession(world, p, timeout), told)
    PROVE  Kept'
<1>. DEFINE ended == [world EXCEPT !.mode[p] = "none", !.members[p] = {}]
            held == {i \in DOMAIN ended.list : Pid[ended.list[i].id] = p
                                               /\ ended.list[i].state = "PLACEHOLDER"}
            first == CHOOSE i \in held : \A j \in held : i <= j
            s == ended.list[first].id
            w == EndSession(world, p, timeout)
<1>1. /\ ended \in Worlds(type, Modes) /\ ended.list = list /\ ended.sent = Nothing
      /\ ended.mode[p] = "none" /\ Orderly(ended, world)
  <2>1. ended \in Worlds(type, Modes) /\ ended.list = list /\ ended.sent = Nothing
        /\ ended.mode[p] = "none" /\ \A x \in Pids : x # p => ended.mode[x] = world.mode[x]
    BY WorldIs DEF Worlds
  <2>. HIDE DEF ended
  <2>2. Quiet(world) => Quiet(ended)  BY <2>1 DEF Quiet
  <2>. QED  BY <2>1, <2>2, WorldIs DEF Orderly, Sub
<1>2. w = IF held = {} THEN ended ELSE DeactivateAudioInterrupt(ended, s, timeout)
  BY DEF EndSession, RemovePlaceholderInterruptForSession
<1>3. Becomes(w, told)  OBVIOUS
<1>4. \A x \in Streams : Nothing[x] = <<>>  BY DEF Nothing
<1>. HIDE DEF ended, w
<1>5. CASE held = {}
  <2>1. PICK nobody : nobody \notin Streams  BY NoSetContainsEverything
  <2>2. \A x \in Streams : Moves(Place(list, x), w.sent[x], Place(w.list, x))
    BY <1>1, <1>2, <1>4, <1>5, Still
  <2>3. w \in Worlds(type, Modes) /\ Orderly(w, world)  BY <1>1, <1>2, <1>5
  <2>. QED  BY <1>3, <2>1, <2>2, <2>3, MovingHolds
<1>6. CASE held # {}
  <2>1. Proper(list) /\ list \in Seq(Item)  BY <1>1 DEF Worlds, Proper
  <2>2. first \in held
    <3>1. held \in SUBSET Nat
      <4>1. DOMAIN list = 1..Len(list)  BY <2>1
      <4>2. Len(list) \in Nat  BY <2>1
      <4>. QED  BY <1>1, <4>1, <4>2
    <3>. HIDE DEF held
    <3>2. \E i \in held : \A j \in held : i <= j  BY <1>6, <3>1, LeastNumber
    <3>. QED  BY <3>2
  <2>3. first \in DOMAIN list /\ Pid[s] = p /\ list[first].id = s /\ list[first].state = "PLACEHOLDER"
    BY <1>1, <2>2
  <2>. HIDE DEF first, held
  <2>4. s \in Streams /\ Place(list, s) = "PLACEHOLDER"
    <3>1. list[first] \in Item  BY <2>1, <2>3, ElementOfSeq, LenProperties
    <3>2. Place(list, s) = "PLACEHOLDER"  BY <2>1, <2>3, PlaceAt
    <3>. QED  BY <2>3, <3>1, <3>2 DEF Item
  <2>5. w = DeactivateAudioInterrupt(ended, s, timeout)  BY <1>2, <1>6
  <2>. HIDE DEF s
  <2>6. w \in Worlds(type, Modes) /\ Leaves(ended, s, w)  BY <1>1, <2>4, <2>5, DeactivateIs
  <2>7. Orderly(w, world)  BY <1>1, <2>6, OrderlyTwice DEF Leaves
  <2>8. /\ w.sent[s] = <<>> /\ Place(w.list, s) = "none"
        /\ \A x \in Streams \ {s} : Moves(Place(list, x), w.sent[x], Place(w.list, x))
    BY <1>1, <2>3, <2>6 DEF Leaves
  <2>9. told[s] = "none"  BY <2>4 DEF Kept, Heard
  <2>. QED  BY <1>3, <2>4, <2>6, <2>7, <2>8, <2>9, MovingHolds
<1>. QED  BY <1>5, <1>6

(* Every step keeps the invariant. *)
LEMMA PolicyStepHolds == Kept /\ [Next]_vars => Kept'
<1>. SUFFICES ASSUME Kept, [Next]_vars PROVE Kept'  OBVIOUS
<1>1. CASE \E s \in Streams : Activate(s) \/ Deactivate(s) \/ ClientDies(s)
  BY <1>1, ActivateHolds, DeactivateHolds
<1>2. CASE AccountsChange  BY <1>2, AccountsHold
<1>3. CASE \E p \in Pids : SessionBegins(p) \/ SessionEnds(p) \/ SessionTimesOut(p)
  <2>1. ASSUME NEW p \in Pids, SessionEnds(p) PROVE Kept'
    BY <2>1, EndSessionHolds DEF SessionEnds
  <2>2. ASSUME NEW p \in Pids, SessionTimesOut(p) PROVE Kept'
    BY <2>2, EndSessionHolds DEF SessionTimesOut
  <2>. QED  BY <1>3, <2>1, <2>2, SessionBeginsHolds
<1>4. CASE UNCHANGED vars
  <2>1. type' = type /\ list' = list /\ mode' = mode /\ members' = members /\ told' = told
        /\ modes' = modes
    BY <1>4 DEF vars
  <2>2. world' = world  BY <2>1 DEF world
  <2>. QED  BY <2>1, <2>2 DEF Kept
<1>. QED  BY <1>1, <1>2, <1>3, <1>4 DEF Next

LEMMA KeptAlways == Spec => []Kept
<1>1. Init => Kept  BY TypesAssumption, KeptAtFirst
<1>2. Kept /\ [Next]_vars => Kept'  BY PolicyStepHolds
<1>. QED  BY <1>1, <1>2, PTL DEF Spec

(* The list is a list of streams, at most one entry each, with their       *)
(* states; the sessions have a mode and count streams.                     *)
THEOREM PolicyTypeCorrect == Spec => []TypeOK
<1>1. ASSUME Kept PROVE TypeOK
  <2>1. /\ Proper(list) /\ list \in Seq(Item) /\ mode \in [Pids -> Modes \cup {"none"}]
        /\ members \in [Pids -> SUBSET Streams]
    BY <1>1, WorldIs DEF Worlds, Proper
  <2>2. \A i \in DOMAIN list : list[i] \in Item  BY <2>1, ElementOfSeq, LenProperties
  <2>. QED  BY <2>1, <2>2 DEF TypeOK, Proper, Item, States
<1>2. Kept => TypeOK  BY <1>1
<1>. QED  BY <1>2, KeptAlways, PTL

(* Whatever the streams, and the sessions of their processes, have done,   *)
(* what an application makes of its answers and events is what the service *)
(* has it listed as: no event is missing, none is too many.                *)
THEOREM ApplicationsKnow == Spec => []ToldTheTruth
<1>1. ASSUME Kept PROVE ToldTheTruth
  <2>1. Proper(list) /\ list \in Seq(Item) /\ world.list = list  BY <1>1, WorldIs DEF Worlds, Proper
  <2>2. ASSUME NEW s \in Streams
        PROVE  told[s] = IF Listed(world, s) /\ StateOf(world, s) # "PLACEHOLDER"
                         THEN StateOf(world, s) ELSE "none"
    <3>1. told[s] = Heard(Place(list, s))  BY <1>1 DEF Kept
    <3>2. CASE Listed(world, s)
      <4>1. Place(list, s) = StateOf(world, s)  BY <2>1, <3>2 DEF Place, Listed, StateOf
      <4>. QED  BY <3>1, <3>2, <4>1 DEF Heard
    <3>3. CASE ~Listed(world, s)
      <4>1. Place(list, s) = "none"  BY <2>1, <3>3 DEF Place, Listed
      <4>. QED  BY <3>1, <3>3, <4>1 DEF Heard
    <3>. QED  BY <3>2, <3>3
  <2>. QED  BY <2>2 DEF ToldTheTruth
<1>2. Kept => ToldTheTruth  BY <1>1
<1>. QED  BY <1>2, KeptAlways, PTL

(* As long as no process uses sessions, no two streams sound together that *)
(* the table keeps apart, however they came, were paused, left and came    *)
(* back: whatever leaves the list breaks no peace, and whoever comes last  *)
(* is let in beside those the table lets it be heard with.                 *)
THEOREM NoTwoClash == Spec => []NoClash
<1>1. ASSUME Kept PROVE NoClash
  <2>1. /\ Proper(list) /\ list \in Seq(Item) /\ world.list = list /\ world.type = type
        /\ modes = {} => Peaceful(type, list)
    BY <1>1, WorldIs DEF Worlds, Proper, Kept
  <2>. SUFFICES ASSUME modes = {}, NEW i \in DOMAIN list, NEW j \in DOMAIN list, i < j,
                       Sounding(i), Sounding(j), ~MayOverlap(list[i].id, list[j].id)
                PROVE  Says(list[i].id, list[j].id) \notin {"PAUSE", "STOP"}
    BY DEF NoClash
  <2>. DEFINE a == list[i].id
              b == list[j].id
  <2>2. Before(list, a, b)  BY DEF Before
  <2>3. Place(list, a) = list[i].state /\ Place(list, b) = list[j].state  BY <2>1, PlaceAt
  <2>4. Fine(type, a, b, list[i].state, list[j].state)  BY <2>1, <2>2, <2>3 DEF Peaceful
  <2>5. ~Shares(type, a, b)  BY <2>1 DEF MayOverlap, Shares, IsAudioSourceConcurrency
  <2>6. Says(a, b) = Rule(type, a, b).hint  BY <2>1 DEF Says, Entry, Rule
  <2>. QED  BY <2>4, <2>5, <2>6 DEF Fine, Sounding
<1>2. Kept => NoClash  BY <1>1
<1>. QED  BY <1>2, KeptAlways, PTL

-----------------------------------------------------------------------------
(* The state of the k-th stream of q is the table's word h between it and  *)
(* the j-th one.                                                           *)
Blames(t, q, k, j, h) ==
    IF k < j THEN /\ Rule(t, q[k].id, q[j].id).hint = h
                  /\ Rule(t, q[k].id, q[j].id).actionOn = "CURRENT"
             ELSE /\ Rule(t, q[j].id, q[k].id).hint = h
                  /\ Rule(t, q[j].id, q[k].id).actionOn = "INCOMING"

(* The first streams of q have states in u, each for a reason. *)
Accounted(t, q, u) ==
    \A k \in DOMAIN u :
       /\ u[k].id = q[k].id /\ u[k].state \in {"ACTIVE", "DUCK", "PAUSE"}
       /\ u[k].state \in {"DUCK", "PAUSE"} =>
             \E j \in DOMAIN u : j # k /\ Blames(t, q, k, j, u[k].state)

(* Every two streams of q are in the table, or are not looked up in it. *)
Known(t, q) ==
    \A i, j \in DOMAIN q :
       i < j /\ ~IsSameAppInShareMode(q[i].id, q[j].id) => <<t[q[i].id], t[q[j].id]>> \notin Missing

(* What a simulated entry may be, whatever is in the table. *)
Words(w) == {HINT_STATE_MAP[UpdateHintTypeForExistingSession(w, b, Entry(w, a, b))] :
               a \in Streams, b \in Streams}
Outcomes(w) ==
    States \cup Words(w) \cup {Worst(Z) : Z \in SUBSET ({"ACTIVE"} \cup Words(w))}
Simulated(w) == Seq([id : Streams, state : Outcomes(w)])

LEMMA ArriveType ==
    ASSUME NEW w, NEW u \in Simulated(w), NEW e \in Item
    PROVE  Arrive(w, u, e) \in Simulated(w) /\ Len(Arrive(w, u, e)) = Len(u) + 1
<1>. DEFINE heard == {i \in DOMAIN u : /\ u[i].state \notin {"PAUSE", "PLACEHOLDER"}
                                       /\ ~IsSameAppInShareMode(e.id, u[i].id)
                                       /\ ~CanMixForSession(w, e.id, u[i].id)}
            Hint(i) == UpdateHintTypeForExistingSession(w, e.id, Entry(w, u[i].id, e.id))
            OnExisting(i) == Entry(w, u[i].id, e.id).actionOn = "CURRENT"
            says == {i \in heard : Hint(i) # "STOP"}
            asks == {HINT_STATE_MAP[Hint(i)] : i \in {j \in says : ~OnExisting(j)}}
            state == Worst({"ACTIVE"} \cup asks)
            moved == [i \in DOMAIN u |->
                        IF i \in says /\ OnExisting(i)
                        THEN [u[i] EXCEPT !.state = HINT_STATE_MAP[Hint(i)]] ELSE u[i]]
            base == IF state = "PAUSE" THEN u ELSE moved
            last == [e EXCEPT !.state = IF @ = "PLACEHOLDER" THEN @ ELSE state]
            One == [id : Streams, state : Outcomes(w)]
<1>1. Arrive(w, u, e) = Append(base, last)  BY DEF Arrive
<1>2. DOMAIN u = 1..Len(u) /\ Len(u) \in Nat /\ u \in Seq(One) /\ \A i \in DOMAIN u : u[i] \in One
  BY LenProperties, ElementOfSeq DEF Simulated
<1>3. e.id \in Streams /\ e.state \in States /\ e = [id |-> e.id, state |-> e.state]  BY DEF Item
<1>4. \A i \in DOMAIN u : HINT_STATE_MAP[Hint(i)] \in Words(w)  BY <1>2, <1>3 DEF Words
<1>. HIDE DEF Hint, OnExisting
<1>5. asks \in SUBSET Words(w)  BY <1>4
<1>. HIDE DEF asks
<1>6. state \in Outcomes(w)  BY <1>5 DEF Outcomes
<1>. HIDE DEF state
<1>7. last \in One  BY <1>3, <1>6 DEF Outcomes
<1>. HIDE DEF heard, last
<1>8. moved \in Seq(One) /\ Len(moved) = Len(u)
  <2>1. ASSUME NEW i \in 1..Len(u)
        PROVE  (IF i \in says /\ OnExisting(i)
                THEN [u[i] EXCEPT !.state = HINT_STATE_MAP[Hint(i)]] ELSE u[i]) \in One
    <3>. DEFINE y == HINT_STATE_MAP[Hint(i)]
    <3>1. y \in Outcomes(w) /\ u[i] \in One  BY <1>2, <1>4 DEF Outcomes
    <3>. HIDE DEF y
    <3>2. [u[i] EXCEPT !.state = y] \in One  BY <3>1
    <3>. QED  BY <3>1, <3>2 DEF y
  <2>2. moved \in [1..Len(u) -> One]  BY <1>2, <2>1
  <2>. HIDE DEF moved, One
  <2>. QED  BY <1>2, <2>2, SeqDef, LenProperties
<1>9. base \in Seq(One) /\ Len(base) = Len(u)  BY <1>2, <1>8
<1>. HIDE DEF base, One
<1>10. Append(base, last) \in Seq(One) /\ Len(Append(base, last)) = Len(u) + 1
  BY <1>7, <1>9, AppendProperties
<1>. QED  BY <1>1, <1>10 DEF Simulated, One

(* The next stream of the list comes: it and those before it have states   *)
(* for a reason.                                                           *)
LEMMA ArriveIs ==
    ASSUME NEW t \in [Streams -> FocusTypes], NEW M, NEW w \in Worlds(t, M), Quiet(w),
           Known(t, w.list), \A i \in DOMAIN w.list : w.list[i].state # "PLACEHOLDER",
           NEW u \in Simulated(w), Len(u) + 1 \in DOMAIN w.list, Accounted(t, w.list, u)
    PROVE  Accounted(t, w.list, Arrive(w, u, w.list[Len(u) + 1]))
<1>. DEFINE q == w.list
            k == Len(u) + 1
            e == q[k]
            v == Arrive(w, u, e)
            heard == {i \in DOMAIN u : /\ u[i].state \notin {"PAUSE", "PLACEHOLDER"}
                                       /\ ~IsSameAppInShareMode(e.id, u[i].id)
                                       /\ ~CanMixForSession(w, e.id, u[i].id)}
            Hint(i) == UpdateHintTypeForExistingSession(w, e.id, Entry(w, u[i].id, e.id))
            OnExisting(i) == Entry(w, u[i].id, e.id).actionOn = "CURRENT"
            says == {i \in heard : Hint(i) # "STOP"}
            asks == {HINT_STATE_MAP[Hint(i)] : i \in {j \in says : ~OnExisting(j)}}
            state == Worst({"ACTIVE"} \cup asks)
            moved == [i \in DOMAIN u |->
                        IF i \in says /\ OnExisting(i)
                        THEN [u[i] EXCEPT !.state = HINT_STATE_MAP[Hint(i)]] ELSE u[i]]
            base == IF state = "PAUSE" THEN u ELSE moved
            last == [e EXCEPT !.state = IF @ = "PLACEHOLDER" THEN @ ELSE state]
            One == [id : Streams, state : Outcomes(w)]
<1>1. v = Append(base, last)  BY DEF Arrive
<1>2. /\ DOMAIN u = 1..Len(u) /\ Len(u) \in Nat /\ u \in Seq(One) /\ \A i \in DOMAIN u : u[i] \in One
      /\ k \in Nat /\ DOMAIN q = 1..Len(q) /\ Len(q) \in Nat /\ k <= Len(q)
  <2>1. q \in Seq(Item) /\ u \in Seq(One)  BY DEF Worlds, Simulated
  <2>2. k \in DOMAIN q  OBVIOUS
  <2>. HIDE DEF One, q, k
  <2>3. DOMAIN q = 1..Len(q) /\ Len(q) \in Nat  BY <2>1, LenProperties
  <2>4. DOMAIN u = 1..Len(u) /\ Len(u) \in Nat  BY <2>1, LenProperties
  <2>5. \A i \in DOMAIN u : u[i] \in One  BY <2>1, <2>4, ElementOfSeq
  <2>. QED  BY <2>1, <2>2, <2>3, <2>4, <2>5
<1>3. /\ e \in Item /\ e.id \in Streams /\ e.state \in States /\ e.state # "PLACEHOLDER"
      /\ e = [id |-> e.id, state |-> e.state]
  <2>1. q \in Seq(Item)  BY DEF Worlds
  <2>2. k \in 1..Len(q)  BY <1>2
  <2>3. e \in Item  BY <2>1, <2>2, ElementOfSeq
  <2>. QED  BY <1>2, <2>3 DEF Item
<1>4. last = [id |-> e.id, state |-> state]  BY <1>3
<1>5. \A i \in DOMAIN u : i \in DOMAIN q /\ i < k /\ u[i].id = q[i].id /\ u[i].id \in Streams
  BY <1>2 DEF Accounted
<1>6. \A i \in DOMAIN u : Entry(w, u[i].id, e.id) = Rule(t, q[i].id, q[k].id)
  BY <1>5 DEF Worlds, Entry, Rule
<1>7. \A i \in DOMAIN u : Hint(i) = Rule(t, q[i].id, q[k].id).hint
  <2>1. \A i \in DOMAIN u : Hint(i) = Entry(w, u[i].id, e.id).hint  BY <1>3, QuietIs
  <2>. QED  BY <1>6, <2>1
<1>8. \A i \in DOMAIN u : OnExisting(i) <=> Rule(t, q[i].id, q[k].id).actionOn = "CURRENT"
  BY <1>6
<1>. HIDE DEF Hint, OnExisting
<1>9. ASSUME NEW i \in says
      PROVE  /\ Hint(i) \in {"PAUSE", "DUCK", "NONE"}
             /\ HINT_STATE_MAP[Hint(i)] \in {"ACTIVE", "DUCK", "PAUSE"}
             /\ HINT_STATE_MAP[Hint(i)] \in {"DUCK", "PAUSE"} => HINT_STATE_MAP[Hint(i)] = Hint(i)
             /\ ~OnExisting(i) => Rule(t, q[i].id, q[k].id).actionOn = "INCOMING"
  <2>1. i \in DOMAIN u /\ ~IsSameAppInShareMode(e.id, u[i].id) /\ Hint(i) # "STOP"  OBVIOUS
  <2>2. <<t[q[i].id], t[q[k].id]>> \notin Missing
    <3>1. ~IsSameAppInShareMode(q[i].id, q[k].id)  BY <1>5, <2>1 DEF IsSameAppInShareMode
    <3>. QED  BY <1>2, <1>5, <2>1, <3>1 DEF Known
  <2>3. /\ Rule(t, q[i].id, q[k].id).actionOn \in {"CURRENT", "INCOMING"}
        /\ Rule(t, q[i].id, q[k].id).hint \in {"STOP", "PAUSE", "DUCK", "NONE"}
    BY <1>3, <1>5, <2>1, <2>2, RuleIs
  <2>4. Hint(i) \in {"PAUSE", "DUCK", "NONE"}  BY <1>7, <2>1, <2>3
  <2>5. /\ HINT_STATE_MAP["NONE"] = "ACTIVE" /\ HINT_STATE_MAP["DUCK"] = "DUCK"
        /\ HINT_STATE_MAP["PAUSE"] = "PAUSE"
    BY DEF HINT_STATE_MAP
  <2>. QED  BY <1>8, <2>1, <2>3, <2>4, <2>5
<1>10. /\ state \in {"ACTIVE", "DUCK", "PAUSE"}
       /\ state \in {"DUCK", "PAUSE"} =>
             \E i \in DOMAIN u : Blames(t, q, k, i, state)
  <2>. DEFINE Z == {"ACTIVE"} \cup asks
  <2>1. Z \in SUBSET {"ACTIVE", "DUCK", "PAUSE"} /\ Z # {}  BY <1>9
  <2>2. state \in Z
    <3>. HIDE DEF Z
    <3>1. Worst(Z) \in Z  BY <2>1, WorstIs
    <3>. QED  BY <3>1 DEF Z
  <2>3. ASSUME state \in {"DUCK", "PAUSE"} PROVE \E i \in DOMAIN u : Blames(t, q, k, i, state)
    <3>1. PICK i \in says : ~OnExisting(i) /\ state = HINT_STATE_MAP[Hint(i)]
      <4>. HIDE DEF state, says
      <4>. QED  BY <2>2, <2>3
    <3>2. i \in DOMAIN u /\ i < k /\ ~(k < i)  BY <1>2, <1>5
    <3>3. state = Hint(i) /\ Rule(t, q[i].id, q[k].id).actionOn = "INCOMING"  BY <1>9, <2>3, <3>1
    <3>. HIDE DEF state
    <3>. QED  BY <1>7, <3>2, <3>3 DEF Blames
  <2>. HIDE DEF state
  <2>. QED  BY <2>1, <2>2, <2>3
<1>. HIDE DEF state, asks
<1>11. /\ base \in Seq(One) /\ Len(base) = Len(u) /\ last \in One
       /\ v \in Seq(One) /\ Len(v) = k
       /\ \A i \in DOMAIN u : v[i] = base[i]
       /\ v[k] = last
  <2>1. last \in One  BY <1>3, <1>4, <1>10 DEF Outcomes, States
  <2>2. ASSUME NEW i \in DOMAIN u
        PROVE  (IF i \in says /\ OnExisting(i)
                THEN [u[i] EXCEPT !.state = HINT_STATE_MAP[Hint(i)]] ELSE u[i]) \in One
    <3>. DEFINE y == HINT_STATE_MAP[Hint(i)]
    <3>1. u[i] \in One /\ (i \in says => y \in Outcomes(w))  BY <1>2, <1>9 DEF Outcomes, States
    <3>. HIDE DEF y, says
    <3>2. i \in says => [u[i] EXCEPT !.state = y] \in One  BY <3>1
    <3>. QED  BY <3>1, <3>2 DEF y
  <2>3. moved \in [1..Len(u) -> One]  BY <1>2, <2>2
  <2>4. moved \in Seq(One) /\ Len(moved) = Len(u)
    <3>. HIDE DEF moved, One
    <3>. QED  BY <1>2, <2>3, SeqDef, LenProperties
  <2>5. base \in Seq(One) /\ Len(base) = Len(u)  BY <1>2, <2>4
  <2>. HIDE DEF base, One, last, v
  <2>6. /\ v \in Seq(One) /\ Len(v) = k /\ v[k] = last
        /\ \A i \in 1..Len(base) : v[i] = base[i]
    BY <1>1, <2>1, <2>5, AppendProperties
  <2>. QED  BY <1>2, <2>1, <2>5, <2>6
<1>12. DOMAIN v = 1..k  BY <1>11, LenProperties
<1>13. ASSUME NEW i \in DOMAIN u
       PROVE  /\ v[i].id = q[i].id /\ v[i].state \in {"ACTIVE", "DUCK", "PAUSE"}
              /\ v[i].state \in {"DUCK", "PAUSE"} =>
                    \E j \in DOMAIN v : j # i /\ Blames(t, q, i, j, v[i].state)
  <2>. HIDE DEF v, last
  <2>1. CASE v[i] = u[i]
    <3>1. \A j \in DOMAIN u : j \in DOMAIN v  BY <1>2, <1>12
    <3>. QED  BY <2>1, <3>1 DEF Accounted
  <2>2. CASE i \in says /\ OnExisting(i) /\ v[i] = [u[i] EXCEPT !.state = HINT_STATE_MAP[Hint(i)]]
    <3>. DEFINE y == HINT_STATE_MAP[Hint(i)]
    <3>1. u[i] \in One  BY <1>2
    <3>2. v[i].id = u[i].id /\ v[i].state = y
      <4>. HIDE DEF y, says
      <4>. QED  BY <2>2, <3>1 DEF y
    <3>3. y \in {"ACTIVE", "DUCK", "PAUSE"} /\ (y \in {"DUCK", "PAUSE"} => y = Hint(i))  BY <1>9, <2>2
    <3>4. k \in DOMAIN v /\ i < k /\ k # i  BY <1>2, <1>5, <1>12
    <3>5. y \in {"DUCK", "PAUSE"} => Blames(t, q, i, k, y)  BY <1>7, <1>8, <2>2, <3>3, <3>4 DEF Blames
    <3>. HIDE DEF y
    <3>. QED  BY <1>5, <3>2, <3>3, <3>4, <3>5
  <2>3. v[i] = base[i]  BY <1>11
  <2>. HIDE DEF says
  <2>. QED  BY <2>1, <2>2, <2>3
<1>14. /\ v[k].id = q[k].id /\ v[k].state \in {"ACTIVE", "DUCK", "PAUSE"}
       /\ v[k].state \in {"DUCK", "PAUSE"} =>
             \E j \in DOMAIN v : j # k /\ Blames(t, q, k, j, v[k].state)
  <2>1. v[k].id = q[k].id /\ v[k].state = state  BY <1>4, <1>11
  <2>2. \A j \in DOMAIN u : j \in DOMAIN v /\ j # k  BY <1>2, <1>12
  <2>. HIDE DEF v
  <2>. QED  BY <1>10, <2>1, <2>2
<1>. HIDE DEF v
<1>15. \A i \in DOMAIN v : i \in DOMAIN u \/ i = k  BY <1>2, <1>12
<1>16. Accounted(t, q, v)  BY <1>13, <1>14, <1>15 DEF Accounted
<1>. QED  BY <1>16 DEF v

(* SimulateFocusEntry: every stream of the list has a state, for a reason. *)
LEMMA SimulateIs ==
    ASSUME NEW t \in [Streams -> FocusTypes], NEW M, NEW w \in Worlds(t, M), Quiet(w),
           Known(t, w.list), \A i \in DOMAIN w.list : w.list[i].state # "PLACEHOLDER"
    PROVE  /\ DOMAIN SimulateFocusEntry(w) = DOMAIN w.list
           /\ Accounted(t, w.list, SimulateFocusEntry(w))
<1>. DEFINE q == w.list
            n == Len(q)
            U == Simulated(w)
            Step(u, i) == Arrive(w, u, q[i])
            Runs(g) == g = [S \in SUBSET DOMAIN q |->
                              IF S = {} THEN <<>> ELSE Step(g[S \ {Max(S)}], Max(S))]
            fold == CHOOSE g : Runs(g)
            step == [a \in U \X (1..n) |-> Step(a[1], a[2])]
<1>1. n \in Nat /\ DOMAIN q = 1..n /\ \A k \in 1..n : q[k] \in Item
  BY LenProperties, ElementOfSeq DEF Worlds
<1>2. ASSUME NEW u \in U, NEW i \in 1..n PROVE Step(u, i) \in U /\ Len(Step(u, i)) = Len(u) + 1
  BY <1>1, ArriveType
<1>3. SimulateFocusEntry(w) = fold[1..n]
  BY <1>1 DEF SimulateFocusEntry, FoldLeft, MapThenFoldSet
<1>a. ASSUME NEW u \in U, Len(u) + 1 \in 1..n, Accounted(t, q, u)
      PROVE  Accounted(t, q, Step(u, Len(u) + 1))
  BY <1>1, <1>a, ArriveIs
<1>. HIDE DEF Step, n, U
<1>4. step \in [U \X (1..n) -> U]  BY <1>2
<1>5. \A u \in U, i \in 1..n : step[<<u, i>>] = Step(u, i)  OBVIOUS
<1>. HIDE DEF step
<1>6. <<>> \in U  BY DEF U, Simulated
<1>7. \E g : Runs(g)
  <2>1. PICK g \in [SUBSET (1..n) -> U] : Computes(g, n, <<>>, step)
    BY <1>1, <1>4, <1>6, FoldRuns
  <2>2. ASSUME NEW S \in SUBSET (1..n), S # {}
        PROVE  step[<<g[S \ {Max(S)}], Max(S)>>] = Step(g[S \ {Max(S)}], Max(S))
    <3>1. Max(S) \in 1..n  BY <1>1, <2>2, MaxIs
    <3>. QED  BY <1>5, <3>1
  <2>3. Runs(g)  BY <1>1, <2>1, <2>2 DEF Computes
  <2>. QED  BY <2>3
<1>8. Runs(fold)  BY <1>7
<1>. HIDE DEF fold
<1>9. FoldsIn(U, fold, n, <<>>, step)
  <2>1. ASSUME NEW S \in SUBSET (1..n), S # {}, fold[S \ {Max(S)}] \in U
        PROVE  fold[S] = step[<<fold[S \ {Max(S)}], Max(S)>>]
    <3>1. Max(S) \in 1..n  BY <1>1, <2>1, MaxIs
    <3>2. fold[S] = Step(fold[S \ {Max(S)}], Max(S))  BY <1>1, <1>8, <2>1
    <3>. QED  BY <1>5, <2>1, <3>1, <3>2
  <2>2. fold[{}] = <<>>  BY <1>8
  <2>. QED  BY <2>1, <2>2 DEF FoldsIn
<1>10. PICK r \in [0..n -> U] : OneByOne(r, fold, n, <<>>, step)
  BY <1>1, <1>4, <1>6, <1>9, FoldIs
<1>. DEFINE T == {k \in 0..n : Len(r[k]) = k /\ Accounted(t, q, r[k])}
<1>11. n \in T
  <2>1. 0 \in T
    <3>1. r[0] = <<>> /\ 0 \in 0..n  BY <1>1, <1>10 DEF OneByOne
    <3>2. Len(<<>>) = 0 /\ DOMAIN <<>> = {}  OBVIOUS
    <3>. QED  BY <3>1, <3>2 DEF Accounted
  <2>2. ASSUME NEW k \in 1..n, k - 1 \in T PROVE k \in T
    <3>1. k - 1 \in 0..n /\ k \in 0..n /\ r[k - 1] \in U /\ Len(r[k - 1]) = k - 1 /\ (k - 1) + 1 = k
          /\ Accounted(t, q, r[k - 1])
      BY <1>1, <2>2
    <3>2. r[k] = Step(r[k - 1], k)  BY <1>5, <1>10, <3>1 DEF OneByOne
    <3>3. Len(r[k]) = k  BY <1>2, <3>1, <3>2
    <3>4. Accounted(t, q, r[k])  BY <1>a, <3>1, <3>2
    <3>. QED  BY <3>1, <3>3, <3>4
  <2>3. 0..n \subseteq T
    <3>. HIDE DEF T
    <3>. QED  BY <1>1, <2>1, <2>2, CountUp
  <2>. QED  BY <1>1, <2>3
<1>12. DOMAIN r[n] = 1..n
  <2>1. r[n] \in U /\ Len(r[n]) = n  BY <1>1, <1>11
  <2>. QED  BY <2>1, LenProperties DEF U, Simulated
<1>13. SimulateFocusEntry(w) = r[n]  BY <1>3, <1>10 DEF OneByOne
<1>. QED  BY <1>1, <1>11, <1>12, <1>13

(* Whoever gives the focus up leaves behind no stream paused or ducked for *)
(* nothing: the states ResumeAudioFocusList leaves are the simulated ones, *)
(* and those come from the table's word on two streams that were there     *)
(* together.                                                               *)
THEOREM NobodyIsForgotten == Spec => ReasonsRemain
<1>1. ASSUME Kept, NEW s \in Streams, modes = {}, Listed(world, s), Deactivate(s),
             NEW i \in DOMAIN list', list'[i].state \in {"PAUSE", "DUCK"}
      PROVE  HasReason(s, list'[i])
  <2>. DEFINE left == Forget(world, s)
              base == Without(left, s)
              stay == Without(world, s).list
              new == SimulateFocusEntry(base)
              w == ResumeAudioFocusList(base, FALSE)
              x == list'[i].id
              At == CHOOSE m \in DOMAIN stay : stay[m].id = x
  <2>1. /\ world \in Worlds(type, Modes) /\ world.sent = Nothing /\ world.list = list
        /\ type \in [Streams -> FocusTypes] /\ world.type = type
        /\ Plain(world) /\ Peaceful(type, list)
    BY <1>1, WorldIs DEF Kept
  <2>2. left \in Worlds(type, Modes) /\ left.list = list /\ left.sent = Nothing /\ Orderly(left, world)
    BY <2>1, ForgetIs
  <2>3. stay = base.list  BY <2>1, <2>2 DEF Without
  <2>4. list' = w.list
    <3>1. ~IsAudioSessionActivated(world, Pid[s])
      BY <2>1, PidType DEF IsAudioSessionActivated, Plain, Quiet
    <3>2. DeactivateAudioInterrupt(world, s, FALSE) = w
      BY <1>1, <3>1 DEF DeactivateAudioInterrupt
    <3>. QED  BY <1>1, <3>2 DEF Deactivate, Becomes
  <2>. HIDE DEF left
  <2>5. /\ base \in Worlds(type, Modes) /\ base.sent = Nothing /\ Orderly(base, world)
        /\ \A y : y # s => Place(base.list, y) = Place(list, y)
        /\ Place(base.list, s) = "none"
    <3>1. /\ base \in Worlds(type, Modes) /\ base.sent = left.sent /\ Orderly(base, left)
          /\ Place(base.list, s) = "none"
          /\ \A y : y # s => Place(base.list, y) = Place(left.list, y)
      BY <2>2, WithoutIs
    <3>. QED  BY <2>2, <3>1, OrderlyTwice
  <2>. HIDE DEF base
  <2>6. Proper(base.list) /\ base.list \in Seq(Item) /\ Quiet(base) /\ DOMAIN base.list = 1..Len(base.list)
    BY <2>1, <2>5, LenProperties DEF Worlds, Proper, Orderly, Plain
  <2>7. \A k \in DOMAIN base.list : base.list[k].state # "PLACEHOLDER"
    <3>. SUFFICES ASSUME NEW k \in DOMAIN base.list PROVE base.list[k].state # "PLACEHOLDER"
      OBVIOUS
    <3>1. base.list[k] \in Item  BY <2>6, ElementOfSeq
    <3>2. Place(base.list, base.list[k].id) = base.list[k].state  BY <2>6, PlaceAt
    <3>3. base.list[k].id \in Streams /\ base.list[k].state # "none"  BY <3>1 DEF Item, States
    <3>4. Place(list, base.list[k].id) # "PLACEHOLDER"  BY <2>1, <3>3 DEF Plain
    <3>. QED  BY <2>5, <3>2, <3>3, <3>4
  <2>8. Known(type, base.list)
    <3>. SUFFICES ASSUME NEW a \in DOMAIN base.list, NEW b \in DOMAIN base.list, a < b,
                         ~IsSameAppInShareMode(base.list[a].id, base.list[b].id)
                  PROVE  <<type[base.list[a].id], type[base.list[b].id]>> \notin Missing
      BY DEF Known
    <3>1. Before(base.list, base.list[a].id, base.list[b].id)  BY DEF Before
    <3>2. Before(list, base.list[a].id, base.list[b].id)  BY <2>1, <2>5, <3>1 DEF Orderly, Sub
    <3>. QED  BY <2>1, <3>2 DEF Peaceful, Fine
  <2>9. DOMAIN new = DOMAIN base.list /\ Accounted(type, base.list, new)
    BY <2>1, <2>5, <2>6, <2>7, <2>8, SimulateIs
  <2>10. /\ w \in Worlds(type, Modes)
         /\ \A y \in Streams : Moves(Place(base.list, y), w.sent[y], Place(w.list, y))
         /\ \A k \in 1..Len(base.list) : Place(w.list, base.list[k].id) \in Settled(new[k].state)
    BY <2>5, <2>6, ResumeIs
  <2>. HIDE DEF new, w, stay
  <2>11. x \in Streams /\ Place(w.list, x) = list'[i].state
    <3>1. Proper(w.list) /\ w.list \in Seq(Item)  BY <2>10 DEF Worlds, Proper
    <3>2. w.list[i] \in Item  BY <2>4, <3>1, ElementOfSeq, LenProperties
    <3>3. Place(w.list, w.list[i].id) = w.list[i].state  BY <2>4, <3>1, PlaceAt
    <3>. QED  BY <2>4, <3>2, <3>3 DEF Item
  <2>12. PICK k \in DOMAIN base.list : base.list[k].id = x
    <3>1. Place(base.list, x) # "none"  BY <1>1, <2>10, <2>11 DEF Moves
    <3>. QED  BY <3>1 DEF Place
  <2>13. At = k  BY <2>3, <2>6, <2>12 DEF Proper
  <2>14. new[k].state = list'[i].state
    <3>1. list'[i].state \in Settled(new[k].state)  BY <2>6, <2>10, <2>11, <2>12
    <3>2. new[k].state \in {"ACTIVE", "DUCK", "PAUSE"}  BY <2>9, <2>12 DEF Accounted
    <3>. QED  BY <1>1, <3>1, <3>2 DEF Settled
  <2>15. PICK j \in DOMAIN new : j # k /\ Blames(type, base.list, k, j, list'[i].state)
    BY <1>1, <2>9, <2>12, <2>14 DEF Accounted
  <2>16. j \in DOMAIN stay /\ stay[j].id = base.list[j].id  BY <2>3, <2>9
  <2>17. stay[j].id # x  BY <2>6, <2>9, <2>12, <2>15, <2>16 DEF Proper
  <2>18. \A a, b : Entry(world, a, b) = Rule(type, a, b)  BY <2>1 DEF Entry, Rule
  <2>19. /\ At < j => /\ Entry(world, x, stay[j].id).hint = list'[i].state
                         /\ Entry(world, x, stay[j].id).actionOn = "CURRENT"
         /\ ~(At < j) => /\ Entry(world, stay[j].id, x).hint = list'[i].state
                            /\ Entry(world, stay[j].id, x).actionOn = "INCOMING"
    BY <2>12, <2>13, <2>15, <2>16, <2>18 DEF Blames
  <2>. HIDE DEF At, x
  <2>20. \E m \in DOMAIN stay :
           LET o == stay[m].id
               e == IF At < m THEN Entry(world, x, o) ELSE Entry(world, o, x)
           IN /\ o # x /\ e.hint = list'[i].state
              /\ e.actionOn = IF At < m THEN "CURRENT" ELSE "INCOMING"
    BY <2>16, <2>17, <2>19
  <2>. QED  BY <2>20 DEF HasReason, stay, At, x
<1>2. Kept => [\A s \in Streams :
       modes = {} /\ Listed(world, s) /\ (\A i \in DOMAIN list' : list'[i].id # s) /\ Deactivate(s) =>
         \A i \in DOMAIN list' : list'[i].state \in {"PAUSE", "DUCK"} => HasReason(s, list'[i])]_vars
  BY <1>1
<1>. QED  BY <1>2, KeptAlways, PTL DEF ReasonsRemain

=============================================================================
