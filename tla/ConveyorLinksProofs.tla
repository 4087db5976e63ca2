-------------------------- MODULE ConveyorLinksProofs --------------------------
(***************************************************************************)
(* What the conveyors are told, for any conveyors and configurations: that *)
(* it is what the system believes, that each link has a master and a       *)
(* slave, and that the routes to a box lead there.                         *)
(***************************************************************************)
EXTENDS ConveyorSystemProofs

------------------------------------------------------------------------------
(* Lemmas: the elements of a set in an order *)

StrictOrder(S, order) ==
    /\ \A x \in S : <<x, x>> \notin order
    /\ \A x, y, z \in S : <<x, y>> \in order /\ <<y, z>> \in order
                              => <<x, z>> \in order
    /\ \A x, y \in S : x # y => <<x, y>> \in order \/ <<y, x>> \in order

Before(S, order, x) == {y \in S : <<y, x>> \in order}

(* What comes before an element are fewer elements than the set has, and   *)
(* fewer than come before a later one.                                     *)
LEMMA BeforeGrows ==
    ASSUME NEW S, IsFiniteSet(S), NEW order, StrictOrder(S, order)
    PROVE  /\ \A x \in S : Cardinality(Before(S, order, x))
                              \in 0 .. Cardinality(S) - 1
           /\ \A x, y \in S : <<x, y>> \in order =>
                 Cardinality(Before(S, order, x))
                     < Cardinality(Before(S, order, y))
<1>1. Cardinality(S) \in Nat
  BY FS_CardinalityType
<1>2. ASSUME NEW x \in S
      PROVE  /\ IsFiniteSet(Before(S, order, x))
             /\ Cardinality(Before(S, order, x)) \in Nat
             /\ Cardinality(Before(S, order, x)) <= Cardinality(S)
             /\ Cardinality(Before(S, order, x)) # Cardinality(S)
  <2>1. /\ Before(S, order, x) \in SUBSET S
        /\ Before(S, order, x) # S
    BY DEF Before, StrictOrder
  <2>2. /\ IsFiniteSet(Before(S, order, x))
        /\ Cardinality(Before(S, order, x)) <= Cardinality(S)
        /\ Cardinality(S) = Cardinality(Before(S, order, x))
              => S = Before(S, order, x)
    BY <2>1, FS_Subset
  <2> QED
    BY <2>1, <2>2, FS_CardinalityType
<1>3. ASSUME NEW x \in S, NEW y \in S, <<x, y>> \in order
      PROVE  Cardinality(Before(S, order, x)) < Cardinality(Before(S, order, y))
  <2>1. Before(S, order, x) \in SUBSET Before(S, order, y)
    BY <1>3 DEF Before, StrictOrder
  <2>2. x \in Before(S, order, y) /\ x \notin Before(S, order, x)
    BY <1>3 DEF Before, StrictOrder
  <2>3. /\ Cardinality(Before(S, order, x)) <= Cardinality(Before(S, order, y))
        /\ Cardinality(Before(S, order, y)) = Cardinality(Before(S, order, x))
              => Before(S, order, y) = Before(S, order, x)
    BY <1>2, <2>1, FS_Subset
  <2> QED
    BY <1>2, <2>2, <2>3
<1> QED
  BY <1>1, <1>2, <1>3

(* InOrder lists every element once, in the order. *)
LEMMA InOrderLists ==
    ASSUME NEW S, IsFiniteSet(S), NEW order, StrictOrder(S, order)
    PROVE  /\ Cardinality(S) \in Nat
           /\ DOMAIN InOrder(S, order) = 1 .. Cardinality(S)
           /\ \A n \in 1 .. Cardinality(S) : InOrder(S, order)[n] \in S
           /\ \A x \in S :
                 \E n \in 1 .. Cardinality(S) : InOrder(S, order)[n] = x
           /\ \A m, n \in 1 .. Cardinality(S) : m < n =>
                 <<InOrder(S, order)[m], InOrder(S, order)[n]>> \in order
<1> DEFINE N == Cardinality(S)
           rank(x) == Cardinality(Before(S, order, x))
           f == [x \in S |-> rank(x)]
           list == InOrder(S, order)
<1>1. N \in Nat
  BY FS_CardinalityType
<1>2. \A x \in S : rank(x) \in 0 .. N - 1
  BY BeforeGrows
<1>3. \A x, y \in S : <<x, y>> \in order => rank(x) < rank(y)
  BY BeforeGrows
<1>4. DOMAIN list = 1 .. N
  BY DEF InOrder
<1>5. \A n \in 1 .. N : list[n] = CHOOSE x \in S : rank(x) = n - 1
  BY DEF InOrder, Before
<1> HIDE DEF rank, N, list
<1>6. \A x, y \in S : rank(x) = rank(y) => x = y
  <2> SUFFICES ASSUME NEW x \in S, NEW y \in S, rank(x) = rank(y), x # y
               PROVE  FALSE
    OBVIOUS
  <2>1. <<x, y>> \in order \/ <<y, x>> \in order
    BY DEF StrictOrder
  <2>2. rank(x) < rank(y) \/ rank(y) < rank(x)
    BY <1>3, <2>1
  <2> QED
    BY <1>1, <1>2, <2>2
<1>7. f \in Injection(S, 0 .. N - 1)
  BY <1>2, <1>6 DEF Injection, IsInjective
<1>8. IsFiniteSet(0 .. N - 1) /\ Cardinality(0 .. N - 1) = N
  <2>1. 0 \in Int /\ N - 1 \in Int
    BY <1>1
  <2>2. /\ IsFiniteSet(0 .. N - 1)
        /\ Cardinality(0 .. N - 1) = IF 0 > N - 1 THEN 0 ELSE N - 1 - 0 + 1
    BY <2>1, FS_Interval
  <2> QED
    BY <1>1, <2>2
<1>9. f \in Surjection(S, 0 .. N - 1)
  BY <1>7, <1>8, FS_Injection DEF N
<1>10. \A k \in 0 .. N - 1 : \E x \in S : rank(x) = k
  BY <1>9 DEF Surjection
<1>11. ASSUME NEW n \in 1 .. N
       PROVE  list[n] \in S /\ rank(list[n]) = n - 1
  <2>1. n - 1 \in 0 .. N - 1
    BY <1>1
  <2>2. \E x \in S : rank(x) = n - 1
    BY <1>10, <2>1
  <2> QED
    BY <1>5, <2>2
<1>12. ASSUME NEW x \in S
       PROVE  \E n \in 1 .. N : list[n] = x
  <2>1. PICK n \in 1 .. N : n - 1 = rank(x)
    <3>1. rank(x) \in 0 .. N - 1
      BY <1>2
    <3>2. rank(x) + 1 \in 1 .. N /\ (rank(x) + 1) - 1 = rank(x)
      BY <1>1, <3>1
    <3> QED
      BY <3>2
  <2>2. list[n] \in S /\ rank(list[n]) = rank(x)
    BY <1>11, <2>1
  <2> QED
    BY <1>6, <2>2
<1>13. ASSUME NEW m \in 1 .. N, NEW n \in 1 .. N, m < n
       PROVE  <<list[m], list[n]>> \in order
  <2>1. /\ list[m] \in S /\ rank(list[m]) = m - 1
        /\ list[n] \in S /\ rank(list[n]) = n - 1
    BY <1>11
  <2>2. list[m] # list[n]
    BY <1>1, <1>13, <2>1
  <2>3. <<list[n], list[m]>> \notin order
    BY <1>1, <1>3, <1>13, <2>1
  <2> QED
    BY <2>1, <2>2, <2>3 DEF StrictOrder
<1> QED
  BY <1>1, <1>4, <1>11, <1>12, <1>13 DEF N, list

------------------------------------------------------------------------------
(* Lemmas: what a list of messages says *)

(* A link, or a route, is what the last message that speaks of it says.    *)
LEMMA LinkIsLastSaid ==
    ASSUME NEW msgs, NEW n \in Nat, DOMAIN msgs = 1 .. n,
           NEW known, NEW c, NEW l
    PROVE  \/ /\ \A i \in 1 .. n : ~SpeaksOfLink(msgs[i], c, l)
              /\ LinkLearned(known, msgs, c, l) = known[c].connections[l]
           \/ \E i \in 1 .. n :
                 /\ SpeaksOfLink(msgs[i], c, l)
                 /\ \A j \in 1 .. n : SpeaksOfLink(msgs[j], c, l) => j <= i
                 /\ LinkLearned(known, msgs, c, l) = LinkSaid(msgs[i])
<1> DEFINE said == {i \in DOMAIN msgs : SpeaksOfLink(msgs[i], c, l)}
<1>1. CASE said = {}
  BY <1>1 DEF LinkLearned
<1>2. CASE said # {}
  <2>1. Max(said) \in said /\ \A i \in said : i <= Max(said)
    BY <1>2, MaxIsMember
  <2>2. LinkLearned(known, msgs, c, l) = LinkSaid(msgs[Max(said)])
    BY <1>2 DEF LinkLearned
  <2> QED
    BY <2>1, <2>2
<1> QED
  BY <1>1, <1>2

LEMMA RouteIsLastSaid ==
    ASSUME NEW msgs, NEW n \in Nat, DOMAIN msgs = 1 .. n,
           NEW known, NEW c, NEW b
    PROVE  \/ /\ \A i \in 1 .. n : ~SpeaksOfRoute(msgs[i], c, b)
              /\ RouteLearned(known, msgs, c, b) = known[c].routes[b]
           \/ \E i \in 1 .. n :
                 /\ SpeaksOfRoute(msgs[i], c, b)
                 /\ \A j \in 1 .. n : SpeaksOfRoute(msgs[j], c, b) => j <= i
                 /\ RouteLearned(known, msgs, c, b) = msgs[i].to
<1> DEFINE said == {i \in DOMAIN msgs : SpeaksOfRoute(msgs[i], c, b)}
<1>1. CASE said = {}
  BY <1>1 DEF RouteLearned
<1>2. CASE said # {}
  <2>1. Max(said) \in said /\ \A i \in said : i <= Max(said)
    BY <1>2, MaxIsMember
  <2>2. RouteLearned(known, msgs, c, b) = msgs[Max(said)].to
    BY <1>2 DEF RouteLearned
  <2> QED
    BY <2>1, <2>2
<1> QED
  BY <1>1, <1>2

(* Two lists of messages, one behind the other. *)
LEMMA JoinedLists ==
    ASSUME NEW m \in Nat, NEW n \in Nat,
           NEW s, s = [i \in 1 .. m |-> s[i]],
           NEW t, t = [i \in 1 .. n |-> t[i]]
    PROVE  /\ DOMAIN (s \o t) = 1 .. m + n
           /\ \A i \in 1 .. m : (s \o t)[i] = s[i]
           /\ \A i \in 1 .. n : (s \o t)[m + i] = t[i]
<1> DEFINE U == {s[i] : i \in 1 .. m} \union {t[i] : i \in 1 .. n}
<1>1. s \in [1 .. m -> U] /\ t \in [1 .. n -> U]
  OBVIOUS
<1> HIDE DEF U
<1>2. s \in Seq(U) /\ Len(s) = m
  BY <1>1
<1>3. t \in Seq(U) /\ Len(t) = n
  BY <1>1
<1> QED
  BY <1>2, <1>3

(* The places in a list that consists of two, one behind the other.        *)
PlacesOfBoth(U, m, S, n, T) ==
    /\ m \in Nat
    /\ n \in Nat
    /\ S \in SUBSET (1 .. m)
    /\ T \in SUBSET (1 .. n)
    /\ U \in SUBSET (1 .. m + n)
    /\ \A i \in 1 .. m : i \in U <=> i \in S
    /\ \A i \in 1 .. n : m + i \in U <=> i \in T

LEMMA LastOfBoth ==
    ASSUME NEW U, NEW m, NEW S, NEW n, NEW T, PlacesOfBoth(U, m, S, n, T)
    PROVE  /\ T = {} => U = S
           /\ T # {} => /\ U # {}
                        /\ Max(T) \in T
                        /\ Max(U) = m + Max(T)
<1> USE DEF PlacesOfBoth
<1>1. ASSUME NEW i \in U, i > m
      PROVE  i - m \in T /\ m + (i - m) = i
  <2>1. i - m \in 1 .. n /\ m + (i - m) = i
    BY <1>1
  <2> QED
    BY <1>1, <2>1
<1>2. ASSUME T = {} PROVE U = S
  <2>1. ASSUME NEW i \in U PROVE i \in S
    <3>1. i \in Nat /\ ~(i > m)
      BY <1>1, <1>2
    <3> QED
      BY <3>1
  <2>2. ASSUME NEW i \in S PROVE i \in U
    OBVIOUS
  <2> QED
    BY <2>1, <2>2
<1>3. ASSUME T # {}
      PROVE  /\ U # {}
             /\ Max(T) \in T
             /\ Max(U) = m + Max(T)
  <2>1. Max(T) \in T /\ \A i \in T : i <= Max(T)
    BY <1>3, MaxIsMember
  <2> DEFINE x == Max(T)
             y == Max(U)
             k == m + n
  <2>2. m + x \in U /\ x \in Nat /\ x > 0
    <3>1. x \in T
      BY <2>1
    <3> HIDE DEF x
    <3> QED
      BY <3>1
  <2>3. y \in U /\ \A i \in U : i <= y
    <3>1. k \in Nat /\ U \in SUBSET (1 .. k)
      OBVIOUS
    <3> HIDE DEF k
    <3> QED
      BY <2>2, <3>1, MaxIsMember
  <2> HIDE DEF x, y
  <2>4. y \in Nat /\ y > m
    BY <2>2, <2>3
  <2>5. y - m \in T /\ m + (y - m) = y
    BY <1>1, <2>3, <2>4
  <2>6. y - m <= x /\ m + x <= y
    BY <2>1, <2>2, <2>3, <2>5 DEF x
  <2>7. y = m + x
    BY <2>2, <2>4, <2>6
  <2> QED
    BY <2>1, <2>2, <2>7 DEF x, y
<1> QED
  BY <1>2, <1>3

(* The messages u are s and behind them t. *)
Behind(u, m, s, n, t) ==
    /\ m \in Nat
    /\ n \in Nat
    /\ DOMAIN s = 1 .. m
    /\ DOMAIN t = 1 .. n
    /\ DOMAIN u = 1 .. m + n
    /\ \A i \in 1 .. m : u[i] = s[i]
    /\ \A i \in 1 .. n : u[m + i] = t[i]

(* Who gets messages in two parts knows what they say together. *)
LEMMA LearnedTwice ==
    ASSUME NEW known, NEW m, NEW s, NEW n, NEW t, NEW u,
           Behind(u, m, s, n, t)
    PROVE  Learned(Learned(known, s), t) = Learned(known, u)
<1> DEFINE between == Learned(known, s)
<1>1. /\ m \in Nat /\ n \in Nat
      /\ DOMAIN s = 1 .. m /\ DOMAIN t = 1 .. n /\ DOMAIN u = 1 .. m + n
      /\ \A i \in 1 .. m : u[i] = s[i] /\ i \in 1 .. m + n
      /\ \A i \in 1 .. n : u[m + i] = t[i] /\ m + i \in 1 .. m + n
  BY DEF Behind
<1>2. ASSUME NEW c \in ConveyorId, NEW l \in Location
      PROVE  LinkLearned(between, t, c, l) = LinkLearned(known, u, c, l)
  <2> DEFINE S == {i \in DOMAIN s : SpeaksOfLink(s[i], c, l)}
             T == {i \in DOMAIN t : SpeaksOfLink(t[i], c, l)}
             U == {i \in DOMAIN u : SpeaksOfLink(u[i], c, l)}
  <2>1. PlacesOfBoth(U, m, S, n, T)
    BY <1>1 DEF PlacesOfBoth
  <2>2. between[c].connections[l] = LinkLearned(known, s, c, l)
    BY DEF Learned
  <2>3. /\ LinkLearned(known, s, c, l) =
              IF S = {} THEN known[c].connections[l] ELSE LinkSaid(s[Max(S)])
        /\ LinkLearned(between, t, c, l) =
              IF T = {} THEN between[c].connections[l] ELSE LinkSaid(t[Max(T)])
        /\ LinkLearned(known, u, c, l) =
              IF U = {} THEN known[c].connections[l] ELSE LinkSaid(u[Max(U)])
    BY DEF LinkLearned
  <2> HIDE DEF S, T, U, between
  <2>4. S # {} => Max(S) \in S
    BY <2>1, MaxIsMember DEF PlacesOfBoth
  <2>5. /\ T = {} => U = S
        /\ T # {} => /\ U # {}
                     /\ Max(T) \in T
                     /\ Max(U) = m + Max(T)
    BY <2>1, LastOfBoth
  <2>6. CASE T = {}
    BY <1>1, <2>1, <2>2, <2>3, <2>4, <2>5, <2>6 DEF PlacesOfBoth
  <2>7. CASE T # {}
    <3>1. u[Max(U)] = t[Max(T)]
      BY <1>1, <2>1, <2>5, <2>7 DEF PlacesOfBoth
    <3> QED
      BY <2>3, <2>5, <2>7, <3>1
  <2> QED
    BY <2>6, <2>7
<1>3. ASSUME NEW c \in ConveyorId, NEW b \in BoxId
      PROVE  RouteLearned(between, t, c, b) = RouteLearned(known, u, c, b)
  <2> DEFINE S == {i \in DOMAIN s : SpeaksOfRoute(s[i], c, b)}
             T == {i \in DOMAIN t : SpeaksOfRoute(t[i], c, b)}
             U == {i \in DOMAIN u : SpeaksOfRoute(u[i], c, b)}
  <2>1. PlacesOfBoth(U, m, S, n, T)
    BY <1>1 DEF PlacesOfBoth
  <2>2. between[c].routes[b] = RouteLearned(known, s, c, b)
    BY DEF Learned
  <2>3. /\ RouteLearned(known, s, c, b) =
              IF S = {} THEN known[c].routes[b] ELSE s[Max(S)].to
        /\ RouteLearned(between, t, c, b) =
              IF T = {} THEN between[c].routes[b] ELSE t[Max(T)].to
        /\ RouteLearned(known, u, c, b) =
              IF U = {} THEN known[c].routes[b] ELSE u[Max(U)].to
    BY DEF RouteLearned
  <2> HIDE DEF S, T, U, between
  <2>4. S # {} => Max(S) \in S
    BY <2>1, MaxIsMember DEF PlacesOfBoth
  <2>5. /\ T = {} => U = S
        /\ T # {} => /\ U # {}
                     /\ Max(T) \in T
                     /\ Max(U) = m + Max(T)
    BY <2>1, LastOfBoth
  <2>6. CASE T = {}
    BY <1>1, <2>1, <2>2, <2>3, <2>4, <2>5, <2>6 DEF PlacesOfBoth
  <2>7. CASE T # {}
    <3>1. u[Max(U)] = t[Max(T)]
      BY <1>1, <2>1, <2>5, <2>7 DEF PlacesOfBoth
    <3> QED
      BY <2>3, <2>5, <2>7, <3>1
  <2> QED
    BY <2>6, <2>7
<1> HIDE DEF between
<1>4. Learned(between, t) = Learned(known, u)
  BY <1>2, <1>3 DEF Learned
<1> QED
  BY <1>4 DEF between

(* A configuration has finitely many entries. *)
LEMMA EntriesFinite ==
    ASSUME NEW config \in Configurations
    PROVE  IsFiniteSet(Entries(config))
<1> DEFINE at(c) == {j \in DOMAIN config[c] : config[c][j] # EMPTY_CONVEYOR_ID}
           of == [c \in DOMAIN config |-> {<<c, i>> : i \in at(c)}]
<1>1. IsFiniteSet(DOMAIN config)
  BY ConfigurationAssumption
<1>2. ASSUME NEW c \in DOMAIN config
      PROVE  IsFiniteSet(of[c])
  <2>1. /\ DOMAIN config[c] = 1 .. Len(config[c])
        /\ Len(config[c]) \in Nat
    BY ConfigurationAssumption
  <2>2. at(c) \in SUBSET (1 .. Len(config[c]))
    BY <2>1
  <2>3. IsFiniteSet(1 .. Len(config[c]))
    <3>1. 1 \in Int /\ Len(config[c]) \in Int
      BY <2>1
    <3> QED
      BY <3>1, FS_Interval
  <2>4. IsFiniteSet(at(c))
    BY <2>2, <2>3, FS_Subset
  <2> DEFINE pair == [i \in at(c) |-> <<c, i>>]
             pairs == {<<c, i>> : i \in at(c)}
  <2> HIDE DEF at
  <2>5. pair \in Surjection(at(c), pairs)
    BY DEF Surjection
  <2>6. of[c] = pairs
    OBVIOUS
  <2> HIDE DEF pair, pairs, of
  <2>7. IsFiniteSet(pairs)
    BY <2>4, <2>5, FS_Surjection
  <2> QED
    BY <2>6, <2>7
<1> DEFINE all == {of[c] : c \in DOMAIN config}
<1>3. of \in Surjection(DOMAIN config, all)
  <2> HIDE DEF at
  <2>1. of = [c \in DOMAIN config |-> of[c]]
    OBVIOUS
  <2> HIDE DEF of
  <2> QED
    BY <2>1 DEF Surjection
<1>4. Entries(config) = UNION all
  BY DEF Entries
<1> HIDE DEF of
<1>5. \A s \in all : IsFiniteSet(s)
  BY <1>2
<1> HIDE DEF all
<1>6. IsFiniteSet(all)
  BY <1>1, <1>3, FS_Surjection
<1> QED
  BY <1>4, <1>5, <1>6, FS_UNION

------------------------------------------------------------------------------
(* Lemmas: the messages of a new configuration *)

LEMMA ByIdIsStrict ==
    ASSUME NEW S \in SUBSET ConveyorId
    PROVE  StrictOrder(S, ById(S))
<1>1. \A x, y \in S : <<x, y>> \in ById(S) <=> x < y
  BY DEF ById
<1>2. \A x \in S : x \in Nat
  BY ConveyorAssumption
<1> QED
  BY <1>1, <1>2 DEF StrictOrder

(* Entries name a conveyor and a place in its list. *)
LEMMA EntriesAre ==
    ASSUME NEW config \in Configurations
    PROVE  /\ \A e \in Entries(config) :
                 /\ e = <<e[1], e[2]>>
                 /\ e[1] \in DOMAIN config
                 /\ e[1] \in ConveyorId
                 /\ e[2] \in DOMAIN config[e[1]]
                 /\ e[2] \in Nat
                 /\ config[e[1]][e[2]] \in DOMAIN config
                 /\ config[e[1]][e[2]] \in ConveyorId
           /\ \A c \in DOMAIN config : \A i \in DOMAIN config[c] :
                 config[c][i] # EMPTY_CONVEYOR_ID => <<c, i>> \in Entries(config)
<1>1. /\ DOMAIN config \subseteq ConveyorId
      /\ \A c \in DOMAIN config :
            config[c] \in Seq(DOMAIN config \union {EMPTY_CONVEYOR_ID})
  BY ConfigurationAssumption
<1>2. ASSUME NEW c \in DOMAIN config, NEW i \in DOMAIN config[c]
      PROVE  i \in Nat /\ config[c][i] \in DOMAIN config \union {EMPTY_CONVEYOR_ID}
  BY <1>1
<1>3. ASSUME NEW e \in Entries(config)
      PROVE  \E c \in DOMAIN config : \E i \in DOMAIN config[c] :
                e = <<c, i>> /\ config[c][i] # EMPTY_CONVEYOR_ID
  BY DEF Entries
<1>4. ASSUME NEW c \in DOMAIN config, NEW i \in DOMAIN config[c],
             config[c][i] # EMPTY_CONVEYOR_ID
      PROVE  <<c, i>> \in Entries(config)
  BY <1>4 DEF Entries
<1>5. ASSUME NEW e \in Entries(config)
      PROVE  /\ e = <<e[1], e[2]>>
             /\ e[1] \in DOMAIN config
             /\ e[1] \in ConveyorId
             /\ e[2] \in DOMAIN config[e[1]]
             /\ e[2] \in Nat
             /\ config[e[1]][e[2]] \in DOMAIN config
             /\ config[e[1]][e[2]] \in ConveyorId
  <2>1. PICK c \in DOMAIN config : \E i \in DOMAIN config[c] :
                e = <<c, i>> /\ config[c][i] # EMPTY_CONVEYOR_ID
    BY <1>3
  <2>2. PICK i \in DOMAIN config[c] :
                e = <<c, i>> /\ config[c][i] # EMPTY_CONVEYOR_ID
    BY <2>1
  <2>3. e[1] = c /\ e[2] = i
    BY <2>2
  <2>4. i \in Nat /\ config[c][i] \in DOMAIN config
    BY <1>2, <2>2
  <2> QED
    BY <1>1, <2>2, <2>3, <2>4
<1> QED
  BY <1>4, <1>5

LEMMA ByKeyIs ==
    ASSUME NEW S, NEW x \in S, NEW y \in S
    PROVE  <<x, y>> \in ByKey(S)
               <=> \/ KeyRank[x[1]] < KeyRank[y[1]]
                   \/ x[1] = y[1] /\ x[2] < y[2]
BY DEF ByKey

LEMMA ByKeyIsStrict ==
    ASSUME NEW config \in Configurations
    PROVE  StrictOrder(Entries(config), ByKey(Entries(config)))
<1> DEFINE S == Entries(config)
<1>1. ASSUME NEW x \in S
      PROVE  /\ x = <<x[1], x[2]>>
             /\ KeyRank[x[1]] \in Nat
             /\ x[2] \in Nat
             /\ x[1] \in ConveyorId
  BY EntriesAre, ConveyorAssumption
<1>2. ASSUME NEW x \in S, NEW y \in S
      PROVE  <<x, y>> \in ByKey(S)
                 <=> \/ KeyRank[x[1]] < KeyRank[y[1]]
                     \/ x[1] = y[1] /\ x[2] < y[2]
  BY ByKeyIs
<1>3. ASSUME NEW x \in S, NEW y \in S, KeyRank[x[1]] = KeyRank[y[1]]
      PROVE  x[1] = y[1]
  BY <1>1, <1>3, ConveyorAssumption
<1> HIDE DEF S
<1>4. \A x \in S : <<x, x>> \notin ByKey(S)
  BY <1>1, <1>2
<1>5. ASSUME NEW x \in S, NEW y \in S, NEW z \in S,
             <<x, y>> \in ByKey(S), <<y, z>> \in ByKey(S)
      PROVE  <<x, z>> \in ByKey(S)
  <2>1. /\ KeyRank[x[1]] < KeyRank[y[1]] \/ (x[1] = y[1] /\ x[2] < y[2])
        /\ KeyRank[y[1]] < KeyRank[z[1]] \/ (y[1] = z[1] /\ y[2] < z[2])
    BY <1>2, <1>5
  <2>2. KeyRank[x[1]] < KeyRank[z[1]] \/ (x[1] = z[1] /\ x[2] < z[2])
    BY <1>1, <2>1
  <2> QED
    BY <1>2, <2>2
<1>6. ASSUME NEW x \in S, NEW y \in S, x # y
      PROVE  <<x, y>> \in ByKey(S) \/ <<y, x>> \in ByKey(S)
  <2>1. x[1] # y[1] \/ x[2] # y[2]
    BY <1>1, <1>6
  <2>2. CASE KeyRank[x[1]] # KeyRank[y[1]]
    BY <1>1, <1>2, <2>2
  <2>3. CASE KeyRank[x[1]] = KeyRank[y[1]]
    <3>1. x[1] = y[1]
      BY <1>3, <2>3
    <3>2. x[2] < y[2] \/ y[2] < x[2]
      BY <1>1, <2>1, <3>1
    <3> QED
      BY <1>2, <3>1, <3>2
  <2> QED
    BY <2>2, <2>3
<1> QED
  BY <1>4, <1>5, <1>6 DEF StrictOrder, S

(* The links of the old configuration are dropped first, one message for   *)
(* each conveyor; then comes one message for each entry, those of one      *)
(* conveyor in the order of its list.                                      *)
LEMMA ConfigurationMessages ==
    ASSUME SystemOK, NEW config \in Configurations
    PROVE  LET msgs == clear_configuration \o ConnectAll(config)
               entry(e) == ConnectEntry(config, e[1], e[2])
           IN \E m, n \in Nat :
                 /\ DOMAIN msgs = 1 .. m + n
                 /\ \A i \in 1 .. m :
                       \E c \in DOMAIN conveyors : msgs[i] = Disconnect(c)
                 /\ \A c \in DOMAIN conveyors :
                       \E i \in 1 .. m : msgs[i] = Disconnect(c)
                 /\ \A i \in m + 1 .. m + n :
                       \E e \in Entries(config) : msgs[i] = entry(e)
                 /\ \A e \in Entries(config) : \E i \in m + 1 .. m + n :
                       /\ msgs[i] = entry(e)
                       /\ \A j \in m + 1 .. m + n : i < j =>
                             \E f \in Entries(config) :
                                 /\ msgs[j] = entry(f)
                                 /\ <<e, f>> \in ByKey(Entries(config))
<1> DEFINE S == DOMAIN conveyors
           T == Entries(config)
           ids == InOrder(S, ById(S))
           list == InOrder(T, ByKey(T))
           s == clear_configuration
           t == ConnectAll(config)
           entry(e) == ConnectEntry(config, e[1], e[2])
           m == Cardinality(S)
           n == Cardinality(T)
<1>1. S \in SUBSET ConveyorId
  BY DEF SystemOK
<1>2. IsFiniteSet(S) /\ StrictOrder(S, ById(S))
  BY <1>1, ConveyorAssumption, FS_Subset, ByIdIsStrict
<1>3. IsFiniteSet(T) /\ StrictOrder(T, ByKey(T))
  BY EntriesFinite, ByKeyIsStrict
<1>4. /\ m \in Nat
      /\ DOMAIN ids = 1 .. m
      /\ \A i \in 1 .. m : ids[i] \in S
      /\ \A x \in S : \E i \in 1 .. m : ids[i] = x
  BY <1>2, InOrderLists
<1>5. /\ n \in Nat
      /\ DOMAIN list = 1 .. n
      /\ \A i \in 1 .. n : list[i] \in T
      /\ \A x \in T : \E i \in 1 .. n : list[i] = x
      /\ \A i, j \in 1 .. n : i < j => <<list[i], list[j]>> \in ByKey(T)
  BY <1>3, InOrderLists
<1>6. s = [i \in DOMAIN ids |-> Disconnect(ids[i])]
  BY DEF clear_configuration
<1>7. t = [i \in DOMAIN list |-> entry(list[i])]
  BY DEF ConnectAll
<1> HIDE DEF S, T, ids, list, s, t, m, n, entry
<1>8. s = [i \in 1 .. m |-> s[i]] /\ t = [i \in 1 .. n |-> t[i]]
  BY <1>4, <1>5, <1>6, <1>7
<1>9. /\ DOMAIN (s \o t) = 1 .. m + n
      /\ \A i \in 1 .. m : (s \o t)[i] = s[i]
      /\ \A i \in 1 .. n : (s \o t)[m + i] = t[i]
  BY <1>4, <1>5, <1>8, JoinedLists
<1> DEFINE msgs == s \o t
<1> HIDE DEF msgs
<1>10. /\ DOMAIN msgs = 1 .. m + n
       /\ \A i \in 1 .. m : msgs[i] = Disconnect(ids[i])
       /\ \A i \in 1 .. n : msgs[m + i] = entry(list[i])
  BY <1>4, <1>5, <1>6, <1>7, <1>9 DEF msgs
<1>11. \A i \in m + 1 .. m + n : i - m \in 1 .. n /\ m + (i - m) = i
  BY <1>4, <1>5
<1>12. \A i \in 1 .. n : m + i \in m + 1 .. m + n
  BY <1>4, <1>5
<1>13. \A i \in 1 .. m : \E c \in S : msgs[i] = Disconnect(c)
  BY <1>4, <1>10
<1>14. \A c \in S : \E i \in 1 .. m : msgs[i] = Disconnect(c)
  BY <1>4, <1>10
<1>15. ASSUME NEW i \in m + 1 .. m + n
       PROVE  msgs[i] = entry(list[i - m]) /\ list[i - m] \in T
  <2>1. i - m \in 1 .. n /\ m + (i - m) = i
    BY <1>11
  <2>2. msgs[m + (i - m)] = entry(list[i - m])
    BY <1>10, <2>1
  <2> QED
    BY <1>5, <2>1, <2>2
<1>16. ASSUME NEW e \in T
       PROVE  \E i \in m + 1 .. m + n :
                 /\ msgs[i] = entry(e)
                 /\ \A j \in m + 1 .. m + n : i < j =>
                       \E f \in T : /\ msgs[j] = entry(f)
                                    /\ <<e, f>> \in ByKey(T)
  <2>1. PICK k \in 1 .. n : list[k] = e
    BY <1>5
  <2>2. m + k \in m + 1 .. m + n /\ msgs[m + k] = entry(e)
    BY <1>10, <1>12, <2>1
  <2>3. ASSUME NEW j \in m + 1 .. m + n, m + k < j
        PROVE  \E f \in T : /\ msgs[j] = entry(f)
                            /\ <<e, f>> \in ByKey(T)
    <3>1. j - m \in 1 .. n /\ k < j - m
      BY <1>4, <1>5, <2>3
    <3>2. <<list[k], list[j - m]>> \in ByKey(T)
      BY <1>5, <3>1
    <3> QED
      BY <1>15, <2>1, <3>2
  <2> QED
    BY <2>2, <2>3
<1> DEFINE said(M, N) ==
              /\ DOMAIN msgs = 1 .. M + N
              /\ \A i \in 1 .. M : \E c \in S : msgs[i] = Disconnect(c)
              /\ \A c \in S : \E i \in 1 .. M : msgs[i] = Disconnect(c)
              /\ \A i \in M + 1 .. M + N : \E e \in T : msgs[i] = entry(e)
              /\ \A e \in T : \E i \in M + 1 .. M + N :
                    /\ msgs[i] = entry(e)
                    /\ \A j \in M + 1 .. M + N : i < j =>
                          \E f \in T : /\ msgs[j] = entry(f)
                                       /\ <<e, f>> \in ByKey(T)
<1>17. said(m, n)
  BY <1>10, <1>13, <1>14, <1>15, <1>16
<1> HIDE DEF said
<1>18. \E M, N \in Nat : said(M, N)
  BY <1>4, <1>5, <1>17
<1> QED
  BY <1>18, Zenon DEF said, msgs, S, T, s, t, entry

------------------------------------------------------------------------------
(* Lemmas: steps that say nothing of links and routes *)

ToldOK ==
    told \in [ConveyorId ->
                 [connections : [Location -> Connection],
                  routes : [BoxId -> ConveyorId \union {NoRoute}]]]

LEMMA LearnedAt ==
    ASSUME NEW msgs, Told(msgs), NEW c \in ConveyorId
    PROVE  /\ told'[c].connections =
                 [l \in Location |-> LinkLearned(told, msgs, c, l)]
           /\ told'[c].routes =
                 [b \in BoxId |-> RouteLearned(told, msgs, c, b)]
BY DEF Told, Learned

(* Messages that speak of packages change nothing of what is known. *)
LEMMA SilentLearned ==
    ASSUME NEW known, NEW msgs, NEW n \in Nat, DOMAIN msgs = 1 .. n,
           \A i \in 1 .. n :
               msgs[i].id \in {"ADD_PACKAGE", "REMOVE_PACKAGE", "CLEAR_BOX"}
    PROVE  Learned(known, msgs) =
              [c \in ConveyorId |->
                  [connections |-> [l \in Location |-> known[c].connections[l]],
                   routes      |-> [b \in BoxId |-> known[c].routes[b]]]]
<1>1. ASSUME NEW c \in ConveyorId, NEW l \in Location
      PROVE  LinkLearned(known, msgs, c, l) = known[c].connections[l]
  <2>1. \A i \in 1 .. n : ~SpeaksOfLink(msgs[i], c, l)
    BY DEF SpeaksOfLink
  <2> QED
    BY <2>1, LinkIsLastSaid
<1>2. ASSUME NEW c \in ConveyorId, NEW b \in BoxId
      PROVE  RouteLearned(known, msgs, c, b) = known[c].routes[b]
  <2>1. \A i \in 1 .. n : ~SpeaksOfRoute(msgs[i], c, b)
    BY DEF SpeaksOfRoute
  <2> QED
    BY <2>1, RouteIsLastSaid
<1> QED
  BY <1>1, <1>2 DEF Learned

LEMMA SilentMessages ==
    ASSUME ToldOK, NEW msgs,
           NEW n \in Nat, DOMAIN msgs = 1 .. n,
           \A i \in 1 .. n :
               msgs[i].id \in {"ADD_PACKAGE", "REMOVE_PACKAGE", "CLEAR_BOX"}
    PROVE  Learned(told, msgs) = told
<1>3. Learned(told, msgs) =
         [c \in ConveyorId |->
             [connections |-> [l \in Location |-> told[c].connections[l]],
              routes      |-> [b \in BoxId |-> told[c].routes[b]]]]
  BY SilentLearned
<1>4. ASSUME NEW c \in ConveyorId
      PROVE  [connections |-> [l \in Location |-> told[c].connections[l]],
              routes      |-> [b \in BoxId |-> told[c].routes[b]]] = told[c]
  <2>1. /\ told[c] = [connections |-> told[c].connections,
                      routes |-> told[c].routes]
        /\ told[c].connections = [l \in Location |-> told[c].connections[l]]
        /\ told[c].routes = [b \in BoxId |-> told[c].routes[b]]
    BY DEF ToldOK
  <2> QED
    BY <2>1
<1>5. told = [c \in ConveyorId |-> told[c]]
  BY DEF ToldOK
<1> QED
  BY <1>3, <1>4, <1>5

(* The links and the routes stay as they are, and no box is new.  One may  *)
(* go: that which gets a package with the number of INVALID as its colour. *)
Quiet ==
    /\ told' = told
    /\ DOMAIN conveyors' = DOMAIN conveyors
    /\ \A c \in DOMAIN conveyors :
          /\ conveyors'[c].connections = conveyors[c].connections
          /\ conveyors'[c].box.id = conveyors[c].box.id
          /\ is_initialized(conveyors'[c].box)
                 => is_initialized(conveyors[c].box)
    /\ crashed => crashed'

LEMMA QuietBox ==
    ASSUME SystemOK, NEW c \in DOMAIN conveyors, NEW box,
           conveyors' = WithBox(c, box),
           box.id = conveyors[c].box.id,
           is_initialized(box) => is_initialized(conveyors[c].box),
           told' = told, crashed => crashed'
    PROVE  Quiet
<1>1. PICK S \in SUBSET ConveyorId : conveyors \in [S -> Conveyor]
  BY DEF SystemOK
<1>2. /\ DOMAIN conveyors' = DOMAIN conveyors
      /\ \A d \in DOMAIN conveyors : d # c => conveyors'[d] = conveyors[d]
      /\ conveyors'[c] = [conveyors[c] EXCEPT !.box = box]
  BY <1>1 DEF WithBox
<1>3. /\ conveyors'[c].connections = conveyors[c].connections
      /\ conveyors'[c].box = box
  BY <1>1, <1>2 DEF Conveyor
<1> QED
  BY <1>2, <1>3 DEF Quiet

LEMMA QuietSend ==
    ASSUME ToldOK, NEW ant, NEW web, Send(ant, web),
           \/ ant = <<>>
           \/ \E msg : /\ ant = <<msg>>
                       /\ msg.id \in {"ADD_PACKAGE", "REMOVE_PACKAGE",
                                      "CLEAR_BOX"}
    PROVE  told' = told
<1>1. told' = Learned(told, ant)
  BY DEF Send, Told
<1>2. CASE ant = <<>>
  <2>1. DOMAIN ant = 1 .. 0
    BY <1>2
  <2> QED
    BY <1>1, <2>1, SilentMessages
<1>3. ASSUME NEW msg, ant = <<msg>>,
             msg.id \in {"ADD_PACKAGE", "REMOVE_PACKAGE", "CLEAR_BOX"}
      PROVE  told' = told
  <2>1. DOMAIN ant = 1 .. 1 /\ ant[1] = msg
    BY <1>3
  <2>2. \A i \in 1 .. 1 :
           ant[i].id \in {"ADD_PACKAGE", "REMOVE_PACKAGE", "CLEAR_BOX"}
    BY <1>3, <2>1
  <2> QED
    BY <1>1, <2>1, <2>2, SilentMessages
<1> QED
  BY <1>2, <1>3

(* All steps but two kinds are of this sort: a new configuration, and a    *)
(* new box.                                                                *)
OtherStep ==
    \/ \E c \in ConveyorId, b \in BoxId, location \in BoxLocations :
          \/ add_destination_box_refused(c, b, location)
          \/ add_destination_box_out_of_range(c, b, location)
    \/ \E p \in PackageId : send_package(p) \/ send_package_refused(p)
    \/ \E p \in PackageId, b \in BoxId :
          \/ arrival_received(p, b)
          \/ package_removed(p, b)
          \/ package_removal_refused(p, b)
    \/ \E b \in BoxId :
          \/ get_destination_box_state(b)
          \/ clear_box_requested(b)
          \/ clear_box_refused(b)
    \/ \E b \in BoxId, removed \in SUBSET PackageId :
          \/ clear_box_completed(b, removed)
          \/ clear_box_completed_crashes(b, removed)
    \/ UNCHANGED vars

LEMMA OtherStepsAreQuiet ==
    ASSUME SystemInv, ToldOK, OtherStep
    PROVE  Quiet
<1> USE DEF SystemInv
<1>1. ASSUME UNCHANGED <<conveyors, crashed>>, told' = told
      PROVE  Quiet
  BY <1>1 DEF Quiet
<1>2. ASSUME NEW c \in ConveyorId, NEW b \in BoxId, NEW location \in BoxLocations,
             add_destination_box_refused(c, b, location)
      PROVE  Quiet
  BY <1>1, <1>2, QuietSend DEF add_destination_box_refused
<1>3. ASSUME NEW p \in PackageId, send_package(p)
      PROVE  Quiet
  <2> DEFINE c == Min(Candidates(ColourOf[p]))
             box == conveyors[c].box
  <2>1. /\ Candidates(ColourOf[p]) \in SUBSET Nat
        /\ Candidates(ColourOf[p]) # {}
    BY <1>3, ConveyorAssumption DEF send_package, Candidates, SystemOK
  <2>2. c \in Candidates(ColourOf[p])
    BY <2>1, MinIsMember
  <2>3. c \in DOMAIN conveyors /\ HasBox(c)
    BY <2>2 DEF Candidates
  <2>4. /\ conveyors' = WithBox(c, add_package(box, p, ColourOf[p]))
        /\ Send(<<AddPackage(box.id, p)>>,
                <<AddPackageResponse(p, box.id, TRUE)>>)
        /\ UNCHANGED crashed
    BY <1>3 DEF send_package
  <2>5. told' = told
    BY <2>4, QuietSend DEF AddPackage
  <2>6. box \in Box /\ is_initialized(box)
    BY <2>3 DEF BoxInv, HasBox
  <2> HIDE DEF c, box
  <2>7. add_package(box, p, ColourOf[p]).id = box.id
    BY <2>6 DEF add_package, Box
  <2> QED
    BY <2>3, <2>4, <2>5, <2>6, <2>7, QuietBox DEF box
<1>4. ASSUME NEW p \in PackageId, send_package_refused(p)
      PROVE  Quiet
  BY <1>1, <1>4, QuietSend DEF send_package_refused
<1>5. ASSUME NEW p \in PackageId, NEW b \in BoxId, arrival_received(p, b)
      PROVE  Quiet
  <2> DEFINE c == find_box(b)
             box == conveyors[c].box
  <2>1. /\ conveyors' = WithBox(c, package_received(box, p))
        /\ Send(<<>>, <<PackageReceivedAck(p, b)>>)
        /\ UNCHANGED crashed
        /\ box_available(b)
    BY <1>5 DEF arrival_received
  <2>2. c \in DOMAIN conveyors
    BY <2>1, FindBoxIsHolder
  <2>3. box \in Box
    BY <2>2 DEF BoxInv
  <2>4. told' = told
    BY <2>1, QuietSend
  <2> HIDE DEF c, box
  <2>5. /\ package_received(box, p).id = box.id
        /\ is_initialized(package_received(box, p)) = is_initialized(box)
    BY <2>3 DEF package_received, is_initialized, Box
  <2> QED
    BY <2>1, <2>2, <2>4, <2>5, QuietBox DEF box
<1>6. ASSUME NEW p \in PackageId, NEW b \in BoxId, package_removed(p, b)
      PROVE  Quiet
  <2> DEFINE c == find_box(b)
             box == conveyors[c].box
  <2>1. /\ conveyors' = WithBox(c, remove_package(box, p))
        /\ Send(<<RemovePackage(c, b, p)>>,
                <<RemovePackageResponse(p, b, TRUE)>>)
        /\ UNCHANGED crashed
        /\ box_available(b)
    BY <1>6 DEF package_removed
  <2>2. c \in DOMAIN conveyors
    BY <2>1, FindBoxIsHolder
  <2>3. box \in Box
    BY <2>2 DEF BoxInv
  <2>4. told' = told
    BY <2>1, QuietSend DEF RemovePackage
  <2> HIDE DEF c, box
  <2>5. /\ remove_package(box, p).id = box.id
        /\ is_initialized(remove_package(box, p)) = is_initialized(box)
    BY <2>3 DEF remove_package, is_initialized, Box
  <2> QED
    BY <2>1, <2>2, <2>4, <2>5, QuietBox DEF box
<1>7. ASSUME NEW p \in PackageId, NEW b \in BoxId,
             package_removal_refused(p, b)
      PROVE  Quiet
  BY <1>1, <1>7, QuietSend DEF package_removal_refused
<1>8. ASSUME NEW b \in BoxId, get_destination_box_state(b)
      PROVE  Quiet
  BY <1>1, <1>8, QuietSend DEF get_destination_box_state
<1>9. ASSUME NEW b \in BoxId, clear_box_requested(b)
      PROVE  Quiet
  <2>1. told' = told
    BY <1>9, QuietSend DEF clear_box_requested, ClearBox
  <2> QED
    BY <1>1, <1>9, <2>1 DEF clear_box_requested
<1>10. ASSUME NEW b \in BoxId, clear_box_refused(b)
       PROVE  Quiet
  BY <1>1, <1>10, QuietSend DEF clear_box_refused
<1>11. ASSUME NEW b \in BoxId, NEW removed \in SUBSET PackageId,
              clear_box_completed(b, removed)
       PROVE  Quiet
  <2> DEFINE c == find_box(b)
             box == conveyors[c].box
  <2>1. /\ conveyors' = WithBox(c, clear_box(box, removed))
        /\ Send(<<>>, <<ClearBoxResponse(b, removed, TRUE)>>)
        /\ UNCHANGED crashed
        /\ c \in DOMAIN conveyors
    BY <1>11 DEF clear_box_completed
  <2>2. box \in Box
    BY <2>1 DEF BoxInv
  <2>3. told' = told
    BY <2>1, QuietSend
  <2> HIDE DEF c, box
  <2>4. /\ clear_box(box, removed).id = box.id
        /\ is_initialized(clear_box(box, removed)) = is_initialized(box)
    BY <2>2 DEF clear_box, is_initialized, Box
  <2> QED
    BY <2>1, <2>3, <2>4, QuietBox DEF box
<1>12. ASSUME NEW b \in BoxId, NEW removed \in SUBSET PackageId,
              clear_box_completed_crashes(b, removed)
       PROVE  Quiet
  BY <1>12, QuietSend DEF clear_box_completed_crashes, Quiet
<1>13. ASSUME NEW c \in ConveyorId, NEW b \in BoxId,
              NEW location \in BoxLocations,
              add_destination_box_out_of_range(c, b, location)
       PROVE  Quiet
  BY <1>13, QuietSend DEF add_destination_box_out_of_range, Quiet
<1>14. ASSUME UNCHANGED vars
       PROVE  Quiet
  BY <1>1, <1>14 DEF vars
<1> QED
  BY <1>2, <1>3, <1>4, <1>5, <1>6, <1>7, <1>8, <1>9, <1>10, <1>11, <1>12,
     <1>13, <1>14 DEF OtherStep

LEMMA KindsOfSteps ==
    ASSUME [Next]_vars
    PROVE  \/ \E config \in Configurations : set_state(config)
           \/ \E c \in ConveyorId, b \in BoxId, location \in BoxLocations :
                 \/ add_destination_box(c, b, location)
                 \/ add_destination_box_crashes(c, b, location)
           \/ OtherStep
BY DEF Next, OtherStep

------------------------------------------------------------------------------
(* Lemmas: the messages of a new box *)

LEMMA ShortestIsPath ==
    ASSUME NEW graph, IsFiniteSet(DOMAIN graph), NEW target,
           NEW path \in ShortestPaths(graph, target)
    PROVE  \E n \in Nat :
              /\ n <= Cardinality(DOMAIN graph)
              /\ path \in [1 .. n + 1 -> DOMAIN graph]
              /\ Len(path) = n + 1
              /\ path[1] = INPUT_CONVEYOR_ID
              /\ path[n + 1] = target
              /\ \A k \in 1 .. n : path[k + 1] \in graph[path[k]]
              /\ \A j, k \in 1 .. n + 1 : path[j] = path[k] => j = k
<1>1. Cardinality(DOMAIN graph) \in Nat
  BY FS_CardinalityType
<1>2. PICK n \in 0 .. Cardinality(DOMAIN graph) : path \in PathsTo(graph, target, n)
  BY DEF ShortestPaths
<1>3. n \in Nat /\ n <= Cardinality(DOMAIN graph)
  BY <1>1
<1>4. /\ path \in [1 .. n + 1 -> DOMAIN graph]
      /\ path[1] = INPUT_CONVEYOR_ID
      /\ path[n + 1] = target
      /\ \A k \in 1 .. n : path[k + 1] \in graph[path[k]]
      /\ \A j, k \in 1 .. n + 1 : path[j] = path[k] => j = k
  BY <1>2 DEF PathsTo, PathsOfLength
<1>5. Len(path) = n + 1
  <2>1. n + 1 \in Nat
    BY <1>3
  <2> QED
    BY <1>4, <2>1
<1> QED
  BY <1>3, <1>4, <1>5

(* The conveyor each one on a path sends packages to, the last one itself. *)
NextOn(path, n, i) == path[IF i = n + 1 THEN i ELSE i + 1]

(* The links of a conveyor that gets a box are as they were, but for the   *)
(* location of the box, which led nowhere.                                 *)
LEMMA BoxLinks ==
    ASSUME SystemInv, NEW c, NEW b \in BoxId, NEW location \in BoxLocations,
           RoomForBox(c, location), ConnectBox(c, b, location)
    PROVE  /\ DOMAIN conveyors' = DOMAIN conveyors
           /\ c \in DOMAIN conveyors
           /\ location \in Location
           /\ conveyors[c].connections[location].to = EMPTY_CONVEYOR_ID
           /\ \A d \in DOMAIN conveyors : d # c => conveyors'[d] = conveyors[d]
           /\ conveyors'[c].connections \in [Location -> Connection]
           /\ \A l \in Location : l = location =>
                 conveyors'[c].connections[l] = BoxConnection
           /\ \A l \in Location : l # location =>
                 conveyors'[c].connections[l] = conveyors[c].connections[l]
           /\ conveyors'[c].box.id = b
           /\ is_initialized(conveyors'[c].box)
<1>1. PICK S \in SUBSET ConveyorId : conveyors \in [S -> Conveyor]
  BY DEF SystemInv, SystemOK
<1>2. c \in DOMAIN conveyors /\ ~HasBox(c) /\ ~HasConnectionAt(c, location)
  BY DEF RoomForBox, CanHoldBox
<1>3. location \in Location
  BY DEF RoomForBox
<1>4. conveyors[c].connections \in [Location -> Connection]
  BY <1>1, <1>2 DEF Conveyor
<1>5. conveyors' = [conveyors EXCEPT ![c] =
          [connections |-> [conveyors[c].connections EXCEPT
                               ![location] = BoxConnection],
           box         |-> initialize_box(conveyors[c].box, b)]]
  BY DEF ConnectBox
<1>6. /\ DOMAIN conveyors' = DOMAIN conveyors
      /\ \A d \in DOMAIN conveyors : d # c => conveyors'[d] = conveyors[d]
      /\ conveyors'[c].connections =
            [conveyors[c].connections EXCEPT ![location] = BoxConnection]
      /\ conveyors'[c].box = initialize_box(conveyors[c].box, b)
  BY <1>1, <1>2, <1>5
<1>7. BoxConnection \in Connection
  BY DEF BoxConnection, Connection
<1>8. conveyors[c].box \in Box /\ ~is_initialized(conveyors[c].box)
  BY <1>2 DEF SystemInv, BoxInv, HasBox
<1> DEFINE box == conveyors[c].box
<1> HIDE DEF box
<1>9. /\ initialize_box(box, b).id = b
      /\ is_initialized(initialize_box(box, b))
  BY <1>8 DEF box, initialize_box, is_initialized, Box
<1> QED
  BY <1>2, <1>3, <1>4, <1>6, <1>7, <1>9 DEF HasConnectionAt, box

------------------------------------------------------------------------------
(* What the conveyors were told of their links *)

(* The conveyors are well formed, and told of the links there are.         *)
LinksInv == SystemInv /\ ToldOK /\ ToldMatchesConveyors

(* A message about an entry speaks of the location the entry ends up at.   *)
LEMMA EntrySpeaks ==
    ASSUME NEW config \in Configurations, NEW e \in Entries(config), NEW c, NEW l
    PROVE  LET msg == ConnectEntry(config, e[1], e[2])
           IN /\ SpeaksOfLink(msg, c, l)
                     <=> e[1] = c /\ LocationOf(e[2]) = l
              /\ LinkSaid(msg) =
                    [to |-> config[e[1]][e[2]],
                     type |-> ConnectionType(config, e[1], config[e[1]][e[2]])]
              /\ \A b : ~SpeaksOfRoute(msg, c, b)
BY DEF ConnectEntry, ConveyorConnect, SpeaksOfLink, LinkSaid, SpeaksOfRoute

LEMMA DisconnectSpeaks ==
    ASSUME NEW d, NEW c, NEW l
    PROVE  /\ SpeaksOfLink(Disconnect(d), c, l) <=> d = c
           /\ LinkSaid(Disconnect(d)) = NoConnection
           /\ \A b : ~SpeaksOfRoute(Disconnect(d), c, b)
BY DEF Disconnect, SpeaksOfLink, LinkSaid, SpeaksOfRoute

(* The entries at a location are found, and the last one counts. *)
LEMMA LastEntry ==
    ASSUME NEW config \in Configurations, NEW c \in DOMAIN config, NEW l
    PROVE  LET at == EntriesAt(config[c], l)
           IN /\ \A e \in Entries(config) :
                    e[1] = c /\ LocationOf(e[2]) = l <=> e[1] = c /\ e[2] \in at
              /\ at # {} =>
                    /\ Max(at) \in Nat
                    /\ <<c, Max(at)>> \in Entries(config)
                    /\ LocationOf(Max(at)) = l
                    /\ \A i \in at : i \in Nat /\ i <= Max(at)
<1> DEFINE at == EntriesAt(config[c], l)
<1>1. Len(config[c]) \in Nat /\ DOMAIN config[c] = 1 .. Len(config[c])
  BY ConfigurationAssumption
<1>2. at \in SUBSET (1 .. Len(config[c]))
  BY <1>1 DEF EntriesAt
<1>3. ASSUME at # {}
      PROVE  /\ Max(at) \in at
             /\ \A i \in at : i \in Nat /\ i <= Max(at)
  <2> DEFINE N == Len(config[c])
  <2>1. N \in Nat /\ at \in SUBSET (1 .. N)
    BY <1>1, <1>2
  <2> HIDE DEF at, N
  <2>2. Max(at) \in at /\ \A i \in at : i <= Max(at)
    BY <1>3, <2>1, MaxIsMember
  <2>3. \A i \in at : i \in Nat
    BY <2>1
  <2> QED
    BY <2>2, <2>3
<1>4. ASSUME NEW i \in at
      PROVE  /\ i \in Nat
             /\ <<c, i>> \in Entries(config)
             /\ LocationOf(i) = l
  BY <1>1, EntriesAre DEF EntriesAt
<1>5. ASSUME NEW e \in Entries(config), e[1] = c, LocationOf(e[2]) = l
      PROVE  e[2] \in at
  <2>1. /\ e[2] \in DOMAIN config[c]
        /\ config[c][e[2]] \in ConveyorId
    BY <1>5, EntriesAre
  <2>2. config[c][e[2]] # EMPTY_CONVEYOR_ID
    BY <2>1, ConveyorAssumption DEF EMPTY_CONVEYOR_ID
  <2> QED
    BY <1>5, <2>1, <2>2 DEF EntriesAt
<1> HIDE DEF at
<1>6. \A e \in Entries(config) :
         e[1] = c /\ LocationOf(e[2]) = l <=> e[1] = c /\ e[2] \in at
  BY <1>4, <1>5
<1> QED
  BY <1>3, <1>4, <1>6 DEF at

(* A new configuration: the last word on a location is the last entry for  *)
(* it, or else the disconnection, if the conveyor had one.                 *)
LEMMA ConfigurationIsTold ==
    ASSUME LinksInv, NEW config \in Configurations, set_state(config)
    PROVE  ToldMatchesConveyors'
<1> DEFINE msgs == clear_configuration \o ConnectAll(config)
           entry(e) == ConnectEntry(config, e[1], e[2])
<1>1. Told(msgs) /\ conveyors' = Configured(config)
  BY DEF set_state, Send
<1>2. SystemOK /\ ToldMatchesConveyors
  BY DEF LinksInv, SystemInv
<1>3. PICK m \in Nat, n \in Nat :
         /\ DOMAIN msgs = 1 .. m + n
         /\ \A i \in 1 .. m :
               \E c \in DOMAIN conveyors : msgs[i] = Disconnect(c)
         /\ \A c \in DOMAIN conveyors :
               \E i \in 1 .. m : msgs[i] = Disconnect(c)
         /\ \A i \in m + 1 .. m + n :
               \E e \in Entries(config) : msgs[i] = entry(e)
         /\ \A e \in Entries(config) : \E i \in m + 1 .. m + n :
               /\ msgs[i] = entry(e)
               /\ \A j \in m + 1 .. m + n : i < j =>
                     \E f \in Entries(config) :
                         /\ msgs[j] = entry(f)
                         /\ <<e, f>> \in ByKey(Entries(config))
  BY <1>2, ConfigurationMessages
<1>6. ASSUME NEW e \in Entries(config), NEW c, NEW l
      PROVE  /\ SpeaksOfLink(entry(e), c, l) <=> e[1] = c /\ LocationOf(e[2]) = l
             /\ LinkSaid(entry(e)) =
                  [to |-> config[e[1]][e[2]],
                   type |-> ConnectionType(config, e[1], config[e[1]][e[2]])]
  BY EntrySpeaks
<1> HIDE DEF msgs, entry
<1>4. ASSUME NEW c \in ConveyorId, NEW l \in Location, NEW v,
             v = IF c \in DOMAIN config THEN ConnectionsOf(config, c)[l]
                 ELSE NoConnection
      PROVE  LinkLearned(told, msgs, c, l) = v
  <2> DEFINE at == EntriesAt(config[c], l)
             N == m + n
  <2>1. N \in Nat /\ DOMAIN msgs = 1 .. N
    BY <1>3
  <2>2. CASE c \in DOMAIN config /\ at # {}
    <3> DEFINE e == <<c, Max(at)>>
    <3>1. /\ Max(at) \in Nat
          /\ e \in Entries(config)
          /\ e[1] = c
          /\ e[2] = Max(at)
          /\ LocationOf(e[2]) = l
      BY <2>2, LastEntry
    <3>2. \A i \in at : i \in Nat /\ i <= Max(at)
      BY <2>2, LastEntry
    <3>3. v = [to |-> config[e[1]][e[2]],
               type |-> ConnectionType(config, e[1], config[e[1]][e[2]])]
      BY <1>4, <2>2 DEF ConnectionsOf
    <3>4. \A f \in Entries(config) :
             e[1] = f[1] /\ LocationOf(f[2]) = l => f[2] \in at
      BY <2>2, LastEntry
    <3> HIDE DEF e, at
    <3>5. PICK k \in m + 1 .. m + n :
             /\ msgs[k] = entry(e)
             /\ \A j \in m + 1 .. m + n : k < j =>
                   \E f \in Entries(config) :
                       /\ msgs[j] = entry(f)
                       /\ <<e, f>> \in ByKey(Entries(config))
      BY <1>3, <3>1
    <3>6. k \in 1 .. N /\ SpeaksOfLink(msgs[k], c, l)
      <4>1. k \in 1 .. N
        BY <1>3
      <4>2. SpeaksOfLink(entry(e), c, l)
        BY <3>1, <1>6, Zenon
      <4> QED
        BY <3>5, <4>1, <4>2
    <3>7. ASSUME NEW i \in 1 .. N, SpeaksOfLink(msgs[i], c, l), k <= i
          PROVE  i = k
      <4> SUFFICES ASSUME k < i PROVE FALSE
        BY <1>3, <3>7
      <4>1. i \in m + 1 .. m + n
        BY <1>3
      <4>2. PICK f \in Entries(config) :
               /\ msgs[i] = entry(f)
               /\ <<e, f>> \in ByKey(Entries(config))
        BY <3>5, <4>1
      <4>3. f[1] = c /\ LocationOf(f[2]) = l
        BY <3>7, <4>2, <1>6, Zenon
      <4>4. f[2] \in Nat /\ f[2] <= e[2]
        BY <3>1, <3>2, <3>4, <4>3
      <4>5. KeyRank[e[1]] < KeyRank[f[1]] \/ (e[1] = f[1] /\ e[2] < f[2])
        BY <3>1, <4>2, ByKeyIs
      <4>6. KeyRank[c] \in Nat
        BY ConveyorAssumption
      <4> QED
        BY <3>1, <4>3, <4>4, <4>5, <4>6
    <3>8. LinkSaid(msgs[k]) = v
      BY <3>1, <3>3, <3>5, <1>6
    <3> HIDE DEF N
    <3>9. PICK i \in 1 .. N :
             /\ SpeaksOfLink(msgs[i], c, l)
             /\ \A j \in 1 .. N : SpeaksOfLink(msgs[j], c, l) => j <= i
             /\ LinkLearned(told, msgs, c, l) = LinkSaid(msgs[i])
      BY <2>1, <3>6, LinkIsLastSaid
    <3> QED
      BY <3>6, <3>7, <3>8, <3>9
  <2>3. CASE ~(c \in DOMAIN config /\ at # {})
    <3>1. v = NoConnection
      BY <1>4, <2>3 DEF ConnectionsOf
    <3>2. ASSUME NEW i \in m + 1 .. m + n
          PROVE  ~SpeaksOfLink(msgs[i], c, l)
      <4>1. PICK e \in Entries(config) : msgs[i] = entry(e)
        BY <1>3
      <4> SUFFICES ASSUME e[1] = c, LocationOf(e[2]) = l PROVE FALSE
        BY <4>1, <1>6, Zenon
      <4>2. c \in DOMAIN config
        BY EntriesAre
      <4>3. e[2] \in at
        <5>1. /\ e[2] \in DOMAIN config[c]
              /\ config[c][e[2]] \in ConveyorId
          BY EntriesAre
        <5>2. config[c][e[2]] # EMPTY_CONVEYOR_ID
          BY <5>1, ConveyorAssumption DEF EMPTY_CONVEYOR_ID
        <5> QED
          BY <5>1, <5>2 DEF EntriesAt
      <4> QED
        BY <2>3, <4>2, <4>3
    <3>3. ASSUME NEW i \in 1 .. N, SpeaksOfLink(msgs[i], c, l)
          PROVE  LinkSaid(msgs[i]) = v
      <4>1. i \in 1 .. m
        BY <1>3, <3>2, <3>3
      <4>2. PICK d \in DOMAIN conveyors : msgs[i] = Disconnect(d)
        BY <1>3, <4>1
      <4> QED
        BY <3>1, <4>2, DisconnectSpeaks
    <3>4. ASSUME \A i \in 1 .. N : ~SpeaksOfLink(msgs[i], c, l)
          PROVE  told[c].connections[l] = v
      <4>1. c \notin DOMAIN conveyors
        <5> SUFFICES ASSUME c \in DOMAIN conveyors PROVE FALSE
          OBVIOUS
        <5>1. PICK i \in 1 .. m : msgs[i] = Disconnect(c)
          BY <1>3
        <5>2. i \in 1 .. N
          BY <1>3
        <5> QED
          BY <3>4, <5>1, <5>2, DisconnectSpeaks
      <4> QED
        BY <1>2, <3>1, <4>1 DEF ToldMatchesConveyors, NoConveyor
    <3> HIDE DEF N, at
    <3> QED
      BY <2>1, <3>3, <3>4, LinkIsLastSaid
  <2> QED
    BY <2>2, <2>3
<1>5. ASSUME NEW c \in ConveyorId
      PROVE  told'[c].connections =
                IF c \in DOMAIN conveyors' THEN conveyors'[c].connections
                ELSE NoConveyor.connections
  <2>1. told'[c].connections =
            [l \in Location |-> LinkLearned(told, msgs, c, l)]
    BY <1>1, LearnedAt
  <2>2. CASE c \in DOMAIN config
    <3>1. conveyors'[c].connections = ConnectionsOf(config, c)
      BY <1>1, <2>2 DEF Configured, NoConveyor
    <3>2. ConnectionsOf(config, c) \in [Location -> Connection]
      BY <2>2, ConnectionsTyped
    <3>3. \A l \in Location :
             LinkLearned(told, msgs, c, l) = ConnectionsOf(config, c)[l]
      BY <1>4, <2>2
    <3>4. c \in DOMAIN conveyors'
      BY <1>1, <2>2 DEF Configured
    <3> QED
      BY <2>1, <3>1, <3>2, <3>3, <3>4
  <2>3. CASE c \notin DOMAIN config
    <3>1. \A l \in Location : LinkLearned(told, msgs, c, l) = NoConnection
      BY <1>4, <2>3
    <3>2. c \notin DOMAIN conveyors'
      BY <1>1, <2>3 DEF Configured
    <3> QED
      BY <2>1, <3>1, <3>2 DEF NoConveyor
  <2> QED
    BY <2>2, <2>3
<1> QED
  BY <1>5 DEF ToldMatchesConveyors

(* The messages of a new box tell its conveyor where the box is, and       *)
(* nothing else of links.                                                  *)
LEMMA BoxIsTold ==
    ASSUME LinksInv, NEW c \in ConveyorId, NEW b \in BoxId,
           NEW location \in BoxLocations,
           RoomForBox(c, location), ConnectBox(c, b, location),
           NEW msgs, Told(msgs), NEW n \in Nat, DOMAIN msgs = 1 .. n, n > 0,
           msgs[1] = BoxConnect(c, b, location),
           \A i \in 1 .. n : i # 1 => msgs[i].id = "ROUTING_PLAN"
    PROVE  ToldMatchesConveyors'
<1>1. SystemInv /\ ToldMatchesConveyors
  BY DEF LinksInv
<1>2. /\ DOMAIN conveyors' = DOMAIN conveyors
      /\ c \in DOMAIN conveyors
      /\ location \in Location
      /\ \A d \in DOMAIN conveyors : d # c => conveyors'[d] = conveyors[d]
      /\ conveyors'[c].connections \in [Location -> Connection]
      /\ \A l \in Location : l = location =>
            conveyors'[c].connections[l] = BoxConnection
      /\ \A l \in Location : l # location =>
            conveyors'[c].connections[l] = conveyors[c].connections[l]
  <2>1. c \in DOMAIN conveyors
    BY <1>1, BoxLinks
  <2>2. location \in Location
    BY <1>1, BoxLinks
  <2>3. DOMAIN conveyors' = DOMAIN conveyors
    BY <1>1, BoxLinks
  <2>4. \A d \in DOMAIN conveyors : d # c => conveyors'[d] = conveyors[d]
    BY <1>1, BoxLinks
  <2>5. conveyors'[c].connections \in [Location -> Connection]
    BY <1>1, BoxLinks
  <2>6. \A l \in Location : l = location =>
            conveyors'[c].connections[l] = BoxConnection
    <3>1. conveyors[c].connections \in [Location -> Connection]
      BY <1>1, <2>1 DEF SystemInv, SystemOK, Conveyor
    <3>2. conveyors'[c].connections =
             [conveyors[c].connections EXCEPT ![location] = BoxConnection]
      BY <2>1 DEF ConnectBox
    <3> QED
      BY <3>1, <3>2
  <2>7. \A l \in Location : l # location =>
            conveyors'[c].connections[l] = conveyors[c].connections[l]
    <3>1. conveyors[c].connections \in [Location -> Connection]
      BY <1>1, <2>1 DEF SystemInv, SystemOK, Conveyor
    <3>2. conveyors'[c].connections =
             [conveyors[c].connections EXCEPT ![location] = BoxConnection]
      BY <1>1, <2>1 DEF SystemInv, SystemOK, ConnectBox
    <3> QED
      BY <3>1, <3>2
  <2> QED
    BY <2>1, <2>2, <2>3, <2>4, <2>5, <2>6, <2>7
<1>3. PICK S \in SUBSET ConveyorId : conveyors \in [S -> Conveyor]
  BY <1>1 DEF SystemInv, SystemOK
<1>4. ASSUME NEW d \in ConveyorId, NEW l \in Location
      PROVE  LinkLearned(told, msgs, d, l) =
                IF d = c /\ l = location THEN BoxConnection
                ELSE told[d].connections[l]
  <2>1. \A i \in 1 .. n : SpeaksOfLink(msgs[i], d, l)
           <=> i = 1 /\ d = c /\ l = location
    <3>1. SpeaksOfLink(BoxConnect(c, b, location), d, l)
              <=> d = c /\ l = location
      BY DEF SpeaksOfLink, BoxConnect
    <3> QED
      BY <3>1 DEF SpeaksOfLink
  <2>2. LinkSaid(msgs[1]) = BoxConnection
    BY DEF LinkSaid, BoxConnect
  <2>3. 1 \in 1 .. n
    OBVIOUS
  <2> QED
    BY <2>1, <2>2, <2>3, LinkIsLastSaid
<1>5. ASSUME NEW d \in ConveyorId
      PROVE  told'[d].connections =
                IF d \in DOMAIN conveyors' THEN conveyors'[d].connections
                ELSE NoConveyor.connections
  <2>1. told'[d].connections =
            [l \in Location |-> LinkLearned(told, msgs, d, l)]
    BY LearnedAt
  <2>2. told[d].connections =
            IF d \in DOMAIN conveyors THEN conveyors[d].connections
            ELSE NoConveyor.connections
    BY <1>1 DEF ToldMatchesConveyors
  <2>3. told[d].connections = [l \in Location |-> told[d].connections[l]]
    BY DEF LinksInv, ToldOK
  <2>4. CASE d = c
    <3>1. \A l \in Location :
             LinkLearned(told, msgs, d, l) = conveyors'[c].connections[l]
      BY <1>2, <1>4, <2>2, <2>4
    <3> QED
      BY <1>2, <2>1, <2>4, <3>1
  <2>5. CASE d # c
    <3>1. \A l \in Location :
             LinkLearned(told, msgs, d, l) = told[d].connections[l]
      BY <1>4, <2>5
    <3>2. told'[d].connections = told[d].connections
      BY <2>1, <2>3, <3>1
    <3> QED
      BY <1>2, <2>2, <2>5, <3>2
  <2> QED
    BY <2>4, <2>5
<1> QED
  BY <1>5 DEF ToldMatchesConveyors

(* What was told has the right types when its links are those of the       *)
(* system and its routes name conveyors.                                   *)
LEMMA ToldTyped ==
    ASSUME SystemInv', ToldMatchesConveyors', NEW msgs, Told(msgs),
           \A c \in ConveyorId, b \in BoxId :
              RouteLearned(told, msgs, c, b) \in ConveyorId \union {NoRoute}
    PROVE  ToldOK'
<1>1. ASSUME NEW c \in ConveyorId
      PROVE  told'[c] \in [connections : [Location -> Connection],
                           routes : [BoxId -> ConveyorId \union {NoRoute}]]
  <2>1. told'[c] = [connections |-> told'[c].connections,
                    routes      |-> told'[c].routes]
    BY DEF Told, Learned
  <2>2. told'[c].routes \in [BoxId -> ConveyorId \union {NoRoute}]
    <3>1. told'[c].routes = [b \in BoxId |-> RouteLearned(told, msgs, c, b)]
      BY LearnedAt
    <3> QED
      BY <3>1
  <2>3. PICK S \in SUBSET ConveyorId : conveyors' \in [S -> Conveyor]
    BY DEF SystemInv, SystemOK
  <2>4. NoConveyor.connections \in [Location -> Connection]
    BY DEF NoConveyor, NoConnection, Connection
  <2>5. c \in DOMAIN conveyors' =>
            conveyors'[c].connections \in [Location -> Connection]
    BY <2>3 DEF Conveyor
  <2>6. told'[c].connections \in [Location -> Connection]
    BY <2>4, <2>5 DEF ToldMatchesConveyors
  <2> QED
    BY <2>1, <2>2, <2>6
<1>2. told' = [c \in ConveyorId |-> told'[c]]
  BY DEF Told, Learned
<1> QED
  BY <1>1, <1>2 DEF ToldOK

(* No message of a new configuration speaks of routes. *)
LEMMA ConfigurationKeepsRoutes ==
    ASSUME LinksInv, NEW config \in Configurations, set_state(config)
    PROVE  \A c \in ConveyorId, b \in BoxId :
              RouteLearned(told, clear_configuration \o ConnectAll(config), c, b)
                  = told[c].routes[b]
<1> DEFINE msgs == clear_configuration \o ConnectAll(config)
           entry(e) == ConnectEntry(config, e[1], e[2])
<1>1. SystemOK
  BY DEF LinksInv, SystemInv
<1>2. PICK m \in Nat, n \in Nat :
         /\ DOMAIN msgs = 1 .. m + n
         /\ \A i \in 1 .. m :
               \E c \in DOMAIN conveyors : msgs[i] = Disconnect(c)
         /\ \A i \in m + 1 .. m + n :
               \E e \in Entries(config) : msgs[i] = entry(e)
  BY <1>1, ConfigurationMessages
<1> HIDE DEF msgs
<1>3. ASSUME NEW c, NEW b, NEW i \in 1 .. m + n
      PROVE  ~SpeaksOfRoute(msgs[i], c, b)
  <2>1. i \in 1 .. m \/ i \in m + 1 .. m + n
    OBVIOUS
  <2>2. CASE i \in 1 .. m
    <3>1. PICK d \in DOMAIN conveyors : msgs[i] = Disconnect(d)
      BY <1>2, <2>2
    <3> QED
      BY <3>1 DEF Disconnect, SpeaksOfRoute
  <2>3. CASE i \in m + 1 .. m + n
    <3>1. PICK e \in Entries(config) : msgs[i] = entry(e)
      BY <1>2, <2>3
    <3> QED
      BY <3>1 DEF ConnectEntry, ConveyorConnect, SpeaksOfRoute
  <2> QED
    BY <2>1, <2>2, <2>3
<1>4. ASSUME NEW c \in ConveyorId, NEW b \in BoxId
      PROVE  RouteLearned(told, msgs, c, b) = told[c].routes[b]
  <2>1. m + n \in Nat
    OBVIOUS
  <2> QED
    BY <1>2, <1>3, <2>1, RouteIsLastSaid
<1> QED
  BY <1>4 DEF msgs

NewBoxMessages(c, b, l, path) ==
    <<BoxConnect(c, b, l)>> \o RoutingMessages(b, path)

SaidOfNewBox(c, b, l, path, n, known, msgs) ==
    /\ DOMAIN msgs = 1 .. n + 2
    /\ msgs[1] = BoxConnect(c, b, l)
    /\ \A i \in 1 .. n + 2 : i # 1 => msgs[i].id = "ROUTING_PLAN"
    /\ \A k \in 1 .. n + 1 :
          RouteLearned(known, msgs, path[k], b) = NextOn(path, n, k)
    /\ \A d, e : e # b \/ (\A k \in 1 .. n + 1 : path[k] # d) =>
          RouteLearned(known, msgs, d, e) = known[d].routes[e]

(* The messages of a new box, and where they route packages for it. *)
LEMMA RoutesOfNewBox ==
    ASSUME NEW c, NEW b, NEW l, NEW n \in Nat, NEW X,
           NEW path \in [1 .. n + 1 -> X],
           \A j, k \in 1 .. n + 1 : path[j] = path[k] => j = k,
           NEW known
    PROVE  SaidOfNewBox(c, b, l, path, n, known, NewBoxMessages(c, b, l, path))
<1> DEFINE msgs == NewBoxMessages(c, b, l, path)
           next(k) == NextOn(path, n, k)
<1>1. /\ DOMAIN msgs = 1 .. n + 2
      /\ msgs[1] = BoxConnect(c, b, l)
      /\ \A i \in 1 .. n + 1 : msgs[i + 1] = RoutingPlan(path[i], b, next(i))
  <2> DEFINE s == <<BoxConnect(c, b, l)>>
               t == RoutingMessages(b, path)
  <2>1. n + 1 \in Nat /\ Len(path) = n + 1
    <3>1. n + 1 \in Nat
      OBVIOUS
    <3> QED
      BY <3>1
  <2>2. t = [i \in 1 .. n + 1 |->
                RoutingPlan(path[i], b, NextOn(path, n, i))]
    BY <2>1 DEF RoutingMessages, NextOn
  <2>3. s = [i \in 1 .. 1 |-> s[i]] /\ s[1] = BoxConnect(c, b, l)
    OBVIOUS
  <2>0. msgs = s \o t
    BY DEF NewBoxMessages
  <2> HIDE DEF s, t, msgs
  <2>4. t = [i \in 1 .. n + 1 |-> t[i]]
    BY <2>2
  <2>5. /\ DOMAIN (s \o t) = 1 .. 1 + (n + 1)
        /\ \A i \in 1 .. 1 : (s \o t)[i] = s[i]
        /\ \A i \in 1 .. n + 1 : (s \o t)[1 + i] = t[i]
    BY <2>1, <2>3, <2>4, JoinedLists
  <2>6. DOMAIN msgs = 1 .. n + 2
    <3>1. 1 + (n + 1) = n + 2
      OBVIOUS
    <3> QED
      BY <2>0, <2>5, <3>1
  <2>7. msgs[1] = BoxConnect(c, b, l)
    BY <2>0, <2>3, <2>5
  <2>8. ASSUME NEW i \in 1 .. n + 1
        PROVE  msgs[i + 1] = RoutingPlan(path[i], b, NextOn(path, n, i))
    <3>1. i + 1 = 1 + i
      OBVIOUS
    <3>2. msgs[i + 1] = t[i]
      BY <2>0, <2>5, <3>1
    <3> QED
      BY <2>2, <3>2
  <2> QED
    BY <2>6, <2>7, <2>8
<1> HIDE DEF msgs, next
<1>2. ASSUME NEW i \in 1 .. n + 2, i # 1
      PROVE  \E k \in 1 .. n + 1 :
                i = k + 1 /\ msgs[i] = RoutingPlan(path[k], b, next(k))
  <2>1. i - 1 \in 1 .. n + 1 /\ (i - 1) + 1 = i
    BY <1>2
  <2> QED
    BY <1>1, <2>1
<1>3. ASSUME NEW d, NEW e, NEW i \in 1 .. n + 2
      PROVE  SpeaksOfRoute(msgs[i], d, e) <=>
                \E k \in 1 .. n + 1 : /\ i = k + 1
                                      /\ path[k] = d
                                      /\ b = e
  <2>1. CASE i = 1
    <3>1. ~SpeaksOfRoute(msgs[i], d, e)
      BY <1>1, <2>1 DEF SpeaksOfRoute, BoxConnect
    <3>2. \A k \in 1 .. n + 1 : i # k + 1
      BY <2>1
    <3> QED
      BY <3>1, <3>2
  <2>2. CASE i # 1
    <3>1. PICK k \in 1 .. n + 1 :
             i = k + 1 /\ msgs[i] = RoutingPlan(path[k], b, next(k))
      BY <1>2, <2>2
    <3>2. SpeaksOfRoute(msgs[i], d, e) <=> path[k] = d /\ b = e
      BY <3>1 DEF SpeaksOfRoute, RoutingPlan
    <3>3. \A j \in 1 .. n + 1 : i = j + 1 => j = k
      BY <3>1
    <3> QED
      BY <3>1, <3>2, <3>3
  <2> QED
    BY <2>1, <2>2
<1>4. n + 2 \in Nat
  OBVIOUS
<1>5. ASSUME NEW i \in 1 .. n + 2, i # 1
      PROVE  msgs[i].id = "ROUTING_PLAN"
  <2>1. PICK k \in 1 .. n + 1 :
           i = k + 1 /\ msgs[i] = RoutingPlan(path[k], b, next(k))
    BY <1>2, <1>5
  <2> QED
    BY <2>1 DEF RoutingPlan
<1>6. ASSUME NEW k \in 1 .. n + 1
      PROVE  RouteLearned(known, msgs, path[k], b) = next(k)
  <2>0. k + 1 \in 1 .. n + 2
    OBVIOUS
  <2>1. SpeaksOfRoute(msgs[k + 1], path[k], b)
    <3>1. msgs[k + 1] = RoutingPlan(path[k], b, next(k))
      BY <1>1
    <3> QED
      BY <3>1 DEF SpeaksOfRoute, RoutingPlan
  <2>2. PICK i \in 1 .. n + 2 :
           /\ SpeaksOfRoute(msgs[i], path[k], b)
           /\ RouteLearned(known, msgs, path[k], b) = msgs[i].to
    <3> DEFINE N == n + 2
    <3>1. N \in Nat /\ DOMAIN msgs = 1 .. N
      BY <1>1, <1>4
    <3>2. k + 1 \in 1 .. N
      BY <2>0
    <3> HIDE DEF N
    <3>3. \/ /\ \A i \in 1 .. N : ~SpeaksOfRoute(msgs[i], path[k], b)
             /\ RouteLearned(known, msgs, path[k], b)
                  = known[path[k]].routes[b]
          \/ \E i \in 1 .. N :
                /\ SpeaksOfRoute(msgs[i], path[k], b)
                /\ RouteLearned(known, msgs, path[k], b) = msgs[i].to
      BY <3>1, RouteIsLastSaid
    <3> QED
      BY <2>1, <3>2, <3>3, Zenon DEF N
  <2>3. PICK j \in 1 .. n + 1 : i = j + 1 /\ path[j] = path[k]
    BY <1>3, <2>2
  <2>4. i = k + 1
    BY <2>3
  <2>5. msgs[i] = RoutingPlan(path[k], b, next(k))
    BY <1>1, <2>4
  <2> QED
    BY <2>2, <2>5 DEF RoutingPlan
<1>7. ASSUME NEW d, NEW e, e # b \/ (\A k \in 1 .. n + 1 : path[k] # d)
      PROVE  RouteLearned(known, msgs, d, e) = known[d].routes[e]
  <2>1. \A i \in 1 .. n + 2 : ~SpeaksOfRoute(msgs[i], d, e)
    BY <1>3, <1>7
  <2> QED
    BY <1>1, <1>4, <2>1, RouteIsLastSaid
<1> QED
  BY <1>1, <1>5, <1>6, <1>7 DEF SaidOfNewBox, msgs, next

(* A route over the links of a system from the input conveyor, in n hops. *)
Route(system, c, path, n) ==
    /\ n \in Nat
    /\ n <= Cardinality(ConveyorId)
    /\ path \in [1 .. n + 1 -> DOMAIN system]
    /\ path[1] = INPUT_CONVEYOR_ID
    /\ path[n + 1] = c
    /\ \A k \in 1 .. n : path[k + 1] \in Graph(system)[path[k]]
    /\ \A j, k \in 1 .. n + 1 : path[j] = path[k] => j = k

LEMMA CalculatedRoute ==
    ASSUME NEW system, DOMAIN system \subseteq ConveyorId,
           NEW c, NEW path \in calculate_routing_plan(system, c)
    PROVE  \E n : Route(system, c, path, n)
<1> DEFINE graph == Graph(system)
           S == DOMAIN system
<1>1. DOMAIN graph = S
  BY DEF Graph
<1>2. /\ IsFiniteSet(S)
      /\ Cardinality(S) <= Cardinality(ConveyorId)
      /\ Cardinality(S) \in Nat
      /\ Cardinality(ConveyorId) \in Nat
  <2>1. S \in SUBSET ConveyorId
    OBVIOUS
  <2> QED
    BY <2>1, ConveyorAssumption, FS_Subset, FS_CardinalityType
<1>3. path \in ShortestPaths(graph, c)
  BY DEF calculate_routing_plan
<1> HIDE DEF graph, S
<1>4. IsFiniteSet(DOMAIN graph)
  BY <1>1, <1>2
<1>5. PICK n \in Nat :
         /\ n <= Cardinality(DOMAIN graph)
         /\ path \in [1 .. n + 1 -> DOMAIN graph]
         /\ Len(path) = n + 1
         /\ path[1] = INPUT_CONVEYOR_ID
         /\ path[n + 1] = c
         /\ \A k \in 1 .. n : path[k + 1] \in graph[path[k]]
         /\ \A j, k \in 1 .. n + 1 : path[j] = path[k] => j = k
  BY <1>3, <1>4, ShortestIsPath
<1>6. n <= Cardinality(ConveyorId)
  BY <1>1, <1>2, <1>5
<1>7. Route(system, c, path, n)
  BY <1>1, <1>5, <1>6 DEF graph, S, Route
<1> QED
  BY <1>7

LEMMA NextIsOnPath ==
    ASSUME NEW n \in Nat, NEW S, NEW path \in [1 .. n + 1 -> S],
           NEW k \in 1 .. n + 1
    PROVE  NextOn(path, n, k) \in S
<1>1. CASE k = n + 1
  BY <1>1 DEF NextOn
<1>2. CASE k # n + 1
  <2>1. k + 1 \in 1 .. n + 1
    BY <1>2
  <2> QED
    BY <1>2, <2>1 DEF NextOn
<1> QED
  BY <1>1, <1>2

LEMMA LinksInvInductive ==
    ASSUME LinksInv, [Next]_vars
    PROVE  LinksInv'
<1>1. SystemInv /\ ToldOK /\ ToldMatchesConveyors
  BY DEF LinksInv
<1>2. SystemInv'
  BY <1>1, SystemInvInductive
<1>3. ASSUME NEW config \in Configurations, set_state(config)
      PROVE  LinksInv'
  <2>1. ToldMatchesConveyors'
    BY <1>3, ConfigurationIsTold
  <2> DEFINE msgs == clear_configuration \o ConnectAll(config)
  <2>2. Told(msgs)
    BY <1>3 DEF set_state, Send
  <2>3. \A c \in ConveyorId, b \in BoxId :
           RouteLearned(told, msgs, c, b) = told[c].routes[b]
    BY <1>3, ConfigurationKeepsRoutes
  <2> HIDE DEF msgs
  <2>4. \A c \in ConveyorId, b \in BoxId :
           RouteLearned(told, msgs, c, b) \in ConveyorId \union {NoRoute}
    BY <1>1, <2>3 DEF ToldOK
  <2>5. ToldOK'
    BY <1>2, <2>1, <2>2, <2>4, ToldTyped
  <2> QED
    BY <1>2, <2>1, <2>5 DEF LinksInv
<1>4. ASSUME NEW c \in ConveyorId, NEW b \in BoxId, NEW location \in BoxLocations,
             add_destination_box(c, b, location)
      PROVE  LinksInv'
  <2>1. RoomForBox(c, location) /\ ConnectBox(c, b, location)
    BY <1>4 DEF add_destination_box
  <2>2. PICK path \in calculate_routing_plan(conveyors', c) :
           Send(<<BoxConnect(c, b, location)>> \o RoutingMessages(b, path),
                <<AddBoxResponse(b, c, TRUE)>>)
    BY <1>4 DEF add_destination_box
  <2> DEFINE msgs == NewBoxMessages(c, b, location, path)
  <2>3. Told(msgs)
    BY <2>2 DEF Send, NewBoxMessages
  <2>4. DOMAIN conveyors' \subseteq ConveyorId
    BY <1>2 DEF SystemInv, SystemOK
  <2>5. PICK n : Route(conveyors', c, path, n)
    BY <2>4, CalculatedRoute
  <2>10. /\ n \in Nat
        /\ path \in [1 .. n + 1 -> DOMAIN conveyors']
        /\ \A j, k \in 1 .. n + 1 : path[j] = path[k] => j = k
    BY <2>5 DEF Route
  <2>6. /\ DOMAIN msgs = 1 .. n + 2
        /\ msgs[1] = BoxConnect(c, b, location)
        /\ \A i \in 1 .. n + 2 : i # 1 => msgs[i].id = "ROUTING_PLAN"
        /\ \A k \in 1 .. n + 1 :
              RouteLearned(told, msgs, path[k], b) = NextOn(path, n, k)
        /\ \A d, e : e # b \/ (\A k \in 1 .. n + 1 : path[k] # d) =>
              RouteLearned(told, msgs, d, e) = told[d].routes[e]
    <3>1. SaidOfNewBox(c, b, location, path, n, told, msgs)
      BY <2>10, RoutesOfNewBox
    <3> HIDE DEF msgs
    <3> QED
      BY <3>1 DEF SaidOfNewBox
  <2> HIDE DEF msgs
  <2>7. ToldMatchesConveyors'
    <3>1. n + 2 \in Nat /\ n + 2 > 0
      BY <2>10
    <3> QED
      BY <2>1, <2>3, <2>6, <3>1, BoxIsTold
  <2>8. ASSUME NEW d \in ConveyorId, NEW e \in BoxId
        PROVE  RouteLearned(told, msgs, d, e) \in ConveyorId \union {NoRoute}
    <3>1. CASE e # b \/ (\A k \in 1 .. n + 1 : path[k] # d)
      BY <1>1, <2>6, <3>1 DEF ToldOK
    <3>2. ASSUME e = b, NEW k \in 1 .. n + 1, path[k] = d
          PROVE  RouteLearned(told, msgs, d, e) \in ConveyorId \union {NoRoute}
      <4>1. NextOn(path, n, k) \in DOMAIN conveyors'
        BY <2>10, NextIsOnPath
      <4> QED
        BY <2>4, <2>6, <3>2, <4>1
    <3> QED
      BY <3>1, <3>2
  <2>9. ToldOK'
    BY <1>2, <2>3, <2>7, <2>8, ToldTyped
  <2> QED
    BY <1>2, <2>7, <2>9 DEF LinksInv
<1>5. ASSUME NEW c \in ConveyorId, NEW b \in BoxId, NEW location \in BoxLocations,
             add_destination_box_crashes(c, b, location)
      PROVE  LinksInv'
  <2> DEFINE msgs == <<BoxConnect(c, b, location)>>
  <2>1. /\ RoomForBox(c, location)
        /\ ConnectBox(c, b, location)
        /\ Told(msgs)
    BY <1>5 DEF add_destination_box_crashes, Send
  <2>2. DOMAIN msgs = 1 .. 1 /\ msgs[1] = BoxConnect(c, b, location)
    OBVIOUS
  <2> HIDE DEF msgs
  <2>3. /\ 1 \in Nat
        /\ 1 > 0
        /\ \A i \in 1 .. 1 : i # 1 => msgs[i].id = "ROUTING_PLAN"
    OBVIOUS
  <2>4. ToldMatchesConveyors'
    BY <2>1, <2>2, <2>3, BoxIsTold
  <2>5. ASSUME NEW d \in ConveyorId, NEW e \in BoxId
        PROVE  RouteLearned(told, msgs, d, e) \in ConveyorId \union {NoRoute}
    <3>1. \A i \in 1 .. 1 : ~SpeaksOfRoute(msgs[i], d, e)
      BY <2>2 DEF SpeaksOfRoute, BoxConnect
    <3>2. RouteLearned(told, msgs, d, e) = told[d].routes[e]
      BY <2>2, <2>3, <3>1, RouteIsLastSaid
    <3> QED
      BY <1>1, <3>2 DEF ToldOK
  <2>6. ToldOK'
    BY <1>2, <2>1, <2>4, <2>5, ToldTyped
  <2> QED
    BY <1>2, <2>4, <2>6 DEF LinksInv
<1>6. ASSUME Quiet
      PROVE  LinksInv'
  <2>1. ToldOK'
    BY <1>1, <1>6 DEF ToldOK, Quiet
  <2>2. ToldMatchesConveyors'
    BY <1>1, <1>6 DEF ToldMatchesConveyors, Quiet
  <2> QED
    BY <1>2, <2>1, <2>2 DEF LinksInv
<1> QED
  BY <1>1, <1>3, <1>4, <1>5, <1>6, KindsOfSteps,
     OtherStepsAreQuiet

LEMMA LinksInvInitially == Init => LinksInv
<1> SUFFICES ASSUME Init PROVE LinksInv
  OBVIOUS
<1>1. SystemInv
  BY SystemInvInitially
<1>2. NoConnection \in Connection
  BY DEF NoConnection, Connection
<1>3. ToldOK
  BY <1>2 DEF Init, ToldOK
<1>4. ToldMatchesConveyors
  BY DEF Init, ToldMatchesConveyors, NoConveyor
<1> QED
  BY <1>1, <1>3, <1>4 DEF LinksInv

(* The conveyors are well formed, what they were told of links and routes  *)
(* names conveyors, and the links they were told are those the system      *)
(* believes in.                                                            *)
THEOREM LinksInvHolds == Spec => []LinksInv
<1>1. Init => LinksInv
  BY LinksInvInitially
<1>2. LinksInv /\ [Next]_vars => LinksInv'
  BY LinksInvInductive
<1> QED
  BY <1>1, <1>2, PTL DEF Spec

(* What the conveyors were told of their links and boxes is what the       *)
(* system believes, after any number of configurations and boxes           *)
(* (ConveyorSystem.cpp:20, 38, 74, 201-207).                               *)
THEOREM ToldMatchesConveyorsHolds == Spec => []ToldMatchesConveyors
<1>1. LinksInv => ToldMatchesConveyors
  BY DEF LinksInv
<1> QED
  BY <1>1, LinksInvHolds, PTL

(* The type invariant of the conveyor system, for any configurations.      *)
THEOREM TypeOKHolds == Spec => []TypeOK
<1> DEFINE FlagsOK == crashed \in BOOLEAN /\ clearing \subseteq BoxId
<1>1. Init => FlagsOK
  BY DEF Init
<1>2. ASSUME FlagsOK, [Next]_vars
      PROVE  FlagsOK'
  <2>1. ASSUME NEW config \in Configurations, set_state(config)
        PROVE  FlagsOK'
    BY <1>2, <2>1, Zenon DEF set_state
  <2>2. ASSUME NEW c \in ConveyorId, NEW b \in BoxId, NEW l \in BoxLocations,
               \/ add_destination_box(c, b, l)
               \/ add_destination_box_refused(c, b, l)
               \/ add_destination_box_crashes(c, b, l)
               \/ add_destination_box_out_of_range(c, b, l)
        PROVE  FlagsOK'
    BY <1>2, <2>2, Zenon
       DEF add_destination_box, add_destination_box_refused,
           add_destination_box_crashes, add_destination_box_out_of_range
  <2>3. ASSUME NEW p \in PackageId, send_package(p) \/ send_package_refused(p)
        PROVE  FlagsOK'
    BY <1>2, <2>3, Zenon DEF send_package, send_package_refused
  <2>4. ASSUME NEW p \in PackageId, NEW b \in BoxId,
               \/ arrival_received(p, b)
               \/ package_removed(p, b)
               \/ package_removal_refused(p, b)
        PROVE  FlagsOK'
    BY <1>2, <2>4, Zenon
       DEF arrival_received, package_removed, package_removal_refused
  <2>5. ASSUME NEW b \in BoxId,
               \/ get_destination_box_state(b)
               \/ clear_box_requested(b)
               \/ clear_box_refused(b)
        PROVE  FlagsOK'
    <3>1. CASE get_destination_box_state(b) \/ clear_box_refused(b)
      BY <1>2, <3>1, Zenon DEF get_destination_box_state, clear_box_refused
    <3>2. CASE clear_box_requested(b)
      <4>1. crashed' = crashed /\ clearing' = clearing \union {b}
        BY <3>2 DEF clear_box_requested
      <4> QED
        BY <1>2, <4>1, Zenon
    <3> QED
      BY <2>5, <3>1, <3>2
  <2>6. ASSUME NEW b \in BoxId, NEW removed \in SUBSET PackageId,
               \/ clear_box_completed(b, removed)
               \/ clear_box_completed_crashes(b, removed)
        PROVE  FlagsOK'
    BY <1>2, <2>6, Zenon DEF clear_box_completed, clear_box_completed_crashes
  <2>7. CASE UNCHANGED vars
    BY <1>2, <2>7 DEF vars
  <2> QED
    BY <1>2, <2>1, <2>2, <2>3, <2>4, <2>5, <2>6, <2>7, Zenon DEF Next
<1>3. LinksInv /\ FlagsOK => TypeOK
  BY DEF LinksInv, SystemInv, ToldOK, TypeOK
<1> HIDE DEF FlagsOK
<1> QED
  BY <1>1, <1>2, <1>3, LinksInvHolds, PTL DEF Spec

------------------------------------------------------------------------------
(* Masters and slaves *)

(* The locations of a conveyor that lead to another one. *)
LocationsTo(system, c, d) ==
    {l \in Location : system[c].connections[l].to = d}

(* Conveyors that are linked are linked both ways. *)
SymmetricConfigurations ==
    \A config \in Configurations : \A c, d \in DOMAIN config :
        LocationsTo(Configured(config), c, d) # {}
            => LocationsTo(Configured(config), d, c) # {}

(* The type of the link from one conveyor to another. *)
TypeTowards(c, d) == IF KeyRank[d] < KeyRank[c] THEN "SLAVE" ELSE "MASTER"

(* The links in the map are of the type that the keys say, and go both     *)
(* ways.                                                                   *)
PairedInv ==
    \A c, d \in DOMAIN conveyors :
        /\ \A l \in LocationsTo(conveyors, c, d) :
              conveyors[c].connections[l].type = TypeTowards(c, d)
        /\ LocationsTo(conveyors, c, d) # {}
              => LocationsTo(conveyors, d, c) # {}

(* The links between conveyors stay as they are. *)
LinksKept ==
    /\ DOMAIN conveyors' = DOMAIN conveyors
    /\ \A c \in DOMAIN conveyors, l \in Location :
          \/ conveyors'[c].connections[l] = conveyors[c].connections[l]
          \/ /\ conveyors'[c].connections[l].to \notin ConveyorId
             /\ conveyors[c].connections[l].to \notin ConveyorId

LEMMA BoxKeepsLinks ==
    ASSUME SystemInv, NEW c, NEW b \in BoxId, NEW location \in BoxLocations,
           RoomForBox(c, location), ConnectBox(c, b, location)
    PROVE  LinksKept
<1>1. PICK S \in SUBSET ConveyorId : conveyors \in [S -> Conveyor]
  BY DEF SystemInv, SystemOK
<1>2. /\ c \in DOMAIN conveyors
      /\ conveyors[c].connections[location].to = EMPTY_CONVEYOR_ID
  BY DEF RoomForBox, CanHoldBox, HasConnectionAt
<1>3. /\ DOMAIN conveyors' = DOMAIN conveyors
      /\ \A d \in DOMAIN conveyors : d # c => conveyors'[d] = conveyors[d]
      /\ conveyors'[c].connections =
            [conveyors[c].connections EXCEPT ![location] = BoxConnection]
  BY <1>1, <1>2 DEF ConnectBox
<1>4. conveyors[c].connections \in [Location -> Connection]
  BY <1>1, <1>2 DEF Conveyor
<1>5. \A l \in Location :
         \/ conveyors'[c].connections[l] = conveyors[c].connections[l]
         \/ l = location /\ conveyors'[c].connections[l] = BoxConnection
  BY <1>3, <1>4
<1>6. BoxConnection.to = BOX_CONVEYOR_ID
  BY DEF BoxConnection
<1>7. BOX_CONVEYOR_ID \notin ConveyorId /\ EMPTY_CONVEYOR_ID \notin ConveyorId
  BY ConveyorAssumption DEF BOX_CONVEYOR_ID, EMPTY_CONVEYOR_ID
<1>8. ASSUME NEW d \in DOMAIN conveyors, NEW l \in Location
      PROVE  \/ conveyors'[d].connections[l] = conveyors[d].connections[l]
             \/ /\ conveyors'[d].connections[l].to \notin ConveyorId
                /\ conveyors[d].connections[l].to \notin ConveyorId
  <2>1. CASE d = c
    BY <1>2, <1>5, <1>6, <1>7, <2>1
  <2>2. CASE d # c
    BY <1>3, <2>2
  <2> QED
    BY <2>1, <2>2
<1> QED
  BY <1>3, <1>8 DEF LinksKept

LEMMA KeptLinksPaired ==
    ASSUME SystemOK, PairedInv, LinksKept
    PROVE  PairedInv'
<1>1. DOMAIN conveyors \subseteq ConveyorId
  BY DEF SystemOK
<1>2. ASSUME NEW c \in DOMAIN conveyors, NEW d \in DOMAIN conveyors
      PROVE  /\ LocationsTo(conveyors', c, d) = LocationsTo(conveyors, c, d)
             /\ \A l \in LocationsTo(conveyors, c, d) :
                   conveyors'[c].connections[l] = conveyors[c].connections[l]
  <2>1. d \in ConveyorId
    BY <1>1
  <2>2. ASSUME NEW l \in Location
        PROVE  /\ conveyors'[c].connections[l].to = d
                      <=> conveyors[c].connections[l].to = d
               /\ conveyors[c].connections[l].to = d
                      => conveyors'[c].connections[l]
                             = conveyors[c].connections[l]
    BY <2>1 DEF LinksKept
  <2> QED
    BY <2>2 DEF LocationsTo
<1>3. DOMAIN conveyors' = DOMAIN conveyors
  BY DEF LinksKept
<1>4. ASSUME NEW c \in DOMAIN conveyors', NEW d \in DOMAIN conveyors'
      PROVE  /\ \A l \in LocationsTo(conveyors', c, d) :
                   conveyors'[c].connections[l].type = TypeTowards(c, d)
             /\ LocationsTo(conveyors', c, d) # {}
                   => LocationsTo(conveyors', d, c) # {}
  BY <1>2, <1>3 DEF PairedInv
<1> QED
  BY <1>4 DEF PairedInv

LEMMA ConfigurationPaired ==
    ASSUME SymmetricConfigurations, NEW config \in Configurations,
           conveyors' = Configured(config)
    PROVE  PairedInv'
<1>1. DOMAIN conveyors' = DOMAIN config /\ DOMAIN config \subseteq ConveyorId
  BY ConfigurationAssumption DEF Configured
<1>2. ASSUME NEW c \in DOMAIN config, NEW d \in DOMAIN config,
             NEW l \in LocationsTo(conveyors', c, d)
      PROVE  conveyors'[c].connections[l].type = TypeTowards(c, d)
  <2>1. l \in Location /\ conveyors'[c].connections[l].to = d
    BY DEF LocationsTo
  <2>2. conveyors'[c].connections = ConnectionsOf(config, c)
    BY DEF Configured, NoConveyor
  <2>3. d # EMPTY_CONVEYOR_ID
    BY <1>1, ConveyorAssumption DEF EMPTY_CONVEYOR_ID
  <2>4. EntriesAt(config[c], l) # {}
    BY <2>1, <2>2, <2>3 DEF ConnectionsOf, NoConnection
  <2>5. conveyors'[c].connections[l].type = ConnectionType(config, c, d)
    BY <2>1, <2>2, <2>4 DEF ConnectionsOf
  <2> QED
    BY <2>5 DEF ConnectionType, TypeTowards
<1>3. \A c, d \in DOMAIN config :
         LocationsTo(conveyors', c, d) # {} => LocationsTo(conveyors', d, c) # {}
  BY DEF SymmetricConfigurations
<1>4. ASSUME NEW c \in DOMAIN conveyors', NEW d \in DOMAIN conveyors'
      PROVE  /\ \A l \in LocationsTo(conveyors', c, d) :
                   conveyors'[c].connections[l].type = TypeTowards(c, d)
             /\ LocationsTo(conveyors', c, d) # {}
                   => LocationsTo(conveyors', d, c) # {}
  BY <1>1, <1>2, <1>3
<1> QED
  BY <1>4 DEF PairedInv

LEMMA QuietKeepsLinks ==
    ASSUME Quiet
    PROVE  LinksKept
BY DEF Quiet, LinksKept

LEMMA PairedInvInductive ==
    ASSUME SymmetricConfigurations, LinksInv, PairedInv, [Next]_vars
    PROVE  PairedInv'
<1>1. SystemInv /\ SystemOK /\ ToldOK
  BY DEF LinksInv, SystemInv
<1>2. ASSUME NEW config \in Configurations, set_state(config)
      PROVE  PairedInv'
  BY <1>2, ConfigurationPaired DEF set_state
<1>3. ASSUME NEW c \in ConveyorId, NEW b \in BoxId, NEW location \in BoxLocations,
             \/ add_destination_box(c, b, location)
             \/ add_destination_box_crashes(c, b, location)
      PROVE  PairedInv'
  <2>1. RoomForBox(c, location) /\ ConnectBox(c, b, location)
    BY <1>3 DEF add_destination_box, add_destination_box_crashes
  <2>2. LinksKept
    BY <1>1, <2>1, BoxKeepsLinks
  <2> QED
    BY <1>1, <2>2, KeptLinksPaired
<1>4. ASSUME Quiet
      PROVE  PairedInv'
  BY <1>1, <1>4, QuietKeepsLinks, KeptLinksPaired
<1> QED
  BY <1>1, <1>2, <1>3, <1>4, KindsOfSteps,
     OtherStepsAreQuiet

(* What was told of the links pairs masters with slaves.                   *)
LEMMA PairedIsTold ==
    ASSUME LinksInv, PairedInv
    PROVE  MasterSlavePaired
<1>1. DOMAIN conveyors \subseteq ConveyorId /\ ToldMatchesConveyors
  BY DEF LinksInv, SystemInv, SystemOK
<1>2. ASSUME NEW c \in DOMAIN conveyors, NEW d \in DOMAIN conveyors
      PROVE  /\ LocationsTo(conveyors, c, d) = {} => LinksTold(c, d) = {}
             /\ LocationsTo(conveyors, c, d) # {}
                   => LinksTold(c, d) = {TypeTowards(c, d)}
  <2>1. told[c].connections = conveyors[c].connections
    BY <1>1 DEF ToldMatchesConveyors
  <2>2. LinksTold(c, d) = {conveyors[c].connections[l].type :
                              l \in LocationsTo(conveyors, c, d)}
    BY <2>1 DEF LinksTold, LocationsTo
  <2>3. \A l \in LocationsTo(conveyors, c, d) :
           conveyors[c].connections[l].type = TypeTowards(c, d)
    BY DEF PairedInv
  <2> QED
    BY <2>2, <2>3
<1>3. ASSUME NEW c \in DOMAIN conveyors, NEW d \in DOMAIN conveyors, c # d
      PROVE  \/ LinksTold(c, d) = {} /\ LinksTold(d, c) = {}
             \/ {LinksTold(c, d), LinksTold(d, c)} = {{"MASTER"}, {"SLAVE"}}
  <2>1. LocationsTo(conveyors, c, d) # {} <=> LocationsTo(conveyors, d, c) # {}
    BY DEF PairedInv
  <2>2. CASE LocationsTo(conveyors, c, d) = {}
    BY <1>2, <2>1, <2>2
  <2>3. CASE LocationsTo(conveyors, c, d) # {}
    <3>1. /\ LinksTold(c, d) = {TypeTowards(c, d)}
          /\ LinksTold(d, c) = {TypeTowards(d, c)}
      BY <1>2, <2>1, <2>3
    <3>2. /\ KeyRank[c] \in Nat
          /\ KeyRank[d] \in Nat
          /\ KeyRank[c] # KeyRank[d]
      BY <1>1, <1>3, ConveyorAssumption
    <3>3. \/ TypeTowards(c, d) = "MASTER" /\ TypeTowards(d, c) = "SLAVE"
          \/ TypeTowards(c, d) = "SLAVE" /\ TypeTowards(d, c) = "MASTER"
      BY <3>2 DEF TypeTowards
    <3> QED
      BY <3>1, <3>3
  <2> QED
    BY <2>2, <2>3
<1> QED
  BY <1>3 DEF MasterSlavePaired

(* Of two linked conveyors one was told that it is the master, the other   *)
(* that it is the slave, for any number and order of keys                  *)
(* (ConveyorSystem.cpp:23-48, 57-75).                                      *)
THEOREM MasterSlavePairedHolds ==
    ASSUME SymmetricConfigurations
    PROVE  Spec => []MasterSlavePaired
<1>1. Init => LinksInv /\ PairedInv
  BY LinksInvInitially DEF Init, PairedInv
<1>2. LinksInv /\ PairedInv /\ [Next]_vars => (LinksInv /\ PairedInv)'
  BY LinksInvInductive, PairedInvInductive
<1>3. LinksInv /\ PairedInv => MasterSlavePaired
  BY PairedIsTold
<1> QED
  BY <1>1, <1>2, <1>3, PTL DEF Spec

------------------------------------------------------------------------------
(* The routes to a box *)

(* Each conveyor on the way to a box was told the next one. *)
RouteTold(c, path, n) ==
    /\ Route(conveyors, c, path, n)
    /\ \A k \in 1 .. n + 1 :
          told[path[k]].routes[conveyors[c].box.id] = NextOn(path, n, k)

(* While the program runs the conveyors on some path to each box know it.  *)
RoutesInv ==
    ~crashed => \A c \in DOMAIN conveyors : HasBox(c) =>
        /\ conveyors[c].box.id \in BoxId
        /\ \E path, n : RouteTold(c, path, n)

LEMMA KeptRoutes ==
    ASSUME LinksKept, NEW c, NEW path, NEW n, Route(conveyors, c, path, n)
    PROVE  Route(conveyors', c, path, n)
<1>1. DOMAIN conveyors' = DOMAIN conveyors
  BY DEF LinksKept
<1>2. ASSUME NEW d \in DOMAIN conveyors
      PROVE  {conveyors'[d].connections[l].to : l \in Location}
                 \intersect ConveyorId
             = {conveyors[d].connections[l].to : l \in Location}
                   \intersect ConveyorId
  <2>1. ASSUME NEW e \in ConveyorId, NEW l \in Location
        PROVE  conveyors'[d].connections[l].to = e
                   <=> conveyors[d].connections[l].to = e
    BY DEF LinksKept
  <2> QED
    BY <2>1
<1>3. Graph(conveyors') = Graph(conveyors)
  BY <1>1, <1>2 DEF Graph
<1> QED
  BY <1>1, <1>3 DEF Route

(* A box that stays where it is stays reachable while nothing else is said *)
(* of the routes to it.                                                    *)
LEMMA SameRoute ==
    ASSUME LinksInv, LinksKept, RoutesInv, ~crashed,
           NEW c \in DOMAIN conveyors, HasBox(c),
           conveyors'[c].box.id = conveyors[c].box.id,
           \A d \in ConveyorId : told'[d].routes[conveyors[c].box.id]
                                     = told[d].routes[conveyors[c].box.id]
    PROVE  /\ conveyors'[c].box.id \in BoxId
           /\ \E path, n : RouteTold(c, path, n)'
<1>1. PICK path, n : RouteTold(c, path, n)
  BY DEF RoutesInv
<1>2. Route(conveyors, c, path, n)
  BY <1>1 DEF RouteTold
<1>3. Route(conveyors', c, path, n)
  BY <1>2, KeptRoutes
<1>4. \A k \in 1 .. n + 1 : path[k] \in ConveyorId
  BY <1>2 DEF Route, LinksInv, SystemInv, SystemOK
<1>5. \A k \in 1 .. n + 1 :
         told'[path[k]].routes[conveyors'[c].box.id] = NextOn(path, n, k)
  BY <1>1, <1>4 DEF RouteTold
<1>6. RouteTold(c, path, n)'
  BY <1>3, <1>5 DEF RouteTold
<1> QED
  BY <1>6 DEF RoutesInv

LEMMA NewBoxRoute ==
    ASSUME LinksInv, RoutesInv,
           NEW c \in ConveyorId, NEW b \in BoxId, NEW location \in BoxLocations,
           Holders(b) = {}, add_destination_box(c, b, location)
    PROVE  RoutesInv'
<1>1. SystemInv /\ SystemOK
  BY DEF LinksInv, SystemInv
<1>2. /\ RoomForBox(c, location)
      /\ ConnectBox(c, b, location)
      /\ ~crashed
  BY DEF add_destination_box
<1>3. PICK path \in calculate_routing_plan(conveyors', c) :
         Send(<<BoxConnect(c, b, location)>> \o RoutingMessages(b, path),
              <<AddBoxResponse(b, c, TRUE)>>)
  BY DEF add_destination_box
<1>4. LinksKept
  BY <1>1, <1>2, BoxKeepsLinks
<1>5. DOMAIN conveyors' = DOMAIN conveyors /\ DOMAIN conveyors \subseteq ConveyorId
  BY <1>1, <1>4 DEF SystemOK, LinksKept
<1>6. PICK n : Route(conveyors', c, path, n)
  BY <1>5, CalculatedRoute
<1>7. /\ n \in Nat
      /\ path \in [1 .. n + 1 -> DOMAIN conveyors']
      /\ \A j, k \in 1 .. n + 1 : path[j] = path[k] => j = k
  BY <1>6 DEF Route
<1> DEFINE msgs == NewBoxMessages(c, b, location, path)
<1>8. Told(msgs)
  BY <1>3 DEF Send, NewBoxMessages
<1>9. SaidOfNewBox(c, b, location, path, n, told, msgs)
  BY <1>7, RoutesOfNewBox
<1> HIDE DEF msgs
<1>10. ASSUME NEW d \in ConveyorId, NEW e \in BoxId
       PROVE  told'[d].routes[e] = RouteLearned(told, msgs, d, e)
  <2>1. told'[d].routes = [x \in BoxId |-> RouteLearned(told, msgs, d, x)]
    BY <1>8, LearnedAt
  <2> QED
    BY <2>1
<1>11. /\ conveyors'[c].box.id = b
       /\ c \in DOMAIN conveyors
       /\ \A d \in DOMAIN conveyors : d # c => conveyors'[d] = conveyors[d]
  <2>1. conveyors'[c].box.id = b
    BY <1>1, <1>2, BoxLinks
  <2>2. c \in DOMAIN conveyors
    BY <1>1, <1>2, BoxLinks
  <2>3. \A d \in DOMAIN conveyors : d # c => conveyors'[d] = conveyors[d]
    BY <1>1, <1>2, BoxLinks
  <2> QED
    BY <2>1, <2>2, <2>3
<1>12. \E p, m : RouteTold(c, p, m)'
  <2>1. ASSUME NEW k \in 1 .. n + 1
        PROVE  told'[path[k]].routes[b] = NextOn(path, n, k)
    <3>1. path[k] \in ConveyorId
      BY <1>5, <1>7
    <3>2. RouteLearned(told, msgs, path[k], b) = NextOn(path, n, k)
      BY <1>9 DEF SaidOfNewBox
    <3> QED
      BY <1>10, <3>1, <3>2
  <2>2. RouteTold(c, path, n)'
    BY <1>6, <1>11, <2>1 DEF RouteTold
  <2> QED
    BY <2>2
<1>13. ASSUME NEW d \in DOMAIN conveyors', HasBox(d)', d # c
       PROVE  /\ conveyors'[d].box.id \in BoxId
              /\ \E p, m : RouteTold(d, p, m)'
  <2>1. d \in DOMAIN conveyors /\ conveyors'[d] = conveyors[d]
    BY <1>5, <1>11, <1>13
  <2>2. HasBox(d)
    BY <1>13, <2>1 DEF HasBox
  <2>3. conveyors[d].box.id \in BoxId /\ conveyors[d].box.id # b
    BY <1>2, <2>1, <2>2 DEF RoutesInv, Holders
  <2>4. ASSUME NEW x \in ConveyorId
        PROVE  told'[x].routes[conveyors[d].box.id]
                   = told[x].routes[conveyors[d].box.id]
    <3>1. RouteLearned(told, msgs, x, conveyors[d].box.id)
             = told[x].routes[conveyors[d].box.id]
      BY <1>9, <2>3 DEF SaidOfNewBox
    <3> QED
      BY <1>10, <2>3, <3>1
  <2> QED
    BY <1>2, <1>4, <2>1, <2>2, <2>4, SameRoute
<1>14. ASSUME NEW d \in DOMAIN conveyors', HasBox(d)'
       PROVE  /\ conveyors'[d].box.id \in BoxId
              /\ \E p, m : RouteTold(d, p, m)'
  BY <1>11, <1>12, <1>13, <1>14
<1> QED
  BY <1>14 DEF RoutesInv

(* A new configuration has no boxes. *)
LEMMA NoBoxNoRoute ==
    ASSUME NEW config \in Configurations, set_state(config)
    PROVE  RoutesInv'
<1>1. conveyors' = Configured(config)
  BY DEF set_state
<1>2. \A c \in DOMAIN conveyors' : conveyors'[c].box = NewBox
  BY <1>1 DEF Configured, NoConveyor
<1>3. \A c \in DOMAIN conveyors' : ~HasBox(c)'
  BY <1>2 DEF HasBox, is_initialized, NewBox
<1> QED
  BY <1>3 DEF RoutesInv

LEMMA QuietKeepsRoutes ==
    ASSUME LinksInv, RoutesInv, Quiet
    PROVE  RoutesInv'
<1> SUFFICES ASSUME ~crashed', NEW c \in DOMAIN conveyors', HasBox(c)'
             PROVE  /\ conveyors'[c].box.id \in BoxId
                    /\ \E path, n : RouteTold(c, path, n)'
  BY DEF RoutesInv
<1>1. LinksKept
  BY QuietKeepsLinks
<1>2. /\ ~crashed
      /\ c \in DOMAIN conveyors
      /\ HasBox(c)
      /\ conveyors'[c].box.id = conveyors[c].box.id
      /\ told' = told
  BY DEF Quiet, HasBox
<1> QED
  BY <1>1, <1>2, SameRoute

LEMMA RoutesInvInductive ==
    ASSUME ~ClientReusesIds, LinksInv, RoutesInv, [Next]_vars
    PROVE  RoutesInv'
<1>1. SystemInv /\ ToldOK
  BY DEF LinksInv
<1>2. ASSUME NEW config \in Configurations, set_state(config)
      PROVE  RoutesInv'
  BY <1>2, NoBoxNoRoute
<1>3. ASSUME NEW c \in ConveyorId, NEW b \in BoxId, NEW location \in BoxLocations,
             add_destination_box(c, b, location)
      PROVE  RoutesInv'
  <2>1. Holders(b) = {}
    BY <1>3 DEF add_destination_box, FreshBox, box_available
  <2> QED
    BY <1>3, <2>1, NewBoxRoute
<1>4. ASSUME NEW c \in ConveyorId, NEW b \in BoxId, NEW location \in BoxLocations,
             add_destination_box_crashes(c, b, location)
      PROVE  RoutesInv'
  BY <1>4 DEF add_destination_box_crashes, RoutesInv
<1>5. ASSUME Quiet
      PROVE  RoutesInv'
  BY <1>5, QuietKeepsRoutes
<1> QED
  BY <1>1, <1>2, <1>3, <1>4, <1>5, KindsOfSteps, OtherStepsAreQuiet

(* Each conveyor on a path from the input conveyor knows the next one. *)
Leads(knows, b, path, n) ==
    /\ n \in Nat
    /\ path \in [1 .. n + 1 -> ConveyorId]
    /\ path[1] = INPUT_CONVEYOR_ID
    /\ \A k \in 1 .. n + 1 : knows[path[k]].routes[b] = NextOn(path, n, k)

(* Where a package is after some hops when the conveyors on a path were    *)
(* told the next one each: so far along the path, or at its end.           *)
LEMMA FollowsPath ==
    ASSUME NEW knows, NEW b, NEW path, NEW n, Leads(knows, b, path, n),
           NEW k \in Nat
    PROVE  ReachedAfter(knows, b, k) = path[IF k <= n THEN k + 1 ELSE n + 1]
<1> DEFINE on == [j \in Nat |-> path[IF j <= n THEN j + 1 ELSE n + 1]]
           hops(f) == [j \in Nat |-> IF j = 0 THEN INPUT_CONVEYOR_ID
                                     ELSE Hop(knows, f[j - 1], b)]
           at == CHOOSE f : f = hops(f)
<1>1. /\ n \in Nat
      /\ path[1] = INPUT_CONVEYOR_ID
      /\ path \in [1 .. n + 1 -> ConveyorId]
      /\ \A j \in 1 .. n + 1 : knows[path[j]].routes[b] = NextOn(path, n, j)
  BY DEF Leads
<1>2. ASSUME NEW j \in 1 .. n + 1
      PROVE  Hop(knows, path[j], b) = NextOn(path, n, j)
  <2>1. path[j] \in ConveyorId
    BY <1>1
  <2>2. path[j] # NoRoute
    BY <2>1, ConveyorAssumption DEF NoRoute
  <2> QED
    BY <1>1, <2>2 DEF Hop
<1>3. ASSUME NEW j \in Nat, j # 0
      PROVE  Hop(knows, on[j - 1], b) = on[j]
  <2>1. j - 1 \in Nat
    BY <1>3
  <2>2. CASE j <= n + 1
    <3>1. j \in 1 .. n + 1 /\ j - 1 <= n /\ (j - 1) + 1 = j
      BY <1>1, <1>3, <2>2
    <3>2. on[j - 1] = path[j]
      BY <2>1, <3>1
    <3>3. Hop(knows, on[j - 1], b) = NextOn(path, n, j)
      BY <1>2, <3>1, <3>2
    <3>4. on[j] = NextOn(path, n, j)
      <4>1. CASE j = n + 1
        <5>1. ~(j <= n)
          BY <1>1, <4>1
        <5> QED
          BY <4>1, <5>1 DEF NextOn
      <4>2. CASE j # n + 1
        <5>1. j <= n
          BY <1>1, <2>2, <4>2
        <5> QED
          BY <4>2, <5>1 DEF NextOn
      <4> QED
        BY <4>1, <4>2
    <3> QED
      BY <3>3, <3>4
  <2>3. CASE ~(j <= n + 1)
    <3>1. ~(j <= n) /\ ~(j - 1 <= n)
      BY <1>1, <2>3
    <3>2. on[j - 1] = path[n + 1] /\ on[j] = path[n + 1]
      BY <2>1, <3>1
    <3>3. n + 1 \in 1 .. n + 1
      BY <1>1
    <3>4. Hop(knows, path[n + 1], b) = NextOn(path, n, n + 1)
      BY <1>2, <3>3
    <3> QED
      BY <3>2, <3>4 DEF NextOn
  <2> QED
    BY <2>2, <2>3
<1>4. on[0] = INPUT_CONVEYOR_ID
  <2>1. 0 <= n /\ 0 + 1 = 1
    BY <1>1
  <2> QED
    BY <1>1, <2>1
<1>5. on = [j \in Nat |-> on[j]]
  OBVIOUS
<1> HIDE DEF on
<1>6. on = hops(on)
  BY <1>3, <1>4, <1>5
<1>7. at = hops(at)
  BY <1>6, Zenon
<1> HIDE DEF at
<1>8. /\ at[0] = INPUT_CONVEYOR_ID
      /\ \A j \in Nat : j # 0 => at[j] = Hop(knows, at[j - 1], b)
  BY <1>7
<1>9. \A j \in Nat : at[j] = on[j]
  <2> DEFINE bad == {j \in Nat : at[j] # on[j]}
  <2> SUFFICES ASSUME bad # {} PROVE FALSE
    OBVIOUS
  <2>1. bad \in SUBSET Nat
    OBVIOUS
  <2>2. PICK m \in bad : \A j \in bad : m <= j
    BY <2>1, MinIsMember
  <2>3. m \in Nat /\ at[m] # on[m]
    OBVIOUS
  <2>4. m # 0
    BY <1>4, <1>8, <2>3
  <2>5. m - 1 \in Nat /\ ~(m <= m - 1)
    BY <2>3, <2>4
  <2>6. at[m - 1] = on[m - 1]
    BY <2>2, <2>5
  <2> QED
    BY <1>3, <1>8, <2>3, <2>4, <2>6
<1>10. ReachedAfter(knows, b, k) = at[k]
  BY DEF ReachedAfter, at
<1> QED
  BY <1>9, <1>10 DEF on

LEMMA RoutesAreRoutable ==
    ASSUME LinksInv, RoutesInv
    PROVE  BoxesAreRoutable
<1> DEFINE N == Cardinality(ConveyorId)
<1>1. N \in Nat
  BY ConveyorAssumption, FS_CardinalityType
<1>2. DOMAIN conveyors \subseteq ConveyorId
  BY DEF LinksInv, SystemInv, SystemOK
<1> HIDE DEF N
<1>3. ASSUME ~crashed, NEW c \in DOMAIN conveyors, HasBox(c), NEW b,
             b = conveyors[c].box.id
      PROVE  /\ ReachedAfter(told, b, N) = c
             /\ \A k \in 0 .. N - 1 :
                   ReachedAfter(told, b, k) # ReachedAfter(told, b, k + 1) =>
                       ReachedAfter(told, b, k + 1)
                           \in Graph(conveyors)[ReachedAfter(told, b, k)]
  <2>1. PICK path, n : RouteTold(c, path, n)
    BY <1>3 DEF RoutesInv
  <2>2. /\ Route(conveyors, c, path, n)
        /\ \A k \in 1 .. n + 1 : told[path[k]].routes[b] = NextOn(path, n, k)
    BY <1>3, <2>1 DEF RouteTold
  <2>3. /\ n \in Nat
        /\ n <= N
        /\ path[n + 1] = c
        /\ \A k \in 1 .. n : path[k + 1] \in Graph(conveyors)[path[k]]
    BY <2>2 DEF Route, N
  <2>4. ASSUME NEW k \in Nat
        PROVE  /\ k <= n => ReachedAfter(told, b, k) = path[k + 1]
               /\ ~(k <= n) => ReachedAfter(told, b, k) = path[n + 1]
    <3>1. Leads(told, b, path, n)
      BY <1>2, <2>2, <2>3 DEF Route, Leads
    <3>2. ReachedAfter(told, b, k) = path[IF k <= n THEN k + 1 ELSE n + 1]
      BY <3>1, FollowsPath
    <3> QED
      BY <3>2
  <2>5. ReachedAfter(told, b, N) = c
    <3>1. CASE N <= n
      <4>1. N = n
        BY <1>1, <2>3, <3>1
      <4> QED
        BY <1>1, <2>3, <2>4, <3>1, <4>1
    <3>2. CASE ~(N <= n)
      BY <1>1, <2>3, <2>4, <3>2
    <3> QED
      BY <3>1, <3>2
  <2>6. ASSUME NEW k \in 0 .. N - 1,
               ReachedAfter(told, b, k) # ReachedAfter(told, b, k + 1)
        PROVE  ReachedAfter(told, b, k + 1)
                  \in Graph(conveyors)[ReachedAfter(told, b, k)]
    <3>1. k \in Nat /\ k + 1 \in Nat
      BY <1>1
    <3>2. CASE k + 1 <= n
      <4>1. k + 1 \in 1 .. n /\ k <= n
        BY <2>3, <3>1, <3>2
      <4>2. /\ ReachedAfter(told, b, k) = path[k + 1]
            /\ ReachedAfter(told, b, k + 1) = path[(k + 1) + 1]
        BY <2>4, <3>1, <3>2, <4>1
      <4> QED
        BY <2>3, <4>1, <4>2
    <3>3. CASE ~(k + 1 <= n)
      <4>1. ReachedAfter(told, b, k + 1) = path[n + 1]
        BY <2>4, <3>1, <3>3
      <4>2. ReachedAfter(told, b, k) = path[n + 1]
        <5>1. CASE k <= n
          <6>1. k = n
            BY <2>3, <3>1, <3>3, <5>1
          <6> QED
            BY <2>4, <3>1, <5>1, <6>1
        <5>2. CASE ~(k <= n)
          BY <2>4, <3>1, <5>2
        <5> QED
          BY <5>1, <5>2
      <4> QED
        BY <2>6, <4>1, <4>2
    <3> QED
      BY <3>2, <3>3
  <2> QED
    BY <2>5, <2>6
<1> QED
  BY <1>3 DEF BoxesAreRoutable, N

(* The routes that the conveyors were told lead to every box, over links   *)
(* that exist, for any layout, when the client does not give two boxes the *)
(* same id (ConveyorSystem.cpp:310-327).                                   *)
THEOREM BoxesAreRoutableHolds ==
    ASSUME ~ClientReusesIds
    PROVE  Spec => []BoxesAreRoutable
<1>1. Init => LinksInv /\ RoutesInv
  BY LinksInvInitially DEF Init, RoutesInv
<1>2. LinksInv /\ RoutesInv /\ [Next]_vars => (LinksInv /\ RoutesInv)'
  BY LinksInvInductive, RoutesInvInductive
<1>3. LinksInv /\ RoutesInv => BoxesAreRoutable
  BY RoutesAreRoutable
<1> QED
  BY <1>1, <1>2, <1>3, PTL DEF Spec
===============================================================================
