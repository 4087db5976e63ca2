------------------------- MODULE ConveyorSystemProofs -------------------------
(***************************************************************************)
(* Theorems of ConveyorSystem for any conveyors, boxes and packages, any   *)
(* box size and any set of configurations: what is in the boxes, when the  *)
(* system refuses a package, and that it implements PackageTracking.       *)
(***************************************************************************)
EXTENDS ConveyorSystem, FiniteSetTheorems, WellFoundedInduction, TLAPS

------------------------------------------------------------------------------
(* The inductive invariant *)

(* The capacity and the colours are inductive with one more fact: the sets *)
(* are finite.  When packages have real colours a box of no colour is      *)
(* empty.  A package that is sent with the number of NONE leaves its box   *)
(* without a colour, one with the number of INVALID takes the box away.    *)
BoxInv(box) ==
    /\ box \in Box
    /\ IsFiniteSet(box.packages_stored)
    /\ IsFiniteSet(box.packages_transit)
    /\ Occupancy(box) <= DESTINATION_BOX_SIZE
    /\ RealColours => \A p \in Contents(box) : ColourOf[p] = box.package_type

SystemInv ==
    /\ SystemOK
    /\ \A c \in DOMAIN conveyors : BoxInv(conveyors[c].box)

------------------------------------------------------------------------------
(* Lemmas: least and greatest elements *)

(* A nonempty set of naturals has a least element, and Min is one: the     *)
(* search of the conveyors in the order of their ids finds a conveyor.     *)
LEMMA MinIsMember ==
    ASSUME NEW S \in SUBSET Nat, S # {}
    PROVE  Min(S) \in S /\ \A c \in S : Min(S) <= c
<1> DEFINE less == {pair \in Nat \X Nat : pair[1] < pair[2]}
<1>1. IsWellFoundedOn(less, Nat)
  BY NatLessThanWellFounded, Zenon DEF OpToRel
<1>2. PICK m \in S : \A c \in S : <<c, m>> \notin less
  BY <1>1, WFMin, Zenon
<1>3. ASSUME NEW c \in S
      PROVE  m =< c
  <2>1. <<c, m>> \in Nat \X Nat /\ <<c, m>> \notin less
    BY <1>2
  <2>2. ~ (c < m)
    BY <2>1
  <2>3. c \in Nat /\ m \in Nat
    OBVIOUS
  <2> HIDE DEF less
  <2> QED
    BY <2>2, <2>3
<1> HIDE DEF less
<1> QED
  BY <1>3 DEF Min

(* Max of a nonempty set of indices is one of them: the last entry of a    *)
(* configuration for a location.                                           *)
LEMMA MaxIsMember ==
    ASSUME NEW n \in Nat, NEW S \in SUBSET (1 .. n), S # {}
    PROVE  Max(S) \in S /\ \A i \in S : i <= Max(S)
<1> DEFINE T == {n - i : i \in S}
<1>1. T \in SUBSET Nat /\ T # {}
  <2>1. ASSUME NEW i \in S
        PROVE  n - i \in Nat
    OBVIOUS
  <2> QED
    BY <2>1
<1>2. Min(T) \in T /\ \A t \in T : Min(T) <= t
  BY <1>1, MinIsMember
<1>3. PICK m \in S : Min(T) = n - m
  BY <1>2
<1>4. ASSUME NEW i \in S
      PROVE  m >= i
  <2>1. n - m <= n - i
    BY <1>2, <1>3
  <2>2. n \in Int /\ m \in Int /\ i \in Int
    OBVIOUS
  <2> QED
    BY <2>1, <2>2
<1> QED
  BY <1>4 DEF Max

------------------------------------------------------------------------------
(* Lemmas: the operations of a box *)

LEMMA NewBoxInv == BoxInv(NewBox)
<1>1. NewBox \in Box
  BY DEF NewBox, Box, BoxType
<1>2. Contents(NewBox) = {} /\ Occupancy(NewBox) = 0
  BY FS_EmptySet DEF NewBox, Contents, Occupancy
<1> QED
  BY <1>1, <1>2, FS_EmptySet, BoxSizeAssumption DEF BoxInv, NewBox

LEMMA InitializeBoxInv ==
    ASSUME NEW box, BoxInv(box), NEW b \in BoxId
    PROVE  BoxInv(initialize_box(box, b))
<1>1. CASE is_initialized(box)
  BY <1>1 DEF initialize_box
<1>2. CASE ~is_initialized(box)
  <2> DEFINE new == [box EXCEPT !.package_type = "NONE", !.id = b]
  <2>1. initialize_box(box, b) = new
    BY <1>2 DEF initialize_box
  <2>2. new \in Box
    BY DEF BoxInv, Box, BoxType
  <2>3. /\ new.packages_stored = box.packages_stored
        /\ new.packages_transit = box.packages_transit
        /\ new.package_type = "NONE"
    BY DEF BoxInv, Box
  <2>4. RealColours => Contents(box) = {}
    <3> SUFFICES ASSUME RealColours, NEW p \in Contents(box)
                 PROVE  FALSE
      OBVIOUS
    <3>1. p \in PackageId /\ ColourOf[p] = box.package_type
      BY DEF BoxInv, Box, Contents
    <3> QED
      BY <1>2, <3>1 DEF is_initialized, RealColours, PackageType
  <2> HIDE DEF new
  <2> QED
    BY <2>1, <2>2, <2>3, <2>4 DEF BoxInv, Contents, Occupancy
<1> QED
  BY <1>1, <1>2

(* A box that takes a package of a real colour holds that colour only. *)
LEMMA SameColour ==
    ASSUME RealColours, NEW box, BoxInv(box), NEW p,
           adds_package(box, ColourOf[p]), NEW q \in Contents(box)
    PROVE  ColourOf[q] = ColourOf[p]
<1>1. q \in PackageId /\ ColourOf[q] = box.package_type
  BY DEF BoxInv, Box, Contents
<1>2. ColourOf[q] # "NONE"
  BY <1>1 DEF RealColours, PackageType
<1> QED
  BY <1>1, <1>2 DEF adds_package

LEMMA AddPackageInv ==
    ASSUME NEW box, BoxInv(box), NEW p \in PackageId
    PROVE  BoxInv(add_package(box, p, ColourOf[p]))
<1>1. CASE ~adds_package(box, ColourOf[p])
  BY <1>1 DEF add_package
<1>2. CASE adds_package(box, ColourOf[p])
  <2> DEFINE transit == box.packages_transit \union {p}
             new == [box EXCEPT !.package_type = ColourOf[p],
                                !.packages_transit = transit]
  <2>1. add_package(box, p, ColourOf[p]) = new
    BY <1>2 DEF add_package
  <2>2. ColourOf[p] \in BoxType
    BY ColourAssumption
  <2>3. new \in Box
    BY <2>2 DEF BoxInv, Box
  <2>4. /\ new.packages_stored = box.packages_stored
        /\ new.packages_transit = transit
        /\ new.package_type = ColourOf[p]
    BY DEF BoxInv, Box
  <2>5. /\ IsFiniteSet(transit)
        /\ Cardinality(transit) <= Cardinality(box.packages_transit) + 1
    <3>1. /\ IsFiniteSet(box.packages_transit)
          /\ Cardinality(box.packages_transit) \in Nat
      BY FS_CardinalityType DEF BoxInv
    <3>2. /\ IsFiniteSet(transit)
          /\ Cardinality(transit) = IF p \in box.packages_transit
                                   THEN Cardinality(box.packages_transit)
                                   ELSE Cardinality(box.packages_transit) + 1
      BY <3>1, FS_AddElement, Zenon
    <3> HIDE DEF transit
    <3> QED
      BY <3>1, <3>2
  <2>6. Occupancy(new) <= DESTINATION_BOX_SIZE
    <3>1. /\ Cardinality(box.packages_stored) \in Nat
          /\ Cardinality(box.packages_transit) \in Nat
          /\ Cardinality(transit) \in Nat
      BY <2>5, FS_CardinalityType DEF BoxInv
    <3>2. Occupancy(box) < DESTINATION_BOX_SIZE
      BY <1>2 DEF adds_package
    <3>3. Occupancy(new) =
            Cardinality(box.packages_stored) + Cardinality(transit)
      BY <2>4 DEF Occupancy
    <3> HIDE DEF transit, new
    <3> QED
      BY <3>1, <3>2, <3>3, <2>5, BoxSizeAssumption DEF Occupancy
  <2>7. RealColours => \A q \in Contents(new) : ColourOf[q] = ColourOf[p]
    <3> SUFFICES ASSUME RealColours, NEW q \in Contents(new), q # p
                 PROVE  ColourOf[q] = ColourOf[p]
      OBVIOUS
    <3>1. q \in Contents(box)
      BY <2>4 DEF Contents
    <3> QED
      BY <1>2, <3>1, SameColour
  <2> HIDE DEF new, transit
  <2> QED
    BY <2>1, <2>2, <2>3, <2>4, <2>5, <2>6, <2>7 DEF BoxInv
<1> QED
  BY <1>1, <1>2

LEMMA PackageReceivedInv ==
    ASSUME NEW box, BoxInv(box), NEW p \in PackageId
    PROVE  BoxInv(package_received(box, p))
<1>1. CASE ~(is_initialized(box) /\ has_package_in_transit(box, p))
  BY <1>1 DEF package_received
<1>2. CASE is_initialized(box) /\ has_package_in_transit(box, p)
  <2> DEFINE transit == box.packages_transit \ {p}
             stored == box.packages_stored \union {p}
             new == [box EXCEPT !.packages_transit = transit,
                                !.packages_stored = stored]
  <2>1. package_received(box, p) = new
    BY <1>2 DEF package_received
  <2>2. new \in Box
    BY DEF BoxInv, Box
  <2>3. /\ new.packages_stored = stored
        /\ new.packages_transit = transit
        /\ new.package_type = box.package_type
    BY DEF BoxInv, Box
  <2>4. p \in box.packages_transit
    BY <1>2 DEF has_package_in_transit
  <2>5. /\ IsFiniteSet(transit)
        /\ Cardinality(transit) = Cardinality(box.packages_transit) - 1
    BY <2>4, FS_RemoveElement DEF BoxInv
  <2>6. /\ IsFiniteSet(stored)
        /\ Cardinality(stored) <= Cardinality(box.packages_stored) + 1
    <3>1. /\ IsFiniteSet(box.packages_stored)
          /\ Cardinality(box.packages_stored) \in Nat
      BY FS_CardinalityType DEF BoxInv
    <3>2. /\ IsFiniteSet(stored)
          /\ Cardinality(stored) = IF p \in box.packages_stored
                                   THEN Cardinality(box.packages_stored)
                                   ELSE Cardinality(box.packages_stored) + 1
      BY <3>1, FS_AddElement, Zenon
    <3> HIDE DEF stored
    <3> QED
      BY <3>1, <3>2
  <2>7. Occupancy(new) <= DESTINATION_BOX_SIZE
    <3>1. /\ Cardinality(box.packages_stored) \in Nat
          /\ Cardinality(box.packages_transit) \in Nat
          /\ Cardinality(transit) \in Nat
          /\ Cardinality(stored) \in Nat
      BY <2>5, <2>6, FS_CardinalityType DEF BoxInv
    <3>2. Occupancy(new) = Cardinality(stored) + Cardinality(transit)
      BY <2>3 DEF Occupancy
    <3>3. Occupancy(box) <= DESTINATION_BOX_SIZE
      BY DEF BoxInv
    <3> HIDE DEF transit, stored, new
    <3> QED
      BY <3>1, <3>2, <3>3, <2>5, <2>6, BoxSizeAssumption DEF Occupancy
  <2>8. Contents(new) = Contents(box)
    BY <2>3, <2>4 DEF Contents
  <2> HIDE DEF new, transit, stored
  <2> QED
    BY <2>1, <2>2, <2>3, <2>5, <2>6, <2>7, <2>8 DEF BoxInv
<1> QED
  BY <1>1, <1>2

(* Taking packages out of a box: clears and removals. *)
LEMMA ShrinkInv ==
    ASSUME NEW box, BoxInv(box), NEW new \in Box,
           new.packages_stored \subseteq box.packages_stored,
           new.packages_transit \subseteq box.packages_transit,
           new.package_type = box.package_type
    PROVE  BoxInv(new)
<1>1. /\ IsFiniteSet(new.packages_stored)
      /\ Cardinality(new.packages_stored) <= Cardinality(box.packages_stored)
  BY FS_Subset DEF BoxInv
<1>2. /\ IsFiniteSet(new.packages_transit)
      /\ Cardinality(new.packages_transit) <= Cardinality(box.packages_transit)
  BY FS_Subset DEF BoxInv
<1>3. Occupancy(new) <= DESTINATION_BOX_SIZE
  <2>1. /\ Cardinality(new.packages_stored) \in Nat
        /\ Cardinality(new.packages_transit) \in Nat
        /\ Cardinality(box.packages_stored) \in Nat
        /\ Cardinality(box.packages_transit) \in Nat
    BY <1>1, <1>2, FS_CardinalityType DEF BoxInv
  <2> QED
    BY <2>1, <1>1, <1>2, BoxSizeAssumption DEF BoxInv, Occupancy
<1>4. Contents(new) \subseteq Contents(box)
  BY DEF Contents
<1> QED
  BY <1>1, <1>2, <1>3, <1>4 DEF BoxInv

LEMMA ClearBoxInv ==
    ASSUME NEW box, BoxInv(box), NEW removed \in SUBSET PackageId
    PROVE  BoxInv(clear_box(box, removed))
<1>1. box \in Box
  BY DEF BoxInv
<1>2. /\ clear_box(box, removed) \in Box
      /\ clear_box(box, removed).packages_stored \subseteq box.packages_stored
      /\ clear_box(box, removed).packages_transit
            \subseteq box.packages_transit
      /\ clear_box(box, removed).package_type = box.package_type
  BY <1>1 DEF clear_box, Box
<1> QED
  BY <1>2, ShrinkInv

LEMMA RemovePackageInv ==
    ASSUME NEW box, BoxInv(box), NEW p
    PROVE  BoxInv(remove_package(box, p))
<1>1. box \in Box
  BY DEF BoxInv
<1>2. /\ remove_package(box, p) \in Box
      /\ remove_package(box, p).packages_stored \subseteq box.packages_stored
      /\ remove_package(box, p).packages_transit
            \subseteq box.packages_transit
      /\ remove_package(box, p).package_type = box.package_type
  BY <1>1 DEF remove_package, Box
<1> QED
  BY <1>2, ShrinkInv

------------------------------------------------------------------------------
(* Lemmas: the system *)

LEMMA FindBoxIsHolder ==
    ASSUME SystemInv, NEW b, box_available(b)
    PROVE  /\ find_box(b) \in DOMAIN conveyors
           /\ find_box(b) \in ConveyorId
<1>1. Holders(b) \in SUBSET Nat /\ Holders(b) # {}
  BY ConveyorAssumption DEF SystemInv, SystemOK, Holders, box_available
<1>2. Min(Holders(b)) \in Holders(b)
  BY <1>1, MinIsMember
<1> QED
  BY <1>2 DEF find_box, box_available, Holders, SystemInv, SystemOK

(* One box changes and its new value satisfies the box invariant. *)
LEMMA UpdateInv ==
    ASSUME SystemInv, NEW c \in DOMAIN conveyors, NEW box, BoxInv(box),
           conveyors' = WithBox(c, box)
    PROVE  SystemInv'
<1>1. PICK S \in SUBSET ConveyorId : conveyors \in [S -> Conveyor]
  BY DEF SystemInv, SystemOK
<1>2. box \in Box
  BY DEF BoxInv
<1>3. conveyors' \in [S -> Conveyor]
  BY <1>1, <1>2 DEF WithBox, Conveyor
<1>4. ASSUME NEW d \in DOMAIN conveyors'
      PROVE  conveyors'[d].box =
                IF d = c THEN box ELSE conveyors[d].box
  BY <1>1 DEF WithBox, Conveyor
<1>5. \A d \in DOMAIN conveyors' : BoxInv(conveyors'[d].box)
  BY <1>1, <1>3, <1>4 DEF SystemInv
<1> QED
  BY <1>3, <1>5 DEF SystemInv, SystemOK

(* The links that set_state writes are links. *)
LEMMA ConnectionsTyped ==
    ASSUME NEW config \in Configurations, NEW c \in DOMAIN config
    PROVE  ConnectionsOf(config, c) \in [Location -> Connection]
<1> DEFINE nbrs == config[c]
           to(l) == nbrs[Max(EntriesAt(nbrs, l))]
<1>1. /\ Len(nbrs) \in Nat
      /\ DOMAIN nbrs = 1 .. Len(nbrs)
      /\ \A i \in DOMAIN nbrs : nbrs[i] \in ConveyorId \union {EMPTY_CONVEYOR_ID}
  <2>1. /\ DOMAIN config \subseteq ConveyorId
        /\ nbrs \in Seq(DOMAIN config \union {EMPTY_CONVEYOR_ID})
    BY ConfigurationAssumption
  <2> QED
    BY <2>1
<1>2. ASSUME NEW l \in Location, EntriesAt(nbrs, l) # {}
      PROVE  to(l) \in ConveyorId \union {EMPTY_CONVEYOR_ID}
  <2>1. EntriesAt(nbrs, l) \in SUBSET (1 .. Len(nbrs))
    BY <1>1 DEF EntriesAt
  <2>2. Max(EntriesAt(nbrs, l)) \in DOMAIN nbrs
    BY <2>1, <1>1, <1>2, MaxIsMember
  <2> QED
    BY <2>2, <1>1
<1>3. ConnectionType(config, c, to(0)) \in {"MASTER", "SLAVE"}
  BY DEF ConnectionType
<1>4. ASSUME NEW l \in Location, EntriesAt(nbrs, l) # {}
      PROVE  [to |-> to(l), type |-> ConnectionType(config, c, to(l))]
                \in Connection
  <2>1. ConnectionType(config, c, to(l)) \in {"MASTER", "SLAVE"}
    BY DEF ConnectionType
  <2> QED
    BY <2>1, <1>2, <1>4 DEF Connection
<1>5. NoConnection \in Connection
  BY DEF NoConnection, Connection
<1> QED
  BY <1>4, <1>5 DEF ConnectionsOf

LEMMA SetStateInv ==
    ASSUME NEW config \in Configurations, conveyors' = Configured(config)
    PROVE  SystemInv'
<1>1. NewBox \in Box
  BY NewBoxInv DEF BoxInv
<1>2. ASSUME NEW c \in DOMAIN config
      PROVE  /\ Configured(config)[c] \in Conveyor
             /\ Configured(config)[c].box = NewBox
  BY <1>1, ConnectionsTyped DEF Configured, NoConveyor, Conveyor
<1>3. DOMAIN config \in SUBSET ConveyorId
  BY ConfigurationAssumption
<1>4. Configured(config) \in [DOMAIN config -> Conveyor]
  BY <1>2 DEF Configured
<1> QED
  BY <1>2, <1>3, <1>4, NewBoxInv DEF SystemInv, SystemOK

LEMMA ConnectBoxInv ==
    ASSUME SystemInv, NEW c \in DOMAIN conveyors, NEW b \in BoxId,
           NEW l \in BoxLocations, ConnectBox(c, b, l)
    PROVE  SystemInv'
<1>1. PICK S \in SUBSET ConveyorId : conveyors \in [S -> Conveyor]
  BY DEF SystemInv, SystemOK
<1> DEFINE box == initialize_box(conveyors[c].box, b)
           links == [conveyors[c].connections EXCEPT ![l] = BoxConnection]
<1>2. BoxInv(box)
  BY InitializeBoxInv DEF SystemInv
<1>3. box \in Box /\ links \in [Location -> Connection]
  <2>1. box \in Box
    BY <1>2 DEF BoxInv
  <2>2. BoxConnection \in Connection
    BY DEF BoxConnection, Connection
  <2>3. conveyors[c].connections \in [Location -> Connection]
    BY <1>1 DEF Conveyor
  <2> QED
    BY <2>1, <2>2, <2>3
<1>4. conveyors' = [conveyors EXCEPT ![c] =
                        [connections |-> links, box |-> box]]
  BY <1>1 DEF ConnectBox
<1> HIDE DEF box, links
<1>5. conveyors' \in [S -> Conveyor]
  BY <1>1, <1>3, <1>4 DEF Conveyor
<1>6. ASSUME NEW d \in DOMAIN conveyors'
      PROVE  BoxInv(conveyors'[d].box)
  BY <1>1, <1>2, <1>4 DEF SystemInv
<1> QED
  BY <1>5, <1>6 DEF SystemInv, SystemOK

(* The invariant is inductive.  The actions that leave the conveyors alone *)
(* need no lemma.                                                          *)
LEMMA SystemInvInductive ==
    ASSUME SystemInv, [Next]_vars
    PROVE  SystemInv'
<1>1. ASSUME UNCHANGED conveyors
      PROVE  SystemInv'
  BY <1>1 DEF SystemInv, SystemOK
<1>2. ASSUME NEW config \in Configurations, set_state(config)
      PROVE  SystemInv'
  BY <1>2, SetStateInv DEF set_state
<1>3. ASSUME NEW c \in ConveyorId, NEW b \in BoxId,
             NEW location \in BoxLocations,
             \/ add_destination_box(c, b, location)
             \/ add_destination_box_crashes(c, b, location)
      PROVE  SystemInv'
  <2>1. c \in DOMAIN conveyors /\ ConnectBox(c, b, location)
    BY <1>3 DEF add_destination_box, add_destination_box_crashes, RoomForBox,
                CanHoldBox
  <2> QED
    BY <2>1, ConnectBoxInv
<1>4. ASSUME NEW p \in PackageId, send_package(p)
      PROVE  SystemInv'
  <2> DEFINE c == Min(Candidates(ColourOf[p]))
             box == add_package(conveyors[c].box, p, ColourOf[p])
  <2>1. c \in DOMAIN conveyors
    <3>1. Candidates(ColourOf[p]) \in SUBSET Nat
      BY ConveyorAssumption DEF Candidates, SystemInv, SystemOK
    <3>2. c \in Candidates(ColourOf[p])
      BY <1>4, <3>1, MinIsMember DEF send_package
    <3> QED
      BY <3>2 DEF Candidates
  <2>2. BoxInv(box)
    BY <2>1, AddPackageInv DEF SystemInv
  <2>3. conveyors' = WithBox(c, box)
    BY <1>4 DEF send_package
  <2> HIDE DEF c, box
  <2> QED
    BY <2>1, <2>2, <2>3, UpdateInv
<1>5. ASSUME NEW p \in PackageId, NEW b \in BoxId, arrival_received(p, b)
      PROVE  SystemInv'
  <2> DEFINE c == find_box(b)
             box == package_received(conveyors[c].box, p)
  <2>1. c \in DOMAIN conveyors
    BY <1>5, FindBoxIsHolder DEF arrival_received
  <2>2. BoxInv(box)
    BY <2>1, PackageReceivedInv DEF SystemInv
  <2>3. conveyors' = WithBox(c, box)
    BY <1>5 DEF arrival_received
  <2> HIDE DEF c, box
  <2> QED
    BY <2>1, <2>2, <2>3, UpdateInv
<1>6. ASSUME NEW p \in PackageId, NEW b \in BoxId, package_removed(p, b)
      PROVE  SystemInv'
  <2> DEFINE c == find_box(b)
             box == remove_package(conveyors[c].box, p)
  <2>1. c \in DOMAIN conveyors
    BY <1>6, FindBoxIsHolder DEF package_removed
  <2>2. BoxInv(box)
    BY <2>1, RemovePackageInv DEF SystemInv
  <2>3. conveyors' = WithBox(c, box)
    BY <1>6 DEF package_removed
  <2> HIDE DEF c, box
  <2> QED
    BY <2>1, <2>2, <2>3, UpdateInv
<1>7. ASSUME NEW b \in BoxId, NEW removed \in SUBSET PackageId,
             clear_box_completed(b, removed)
      PROVE  SystemInv'
  <2> DEFINE c == find_box(b)
             box == clear_box(conveyors[c].box, removed)
  <2>1. c \in DOMAIN conveyors
    BY <1>7 DEF clear_box_completed
  <2>2. BoxInv(box)
    BY <2>1, ClearBoxInv DEF SystemInv
  <2>3. conveyors' = WithBox(c, box)
    BY <1>7 DEF clear_box_completed
  <2> HIDE DEF c, box
  <2> QED
    BY <2>1, <2>2, <2>3, UpdateInv
<1>8. CASE UNCHANGED vars
  BY <1>1, <1>8 DEF vars
<1>9. CASE Next
  BY <1>1, <1>2, <1>3, <1>4, <1>5, <1>6, <1>7, <1>9
     DEF Next, add_destination_box_refused, add_destination_box_out_of_range,
         send_package_refused,
         package_removal_refused, get_destination_box_state,
         clear_box_requested, clear_box_refused, clear_box_completed_crashes
<1> QED
  BY <1>8, <1>9

LEMMA SystemInvInitially == Init => SystemInv
<1> SUFFICES ASSUME Init PROVE SystemInv
  OBVIOUS
<1>1. DOMAIN conveyors = {} /\ conveyors \in [{} -> Conveyor]
  BY DEF Init
<1> QED
  BY <1>1 DEF SystemInv, SystemOK

(* Whatever the client and the plant do, the invariant holds. *)
THEOREM SystemInvHolds == Spec => []SystemInv
<1>1. Init => SystemInv
  BY SystemInvInitially
<1>2. SystemInv /\ [Next]_vars => SystemInv'
  BY SystemInvInductive
<1> QED
  BY <1>1, <1>2, PTL DEF Spec

------------------------------------------------------------------------------
(* The capacity and the colours of boxes *)

(* Type correctness of the books of the system, for any configuration.     *)
THEOREM SystemOKHolds == Spec => []SystemOK
<1>1. SystemInv => SystemOK
  BY DEF SystemInv
<1> QED
  BY <1>1, SystemInvHolds, PTL

(* No box is promised more packages than it holds (DestinationBox.cpp:24-  *)
(* 68), with any box size and with ids sent again.                         *)
THEOREM BoxWithinCapacityHolds == Spec => []BoxWithinCapacity
<1>1. SystemInv => BoxWithinCapacity
  BY DEF SystemInv, BoxInv, BoxWithinCapacity, Occupancy
<1> QED
  BY <1>1, SystemInvHolds, PTL

(* What is in a box or on its way has the colour of the box                *)
(* (DestinationBox.cpp:51, 62, 89-101), when clients send the numbers of   *)
(* colours only.                                                           *)
THEOREM BoxSortsByColourHolds ==
    ASSUME RealColours
    PROVE  Spec => []BoxSortsByColour
<1>1. SystemInv => BoxSortsByColour
  BY RealColours DEF SystemInv, BoxInv, BoxSortsByColour
<1> QED
  BY <1>1, SystemInvHolds, PTL

------------------------------------------------------------------------------
(* One box per package *)

(* One box changes, keeps stored and transit apart, and holds no package   *)
(* of another box.                                                         *)
LEMMA UpdateOneBox ==
    ASSUME SystemOK, OneBoxPerPackage,
           NEW c \in DOMAIN conveyors, NEW box,
           conveyors' = WithBox(c, box),
           box.packages_stored \intersect box.packages_transit = {},
           \A d \in DOMAIN conveyors : d # c =>
               Contents(box) \intersect Contents(conveyors[d].box) = {}
    PROVE  OneBoxPerPackage'
<1>1. DOMAIN conveyors' = DOMAIN conveyors
  BY DEF WithBox, SystemOK
<1>2. \A d \in DOMAIN conveyors :
        conveyors'[d].box = IF d = c THEN box ELSE conveyors[d].box
  BY DEF WithBox, SystemOK, Conveyor
<1>3. ASSUME NEW d \in DOMAIN conveyors
      PROVE  conveyors'[d].box.packages_stored
                \intersect conveyors'[d].box.packages_transit = {}
  BY <1>2 DEF OneBoxPerPackage
<1>4. ASSUME NEW d \in DOMAIN conveyors, NEW e \in DOMAIN conveyors, d # e
      PROVE  Contents(conveyors'[d].box)
                \intersect Contents(conveyors'[e].box) = {}
  <2>1. Contents(conveyors[d].box) \intersect Contents(conveyors[e].box) = {}
    BY <1>4 DEF OneBoxPerPackage
  <2>2. CASE d = c
    BY <2>2, <1>2, <1>4
  <2>3. CASE e = c
    BY <2>3, <1>2, <1>4
  <2>4. CASE d # c /\ e # c
    BY <2>1, <2>4, <1>2
  <2> QED
    BY <2>2, <2>3, <2>4
<1> QED
  BY <1>1, <1>3, <1>4, Zenon DEF OneBoxPerPackage

(* The case of a box that receives nothing new. *)
LEMMA SameOrLessInBox ==
    ASSUME SystemOK, OneBoxPerPackage,
           NEW c \in DOMAIN conveyors, NEW box,
           conveyors' = WithBox(c, box),
           box.packages_stored \intersect box.packages_transit = {},
           Contents(box) \subseteq Contents(conveyors[c].box)
    PROVE  OneBoxPerPackage'
<1>1. ASSUME NEW d \in DOMAIN conveyors, d # c
      PROVE  Contents(box) \intersect Contents(conveyors[d].box) = {}
  BY <1>1 DEF OneBoxPerPackage
<1> QED
  BY <1>1, UpdateOneBox

LEMMA OneBoxInductive ==
    ASSUME ~ClientReusesIds, SystemInv, OneBoxPerPackage, [Next]_vars
    PROVE  OneBoxPerPackage'
<1> USE DEF SystemInv
<1>1. ASSUME UNCHANGED conveyors
      PROVE  OneBoxPerPackage'
  BY <1>1 DEF OneBoxPerPackage
<1>2. ASSUME NEW config \in Configurations, set_state(config)
      PROVE  OneBoxPerPackage'
  <2>1. \A c \in DOMAIN conveyors' : conveyors'[c].box = NewBox
    BY <1>2 DEF set_state, Configured, NoConveyor
  <2> QED
    BY <2>1 DEF OneBoxPerPackage, NewBox, Contents
<1>3. ASSUME NEW c \in ConveyorId, NEW b \in BoxId,
             NEW location \in BoxLocations,
             \/ add_destination_box(c, b, location)
             \/ add_destination_box_crashes(c, b, location)
      PROVE  OneBoxPerPackage'
  <2>1. c \in DOMAIN conveyors /\ ConnectBox(c, b, location)
    BY <1>3 DEF add_destination_box, add_destination_box_crashes, RoomForBox,
                CanHoldBox
  <2>2. \A d \in DOMAIN conveyors : conveyors[d].box \in Box
    BY DEF BoxInv
  <2>3. DOMAIN conveyors' = DOMAIN conveyors
    BY <2>1 DEF ConnectBox, SystemOK
  <2>4. ASSUME NEW d \in DOMAIN conveyors
        PROVE  /\ conveyors'[d].box.packages_stored =
                     conveyors[d].box.packages_stored
               /\ conveyors'[d].box.packages_transit =
                     conveyors[d].box.packages_transit
    BY <2>1, <2>2 DEF ConnectBox, SystemOK, Conveyor, initialize_box, Box
  <2> QED
    BY <2>3, <2>4, Zenon DEF OneBoxPerPackage, Contents
<1>4. ASSUME NEW p \in PackageId, send_package(p)
      PROVE  OneBoxPerPackage'
  <2> DEFINE c == Min(Candidates(ColourOf[p]))
             old == conveyors[c].box
             box == add_package(old, p, ColourOf[p])
  <2>1. c \in DOMAIN conveyors
    <3>1. Candidates(ColourOf[p]) \in SUBSET Nat
      BY ConveyorAssumption DEF Candidates, SystemOK
    <3>2. c \in Candidates(ColourOf[p])
      BY <1>4, <3>1, MinIsMember DEF send_package
    <3> QED
      BY <3>2 DEF Candidates
  <2>2. p \notin Tracked
    BY <1>4 DEF send_package, FreshPackage
  <2>3. \A d \in DOMAIN conveyors : p \notin Contents(conveyors[d].box)
    BY <2>2 DEF Tracked
  <2>4. old \in Box
    BY <2>1 DEF BoxInv
  <2>5. /\ box.packages_stored = old.packages_stored
        /\ box.packages_transit \subseteq old.packages_transit \union {p}
    BY <2>4 DEF add_package, Box
  <2>6. conveyors' = WithBox(c, box)
    BY <1>4 DEF send_package
  <2>7. box.packages_stored \intersect box.packages_transit = {}
    BY <2>1, <2>3, <2>5 DEF OneBoxPerPackage, Contents
  <2>8. Contents(box) \subseteq Contents(old) \union {p}
    BY <2>5 DEF Contents
  <2>9. ASSUME NEW d \in DOMAIN conveyors, d # c
        PROVE  Contents(box) \intersect Contents(conveyors[d].box) = {}
    <3>1. Contents(old) \intersect Contents(conveyors[d].box) = {}
      BY <2>1, <2>9 DEF OneBoxPerPackage
    <3> QED
      BY <3>1, <2>3, <2>8
  <2> HIDE DEF c, old, box
  <2> QED
    BY <2>1, <2>6, <2>7, <2>9, UpdateOneBox
<1>5. ASSUME NEW p \in PackageId, NEW b \in BoxId, arrival_received(p, b)
      PROVE  OneBoxPerPackage'
  <2> DEFINE c == find_box(b)
             old == conveyors[c].box
             box == package_received(old, p)
  <2>1. c \in DOMAIN conveyors
    BY <1>5, FindBoxIsHolder DEF arrival_received
  <2>2. old \in Box
    BY <2>1 DEF BoxInv
  <2>3. old.packages_stored \intersect old.packages_transit = {}
    BY <2>1 DEF OneBoxPerPackage
  <2>4. /\ box.packages_stored \intersect box.packages_transit = {}
        /\ Contents(box) \subseteq Contents(old)
    BY <2>2, <2>3
       DEF package_received, has_package_in_transit, Contents, Box
  <2>5. conveyors' = WithBox(c, box)
    BY <1>5 DEF arrival_received
  <2> HIDE DEF c, box
  <2> QED
    BY <2>1, <2>4, <2>5, SameOrLessInBox
<1>6. ASSUME NEW p \in PackageId, NEW b \in BoxId, package_removed(p, b)
      PROVE  OneBoxPerPackage'
  <2> DEFINE c == find_box(b)
             old == conveyors[c].box
             box == remove_package(old, p)
  <2>1. c \in DOMAIN conveyors
    BY <1>6, FindBoxIsHolder DEF package_removed
  <2>2. old \in Box
    BY <2>1 DEF BoxInv
  <2>3. old.packages_stored \intersect old.packages_transit = {}
    BY <2>1 DEF OneBoxPerPackage
  <2>4. /\ box.packages_stored \intersect box.packages_transit = {}
        /\ Contents(box) \subseteq Contents(old)
    BY <2>2, <2>3 DEF remove_package, Contents, Box
  <2>5. conveyors' = WithBox(c, box)
    BY <1>6 DEF package_removed
  <2> HIDE DEF c, box
  <2> QED
    BY <2>1, <2>4, <2>5, SameOrLessInBox
<1>7. ASSUME NEW b \in BoxId, NEW removed \in SUBSET PackageId,
             clear_box_completed(b, removed)
      PROVE  OneBoxPerPackage'
  <2> DEFINE c == find_box(b)
             old == conveyors[c].box
             box == clear_box(old, removed)
  <2>1. c \in DOMAIN conveyors
    BY <1>7 DEF clear_box_completed
  <2>2. old \in Box
    BY <2>1 DEF BoxInv
  <2>3. old.packages_stored \intersect old.packages_transit = {}
    BY <2>1 DEF OneBoxPerPackage
  <2>4. /\ box.packages_stored \intersect box.packages_transit = {}
        /\ Contents(box) \subseteq Contents(old)
    BY <2>2, <2>3 DEF clear_box, Contents, Box
  <2>5. conveyors' = WithBox(c, box)
    BY <1>7 DEF clear_box_completed
  <2> HIDE DEF c, box
  <2> QED
    BY <2>1, <2>4, <2>5, SameOrLessInBox
<1>8. CASE UNCHANGED vars
  BY <1>1, <1>8 DEF vars
<1>9. CASE Next
  BY <1>1, <1>2, <1>3, <1>4, <1>5, <1>6, <1>7, <1>9
     DEF Next, add_destination_box_refused, add_destination_box_out_of_range,
         send_package_refused,
         package_removal_refused, get_destination_box_state,
         clear_box_requested, clear_box_refused, clear_box_completed_crashes
<1> QED
  BY <1>8, <1>9

(* A package is in one box at most, stored or in transit, when the client  *)
(* does not send packages that are in the system (ConveyorSystem.cpp:107-  *)
(* 151).                                                                   *)
THEOREM OneBoxPerPackageHolds ==
    ASSUME ~ClientReusesIds
    PROVE  Spec => []OneBoxPerPackage
<1>1. Init => SystemInv /\ OneBoxPerPackage
  BY SystemInvInitially DEF Init, OneBoxPerPackage
<1>2. SystemInv /\ OneBoxPerPackage /\ [Next]_vars
        => (SystemInv /\ OneBoxPerPackage)'
  BY SystemInvInductive, OneBoxInductive
<1> QED
  BY <1>1, <1>2, PTL DEF Spec

------------------------------------------------------------------------------
(* What leaves the books *)

(* When one box changes, what leaves the books is among what left the box. *)
LEMMA GoneFromBox ==
    ASSUME SystemOK, NEW c \in DOMAIN conveyors, NEW box, NEW gone,
           conveyors' = WithBox(c, box),
           Contents(conveyors[c].box) \subseteq Contents(box) \union gone
    PROVE  Tracked \ Tracked' \subseteq gone
<1>1. PICK S \in SUBSET ConveyorId : conveyors \in [S -> Conveyor]
  BY DEF SystemOK
<1>2. /\ DOMAIN conveyors' = DOMAIN conveyors
      /\ conveyors'[c].box = box
      /\ \A d \in DOMAIN conveyors :
            d # c => conveyors'[d].box = conveyors[d].box
  BY <1>1 DEF WithBox, Conveyor
<1>3. SUFFICES ASSUME NEW p \in Tracked, p \notin gone
               PROVE  p \in Tracked'
  OBVIOUS
<1>4. PICK d \in DOMAIN conveyors : p \in Contents(conveyors[d].box)
  BY DEF Tracked
<1>5. p \in Contents(conveyors'[d].box)
  <2>1. CASE d = c
    BY <1>2, <1>3, <1>4, <2>1
  <2>2. CASE d # c
    BY <1>2, <1>4, <2>2
  <2> QED
    BY <2>1, <2>2
<1> QED
  BY <1>2, <1>5 DEF Tracked, Contents

(* One step of any operation, for a client that reuses ids or does not. *)
LEMMA ForgetsNothing ==
    ASSUME SystemInv, [Next]_vars,
           NEW p \in Tracked \ Tracked'
    PROVE  ToldClient(p) \/ Reconfigured
<1>1. SystemOK
  BY DEF SystemInv
<1>2. ASSUME UNCHANGED conveyors
      PROVE  FALSE
  BY <1>2 DEF Tracked
<1>3. ASSUME NEW config \in Configurations, set_state(config)
      PROVE  Reconfigured
  BY <1>3 DEF set_state, Configured, NoConveyor, NewBox, Reconfigured,
              is_initialized
<1>4. ASSUME NEW c \in ConveyorId, NEW b \in BoxId,
             NEW location \in BoxLocations,
             \/ add_destination_box(c, b, location)
             \/ add_destination_box_crashes(c, b, location)
      PROVE  FALSE
  <2>1. c \in DOMAIN conveyors /\ ConnectBox(c, b, location)
    BY <1>4 DEF add_destination_box, add_destination_box_crashes, RoomForBox,
                CanHoldBox
  <2>2. \A d \in DOMAIN conveyors : conveyors[d].box \in Box
    BY DEF BoxInv, SystemInv
  <2>3. DOMAIN conveyors' = DOMAIN conveyors
    BY <1>1, <2>1 DEF ConnectBox, SystemOK
  <2>4. ASSUME NEW d \in DOMAIN conveyors
        PROVE  Contents(conveyors'[d].box) = Contents(conveyors[d].box)
    BY <1>1, <2>1, <2>2
       DEF ConnectBox, SystemOK, Conveyor, initialize_box, Box, Contents
  <2> QED
    BY <2>3, <2>4, Zenon DEF Tracked, Contents
<1>5. ASSUME NEW q \in PackageId, send_package(q)
      PROVE  FALSE
  <2> DEFINE c == Min(Candidates(ColourOf[q]))
             box == add_package(conveyors[c].box, q, ColourOf[q])
  <2>1. c \in DOMAIN conveyors
    <3>1. Candidates(ColourOf[q]) \in SUBSET Nat
      BY <1>1, ConveyorAssumption DEF Candidates, SystemOK
    <3>2. c \in Candidates(ColourOf[q])
      BY <1>5, <3>1, MinIsMember DEF send_package
    <3> QED
      BY <3>2 DEF Candidates
  <2>2. Contents(conveyors[c].box) \subseteq Contents(box) \union {}
    BY <2>1 DEF add_package, Box, Contents, BoxInv, SystemInv
  <2>3. conveyors' = WithBox(c, box)
    BY <1>5 DEF send_package
  <2> HIDE DEF c, box
  <2> QED
    BY <1>1, <2>1, <2>2, <2>3, GoneFromBox
<1>6. ASSUME NEW q \in PackageId, NEW b \in BoxId, arrival_received(q, b)
      PROVE  FALSE
  <2> DEFINE c == find_box(b)
             box == package_received(conveyors[c].box, q)
  <2>1. c \in DOMAIN conveyors
    BY <1>6, FindBoxIsHolder DEF arrival_received
  <2>2. Contents(conveyors[c].box) \subseteq Contents(box) \union {}
    BY <2>1 DEF package_received, Box, Contents, BoxInv, SystemInv
  <2>3. conveyors' = WithBox(c, box)
    BY <1>6 DEF arrival_received
  <2> HIDE DEF c, box
  <2> QED
    BY <1>1, <2>1, <2>2, <2>3, GoneFromBox
<1>7. ASSUME NEW q \in PackageId, NEW b \in BoxId, package_removed(q, b)
      PROVE  ToldClient(p)
  <2> DEFINE c == find_box(b)
             box == remove_package(conveyors[c].box, q)
             gone == {q}
  <2>1. c \in DOMAIN conveyors
    BY <1>7, FindBoxIsHolder DEF package_removed
  <2>2. Contents(conveyors[c].box) \subseteq Contents(box) \union gone
    BY <2>1 DEF remove_package, Box, Contents, BoxInv, SystemInv
  <2>3. conveyors' = WithBox(c, box)
    BY <1>7 DEF package_removed
  <2>4. p \in gone
    <3> HIDE DEF c, box, gone
    <3> QED
      BY <1>1, <2>1, <2>2, <2>3, GoneFromBox
  <2>5. web_out' = <<RemovePackageResponse(p, b, TRUE)>>
    BY <1>7, <2>4 DEF package_removed, Send
  <2>6. 1 \in DOMAIN web_out' /\ web_out'[1] = RemovePackageResponse(p, b, TRUE)
    BY <2>5
  <2> QED
    BY <2>6 DEF ToldClient, RemovePackageResponse
<1>8. ASSUME NEW b \in BoxId, NEW removed \in SUBSET PackageId,
             clear_box_completed(b, removed)
      PROVE  ToldClient(p)
  <2> DEFINE c == find_box(b)
             box == clear_box(conveyors[c].box, removed)
  <2>1. c \in DOMAIN conveyors
    BY <1>8 DEF clear_box_completed
  <2>2. Contents(conveyors[c].box) \subseteq Contents(box) \union removed
    BY <2>1 DEF clear_box, Box, Contents, BoxInv, SystemInv
  <2>3. conveyors' = WithBox(c, box)
    BY <1>8 DEF clear_box_completed
  <2>4. p \in removed
    <3> HIDE DEF c, box
    <3> QED
      BY <1>1, <2>1, <2>2, <2>3, GoneFromBox
  <2>5. web_out' = <<ClearBoxResponse(b, removed, TRUE)>>
    BY <1>8 DEF clear_box_completed, Send
  <2>6. /\ 1 \in DOMAIN web_out'
        /\ web_out'[1] = ClearBoxResponse(b, removed, TRUE)
    BY <2>5
  <2> QED
    BY <2>4, <2>6 DEF ToldClient, ClearBoxResponse
<1>9. CASE UNCHANGED vars
  BY <1>2, <1>9 DEF vars
<1>10. CASE Next
  BY <1>2, <1>3, <1>4, <1>5, <1>6, <1>7, <1>8, <1>10
     DEF Next, add_destination_box_refused, add_destination_box_out_of_range,
         send_package_refused,
         package_removal_refused, get_destination_box_state,
         clear_box_requested, clear_box_refused, clear_box_completed_crashes
<1> QED
  BY <1>9, <1>10

(* No package leaves the books unless the client is told or replaces the   *)
(* configuration, for any number of boxes and packages, also when the      *)
(* client reuses ids and when a clear is answered late                     *)
(* (ConveyorSystem.cpp:142-199, DestinationBox.cpp:89-101).                *)
THEOREM NoPackageForgottenHolds == Spec => NoPackageForgotten
<1>1. SystemInv /\ [Next]_vars
        => [\A p \in Tracked \ Tracked' : ToldClient(p) \/ Reconfigured]_vars
  BY ForgetsNothing
<1> QED
  BY <1>1, SystemInvHolds, PTL DEF Spec, NoPackageForgotten

------------------------------------------------------------------------------
(* Refusals *)

(* A conveyor that is no candidate has a box that is full or of another    *)
(* colour: the two checks of the size and the colour agree.                *)
LEMMA NoCandidate ==
    ASSUME SystemInv, NEW colour, NEW c \in DOMAIN conveyors, HasBox(c),
           c \notin Candidates(colour)
    PROVE  \/ conveyors[c].box.package_type \notin {"NONE", colour}
           \/ Occupancy(conveyors[c].box) >= DESTINATION_BOX_SIZE
<1> DEFINE box == conveyors[c].box
<1>1. Occupancy(box) \in Nat
  BY FS_CardinalityType DEF SystemInv, BoxInv, Occupancy
<1>2. ~(can_accept_package(box, colour) /\ adds_package(box, colour))
  BY DEF Candidates
<1>3. is_initialized(box)
  BY DEF HasBox
<1> HIDE DEF box
<1>4. \/ box.package_type \notin {"NONE", colour}
      \/ ~(Occupancy(box) < DESTINATION_BOX_SIZE)
  BY <1>2, <1>3 DEF can_accept_package, adds_package
<1> QED
  BY <1>1, <1>4, BoxSizeAssumption DEF box

(* Only a refusal tells the client that no box takes a package. *)
LEMMA OnlyRefusals ==
    ASSUME Next, NEW p \in PackageId, Refused(p)
    PROVE  Candidates(ColourOf[p]) = {}
<1>1. /\ Len(web_out') = 1
      /\ web_out'[1].id = "ADD_PACKAGE_RESPONSE"
      /\ web_out'[1].success = FALSE
      /\ web_out'[1].package = p
  BY DEF Refused, AddPackageResponse
<1>2. ASSUME NEW config \in Configurations, set_state(config)
      PROVE  FALSE
  <2>1. web_out' = <<>>
    BY <1>2 DEF set_state, Send
  <2> QED
    BY <1>1, <2>1
<1>3. ASSUME NEW c \in ConveyorId, NEW b \in BoxId,
             NEW location \in BoxLocations,
             \/ add_destination_box(c, b, location)
             \/ add_destination_box_refused(c, b, location)
             \/ add_destination_box_crashes(c, b, location)
             \/ add_destination_box_out_of_range(c, b, location)
      PROVE  FALSE
  <2>1. \/ web_out' = <<>>
        \/ \E success \in BOOLEAN :
              web_out' = <<AddBoxResponse(b, c, success)>>
    BY <1>3, Zenon
       DEF add_destination_box, add_destination_box_refused,
           add_destination_box_crashes, add_destination_box_out_of_range, Send
  <2> QED
    BY <1>1, <2>1, SMTT(20) DEF AddBoxResponse
<1>4. ASSUME NEW q \in PackageId, send_package(q)
      PROVE  FALSE
  BY <1>1, <1>4 DEF send_package, Send, AddPackageResponse
<1>5. ASSUME NEW q \in PackageId, send_package_refused(q)
      PROVE  Candidates(ColourOf[p]) = {}
  <2>1. web_out' = <<AddPackageResponse(q, NoBoxId, FALSE)>>
    BY <1>5 DEF send_package_refused, Send
  <2>2. q = p
    BY <1>1, <2>1 DEF AddPackageResponse
  <2> QED
    BY <1>5, <2>2 DEF send_package_refused
<1>6. CASE \E q \in PackageId, b \in BoxId :
              \/ arrival_received(q, b)
              \/ package_removed(q, b)
              \/ package_removal_refused(q, b)
  BY <1>1, <1>6
     DEF arrival_received, package_removed, package_removal_refused, Send,
         PackageReceivedAck, RemovePackageResponse
<1>7. CASE \E b \in BoxId :
              \/ get_destination_box_state(b)
              \/ clear_box_requested(b)
              \/ clear_box_refused(b)
  BY <1>1, <1>7
     DEF get_destination_box_state, clear_box_requested, clear_box_refused,
         Send, BoxStatusResponse, ClearBoxResponse
<1>8. CASE \E b \in BoxId, removed \in SUBSET PackageId :
              \/ clear_box_completed(b, removed)
              \/ clear_box_completed_crashes(b, removed)
  BY <1>1, <1>8
     DEF clear_box_completed, clear_box_completed_crashes, Send,
         ClearBoxResponse
<1> QED
  BY <1>2, <1>3, <1>4, <1>5, <1>6, <1>7, <1>8 DEF Next

(* The client is told that no box takes a package only when each box is    *)
(* full or of another colour (ConveyorSystem.cpp:107-140, DestinationBox.  *)
(* cpp:24-40).                                                             *)
THEOREM RefusesOnlyWhenFullHolds == Spec => RefusesOnlyWhenFull
<1>1. SystemInv /\ [Next]_vars =>
        [\A p \in PackageId : Refused(p) =>
            \A c \in DOMAIN conveyors : HasBox(c) =>
                \/ conveyors[c].box.package_type \notin {"NONE", ColourOf[p]}
                \/ Occupancy(conveyors[c].box) >= DESTINATION_BOX_SIZE]_vars
  BY OnlyRefusals, NoCandidate
<1> QED
  BY <1>1, SystemInvHolds, PTL DEF Spec, RefusesOnlyWhenFull

------------------------------------------------------------------------------
(* The place of a package *)

NotThere == [place |-> NoRoute, stored |-> FALSE]

(* The refinement mapping is well defined: the place of a package is the   *)
(* one conveyor whose box holds or expects it.                             *)
PlacesRight ==
    \A p \in PackageId :
        /\ p \notin Tracked => PlaceOf(p) = NotThere
        /\ \A c \in DOMAIN conveyors : p \in Contents(conveyors[c].box) =>
              /\ p \in Tracked
              /\ PlaceOf(p) = [place  |-> c,
                               stored |-> p \in conveyors[c].box.packages_stored]

LEMMA PlacesAreRight == SystemInv /\ OneBoxPerPackage => PlacesRight
<1> SUFFICES ASSUME SystemInv, OneBoxPerPackage, NEW p \in PackageId
             PROVE  /\ p \notin Tracked => PlaceOf(p) = NotThere
                    /\ \A c \in DOMAIN conveyors :
                          p \in Contents(conveyors[c].box) =>
                            /\ p \in Tracked
                            /\ PlaceOf(p) =
                                 [place  |-> c,
                                  stored |->
                                     p \in conveyors[c].box.packages_stored]
  BY DEF PlacesRight
<1>1. ASSUME p \notin Tracked
      PROVE  PlaceOf(p) = NotThere
  <2>1. \A c \in DOMAIN conveyors : ~has_package_stored(conveyors[c].box, p)
    BY <1>1 DEF Tracked, Contents, has_package_stored
  <2> QED
    BY <1>1, <2>1 DEF PlaceOf, NotThere
<1>2. ASSUME NEW c \in DOMAIN conveyors, p \in Contents(conveyors[c].box)
      PROVE  /\ p \in Tracked
             /\ PlaceOf(p) = [place  |-> c,
                              stored |-> p \in conveyors[c].box.packages_stored]
  <2>1. p \in Tracked
    BY <1>2 DEF Tracked
  <2>2. \A d \in DOMAIN conveyors : p \in Contents(conveyors[d].box) => d = c
    BY <1>2 DEF OneBoxPerPackage
  <2>3. (CHOOSE d \in DOMAIN conveyors : p \in Contents(conveyors[d].box)) = c
    BY <1>2, <2>2
  <2>4. \A d \in DOMAIN conveyors :
          has_package_stored(conveyors[d].box, p) => d = c
    BY <2>2 DEF has_package_stored, Contents
  <2>5. CASE p \in conveyors[c].box.packages_stored
    <3>1. (\E d \in DOMAIN conveyors :
              has_package_stored(conveyors[d].box, p)) = TRUE
      BY <2>5 DEF has_package_stored
    <3>2. (p \in conveyors[c].box.packages_stored) = TRUE
      BY <2>5
    <3> QED
      BY <2>1, <2>3, <3>1, <3>2 DEF PlaceOf
  <2>6. CASE p \notin conveyors[c].box.packages_stored
    <3>1. (\E d \in DOMAIN conveyors :
              has_package_stored(conveyors[d].box, p)) = FALSE
      BY <2>4, <2>6 DEF has_package_stored
    <3>2. (p \in conveyors[c].box.packages_stored) = FALSE
      BY <2>6
    <3> QED
      BY <2>1, <2>3, <3>1, <3>2 DEF PlaceOf
  <2> QED
    BY <2>5, <2>6
<1> QED
  BY <1>1, <1>2

(* The abstraction counts as the system does. *)
LEMMA SameCardinality ==
    ASSUME NEW S
    PROVE  Tracking!Cardinality(S) = Cardinality(S)
BY DEF Tracking!Cardinality, Cardinality

(* The packages at a place are those of its box. *)
LEMMA AtPlaceIsContents ==
    ASSUME SystemInv, PlacesRight, NEW c \in DOMAIN conveyors
    PROVE  Tracking!AtPlace(c) = Contents(conveyors[c].box)
<1>1. c \in ConveyorId /\ c # NoRoute
  BY ConveyorAssumption DEF SystemInv, SystemOK, NoRoute
<1>2. Contents(conveyors[c].box) \subseteq PackageId
  BY DEF SystemInv, BoxInv, Box, Contents
<1>3. ASSUME NEW p \in PackageId, PlaceOf(p).place = c
      PROVE  p \in Contents(conveyors[c].box)
  <2>1. p \in Tracked
    BY <1>1, <1>3 DEF PlacesRight, NotThere
  <2>2. PICK d \in DOMAIN conveyors : p \in Contents(conveyors[d].box)
    BY <2>1 DEF Tracked
  <2>3. PlaceOf(p).place = d
    BY <2>2 DEF PlacesRight
  <2> QED
    BY <1>3, <2>2, <2>3
<1>4. ASSUME NEW p \in Contents(conveyors[c].box)
      PROVE  p \in PackageId /\ PlaceOf(p).place = c
  BY <1>2, <1>4 DEF PlacesRight
<1> QED
  BY <1>3, <1>4 DEF Tracking!AtPlace

------------------------------------------------------------------------------
(* Each operation is a step of the abstraction *)

(* The box at one conveyor changes, and the others stay. *)
LEMMA BoxChanged ==
    ASSUME SystemInv, NEW c \in DOMAIN conveyors, NEW box,
           conveyors' = WithBox(c, box)
    PROVE  /\ DOMAIN conveyors' = DOMAIN conveyors
           /\ conveyors'[c].box = box
           /\ \A d \in DOMAIN conveyors :
                 d # c => conveyors'[d].box = conveyors[d].box
<1>1. PICK S \in SUBSET ConveyorId : conveyors \in [S -> Conveyor]
  BY DEF SystemInv, SystemOK
<1> QED
  BY <1>1 DEF WithBox, Conveyor

(* A package of a box that keeps it as it was stays where it is. *)
LEMMA Stays ==
    ASSUME PlacesRight, PlacesRight', NEW c \in DOMAIN conveyors,
           NEW p \in PackageId,
           c \in DOMAIN conveyors',
           p \in Contents(conveyors[c].box),
           p \in Contents(conveyors'[c].box),
           (p \in conveyors'[c].box.packages_stored)
              = (p \in conveyors[c].box.packages_stored)
    PROVE  PlaceOf(p)' = PlaceOf(p)
BY DEF PlacesRight, Contents

(* Boxes that lose packages at most, and change none of those they keep.   *)
LEMMA LeaveStep ==
    ASSUME PlacesRight, PlacesRight',
           DOMAIN conveyors' \subseteq DOMAIN conveyors,
           \A c \in DOMAIN conveyors' :
              /\ Contents(conveyors'[c].box) \subseteq Contents(conveyors[c].box)
              /\ \A p \in Contents(conveyors'[c].box) :
                    (p \in conveyors'[c].box.packages_stored)
                       = (p \in conveyors[c].box.packages_stored)
    PROVE  Tracking!Leave
<1>1. ASSUME NEW p \in PackageId
      PROVE  PlaceOf(p)' = PlaceOf(p) \/ PlaceOf(p)' = NotThere
  <2>1. CASE p \notin Tracked'
    BY <2>1 DEF PlacesRight, NotThere
  <2>2. CASE p \in Tracked'
    <3>1. PICK c \in DOMAIN conveyors' : p \in Contents(conveyors'[c].box)
      BY <2>2 DEF Tracked, Contents
    <3> QED
      BY <3>1, Stays
  <2> QED
    BY <2>1, <2>2
<1> QED
  BY <1>1 DEF Tracking!Leave, Tracking!NotInPlant, NotThere

(* The same for one box. *)
LEMMA ShrinkStep ==
    ASSUME SystemInv, PlacesRight, PlacesRight', NEW c \in DOMAIN conveyors,
           NEW box, conveyors' = WithBox(c, box),
           Contents(box) \subseteq Contents(conveyors[c].box),
           \A p \in Contents(box) :
              (p \in box.packages_stored)
                 = (p \in conveyors[c].box.packages_stored)
    PROVE  Tracking!Leave
<1>1. /\ DOMAIN conveyors' = DOMAIN conveyors
      /\ conveyors'[c].box = box
      /\ \A d \in DOMAIN conveyors :
            d # c => conveyors'[d].box = conveyors[d].box
  BY BoxChanged
<1>2. \A d \in DOMAIN conveyors' :
        /\ Contents(conveyors'[d].box) \subseteq Contents(conveyors[d].box)
        /\ \A p \in Contents(conveyors'[d].box) :
              (p \in conveyors'[d].box.packages_stored)
                 = (p \in conveyors[d].box.packages_stored)
  <2> TAKE d \in DOMAIN conveyors'
  <2>1. CASE d = c
    BY <1>1, <2>1
  <2>2. CASE d # c
    BY <1>1, <2>2
  <2> QED
    BY <2>1, <2>2
<1> QED
  BY <1>1, <1>2, LeaveStep

(* A package sent goes from outside to a box of its colour with room. *)
LEMMA SendStep ==
    ASSUME ~ClientReusesIds, RealColours, SystemInv, OneBoxPerPackage,
           PlacesRight, PlacesRight', NEW p \in PackageId, send_package(p)
    PROVE  Tracking!Next
<1>1. /\ Candidates(ColourOf[p]) \in SUBSET Nat
      /\ Candidates(ColourOf[p]) # {}
  BY ConveyorAssumption DEF Candidates, SystemInv, SystemOK, send_package
<1>2. PICK c \in Candidates(ColourOf[p]) : c = Min(Candidates(ColourOf[p]))
  BY <1>1, MinIsMember
<1>3. c \in DOMAIN conveyors /\ c \in ConveyorId /\ c # NoRoute
  BY <1>2, ConveyorAssumption
     DEF Candidates, SystemInv, SystemOK, NoRoute
<1> DEFINE old == conveyors[c].box
           new == add_package(old, p, ColourOf[p])
<1>4. adds_package(old, ColourOf[p]) /\ BoxInv(old)
  BY <1>2, <1>3 DEF Candidates, SystemInv
<1>5. conveyors' = WithBox(c, new)
  BY <1>2 DEF send_package
<1>6. /\ DOMAIN conveyors' = DOMAIN conveyors
      /\ conveyors'[c].box = new
      /\ \A d \in DOMAIN conveyors :
            d # c => conveyors'[d].box = conveyors[d].box
  BY <1>3, <1>5, BoxChanged
<1>7. p \notin Tracked
  BY DEF send_package, FreshPackage
<1>8. PlaceOf(p) = NotThere /\ p \notin Contents(old)
  BY <1>3, <1>7 DEF PlacesRight, Tracked
<1>9. /\ new.packages_transit = old.packages_transit \union {p}
      /\ new.packages_stored = old.packages_stored
  BY <1>4 DEF add_package, BoxInv, Box
<1>10. PlaceOf(p)' = [place |-> c, stored |-> FALSE]
  <2>1. /\ c \in DOMAIN conveyors'
        /\ p \in Contents(conveyors'[c].box)
        /\ (p \in conveyors'[c].box.packages_stored) = FALSE
    BY <1>3, <1>6, <1>8, <1>9 DEF Contents
  <2>2. PlaceOf(p)' = [place  |-> c,
                       stored |-> p \in conveyors'[c].box.packages_stored]
    BY <2>1 DEF PlacesRight, Contents
  <2> QED
    BY <2>1, <2>2
<1>11. ASSUME NEW q \in PackageId, q # p
       PROVE  PlaceOf(q)' = PlaceOf(q)
  <2>1. CASE q \in Tracked
    <3>1. PICK d \in DOMAIN conveyors : q \in Contents(conveyors[d].box)
      BY <2>1 DEF Tracked
    <3>2. /\ q \in Contents(conveyors'[d].box)
          /\ (q \in conveyors'[d].box.packages_stored)
                = (q \in conveyors[d].box.packages_stored)
      BY <1>6, <1>9, <3>1, <1>11 DEF Contents
    <3> QED
      BY <1>6, <3>1, <3>2, Stays
  <2>2. CASE q \notin Tracked
    <3>1. ASSUME NEW d \in DOMAIN conveyors
          PROVE  q \notin Contents(conveyors'[d].box)
      <4>1. q \notin Contents(conveyors[d].box)
        BY <2>2 DEF Tracked
      <4> QED
        BY <1>6, <1>9, <1>11, <4>1 DEF Contents
    <3>2. q \notin Tracked'
      BY <1>6, <3>1 DEF Tracked, Contents
    <3> QED
      BY <2>2, <3>2 DEF PlacesRight, NotThere
  <2> QED
    BY <2>1, <2>2
<1>12. \A q \in Contents(old) : ColourOf[q] = ColourOf[p]
  BY <1>4, SameColour
<1>13. Cardinality(Contents(old)) < DESTINATION_BOX_SIZE
  <2> DEFINE stored == old.packages_stored
             transit == old.packages_transit
  <2>1. IsFiniteSet(stored) /\ IsFiniteSet(transit)
    BY <1>4 DEF BoxInv
  <2>2. /\ Cardinality(stored) \in Nat
        /\ Cardinality(transit) \in Nat
        /\ Cardinality(stored \union transit)
              = Cardinality(stored) + Cardinality(transit)
                   - Cardinality(stored \intersect transit)
        /\ Cardinality(stored \intersect transit) \in Nat
    BY <2>1, FS_CardinalityType, FS_Union, FS_Intersection
  <2>3. Cardinality(stored) + Cardinality(transit) < DESTINATION_BOX_SIZE
    BY <1>4 DEF adds_package, Occupancy
  <2>4. Contents(old) = stored \union transit
    BY DEF Contents
  <2> HIDE DEF stored, transit
  <2> QED
    BY <2>2, <2>3, <2>4, BoxSizeAssumption
<1>14. Tracking!AtPlace(c) = Contents(old)
  BY <1>3, AtPlaceIsContents
<1> HIDE DEF old, new
<1>15. [q \in PackageId |-> PlaceOf(q)]' =
          [[q \in PackageId |-> PlaceOf(q)] EXCEPT
              ![p] = [place |-> c, stored |-> FALSE]]
  BY <1>10, <1>11
<1>16. Tracking!SendTo(p, c)
  BY <1>8, <1>12, <1>13, <1>14, <1>15, SameCardinality
     DEF Tracking!SendTo, NotThere
<1> QED
  BY <1>3, <1>16 DEF Tracking!Next

LEMMA StoredSet ==
    ASSUME NEW c, NEW before, NEW after
    PROVE  [[place |-> c, stored |-> before] EXCEPT !.stored = after]
              = [place |-> c, stored |-> after]
OBVIOUS

(* A package that arrives and is expected is stored where it was sent. *)
LEMMA ArrivalStep ==
    ASSUME SystemInv, OneBoxPerPackage, PlacesRight, PlacesRight',
           NEW p \in PackageId, NEW b \in BoxId, arrival_received(p, b)
    PROVE  Tracking!Next
<1>1. PICK c \in DOMAIN conveyors : c = find_box(b)
  BY FindBoxIsHolder DEF arrival_received
<1> DEFINE old == conveyors[c].box
           new == package_received(old, p)
<1>2. conveyors' = WithBox(c, new) /\ old \in Box
  BY <1>1 DEF arrival_received, SystemInv, BoxInv
<1>3. CASE ~(is_initialized(old) /\ has_package_in_transit(old, p))
  <2>1. new = old
    BY <1>3 DEF package_received
  <2>2. Tracking!Leave
    BY <1>2, <2>1, ShrinkStep
  <2> QED
    BY <2>2 DEF Tracking!Next
<1>4. CASE is_initialized(old) /\ has_package_in_transit(old, p)
  <2>1. /\ p \in old.packages_transit
        /\ new.packages_transit = old.packages_transit \ {p}
        /\ new.packages_stored = old.packages_stored \union {p}
    BY <1>2, <1>4 DEF package_received, has_package_in_transit, Box
  <2>2. /\ DOMAIN conveyors' = DOMAIN conveyors
        /\ conveyors'[c].box = new
        /\ \A d \in DOMAIN conveyors :
              d # c => conveyors'[d].box = conveyors[d].box
    BY <1>2, BoxChanged
  <2>3. \A d \in DOMAIN conveyors :
          /\ Contents(conveyors'[d].box) = Contents(conveyors[d].box)
          /\ \A q \in PackageId \ {p} :
                (q \in conveyors'[d].box.packages_stored)
                   = (q \in conveyors[d].box.packages_stored)
    <3> TAKE d \in DOMAIN conveyors
    <3>1. CASE d = c
      BY <2>1, <2>2, <3>1 DEF Contents
    <3>2. CASE d # c
      BY <2>2, <3>2
    <3> QED
      BY <3>1, <3>2
  <2>4. c \in ConveyorId /\ c # NoRoute
    BY ConveyorAssumption DEF SystemInv, SystemOK, NoRoute
  <2>5. PlaceOf(p) = [place |-> c, stored |-> FALSE]
    <3>1. /\ p \in Contents(conveyors[c].box)
          /\ (p \in conveyors[c].box.packages_stored) = FALSE
      BY <2>1 DEF Contents, OneBoxPerPackage
    <3>2. PlaceOf(p) = [place  |-> c,
                        stored |-> p \in conveyors[c].box.packages_stored]
      BY <3>1 DEF PlacesRight
    <3> QED
      BY <3>1, <3>2
  <2>6. PlaceOf(p)' = [place |-> c, stored |-> TRUE]
    BY <2>1, <2>2 DEF PlacesRight, Contents
  <2>7. ASSUME NEW q \in PackageId, q # p
        PROVE  PlaceOf(q)' = PlaceOf(q)
    <3>1. CASE q \in Tracked
      <4>1. PICK d \in DOMAIN conveyors : q \in Contents(conveyors[d].box)
        BY <3>1 DEF Tracked
      <4> QED
        BY <2>2, <2>3, <2>7, <4>1, Stays
    <3>2. CASE q \notin Tracked
      <4>1. \A d \in DOMAIN conveyors : q \notin Contents(conveyors'[d].box)
        BY <2>3, <3>2 DEF Tracked
      <4>2. q \notin Tracked'
        BY <2>2, <4>1 DEF Tracked, Contents
      <4> QED
        BY <3>2, <4>2 DEF PlacesRight, NotThere
    <3> QED
      BY <3>1, <3>2
  <2>8. [q \in PackageId |-> PlaceOf(q)]' =
          [[q \in PackageId |-> PlaceOf(q)] EXCEPT ![p].stored = TRUE]
    <3>1. [PlaceOf(p) EXCEPT !.stored = TRUE] = PlaceOf(p)'
      <4>1. [[place |-> c, stored |-> FALSE] EXCEPT !.stored = TRUE]
               = [place |-> c, stored |-> TRUE]
        BY StoredSet, Zenon
      <4> QED
        BY <2>5, <2>6, <4>1, Zenon
    <3>2. \A q \in PackageId :
            PlaceOf(q)' = IF q = p THEN [PlaceOf(p) EXCEPT !.stored = TRUE]
                          ELSE PlaceOf(q)
      BY <2>7, <3>1
    <3> QED
      BY <3>2
  <2>9. Tracking!Store(p)
    BY <2>4, <2>5, <2>8 DEF Tracking!Store
  <2> QED
    BY <2>9 DEF Tracking!Next
<1> QED
  BY <1>3, <1>4

(* Packages that are removed or cleared leave, and only those. *)
LEMMA RemovalStep ==
    ASSUME SystemInv, PlacesRight, PlacesRight',
           NEW p \in PackageId, NEW b \in BoxId, package_removed(p, b),
           OneBoxPerPackage
    PROVE  Tracking!Leave
<1>1. PICK c \in DOMAIN conveyors : c = find_box(b)
  BY FindBoxIsHolder DEF package_removed
<1> DEFINE old == conveyors[c].box
           new == remove_package(old, p)
<1>2. conveyors' = WithBox(c, new) /\ old \in Box
  BY <1>1 DEF package_removed, SystemInv, BoxInv
<1>3. old.packages_stored \intersect old.packages_transit = {}
  BY DEF OneBoxPerPackage
<1>4. /\ Contents(new) \subseteq Contents(old)
      /\ \A q \in Contents(new) :
            (q \in new.packages_stored) = (q \in old.packages_stored)
  <2>1. has_package_stored(old, p)
    BY <1>1 DEF package_removed
  <2> QED
    BY <1>2, <1>3, <2>1
       DEF remove_package, has_package_stored, Contents, Box
<1> HIDE DEF new
<1> QED
  BY <1>2, <1>4, ShrinkStep

LEMMA ClearStep ==
    ASSUME SystemInv, PlacesRight, PlacesRight',
           NEW b \in BoxId, NEW removed \in SUBSET PackageId,
           clear_box_completed(b, removed), OneBoxPerPackage
    PROVE  Tracking!Leave
<1>1. PICK c \in DOMAIN conveyors : c = find_box(b)
  BY DEF clear_box_completed
<1> DEFINE old == conveyors[c].box
           new == clear_box(old, removed)
<1>2. conveyors' = WithBox(c, new) /\ old \in Box
  BY <1>1 DEF clear_box_completed, SystemInv, BoxInv
<1>3. old.packages_stored \intersect old.packages_transit = {}
  BY DEF OneBoxPerPackage
<1>4. /\ Contents(new) \subseteq Contents(old)
      /\ \A q \in Contents(new) :
            (q \in new.packages_stored) = (q \in old.packages_stored)
  BY <1>2, <1>3 DEF clear_box, Contents, Box
<1> HIDE DEF new
<1> QED
  BY <1>2, <1>4, ShrinkStep

(* A new configuration empties the plant: its boxes are gone. *)
LEMMA SetStateStep ==
    ASSUME PlacesRight', NEW config \in Configurations, set_state(config)
    PROVE  Tracking!Leave
<1>1. \A c \in DOMAIN conveyors' : Contents(conveyors'[c].box) = {}
  BY DEF set_state, Configured, NoConveyor, NewBox, Contents
<1>2. Tracked' = {}
  BY <1>1 DEF Tracked, Contents
<1>3. \A p \in PackageId : PlaceOf(p)' = NotThere
  BY <1>2 DEF PlacesRight, NotThere
<1> QED
  BY <1>3 DEF Tracking!Leave, Tracking!NotInPlant, NotThere

(* A new box is empty, and its conveyor had none. *)
LEMMA AddBoxStep ==
    ASSUME SystemInv, PlacesRight, PlacesRight', NEW c \in DOMAIN conveyors,
           NEW b \in BoxId, NEW location \in BoxLocations,
           ConnectBox(c, b, location)
    PROVE  Tracking!Leave
<1>1. \A d \in DOMAIN conveyors : conveyors[d].box \in Box
  BY DEF SystemInv, BoxInv
<1>2. DOMAIN conveyors' = DOMAIN conveyors
  BY DEF ConnectBox, SystemInv, SystemOK
<1>3. ASSUME NEW d \in DOMAIN conveyors
      PROVE  /\ conveyors'[d].box.packages_stored =
                   conveyors[d].box.packages_stored
             /\ conveyors'[d].box.packages_transit =
                   conveyors[d].box.packages_transit
  BY <1>1 DEF ConnectBox, SystemInv, SystemOK, Conveyor, initialize_box, Box
<1> QED
  BY <1>2, <1>3, LeaveStep DEF Contents

LEMMA TrackingStep ==
    ASSUME ~ClientReusesIds, RealColours, SystemInv, OneBoxPerPackage,
           PlacesRight, PlacesRight', [Next]_vars
    PROVE  Tracking!Next \/ UNCHANGED [p \in PackageId |-> PlaceOf(p)]
<1>1. ASSUME UNCHANGED conveyors
      PROVE  UNCHANGED [p \in PackageId |-> PlaceOf(p)]
  BY <1>1 DEF PlaceOf, Tracked
<1>2. ASSUME NEW config \in Configurations, set_state(config)
      PROVE  Tracking!Next
  BY <1>2, SetStateStep DEF Tracking!Next
<1>3. ASSUME NEW c \in ConveyorId, NEW b \in BoxId,
             NEW location \in BoxLocations,
             \/ add_destination_box(c, b, location)
             \/ add_destination_box_crashes(c, b, location)
      PROVE  Tracking!Next
  <2>1. c \in DOMAIN conveyors /\ ConnectBox(c, b, location)
    BY <1>3 DEF add_destination_box, add_destination_box_crashes, RoomForBox,
                CanHoldBox
  <2> QED
    BY <2>1, AddBoxStep DEF Tracking!Next
<1>4. ASSUME NEW p \in PackageId, send_package(p)
      PROVE  Tracking!Next
  BY <1>4, SendStep
<1>5. ASSUME NEW p \in PackageId, NEW b \in BoxId, arrival_received(p, b)
      PROVE  Tracking!Next
  BY <1>5, ArrivalStep
<1>6. ASSUME NEW p \in PackageId, NEW b \in BoxId, package_removed(p, b)
      PROVE  Tracking!Next
  BY <1>6, RemovalStep DEF Tracking!Next
<1>7. ASSUME NEW b \in BoxId, NEW removed \in SUBSET PackageId,
             clear_box_completed(b, removed)
      PROVE  Tracking!Next
  BY <1>7, ClearStep DEF Tracking!Next
<1>8. CASE UNCHANGED vars
  BY <1>1, <1>8 DEF vars
<1>9. CASE Next
  BY <1>1, <1>2, <1>3, <1>4, <1>5, <1>6, <1>7, <1>9
     DEF Next, add_destination_box_refused, add_destination_box_out_of_range,
         send_package_refused,
         package_removal_refused, get_destination_box_state,
         clear_box_requested, clear_box_refused, clear_box_completed_crashes
<1> QED
  BY <1>8, <1>9

(* A package goes from outside to one box of its colour that has room,     *)
(* from transit to stored, and out again, and never from a box to another, *)
(* for any conveyors, boxes and packages, when the client does not send    *)
(* packages that are in the system, and only real colours                  *)
(* (ConveyorSystem.cpp:107-207).                                           *)
THEOREM TracksPackagesHolds ==
    ASSUME ~ClientReusesIds, RealColours
    PROVE  Spec => TracksPackages
<1>1. Init => Tracking!Init
  <2> SUFFICES ASSUME Init PROVE Tracking!Init
    OBVIOUS
  <2>1. DOMAIN conveyors = {}
    BY DEF Init
  <2>2. SystemInv /\ OneBoxPerPackage /\ Tracked = {}
    BY <2>1, SystemInvInitially DEF OneBoxPerPackage, Tracked
  <2>3. \A p \in PackageId : PlaceOf(p) = NotThere
    BY <2>2, PlacesAreRight DEF PlacesRight
  <2> QED
    BY <2>3 DEF Tracking!Init, Tracking!NotInPlant, NotThere
<1>2. /\ SystemInv
      /\ OneBoxPerPackage
      /\ PlacesRight
      /\ PlacesRight'
      /\ [Next]_vars
    => [Tracking!Next]_([p \in PackageId |-> PlaceOf(p)])
  BY TrackingStep
<1> QED
  BY <1>1, <1>2, PlacesAreRight, SystemInvHolds, OneBoxPerPackageHolds, PTL
     DEF Spec, TracksPackages, Tracking!Spec
===============================================================================
