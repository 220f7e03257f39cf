---------------------------- MODULE ClassLoader ----------------------------
(***************************************************************************)
(* The class loader (class_loader/): class loaders of shared libraries,    *)
(* the class factories the libraries register while they are being opened, *)
(* the objects made by the factories, and the manager that destroys a      *)
(* loader once its library is unloaded.  Two reference counts per loader   *)
(* (loadlib_ref_count_, classobj_ref_count_), the list of owners of each   *)
(* factory and the list of opened libraries together decide when the code  *)
(* of a library goes away.                                                 *)
(*                                                                         *)
(* Every call is one step: the calls of a loader come from one thread, as  *)
(* those of the mainboard's ModuleController do.                           *)
(***************************************************************************)
EXTENDS Integers, FiniteSets, TLAPS

CONSTANTS
    Loaders,      \* class loaders
    Libraries,    \* shared libraries
    LibOf,        \* LibOf[l]: the library_path_ of l
    Classes,      \* Classes[lib]: the names of the classes lib registers
    NoFactory,    \* no factory is registered under a name
    MaxLoads,     \* bound on loadlib_ref_count_
    MaxObjects    \* bound on the live objects of a loader

ASSUME LibOfAssumption == LibOf \in [Loaders -> Libraries]
ASSUME BoundAssumption == MaxLoads \in Nat \ {0} /\ MaxObjects \in Nat

Names == UNION {Classes[lib] : lib \in Libraries}

VARIABLES
    alive,      \* loaders constructed and not destroyed
    loadRef,    \* loadlib_ref_count_
    objRef,     \* classobj_ref_count_
    opened,     \* opened_libraries
    factory,    \* factory[c]: the library and the owners of the factory of c
    objects     \* objects[l]: live objects created through l

vars == <<alive, loadRef, objRef, opened, factory, objects>>

Init ==
    /\ alive = {}
    /\ loadRef = [l \in Loaders |-> 0]
    /\ objRef = [l \in Loaders |-> 0]
    /\ opened = {}
    /\ factory = [c \in Names |-> NoFactory]
    /\ objects = [l \in Loaders |-> 0]

\* GetAllClassFactoryObjectsOfLibrary, over the factories f.
FactoriesOf(lib, f) == {c \in Names : f[c] # NoFactory /\ f[c].library = lib}

IsOwnedBy(c, l) == factory[c] # NoFactory /\ l \in factory[c].owners

\* utility::IsLibraryLoaded: how many of the factories the loader owns does
\* not matter, as it can only own factories of the library.
IsLibraryLoaded(l) == LibOf[l] \in opened

-----------------------------------------------------------------------------
\* utility::LoadLibrary.  A library opened by others is only shared.  While a
\* library is opened it registers its classes, each in the place of any other
\* factory of that name.  Opening may fail.
Attach(l) ==
    /\ factory' = [c \in Names |-> IF c \in FactoriesOf(LibOf[l], factory)
                                   THEN [factory[c] EXCEPT !.owners = @ \cup {l}]
                                   ELSE factory[c]]
    /\ UNCHANGED opened

Open(l) ==
    /\ opened' = opened \cup {LibOf[l]}
    /\ factory' = [c \in Names |-> IF c \in Classes[LibOf[l]]
                                   THEN [library |-> LibOf[l], owners |-> {l}]
                                   ELSE factory[c]]

Load(l) ==
    IF LibOf[l] \in opened THEN Attach(l)
    ELSE Open(l) \/ UNCHANGED <<opened, factory>>

\* The state after utility::UnloadLibrary, for a loader that unloads: give up
\* the factories, and close the library when nobody has factories of it left.
GivenUp(l) ==
    [c \in Names |->
        IF LibOf[l] \in opened /\ c \in FactoriesOf(LibOf[l], factory) /\ IsOwnedBy(c, l)
        THEN IF factory[c].owners = {l} THEN NoFactory
             ELSE [factory[c] EXCEPT !.owners = @ \ {l}]
        ELSE factory[c]]

\* Mutant: the library is closed although others use it.
UnloadAlways(l) ==
    /\ factory' = GivenUp(l)
    /\ opened' = opened \ {LibOf[l]}

Unload(l) ==
    /\ factory' = GivenUp(l)
    /\ opened' = IF FactoriesOf(LibOf[l], factory') = {} THEN opened \ {LibOf[l]}
                 ELSE opened

-----------------------------------------------------------------------------
\* ClassLoader::ClassLoader, through ClassLoaderManager::LoadLibrary.
Construct(l) ==
    /\ l \notin alive
    /\ alive' = alive \cup {l}
    /\ loadRef' = [loadRef EXCEPT ![l] = 1]
    /\ Load(l)
    /\ UNCHANGED <<objRef, objects>>

\* ClassLoader::LoadLibrary.
LoadLibrary(l) ==
    /\ l \in alive /\ loadRef[l] < MaxLoads
    /\ loadRef' = [loadRef EXCEPT ![l] = @ + 1]
    /\ Load(l)
    /\ UNCHANGED <<alive, objRef, objects>>

\* The body of ClassLoader::UnloadLibrary: live objects forbid it; a count
\* that would become negative stays zero.
UnloadCounted(l) ==
    IF objRef[l] > 0 THEN UNCHANGED <<loadRef, opened, factory>>
    ELSE /\ loadRef' = [loadRef EXCEPT ![l] = IF @ = 0 THEN 0 ELSE @ - 1]
         /\ IF loadRef[l] = 1 THEN Unload(l) ELSE UNCHANGED <<opened, factory>>

UnloadLibrary(l) ==
    /\ l \in alive
    /\ UnloadCounted(l)
    /\ UNCHANGED <<alive, objRef, objects>>

\* ClassLoaderManager::UnloadLibrary: the loader is destroyed once nothing
\* remains (its destructor unloads again, which changes nothing any more).
ManagerUnload(l) ==
    /\ l \in alive
    /\ UnloadCounted(l)
    /\ alive' = IF loadRef'[l] = 0 THEN alive \ {l} ELSE alive
    /\ UNCHANGED <<objRef, objects>>

\* ClassLoader::CreateClassObj: load the library if it is not (any more), then
\* make the object if the loader owns the factory of the class.
CreateClassObj(l, c) ==
    /\ l \in alive /\ objects[l] < MaxObjects
    /\ IF IsLibraryLoaded(l) THEN UNCHANGED <<loadRef, opened, factory>>
       ELSE /\ loadRef[l] < MaxLoads
            /\ loadRef' = [loadRef EXCEPT ![l] = @ + 1]
            /\ Load(l)
    /\ IF factory'[c] # NoFactory /\ l \in factory'[c].owners
       THEN /\ objRef' = [objRef EXCEPT ![l] = @ + 1]
            /\ objects' = [objects EXCEPT ![l] = @ + 1]
       ELSE UNCHANGED <<objRef, objects>>
    /\ UNCHANGED alive

\* The deleter of an object's shared pointer.
OnClassObjDeleter(l) ==
    /\ objects[l] > 0
    /\ objects' = [objects EXCEPT ![l] = @ - 1]
    /\ objRef' = [objRef EXCEPT ![l] = @ - 1]
    /\ UNCHANGED <<alive, loadRef, opened, factory>>

Next ==
    \E l \in Loaders :
        \/ Construct(l) \/ LoadLibrary(l) \/ UnloadLibrary(l) \/ ManagerUnload(l)
        \/ OnClassObjDeleter(l)
        \/ \E c \in Names : CreateClassObj(l, c)

Spec == Init /\ [][Next]_vars

-----------------------------------------------------------------------------
\* The counts stay within their bounds, and factories name libraries and
\* loaders there are.
TypeOK ==
    /\ alive \subseteq Loaders
    /\ loadRef \in [Loaders -> 0..MaxLoads]
    /\ objRef \in [Loaders -> 0..MaxObjects]
    /\ opened \subseteq Libraries
    /\ factory \in [Names -> [library : Libraries, owners : SUBSET Loaders]
                             \cup {NoFactory}]
    /\ objects \in [Loaders -> 0..MaxObjects]

\* The code of a live object stays loaded and its deleter's class loader stays
\* alive, through any sequence of loads and unloads by several loaders of the
\* same and of other libraries (ClassLoader::UnloadLibrary, and the manager).
CodeStays ==
    \A l \in Loaders : objects[l] > 0 => LibOf[l] \in opened /\ l \in alive

\* A factory in the map can be used: its library, which holds its code, is
\* open, somebody owns it, and its owners are live loaders of that library.
FactoriesUsable ==
    \A c \in Names : factory[c] # NoFactory =>
        /\ factory[c].library \in opened
        /\ factory[c].owners # {}
        /\ factory[c].owners \subseteq
             {l \in alive : LibOf[l] = factory[c].library /\ loadRef[l] > 0}

\* An opened library can be closed again: some live loader still counts it.
\* The reference counts of several loaders never strand a library.
NoOrphans ==
    \A lib \in opened : \E l \in alive : LibOf[l] = lib /\ loadRef[l] > 0

\* Together: live objects and registered factories keep the code and the
\* loaders they need, and no library stays open that nobody can close.
LibrariesInUse == TypeOK /\ CodeStays /\ FactoriesUsable /\ NoOrphans

-----------------------------------------------------------------------------
(***************************************************************************)
(* Proof that live objects keep their code and their class loader, and     *)
(* that an open library can be closed, for any number of libraries,        *)
(* loaders and classes, provided every library registers a class and no    *)
(* two register one of the same name.                                      *)
(*                                                                         *)
(* CodeStays is not inductive: what keeps a library open is that a loader  *)
(* with live objects still owns a factory of it, so the invariant carries  *)
(* that, the state of the factories, and the equality of the code's object *)
(* count with the number of live objects.  NoOrphans is not inductive      *)
(* either: an open library has a factory, whose owners still count it.     *)
(***************************************************************************)
\* No two libraries register a class of the same name.
DistinctNames ==
    \A x, y \in Libraries : x # y => Classes[x] \cap Classes[y] = {}

\* Every library registers a class.
RegistersClass == \A lib \in Libraries : Classes[lib] # {}

\* NoFactory is no factory.
NoFactoryIsNone == NoFactory \notin [library : Libraries, owners : SUBSET Loaders]

\* Loaders with live objects own a factory, and the count is right.
ObjectsHold ==
    /\ objRef = objects
    /\ \A l \in Loaders : objects[l] > 0 =>
         l \in alive /\ \E c \in Names : IsOwnedBy(c, l)

\* A factory is one that its library registers.
FactoriesRegistered ==
    \A c \in Names : factory[c] # NoFactory => c \in Classes[factory[c].library]

\* An open library has a factory.
OpenedRegistered == \A lib \in opened : \E c \in Names :
    factory[c] # NoFactory /\ factory[c].library = lib

IInv == TypeOK /\ FactoriesUsable /\ FactoriesRegistered /\ ObjectsHold /\ OpenedRegistered

-----------------------------------------------------------------------------
\* The invariant holds when there are no loaders.
LEMMA InitIInv == NoFactoryIsNone /\ Init => IInv
  BY BoundAssumption DEF Init, IInv, TypeOK, FactoriesUsable, FactoriesRegistered,
     ObjectsHold, OpenedRegistered, IsOwnedBy

\* utility::LoadLibrary leaves every factory usable and takes nothing away
\* from an owner, when no other library uses its class names.
LEMMA LoadKeeps ==
    ASSUME DistinctNames, RegistersClass, NoFactoryIsNone, IInv, NEW l \in Loaders, Load(l),
           alive' = alive \cup {l},
           loadRef' \in [Loaders -> 0..MaxLoads],
           loadRef'[l] > 0,
           \A k \in Loaders : k # l => loadRef'[k] = loadRef[k]
    PROVE  /\ opened' \subseteq Libraries
           /\ factory' \in [Names -> [library : Libraries, owners : SUBSET Loaders]
                                     \cup {NoFactory}]
           /\ FactoriesUsable'
           /\ FactoriesRegistered'
           /\ OpenedRegistered'
           /\ \A c \in Names, k \in Loaders : IsOwnedBy(c, k) => IsOwnedBy(c, k)'
<1> USE LibOfAssumption
<1> LibOf[l] \in Libraries
  OBVIOUS
<1> USE DEF IInv, TypeOK
<1>1. CASE UNCHANGED <<opened, factory>>
  BY <1>1 DEF FactoriesUsable, FactoriesRegistered, OpenedRegistered, IsOwnedBy
<1>2. CASE Attach(l)
  <2>1. factory' \in [Names -> [library : Libraries, owners : SUBSET Loaders]
                               \cup {NoFactory}]
    BY <1>2 DEF Attach, FactoriesOf
  <2>2. ASSUME NEW c \in Names, factory'[c] # NoFactory
        PROVE  /\ factory[c] # NoFactory
               /\ factory'[c].library = factory[c].library
               /\ factory[c].owners \subseteq factory'[c].owners
               /\ factory'[c].owners \subseteq factory[c].owners \cup {l}
               /\ l \in factory'[c].owners => l \in factory[c].owners \/ factory[c].library = LibOf[l]
    BY <1>2, <2>2 DEF Attach, FactoriesOf
  <2>3. FactoriesUsable' /\ FactoriesRegistered'
    BY <1>2, <2>1, <2>2 DEF Attach, FactoriesUsable, FactoriesRegistered
  <2>4. \A c \in Names, k \in Loaders : IsOwnedBy(c, k) => IsOwnedBy(c, k)'
    BY <1>2, NoFactoryIsNone DEF Attach, FactoriesOf, IsOwnedBy, NoFactoryIsNone
  <2>5. OpenedRegistered'
    <3> SUFFICES ASSUME NEW lib \in opened'
                 PROVE  \E c \in Names : factory'[c] # NoFactory /\ factory'[c].library = lib
      BY DEF OpenedRegistered
    <3>1. PICK c \in Names : factory[c] # NoFactory /\ factory[c].library = lib
      BY <1>2 DEF Attach, OpenedRegistered
    <3>2. factory'[c] # NoFactory /\ factory'[c].library = factory[c].library
      BY <1>2, <3>1, NoFactoryIsNone DEF Attach, FactoriesOf, NoFactoryIsNone
    <3> QED
      BY <3>1, <3>2
  <2> QED
    BY <1>2, <2>1, <2>3, <2>4, <2>5 DEF Attach
<1>3. CASE Open(l) /\ LibOf[l] \notin opened
  <2>1. factory' \in [Names -> [library : Libraries, owners : SUBSET Loaders]
                               \cup {NoFactory}]
    BY <1>3 DEF Open
  <2>2. ASSUME NEW c \in Names, factory[c] # NoFactory
        PROVE  c \notin Classes[LibOf[l]]
    BY <1>3, <2>2, DistinctNames DEF DistinctNames, FactoriesUsable, FactoriesRegistered
  <2>3. FactoriesUsable' /\ FactoriesRegistered'
    BY <1>3, <2>1 DEF Open, FactoriesUsable, FactoriesRegistered
  <2>4. \A c \in Names, k \in Loaders : IsOwnedBy(c, k) => IsOwnedBy(c, k)'
    BY <1>3, <2>2 DEF Open, IsOwnedBy
  <2>5. OpenedRegistered'
    <3> SUFFICES ASSUME NEW lib \in opened'
                 PROVE  \E c \in Names : factory'[c] # NoFactory /\ factory'[c].library = lib
      BY DEF OpenedRegistered
    <3>1. CASE lib = LibOf[l]
      <4>1. PICK c \in Names : c \in Classes[lib]
        BY <3>1, RegistersClass DEF RegistersClass, Names
      <4> QED
        BY <1>3, <3>1, <4>1, NoFactoryIsNone DEF Open, NoFactoryIsNone
    <3>2. CASE lib # LibOf[l]
      <4>1. PICK c \in Names : factory[c] # NoFactory /\ factory[c].library = lib
        BY <1>3, <3>2 DEF Open, OpenedRegistered
      <4> QED
        BY <1>3, <2>2, <4>1 DEF Open
    <3> QED
      BY <3>1, <3>2
  <2> QED
    BY <1>3, <2>1, <2>3, <2>4, <2>5 DEF Open
<1> QED
  BY <1>1, <1>2, <1>3 DEF Load

\* ClassLoader::UnloadLibrary, with or without the destruction of the loader
\* that follows when nothing remains, preserves the invariant.
LEMMA UnloadKeeps ==
    ASSUME NoFactoryIsNone, IInv, NEW l \in Loaders, l \in alive, UnloadCounted(l),
           alive' = alive \/ (alive' = alive \ {l} /\ loadRef'[l] = 0),
           UNCHANGED <<objRef, objects>>
    PROVE  IInv'
<1> USE LibOfAssumption, BoundAssumption
<1> LibOf[l] \in Libraries
  OBVIOUS
<1>1. loadRef' \in [Loaders -> 0..MaxLoads]
  BY DEF IInv, TypeOK, UnloadCounted
<1>2. CASE objRef[l] > 0
  <2>1. UNCHANGED <<loadRef, opened, factory>>
    BY <1>2 DEF UnloadCounted
  <2>2. loadRef[l] > 0
    BY <1>2 DEF IInv, TypeOK, ObjectsHold, FactoriesUsable, IsOwnedBy
  <2>3. alive' = alive
    BY <1>1, <2>1, <2>2 DEF IInv, TypeOK
  <2> QED
    BY <2>1, <2>3 DEF IInv, TypeOK, FactoriesUsable, FactoriesRegistered, ObjectsHold,
       OpenedRegistered, IsOwnedBy
<1>3. CASE ~(objRef[l] > 0) /\ loadRef[l] # 1
  <2>1. /\ UNCHANGED <<opened, factory>>
        /\ loadRef' = [loadRef EXCEPT ![l] = IF @ = 0 THEN 0 ELSE @ - 1]
    BY <1>3 DEF UnloadCounted
  <2>2. \A k \in Loaders : loadRef[k] > 0 => loadRef'[k] > 0
    BY <1>3, <2>1 DEF IInv, TypeOK
  <2>3. \A k \in Loaders : k \in alive /\ loadRef[k] > 0 => k \in alive'
    BY <2>2
  <2>4. FactoriesUsable'
    BY <2>1, <2>2, <2>3 DEF IInv, TypeOK, FactoriesUsable
  <2>5. ObjectsHold'
    BY <1>3, <2>1, <2>3 DEF IInv, TypeOK, ObjectsHold, IsOwnedBy, FactoriesUsable
  <2> QED
    BY <1>1, <2>1, <2>4, <2>5 DEF IInv, TypeOK, FactoriesRegistered, OpenedRegistered
<1>4. CASE ~(objRef[l] > 0) /\ loadRef[l] = 1
  <2>1. Unload(l) /\ loadRef' = [loadRef EXCEPT ![l] = IF @ = 0 THEN 0 ELSE @ - 1]
    BY <1>4 DEF UnloadCounted
  <2>2. factory' = GivenUp(l)
    BY <2>1 DEF Unload
  <2>3. factory' \in [Names -> [library : Libraries, owners : SUBSET Loaders]
                               \cup {NoFactory}]
    BY <2>2 DEF GivenUp, IInv, TypeOK, FactoriesOf
  <2>4. ASSUME NEW c \in Names, factory'[c] # NoFactory
        PROVE  /\ factory[c] # NoFactory
               /\ factory'[c].library = factory[c].library
               /\ factory'[c].owners = factory[c].owners \ {l}
               /\ factory'[c].owners # {}
    BY <2>2, <2>4 DEF GivenUp, IInv, TypeOK, FactoriesOf, IsOwnedBy, FactoriesUsable
  <2>5. \A c \in Names : factory'[c] # NoFactory => factory'[c].library \in opened'
    BY <2>1, <2>4 DEF Unload, FactoriesOf, IInv, TypeOK, FactoriesUsable
  <2>6. FactoriesUsable'
    BY <2>1, <2>3, <2>4, <2>5 DEF IInv, TypeOK, FactoriesUsable
  <2>7. FactoriesRegistered'
    BY <2>4 DEF IInv, FactoriesRegistered
  <2>8. \A c \in Names, k \in Loaders : k # l /\ IsOwnedBy(c, k) => IsOwnedBy(c, k)'
    BY <2>2, NoFactoryIsNone DEF GivenUp, IInv, TypeOK, FactoriesOf, IsOwnedBy, NoFactoryIsNone
  <2>9. ObjectsHold'
    BY <1>4, <2>8 DEF IInv, TypeOK, ObjectsHold
  <2>10. OpenedRegistered'
    <3> SUFFICES ASSUME NEW lib \in opened'
                 PROVE  \E c \in Names : factory'[c] # NoFactory /\ factory'[c].library = lib
      BY DEF OpenedRegistered
    <3>1. CASE lib = LibOf[l]
      BY <2>1, <3>1 DEF Unload, FactoriesOf
    <3>2. CASE lib # LibOf[l]
      <4>1. PICK c \in Names : factory[c] # NoFactory /\ factory[c].library = lib
        BY <2>1, <3>2 DEF Unload, IInv, OpenedRegistered
      <4> QED
        BY <2>2, <3>2, <4>1 DEF GivenUp, FactoriesOf
    <3> QED
      BY <3>1, <3>2
  <2> QED
    BY <1>1, <2>1, <2>3, <2>6, <2>7, <2>9, <2>10 DEF IInv, TypeOK, Unload
<1> QED
  BY <1>2, <1>3, <1>4

\* Every call preserves the invariant.
LEMMA NextIInv ==
    ASSUME DistinctNames, RegistersClass, NoFactoryIsNone, IInv, [Next]_vars
    PROVE  IInv'
<1> USE BoundAssumption
<1>1. CASE UNCHANGED vars
  BY <1>1 DEF vars, IInv, TypeOK, FactoriesUsable, FactoriesRegistered, ObjectsHold,
     OpenedRegistered, IsOwnedBy
<1>2. ASSUME NEW l \in Loaders, Construct(l)
      PROVE  IInv'
  <2>1. /\ alive' = alive \cup {l}
        /\ loadRef' \in [Loaders -> 0..MaxLoads]
        /\ loadRef'[l] > 0
        /\ \A k \in Loaders : k # l => loadRef'[k] = loadRef[k]
        /\ Load(l)
        /\ UNCHANGED <<objRef, objects>>
    BY <1>2 DEF Construct, IInv, TypeOK
  <2> QED
    BY <2>1, LoadKeeps DEF IInv, TypeOK, ObjectsHold
<1>3. ASSUME NEW l \in Loaders, LoadLibrary(l)
      PROVE  IInv'
  <2>1. /\ alive' = alive \cup {l}
        /\ loadRef' \in [Loaders -> 0..MaxLoads]
        /\ loadRef'[l] > 0
        /\ \A k \in Loaders : k # l => loadRef'[k] = loadRef[k]
        /\ Load(l)
        /\ UNCHANGED <<objRef, objects>>
    BY <1>3 DEF LoadLibrary, IInv, TypeOK
  <2> QED
    BY <2>1, LoadKeeps DEF IInv, TypeOK, ObjectsHold
<1>4. ASSUME NEW l \in Loaders, UnloadLibrary(l)
      PROVE  IInv'
  BY <1>4, UnloadKeeps DEF UnloadLibrary
<1>5. ASSUME NEW l \in Loaders, ManagerUnload(l)
      PROVE  IInv'
  BY <1>5, UnloadKeeps DEF ManagerUnload
<1>6. ASSUME NEW l \in Loaders, OnClassObjDeleter(l)
      PROVE  IInv'
  BY <1>6 DEF OnClassObjDeleter, IInv, TypeOK, FactoriesUsable, FactoriesRegistered,
     ObjectsHold, OpenedRegistered, IsOwnedBy
<1>7. ASSUME NEW l \in Loaders, NEW c \in Names, CreateClassObj(l, c)
      PROVE  IInv'
  <2> DEFINE Made == factory'[c] # NoFactory /\ l \in factory'[c].owners
  <2>1. /\ alive' = alive /\ l \in alive
        /\ objRef' \in [Loaders -> 0..MaxObjects]
        /\ objRef' = objects'
        /\ \A k \in Loaders : objects'[k] > 0 => objects[k] > 0 \/ (k = l /\ Made)
    BY <1>7 DEF CreateClassObj, IInv, TypeOK, ObjectsHold
  <2>2. CASE IsLibraryLoaded(l)
    <3>1. UNCHANGED <<loadRef, opened, factory>>
      BY <1>7, <2>2 DEF CreateClassObj
    <3> QED
      BY <2>1, <3>1 DEF IInv, TypeOK, FactoriesUsable, FactoriesRegistered, ObjectsHold,
         OpenedRegistered, IsOwnedBy
  <2>3. CASE ~IsLibraryLoaded(l)
    <3>1. /\ loadRef' \in [Loaders -> 0..MaxLoads]
          /\ loadRef'[l] > 0
          /\ \A k \in Loaders : k # l => loadRef'[k] = loadRef[k]
          /\ Load(l)
      BY <1>7, <2>3 DEF CreateClassObj, IInv, TypeOK
    <3>2. alive' = alive \cup {l}
      BY <2>1
    <3>3. /\ opened' \subseteq Libraries
          /\ factory' \in [Names -> [library : Libraries, owners : SUBSET Loaders]
                                    \cup {NoFactory}]
          /\ FactoriesUsable'
          /\ FactoriesRegistered'
          /\ OpenedRegistered'
          /\ \A d \in Names, k \in Loaders : IsOwnedBy(d, k) => IsOwnedBy(d, k)'
      BY <3>1, <3>2, LoadKeeps
    <3>4. ObjectsHold'
      BY <2>1, <3>3 DEF IInv, ObjectsHold, IsOwnedBy
    <3> QED
      BY <2>1, <3>1, <3>3, <3>4 DEF IInv, TypeOK
  <2> QED
    BY <2>2, <2>3
<1> QED
  BY <1>1, <1>2, <1>3, <1>4, <1>5, <1>6, <1>7 DEF Next

\* Whatever the number of libraries and loaders, the code of a live object
\* stays loaded and its class loader stays alive, every registered factory can
\* be used, and an open library has a loader that can close it, through any
\* sequence of calls of ClassLoader and of ClassLoaderManager::UnloadLibrary,
\* if every library has classes and their names are distinct.
THEOREM CodeStaysLoaded ==
    ASSUME DistinctNames, RegistersClass, NoFactoryIsNone
    PROVE  Spec => []LibrariesInUse
<1>1. Init => IInv
  BY InitIInv
<1>2. IInv /\ [Next]_vars => IInv'
  BY NextIInv
<1>3. IInv => LibrariesInUse
  <2> SUFFICES ASSUME IInv PROVE LibrariesInUse
    OBVIOUS
  <2>1. CodeStays /\ FactoriesUsable /\ TypeOK
    BY DEF IInv, TypeOK, ObjectsHold, FactoriesUsable, CodeStays, IsOwnedBy
  <2>2. NoOrphans
    BY DEF IInv, TypeOK, FactoriesUsable, OpenedRegistered, NoOrphans
  <2> QED
    BY <2>1, <2>2 DEF LibrariesInUse
<1> QED
  BY <1>1, <1>2, <1>3, PTL DEF Spec
=============================================================================
