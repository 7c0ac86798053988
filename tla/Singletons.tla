----------------------------- MODULE Singletons -----------------------------
(***************************************************************************)
(* How singletons are kept: the SinValue variants, the code that the       *)
(* singleton! macro generates to convert a caller's value to a variant and *)
(* back, and the values that callers share with the store: the Arcs they   *)
(* put in and get out, and static references.                              *)
(*                                                                         *)
(* A Cell is a place on the heap or a static.  A cell on the heap is freed *)
(* when nothing holds it.  Every action is one call under the lock, or one *)
(* of a caller who needs no lock: handles outlive guards.  (A call by      *)
(* another owner than the singleton's panics and changes nothing.)         *)
(***************************************************************************)
CONSTANTS
    Owner, Singleton, SinVal, None, DebugAssertions,
    class,      \* class[s]: the storage class in the declaration of s
    Cell,
    Static      \* cells behind &'static references

Variant == {"U64", "Box", "Arc", "Ref"}

ASSUME SingletonsAssumption ==
    /\ class \in [Singleton -> Variant]
    /\ Static \subseteq Cell
    /\ None \notin Owner /\ None \notin SinVal

VARIABLES
    entries,    \* the HashMap: owner and SinValue of a singleton
    heap,       \* heap[c]: the value in cell c, None if it is free
    held        \* cells that callers have an Arc of or a static reference to

sinVars == <<entries, heap, held>>

Option(S) == S \cup {None}

\* The payload of SinValue::U64 is the value, of the others a cell.
Tombstone == [variant |-> "None", payload |-> None]
SinValue ==
    [variant : {"U64"}, payload : SinVal]
        \cup [variant : {"Box", "Arc", "Ref"}, payload : Cell]
        \cup {Tombstone}

Entry == [owner : Owner, sin : SinValue]

ASSUME EntryAssumption == None \notin Entry

SinTypeOK ==
    /\ entries \in [Singleton -> Option(Entry)]
    /\ heap \in [Cell -> Option(SinVal)]
    /\ held \in SUBSET Cell

SinInit ==
    /\ entries = [s \in Singleton |-> None]
    /\ \E values \in [Static -> SinVal] :
          heap = [c \in Cell |-> IF c \in Static THEN values[c] ELSE None]
    /\ held = Static

----------------------------------------------------------------------------
(* Conversions.                                                            *)

\* A mistake, for mutation checks: a tombstone counts as a value.
HasValueSlip(s) == entries[s] # None

\* map_singleton_value: a tombstone counts as absent.
HasValue(s) == entries[s] # None /\ entries[s].sin # Tombstone

\* from_value_ref: what an accessor of s reads.
FromValueRef(sin) == IF sin.variant = "U64" THEN sin.payload ELSE heap[sin.payload]

SinGet(s) == IF HasValue(s) THEN FromValueRef(entries[s].sin) ELSE None

\* A mistake, for mutation checks: a static reference is taken for an Arc.
ToValueSlip(s) ==
    CASE class[s] = "U64" -> {[sin |-> [variant |-> "U64", payload |-> v],
                               heap |-> heap] : v \in SinVal}
      [] class[s] = "Box" -> {[sin |-> [variant |-> "Box", payload |-> c],
                               heap |-> [heap EXCEPT ![c] = v]] :
                                  c \in {x \in Cell : heap[x] = None}, v \in SinVal}
      [] OTHER -> {[sin |-> [variant |-> "Arc", payload |-> c], heap |-> heap] :
                       c \in IF class[s] = "Arc" THEN held \ Static ELSE Static}

\* to_value: a value goes inline or into a new Box, an Arc is cloned.
ToValue(s) ==
    CASE class[s] = "U64" -> {[sin |-> [variant |-> "U64", payload |-> v],
                               heap |-> heap] : v \in SinVal}
      [] class[s] = "Box" -> {[sin |-> [variant |-> "Box", payload |-> c],
                               heap |-> [heap EXCEPT ![c] = v]] :
                                  c \in {x \in Cell : heap[x] = None}, v \in SinVal}
      [] class[s] = "Arc" -> {[sin |-> [variant |-> "Arc", payload |-> c],
                               heap |-> heap] : c \in held \ Static}
      [] class[s] = "Ref" -> {[sin |-> [variant |-> "Ref", payload |-> c],
                               heap |-> heap] : c \in Static}

\* from_value: the caller gets an Arc back; a boxed value is moved out.
Handed(s) ==
    IF HasValue(s) /\ entries[s].sin.variant = "Arc"
    THEN {entries[s].sin.payload} ELSE {}

\* Cells that entries point to.
Pointed(es) ==
    {es[s].sin.payload : s \in {x \in Singleton :
        es[x] # None /\ es[x].sin.variant \in Variant \ {"U64"}}}

Freed(h, es, hs) ==
    [c \in Cell |-> IF c \in Static \cup hs \cup Pointed(es) THEN h[c] ELSE None]

----------------------------------------------------------------------------
(* SingletonOpsMut.                                                        *)

\* assert_owner: a tombstone has an owner, too.
AssertOwner(s, o) ==
    entries[s] # None /\ DebugAssertions => entries[s].owner = o

\* The caller gets what was there before.
Put(s, entry, h) ==
    /\ entries' = [entries EXCEPT ![s] = entry]
    /\ held' = held \cup Handed(s)
    /\ heap' = Freed(h, entries', held')

Insert(o, s) ==
    /\ AssertOwner(s, o)
    /\ \E new \in ToValue(s) :
          Put(s, [owner |-> o, sin |-> new.sin], new.heap)

\* A mistake, for mutation checks: a tombstone stays behind.
RemoveSlip(o, s) ==
    /\ AssertOwner(s, o)
    /\ Put(s, [owner |-> o, sin |-> Tombstone], heap)

Remove(o, s) == AssertOwner(s, o) /\ Put(s, None, heap)

\* A mistake, for mutation checks: the entry goes, and with it the owner.
ClearSlip(o, s) == AssertOwner(s, o) /\ Put(s, None, heap)

Clear(o, s) ==
    /\ AssertOwner(s, o)
    /\ Put(s, [owner |-> o, sin |-> Tombstone], heap)

\* A mistake, for mutation checks: MutSingleton for every class.
MutSingletonSlip(s) == TRUE

\* The classes that singleton! implements MutSingleton for.
MutSingleton(s) == class[s] \in {"U64", "Box"}

\* The closure of mutate writes through from_value_mut, panics or not.
Mutate(o, s, v) ==
    /\ MutSingleton(s)
    /\ AssertOwner(s, o)
    /\ HasValue(s)
    /\ IF entries[s].sin.variant = "U64"
       THEN /\ entries' = [entries EXCEPT ![s].sin.payload = v]
            /\ UNCHANGED heap
       ELSE /\ heap' = [heap EXCEPT ![entries[s].sin.payload] = v]
            /\ UNCHANGED entries
    /\ UNCHANGED held

----------------------------------------------------------------------------
(* Handles.                                                                *)

\* get_arc, of any owner: from_value_arc clones the Arc.
GetArc(s) ==
    /\ class[s] = "Arc" /\ HasValue(s)
    /\ held' = held \cup {entries[s].sin.payload}
    /\ UNCHANGED <<entries, heap>>

\* Callers make an Arc of their own, and drop the last one they have.
NewArc(c, v) ==
    /\ heap[c] = None
    /\ heap' = [heap EXCEPT ![c] = v]
    /\ held' = held \cup {c}
    /\ UNCHANGED entries

DropArc(c) ==
    /\ c \in held \ Static
    /\ held' = held \ {c}
    /\ heap' = Freed(heap, entries, held')
    /\ UNCHANGED entries

SinNext ==
    \/ \E s \in Singleton :
          \/ \E o \in Owner :
                \/ Insert(o, s) \/ Remove(o, s) \/ Clear(o, s)
                \/ \E v \in SinVal : Mutate(o, s, v)
          \/ GetArc(s)
    \/ \E c \in Cell :
          \/ \E v \in SinVal : NewArc(c, v)
          \/ DropArc(c)

SinSpec == SinInit /\ [][SinNext]_sinVars

----------------------------------------------------------------------------
(* Properties.                                                             *)

\* Whatever an accessor of s finds has the variant that s is declared with: no
\* conversion that singleton! generates comes to its unreachable!().
VariantsMatch ==
    \A s \in Singleton : HasValue(s) => entries[s].sin.variant = class[s]

\* "The value in the store is unique" (schema.rs, MutSingleton): nobody else,
\* neither a caller nor another singleton, gets at a value that mutate can
\* change.  (An inline value is in nobody's reach.)
MutableIsUnique ==
    \A s \in Singleton :
        HasValue(s) /\ MutSingleton(s) /\ entries[s].sin.variant # "U64" =>
            LET c == entries[s].sin.payload
            IN  c \notin held \cup Pointed([entries EXCEPT ![s] = None])

\* A caller who has an Arc or a static reference sees one value for as long as
\* it has it, whatever others put in, mutate and take out meanwhile.
SharedValuesStay ==
    [][\A c \in held \cap held' : heap'[c] = heap[c]]_sinVars

\* However values are kept and shared, calls act on (owner, value) pairs as
\* module Storage has it: no call on one singleton touches another, and no
\* caller with a handle touches any.
Pair(s) ==
    [owner |-> IF entries[s] = None THEN None ELSE entries[s].owner,
     value |-> SinGet(s)]

Nothing == [x \in {} |-> None]

Pairs == INSTANCE Storage WITH
    Key <- {}, Value <- {}, Index <- {}, IndexKey <- {}, field <- Nothing,
    UniqueFields <- FALSE, DirectIndexAccess <- FALSE, CatchUnwind <- FALSE,
    StaleKeyIntact <- TRUE,
    singletons <- [s \in Singleton |-> Pair(s)],
    table <- [owner |-> None, data |-> Nothing, indexes |-> Nothing,
              indexOwner |-> Nothing]

CallsActOnPairs ==
    \A o \in Owner, s \in Singleton :
        /\ Insert(o, s) => \E v \in SinVal : Pairs!SingletonInsert(o, s, v)
        /\ Remove(o, s) => Pairs!SingletonRemove(o, s)
        /\ Clear(o, s) => Pairs!SingletonClear(o, s)
        /\ \A v \in SinVal : Mutate(o, s, v) => Pairs!SingletonMutate(o, s, v)

ImplementsPairs ==
    /\ Pairs!StorageInit
    /\ [][\E o \in Owner : Pairs!SingletonCall(o)]_(Pairs!storageVars)
    /\ [][CallsActOnPairs]_sinVars
=============================================================================
