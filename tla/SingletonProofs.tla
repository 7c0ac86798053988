--------------------------- MODULE SingletonProofs ---------------------------
(***************************************************************************)
(* Proofs about Singletons and Claims: variants match declarations; a      *)
(* value that mutate can change is behind nobody else's handle, and so the *)
(* store of variants, cells and handles implements the (owner, value)      *)
(* pairs of Storage; a singleton belongs to its claimant.                  *)
(***************************************************************************)
EXTENDS Claims, TLAPS

\* s keeps its value in cell c.
Points(s, c) ==
    HasValue(s) /\ entries[s].sin.variant # "U64" /\ entries[s].sin.payload = c

SinInv ==
    /\ SinTypeOK
    /\ Static \subseteq held
    /\ \A s \in Singleton : HasValue(s) => entries[s].sin.variant = class[s]
    /\ \A c \in held : heap[c] # None
    /\ \A s \in Singleton, c \in Cell : Points(s, c) => heap[c] # None
    /\ \A s \in Singleton, c \in Cell :
          Points(s, c) /\ class[s] = "Box" =>
              c \notin held /\ \A z \in Singleton \ {s} : ~Points(z, c)

LEMMA EntryTyped ==
    ASSUME SinInv, NEW s \in Singleton, HasValue(s)
    PROVE  /\ entries[s] \in Entry
           /\ entries[s].sin.variant = class[s]
           /\ class[s] = "U64" => entries[s].sin.payload \in SinVal
           /\ class[s] # "U64" => entries[s].sin.payload \in Cell
<1>1. entries[s] \in Entry /\ entries[s].sin.variant = class[s]
    BY DEF SinInv, SinTypeOK, HasValue, Option
<1>2. entries[s].sin \in SinValue /\ entries[s].sin # Tombstone
    BY <1>1 DEF Entry, HasValue
<1>3. entries[s].sin.variant = "U64" => entries[s].sin.payload \in SinVal
    BY <1>2 DEF SinValue, Tombstone
<1>4. entries[s].sin.variant # "U64" => entries[s].sin.payload \in Cell
    BY <1>2 DEF SinValue, Tombstone
<1> QED BY <1>1, <1>3, <1>4

LEMMA PointedByEntries ==
    ASSUME SinInv, NEW c
    PROVE  c \in Pointed(entries) <=> \E s \in Singleton : Points(s, c)
<1>1. ASSUME NEW s \in Singleton
      PROVE  HasValue(s) /\ entries[s].sin.variant # "U64"
                <=> entries[s] # None /\ entries[s].sin.variant \in Variant \ {"U64"}
    <2>1. CASE HasValue(s)
        <3>1. class[s] \in Variant
            BY SingletonsAssumption
        <3> QED BY <2>1, <3>1, EntryTyped DEF HasValue
    <2>2. CASE ~HasValue(s)
        BY <2>2 DEF HasValue, Tombstone, Variant
    <2> QED BY <2>1, <2>2
<1> QED BY <1>1 DEF Pointed, Points

\* What accessors read is a value.
LEMMA GetTyped ==
    ASSUME SinInv, NEW s \in Singleton
    PROVE  /\ HasValue(s) => SinGet(s) \in SinVal
           /\ ~HasValue(s) => SinGet(s) = None
           /\ None \notin SinVal
<1>1. CASE HasValue(s) /\ class[s] = "U64"
    BY <1>1, EntryTyped, SingletonsAssumption DEF SinGet, FromValueRef
<1>2. CASE HasValue(s) /\ class[s] # "U64"
    <2> DEFINE c == entries[s].sin.payload
    <2>1. c \in Cell /\ Points(s, c) /\ entries[s].sin.variant # "U64"
        BY <1>2, EntryTyped DEF Points
    <2>2. heap[c] \in SinVal
        BY <2>1 DEF SinInv, SinTypeOK, Option
    <2> QED BY <1>2, <2>1, <2>2, SingletonsAssumption DEF SinGet, FromValueRef
<1> QED BY <1>1, <1>2, SingletonsAssumption DEF SinGet

----------------------------------------------------------------------------
(* Put, with what insert, remove and clear put in.                          *)

\* What an entry that goes in for s must be: a boxed value is in a cell that
\* was free, a shared one in a cell that the caller has a handle of.
Fits(s, entry, h) ==
    /\ entry \in Option(Entry)
    /\ h \in [Cell -> Option(SinVal)]
    /\ \A c \in Cell : heap[c] # None => h[c] = heap[c]
    /\ entry # None /\ entry.sin # Tombstone =>
          /\ entry.sin.variant = class[s]
          /\ class[s] # "U64" => entry.sin.payload \in Cell
          /\ class[s] # "U64" => h[entry.sin.payload] # None
          /\ class[s] = "Box" => heap[entry.sin.payload] = None
          /\ class[s] \in {"Arc", "Ref"} => entry.sin.payload \in held

LEMMA HandedPoints ==
    ASSUME SinInv, NEW s \in Singleton, NEW c \in Handed(s)
    PROVE  c \in Cell /\ Points(s, c) /\ class[s] = "Arc" /\ heap[c] # None
<1>1. HasValue(s) /\ entries[s].sin.variant = "Arc" /\ c = entries[s].sin.payload
    BY DEF Handed
<1>2. class[s] = "Arc" /\ c \in Cell
    BY <1>1, EntryTyped
<1> QED BY <1>1, <1>2 DEF Points, SinInv

\* Who points where after Put.
LEMMA PutPoints ==
    ASSUME SinInv, NEW s \in Singleton, NEW entry, NEW h,
           Fits(s, entry, h), Put(s, entry, h)
    PROVE  /\ \A z \in Singleton \ {s} :
                 /\ HasValue(z)' <=> HasValue(z)
                 /\ entries'[z] = entries[z]
                 /\ \A c \in Cell : Points(z, c)' <=> Points(z, c)
           /\ HasValue(s)' <=> entry # None /\ entry.sin # Tombstone
           /\ entries'[s] = entry
           /\ \A c \in Cell : Points(s, c)' =>
                 /\ h[c] # None
                 /\ class[s] = "Box" => heap[c] = None
                 /\ class[s] # "Box" => c \in held
<1>1. entries' = [entries EXCEPT ![s] = entry] /\ entries \in [Singleton -> Option(Entry)]
    BY DEF Put, SinInv, SinTypeOK
<1>2. ASSUME NEW z \in Singleton \ {s}
      PROVE  /\ HasValue(z)' <=> HasValue(z)
             /\ entries'[z] = entries[z]
             /\ \A c \in Cell : Points(z, c)' <=> Points(z, c)
    BY <1>1, <1>2 DEF HasValue, Points
<1>3. entries'[s] = entry /\ (HasValue(s)' <=> entry # None /\ entry.sin # Tombstone)
    BY <1>1 DEF HasValue
<1>4. ASSUME NEW c \in Cell, Points(s, c)'
      PROVE  /\ h[c] # None
             /\ class[s] = "Box" => heap[c] = None
             /\ class[s] # "Box" => c \in held
    <2>1. /\ entry # None /\ entry.sin # Tombstone
          /\ entry.sin.variant # "U64" /\ entry.sin.payload = c
        BY <1>3, <1>4 DEF Points
    <2>2. entry.sin.variant = class[s] /\ class[s] \in Variant
        BY <2>1, SingletonsAssumption DEF Fits
    <2> QED BY <2>1, <2>2 DEF Fits, Variant
<1> QED BY <1>2, <1>3, <1>4

LEMMA PutKeepsInv ==
    ASSUME SinInv, NEW s \in Singleton, NEW entry, NEW h,
           Fits(s, entry, h), Put(s, entry, h)
    PROVE  SinInv'
<1>a. /\ entries' = [entries EXCEPT ![s] = entry]
      /\ held' = held \cup Handed(s)
      /\ heap' = Freed(h, entries', held')
    BY DEF Put
<1>1. Handed(s) \subseteq Cell
    BY HandedPoints
<1>2. SinTypeOK'
    <2>1. entries' \in [Singleton -> Option(Entry)]
        BY <1>a DEF SinInv, SinTypeOK, Fits
    <2>2. heap' \in [Cell -> Option(SinVal)]
        BY <1>a DEF Freed, Fits, Option
    <2>3. held' \in SUBSET Cell
        BY <1>a, <1>1 DEF SinInv, SinTypeOK
    <2> QED BY <2>1, <2>2, <2>3 DEF SinTypeOK
<1>3. Static \subseteq held'
    BY <1>a DEF SinInv
<1>4. ASSUME NEW z \in Singleton, HasValue(z)'
      PROVE  entries'[z].sin.variant = class[z]
    <2>1. CASE z = s
        BY <1>4, <2>1, PutPoints DEF Fits
    <2>2. CASE z # s
        BY <1>4, <2>2, PutPoints, EntryTyped
    <2> QED BY <2>1, <2>2
<1>5. ASSUME NEW c \in held'
      PROVE  heap'[c] # None
    <2>1. c \in Cell
        BY <1>2 DEF SinTypeOK
    <2>2. heap[c] # None
        BY <1>a, HandedPoints DEF SinInv
    <2>3. h[c] # None
        BY <2>1, <2>2 DEF Fits
    <2> QED BY <1>a, <2>1, <2>3 DEF Freed
<1>6. ASSUME NEW z \in Singleton, NEW c \in Cell, Points(z, c)'
      PROVE  heap'[c] # None
    <2>1. h[c] # None
        <3>1. CASE z = s
            BY <1>6, <3>1, PutPoints
        <3>2. CASE z # s
            <4>1. Points(z, c)
                BY <1>6, <3>2, PutPoints
            <4>2. heap[c] # None
                BY <4>1 DEF SinInv
            <4> QED BY <4>2 DEF Fits
        <3> QED BY <3>1, <3>2
    <2>2. /\ entries'[z] # None /\ entries'[z].sin.payload = c
          /\ entries'[z].sin.variant = class[z] /\ class[z] \in Variant \ {"U64"}
        BY <1>4, <1>6, SingletonsAssumption DEF Points, HasValue
    <2>3. c \in Pointed(entries')
        BY <2>2 DEF Pointed
    <2> QED BY <1>a, <2>1, <2>3 DEF Freed
<1>7. ASSUME NEW b \in Singleton, NEW c \in Cell, Points(b, c)', class[b] = "Box"
      PROVE  c \notin held' /\ \A z \in Singleton \ {b} : ~Points(z, c)'
    <2>1. CASE b = s
        <3>1. heap[c] = None
            BY <1>7, <2>1, PutPoints
        <3>2. c \notin held'
            BY <1>a, <3>1, HandedPoints DEF SinInv
        <3>3. ASSUME NEW z \in Singleton \ {b} PROVE ~Points(z, c)'
            BY <2>1, <3>1, PutPoints DEF SinInv
        <3> QED BY <3>2, <3>3
    <2>2. CASE b # s
        <3>1. Points(b, c)
            BY <1>7, <2>2, PutPoints
        <3>2. /\ c \notin held /\ heap[c] # None
              /\ \A z \in Singleton \ {b} : ~Points(z, c)
            BY <1>7, <3>1 DEF SinInv
        <3>3. c \notin held'
            BY <1>a, <2>2, <3>2, HandedPoints
        <3>4. ~Points(s, c)'
            BY <3>2, PutPoints
        <3>5. ASSUME NEW z \in Singleton \ {b, s} PROVE ~Points(z, c)'
            BY <3>2, PutPoints
        <3> QED BY <2>2, <3>3, <3>4, <3>5
    <2> QED BY <2>1, <2>2
<1> QED BY <1>2, <1>3, <1>4, <1>5, <1>6, <1>7 DEF SinInv

\* What the other singletons hold, and what handles lead to, stays.
LEMMA PutKeepsValues ==
    ASSUME SinInv, NEW s \in Singleton, NEW entry, NEW h,
           Fits(s, entry, h), Put(s, entry, h)
    PROVE  /\ \A z \in Singleton \ {s} : SinGet(z)' = SinGet(z)
           /\ \A c \in held \cap held' : heap'[c] = heap[c]
<1>1. SinInv'
    BY PutKeepsInv
<1>2. ASSUME NEW c \in Cell, heap[c] # None, heap'[c] # None
      PROVE  heap'[c] = heap[c]
    <2>1. heap'[c] = h[c]
        BY <1>2 DEF Put, Freed
    <2> QED BY <1>2, <2>1 DEF Fits
<1>3. ASSUME NEW z \in Singleton \ {s}
      PROVE  SinGet(z)' = SinGet(z)
    <2>0. (HasValue(z)' <=> HasValue(z)) /\ entries'[z] = entries[z]
        BY <1>3, PutPoints
    <2>1. CASE HasValue(z) /\ entries[z].sin.variant # "U64"
        <3>1. PICK c \in Cell : c = entries[z].sin.payload /\ Points(z, c)
            BY <2>1, EntryTyped DEF Points
        <3>2. Points(z, c)'
            BY <1>3, <3>1, PutPoints
        <3>3. heap'[c] = heap[c]
            BY <1>1, <1>2, <3>1, <3>2 DEF SinInv
        <3>4. SinGet(z) = heap[c]
            BY <2>1, <3>1 DEF SinGet, FromValueRef
        <3>5. SinGet(z)' = heap'[c]
            BY <2>0, <2>1, <3>1 DEF SinGet, FromValueRef
        <3> QED BY <3>3, <3>4, <3>5
    <2>2. CASE ~(HasValue(z) /\ entries[z].sin.variant # "U64")
        BY <2>0, <2>2 DEF SinGet, FromValueRef
    <2> QED BY <2>1, <2>2
<1>4. ASSUME NEW c \in held \cap held'
      PROVE  heap'[c] = heap[c]
    BY <1>1, <1>2 DEF SinInv, SinTypeOK
<1> QED BY <1>3, <1>4

LEMMA InsertFits ==
    ASSUME SinInv, NEW o \in Owner, NEW s \in Singleton, NEW new \in ToValue(s)
    PROVE  /\ Fits(s, [owner |-> o, sin |-> new.sin], new.heap)
           /\ [owner |-> o, sin |-> new.sin] \in Entry
           /\ new.sin # Tombstone
<1> DEFINE entry == [owner |-> o, sin |-> new.sin]
<1>0. class[s] \in Variant
    BY SingletonsAssumption
<1>1. CASE class[s] = "U64"
    <2>1. PICK v \in SinVal : /\ new.sin = [variant |-> "U64", payload |-> v]
                              /\ new.heap = heap
        BY <1>1 DEF ToValue
    <2>2. entry \in Entry /\ new.sin # Tombstone
        BY <2>1 DEF Entry, SinValue, Tombstone
    <2> QED BY <1>1, <2>1, <2>2 DEF Fits, SinInv, SinTypeOK, Option
<1>2. CASE class[s] = "Box"
    <2>1. PICK c \in {x \in Cell : heap[x] = None}, v \in SinVal :
              /\ new.sin = [variant |-> "Box", payload |-> c]
              /\ new.heap = [heap EXCEPT ![c] = v]
        <3>1. ToValue(s) =
                 {[sin |-> [variant |-> "Box", payload |-> c],
                   heap |-> [heap EXCEPT ![c] = v]] :
                      c \in {x \in Cell : heap[x] = None}, v \in SinVal}
            BY <1>2 DEF ToValue
        <3>2. PICK c \in {x \in Cell : heap[x] = None}, v \in SinVal :
                  new = [sin |-> [variant |-> "Box", payload |-> c],
                         heap |-> [heap EXCEPT ![c] = v]]
            BY <3>1
        <3> QED BY <3>2
    <2>2. new.heap \in [Cell -> Option(SinVal)] /\ new.heap[c] = v /\ v # None
        <3>1. /\ heap \in [Cell -> Option(SinVal)] /\ v \in Option(SinVal)
              /\ v # None
            BY SingletonsAssumption DEF SinInv, SinTypeOK, Option
        <3>2. [heap EXCEPT ![c] = v] \in [Cell -> Option(SinVal)]
            BY <3>1
        <3> QED BY <2>1, <3>1, <3>2
    <2>3. \A d \in Cell : heap[d] # None => new.heap[d] = heap[d]
        BY <2>1 DEF SinInv, SinTypeOK
    <2>4. entry \in Entry /\ new.sin # Tombstone
        BY <2>1 DEF Entry, SinValue, Tombstone
    <2> QED BY <1>2, <2>1, <2>2, <2>3, <2>4 DEF Fits, Option
<1>3. CASE class[s] \in {"Arc", "Ref"}
    <2>1. PICK c \in held : /\ new.sin = [variant |-> class[s], payload |-> c]
                            /\ new.heap = heap
        BY <1>3 DEF ToValue, SinInv
    <2>2. c \in Cell /\ heap[c] # None
        BY <2>1 DEF SinInv, SinTypeOK
    <2>3. entry \in Entry /\ new.sin # Tombstone
        BY <1>3, <2>1, <2>2 DEF Entry, SinValue, Tombstone
    <2> QED BY <1>3, <2>1, <2>2, <2>3 DEF Fits, SinInv, SinTypeOK, Option
<1> QED BY <1>0, <1>1, <1>2, <1>3 DEF Variant

LEMMA RemoveAndClearFit ==
    ASSUME SinInv, NEW o \in Owner, NEW s \in Singleton
    PROVE  /\ Fits(s, None, heap)
           /\ Fits(s, [owner |-> o, sin |-> Tombstone], heap)
BY DEF Fits, SinInv, SinTypeOK, Option, Entry, SinValue, Tombstone

----------------------------------------------------------------------------
(* The other actions.                                                       *)

LEMMA MutateStep ==
    ASSUME SinInv, NEW o \in Owner, NEW s \in Singleton, NEW v \in SinVal,
           Mutate(o, s, v)
    PROVE  /\ SinInv'
           /\ SinGet(s)' = v
           /\ \A z \in Singleton \ {s} : SinGet(z)' = SinGet(z)
           /\ \A z \in Singleton :
                 /\ entries'[z] = None <=> entries[z] = None
                 /\ entries[z] # None => entries'[z].owner = entries[z].owner
           /\ \A c \in held : heap'[c] = heap[c]
<1>0. HasValue(s) /\ held' = held /\ class[s] \in {"U64", "Box"}
    BY DEF Mutate, MutSingleton
<1>1. CASE class[s] = "U64"
    <2> DEFINE e == entries[s]
    <2>1. e \in Entry /\ e.sin.variant = "U64" /\ e # None
        BY <1>0, <1>1, EntryTyped DEF HasValue
    <2>2. e.sin = [variant |-> "U64", payload |-> e.sin.payload]
        BY <2>1 DEF Entry, SinValue, Tombstone
    <2>3. /\ entries' = [entries EXCEPT ![s].sin.payload = v]
          /\ heap' = heap
        BY <2>1 DEF Mutate
    <2>4. entries'[s] = [owner |-> e.owner, sin |-> [variant |-> "U64", payload |-> v]]
        BY <2>1, <2>2, <2>3 DEF SinInv, SinTypeOK, Entry
    <2>5. \A z \in Singleton \ {s} : entries'[z] = entries[z]
        BY <2>3 DEF SinInv, SinTypeOK
    <2>6. entries'[s] \in Entry /\ entries'[s] # None /\ HasValue(s)'
        <3>1. entries'[s] \in Entry
            BY <2>1, <2>4 DEF Entry, SinValue
        <3>2. entries'[s] # None
            BY <3>1, EntryAssumption
        <3>3. entries'[s].sin # Tombstone
            BY <2>4 DEF Tombstone
        <3> QED BY <3>1, <3>2, <3>3 DEF HasValue
    <2>7. \A z \in Singleton \ {s} : HasValue(z)' <=> HasValue(z)
        BY <2>5 DEF HasValue
    <2>8. \A z \in Singleton, c \in Cell : Points(z, c)' <=> Points(z, c)
        BY <2>1, <2>4, <2>5, <2>7 DEF Points
    <2>9. SinTypeOK'
        <3>1. entries' \in [Singleton -> Option(Entry)]
            BY <2>3, <2>5, <2>6 DEF SinInv, SinTypeOK, Option
        <3> QED BY <1>0, <2>3, <3>1 DEF SinInv, SinTypeOK
    <2>10. \A z \in Singleton : HasValue(z)' => entries'[z].sin.variant = class[z]
        BY <1>1, <2>4, <2>5, <2>7 DEF SinInv
    <2>11. SinInv'
        BY <1>0, <2>3, <2>8, <2>9, <2>10 DEF SinInv
    <2>12. SinGet(s)' = v
        BY <2>4, <2>6 DEF SinGet, FromValueRef
    <2>13. \A z \in Singleton \ {s} : SinGet(z)' = SinGet(z)
        BY <2>3, <2>5, <2>7 DEF SinGet, FromValueRef
    <2>14. \A z \in Singleton :
              /\ entries'[z] = None <=> entries[z] = None
              /\ entries[z] # None => entries'[z].owner = entries[z].owner
        BY <2>1, <2>4, <2>5, <2>6
    <2> QED BY <2>3, <2>11, <2>12, <2>13, <2>14
<1>2. CASE class[s] = "Box"
    <2> DEFINE c == entries[s].sin.payload
    <2>1. c \in Cell /\ entries[s].sin.variant = "Box" /\ Points(s, c)
        BY <1>0, <1>2, EntryTyped DEF Points
    <2>2. entries' = entries /\ heap' = [heap EXCEPT ![c] = v]
        BY <2>1 DEF Mutate
    <2>3. c \notin held /\ \A z \in Singleton \ {s} : ~Points(z, c)
        BY <1>2, <2>1 DEF SinInv
    <2>4. /\ heap'[c] = v /\ v # None
          /\ \A d \in Cell \ {c} : heap'[d] = heap[d]
          /\ heap' \in [Cell -> Option(SinVal)]
        BY <2>1, <2>2, SingletonsAssumption DEF SinInv, SinTypeOK, Option
    <2>5. \A z \in Singleton : HasValue(z)' <=> HasValue(z)
        BY <2>2 DEF HasValue
    <2>6. \A z \in Singleton, d \in Cell : Points(z, d)' <=> Points(z, d)
        BY <2>2, <2>5 DEF Points
    <2>7. \A d \in held : heap'[d] = heap[d]
        BY <2>3, <2>4 DEF SinInv, SinTypeOK
    <2>8. SinInv'
        <3>1. SinTypeOK'
            BY <1>0, <2>2, <2>4 DEF SinInv, SinTypeOK
        <3>2. \A d \in held' : heap'[d] # None
            BY <1>0, <2>7 DEF SinInv
        <3>3. \A z \in Singleton, d \in Cell : Points(z, d)' => heap'[d] # None
            BY <2>4, <2>6 DEF SinInv
        <3> QED BY <1>0, <2>2, <2>5, <2>6, <3>1, <3>2, <3>3 DEF SinInv
    <2>9. SinGet(s)' = v
        BY <1>0, <2>1, <2>2, <2>4, <2>5 DEF SinGet, FromValueRef
    <2>10. ASSUME NEW z \in Singleton \ {s} PROVE SinGet(z)' = SinGet(z)
        <3>1. CASE HasValue(z) /\ entries[z].sin.variant # "U64"
            <4>1. entries[z].sin.payload \in Cell /\ Points(z, entries[z].sin.payload)
                BY <3>1, EntryTyped DEF Points
            <4>2. entries[z].sin.payload # c
                BY <2>3, <4>1
            <4> QED BY <2>2, <2>4, <2>5, <4>1, <4>2 DEF SinGet, FromValueRef
        <3>2. CASE ~(HasValue(z) /\ entries[z].sin.variant # "U64")
            BY <2>2, <2>5, <3>2 DEF SinGet, FromValueRef
        <3> QED BY <3>1, <3>2
    <2> QED BY <2>2, <2>7, <2>8, <2>9, <2>10
<1> QED BY <1>0, <1>1, <1>2

\* What callers do with handles.
HandleStep ==
    \/ \E s \in Singleton : GetArc(s)
    \/ \E c \in Cell : (\E v \in SinVal : NewArc(c, v)) \/ DropArc(c)

LEMMA HandleSteps ==
    ASSUME SinInv, HandleStep
    PROVE  /\ SinInv'
           /\ entries' = entries
           /\ \A z \in Singleton : SinGet(z)' = SinGet(z)
           /\ \A c \in held \cap held' : heap'[c] = heap[c]
<1>0. /\ entries' = entries
      /\ \A z \in Singleton : HasValue(z)' <=> HasValue(z)
      /\ \A z \in Singleton, c \in Cell : Points(z, c)' <=> Points(z, c)
    BY DEF HandleStep, GetArc, NewArc, DropArc, HasValue, Points
<1>1. /\ heap' \in [Cell -> Option(SinVal)]
      /\ held' \in SUBSET Cell /\ Static \subseteq held'
      /\ \A c \in held' : heap'[c] # None
      /\ \A z \in Singleton, c \in Cell : Points(z, c) =>
            /\ heap'[c] = heap[c]
            /\ class[z] = "Box" => c \notin held'
      /\ \A c \in held \cap held' : heap'[c] = heap[c]
    <2>1. CASE \E s \in Singleton : GetArc(s)
        <3>1. PICK s \in Singleton : GetArc(s)
            BY <2>1
        <3> DEFINE c == entries[s].sin.payload
        <3>2. c \in Cell /\ Points(s, c) /\ class[s] # "Box"
            BY <3>1, EntryTyped DEF GetArc, Points
        <3>3. held' = held \cup {c} /\ heap' = heap /\ heap[c] # None
            BY <3>1, <3>2 DEF GetArc, SinInv
        <3>4. \A b \in Singleton : class[b] = "Box" => ~Points(b, c)
            BY <3>2 DEF SinInv
        <3> QED BY <3>2, <3>3, <3>4 DEF SinInv, SinTypeOK
    <2>2. CASE \E c \in Cell, v \in SinVal : NewArc(c, v)
        <3>1. PICK c \in Cell, v \in SinVal : NewArc(c, v)
            BY <2>2
        <3>2. /\ heap[c] = None /\ held' = held \cup {c}
              /\ heap' = [heap EXCEPT ![c] = v] /\ v # None
            BY <3>1, SingletonsAssumption DEF NewArc
        <3>3. \A z \in Singleton : ~Points(z, c)
            BY <3>2 DEF SinInv
        <3> QED BY <3>2, <3>3 DEF SinInv, SinTypeOK, Option
    <2>3. CASE \E c \in Cell : DropArc(c)
        <3>1. /\ held' \subseteq held /\ Static \subseteq held'
              /\ heap' = Freed(heap, entries, held')
            BY <2>3 DEF DropArc, SinInv
        <3>2. \A z \in Singleton, c \in Cell : Points(z, c) => heap'[c] = heap[c]
            BY <3>1, PointedByEntries DEF Freed
        <3>3. \A c \in held' : heap'[c] = heap[c]
            BY <3>1 DEF Freed, SinInv, SinTypeOK
        <3>4. heap' \in [Cell -> Option(SinVal)]
            BY <3>1 DEF Freed, SinInv, SinTypeOK, Option
        <3> QED BY <3>1, <3>2, <3>3, <3>4 DEF SinInv, SinTypeOK
    <2> QED BY <2>1, <2>2, <2>3 DEF HandleStep
<1>2. SinInv'
    BY <1>0, <1>1 DEF SinInv, SinTypeOK
<1>3. ASSUME NEW z \in Singleton PROVE SinGet(z)' = SinGet(z)
    <2>1. CASE HasValue(z) /\ entries[z].sin.variant # "U64"
        <3>1. entries[z].sin.payload \in Cell /\ Points(z, entries[z].sin.payload)
            BY <2>1, EntryTyped DEF Points
        <3> QED BY <1>0, <1>1, <3>1 DEF SinGet, FromValueRef
    <2>2. CASE ~(HasValue(z) /\ entries[z].sin.variant # "U64")
        BY <1>0, <2>2 DEF SinGet, FromValueRef
    <2> QED BY <2>1, <2>2
<1> QED BY <1>0, <1>1, <1>2, <1>3

----------------------------------------------------------------------------
(* The invariant, and what follows from it.                                 *)

LEMMA InitInv == SinInit => SinInv
<1> SUFFICES ASSUME SinInit PROVE SinInv
    OBVIOUS
<1>1. PICK values \in [Static -> SinVal] :
          heap = [c \in Cell |-> IF c \in Static THEN values[c] ELSE None]
    BY DEF SinInit
<1>2. /\ entries = [s \in Singleton |-> None] /\ held = Static
      /\ Static \subseteq Cell
    BY SingletonsAssumption DEF SinInit
<1>3. \A s \in Singleton : ~HasValue(s)
    BY <1>2 DEF HasValue
<1>4. heap \in [Cell -> Option(SinVal)] /\ \A c \in Static : heap[c] # None
    BY <1>1, <1>2, SingletonsAssumption DEF Option
<1>5. entries \in [Singleton -> Option(Entry)]
    BY <1>2 DEF Option
<1> QED BY <1>2, <1>3, <1>4, <1>5 DEF SinInv, SinTypeOK, Points

\* Every call that puts something in, at once.
LEMMA PutSteps ==
    ASSUME SinInv, NEW o \in Owner, NEW s \in Singleton,
           Insert(o, s) \/ Remove(o, s) \/ Clear(o, s)
    PROVE  \E entry, h : Fits(s, entry, h) /\ Put(s, entry, h)
BY InsertFits, RemoveAndClearFit DEF Insert, Remove, Clear

LEMMA StepInv == SinInv /\ [SinNext]_sinVars => SinInv'
<1> SUFFICES ASSUME SinInv, [SinNext]_sinVars PROVE SinInv'
    OBVIOUS
<1>1. CASE \E s \in Singleton, o \in Owner :
              Insert(o, s) \/ Remove(o, s) \/ Clear(o, s)
    BY <1>1, PutSteps, PutKeepsInv
<1>2. CASE \E s \in Singleton, o \in Owner, v \in SinVal : Mutate(o, s, v)
    BY <1>2, MutateStep
<1>3. CASE HandleStep
    BY <1>3, HandleSteps
<1>4. CASE UNCHANGED sinVars
    BY <1>4 DEF sinVars, SinInv, SinTypeOK, Points, HasValue
<1> QED BY <1>1, <1>2, <1>3, <1>4 DEF SinNext, HandleStep

THEOREM SinInvariant == SinSpec => []SinInv
BY InitInv, StepInv, PTL DEF SinSpec

\* Entries, cells and handles keep their types in every sequence of calls.
THEOREM SingletonsTyped == SinSpec => []SinTypeOK
<1>1. SinInv => SinTypeOK
    BY DEF SinInv
<1> QED BY <1>1, SinInvariant, PTL

\* Whatever an accessor finds has the variant that its singleton was declared
\* with: no conversion that singleton! generates comes to its unreachable!().
THEOREM ConversionsSucceed == SinSpec => []VariantsMatch
<1>1. SinInv => VariantsMatch
    BY DEF SinInv, VariantsMatch
<1> QED BY <1>1, SinInvariant, PTL

\* Nobody else has the cell that mutate gives its closure a &mut to: no Arc,
\* no static reference, no second singleton.
THEOREM MutableStaysUnique == SinSpec => []MutableIsUnique
<1>1. ASSUME SinInv PROVE MutableIsUnique
    <2> SUFFICES ASSUME NEW s \in Singleton, HasValue(s), MutSingleton(s),
                        entries[s].sin.variant # "U64"
                 PROVE  entries[s].sin.payload
                            \notin held \cup Pointed([entries EXCEPT ![s] = None])
        BY DEF MutableIsUnique
    <2>0. class[s] = "Box"
        BY <1>1, EntryTyped DEF MutSingleton
    <2>1. PICK c \in Cell : c = entries[s].sin.payload /\ Points(s, c)
        BY <1>1, <2>0, EntryTyped DEF Points
    <2>2. c \notin held /\ \A z \in Singleton \ {s} : ~Points(z, c)
        BY <1>1, <2>0, <2>1 DEF SinInv
    <2>3. ASSUME c \in Pointed([entries EXCEPT ![s] = None]) PROVE FALSE
        <3> DEFINE es == [entries EXCEPT ![s] = None]
        <3>1. PICK z \in Singleton :
                  /\ es[z] # None /\ es[z].sin.variant \in Variant \ {"U64"}
                  /\ es[z].sin.payload = c
            BY <2>3 DEF Pointed
        <3>2. z # s /\ es[z] = entries[z]
            BY <1>1, <3>1 DEF SinInv, SinTypeOK
        <3>3. Points(z, c)
            BY <3>1, <3>2 DEF Points, HasValue, Tombstone, Variant
        <3> QED BY <2>2, <3>2, <3>3
    <2> QED BY <2>1, <2>2, <2>3
<1> QED BY <1>1, SinInvariant, PTL

\* While a caller keeps an Arc or a static reference, the value behind it does
\* not change, through every call of anybody.
THEOREM SharedValuesAreStable == SinSpec => SharedValuesStay
<1>1. ASSUME SinInv, [SinNext]_sinVars
      PROVE  [\A c \in held \cap held' : heap'[c] = heap[c]]_sinVars
    <2>1. CASE \E s \in Singleton, o \in Owner :
                  Insert(o, s) \/ Remove(o, s) \/ Clear(o, s)
        BY <1>1, <2>1, PutSteps, PutKeepsValues
    <2>2. CASE \E s \in Singleton, o \in Owner, v \in SinVal : Mutate(o, s, v)
        BY <1>1, <2>2, MutateStep
    <2>3. CASE HandleStep
        BY <1>1, <2>3, HandleSteps
    <2>4. CASE UNCHANGED sinVars
        BY <2>4
    <2> QED BY <1>1, <2>1, <2>2, <2>3, <2>4 DEF SinNext, HandleStep
<1> QED BY <1>1, SinInvariant, PTL DEF SinSpec, SharedValuesStay

----------------------------------------------------------------------------
(* The refinement.                                                          *)

LEMMA InitPairs == SinInit => Pairs!StorageInit
<1> SUFFICES ASSUME SinInit PROVE Pairs!StorageInit
    OBVIOUS
<1>1. \A s \in Singleton : Pair(s) = [owner |-> None, value |-> None]
    BY DEF SinInit, Pair, SinGet, HasValue
<1>2. [s \in Singleton |-> Pair(s)] =
          [s \in Singleton |-> [owner |-> None, value |-> None]]
    BY <1>1
<1> QED BY <1>2 DEF Pairs!StorageInit, Pairs!NoSinEntry, Pairs!NoEntries, Nothing

\* A call on s changes the pair of s to what Storage says, and no other.
LEMMA PairsSet ==
    ASSUME SinInv, NEW o \in Owner, NEW s \in Singleton, NEW pair,
           AssertOwner(s, o), Pair(s)' = pair,
           \A z \in Singleton \ {s} : Pair(z)' = Pair(z)
    PROVE  /\ Pairs!AssertOwner(Pair(s).owner, o)
           /\ Pairs!SetSingleton(s, pair)
<1>1. [z \in Singleton |-> Pair(z)]' = [[z \in Singleton |-> Pair(z)] EXCEPT ![s] = pair]
    OBVIOUS
<1>2. Pairs!AssertOwner(Pair(s).owner, o)
    BY DEF AssertOwner, Pair, Pairs!AssertOwner
<1> QED BY <1>1, <1>2 DEF Pairs!SetSingleton, Nothing

AccessorsTyped == \A s \in Singleton : HasValue(s) => SinGet(s) \in SinVal

LEMMA TypedAfter == SinInv' => AccessorsTyped'
<1>1. SinInv => AccessorsTyped
    BY GetTyped DEF AccessorsTyped
<1> QED BY <1>1, PTL

LEMMA InsertActs ==
    ASSUME SinInv, NEW o \in Owner, NEW s \in Singleton, Insert(o, s)
    PROVE  \E v \in SinVal : Pairs!SingletonInsert(o, s, v)
<1>1. PICK new \in ToValue(s) :
          Put(s, [owner |-> o, sin |-> new.sin], new.heap)
    BY DEF Insert
<1> DEFINE entry == [owner |-> o, sin |-> new.sin]
<1>2. Fits(s, entry, new.heap) /\ entry \in Entry /\ new.sin # Tombstone
    BY InsertFits
<1>3. /\ entries'[s] = entry /\ entry # None /\ HasValue(s)'
      /\ \A z \in Singleton \ {s} : entries'[z] = entries[z]
    <2>1. entry # None
        BY <1>2, EntryAssumption
    <2> QED BY <1>1, <1>2, <2>1, PutPoints
<1>4. SinGet(s)' \in SinVal
    <2>1. SinInv'
        BY <1>1, <1>2, PutKeepsInv
    <2> QED BY <1>3, <2>1, TypedAfter DEF AccessorsTyped
<1>5. Pair(s)' = [owner |-> o, value |-> SinGet(s)']
    BY <1>3 DEF Pair
<1>6. \A z \in Singleton \ {s} : Pair(z)' = Pair(z)
    BY <1>1, <1>2, <1>3, PutKeepsValues DEF Pair
<1>7. Pairs!SingletonInsert(o, s, SinGet(s)')
    BY <1>5, <1>6, PairsSet DEF Insert, Pairs!SingletonInsert
<1> QED BY <1>4, <1>7

LEMMA RemoveActs ==
    ASSUME SinInv, NEW o \in Owner, NEW s \in Singleton, Remove(o, s)
    PROVE  Pairs!SingletonRemove(o, s)
<1>1. Put(s, None, heap) /\ Fits(s, None, heap)
    BY RemoveAndClearFit DEF Remove
<1>2. /\ entries'[s] = None
      /\ \A z \in Singleton \ {s} : entries'[z] = entries[z]
    BY <1>1, PutPoints
<1>3. Pair(s)' = [owner |-> None, value |-> None]
    BY <1>2 DEF Pair, SinGet, HasValue
<1>4. \A z \in Singleton \ {s} : Pair(z)' = Pair(z)
    BY <1>1, <1>2, PutKeepsValues DEF Pair
<1> QED BY <1>3, <1>4, PairsSet
       DEF Remove, Pairs!SingletonRemove, Pairs!NoSinEntry

LEMMA ClearActs ==
    ASSUME SinInv, NEW o \in Owner, NEW s \in Singleton, Clear(o, s)
    PROVE  Pairs!SingletonClear(o, s)
<1> DEFINE entry == [owner |-> o, sin |-> Tombstone]
<1>1. Put(s, entry, heap) /\ Fits(s, entry, heap)
    BY RemoveAndClearFit DEF Clear
<1>2. /\ entries'[s] = entry /\ entry # None /\ ~HasValue(s)'
      /\ \A z \in Singleton \ {s} : entries'[z] = entries[z]
    <2>1. entry \in Entry
        BY DEF Entry, SinValue
    <2>2. entry # None
        BY <2>1, EntryAssumption
    <2> QED BY <1>1, <2>2, PutPoints
<1>3. Pair(s)' = [owner |-> o, value |-> None]
    BY <1>2 DEF Pair, SinGet
<1>4. \A z \in Singleton \ {s} : Pair(z)' = Pair(z)
    BY <1>1, <1>2, PutKeepsValues DEF Pair
<1> QED BY <1>3, <1>4, PairsSet DEF Clear, Pairs!SingletonClear

LEMMA MutateActs ==
    ASSUME SinInv, NEW o \in Owner, NEW s \in Singleton, NEW v \in SinVal,
           Mutate(o, s, v)
    PROVE  Pairs!SingletonMutate(o, s, v)
<1>1. /\ SinGet(s)' = v
      /\ \A z \in Singleton \ {s} : SinGet(z)' = SinGet(z)
      /\ \A z \in Singleton :
            /\ entries'[z] = None <=> entries[z] = None
            /\ entries[z] # None => entries'[z].owner = entries[z].owner
    BY MutateStep
<1>2. Pair(s)' = [Pair(s) EXCEPT !.value = v]
    BY <1>1 DEF Pair
<1>3. \A z \in Singleton \ {s} : Pair(z)' = Pair(z)
    BY <1>1 DEF Pair
<1>4. Pair(s).value # None
    <2>1. HasValue(s)
        BY DEF Mutate
    <2> QED BY <2>1, GetTyped DEF Pair
<1> QED BY <1>2, <1>3, <1>4, PairsSet DEF Mutate, Pairs!SingletonMutate

LEMMA StepPairs ==
    SinInv /\ [SinNext]_sinVars =>
        [\E o \in Owner : Pairs!SingletonCall(o)]_(Pairs!storageVars)
<1> SUFFICES ASSUME SinInv, [SinNext]_sinVars
             PROVE  \/ \E o \in Owner : Pairs!SingletonCall(o)
                    \/ UNCHANGED Pairs!storageVars
    OBVIOUS
<1>1. CASE \E o \in Owner, s \in Singleton :
              \/ Insert(o, s) \/ Remove(o, s) \/ Clear(o, s)
              \/ \E v \in SinVal : Mutate(o, s, v)
    BY <1>1, InsertActs, RemoveActs, ClearActs, MutateActs DEF Pairs!SingletonCall
<1>2. CASE HandleStep \/ UNCHANGED sinVars
    <2>1. entries' = entries /\ \A z \in Singleton : SinGet(z)' = SinGet(z)
        <3>1. CASE HandleStep
            BY <3>1, HandleSteps
        <3>2. CASE UNCHANGED sinVars
            BY <3>2 DEF sinVars, SinGet, HasValue, FromValueRef
        <3> QED BY <1>2, <3>1, <3>2
    <2>2. \A z \in Singleton : Pair(z)' = Pair(z)
        BY <2>1 DEF Pair
    <2>3. [z \in Singleton |-> Pair(z)]' = [z \in Singleton |-> Pair(z)]
        BY <2>2
    <2> QED BY <2>3 DEF Pairs!storageVars, Nothing
<1> QED BY <1>1, <1>2 DEF SinNext, HandleStep

LEMMA StepActs == SinInv /\ [SinNext]_sinVars => [CallsActOnPairs]_sinVars
BY InsertActs, RemoveActs, ClearActs, MutateActs DEF CallsActOnPairs

\* Inline values, boxes, shared Arcs and references, freed and re-used cells
\* and handles that outlive guards implement the (owner, value) pairs that
\* the rest of the project takes singletons to be, call by call.
THEOREM SingletonsArePairs == SinSpec => ImplementsPairs
BY InitPairs, StepPairs, StepActs, SinInvariant, PTL DEF SinSpec, ImplementsPairs

----------------------------------------------------------------------------
(* Whose a singleton is.                                                    *)

LEMMA ClaimSteps == [ClaimNext]_claimVars => [SinNext]_sinVars
BY DEF ClaimNext, Take, GiveUp, Use, SinNext, claimVars

\* The history variable adds no behaviour to the singletons, so that what is
\* shown of Singletons alone holds with it.
THEOREM ClaimsAreHistory == ClaimSpec => SinSpec
BY ClaimSteps, PTL DEF ClaimSpec, ClaimInit, SinSpec

\* The owner in the entry of s, tombstone or not.
EntryOwner(s) == IF entries[s] = None THEN None ELSE entries[s].owner

ClaimInv ==
    /\ claim \in [Singleton -> Option(Owner)]
    /\ \A s \in Singleton : claim[s] = EntryOwner(s)

LEMMA TakeKeepsClaims ==
    ASSUME SinInv, ClaimInv, DebugAssertions,
           NEW o \in Owner, NEW s \in Singleton, Take(o, s)
    PROVE  ClaimInv'
<1>1. PICK sin \in SinValue : entries' = [entries EXCEPT ![s] = [owner |-> o, sin |-> sin]]
    <2>1. CASE Insert(o, s)
        <3>1. PICK new \in ToValue(s) :
                  Put(s, [owner |-> o, sin |-> new.sin], new.heap)
            BY <2>1 DEF Insert
        <3>2. new.sin \in SinValue
            BY InsertFits DEF Entry
        <3> QED BY <3>1, <3>2 DEF Put
    <2>2. CASE Clear(o, s)
        BY <2>2 DEF Clear, Put, SinValue
    <2> QED BY <2>1, <2>2 DEF Take
<1>2. [owner |-> o, sin |-> sin] # None
    BY EntryAssumption DEF Entry
<1>3. /\ EntryOwner(s)' = o
      /\ \A z \in Singleton \ {s} : EntryOwner(z)' = EntryOwner(z)
    BY <1>1, <1>2 DEF EntryOwner, SinInv, SinTypeOK
<1>4. claim[s] = None \/ claim[s] = o
    BY DEF Take, Insert, Clear, AssertOwner, ClaimInv, EntryOwner
<1>5. claim' = [claim EXCEPT ![s] = o]
    BY <1>4 DEF Take, ClaimInv
<1> QED BY <1>3, <1>5 DEF ClaimInv, Option

LEMMA GiveUpKeepsClaims ==
    ASSUME SinInv, ClaimInv, DebugAssertions,
           NEW o \in Owner, NEW s \in Singleton, GiveUp(o, s)
    PROVE  ClaimInv'
<1>1. /\ EntryOwner(s)' = None
      /\ \A z \in Singleton \ {s} : EntryOwner(z)' = EntryOwner(z)
    BY DEF GiveUp, Remove, Put, EntryOwner, SinInv, SinTypeOK
<1>2. claim[s] = None \/ claim[s] = o
    BY DEF GiveUp, Remove, AssertOwner, ClaimInv, EntryOwner
<1>3. claim' = [claim EXCEPT ![s] = None]
    BY <1>2 DEF GiveUp, ClaimInv
<1> QED BY <1>1, <1>3 DEF ClaimInv, Option

LEMMA UseKeepsClaims ==
    ASSUME SinInv, ClaimInv, Use
    PROVE  ClaimInv'
<1>1. \A s \in Singleton : EntryOwner(s)' = EntryOwner(s)
    BY MutateStep DEF Use, GetArc, NewArc, DropArc, EntryOwner
<1> QED BY <1>1 DEF ClaimInv, Use

\* In a debug build a singleton belongs, through every sequence of calls, to
\* the first who inserted or cleared it since its claimant last removed it:
\* only that owner's remove gives it up; neither its clear nor anybody
\* else's call does, and no insert takes it over.
THEOREM ClaimantsOwn == DebugAssertions => (ClaimSpec => []OwnerIsClaimant)
<1> SUFFICES ASSUME DebugAssertions PROVE ClaimSpec => []OwnerIsClaimant
    OBVIOUS
<1>1. ClaimInit => ClaimInv
    BY DEF ClaimInit, SinInit, ClaimInv, EntryOwner, Option
<1>2. SinInv /\ ClaimInv /\ [ClaimNext]_claimVars => ClaimInv'
    <2> SUFFICES ASSUME SinInv, ClaimInv, [ClaimNext]_claimVars PROVE ClaimInv'
        OBVIOUS
    <2>1. CASE UNCHANGED claimVars
        BY <2>1 DEF claimVars, sinVars, ClaimInv, EntryOwner
    <2> QED BY <2>1, TakeKeepsClaims, GiveUpKeepsClaims, UseKeepsClaims DEF ClaimNext
<1>3. ClaimInv => OwnerIsClaimant
    BY DEF ClaimInv, EntryOwner, OwnerIsClaimant, Pair
<1> QED BY <1>1, <1>2, <1>3, ClaimsAreHistory, SinInvariant, PTL DEF ClaimSpec
=============================================================================
