-------------------------------- MODULE Claims --------------------------------
(***************************************************************************)
(* Singletons with a history variable that tells whose each singleton      *)
(* should be, from the calls that were made rather than from the entries.  *)
(***************************************************************************)
EXTENDS Singletons

VARIABLE
    claim   \* History variable: claim[s] is who first put something into s,
            \* or cleared it, since its claimant last removed it.

claimVars == <<sinVars, claim>>

ClaimInit == SinInit /\ claim = [s \in Singleton |-> None]

Take(o, s) ==
    /\ Insert(o, s) \/ Clear(o, s)
    /\ claim' = [claim EXCEPT ![s] = IF @ = None THEN o ELSE @]

\* A removal by anybody else gives nothing up.
GiveUp(o, s) ==
    /\ Remove(o, s)
    /\ claim' = [claim EXCEPT ![s] = IF @ = o THEN None ELSE @]

\* The other calls, and what callers do with handles.
Use ==
    /\ \/ \E s \in Singleton :
             \/ \E o \in Owner, v \in SinVal : Mutate(o, s, v)
             \/ GetArc(s)
       \/ \E c \in Cell : (\E v \in SinVal : NewArc(c, v)) \/ DropArc(c)
    /\ UNCHANGED claim

ClaimNext ==
    Use \/ \E o \in Owner, s \in Singleton : Take(o, s) \/ GiveUp(o, s)

ClaimSpec == ClaimInit /\ [][ClaimNext]_claimVars

\* In a debug build a singleton belongs to its claimant: clearing it does not
\* give it up, removing it does, nobody but the claimant can remove it, and
\* no insert takes it over (operations.rs, SingletonOpsMut; raw.rs,
\* test singleton_clear_blocks_other_owner).
OwnerIsClaimant == \A s \in Singleton : Pair(s).owner = claim[s]
=============================================================================
