------------------------------ MODULE CDDBStore -----------------------------
(***************************************************************************)
(* What the clients of the database may rely on, however many imports run: *)
(* the CDs that were once published stay, with their track lengths, and    *)
(* so do the answers to a disc id: what a lookup has found it finds again, *)
(* in the same order, and perhaps more behind it.  A published id always   *)
(* leads to a published CD.  This holds until the file is damaged: of a    *)
(* damaged store nothing is promised.                                      *)
(***************************************************************************)
EXTENDS Sequences, Functions, SequencesExt

CONSTANTS DiscIds, FuzzyIds

VARIABLES
    store,      \* [lengths : CD -> track lengths, exact, fuzzy : id -> CDs]
    damaged     \* the process was killed while the file was written

\* No id leads to a CD that is not published.
Complete(s) ==
    /\ \A d \in DiscIds  : Range(s.exact[d]) \subseteq DOMAIN s.lengths
    /\ \A f \in FuzzyIds : Range(s.fuzzy[f]) \subseteq DOMAIN s.lengths

\* s has all that t has.
Extends(s, t) ==
    /\ DOMAIN t.lengths \subseteq DOMAIN s.lengths
    /\ \A c \in DOMAIN t.lengths : s.lengths[c] = t.lengths[c]
    /\ \A d \in DiscIds  : IsPrefix(t.exact[d], s.exact[d])
    /\ \A f \in FuzzyIds : IsPrefix(t.fuzzy[f], s.fuzzy[f])

Init ==
    /\ DOMAIN store.lengths = {}
    /\ store.exact = [d \in DiscIds |-> <<>>]
    /\ store.fuzzy = [f \in FuzzyIds |-> <<>>]
    /\ damaged = FALSE

\* An import publishes what it has written, all at once.
Publish == /\ ~damaged /\ ~damaged'
           /\ Complete(store')
           /\ Extends(store', store)

\* A kill may leave anything behind, but only once.
Damage == ~damaged /\ damaged'

Spec == Init /\ [][Publish \/ Damage]_<<store, damaged>>
=============================================================================
