---------------------------- MODULE MCPublishing ----------------------------
\* Three bounded instances of Publishing in one run: two publish requests with
\* revisions and no mail; requests one at a time with mail workers and no
\* revision; two requests with neither, under a connection of two locations.
EXTENDS Publishing, TLC

VARIABLE instance

First == CHOOSE l \in Locations : TRUE

mcVars == <<vars, instance>>

MCInit == Init /\ instance \in {"revisions", "mail", "locations"}

MCNext ==
    /\ Next
    /\ instance # "mail" => \A m \in Mailers : inv'[m].pc = "idle"
    /\ instance = "mail" =>
          Cardinality({p \in Publishers : inv'[p].pc # "idle"}) <= 1
    /\ instance # "revisions" => \A c \in Cycles : row'[c].revision = 1
    /\ instance # "locations" => conn'.offered \subseteq {First}
    /\ UNCHANGED instance

MCSpec == MCInit /\ [][MCNext]_mcVars

Symmetry == Permutations(Publishers) \cup Permutations(Mailers)
=============================================================================
